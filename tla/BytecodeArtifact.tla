---------------------------- MODULE BytecodeArtifact ----------------------------
(***************************************************************************)
(* The two forms in which the compiler keeps a script: a list of texts, and*)
(* the typed artifact of src/src/bytecode/bytecode_ir.h beside it. Both are*)
(* made by src/src/bytecode/bytecode_generator.cpp, converted into each    *)
(* other by src/src/bytecode/legacy_bytecode_adapter.h, and rewritten      *)
(* together by src/src/bytecode/bytecode_artifact_rewriter.h.              *)
(*                                                                         *)
(* A text is the bytes of an instruction, or a placeholder <label> for a   *)
(* constructor field that is known only when the script is deployed. A     *)
(* label is the characters of a field's name, to which the field's size may*)
(* have been appended.                                                     *)
(***************************************************************************)
EXTENDS ScriptCodec

CONSTANT NoSize     \* the size of a placeholder of which none is declared
ASSUME NoSizeAssumption == NoSize \notin Nat

Text(bytes)       == [label |-> <<>>, bytes |-> bytes]
PlaceholderText(label) == [label |-> label, bytes |-> <<>>]
isPlaceholder(text)    == text.label # <<>>

Body(kind, bytes) == [kind |-> kind, bytes |-> bytes, label |-> <<>>, size |-> NoSize]
Placeholder(label, size) ==
    [kind |-> "placeholder", bytes |-> <<>>, label |-> label, size |-> size]
RawSuffix(text) == Body("raw", text.bytes)

Instr(id, body, region, origins, text) ==
    [id |-> id, body |-> body, region |-> region, origins |-> origins, text |-> text]

Return == OpcodeByte("RETURN")
IsReturn(body) == body = Body("opcode", <<Return>>)

Texts(code) == [pc \in DOMAIN code |-> code[pc].text]

(* The decimal characters of a size, and a label that ends with them.      *)
Decimal(n) == IF n < 10 THEN <<ToString(n)>>
              ELSE <<ToString(n \div 10), ToString(n % 10)>>
endsWith(label, size) == IsSuffix(Decimal(size), label)
MutWithSize(label, size) == label \o Decimal(size)
WithSize(label, size) ==
    IF endsWith(label, size) THEN label ELSE label \o Decimal(size)
-----------------------------------------------------------------------------
(* The adapter.                                                            *)

parseExecutableAtom(text) ==
    LET push == decodePush(text.bytes, FALSE)
    IN  CASE isPlaceholder(text)    -> Placeholder(text.label, NoSize)
          [] ~isPlaceholder(text) /\ push.error = "none" -> Body("push", push.payload)
          [] ~isPlaceholder(text) /\ push.error = "notPush" /\ Len(text.bytes) = 1 ->
                 Body("opcode", text.bytes)
          [] OTHER -> Body("barrier", text.bytes)

(* The instructions behind the last OP_RETURN are the suffix.              *)
findImmutableSuffixBoundary(texts) ==
    SelectLastInSeq(texts, LAMBDA t : t = Text(<<Return>>))

import(texts) ==
    LET boundary == findImmutableSuffixBoundary(texts)
        InSuffix(k) == boundary # 0 /\ k > boundary
    IN  [k \in DOMAIN texts |->
            Instr(k, IF InSuffix(k) /\ ~isPlaceholder(texts[k])
                     THEN RawSuffix(texts[k]) ELSE parseExecutableAtom(texts[k]),
                  IF InSuffix(k) THEN "suffix" ELSE "executable", {k}, texts[k])]
-----------------------------------------------------------------------------
(* The generator. Instructions are numbered in the order they are emitted. *)

emitOpcode(code, name) ==
    LET id == Len(code) + 1
        text == <<OpcodeByte(name)>>
    IN  Append(code, Instr(id, Body("opcode", text), "executable", {id}, Text(text)))

(* A fragment is one placeholder or some bytes, which may be several       *)
(* instructions. One that cannot be split is kept whole, as a barrier that *)
(* no canonical script can be materialised with.                           *)
emitPlaceholder(code, label) ==
    LET id == Len(code) + 1
    IN  Append(code, Instr(id, Placeholder(label, NoSize), "executable", {id},
                           PlaceholderText(label)))

emitBytes(code, bytes) ==
    LET split == splitScriptFragment(bytes)
        atoms == IF split = <<>> /\ bytes # <<>> THEN <<Atom("barrier", bytes, bytes)>>
                 ELSE split
        id(k) == Len(code) + k
    IN  code \o [k \in DOMAIN atoms |->
                    Instr(id(k), Body(atoms[k].kind, atoms[k].bytes), "executable",
                          {id(k)}, Text(atoms[k].text))]

(* What is behind the last OP_RETURN of the finished script is its suffix. *)
MarkSuffix(code) ==
    LET last == SelectLastInSeq(code, LAMBDA i : IsReturn(i.body))
    IN  [pc \in DOMAIN code |->
            IF last # 0 /\ pc > last THEN [code[pc] EXCEPT !.region = "suffix"]
            ELSE code[pc]]

(* The declared size of the field that a label names: the field itself, or *)
(* the longest one whose name and size it consists of.                     *)
DeclaredField(label, lengths) ==
    LET spelled == {f \in DOMAIN lengths : label = f \o Decimal(lengths[f])}
    IN  IF label \in DOMAIN lengths THEN {label}
        ELSE {f \in spelled : \A g \in spelled : Len(g) <= Len(f)}

(* getBytecodeArtifact: a placeholder has its field's own name and size.   *)
NamePlaceholders(code, lengths) ==
    [pc \in DOMAIN code |->
        LET i == code[pc]
            fields == DeclaredField(i.body.label, lengths)
        IN  IF i.body.kind # "placeholder" \/ fields = {} THEN i
            ELSE LET f == CHOOSE f \in fields : TRUE
                 IN  [i EXCEPT !.body = Placeholder(f, lengths[f])]]
-----------------------------------------------------------------------------
(* The rewriter. An old place is mapped to a new one or dropped.           *)

Dropped == 0

(* The old instructions that a new one comes from.                         *)
reverseMapping(oldToNew, count) ==
    [new \in 1..count |-> {old \in DOMAIN oldToNew : oldToNew[old] = new}]

KnownSizes(code, label) ==
    {code[pc].body.size : pc \in {p \in DOMAIN code :
        code[p].body.kind = "placeholder" /\ code[p].body.label = label}} \ {NoSize}

(* What makes the rewriter give up, so that nothing is rewritten.          *)
Rewritable(code, texts, newToOld) ==
    /\ \A p, q \in DOMAIN code : p # q => code[p].id # code[q].id
    /\ \A pc \in DOMAIN code : code[pc].body.kind = "placeholder" =>
          Cardinality(KnownSizes(code, code[pc].body.label)) <= 1
    /\ DOMAIN newToOld = DOMAIN texts
    /\ \A m, n \in DOMAIN newToOld : m # n => newToOld[m] \intersect newToOld[n] = {}
    /\ \A n \in DOMAIN newToOld : \A p, q \in newToOld[n] :
          p \in DOMAIN code /\ code[p].region = code[q].region

(* A body survives where all that an instruction comes from have it and one*)
(* of them was spelled as the new text is.                                 *)
Survives(code, olds, text) ==
    /\ olds # {}
    /\ \A p, q \in olds : code[p].body = code[q].body
    /\ \E p \in olds : code[p].text = text

Sized(body, sizes) ==
    IF body.kind = "placeholder" /\ sizes # {}
    THEN [body EXCEPT !.size = CHOOSE s \in sizes : TRUE] ELSE body

NewBody(code, body) == Sized(body, KnownSizes(code, body.label))

(* An instruction is the first of those it comes from. What comes from none*)
(* has a new name.                                                         *)
Succeeding(code, olds, text, body) ==
    Instr(code[Min(olds)].id, NewBody(code, body), code[Min(olds)].region,
          UNION {code[p].origins : p \in olds}, text)

Fresh(used) == Max(used \union {0}) + 1

Inserted(code, earlier, parsed) ==
    Instr(Fresh({code[pc].id : pc \in DOMAIN code}) + earlier,
          NewBody(code, parsed.body), parsed.region,
          {Fresh(UNION {code[pc].origins : pc \in DOMAIN code}) + earlier}, parsed.text)

RewrittenAs(code, newToOld, parsed) ==
    LET Earlier(n) == Cardinality({m \in 1..n - 1 : newToOld[m] = {}})
    IN  [n \in DOMAIN parsed |->
            IF newToOld[n] = {} THEN Inserted(code, Earlier(n), parsed[n])
            ELSE Succeeding(code, newToOld[n], parsed[n].text,
                            IF Survives(code, newToOld[n], parsed[n].text)
                            THEN code[Min(newToOld[n])].body ELSE parsed[n].body)]

Rewritten(code, texts, newToOld) == RewrittenAs(code, newToOld, import(texts))
-----------------------------------------------------------------------------
(* Debug information follows the same mapping: an instruction has the      *)
(* origins of those it comes from, and what comes from none has no entry.  *)
(* DebugInfo::remapped, syncInstructionOpcodes.                            *)

MutRemapped(debug, texts, newToOld) ==
    [new \in {n \in DOMAIN texts : newToOld[n] \intersect DOMAIN debug # {}} |->
        [text |-> debug[Min(newToOld[new])].text,
         origins |-> UNION {debug[old].origins : old \in newToOld[new] \intersect DOMAIN debug}]]

remapped(debug, texts, newToOld) ==
    [new \in {n \in DOMAIN texts : newToOld[n] \intersect DOMAIN debug # {}} |->
        [text |-> texts[new],
         origins |-> UNION {debug[old].origins : old \in newToOld[new] \intersect DOMAIN debug}]]
=============================================================================
