----------------------------- MODULE ScriptLayout -----------------------------
(***************************************************************************)
(* A script from the compiler's last emission to the bytes of a deployed   *)
(* contract: what the program writes (ast_to_bytecode_visitor.cpp), the    *)
(* typed artifact that is made of it (ast_to_bytecode_converter.h), the    *)
(* rewrites of the peephole pass that both forms of it go through, the     *)
(* final layout (src/src/bytecode_finalize_pass.h), the result file        *)
(* (src/src/export_results_pass.h), and the payloads that take the place of*)
(* constructor fields (src/src/bytecode/bytecode_materializer.cpp).        *)
(*                                                                         *)
(* A legacy script is padded when it is compiled, with placeholders that   *)
(* carry their sizes; a canonical one is padded when it is materialised.   *)
(***************************************************************************)
EXTENDS BytecodeArtifact

CONSTANTS
    Fields,         \* the constructor's fields, as labels
    FieldLengths,   \* the sizes a contract may declare for some of them
    Payloads,       \* the literals a program pushes, and payloads of fields
    Numbers,        \* the numbers it pushes
    Used,           \* the stack opcodes it uses
    EntryStacks,    \* the stacks its callers leave
    Alignment,      \* 64
    MaxCode,        \* bounds: statements up to the Return that ends it, and
    MaxState,       \* pushes behind that
    Excluded        \* idioms the program does not use

ASSUME AlignmentAssumption == Alignment \in Nat \ {0} /\ Alignment - 2 <= MaxDirect
ASSUME LengthsAssumption ==
    \A l \in FieldLengths : DOMAIN l \subseteq Fields /\ \A f \in DOMAIN l : l[f] > 0

VARIABLES
    lengths,    \* m_selfPlaceholderLengths
    format,     \* the artifact's format
    written,    \* what the program has written so far, statement by statement
    code,       \* the generator's instructions, then the artifact's
    instrs,     \* the legacy view
    alignment,  \* the artifact's layout.executableAlignment, 0 for none
    debug,      \* debug information by instruction
    errors,     \* whether an error was reported
    phase,      \* "write", "passes", "finalized", "built", "temporary", "over"
    lock,       \* the result that is about to be written
    file,       \* the result file
    deployed    \* what was last made of it

vars == <<lengths, format, written, code, instrs, alignment, debug, errors,
          phase, lock, file, deployed>>

passes == <<code, instrs, alignment, debug, errors>>
result == <<lock, file, deployed>>

OldFile     == [kind |-> "old", texts |-> <<>>, code |-> <<>>]
NotDeployed == [ok |-> FALSE, bytes |-> <<>>, bindings |-> <<>>]

(* Two fields of which one is spelled with its size as the other is: both  *)
(* are then one placeholder.                                               *)
Spelling(f, l) == IF f \in DOMAIN l THEN WithSize(f, l[f]) ELSE f
SharesLabels(l) ==
    \E f, g \in Fields : /\ f # g
                         /\ \/ Spelling(f, l) = g
                            \/ g \in DOMAIN l /\ Spelling(f, l) = g \o Decimal(l[g])

Init ==
    /\ lengths \in {l \in FieldLengths : "sharedLabels" \in Excluded => ~SharesLabels(l)}
    /\ format \in {"legacy", "canonical"}
    /\ written = <<>>
    /\ code = <<>>
    /\ instrs = <<>>
    /\ alignment = 0
    /\ debug = <<>>
    /\ errors = FALSE
    /\ phase = "write"
    /\ lock = OldFile
    /\ file = OldFile
    /\ deployed = NotDeployed
-----------------------------------------------------------------------------
(* The program. An item pushes a value or a field, or is an opcode.        *)

Item(kind, name, value) == [kind |-> kind, name |-> name, value |-> value]

Opened(items) == Cardinality({k \in DOMAIN items : items[k].name = "IF"})
                     > Cardinality({k \in DOMAIN items : items[k].name = "ENDIF"})
(* A Return outside of the branch ends the program.                        *)
EndsAt == {k \in DOMAIN written :
              written[k].name = "RETURN" /\ ~Opened(SubSeq(written, 1, k))}
Ended == EndsAt # {}
BranchEnded == Opened(written) /\ Last(written).name = "RETURN"

Write(item, newCode) ==
    /\ phase = "write"
    /\ Len(written) < (IF Ended THEN Max(EndsAt) + MaxState ELSE MaxCode)
    /\ written' = Append(written, item)
    /\ code' = newCode
    /\ UNCHANGED <<lengths, format, instrs, alignment, debug, errors, phase, result>>

Executes == ~Ended /\ ~BranchEnded

WriteOpcode(name) ==
    /\ Executes
    /\ Write(Item("op", name, <<>>), emitOpcode(code, name))

WriteReturn == WriteOpcode("RETURN")

WriteIf    == ~Opened(written) /\ WriteOpcode("IF")
WriteEndIf ==
    /\ Opened(written)
    /\ Write(Item("op", "ENDIF", <<>>), emitOpcode(code, "ENDIF"))

WriteNumber(n) ==
    /\ Executes
    /\ Write(Item("push", "", serializeScriptNum(n)), emitBytes(code, numberToScriptHex(n)))

(* Only a Push may follow the Return that ends the program: it writes the  *)
(* contract's state, behind the code.                                      *)
WritePush(payload) ==
    /\ Executes \/ Ended
    /\ Write(Item("push", "", payload), emitBytes(code, encodePush(payload, "legacy")))

(* self.f in an expression.                                                *)
WriteField(f) ==
    /\ Executes
    /\ Write(Item("field", "", f), emitPlaceholder(code, f))

(* Push(self.f): appendSelfPlaceholderLengths. A field without a declared  *)
(* size is taken for one that has a size and is spelled like it, and is    *)
(* otherwise kept as it is; that is only allowed in the state.             *)
Digit == {Decimal(n)[1] : n \in 0..9}
SizedField(f) ==
    IF f \in DOMAIN lengths THEN {f}
    ELSE {g \in DOMAIN lengths : Last(g) \notin Digit /\ f = g \o Decimal(lengths[g])}

PushedLabel(f) ==
    IF SizedField(f) = {} THEN f
    ELSE WithSize(f, lengths[CHOOSE g \in SizedField(f) : TRUE])

WritePushField(f) ==
    /\ Ended \/ (Executes /\ SizedField(f) # {})
    /\ Write(Item("field", "", f), emitPlaceholder(code, PushedLabel(f)))

(* A statement behind the end of a program or a branch is skipped, and an  *)
(* executed Push of a field without a size ends the compilation.           *)

(* The program is complete: both forms of it, and its debug information.   *)
Compile ==
    LET made == NamePlaceholders(MarkSuffix(code), lengths)
    IN  /\ phase = "write"
        /\ written # <<>>
        /\ ~Opened(written)
        /\ code' = made
        /\ instrs' = Texts(made)
        /\ alignment' = Alignment
        /\ debug' = [pc \in DOMAIN made |->
                        [text |-> made[pc].text, origins |-> {pc}]]
        /\ phase' = "passes"
        /\ UNCHANGED <<lengths, format, written, errors, result>>
-----------------------------------------------------------------------------
(* The peephole pass: one rewritten window. Module BytecodePeephole has the*)
(* whole pass; here is what its rewrites make of the forms of a script.    *)

RegionPcs(region) == {pc \in DOMAIN code : code[pc].region = region}

optimizablePrefix ==
    LET pcs == RegionPcs("executable")
        returns == {pc \in pcs : IsReturn(code[pc].body)}
    IN  IF returns = {} THEN pcs ELSE {pc \in pcs : pc <= Max(returns)}

knownDataPlaceholder(label) ==
    {lengths[f] : f \in {g \in DOMAIN lengths : label \in {g, g \o Decimal(lengths[g])}}}

(* A push is only replaced by DUP where that is known to be smaller.       *)
isProfitableDuplicatePush(text) ==
    LET push  == decodePush(text.bytes, FALSE)
        known == knownDataPlaceholder(text.label)
    IN  IF isPlaceholder(text)
        THEN known # {} /\ (format = "legacy" \/ Min(known) > 1)
        ELSE push.error = "none" /\ Len(encodePush(push.payload, format)) > 1

WellFormedPush(text) ==
    IF isPlaceholder(text) THEN knownDataPlaceholder(text.label) # {}
    ELSE decodePush(text.bytes, FALSE).error = "none"

IsOpcode(text, name) == text = Text(<<OpcodeByte(name)>>)

(* Both forms and the debug information, or none of them, go along.        *)
Apply(texts, newToOld) ==
    IF Rewritable(code, texts, newToOld)
    THEN /\ instrs' = texts
         /\ code' = Rewritten(code, texts, newToOld)
         /\ debug' = remapped(debug, texts, newToOld)
    ELSE UNCHANGED <<instrs, code, debug>>

(* The instructions pc and pc + 1 are replaced by new ones; kept says which*)
(* of the two the first and the second of those come from.                 *)
ReplacePair(pc, new, kept) ==
    LET Place(old) ==
            CASE old < pc     -> old
              [] old > pc + 1 -> old - 2 + Len(new)
              [] old \in {pc, pc + 1} ->
                     IF \E k \in DOMAIN kept : pc + kept[k] = old
                     THEN pc - 1 + (CHOOSE k \in DOMAIN kept : pc + kept[k] = old)
                     ELSE Dropped
    IN  Apply(SubSeq(instrs, 1, pc - 1) \o new \o SubSeq(instrs, pc + 2, Len(instrs)),
              reverseMapping([old \in DOMAIN instrs |-> Place(old)],
                             Len(instrs) - 2 + Len(new)))

(* Three of the rules.                                                     *)
Replacement(new, kept) == [new |-> new, kept |-> kept]
Replacements(first, second) ==
    {r \in {Replacement(<<first, Text(<<OpcodeByte("DUP")>>)>>, <<0, 1>>)} :
        first = second /\ isProfitableDuplicatePush(first)}
    \union {r \in {Replacement(<<>>, <<>>)} :
        WellFormedPush(first) /\ IsOpcode(second, "DROP")}
    \union {r \in {Replacement(<<Text(<<OpcodeByte("NIP")>>)>>, <<1>>)} :
        IsOpcode(first, "SWAP") /\ IsOpcode(second, "DROP")}

Optimize(pc) ==
    /\ phase = "passes"
    /\ {pc, pc + 1} \subseteq optimizablePrefix
    /\ \E r \in Replacements(instrs[pc], instrs[pc + 1]) : ReplacePair(pc, r.new, r.kept)
    /\ UNCHANGED <<lengths, format, written, alignment, errors, phase, result>>
-----------------------------------------------------------------------------
(* The final layout.                                                       *)

(* selfPlaceholderPayloadLength, of a label that may carry its size.       *)
PayloadLengths(label) == {lengths[f] : f \in DeclaredField(label, lengths)}

instructionBytes(text) ==
    IF isPlaceholder(text)
    THEN legacySerializedPushSize(Min(PayloadLengths(text.label)))
    ELSE Len(text.bytes)

(* The code up to the OP_RETURN can be counted; its placeholders then carry*)
(* their sizes.                                                            *)
Countable(end) ==
    \A pc \in 1..end : isPlaceholder(instrs[pc]) => PayloadLengths(instrs[pc].label) # {}

Normalized(text) ==
    IF isPlaceholder(text)
    THEN PlaceholderText(WithSize(text.label, Min(PayloadLengths(text.label))))
    ELSE text

MutBytesToAlign(length) == length % Alignment
bytesToAlign(length) == (-length) % Alignment

makePushPadding(size) ==
    IF size = 1 THEN <<0>>
    ELSE <<size - 1>> \o [k \in 1..size - 1 |-> ByteBase - 1]

validRegionOrder ==
    \A p, q \in DOMAIN code : p < q =>
        CASE code[p].region = "executable" -> TRUE
          [] code[p].region = "padding"    -> code[q].region # "executable"
          [] code[p].region = "suffix"     -> code[q].region = "suffix"

(* Padding comes between the last OP_RETURN and the state; padding that is *)
(* there already is replaced.                                              *)
Padding(need) == IF need = 0 THEN <<>> ELSE <<Text(makePushPadding(need))>>

AsPadding(i) == [i EXCEPT !.region = "padding", !.body = parseExecutableAtom(i.text)]

ApplyLayout(return, pad, texts, newToOld) ==
    IF Rewritable(code, texts, newToOld)
    THEN /\ instrs' = texts
         /\ code' = LET made == Rewritten(code, texts, newToOld)
                    IN  [pc \in DOMAIN texts |->
                            IF pad # <<>> /\ pc = return + 1 THEN AsPadding(made[pc])
                            ELSE made[pc]]
         /\ debug' = remapped(debug, texts, newToOld)
    ELSE UNCHANGED <<instrs, code, debug>>

Pad(return, after, pad) ==
    LET Place(old) == CASE old <= return -> old
                        [] old > return /\ old <= after ->
                               IF pad = <<>> THEN Dropped ELSE return + 1
                        [] old > after -> old - after + return + Len(pad)
        count == return + Len(pad) + Len(instrs) - after
    IN  ApplyLayout(return, pad,
                    [pc \in 1..return |-> Normalized(instrs[pc])] \o pad
                        \o SubSeq(instrs, after + 1, Len(instrs)),
                    reverseMapping([old \in DOMAIN instrs |-> Place(old)], count))

Layout(return) ==
    LET size == FoldLeft(LAMBDA n, t : n + instructionBytes(t), 0, SubSeq(instrs, 1, return))
    IN  Pad(return, return + Cardinality(RegionPcs("padding")), Padding(bytesToAlign(size)))

(* Where the code does not end with an OP_RETURN nothing is laid out.      *)
LaidOut(return) ==
    /\ Len(code) = Len(instrs)
    /\ validRegionOrder
    /\ return # 0
    /\ IsReturn(code[return].body)

Finalize ==
    LET pcs    == RegionPcs("executable")
        return == IF pcs = {} THEN 0 ELSE Max(pcs)
    IN  /\ phase \in {"passes", "finalized"}
        /\ phase' = "finalized"
        /\ CASE format = "canonical" ->
                   /\ alignment' = Alignment
                   /\ UNCHANGED <<code, instrs, debug, errors>>
             [] format = "legacy" ->
                   /\ UNCHANGED alignment
                   /\ IF ~LaidOut(return)
                      THEN UNCHANGED <<code, instrs, debug, errors>>
                      ELSE IF ~Countable(return)
                      THEN errors' = TRUE /\ UNCHANGED <<code, instrs, debug>>
                      ELSE Layout(return) /\ UNCHANGED errors
        /\ UNCHANGED <<lengths, format, written, result>>
-----------------------------------------------------------------------------
(* Materialisation: the canonical bytes of an artifact, once the payloads  *)
(* of its placeholders are known.                                          *)

Failed      == [ok |-> FALSE, bytes |-> <<>>]
Made(bytes) == [ok |-> TRUE, bytes |-> bytes]

encodeInstruction(i, bindings) ==
    CASE i.body.kind = "opcode" ->
             IF i.body.bytes[1] \in 1..PushData4 THEN Failed ELSE Made(i.body.bytes)
      [] i.body.kind = "push" -> Made(encodePush(i.body.bytes, "canonical"))
      [] i.body.kind = "placeholder" ->
             IF \/ i.body.label \notin DOMAIN bindings
                \/ i.body.size # NoSize /\ i.body.size # Len(bindings[i.body.label])
             THEN Failed
             ELSE Made(encodePush(bindings[i.body.label], "canonical"))
      [] i.body.kind = "raw" ->
             IF i.region = "suffix" THEN Made(i.body.bytes) ELSE Failed
      [] i.body.kind = "barrier" -> Failed

Join(parts) ==
    IF \E k \in DOMAIN parts : ~parts[k].ok THEN Failed
    ELSE Made(FlattenSeq([k \in DOMAIN parts |-> parts[k].bytes]))

(* makePadding: chunks of at most what a direct push can hold.             *)
ChunkedPadding(size) ==
    LET chunk  == MaxDirect + 1
        Chunk(k) == makePushPadding(IF k * chunk <= size THEN chunk ELSE size % chunk)
    IN  FlattenSeq([k \in 1..(size + chunk - 1) \div chunk |-> Chunk(k)])

(* The state must be behind an OP_RETURN with which the code ends.         *)
WellPlaced(c, align) ==
    LET executable == {pc \in DOMAIN c : c[pc].region = "executable"}
        suffix     == {pc \in DOMAIN c : c[pc].region = "suffix"}
        last       == Max(executable)
    IN  /\ \A p, q \in DOMAIN c : p # q => c[p].id # c[q].id
        /\ executable \union suffix = DOMAIN c
        /\ \A p \in executable, q \in suffix : p < q
        /\ align # 0 \/ suffix # {} =>
              executable # {} /\ IsReturn(c[last].body)

materialize(c, align, bindings) ==
    LET Region(region) ==
            LET part == SelectSeq(c, LAMBDA i : i.region = region)
            IN  Join([k \in DOMAIN part |-> encodeInstruction(part[k], bindings)])
        executable == Region("executable")
        suffix     == Region("suffix")
        need       == IF align = 0 THEN 0 ELSE (-Len(executable.bytes)) % align
    IN  IF ~WellPlaced(c, align) \/ ~executable.ok \/ ~suffix.ok THEN Failed
        ELSE Made(executable.bytes \o ChunkedPadding(need) \o suffix.bytes)
-----------------------------------------------------------------------------
(* The result file.                                                        *)

Placeholders(c) == {pc \in DOMAIN c : c[pc].body.kind = "placeholder"}

(* validateCanonicalTemplate: an artifact with placeholders is materialised*)
(* with empty payloads and no sizes.                                       *)
ValidTemplate ==
    LET sizeless == [pc \in DOMAIN code |->
                        IF pc \in Placeholders(code)
                        THEN [code[pc] EXCEPT !.body.size = NoSize] ELSE code[pc]]
        empty == [label \in {code[pc].body.label : pc \in Placeholders(code)} |-> <<>>]
    IN  /\ \A pc \in Placeholders(code) :
              Cardinality(KnownSizes(code, code[pc].body.label)) <= 1
        /\ materialize(sizeless, alignment, empty).ok

(* buildLockData. A canonical script without placeholders is exported as   *)
(* the bytes it is materialised as.                                        *)
Exportable ==
    /\ code # <<>>
    /\ format = "canonical" =>
          IF Placeholders(code) # {} THEN ValidTemplate
          ELSE materialize(code, alignment, <<>>).ok

Lock(kind, texts, c) == [kind |-> kind, texts |-> texts, code |-> c]
BuiltLock ==
    CASE format = "legacy" -> Lock("legacy", Texts(code), <<>>)
      [] format = "canonical" /\ Placeholders(code) # {} -> Lock("template", <<>>, code)
      [] format = "canonical" /\ Placeholders(code) = {} ->
             Lock("hex", <<Text(materialize(code, alignment, <<>>).bytes)>>, <<>>)

BuildLock ==
    /\ phase = "finalized"
    /\ IF errors \/ ~Exportable
       THEN phase' = "over" /\ errors' = TRUE /\ UNCHANGED lock
       ELSE phase' = "built" /\ lock' = BuiltLock /\ UNCHANGED errors
    /\ UNCHANGED <<lengths, format, written, code, instrs, alignment, debug, file, deployed>>

(* writeAtomically: the result is written beside the file and then takes   *)
(* its place. Either step may fail, which is reported, and the process may *)
(* end before or after the file has been replaced.                         *)
NotPublished == phase' = "over" /\ errors' \in {errors, TRUE} /\ UNCHANGED file

WriteTemporary ==
    /\ phase = "built"
    /\ \/ phase' = "temporary" /\ UNCHANGED <<errors, file>>
       \/ NotPublished
    /\ UNCHANGED <<lengths, format, written, code, instrs, alignment, debug, lock, deployed>>

Publish ==
    /\ phase = "temporary"
    /\ \/ phase' = "over" /\ file' = lock /\ UNCHANGED errors
       \/ NotPublished
    /\ UNCHANGED <<lengths, format, written, code, instrs, alignment, debug, lock, deployed>>

(* Deployment: every field has a payload. A legacy script's placeholders   *)
(* are replaced by pushes, a template is materialised.                     *)
LegacyDeployment(texts, bindings) ==
    LET FieldsOf(label) == {f \in DOMAIN bindings : Spelling(f, lengths) = label \/ f = label}
        Bytes(t) == IF isPlaceholder(t)
                    THEN encodePush(bindings[CHOOSE f \in FieldsOf(t.label) : TRUE],
                                    "legacy")
                    ELSE t.bytes
    IN  Made(FlattenSeq([k \in DOMAIN texts |-> Bytes(texts[k])]))

(* Payloads are of the declared size, which only a template checks.        *)
Fitting(bindings) ==
    \A f \in DOMAIN bindings \intersect DOMAIN lengths : Len(bindings[f]) = lengths[f]

WrittenFields ==
    {written[k].value : k \in {j \in DOMAIN written : written[j].kind = "field"}}

Deploy(bindings) ==
    LET made == CASE file.kind = "legacy"   -> LegacyDeployment(file.texts, bindings)
                  [] file.kind = "template" -> materialize(file.code, alignment, bindings)
                  [] file.kind = "hex"      -> Made(file.texts[1].bytes)
    IN  /\ file # OldFile
        /\ phase = "over"
        /\ deployed = NotDeployed
        /\ Fitting(bindings) \/ file.kind = "template"
        /\ deployed' = [ok |-> made.ok, bytes |-> made.bytes, bindings |-> bindings]
        /\ UNCHANGED <<lengths, format, written, passes, phase, lock, file>>

Next ==
    \/ \E name \in Used : WriteOpcode(name)
    \/ WriteReturn
    \/ WriteIf
    \/ WriteEndIf
    \/ \E n \in Numbers : WriteNumber(n)
    \/ \E p \in Payloads : WritePush(p)
    \/ \E f \in Fields : WriteField(f)
    \/ \E f \in Fields : WritePushField(f)
    \/ Compile
    \/ \E pc \in 1..Len(instrs) - 1 : Optimize(pc)
    \/ Finalize
    \/ BuildLock
    \/ WriteTemporary
    \/ Publish
    \/ \E b \in [WrittenFields -> Payloads] : Deploy(b)

Spec == Init /\ [][Next]_vars
-----------------------------------------------------------------------------
(* Properties. The machine that runs a deployed script.                    *)

Start(stack) == [stack |-> stack, branch |-> "none", over |-> FALSE, ok |-> TRUE]

Needs(name) == CASE name \in {"DUP", "DROP", "IF"} -> 1
                 [] name \in {"SWAP", "NIP"} -> 2
                 [] OTHER -> 0

(* The top of the stack is its first element.                              *)
Rearranged(name, s) ==
    CASE name = "DUP"  -> <<s[1]>> \o s
      [] name = "DROP" -> Tail(s)
      [] name = "SWAP" -> <<s[2], s[1]>> \o SubSeq(s, 3, Len(s))
      [] name = "NIP"  -> <<s[1]>> \o SubSeq(s, 3, Len(s))

Step(m, item) ==
    CASE ~m.ok \/ m.over -> m
      [] m.ok /\ ~m.over /\ item.name = "ENDIF" -> [m EXCEPT !.branch = "none"]
      [] m.ok /\ ~m.over /\ item.name # "ENDIF" ->
             CASE m.branch = "skipped"  -> m
               [] m.branch # "skipped" /\ item.kind = "push" ->
                      [m EXCEPT !.stack = <<item.value>> \o @]
               [] m.branch # "skipped" /\ item.kind = "op" ->
                      CASE Len(m.stack) < Needs(item.name) -> [m EXCEPT !.ok = FALSE]
                        [] item.name = "RETURN" -> [m EXCEPT !.over = TRUE]
                        [] item.name = "IF" /\ m.stack # <<>> ->
                               [m EXCEPT !.stack = Tail(@),
                                  !.branch = IF isTrue(m.stack[1]) THEN "taken" ELSE "skipped"]
                        [] OTHER -> [m EXCEPT !.stack = Rearranged(item.name, @)]

Run(items, stack) == FoldLeft(Step, Start(stack), items)

(* What the machine reads in a script's atom.                              *)
ReadItem(atom) ==
    LET b == atom.bytes[1]
    IN  CASE atom.kind = "push" -> Item("push", "", atom.bytes)
          [] atom.kind = "opcode" /\ b = OneNegate -> Item("push", "", <<MinusOne>>)
          [] atom.kind = "opcode" /\ IsSmallOpcode(b) -> Item("push", "", <<b - Reserved>>)
          [] OTHER -> Item("op", Opcodes[b - Reserved - MaxSmall], <<>>)

(* What the program means, once its fields have payloads.                  *)
Bound(items, bindings) ==
    [k \in DOMAIN items |->
        IF items[k].kind = "field" THEN Item("push", "", bindings[items[k].value])
        ELSE items[k]]

State == IF Ended THEN SubSeq(written, Max(EndsAt) + 1, Len(written)) ELSE <<>>

(* The two forms of a script and its debug information tell of the same    *)
(* instructions, after every rewrite and after the layout: the same texts, *)
(* each instruction with a name of its own and with the same origins in the*)
(* artifact and in the debug information; code, padding and state follow   *)
(* each other; and a placeholder of a canonical script is a field, with the*)
(* size that was declared of it. What the compiler takes for a number is the*)
(* number that the machine reads. A script is only refused if nothing of it*)
(* is left, it has no OP_RETURN where it needs one, or executes a field of *)
(* unknown size.                                                           *)
RepresentationsAgree ==
    phase # "write" =>
        /\ instrs = Texts(code)
        /\ \A p, q \in DOMAIN code : p # q => code[p].id # code[q].id
        /\ validRegionOrder
        /\ DOMAIN debug = DOMAIN code \ RegionPcs("padding")
        /\ \A pc \in DOMAIN debug :
              /\ debug[pc].text = instrs[pc]
              /\ debug[pc].origins = code[pc].origins
        /\ format = "canonical" =>
              \A pc \in Placeholders(code) :
                  LET f == code[pc].body.label
                  IN  /\ f \in Fields
                      /\ code[pc].body.size = IF f \in DOMAIN lengths THEN lengths[f]
                                              ELSE NoSize
        /\ \A pc \in DOMAIN code :
              LET bytes == code[pc].text.bytes
              IN  bytes # <<>> /\ isStrictScriptNumberHex(bytes) =>
                      LET n == scriptHexToNumber(bytes)
                          read == ReadItem(bytes_to_asm(bytes)[1]).value
                      IN  IF n = -SignBit THEN read = serializeScriptNum(n)
                          ELSE toInt(read) = n
        /\ errors /\ lock = OldFile /\ code # <<>> =>
              LET unsized == {k \in DOMAIN written : /\ written[k].kind = "field"
                                                     /\ written[k].value \notin DOMAIN lengths}
              IN  IF format = "canonical"
                  THEN \A k \in DOMAIN written : written[k].name # "RETURN"
                  ELSE \E k \in unsized : ~Ended \/ k < Max(EndsAt)

(* The deployed script does, for every caller, what the program says, each *)
(* field with its own payload. Its code and padding end at a multiple of   *)
(* the alignment, and what follows are the values of the contract's state. *)
(* The disassembler reads the instructions that the compiler's own reader  *)
(* reads, and a canonical script has only canonical pushes. A template is  *)
(* refused exactly for payloads that are not of the declared sizes, of the *)
(* fields that are left in it.                                             *)
DeployedAsWritten ==
    deployed # NotDeployed =>
        LET bindings == deployed.bindings
            atoms    == bytes_to_asm(deployed.bytes)
            split    == splitScriptFragment(deployed.bytes)
            items    == [k \in DOMAIN atoms |-> ReadItem(atoms[k])]
            program  == Bound(written, bindings)
            state    == Bound(State, bindings)
            front    == Len(atoms) - Len(state)
            Left     == {f \in DOMAIN bindings :
                            \E pc \in DOMAIN file.code : file.code[pc].body.label = f}
        IN  /\ Fitting(bindings) => deployed.ok
            /\ deployed.ok =>
                /\ Fitting([f \in Left |-> bindings[f]])
                /\ \A k \in DOMAIN atoms : atoms[k].kind # "error"
                /\ Len(split) = Len(atoms)
                /\ \A k \in DOMAIN atoms : split[k].text = atoms[k].text
                /\ format = "canonical" =>
                      \A k \in DOMAIN split :
                          decodePush(split[k].text, TRUE).error \in {"none", "notPush"}
                /\ \A s \in EntryStacks : Run(items, s) = Run(program, s)
                /\ Ended =>
                      /\ FoldLeft(LAMBDA n, a : n + Len(a.text), 0, SubSeq(atoms, 1, front))
                             % Alignment = 0
                      /\ SubSeq(items, front + 1, Len(items)) = state

(* The comment of the layout pass, and the tests of it: laying out a script*)
(* that is laid out changes nothing, also where its padding looks like data*)
(* and its placeholders already end with their sizes.                      *)
FinalizedOnce ==
    [][phase = "finalized" /\ phase' = "finalized" => UNCHANGED vars]_vars
=============================================================================
