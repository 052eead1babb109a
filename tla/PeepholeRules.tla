----------------------------- MODULE PeepholeRules -----------------------------
(***************************************************************************)
(* The rewrite rules of the peephole pass,                                 *)
(* src/src/bytecode_peephole_pass.h: which windows of three and of two     *)
(* instructions are replaced, by what, and under which provenance.         *)
(***************************************************************************)
EXTENDS ScriptMachine

(* Sizes and classes of instructions.                                      *)

Op(name) == Instruction(name)

Bytes(i) ==
    CASE i.op = "TEXT" -> 0
      [] i.op = "DATA" -> 2
      [] i.op = "PUSH" -> IF i.n \in -1..16 THEN 1 ELSE 2
      [] OTHER -> 1

CodeBytes(s) == FoldLeft(LAMBDA n, i : n + Bytes(i), 0, s)

IsPush(i)  == i.op = "PUSH"
isInert(i) == i.op \in {"TEXT", "DATA"}
isControlFlow(i) ==
    i.op \in Control \union {"VERIFY", "RETURN", "CODESEPARATOR"}

producesCanonicalBool(i) ==
    \/ i \in {Push(0), Push(1)}
    \/ i.op \in {"NOT", "0NOTEQUAL", "EQUAL", "NUMEQUAL", "NUMNOTEQUAL"}

(* The prefix that may be rewritten ends with the script's last OP_RETURN; *)
(* what lies beyond the executable region is not looked at.                *)
optimizablePrefixLength(s, suffix) ==
    LET end     == Len(s) - suffix
        returns == {k \in 1..end : s[k].op = "RETURN"}
    IN  IF returns = {} THEN end ELSE CHOOSE k \in returns : \A l \in returns : l <= k

-----------------------------------------------------------------------------
(* The windows. A rewrite is a list of instructions, each with the place in*)
(* the window it inherits the provenance of. The first rule that applies   *)
(* counts.                                                                 *)

Rule(applies, rewrite) == [applies |-> applies, rewrite |-> rewrite]
FirstRule(rules) ==
    LET k == SelectInSeq(rules, LAMBDA r : r.applies)
    IN  IF k = 0 THEN {} ELSE {rules[k].rewrite}

Kept(i)        == <<[instr |-> i, offset |-> 0]>>
AtEnd(name)    == <<[instr |-> Op(name), offset |-> 2]>>
Constant(b)    == <<[instr |-> Push(Truth(b)), offset |-> 2]>>

RewriteBytes(r) == FoldLeft(LAMBDA n, x : n + Bytes(x.instr), 0, r)

tryRewriteTriple(a, b, c) ==
    LET equals   == c.op \in {"EQUAL", "NUMEQUAL"}
        boolean  == producesCanonicalBool(a)
        rules == <<
          Rule(IsPush(a) /\ IsPush(b) /\ c.op = "EQUAL", Constant(a.n = b.n)),
          Rule(IsPush(a) /\ b.op = "DUP" /\ c.op = "EQUAL", Constant(TRUE)),
          Rule(IsPush(a) /\ b.op = "DUP" /\ c.op = "DROP", Kept(a)),
          Rule(IsPush(a) /\ b.op = "DUP" /\ c.op = "2DROP", <<>>),
          Rule(boolean /\ b.op = "NOT" /\ c.op = "NOT", Kept(a)),
          Rule(boolean /\ b = Push(1) /\ equals, Kept(a)),
          Rule(boolean /\ b = Push(0) /\ equals, Kept(a) \o AtEnd("NOT")),
          Rule(boolean /\ b = Push(0) /\ c.op = "NUMNOTEQUAL", Kept(a)),
          Rule(boolean /\ b = Push(1) /\ c.op = "NUMNOTEQUAL",
               Kept(a) \o AtEnd("NOT")) >>
    IN  {r \in FirstRule(rules) : RewriteBytes(r) < CodeBytes(<<a, b, c>>)}

(* A second identical push becomes OP_DUP where that is shorter. The older *)
(* way of encoding pushes is assumed, in which only that of the empty      *)
(* string has one byte: OP_2 OP_2 becomes OP_2 OP_DUP all the same.        *)
isProfitableDuplicatePush(a, b) ==
    a = b /\ a.op \in {"PUSH", "DATA"} /\ a # Push(0)

(* Mutant: an instruction of unknown effect does not end the proof.        *)
MutHasProvenStackDepth(emitted, required) ==
    LET Depth(d, i) ==
            CASE IsPush(i) \/ i.op = "DUP" -> d + 1
              [] i.op = "DROP" /\ d > 0 -> d - 1
              [] OTHER -> d
    IN  FoldLeft(Depth, 0, emitted) >= required

(* How deep the stack must be after the straight-line code emitted so far. *)
hasProvenStackDepth(emitted, required) ==
    LET Depth(d, i) ==
            CASE IsPush(i) -> d + 1
              [] i.op = "DUP"  -> IF d = 0 THEN 0 ELSE d + 1
              [] i.op = "DROP" -> IF d = 0 THEN 0 ELSE d - 1
              [] i.op = "SWAP" -> IF d < 2 THEN 0 ELSE d
              [] OTHER -> 0
    IN  FoldLeft(Depth, 0, emitted) >= required

(* Mutant: a fused instruction keeps the provenance of its first half.     *)
MutSecond(name) == <<[instr |-> Op(name), offset |-> 0]>>

(* The pair (a, b) after what has been emitted: what replaces it, under the*)
(* provenance of b, or nothing.                                            *)
Second(name) == <<[instr |-> Op(name), offset |-> 1]>>

tryRewritePair(a, b, emitted, allowTrueVerifyElision) ==
    LET boolean == emitted # <<>> /\ producesCanonicalBool(Last(emitted))
        Pair(x, name) == a = x /\ b.op = name
        closing == <<
          Rule(boolean /\ a.op = "NOT" /\ b.op = "IF", Second("NOTIF")),
          Rule(boolean /\ a.op = "NOT" /\ b.op = "NOTIF", Second("IF")),
          Rule(allowTrueVerifyElision /\ Pair(Push(1), "VERIFY"), <<>>),
          Rule(Pair(Op("EQUAL"), "VERIFY"), Second("EQUALVERIFY")),
          Rule(Pair(Op("NUMEQUAL"), "VERIFY"), Second("NUMEQUALVERIFY")) >>
        straight == <<
          Rule(Pair(Push(1), "ADD"), Second("1ADD")),
          Rule(Pair(Push(1), "SUB"), Second("1SUB")),
          Rule(Pair(Push(-1), "ADD"), Second("1SUB")),
          Rule(Pair(Push(-1), "SUB"), Second("1ADD")),
          Rule(Pair(Op("SWAP"), "DROP"), Second("NIP")),
          Rule(Pair(Op("OVER"), "OVER"), Second("2DUP")),
          Rule(Pair(Push(0), "PICK"), Second("DUP")),
          Rule(Pair(Push(1), "PICK"), Second("OVER")),
          Rule(Pair(Push(1), "ROLL"), Second("SWAP")),
          Rule(Pair(Push(2), "ROLL"), Second("ROT")),
          Rule(IsPush(a) /\ b.op = "DROP", <<>>),
          Rule(Pair(Op("DUP"), "DROP") /\ hasProvenStackDepth(emitted, 1), <<>>),
          Rule(Pair(Op("SWAP"), "SWAP") /\ hasProvenStackDepth(emitted, 2), <<>>),
          Rule(boolean /\ Pair(Op("NOT"), "NOT"), Second("0NOTEQUAL")),
          Rule(Pair(Op("DROP"), "DROP"), Second("2DROP")),
          Rule(boolean /\ a = Push(0) /\ b.op \in {"EQUAL", "NUMEQUAL"},
               Second("NOT")) >>
    IN  FirstRule(IF isControlFlow(b) THEN closing ELSE straight)
-----------------------------------------------------------------------------
(* runOnePass: what the rules say of the window at an instruction. Windows *)
(* of three come first, then equal pushes, then pairs.                     *)
IsStraight(s, end, pc) == pc <= end /\ ~isInert(s[pc]) /\ ~isControlFlow(s[pc])

TriplesAt(s, end, pc) ==
    IF \A k \in pc..pc+2 : IsStraight(s, end, k)
    THEN tryRewriteTriple(s[pc], s[pc + 1], s[pc + 2])
    ELSE {}

DuplicatesAt(s, end, pc) == pc < end /\ isProfitableDuplicatePush(s[pc], s[pc + 1])

PairsAt(s, end, pc, emitted, allowTrueVerifyElision) ==
    IF pc < end /\ IsStraight(s, end, pc) /\ ~isInert(s[pc + 1])
    THEN tryRewritePair(s[pc], s[pc + 1], emitted, allowTrueVerifyElision)
    ELSE {}
=============================================================================
