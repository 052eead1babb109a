----------------------------- MODULE StackOpcodes -----------------------------
(***************************************************************************)
(* The stack opcodes of the virtual machine, op_swap to op_fromaltstack of *)
(* src/src/debugger/vm/bvm_simulator.cpp, and its comparisons. A stack is a*)
(* sequence whose first element is its top: the element at depth d is      *)
(* s[d + 1].                                                               *)
(***************************************************************************)
EXTENDS Naturals, Sequences, SequencesExt

Instruction(op) == [op |-> op, n |-> 0]
Push(n)         == [op |-> "PUSH", n |-> n]

Below(s, n) == SubSeq(s, n + 1, Len(s))

(* What an opcode makes of the main stack, and how much it needs of it.    *)
Needs(s, op) ==
    CASE op = "PUSH" -> 0
      [] op \in {"DUP", "DROP", "TOALTSTACK", "NOT"} -> 1
      [] op \in {"SWAP", "OVER", "NIP", "TUCK", "EQUAL", "LESSTHAN"} -> 2
      [] op = "ROT" -> 3
      [] op = "2SWAP" -> 4
      [] op = "2ROT" -> 6
      [] op \in {"PICK", "ROLL"} -> IF s = <<>> THEN 1 ELSE s[1] + 2
      [] op = "FROMALTSTACK" -> 0

Picked(s, d) == <<s[d + 1]>> \o s
Rolled(s, d) == <<s[d + 1]>> \o SubSeq(s, 1, d) \o Below(s, d + 1)

(* Comparisons leave 1 or 0; the operand that was pushed first is s[2].    *)
Truth(b) == IF b THEN 1 ELSE 0

MainAfter(s, op, n) ==
    CASE op = "PUSH"  -> <<n>> \o s
      [] op = "DUP"   -> Picked(s, 0)
      [] op = "OVER"  -> Picked(s, 1)
      [] op = "PICK"  -> Picked(Tail(s), s[1])
      [] op = "DROP"  -> Tail(s)
      [] op = "NIP"   -> Tail(Rolled(s, 1))
      [] op = "TUCK"  -> <<s[1], s[2], s[1]>> \o Below(s, 2)
      [] op = "SWAP"  -> <<s[2], s[1]>> \o Below(s, 2)
      [] op = "ROT"   -> <<s[3], s[1], s[2]>> \o Below(s, 3)
      [] op = "2SWAP" -> <<s[3], s[4], s[1], s[2]>> \o Below(s, 4)
      [] op = "2ROT"  -> <<s[5], s[6], s[1], s[2], s[3], s[4]>> \o Below(s, 6)
      [] op = "ROLL"  -> Rolled(Tail(s), s[1])
      [] op = "EQUAL" -> <<Truth(s[1] = s[2])>> \o Below(s, 2)
      [] op = "LESSTHAN" -> <<Truth(s[2] < s[1])>> \o Below(s, 2)
      [] op = "NOT"   -> <<Truth(s[1] = 0)>> \o Tail(s)

(* The machine: both stacks, and whether it still runs. An opcode that     *)
(* finds too little on a stack throws.                                     *)
Execute(m, i) ==
    CASE ~m.ok \/ Len(m.main) < Needs(m.main, i.op)
             \/ (i.op = "FROMALTSTACK" /\ m.alt = <<>>) -> [m EXCEPT !.ok = FALSE]
      [] i.op = "TOALTSTACK" /\ m.ok /\ m.main # <<>> ->
             [m EXCEPT !.main = Tail(m.main), !.alt = <<m.main[1]>> \o m.alt]
      [] i.op = "FROMALTSTACK" /\ m.ok /\ m.alt # <<>> ->
             [m EXCEPT !.main = <<m.alt[1]>> \o m.main, !.alt = Tail(m.alt)]
      [] OTHER -> [m EXCEPT !.main = MainAfter(m.main, i.op, i.n)]

ExecuteAll(m, instructions) == FoldLeft(Execute, m, instructions)
=============================================================================
