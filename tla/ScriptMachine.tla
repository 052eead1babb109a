----------------------------- MODULE ScriptMachine -----------------------------
(***************************************************************************)
(* A whole locking script on the virtual machine: executeOpcode and the    *)
(* opcodes it calls, src/src/debugger/vm/bvm_simulator.cpp, for the        *)
(* instructions that the peephole pass reads or writes. Items of the stack *)
(* are integers; two items stand for the byte strings that a number cannot.*)
(***************************************************************************)
EXTENDS StackOpcodes, Integers

(* The bytes 00: the number 0, and yet not the empty string that 0 pushes. *)
PaddedZero == 1000
(* Bytes too long for a number: toInt returns nothing.                     *)
NotANumber == 1001

IsNumber(item) == item # NotANumber
NumberOf(item) == IF item = PaddedZero THEN 0 ELSE item
(* toInt of a condition: what is not a number counts as false.             *)
IsTrue(item)   == IsNumber(item) /\ NumberOf(item) # 0

Unary   == {"1ADD", "1SUB"}
Binary  == {"ADD", "SUB", "NUMEQUAL", "NUMNOTEQUAL"}
Control == {"IF", "NOTIF", "ELSE", "ENDIF"}

UnaryResult(op, a) ==
    CASE op = "1ADD" -> a + 1
      [] op = "1SUB" -> a - 1

(* op_add to op_numnotequal: b is the top of the stack.                    *)
BinaryResult(op, a, b) ==
    CASE op = "ADD" -> a + b
      [] op = "SUB" -> a - b
      [] op = "NUMEQUAL" -> Truth(a = b)
      [] op = "NUMNOTEQUAL" -> Truth(a # b)

(* A run: the stacks, the conditions of the open IFs (the last one is the  *)
(* innermost), whether OP_RETURN has finished it, whether it has thrown,   *)
(* the arm every executed IF took, and what was executed under which arms. *)
Start(stack) ==
    [main |-> stack, alt |-> <<>>, conditions |-> <<>>, ok |-> TRUE,
     finished |-> FALSE, trace |-> <<>>, log |-> <<>>]

isCurrentlyExecuting(conditions) == \A i \in DOMAIN conditions : conditions[i]

Throw(m) == [m EXCEPT !.ok = FALSE]

(* op_if and op_notif, where their parents run.                            *)
OpenIf(m, pc, op) ==
    IF m.main = <<>> THEN Throw(m)
    ELSE LET then == IsTrue(m.main[1]) = (op = "IF")
         IN  [m EXCEPT !.main = Tail(@), !.conditions = Append(@, then),
                       !.trace = (pc :> IF then THEN "THEN" ELSE "ELSE") @@ @]

(* op_else: the branch runs if its parents do and the first one did not.   *)
TurnElse(m) ==
    IF m.conditions = <<>> THEN Throw(m)
    ELSE [m EXCEPT !.conditions =
             Append(Front(@), isCurrentlyExecuting(Front(@)) /\ ~Last(@))]

CloseIf(m) ==
    IF m.conditions = <<>> THEN Throw(m)
    ELSE [m EXCEPT !.conditions = Front(@)]

Verify(m) ==
    IF m.ok /\ m.main # <<>> /\ IsTrue(m.main[1])
    THEN [m EXCEPT !.main = Tail(@)] ELSE Throw(m)

Numeric(m, op) ==
    LET arity == IF op \in Unary THEN 1 ELSE 2
        args  == SubSeq(m.main, 1, arity)
        result(a) == IF op \in Unary THEN UnaryResult(op, a[1])
                                     ELSE BinaryResult(op, a[2], a[1])
    IN  IF Len(m.main) < arity \/ \E a \in Range(args) : ~IsNumber(a)
        THEN Throw(m)
        ELSE [m EXCEPT !.main = <<result([k \in 1..arity |-> NumberOf(args[k])])>>
                                    \o Below(@, arity)]

(* op_not and op_0notequal take any bytes: what is no number becomes 0.    *)
ToBoolean(op, a) ==
    Truth(IsNumber(a) /\ (NumberOf(a) = 0) = (op = "NOT"))

(* op_pick and op_roll: the depth is a number that is not negative.        *)
AtDepth(m, op) ==
    IF m.main = <<>> \/ ~IsNumber(m.main[1]) \/ NumberOf(m.main[1]) < 0
    THEN Throw(m)
    ELSE Execute([m EXCEPT !.main[1] = NumberOf(@)], Instruction(op))

(* executeOpcode, for an instruction of a branch that runs. "TEXT" is a    *)
(* comment between instructions, "DATA" a placeholder of known length that *)
(* pushes what it will be replaced by.                                     *)
Perform(m, i) ==
    CASE i.op = "TEXT"   -> m
      [] i.op = "DATA"   -> Execute(m, Push(i.n))
      [] i.op = "RETURN" -> [m EXCEPT !.finished = TRUE]
      [] i.op = "VERIFY" -> Verify(m)
      [] i.op = "EQUALVERIFY"    -> Verify(Execute(m, Instruction("EQUAL")))
      [] i.op = "NUMEQUALVERIFY" -> Verify(Numeric(m, "NUMEQUAL"))
      [] i.op \in Unary \union Binary  -> Numeric(m, i.op)
      [] i.op \in {"PICK", "ROLL"}     -> AtDepth(m, i.op)
      [] i.op = "2DROP" -> IF Len(m.main) < 2 THEN Throw(m)
                           ELSE [m EXCEPT !.main = Below(@, 2)]
      [] i.op = "2DUP"  -> IF Len(m.main) < 2 THEN Throw(m)
                           ELSE [m EXCEPT !.main = SubSeq(@, 1, 2) \o @]
      [] i.op \in {"NOT", "0NOTEQUAL"} -> IF m.main = <<>> THEN Throw(m)
                           ELSE [m EXCEPT !.main[1] = ToBoolean(i.op, @)]
      [] OTHER -> Execute(m, i)

Logged(m, pc) == [m EXCEPT !.log = Append(@, [pc |-> pc, trace |-> m.trace])]

(* One instruction of the script: in a branch that does not run, only the  *)
(* control flow is looked at. What is executed is logged.                  *)
Step(m, pc, i) ==
    CASE ~m.ok \/ m.finished        -> m
      [] i.op \in {"IF", "NOTIF"} /\ ~isCurrentlyExecuting(m.conditions) ->
             [m EXCEPT !.conditions = Append(@, FALSE)]
      [] i.op \in {"IF", "NOTIF"} /\ isCurrentlyExecuting(m.conditions) ->
             OpenIf(Logged(m, pc), pc, i.op)
      [] i.op = "ELSE"              -> TurnElse(m)
      [] i.op = "ENDIF"             -> CloseIf(m)
      [] OTHER -> IF isCurrentlyExecuting(m.conditions)
                  THEN Perform(Logged(m, pc), i) ELSE m

(* The run of a script on the stack its caller left.                       *)
Run(code, stack) ==
    FoldLeftDomain(LAMBDA m, pc : Step(m, pc, code[pc]), Start(stack), code)

(* What a caller sees of a run: that it failed, or the stacks it leaves.   *)
Outcome(m) ==
    IF m.ok THEN [ok |-> TRUE, main |-> m.main, alt |-> m.alt]
            ELSE [ok |-> FALSE]
=============================================================================
