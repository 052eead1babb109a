------------------------------ MODULE BVMScript ------------------------------
(***************************************************************************)
(* What running a compiled script means, without a debugger: the           *)
(* instructions of the selected function in order, each at most once, those *)
(* of a branch that is not taken skipped. OP_RETURN or the last instruction *)
(* ends it, and any instruction may fail. BVMSimulator implements it however*)
(* the user steps, breaks, pauses and continues.                           *)
(***************************************************************************)
EXTENDS Naturals, Sequences

VARIABLES
    code,       \* position -> "plain", "if", "else", "endif" or "return"
    pc,         \* position of the next instruction
    conds,      \* the open branches: is each one taken?
    status,     \* "running", "done" or "failed"
    terminate   \* has the client asked for the end?

vars == <<code, pc, conds, status, terminate>>

Size == Len(code)
Taken(cs) == \A i \in 1..Len(cs) : cs[i]
Outer(cs) == SubSeq(cs, 1, Len(cs) - 1)

Init == pc = 0 /\ conds = <<>> /\ status = "running"

(* The branches that may be open after an instruction. *)
Branches(op, cs) ==
    CASE op = "if"    -> {Append(cs, Taken(cs) /\ b) : b \in BOOLEAN}
      [] op = "else"  -> {Append(Outer(cs), Taken(Outer(cs)) /\ ~cs[Len(cs)])}
      [] op = "endif" -> {Outer(cs)}
      [] OTHER        -> {cs}

Instruction ==
    /\ status = "running" /\ pc < Size
    /\ pc' = pc + 1
    /\ conds' \in Branches(code[pc + 1], conds)
    /\ \/ status' = "running" /\ ~(code[pc + 1] = "return" /\ Taken(conds))
       \/ status' = "done" /\ (code[pc + 1] = "return" /\ Taken(conds))
       \/ status' = "done" /\ pc + 1 = Size
    /\ UNCHANGED <<code, terminate>>

Fails ==
    /\ status = "running" /\ pc < Size /\ status' = "failed"
    /\ UNCHANGED <<code, pc, conds, terminate>>

Ends ==
    /\ status = "running" /\ (pc = Size \/ terminate) /\ status' = "done"
    /\ UNCHANGED <<code, pc, conds, terminate>>

Client == UNCHANGED <<code, pc, conds, status>>

Restart ==
    /\ pc' = 0 /\ conds' = <<>> /\ status' = "running"
    /\ UNCHANGED code

Next == Instruction \/ Fails \/ Ends \/ Client \/ Restart

Spec == Init /\ [][Next]_vars
=============================================================================
