------------------------------ MODULE Ownership ------------------------------
(***************************************************************************)
(* The ownership analysis that every function passes before its code is    *)
(* generated, src/src/compiler/pre_analysis_visitor.cpp. A variable on a   *)
(* stack can be read once; reading it moves it. The analysis never sees a  *)
(* stack: it follows where it takes the variables to be, and which of them *)
(* are known at compile time. Per variable it keeps                        *)
(*                                                                         *)
(*   state     undeclared, DECLARED, USED or CONSUMED                      *)
(*   storage   where the value is: FIXED, MAIN, ALT, or UNBOUND            *)
(*   source    STACK, or CONST: constants are not owned                    *)
(*   fact      its value, if known (m_staticIntegerValues)                 *)
(*                                                                         *)
(* Each operation has a condition under which it reports no error, and the *)
(* record it leaves.                                                       *)
(***************************************************************************)
EXTENDS StaticIntegers

Undeclared ==
    [state |-> "undeclared", storage |-> "UNBOUND", source |-> "STACK", fact |-> Nothing]
Parameter == [Undeclared EXCEPT !.state = "DECLARED", !.storage = "MAIN"]

Facts(own) == [x \in Variables |-> own[x].fact]
evaluateIntegerConstant(own, e) == evaluateExpression(e, Facts(own))

hasOwnership(own, x) == own[x].source = "STACK"
Declared(own, x)     == own[x].state # "undeclared"
-----------------------------------------------------------------------------
CanUse(own, x) ==
    /\ own[x].state \notin {"undeclared", "CONSUMED"}
    /\ hasOwnership(own, x) => own[x].state = "DECLARED"
useVariable(own, x) ==
    IF hasOwnership(own, x) THEN [own EXCEPT ![x].state = "USED"] ELSE own

CanBorrow(own, x) ==
    Declared(own, x) /\ (hasOwnership(own, x) => own[x].state = "DECLARED")

(* The condition of an if consumes a variable, even one that was used.     *)
CanConsume(own, x) ==
    Declared(own, x) /\ (hasOwnership(own, x) => own[x].state # "CONSUMED")
consumeVariable(own, x) ==
    IF hasOwnership(own, x)
    THEN [own EXCEPT ![x].state = "CONSUMED", ![x].storage = "UNBOUND"] ELSE own

CanAnalyze(own, e) ==
    CASE e.op = "Clone" -> ~Declared(own, e.names[1]) \/ CanBorrow(own, e.names[1])
      [] e.op = "name"  -> CanUse(own, e.names[1])
      [] isOperator(e)  -> CanUse(own, e.names[1])
                           /\ CanUse(useVariable(own, e.names[1]), e.names[2])
      [] OTHER -> TRUE
analyzeExpression(own, e) ==
    IF e.op = "Clone" THEN own ELSE FoldLeft(useVariable, own, e.names)

CanAnalyzeCondition(own, e) ==
    IF e.op = "name" THEN CanConsume(own, e.names[1]) ELSE CanAnalyze(own, e)
analyzeConditionalExpression(own, e) ==
    IF e.op = "name" THEN consumeVariable(own, e.names[1]) ELSE analyzeExpression(own, e)
-----------------------------------------------------------------------------
classifyStorage(own, e) ==
    CASE evaluateIntegerConstant(own, e) # Nothing -> "FIXED"
      [] evaluateIntegerConstant(own, e) = Nothing /\ e.op = "name" ->
             IF Declared(own, e.names[1]) THEN own[e.names[1]].storage ELSE "MAIN"
      [] OTHER -> "MAIN"

(* A main-stack value that is assigned to a variable with a slot is copied.*)
copiesStackValue(own, x, e) ==
    /\ own[x].state = "DECLARED" /\ own[x].storage = "MAIN"
    /\ classifyStorage(own, e) = "MAIN"
BorrowsValue(own, x, e) == copiesStackValue(own, x, e) /\ e.op = "name"

CanAssign(own, x, e) ==
    IF BorrowsValue(own, x, e) THEN CanBorrow(own, e.names[1]) ELSE CanAnalyze(own, e)
AnalyzeAssign(own, x, e) ==
    LET read == IF BorrowsValue(own, x, e) THEN own ELSE analyzeExpression(own, e)
        storage == classifyStorage(read, e)
    IN  [read EXCEPT ![x] =
            [state |-> "DECLARED", storage |-> storage,
             source |-> IF storage = "FIXED" THEN "CONST" ELSE "STACK",
             fact |-> evaluateIntegerConstant(own, e)]]

CanDelete(own, x) == CanUse(own, x)
AnalyzeDelete(own, x) ==
    LET used == useVariable([own EXCEPT ![x].fact = Nothing], x)
    IN  IF own[x].state = "DECLARED"
        THEN [used EXCEPT ![x].state = "CONSUMED", ![x].storage = "UNBOUND"] ELSE used

CanSetAlt(own, x) == CanConsume(own, x)
AnalyzeSetAlt(own, x) ==
    [own EXCEPT ![x].fact = Nothing, ![x].source = "STACK", ![x].storage = "ALT"]
AnalyzeSetMain(own, x) ==
    [own EXCEPT ![x].state = "DECLARED", ![x].storage = "MAIN"]
-----------------------------------------------------------------------------
(* A branch that is selected at compile time keeps no locals.              *)
CommitSelected(entry, selected) ==
    [x \in Variables |-> IF Declared(entry, x) THEN selected[x] ELSE entry[x]]

(* The target of a loop is assigned a constant in every iteration.         *)
BindTarget(own, x, v) ==
    [own EXCEPT ![x] = [state |-> "DECLARED", storage |-> "FIXED", source |-> "CONST",
                        fact |-> v]]

(* The join of two branches: what is used or consumed in one of them is so *)
(* after it. Constants of the first branch are taken over unchecked, and so*)
(* are its own variables.                                                  *)
Worst(s, t) ==
    CASE "CONSUMED" \in {s, t} -> "CONSUMED"
      [] "CONSUMED" \notin {s, t} /\ "USED" \in {s, t} -> "USED"
      [] OTHER -> s

MergedVariable(then, else, entry) ==
    IF "undeclared" \in {then.state, else.state} \/ then.source # "STACK" THEN then
    ELSE LET state == Worst(then.state, else.state)
             storage == IF then.storage = else.storage THEN then.storage
                        ELSE entry.storage
         IN  [then EXCEPT !.state = state,
                          !.storage = IF state = "DECLARED" THEN storage ELSE "UNBOUND"]

MutMergeBranchStates(then, else, entry) ==
    [x \in Variables |-> MergedVariable(then[x], else[x], entry[x])]
mergeBranchStates(then, else, entry) ==
    [x \in Variables |->
        [MergedVariable(then[x], else[x], entry[x]) EXCEPT
            !.fact = IF then[x].fact = else[x].fact THEN then[x].fact ELSE Nothing]]
=============================================================================
