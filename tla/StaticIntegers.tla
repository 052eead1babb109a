---------------------------- MODULE StaticIntegers ----------------------------
(***************************************************************************)
(* The expressions of the programs the compiler modules are about, and     *)
(* their evaluation at compile time, src/src/compiler/                     *)
(* static_integer_evaluator.cpp. Both the analysis and the code generation *)
(* call it, each with what it knows of the variables.                      *)
(***************************************************************************)
EXTENDS StackOpcodes

CONSTANTS
    Variables,    \* names of variables
    Values,       \* numbers a variable can have
    Nothing       \* no value

ASSUME ValuesAssumption == Values \subseteq Nat /\ {0, 1} \subseteq Values
ASSUME NothingAssumption == Nothing \notin Values

Literal(v)       == [op |-> "literal", value |-> v, names |-> <<>>]
Pushed(v)        == [op |-> "Push", value |-> v, names |-> <<>>]
Name(y)          == [op |-> "name", value |-> Nothing, names |-> <<y>>]
Clone(y)         == [op |-> "Clone", value |-> Nothing, names |-> <<y>>]
Operator(op, y, z) == [op |-> op, value |-> Nothing, names |-> <<y, z>>]

isOperator(e) == e.op \in {"==", "!=", "<"}

Compare(op, v, w) ==
    Truth(CASE op = "==" -> v = w [] op = "!=" -> v # w [] op = "<" -> v < w)

(* What is known of an expression, where known says it of the variables.   *)
evaluateExpression(e, known) ==
    LET of == [k \in DOMAIN e.names |-> known[e.names[k]]]
    IN  CASE e.op = "literal" -> e.value
          [] e.op \in {"name", "Clone"} -> of[1]
          [] isOperator(e) /\ of[1] # Nothing /\ of[2] # Nothing ->
                 Compare(e.op, of[1], of[2])
          [] OTHER -> Nothing
=============================================================================
