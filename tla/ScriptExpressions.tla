-------------------------- MODULE ScriptExpressions --------------------------
(***************************************************************************)
(* Expressions over numbers and bytes, three times: as the constant folder *)
(* and the code generation compile them (src/src/compiler/                 *)
(* static_integer_evaluator.cpp, constant_folder.cpp,                      *)
(* ast_to_bytecode_visitor.cpp), as the virtual machine executes what they *)
(* emit, and as the AST interpreter evaluates them. An expression is built *)
(* operand by operand, the operators last. Each operand is the bytes on    *)
(* the machine's stack, the interpreter's value, and the literal the       *)
(* compiler still knows it to be. A program may instead be a loop over a   *)
(* range, whose body is visited once for every value of the plan; how many *)
(* values there are is fixed before the first one is computed.             *)
(***************************************************************************)
EXTENDS RuntimeValues

CONSTANTS
    Arguments,    \* byte strings a parameter is given
    Operators,    \* operators the expressions use
    FunctionNames,\* functions they call
    Excluded,     \* disagreements that are left out, see Differs
    MaxItems,     \* operands at a time
    MaxSteps      \* operators and calls of an expression

VARIABLES
    loop,         \* the range of a loop, and how many of its values were used
    items,        \* the operands, the last one on top of the stack
    steps,        \* the operators and functions applied so far
    outcome       \* what became of the program

vars == <<loop, items, steps, outcome>>

NoLoop == [start |-> 0, stop |-> 0, step |-> -1, index |-> 0]

Iterations(l) == build(l.start, l.stop, l.step)

RangeInit == loop = NoLoop

BeginLoop(start, stop, step) ==
    /\ loop = NoLoop
    /\ loop' = [start |-> start, stop |-> stop, step |-> step, index |-> 0]

NextIteration ==
    /\ loop.index < Iterations(loop)
    /\ loop' = [loop EXCEPT !.index = @ + 1]

RangeNext ==
    \/ \E start, stop \in Signed, step \in Signed \ {0} : BeginLoop(start, stop, step)
    \/ NextIteration

RangeSpec == RangeInit /\ [][RangeNext]_loop
-----------------------------------------------------------------------------
(* OpFunctionFactory: the opcodes of a function, how many arguments it     *)
(* takes, and whether their order matters.                                 *)
Function(ops, arity, sensitive) == [ops |-> ops, arity |-> arity, sensitive |-> sensitive]

UnaryFunctions ==
    [Inc |-> Function(<<"1ADD">>, 1, FALSE), Dec |-> Function(<<"1SUB">>, 1, FALSE),
     Neg |-> Function(<<"NEGATE">>, 1, FALSE), Abs |-> Function(<<"ABS">>, 1, FALSE),
     Not |-> Function(<<"NOT">>, 1, FALSE),
     ZeroNotEqual |-> Function(<<"0NOTEQUAL">>, 1, FALSE),
     Verify |-> Function(<<"VERIFY">>, 1, FALSE)]

ArithmeticFunctions ==
    [Add |-> Function(<<"ADD">>, 2, FALSE), Mul |-> Function(<<"MUL">>, 2, FALSE),
     Sub |-> Function(<<"SUB">>, 2, TRUE), Div |-> Function(<<"DIV">>, 2, TRUE),
     Mod |-> Function(<<"MOD">>, 2, TRUE)]

MutComparisonFunctions ==
    [Equal |-> Function(<<"EQUAL">>, 2, FALSE),
     EqualVerify |-> Function(<<"EQUAL", "VERIFY">>, 2, FALSE),
     NumEqual |-> Function(<<"NUMEQUAL">>, 2, FALSE),
     NumEqualVerify |-> Function(<<"NUMEQUAL", "VERIFY">>, 2, FALSE),
     NumNotEqual |-> Function(<<"NUMNOTEQUAL">>, 2, FALSE),
     LessThan |-> Function(<<"LESSTHAN">>, 2, FALSE),
     GreaterThan |-> Function(<<"GREATERTHAN">>, 2, TRUE)]
ComparisonFunctions ==
    [Equal |-> Function(<<"EQUAL">>, 2, FALSE),
     EqualVerify |-> Function(<<"EQUAL", "VERIFY">>, 2, FALSE),
     NumEqual |-> Function(<<"NUMEQUAL">>, 2, FALSE),
     NumEqualVerify |-> Function(<<"NUMEQUAL", "VERIFY">>, 2, FALSE),
     NumNotEqual |-> Function(<<"NUMNOTEQUAL">>, 2, FALSE),
     LessThan |-> Function(<<"LESSTHAN">>, 2, TRUE),
     GreaterThan |-> Function(<<"GREATERTHAN">>, 2, TRUE)]

ByteFunctions ==
    [Cat |-> Function(<<"CAT">>, 2, TRUE), Size |-> Function(<<"SIZE">>, 1, FALSE),
     NumToBin |-> Function(<<"NUM2BIN">>, 2, TRUE),
     BinToNum |-> Function(<<"BIN2NUM">>, 1, FALSE),
     Slice |-> Function(<<>>, 3, TRUE)]

opCreators ==
    [name \in DOMAIN UnaryFunctions \union DOMAIN ArithmeticFunctions
                 \union DOMAIN ComparisonFunctions \union DOMAIN ByteFunctions |->
        CASE name \in DOMAIN UnaryFunctions      -> UnaryFunctions[name]
          [] name \in DOMAIN ArithmeticFunctions -> ArithmeticFunctions[name]
          [] name \in DOMAIN ComparisonFunctions -> ComparisonFunctions[name]
          [] name \in DOMAIN ByteFunctions       -> ByteFunctions[name]]

(* g_operatorMap.                                                          *)
operatorMap ==
    [op \in {"+", "-", "*", "/", "==", "!=", "<", ">", "<=", ">="} |->
        CASE op = "+" -> <<"ADD">>
          [] op = "-" -> <<"SUB">>
          [] op = "*" -> <<"MUL">>
          [] op = "/" -> <<"DIV">>
          [] op = "==" -> <<"EQUAL">>
          [] op = "!=" -> <<"EQUAL", "NOT">>
          [] op = "<" -> <<"LESSTHAN">>
          [] op = ">" -> <<"GREATERTHAN">>
          [] op = "<=" -> <<"LESSTHANOREQUAL">>
          [] op = ">=" -> <<"GREATERTHANOREQUAL">>]

isCommutativeOp(op) == op \in {"+", "*", "==", "!="}

ASSUME OperatorsAssumption == Operators \subseteq DOMAIN operatorMap
ASSUME FunctionsAssumption == FunctionNames \subseteq DOMAIN opCreators
ASSUME ArgumentsAssumption == Arguments \subseteq Seq(Byte)
-----------------------------------------------------------------------------
Operand(bytes, value, known) == [bytes |-> bytes, value |-> value, known |-> known]

(* A literal, pushed by numberToScriptHex as late as it is needed.         *)
LiteralOperand(v, value) == Operand(serializeScriptNum(v), value, v)
isLiteral(x)             == x.known # NoNumber
isLiteralValue(x, v)     == isLiteral(x) /\ x.known = v

(* visitOperator: an operand that changes nothing is not emitted, 1 is     *)
(* added or subtracted by an opcode of its own, and a difference from 0 is *)
(* a negation. The operands that are left, and the opcodes for them.       *)
Unchanged(x) == [ops |-> <<>>, args |-> <<x.bytes>>]
Emitted(ops, operands) ==
    [ops |-> ops, args |-> [k \in DOMAIN operands |-> operands[k].bytes]]

Identity(op, x, y) ==
    CASE op \in {"+", "-"} /\ isLiteralValue(y, 1) ->
             Emitted(IF op = "+" THEN <<"1ADD">> ELSE <<"1SUB">>, <<x>>)
      [] op = "+" /\ isLiteralValue(x, 1) -> Emitted(<<"1ADD">>, <<y>>)
      [] op \in {"+", "-"} /\ isLiteralValue(y, 0) -> Unchanged(x)
      [] op = "+" /\ isLiteralValue(x, 0) -> Unchanged(y)
      [] op = "-" /\ isLiteralValue(x, 0) -> Emitted(<<"NEGATE">>, <<y>>)
      [] op \in {"*", "/"} /\ isLiteralValue(y, 1) -> Unchanged(x)
      [] op = "*" /\ isLiteralValue(x, 1) -> Unchanged(y)

HasIdentity(op, x, y) ==
    \/ op = "+" /\ \E z \in {x, y} : isLiteralValue(z, 0) \/ isLiteralValue(z, 1)
    \/ op = "-" /\ (isLiteralValue(x, 0) \/ isLiteralValue(y, 0) \/ isLiteralValue(y, 1))
    \/ op = "*" /\ \E z \in {x, y} : isLiteralValue(z, 1)
    \/ op = "/" /\ isLiteralValue(y, 1)

(* The two operands of a commutative operator may lie either way round.    *)
EmittedOperator(op, x, y) ==
    IF HasIdentity(op, x, y) THEN {Identity(op, x, y)}
    ELSE {Emitted(operatorMap[op], <<x, y>>)}
             \union (IF isCommutativeOp(op) THEN {Emitted(operatorMap[op], <<y, x>>)}
                     ELSE {})

(* processSliceBuiltin: -1 as a literal stands for an end of the value.    *)
SliceRejected(start, length) ==
    isLiteral(start) /\ start.known \in {-1, 0} /\ isLiteralValue(length, -1)

ExecuteSlice(object, start, length) ==
    LET prefix(x, n) == ExecuteOpcodes(<<"SPLIT", "DROP">>, <<x, n>>)
        suffix(x, n) == ExecuteOpcodes(<<"SPLIT", "NIP">>, <<x, n>>)
        rest         == suffix(object.bytes, start.bytes)
    IN  CASE isLiteral(start) /\ start.known \in {-1, 0} ->
                 prefix(object.bytes, length.bytes)
          [] isLiteralValue(length, -1) -> rest
          [] OTHER -> IF rest.ok THEN prefix(rest.items[1], length.bytes) ELSE rest

(* The machine on a call of processGenericFunctionCall: the arguments of a *)
(* function that does not care for their order are laid out the cheaper    *)
(* way. Every result it can have.                                          *)
ExecuteCall(name, args) ==
    LET f     == opCreators[name]
        bytes == [k \in DOMAIN args |-> args[k].bytes]
    IN  IF name = "Slice" THEN {ExecuteSlice(args[1], args[2], args[3])}
        ELSE {ExecuteOpcodes(f.ops, bytes)}
                 \union (IF f.arity = 2 /\ ~f.sensitive
                         THEN {ExecuteOpcodes(f.ops, Reverse(bytes))} ELSE {})
-----------------------------------------------------------------------------
(* Where the machine and the interpreter are known to differ. "least": the *)
(* least integer takes one byte more than the machine reads back.          *)
(* "falseBytes": bytes that are not a number, or a zero with a sign, are   *)
(* false for the machine and true for the interpreter. "identity": an      *)
(* operand that is not emitted is neither checked nor made a number.       *)
(* "byteOrder": NumToBin and BinToNum of the machine put the high byte     *)
(* first. "sliceBounds": the interpreter moves a bound into the value, the *)
(* machine throws.                                                         *)
TooWide(x)    == x.value.type # "Bytes" /\ ~isNumber(x.bytes)
FalseBytes(x) == isTrue(x.bytes) # truthy(x.value)
Canonical(b)  == isNumber(b) /\ b = serializeScriptNum(toInt(b))

OneByteNumber(x) == x.bytes = <<>> \/ (Len(x.bytes) = 1 /\ x.bytes[1] < SignOfByte)

SliceInBounds(object, start, length) ==
    LET first == IF isLiteral(start) /\ start.known = -1 THEN 0 ELSE toInt(start.bytes)
    IN  \/ ~isNumber(start.bytes) \/ ~isNumber(length.bytes)
        \/ /\ first \in 0..Len(object.bytes)
           /\ \/ isLiteralValue(length, -1)
              \/ toInt(length.bytes) \in 0..Len(object.bytes) - first

CallDiffers(name, args) ==
    \/ "least" \in Excluded /\ \E k \in DOMAIN args : TooWide(args[k])
    \/ "falseBytes" \in Excluded /\ name \in {"Not", "Verify"} /\ FalseBytes(args[1])
    \/ "falseBytes" \in Excluded /\ name \in {"Not", "ZeroNotEqual"}
           /\ ~isNumber(args[1].bytes)
    \/ "byteOrder" \in Excluded /\ name = "NumToBin"
           /\ ~(OneByteNumber(args[1]) /\ args[2].bytes = serializeScriptNum(1))
    \/ "byteOrder" \in Excluded /\ name = "BinToNum" /\ ~OneByteNumber(args[1])
    \/ "sliceBounds" \in Excluded /\ name = "Slice"
           /\ ~SliceInBounds(args[1], args[2], args[3])

OperatorDiffers(op, x, y) ==
    \/ "least" \in Excluded /\ (TooWide(x) \/ TooWide(y))
    \/ "identity" \in Excluded /\ HasIdentity(op, x, y)
           /\ \E z \in {x, y} : ~Canonical(z.bytes)
-----------------------------------------------------------------------------
Init == RangeInit /\ items = <<>> /\ steps = <<>> /\ outcome = "running"

(* A number token: parseIntegerLiteral refuses what is no machine integer. *)
Write(v) ==
    /\ items' = IF v \in Signed THEN Append(items, LiteralOperand(v, fromInt(v))) ELSE items
    /\ outcome' = IF v \in Signed THEN outcome ELSE "rejected"
    /\ UNCHANGED <<loop, steps>>

Parameter(b) ==
    /\ items' = Append(items, Operand(b, fromBytes(b), NoNumber))
    /\ UNCHANGED <<loop, steps, outcome>>

(* tryFoldUnary: a minus before a literal.                                 *)
Minus ==
    /\ items # <<>> /\ isLiteral(Last(items))
    /\ LET v == Last(items).known
       IN  IF v = Least THEN outcome' = "rejected" /\ UNCHANGED items
           ELSE /\ items' = Append(Front(items), LiteralOperand(-v, fromInt(-v)))
                /\ UNCHANGED outcome
    /\ steps' = Append(steps, "minus")
    /\ UNCHANGED loop

(* What both sides make of the last operands: what the machine leaves is   *)
(* what the interpreter's value should be. A call of Size leaves its       *)
(* argument under its result.                                              *)
Finish(arity, machine, interpreter, left) ==
    /\ outcome' = CASE machine.ok /\ interpreter.ok   -> "running"
                    [] machine.ok /\ ~interpreter.ok  -> "only the interpreter throws"
                    [] ~machine.ok /\ interpreter.ok  -> "only the machine throws"
                    [] ~machine.ok /\ ~interpreter.ok -> "both throw"
    /\ LET values == left \o interpreter.values
       IN  items' = SubSeq(items, 1, Len(items) - arity)
                        \o [k \in 1..IF machine.ok /\ interpreter.ok THEN Len(machine.items)
                                     ELSE 0 |->
                               Operand(machine.items[k], values[k], NoNumber)]

(* tryFoldBinary, of two literals.                                         *)
FoldOperator(op) ==
    /\ Len(items) >= 2
    /\ LET x == items[Len(items) - 1]
           y == Last(items)
       IN  /\ isLiteral(x) /\ isLiteral(y)
           /\ LET v == evaluateOperator(op, x.known, y.known)
              IN  IF v = NoNumber THEN outcome' = "rejected" /\ UNCHANGED items
                  ELSE /\ items' = Append(SubSeq(items, 1, Len(items) - 2),
                                          LiteralOperand(v, evalOp(op, x.value, y.value).values[1]))
                       /\ UNCHANGED outcome
    /\ steps' = Append(steps, op)
    /\ UNCHANGED loop

(* visitOperator, of operands the compiler does not both know.             *)
EmitOperator(op) ==
    /\ Len(items) >= 2
    /\ LET x == items[Len(items) - 1]
           y == Last(items)
       IN  /\ ~(isLiteral(x) /\ isLiteral(y))
           /\ ~OperatorDiffers(op, x, y)
           /\ \E code \in EmittedOperator(op, x, y) :
                  Finish(2, ExecuteOpcodes(code.ops, code.args),
                         evalOp(op, x.value, y.value), <<>>)
    /\ steps' = Append(steps, op)
    /\ UNCHANGED loop

Call(name) ==
    LET arity == opCreators[name].arity
        args  == SubSeq(items, Len(items) - arity + 1, Len(items))
        value == [k \in DOMAIN args |-> args[k].value]
    IN  /\ Len(items) >= arity
        /\ IF name = "Slice" /\ SliceRejected(args[2], args[3])
           THEN outcome' = "rejected" /\ UNCHANGED items
           ELSE /\ ~CallDiffers(name, args)
                /\ \E machine \in ExecuteCall(name, args) :
                       Finish(arity, machine, callFunction(name, value),
                              IF name = "Size" THEN value ELSE <<>>)
        /\ steps' = Append(steps, name)
        /\ UNCHANGED loop

Next ==
    \/ items = <<>> /\ steps = <<>> /\ outcome = "running" /\ RangeNext
           /\ UNCHANGED <<items, steps, outcome>>
    \/ /\ loop = NoLoop /\ outcome = "running"
       /\ steps = <<>> /\ Len(items) < MaxItems
       /\ (\E v \in 0..SignBit : Write(v)) \/ (\E b \in Arguments : Parameter(b))
    \/ /\ outcome = "running" /\ Len(steps) < MaxSteps
       /\ \/ Minus
          \/ \E op \in Operators : FoldOperator(op) \/ EmitOperator(op)
          \/ \E name \in FunctionNames : Call(name)

Spec == Init /\ [][Next]_vars
-----------------------------------------------------------------------------
(* The body of a loop is visited again exactly while its range says so,    *)
(* with the value it says, for every range of machine integers: a value is *)
(* never refused as too large, and no iteration is added or lost where the *)
(* distance of the bounds or the magnitude of the step overflow.           *)
RangesAreExact ==
    LET l == loop
    IN  /\ l.index < Iterations(l) <=> InRange(l.start, l.stop, l.step, l.index)
        /\ l.index < Iterations(l) =>
               valueAt(l.start, l.step, l.index) = l.start + l.index * l.step

(* Compiled and executed, an expression is what the interpreter makes of   *)
(* it: bytes for bytes, and one of them throws only if both do.            *)
ExpressionsAgree ==
    /\ outcome \notin {"only the machine throws", "only the interpreter throws"}
    /\ \A k \in DOMAIN items : items[k].bytes = toScriptBytes(items[k].value)

(* The reference for an operator of two literals: integers without a bound.*)
Exact(op, a, b) ==
    CASE op = "+" -> {a + b}
      [] op = "-" -> {a - b}
      [] op = "*" -> {a * b}
      [] op = "/" -> {q \in -SignBit..SignBit : \* the q that leaves a remainder as it should be
                         /\ b # 0
                         /\ Magnitude(a - b * q) < Magnitude(b)
                         /\ (a - b * q) * a >= 0}
      [] op = "==" -> {StaticTruth(a = b)}
      [] op = "!=" -> {StaticTruth(a # b)}
      [] op = "<" -> {StaticTruth(a < b)}
      [] op = ">" -> {StaticTruth(a > b)}
      [] op = "<=" -> {StaticTruth(a <= b)}
      [] op = ">=" -> {StaticTruth(a >= b)}

(* Folding gives the exact result, and rejects a program only because that *)
(* is no machine integer: no check overflows itself at the bounds.         *)
FoldingIsExact ==
    [][\A op \in Operators :
          FoldOperator(op) =>
              LET exact == Exact(op, items[Len(items) - 1].known, Last(items).known)
              IN  IF exact \intersect Signed = {} THEN outcome' = "rejected"
                  ELSE outcome' = "running" /\ exact = {Last(items').known}]_vars
-----------------------------------------------------------------------------
(* An instance: the byte strings that the opcodes tell apart, for a base of*)
(* 4 and words of 2 bytes: the empty string, 1, a zero with a sign, -1, a  *)
(* padded zero, a padded 1, the greatest number, two wide strings.         *)
MCArguments ==
    {<<>>, <<1>>, <<2>>, <<3>>, <<0, 0>>, <<1, 0>>, <<3, 1>>, <<0, 0, 0>>, <<1, 2, 3>>}
=============================================================================
