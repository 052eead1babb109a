---------------------------- MODULE RuntimeValues ----------------------------
(***************************************************************************)
(* The values of the AST interpreter, src/src/interpreter/                 *)
(* runtime_value.cpp, its operators and the builtin functions that both it *)
(* and the compiler know, src/src/interpreter/builtin_runtime.cpp.         *)
(***************************************************************************)
EXTENDS ScriptNumbers

Scalar(type, number, bytes) ==
    [type |-> type, number |-> number, bytes |-> bytes, items |-> <<>>]
fromInt(v)       == Scalar("Int", v, <<>>)
fromBool(b)      == Scalar("Bool", IF b THEN 1 ELSE 0, <<>>)
fromBytes(b)     == Scalar("Bytes", 0, b)
voidValue        == Scalar("Void", 0, <<>>)
fromArray(items) == [Scalar("Array", 0, <<>>) EXCEPT !.items = items]

(* deserializeScriptNum throws where toInt of the machine has no number.   *)
toScriptNum(x)   == IF x.type = "Bytes" THEN toInt(x.bytes) ELSE x.number
toScriptBytes(x) == IF x.type = "Bytes" THEN x.bytes ELSE serializeScriptNum(x.number)
truthy(x) == IF x.type = "Bytes" THEN \E i \in DOMAIN x.bytes : x.bytes[i] # 0
             ELSE x.number # 0

Raises       == [ok |-> FALSE, values |-> <<>>]
Returns(x)   == [ok |-> TRUE, values |-> <<x>>]
ReturnsVoid  == [ok |-> TRUE, values |-> <<>>]
Verified(b)  == IF b THEN ReturnsVoid ELSE Raises

(* ASTInterpreter::evalOp, where both operands are numbers.                *)
OperatorValue(op, a, b) ==
    CASE op = "+" -> fromInt(ToWord(a + b))
      [] op = "-" -> fromInt(ToWord(a - b))
      [] op = "*" -> fromInt(ToWord(a * b))
      [] op = "/" -> fromInt(Quotient(a, b))
      [] op = "<" -> fromBool(a < b)
      [] op = ">" -> fromBool(a > b)
      [] op = "<=" -> fromBool(a <= b)
      [] op = ">=" -> fromBool(a >= b)

evalOp(op, x, y) ==
    LET a == toScriptNum(x)
        b == toScriptNum(y)
    IN  CASE op = "==" -> Returns(fromBool(toScriptBytes(x) = toScriptBytes(y)))
          [] op = "!=" -> Returns(fromBool(toScriptBytes(x) # toScriptBytes(y)))
          [] OTHER -> IF NoNumber \in {a, b} \/ (op = "/" /\ ~Divides(a, b))
                      THEN Raises ELSE Returns(OperatorValue(op, a, b))

(* numToBin: the number's own bytes, filled up before the sign.            *)
numToBin(v, size) ==
    LET bytes    == serializeScriptNum(v)
        negative == v < 0
        positive == IF negative THEN Append(Front(bytes), Last(bytes) - SignOfByte)
                    ELSE bytes
        filled   == [i \in 1..size |-> IF i <= Len(positive) THEN positive[i] ELSE 0]
    IN  IF size < 0 \/ Len(bytes) > size THEN Raises
        ELSE Returns(fromBytes(IF negative THEN Append(Front(filled), Last(filled) + SignOfByte)
                            ELSE filled))

(* sliceBytes: bounds outside the value are moved to its ends.             *)
sliceBytes(x, rawStart, rawLength) ==
    LET bytes  == toScriptBytes(x)
        least(a, b) == IF a < b THEN a ELSE b
        start  == IF rawStart < 0 THEN 0 ELSE least(rawStart, Len(bytes))
        stop   == IF rawLength < 0 THEN Len(bytes)
                  ELSE least(start + rawLength, Len(bytes))
    IN  Returns(fromBytes(SubSeq(bytes, start + 1, stop)))

NumericFunctions ==
    {"Add", "Sub", "Mul", "Div", "Mod", "Inc", "Dec", "Neg", "Abs", "NumEqual",
     "NumNotEqual", "NumEqualVerify", "LessThan", "GreaterThan", "NumToBin",
     "BinToNum", "ZeroNotEqual"}

NumericFunction(name, n) ==
    CASE name = "Add" -> Returns(fromInt(ToWord(n[1] + n[2])))
      [] name = "Sub" -> Returns(fromInt(ToWord(n[1] - n[2])))
      [] name = "Mul" -> Returns(fromInt(ToWord(n[1] * n[2])))
      [] name = "Div" -> IF Divides(n[1], n[2]) THEN Returns(fromInt(Quotient(n[1], n[2])))
                         ELSE Raises
      [] name = "Mod" -> IF Divides(n[1], n[2]) THEN Returns(fromInt(Remainder(n[1], n[2])))
                         ELSE Raises
      [] name = "Inc" -> Returns(fromInt(ToWord(n[1] + 1)))
      [] name = "Dec" -> Returns(fromInt(ToWord(n[1] - 1)))
      [] name = "Neg" -> Returns(fromInt(ToWord(-n[1])))
      [] name = "Abs" -> Returns(fromInt(ToWord(Magnitude(n[1]))))
      [] name = "NumEqual"       -> Returns(fromBool(n[1] = n[2]))
      [] name = "NumNotEqual"    -> Returns(fromBool(n[1] # n[2]))
      [] name = "NumEqualVerify" -> Verified(n[1] = n[2])
      [] name = "LessThan"       -> Returns(fromBool(n[1] < n[2]))
      [] name = "GreaterThan"    -> Returns(fromBool(n[1] > n[2]))
      [] name = "NumToBin"       -> numToBin(n[1], n[2])
      [] name = "BinToNum"       -> Returns(fromInt(n[1]))
      [] name = "ZeroNotEqual"   -> Returns(fromBool(n[1] # 0))

callFunction(name, args) ==
    LET numbers == [k \in DOMAIN args |-> toScriptNum(args[k])]
        bytes   == [k \in DOMAIN args |-> toScriptBytes(args[k])]
    IN  CASE name \in NumericFunctions ->
                 IF \E k \in DOMAIN args : numbers[k] = NoNumber THEN Raises
                 ELSE NumericFunction(name, numbers)
          [] name = "Equal"       -> Returns(fromBool(bytes[1] = bytes[2]))
          [] name = "EqualVerify" -> Verified(bytes[1] = bytes[2])
          [] name = "Verify"      -> Verified(truthy(args[1]))
          [] name = "Not"         -> Returns(fromBool(~truthy(args[1])))
          [] name = "Cat"         -> Returns(fromBytes(bytes[1] \o bytes[2]))
          [] name = "Size"        -> Returns(fromInt(ToWord(Len(bytes[1]))))
          [] name = "Slice"       -> IF NoNumber \in {numbers[2], numbers[3]} THEN Raises
                                     ELSE sliceBytes(args[1], numbers[2], numbers[3])
=============================================================================
