---------------------------- MODULE ScriptNumbers ----------------------------
(***************************************************************************)
(* Numbers as the byte strings a script holds, and the numeric and byte    *)
(* opcodes of the virtual machine on them: serializeScriptNum and toInt of *)
(* src/src/debugger/vm/stack_state.cpp, op_cat to op_verify of             *)
(* src/src/debugger/vm/bvm_simulator.cpp; and what                         *)
(* src/src/compiler/static_integer_evaluator.cpp computes of them before.  *)
(* A byte is a digit to the base ByteBase (256), a machine integer has     *)
(* WordBytes (8) of them.                                                  *)
(***************************************************************************)
EXTENDS RangePlan, SequencesExt

CONSTANTS
    ByteBase,     \* 256
    WordBytes,    \* 8
    NoNumber      \* what toInt makes of too many bytes

Power[k \in Nat] == IF k = 0 THEN 1 ELSE ByteBase * Power[k - 1]

ASSUME ByteAssumption ==
    /\ ByteBase \in Nat /\ ByteBase % 2 = 0
    /\ WordBytes \in Nat \ {0}
    /\ 2 * SignBit = Power[WordBytes]
ASSUME NoNumberAssumption == NoNumber \notin Int
ASSUME TrueAssumption == 1 \in Signed  \* what a comparison leaves

SignOfByte == ByteBase \div 2  \* 0x80
Byte       == 0..ByteBase - 1

Magnitude(v) == IF v < 0 THEN -v ELSE v

(* What the machine's operators leave of a number that is too large: the   *)
(* language leaves it open, the build wraps.                               *)
ToWord(n) == LET u == Wrap(n) IN IF u < SignBit THEN u ELSE u - 2 * SignBit

(* Little-endian digits, with the sign in the top bit of the last one.     *)
Width(m)  == CHOOSE k \in 1..WordBytes + 1 :
                 m < Power[k] /\ \A j \in 1..k - 1 : m >= Power[j]
Digits(m) == [i \in 1..Width(m) |-> (m \div Power[i - 1]) % ByteBase]

serializeScriptNum(v) ==
    LET digits == Digits(Magnitude(v))
        sign   == IF v < 0 THEN SignOfByte ELSE 0
    IN  CASE v = 0 -> <<>>
          [] v # 0 /\ Last(digits) >= SignOfByte -> Append(digits, sign)
          [] v # 0 /\ Last(digits) < SignOfByte ->
                 Append(Front(digits), Last(digits) + sign)

LittleEndian(bytes) ==
    LET value[k \in 0..Len(bytes)] ==
            IF k = 0 THEN 0 ELSE value[k - 1] + bytes[k] * Power[k - 1]
    IN  value[Len(bytes)]
BigEndian(bytes) ==
    LET value[k \in 0..Len(bytes)] ==
            IF k = 0 THEN 0 ELSE value[k - 1] * ByteBase + bytes[k]
    IN  value[Len(bytes)]

toInt(bytes) ==
    IF bytes = <<>> THEN 0
    ELSE IF Len(bytes) > WordBytes THEN NoNumber
    ELSE IF Last(bytes) >= SignOfByte
    THEN -LittleEndian(Append(Front(bytes), Last(bytes) - SignOfByte))
    ELSE LittleEndian(bytes)

isNumber(bytes) == toInt(bytes) # NoNumber
isTrue(bytes)   == isNumber(bytes) /\ toInt(bytes) # 0

(* Division rounds towards zero, and the remainder has the dividend's sign.*)
Quotient(a, b)  == IF (a < 0) = (b < 0) THEN Magnitude(a) \div Magnitude(b)
                   ELSE -(Magnitude(a) \div Magnitude(b))
Remainder(a, b) == a - b * Quotient(a, b)
-----------------------------------------------------------------------------
(* An opcode takes its operands in the order they were pushed. It leaves   *)
(* byte strings, or throws.                                                *)
Throws       == [ok |-> FALSE, items |-> <<>>]
Leaves(items) == [ok |-> TRUE, items |-> items]
PushInt(v)   == Leaves(<<serializeScriptNum(v)>>)
PushBool(b)  == PushInt(IF b THEN 1 ELSE 0)

UnaryArithmetic  == {"NEGATE", "ABS", "1ADD", "1SUB"}
BinaryArithmetic == {"ADD", "SUB", "MUL", "DIV", "MOD"}
Comparisons      == {"NUMEQUAL", "NUMNOTEQUAL", "LESSTHAN", "GREATERTHAN",
                     "LESSTHANOREQUAL", "GREATERTHANOREQUAL"}

UnaryNumber(op, a) ==
    ToWord(CASE op = "NEGATE" -> -a
             [] op = "ABS"    -> Magnitude(a)
             [] op = "1ADD"   -> a + 1
             [] op = "1SUB"   -> a - 1)

(* A quotient that is no machine integer ends the process.                 *)
Divides(a, b) == b # 0 /\ ~(a = -SignBit /\ b = -1)

BinaryNumber(op, a, b) ==
    ToWord(CASE op = "ADD" -> a + b
             [] op = "SUB" -> a - b
             [] op = "MUL" -> a * b
             [] op = "DIV" -> Quotient(a, b)
             [] op = "MOD" -> Remainder(a, b))

Compares(op, a, b) ==
    CASE op = "NUMEQUAL"    -> a = b
      [] op = "NUMNOTEQUAL" -> a # b
      [] op = "LESSTHAN"    -> a < b
      [] op = "GREATERTHAN" -> a > b
      [] op = "LESSTHANOREQUAL"    -> a <= b
      [] op = "GREATERTHANOREQUAL" -> a >= b

(* op_num2bin: the most significant byte first, and the loop stops at the  *)
(* length that was asked for.                                              *)
NumToBinBytes(v, length) ==
    [i \in 1..length |-> (v \div Power[length - i]) % ByteBase]

Numeric(op, n) ==
    CASE op \in UnaryArithmetic -> PushInt(UnaryNumber(op, n[1]))
      [] op \in BinaryArithmetic ->
             IF op \in {"DIV", "MOD"} /\ ~Divides(n[1], n[2]) THEN Throws
             ELSE PushInt(BinaryNumber(op, n[1], n[2]))
      [] op \in Comparisons -> PushBool(Compares(op, n[1], n[2]))
      [] op = "NUM2BIN" -> IF n[2] < 0 THEN Throws
                           ELSE Leaves(<<NumToBinBytes(n[1], n[2])>>)

(* op_split: x n to the bytes of x before n and those from n on.           *)
Split(x, n) ==
    IF n = NoNumber \/ n \notin 0..Len(x) THEN Throws
    ELSE Leaves(<<SubSeq(x, 1, n), SubSeq(x, n + 1, Len(x))>>)

(* Of what is not a number, NOT and 0NOTEQUAL make 0.                      *)
BooleanOpcode(op, args) ==
    CASE op = "EQUAL"     -> PushBool(args[1] = args[2])
      [] op = "NOT"       -> PushBool(isNumber(args[1]) /\ toInt(args[1]) = 0)
      [] op = "0NOTEQUAL" -> PushBool(isTrue(args[1]))
      [] op = "VERIFY"    -> IF isTrue(args[1]) THEN Leaves(<<>>) ELSE Throws

ByteOpcode(op, args) ==
    CASE op = "CAT"     -> Leaves(<<args[1] \o args[2]>>)
      [] op = "SPLIT"   -> Split(args[1], toInt(args[2]))
      [] op = "BIN2NUM" -> PushInt(ToWord(BigEndian(args[1])))
      [] op = "SIZE"    -> Leaves(<<args[1], serializeScriptNum(ToWord(Len(args[1])))>>)

executeOpcode(op, args) ==
    CASE op \in UnaryArithmetic \union BinaryArithmetic \union Comparisons
                \union {"NUM2BIN"} ->
             IF \E k \in DOMAIN args : ~isNumber(args[k]) THEN Throws
             ELSE Numeric(op, [k \in DOMAIN args |-> toInt(args[k])])
      [] op \in {"EQUAL", "NOT", "0NOTEQUAL", "VERIFY"} -> BooleanOpcode(op, args)
      [] op \in {"CAT", "SPLIT", "BIN2NUM", "SIZE"}     -> ByteOpcode(op, args)
      [] op = "DROP" -> Leaves(Front(args))
      [] op = "NIP"  -> Leaves(<<args[2]>>)

(* Opcodes one after another, each on what the last one left. No operator  *)
(* and no function takes more than two.                                    *)
ExecuteOpcodes(ops, args) ==
    LET next(r, i) == IF r.ok /\ i <= Len(ops) THEN executeOpcode(ops[i], r.items) ELSE r
    IN  next(next(Leaves(args), 1), 2)
-----------------------------------------------------------------------------
(* The static integer evaluator: an operator of two literals, or NoNumber  *)
(* where it reports an error, which rejects the program. No computation of *)
(* the checks themselves overflows.                                        *)
Greatest == SignBit - 1
Least    == -SignBit

checkedMultiply(a, b) ==
    LET overflows ==
            \/ a = -1 /\ b = Least
            \/ b = -1 /\ a = Least
            \/ a > 0 /\ b > 0 /\ a > Quotient(Greatest, b)
            \/ a > 0 /\ b < 0 /\ b < Quotient(Least, a)
            \/ a < 0 /\ b > 0 /\ a < Quotient(Least, b)
            \/ a < 0 /\ b < 0 /\ a < Quotient(Greatest, b)
    IN  IF overflows THEN NoNumber ELSE ToWord(a * b)

checkedAdd(a, b) ==
    IF (b > 0 /\ a > Greatest - b) \/ (b < 0 /\ a < Least - b) THEN NoNumber
    ELSE ToWord(a + b)

MutCheckedSubtract(a, b) ==
    IF (b < 0 /\ a > Greatest - b) \/ (b > 0 /\ a < Least - b) THEN NoNumber
    ELSE ToWord(a - b)
checkedSubtract(a, b) ==
    IF (b < 0 /\ a > Greatest + b) \/ (b > 0 /\ a < Least + b) THEN NoNumber
    ELSE ToWord(a - b)

checkedDivide(a, b) == IF Divides(a, b) THEN Quotient(a, b) ELSE NoNumber

StaticTruth(b) == IF b THEN 1 ELSE 0

evaluateOperator(op, a, b) ==
    CASE op = "+" -> checkedAdd(a, b)
      [] op = "-" -> checkedSubtract(a, b)
      [] op = "*" -> checkedMultiply(a, b)
      [] op = "/" -> checkedDivide(a, b)
      [] op = "==" -> StaticTruth(a = b)
      [] op = "!=" -> StaticTruth(a # b)
      [] op = "<" -> StaticTruth(a < b)
      [] op = ">" -> StaticTruth(a > b)
      [] op = "<=" -> StaticTruth(a <= b)
      [] op = ">=" -> StaticTruth(a >= b)

(* The machine integers by their texts.                                    *)
stoll == [text \in {ToString(v) : v \in Signed} |-> CHOOSE v \in Signed : ToString(v) = text]
=============================================================================
