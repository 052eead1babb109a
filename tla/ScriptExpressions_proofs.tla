----------------------- MODULE ScriptExpressions_proofs -----------------------
(***************************************************************************)
(* Loops, folded literals and compiled expressions, for machine integers of *)
(* any width and bytes of any even base.                                   *)
(*                                                                         *)
(* The first part is about the arithmetic of the compiler, of the machine  *)
(* and of the interpreter. For the ranges of loops three facts carry the   *)
(* proofs: turning the sign bit adds SignBit to every machine integer, the *)
(* distance of two of them and every offset up to it fit in an unsigned    *)
(* one, and a quotient and its remainder say how many multiples of the     *)
(* step lie below a distance. The questions of the static evaluator are    *)
(* shown to be whether the exact result is a machine integer. The bytes of *)
(* a number are read and written by loops: what they compute follows by    *)
(* induction, which is derived here from the well-founded order of the     *)
(* natural numbers. Then it is said of every opcode, and of the            *)
(* interpreter's function beside it, what it leaves for its operands, and  *)
(* that a number written as bytes is read back.                            *)
(*                                                                         *)
(* The second part has the theorems. The invariant of the folder,          *)
(* KnownItems, says that the operands are a sequence and what it knows of  *)
(* one is a machine integer; that they stay a sequence is why the opcodes  *)
(* are visited one by one. For the two programs that evaluate one          *)
(* expression the invariant relates their states: the operands compiled so *)
(* far stand on the machine's stack in the order the interpreter holds     *)
(* them, and each of them is read alike, as a number, as a truth value and *)
(* as bytes, on both sides.                                                *)
(***************************************************************************)
EXTENDS ScriptExpressions, SequenceTheorems, WellFoundedInduction, TLAPS

(* The ranges of loops.                                                    *)
Modulus == 2 * SignBit

(* There are machine words, and machine integers.                          *)
LEMMA ModulusPositive == Modulus \in Nat \ {0} /\ SignBit \in Nat \ {0}
  BY SignBitAssumption DEF Modulus

(* The three ways a number just outside a modulus is brought into it.      *)
LEMMA ModSmall ==
    ASSUME NEW m \in Nat \ {0}, NEW n \in 0..m - 1 PROVE n % m = n
  BY SMT

(* A number up to twice the modulus loses the modulus once.                *)
LEMMA ModAbove ==
    ASSUME NEW m \in Nat \ {0}, NEW n \in m..2 * m - 1 PROVE n % m = n - m
  BY SMT

(* A number just below 0 gains the modulus once.                           *)
LEMMA ModBelow ==
    ASSUME NEW m \in Nat \ {0}, NEW n \in -m..-1 PROVE n % m = n + m
  BY SMT

(* A quotient and its remainder.                                           *)
LEMMA DivMod ==
    ASSUME NEW m \in Nat \ {0}, NEW n \in Nat
    PROVE  /\ n = (n \div m) * m + (n % m)
           /\ (n % m) \in 0..m - 1
           /\ n \div m \in Nat
  BY SMT

(* How many multiples of m lie below q * m + r.                            *)
LEMMA MultiplesBelow ==
    ASSUME NEW m \in Nat \ {0}, NEW q \in Nat, NEW r \in 0..m - 1, NEW k \in Nat
    PROVE  k * m < q * m + r <=> k < q + (IF r = 0 THEN 0 ELSE 1)
  <1>1. CASE k <= q - 1
    <2>1. k * m + m <= q * m
      BY <1>1, SMT
    <2> QED BY <1>1, <2>1, SMT
  <1>2. CASE k = q
    BY <1>2, SMT
  <1>3. CASE k >= q + 1
    <2>1. k * m >= q * m + m
      BY <1>3, SMT
    <2> QED BY <1>3, <2>1, SMT
  <1> QED BY <1>1, <1>2, <1>3

(* An unsigned machine integer is kept by the machine.                     *)
LEMMA WrapUnsigned ==
    ASSUME NEW n \in Unsigned PROVE Wrap(n) = n
  BY ModulusPositive, ModSmall DEF Unsigned, Wrap, Modulus
-----------------------------------------------------------------------------
(* Machine integers keep their order among the unsigned ones.              *)
LEMMA OrderedIsShift ==
    ASSUME NEW v \in Signed
    PROVE  ordered(v) = v + SignBit /\ ordered(v) \in Unsigned
  <1>1. CASE v >= 0
    <2>1. Wrap(v) = v
      BY <1>1, WrapUnsigned, ModulusPositive DEF Signed, Unsigned
    <2>2. Wrap(v + SignBit) = v + SignBit /\ v + SignBit \in Unsigned
      BY <1>1, WrapUnsigned, ModulusPositive DEF Signed, Unsigned
    <2> QED BY <2>1, <2>2 DEF ordered, TurnSign
  <1>2. CASE v < 0
    <2>1. Wrap(v) = v + Modulus
      BY <1>2, ModBelow, ModulusPositive DEF Signed, Wrap, Modulus
    <2>2. v + Modulus + SignBit \in Modulus..2 * Modulus - 1
      BY <1>2, ModulusPositive DEF Signed, Modulus
    <2>3. Wrap(v + Modulus + SignBit) = v + SignBit
      BY <2>2, ModAbove, ModulusPositive DEF Wrap, Modulus, Signed
    <2>4. v + SignBit \in Unsigned
      BY <1>2, ModulusPositive DEF Signed, Unsigned
    <2> QED BY <2>1, <2>3, <2>4 DEF ordered, TurnSign
  <1> QED BY <1>1, <1>2 DEF Signed

(* Turning the sign bit back takes SignBit away again.                     *)
LEMMA FromOrderedIsShift ==
    ASSUME NEW u \in Unsigned PROVE fromOrdered(u) = u - SignBit
  <1>1. CASE u < SignBit
    <2>1. TurnSign(u) = u + SignBit
      BY <1>1, WrapUnsigned, ModulusPositive DEF Unsigned, TurnSign
    <2> QED BY <1>1, <2>1, ModulusPositive DEF fromOrdered, Unsigned
  <1>2. CASE u >= SignBit
    <2>1. u + SignBit \in Modulus..2 * Modulus - 1
      BY <1>2, ModulusPositive DEF Unsigned, Modulus
    <2>2. (u + SignBit) % Modulus = (u + SignBit) - Modulus
      BY <2>1, ModAbove, ModulusPositive
    <2>3. TurnSign(u) = u - SignBit
      <3>1. TurnSign(u) = (u + SignBit) - Modulus
        BY <2>2 DEF TurnSign, Wrap, Modulus
      <3> QED BY <3>1, ModulusPositive DEF Unsigned, Modulus
    <2>4. u - SignBit < SignBit
      BY ModulusPositive DEF Unsigned
    <2> QED BY <2>3, <2>4 DEF fromOrdered
  <1> QED BY <1>1, <1>2, ModulusPositive DEF Unsigned

(* The least machine integer has a magnitude too.                          *)
LEMMA MagnitudeIsExact ==
    ASSUME NEW step \in Signed \ {0}
    PROVE  /\ stepMagnitude(step) = IF step > 0 THEN step ELSE -step
           /\ stepMagnitude(step) \in 1..SignBit
  <1>1. CASE step > 0
    BY <1>1, ModulusPositive DEF stepMagnitude, Signed
  <1>2. CASE step < 0
    <2>1. Wrap(-(step + 1)) = -(step + 1)
      BY <1>2, WrapUnsigned, ModulusPositive DEF Signed, Unsigned
    <2>2. Wrap(-(step + 1) + 1) = -step
      BY <1>2, WrapUnsigned, ModulusPositive DEF Signed, Unsigned
    <2> QED BY <1>2, <2>1, <2>2, ModulusPositive DEF stepMagnitude, Signed
  <1> QED BY <1>1, <1>2 DEF Signed

(* The distance of the bounds of a range is no modulus too small.          *)
LEMMA DistanceIsExact ==
    ASSUME NEW start \in Signed, NEW stop \in Signed, NEW step \in Signed \ {0},
           Progresses(start, stop, step)
    PROVE  /\ Distance(start, stop, step) =
                  IF step > 0 THEN stop - start ELSE start - stop
           /\ Distance(start, stop, step) \in Unsigned \ {0}
  <1>1. ordered(start) = start + SignBit /\ ordered(stop) = stop + SignBit
    BY OrderedIsShift
  <1>2. CASE step > 0
    <2>1. ordered(stop) - ordered(start) = stop - start
      BY <1>1, ModulusPositive DEF Signed
    <2>2. stop - start \in Unsigned \ {0}
      BY <1>2, ModulusPositive DEF Progresses, Signed, Unsigned
    <2> QED BY <1>2, <2>1, <2>2, WrapUnsigned DEF Distance
  <1>3. CASE ~(step > 0)
    <2>1. ordered(start) - ordered(stop) = start - stop
      BY <1>1, ModulusPositive DEF Signed
    <2>2. start - stop \in Unsigned \ {0}
      BY <1>3, ModulusPositive DEF Progresses, Signed, Unsigned
    <2> QED BY <1>3, <2>1, <2>2, WrapUnsigned DEF Distance
  <1> QED BY <1>2, <1>3

(* The number of values is the quotient, rounded up.                       *)
LEMMA CountIsExact ==
    ASSUME NEW start \in Signed, NEW stop \in Signed, NEW step \in Signed \ {0},
           Progresses(start, stop, step), NEW k \in Nat
    PROVE  k < build(start, stop, step)
               <=> k * stepMagnitude(step) < Distance(start, stop, step)
  <1> DEFINE d == Distance(start, stop, step)
             m == stepMagnitude(step)
             q == d \div m
             r == d % m
             count == q + (IF r = 0 THEN 0 ELSE 1)
  <1>1. d \in Unsigned \ {0} /\ m \in Nat \ {0} /\ d \in Nat
    BY DistanceIsExact, MagnitudeIsExact, ModulusPositive DEF Unsigned
  <1>2. d = q * m + r /\ r \in 0..m - 1 /\ q \in Nat
    BY <1>1, DivMod
  <1> HIDE DEF d, m, q, r
  <1>3. count \in Unsigned
    <2>1. q <= q * m
      BY <1>1, <1>2, SMT
    <2>2. count <= d
      BY <1>1, <1>2, <2>1
    <2>3. count \in Nat
      BY <1>2, ModulusPositive
    <2> HIDE DEF count
    <2> QED BY <1>1, <2>2, <2>3, ModulusPositive DEF Unsigned
  <1>4. build(start, stop, step) = count
    BY <1>3, WrapUnsigned DEF build, d, m, q, r
  <1>5. k * m < q * m + r <=> k < count
    BY <1>1, <1>2, MultiplesBelow
  <1> QED BY <1>2, <1>4, <1>5 DEF d, m

(* What a range means, in distances.                                       *)
LEMMA InRangeIsBelow ==
    ASSUME NEW start \in Signed, NEW stop \in Signed, NEW step \in Signed \ {0},
           NEW k \in Nat
    PROVE  InRange(start, stop, step, k) <=>
               /\ Progresses(start, stop, step)
               /\ k * stepMagnitude(step) < Distance(start, stop, step)
  <1>1. CASE step > 0
    <2>1. k * step >= 0 /\ k * step \in Int
      BY <1>1, SMT DEF Signed
    <2>2. stepMagnitude(step) = step
      BY <1>1, MagnitudeIsExact
    <2>3. CASE Progresses(start, stop, step)
      <3>1. Distance(start, stop, step) = stop - start
        BY <1>1, <2>3, DistanceIsExact
      <3> QED BY <1>1, <2>1, <2>2, <2>3, <3>1, ModulusPositive DEF InRange, Signed
    <2>4. CASE ~Progresses(start, stop, step)
      BY <1>1, <2>1, <2>4, ModulusPositive DEF InRange, Progresses, Signed
    <2> QED BY <2>3, <2>4
  <1>2. CASE ~(step > 0)
    <2>1. k * (-step) = -(k * step) /\ k * step <= 0 /\ k * step \in Int
      BY <1>2, SMT DEF Signed
    <2>2. stepMagnitude(step) = -step
      BY <1>2, MagnitudeIsExact
    <2>3. CASE Progresses(start, stop, step)
      <3>1. Distance(start, stop, step) = start - stop
        BY <1>2, <2>3, DistanceIsExact
      <3> QED BY <1>2, <2>1, <2>2, <2>3, <3>1, ModulusPositive DEF InRange, Signed
    <2>4. CASE ~Progresses(start, stop, step)
      BY <1>2, <2>1, <2>4, ModulusPositive DEF InRange, Progresses, Signed
    <2> QED BY <2>3, <2>4
  <1> QED BY <1>1, <1>2

(* A value of the range lies between its bounds, and so does every step of *)
(* its computation.                                                        *)
LEMMA ValueIsExact ==
    ASSUME NEW start \in Signed, NEW stop \in Signed, NEW step \in Signed \ {0},
           Progresses(start, stop, step), NEW k \in Nat,
           k * stepMagnitude(step) < Distance(start, stop, step)
    PROVE  valueAt(start, step, k) = start + k * step
  <1> DEFINE o == k * stepMagnitude(step)
  <1>1. stepMagnitude(step) \in Nat \ {0}
    BY MagnitudeIsExact, ModulusPositive
  <1>2. o \in Nat /\ stepMagnitude(step) * k = o
    BY <1>1, SMT
  <1>3. ordered(start) = start + SignBit
    BY OrderedIsShift
  <1>4. Distance(start, stop, step) \in Unsigned
        /\ Distance(start, stop, step) = IF step > 0 THEN stop - start ELSE start - stop
    BY DistanceIsExact
  <1>5. o \in Unsigned
    <2>1. o < Distance(start, stop, step)
      OBVIOUS
    <2> HIDE DEF o
    <2> QED BY <1>2, <1>4, <2>1, ModulusPositive DEF Unsigned
  <1>6. CASE step > 0
    <2>1. k * step = o
      BY <1>6, MagnitudeIsExact
    <2> HIDE DEF o
    <2>2. start + SignBit + o \in Unsigned
      BY <1>2, <1>4, <1>6, ModulusPositive DEF o, Signed, Unsigned
    <2>3. valueAt(start, step, k) = fromOrdered(start + SignBit + o)
      BY <1>2, <1>3, <1>5, <1>6, <2>2 DEF valueAt
    <2> QED BY <1>2, <2>1, <2>2, <2>3, FromOrderedIsShift, ModulusPositive DEF Signed
  <1>7. CASE ~(step > 0)
    <2>1. k * step = -o
      <3>1. stepMagnitude(step) = -step
        BY <1>7, MagnitudeIsExact
      <3> QED BY <3>1, SMT DEF Signed
    <2> HIDE DEF o
    <2>2. start + SignBit - o \in Unsigned
      BY <1>2, <1>4, <1>7, ModulusPositive DEF o, Signed, Unsigned
    <2>3. valueAt(start, step, k) = fromOrdered(start + SignBit - o)
      <3>1. ordered(start) - o = start + SignBit - o
        BY <1>2, <1>3, ModulusPositive DEF Signed
      <3> QED BY <1>2, <1>5, <1>7, <2>2, <3>1 DEF valueAt
    <2> QED BY <1>2, <2>1, <2>2, <2>3, FromOrderedIsShift, ModulusPositive DEF Signed
  <1> QED BY <1>6, <1>7
-----------------------------------------------------------------------------
(* A machine integer is its own remainder in a word.                       *)
LEMMA WordOfSigned ==
    ASSUME NEW n \in Signed PROVE ToWord(n) = n
  <1>1. CASE n >= 0
    <2>1. Wrap(n) = n
      BY <1>1, WrapUnsigned, ModulusPositive DEF Signed, Unsigned
    <2> QED BY <1>1, <2>1, ModulusPositive DEF ToWord, Signed
  <1>2. CASE n < 0
    <2>1. Wrap(n) = n + Modulus
      BY <1>2, ModBelow, ModulusPositive DEF Signed, Wrap, Modulus
    <2> QED BY <1>2, <2>1, ModulusPositive DEF ToWord, Signed, Modulus
  <1> QED BY <1>1, <1>2 DEF Signed

(* A number is above a quotient exactly if its product is above the dividend.*)
LEMMA AboveQuotient ==
    ASSUME NEW m \in Nat \ {0}, NEW n \in Nat, NEW k \in Nat
    PROVE  k > n \div m <=> k * m > n
  <1> DEFINE q == n \div m
             r == n % m
  <1>1. n = q * m + r /\ r \in 0..m - 1 /\ q \in Nat
    BY DivMod
  <1> HIDE DEF q, r
  <1>2. CASE k > q
    <2>1. k * m >= q * m + m
      BY <1>1, <1>2, SMT
    <2> QED BY <1>1, <1>2, <2>1 DEF q
  <1>3. CASE k <= q
    <2>1. k * m <= q * m
      BY <1>1, <1>3, SMT
    <2> QED BY <1>1, <1>3, <2>1 DEF q
  <1> QED BY <1>1, <1>2, <1>3

(* The only number that leaves a remainder is the quotient; it is no       *)
(* greater than the dividend.                                              *)
LEMMA QuotientUnique ==
    ASSUME NEW m \in Nat \ {0}, NEW n \in Nat, NEW q \in Int
    PROVE  /\ n - m * q \in 0..m - 1 <=> q = n \div m
           /\ n \div m \in 0..n
           /\ m > 1 /\ n > 0 => n \div m < n
  <1> DEFINE p == n \div m
             r == n % m
  <1>1. n = p * m + r /\ r \in 0..m - 1 /\ p \in Nat
    BY DivMod
  <1> HIDE DEF p, r
  <1>2. CASE q = p
    BY <1>1, <1>2 DEF p
  <1>3. q > p => m * q >= m * p + m
    BY <1>1, SMT
  <1>4. q < p => m * q <= m * p - m
    BY <1>1, SMT
  <1>5. m * q \in Int /\ m * p \in Int /\ p * m = m * p
    BY <1>1, SMT
  <1>6. n - m * q \in 0..m - 1 <=> q = p
    BY <1>1, <1>3, <1>4, <1>5
  <1>7. p <= p * m
    BY <1>1, SMT
  <1>8. m > 1 /\ p > 0 => p < p * m
    BY <1>1, SMT
  <1> QED BY <1>1, <1>6, <1>7, <1>8 DEF p

(* What a check should give where the exact result is known.               *)
Result(exact, v) ==
    IF exact \in Signed THEN v = exact ELSE v = NoNumber

(* checkedAdd and checkedSubtract.                                         *)
LEMMA AddIsExact ==
    ASSUME NEW a \in Signed, NEW b \in Signed
    PROVE  Result(a + b, checkedAdd(a, b)) /\ Result(a - b, checkedSubtract(a, b))
  <1>1. checkedAdd(a, b) = IF a + b \in Signed THEN ToWord(a + b) ELSE NoNumber
    BY ModulusPositive DEF checkedAdd, Signed, Greatest, Least
  <1>2. checkedSubtract(a, b) = IF a - b \in Signed THEN ToWord(a - b) ELSE NoNumber
    BY ModulusPositive DEF checkedSubtract, Signed, Greatest, Least
  <1> QED BY <1>1, <1>2, WordOfSigned DEF Result

(* Division towards zero, by the signs of its operands.                    *)
LEMMA QuotientBySigns ==
    ASSUME NEW a \in Int, NEW b \in Int
    PROVE  /\ a >= 0 /\ b > 0 => Quotient(a, b) = a \div b
           /\ a >= 0 /\ b < 0 => Quotient(a, b) = -(a \div (-b))
           /\ a < 0 /\ b > 0 => Quotient(a, b) = -((-a) \div b)
           /\ a < 0 /\ b < 0 => Quotient(a, b) = (-a) \div (-b)
  <1>1. CASE a >= 0 /\ b > 0
    <2>1. (a < 0) = FALSE /\ (b < 0) = FALSE
      BY <1>1
    <2> QED BY <1>1, <2>1 DEF Quotient, Magnitude
  <1>2. CASE a >= 0 /\ b < 0
    <2>1. (a < 0) = FALSE /\ (b < 0) = TRUE
      BY <1>2
    <2> QED BY <1>2, <2>1 DEF Quotient, Magnitude
  <1>3. CASE a < 0 /\ b > 0
    <2>1. (a < 0) = TRUE /\ (b < 0) = FALSE
      BY <1>3
    <2> QED BY <1>3, <2>1 DEF Quotient, Magnitude
  <1>4. CASE a < 0 /\ b < 0
    <2>1. (a < 0) = TRUE /\ (b < 0) = TRUE
      BY <1>4
    <2> QED BY <1>4, <2>1 DEF Quotient, Magnitude
  <1> QED BY <1>1, <1>2, <1>3, <1>4

(* checkedMultiply: its four comparisons with a quotient ask whether the   *)
(* product is a machine integer, and the two products by -1 it singles out *)
(* are among those.                                                        *)
LEMMA MultiplyIsExact ==
    ASSUME NEW a \in Signed, NEW b \in Signed
    PROVE  Result(a * b, checkedMultiply(a, b))
  <1> DEFINE p == a * b
  <1>1. p \in Int /\ a \in Int /\ b \in Int /\ p = b * a
    BY SMT DEF Signed
  <1>2. Greatest \in Nat /\ SignBit \in Nat /\ Least = -SignBit
    BY ModulusPositive DEF Greatest, Least
  <1>3. /\ a \in -SignBit..Greatest /\ b \in -SignBit..Greatest
        /\ Signed = -SignBit..Greatest /\ Greatest < SignBit
    BY ModulusPositive DEF Signed, Greatest
  <1>4. CASE a = 0 \/ b = 0
    <2>1. p = 0 /\ p \in Signed
      BY <1>4, <1>1, <1>3, ModulusPositive
    <2>2. ~(a = -1 /\ b = Least) /\ ~(b = -1 /\ a = Least)
      BY <1>4, <1>2, ModulusPositive
    <2>3. checkedMultiply(a, b) = ToWord(a * b)
      BY <1>4, <1>1, <2>2 DEF checkedMultiply
    <2> QED BY <2>1, <2>3, WordOfSigned DEF Result
  <1>5. CASE a > 0 /\ b > 0
    <2>1. Quotient(Greatest, b) = Greatest \div b
      BY <1>1, <1>2, <1>5, QuotientBySigns
    <2>2. a > Greatest \div b <=> a * b > Greatest
      BY <1>1, <1>2, <1>5, AboveQuotient
    <2>3. p > 0
      BY <1>1, <1>5, SMT
    <2>4. checkedMultiply(a, b) = IF a > Greatest \div b THEN NoNumber ELSE ToWord(a * b)
      BY <1>1, <1>5, <2>1 DEF checkedMultiply
    <2>5. p \in Signed <=> ~(a > Greatest \div b)
      BY <1>1, <1>2, <1>3, <2>2, <2>3
    <2> QED BY <2>4, <2>5, WordOfSigned DEF Result
  <1>6. CASE a > 0 /\ b < 0
    <2>1. Quotient(Least, a) = -(SignBit \div a)
      BY <1>1, <1>2, <1>6, ModulusPositive, QuotientBySigns
    <2>2. -b > SignBit \div a <=> (-b) * a > SignBit
      BY <1>1, <1>2, <1>6, AboveQuotient
    <2>3. (-b) * a = -p
      BY <1>1, SMT
    <2>4. p < 0
      BY <1>1, <1>6, SMT
    <2>5. SignBit \div a \in Int
      BY <1>1, <1>2, <1>6
    <2>6. checkedMultiply(a, b) =
              IF (b = -1 /\ a = Least) \/ b < -(SignBit \div a) THEN NoNumber
              ELSE ToWord(a * b)
      BY <1>6, <2>1, <1>1 DEF checkedMultiply
    <2>7. a # Least
      BY <1>1, <1>2, <1>6
    <2>8. p \in Signed <=> ~(b < -(SignBit \div a))
      BY <1>1, <1>2, <1>3, <2>2, <2>3, <2>4, <2>5
    <2> QED BY <2>6, <2>7, <2>8, WordOfSigned DEF Result
  <1>7. CASE a < 0 /\ b > 0
    <2>1. Quotient(Least, b) = -(SignBit \div b)
      BY <1>1, <1>2, <1>7, ModulusPositive, QuotientBySigns
    <2>2. -a > SignBit \div b <=> (-a) * b > SignBit
      BY <1>1, <1>2, <1>7, AboveQuotient
    <2>3. (-a) * b = -p
      BY <1>1, SMT
    <2>4. p < 0
      BY <1>1, <1>7, SMT
    <2>5. SignBit \div b \in Int
      BY <1>1, <1>2, <1>7
    <2>6. checkedMultiply(a, b) =
              IF (a = -1 /\ b = Least) \/ a < -(SignBit \div b) THEN NoNumber
              ELSE ToWord(a * b)
      BY <1>7, <2>1, <1>1 DEF checkedMultiply
    <2>7. b # Least
      BY <1>1, <1>2, <1>7
    <2>8. p \in Signed <=> ~(a < -(SignBit \div b))
      BY <1>1, <1>2, <1>3, <2>2, <2>3, <2>4, <2>5
    <2> QED BY <2>6, <2>7, <2>8, WordOfSigned DEF Result
  <1>8. CASE a < 0 /\ b < 0
    <2>1. Quotient(Greatest, b) = -(Greatest \div (-b))
      BY <1>1, <1>2, <1>8, QuotientBySigns
    <2>2. -a > Greatest \div (-b) <=> (-a) * (-b) > Greatest
      BY <1>1, <1>2, <1>8, AboveQuotient
    <2>3. (-a) * (-b) = p
      BY <1>1, SMT
    <2>4. p > 0
      BY <1>1, <1>8, SMT
    <2>5. Greatest \div (-b) \in Int
      BY <1>1, <1>2, <1>8
    <2>6. checkedMultiply(a, b) =
              IF (a = -1 /\ b = Least) \/ (b = -1 /\ a = Least) \/ a < -(Greatest \div (-b))
              THEN NoNumber ELSE ToWord(a * b)
      BY <1>8, <2>1, <1>1 DEF checkedMultiply
    <2>7. (a = -1 /\ b = Least) \/ (b = -1 /\ a = Least) => p > Greatest
      BY <1>1, <1>2, <1>3
    <2>8. p \in Signed <=> ~(a < -(Greatest \div (-b)))
      BY <1>1, <1>2, <1>3, <2>2, <2>3, <2>4, <2>5
    <2>9. p \in Signed => p <= Greatest
      BY <1>3, <1>1, <1>2
    <2> QED BY <1>1, <1>2, <2>6, <2>7, <2>8, <2>9, WordOfSigned DEF Result
  <1> QED BY <1>1, <1>4, <1>5, <1>6, <1>7, <1>8

(* The condition of Exact on a quotient, in magnitudes.                    *)
IsQuotient(a, b, q) ==
    Magnitude(a - b * q) < Magnitude(b) /\ (a - b * q) * a >= 0

(* The sign of a product.                                                  *)
LEMMA SignOfProduct ==
    ASSUME NEW x \in Int, NEW a \in Int
    PROVE  /\ a > 0 => (x * a >= 0 <=> x >= 0)
           /\ a < 0 => (x * a >= 0 <=> x <= 0)
           /\ a = 0 => x * a >= 0
  <1>1. a > 0 /\ x > 0 => x * a > 0
    BY SMT
  <1>2. a > 0 /\ x < 0 => x * a < 0
    BY SMT
  <1>3. a < 0 /\ x > 0 => x * a < 0
    BY SMT
  <1>4. a < 0 /\ x < 0 => x * a > 0
    BY SMT
  <1>5. a = 0 \/ x = 0 => x * a = 0
    BY SMT
  <1>6. x * a \in Int
    BY SMT
  <1> QED BY <1>1, <1>2, <1>3, <1>4, <1>5, <1>6

(* Division towards zero is the only one whose remainder is small enough   *)
(* and has the dividend's sign.                                            *)
LEMMA QuotientIsExact ==
    ASSUME NEW a \in Int, NEW b \in Int \ {0}, NEW q \in Int
    PROVE  IsQuotient(a, b, q) <=> q = Quotient(a, b)
  <1> DEFINE x == a - b * q
  <1>1. b * q \in Int /\ (-b) * q = -(b * q) /\ b * (-q) = -(b * q)
        /\ (-b) * (-q) = b * q
    BY SMT
  <1>2. x \in Int
    BY <1>1
  <1>3. IsQuotient(a, b, q) <=> Magnitude(x) < Magnitude(b) /\ x * a >= 0
    BY DEF IsQuotient
  <1> HIDE DEF x
  <1>4. /\ a > 0 => (x * a >= 0 <=> x >= 0)
        /\ a < 0 => (x * a >= 0 <=> x <= 0)
        /\ a = 0 => x * a >= 0
    BY <1>2, SignOfProduct
  <1>5. /\ a > 0 /\ b > 0 => (IsQuotient(a, b, q) <=> x \in 0..b - 1)
        /\ a > 0 /\ b < 0 => (IsQuotient(a, b, q) <=> x \in 0..-b - 1)
        /\ a < 0 /\ b > 0 => (IsQuotient(a, b, q) <=> -x \in 0..b - 1)
        /\ a < 0 /\ b < 0 => (IsQuotient(a, b, q) <=> -x \in 0..-b - 1)
    BY <1>2, <1>3, <1>4 DEF Magnitude
  <1>6. CASE a > 0 /\ b > 0
    <2>1. x = a - b * q
      BY DEF x
    <2>2. x \in 0..b - 1 <=> q = a \div b
      BY <1>6, <2>1, QuotientUnique
    <2>9. Quotient(a, b) = a \div b
      BY <1>6, QuotientBySigns
    <2> QED BY <1>5, <1>6, <2>2, <2>9
  <1>7. CASE a > 0 /\ b < 0
    <2>1. x = a - (-b) * (-q)
      BY <1>1 DEF x
    <2>2. x \in 0..-b - 1 <=> -q = a \div (-b)
      BY <1>7, <2>1, QuotientUnique
    <2>3. a \div (-b) \in Int
      BY <1>7
    <2>9. Quotient(a, b) = -(a \div (-b))
      BY <1>7, QuotientBySigns
    <2> QED BY <1>5, <1>7, <2>2, <2>3, <2>9
  <1>8. CASE a < 0 /\ b > 0
    <2>1. -x = -a - b * (-q)
      BY <1>1 DEF x
    <2>2. -x \in 0..b - 1 <=> -q = (-a) \div b
      BY <1>8, <2>1, QuotientUnique
    <2>3. (-a) \div b \in Int
      BY <1>8
    <2>9. Quotient(a, b) = -((-a) \div b)
      BY <1>8, QuotientBySigns
    <2> QED BY <1>5, <1>8, <2>2, <2>3, <2>9
  <1>9. CASE a < 0 /\ b < 0
    <2>1. -x = -a - (-b) * q
      BY <1>1 DEF x
    <2>2. -x \in 0..-b - 1 <=> q = (-a) \div (-b)
      BY <1>9, <2>1, QuotientUnique
    <2>9. Quotient(a, b) = (-a) \div (-b)
      BY <1>9, QuotientBySigns
    <2> QED BY <1>5, <1>9, <2>2, <2>9
  <1>10. CASE a = 0
    <2>1. Quotient(a, b) = 0
      <3>1. \A m \in Nat \ {0} : 0 \div m = 0
        BY SMT
      <3> QED BY <1>10, <3>1, QuotientBySigns
    <2>2. x = -(b * q)
      BY <1>1, <1>10 DEF x
    <2>3. q = 0 => b * q = 0
      BY SMT
    <2>4. q # 0 => Magnitude(b * q) >= Magnitude(b)
      <3>1. b > 0 /\ q > 0 => b * q >= b
        BY SMT
      <3>2. b > 0 /\ q < 0 => b * q <= -b
        BY SMT
      <3>3. b < 0 /\ q > 0 => b * q <= b
        BY SMT
      <3>4. b < 0 /\ q < 0 => b * q >= -b
        BY SMT
      <3> QED BY <1>1, <3>1, <3>2, <3>3, <3>4 DEF Magnitude
    <2>5. Magnitude(x) = Magnitude(b * q) /\ Magnitude(b) > 0 /\ Magnitude(0) = 0
      BY <1>1, <2>2 DEF Magnitude
    <2>6. Magnitude(b) \in Int /\ Magnitude(b * q) \in Int
      BY <1>1 DEF Magnitude
    <2> QED BY <1>3, <1>4, <1>10, <2>1, <2>3, <2>4, <2>5, <2>6
  <1> QED BY <1>6, <1>7, <1>8, <1>9, <1>10

(* A quotient of machine integers is one, but for the least by -1.         *)
LEMMA QuotientInWord ==
    ASSUME NEW a \in Signed, NEW b \in Signed \ {0}
    PROVE  /\ Quotient(a, b) \in -SignBit..SignBit
           /\ Quotient(a, b) \in Signed <=> Divides(a, b)
  <1>1. a \in -SignBit..SignBit - 1 /\ b \in -SignBit..SignBit - 1 /\ b # 0
        /\ Signed = -SignBit..SignBit - 1 /\ SignBit \in Nat \ {0}
    BY ModulusPositive DEF Signed
  <1>2. a \in Int /\ b \in Int
    BY <1>1
  <1>3. CASE a >= 0 /\ b > 0
    <2>1. a \div b \in 0..a
      BY <1>1, <1>3, QuotientUnique
    <2>9. Quotient(a, b) = a \div b
      BY <1>2, <1>3, QuotientBySigns
    <2> QED BY <1>1, <1>3, <2>1, <2>9 DEF Divides
  <1>4. CASE a >= 0 /\ b < 0
    <2>1. a \div (-b) \in 0..a
      BY <1>1, <1>4, QuotientUnique
    <2>9. Quotient(a, b) = -(a \div (-b))
      BY <1>2, <1>4, QuotientBySigns
    <2> QED BY <1>1, <1>4, <2>1, <2>9 DEF Divides
  <1>5. CASE a < 0 /\ b > 0
    <2>1. (-a) \div b \in 0..-a
      BY <1>1, <1>5, QuotientUnique
    <2>9. Quotient(a, b) = -((-a) \div b)
      BY <1>2, <1>5, QuotientBySigns
    <2> QED BY <1>1, <1>5, <2>1, <2>9 DEF Divides
  <1>6. CASE a < 0 /\ b < 0
    <2> DEFINE m == -b
               n == -a
    <2>4. m \in Nat \ {0} /\ n \in Nat /\ n > 0
      BY <1>6, <1>2
    <2> HIDE DEF m, n
    <2>5. n \div m \in 0..n /\ (m > 1 => n \div m < n)
      BY <2>4, QuotientUnique
    <2>1. (-a) \div (-b) \in 0..-a
      BY <2>5 DEF m, n
    <2>2. -b > 1 => (-a) \div (-b) < -a
      BY <2>5 DEF m, n
    <2>3. b = -1 => (-a) \div (-b) = -a
      <3>1. \A j \in Nat : \A k : k = 1 => j \div k = j
        BY SMT
      <3>2. b = -1 => -b = 1
        <4>1. b + 1 = 0 => -b = 1
          BY <1>2
        <4>2. b = -1 => b + 1 = 0
          BY <1>2
        <4> QED BY <4>1, <4>2
      <3> QED BY <1>6, <1>2, <3>1, <3>2
    <2>9. Quotient(a, b) = (-a) \div (-b)
      BY <1>2, <1>6, QuotientBySigns
    <2> QED BY <1>1, <1>6, <2>1, <2>2, <2>3, <2>9 DEF Divides
  <1> QED BY <1>1, <1>3, <1>4, <1>5, <1>6
-----------------------------------------------------------------------------
(* A set of natural numbers that is not empty has a least element.         *)
LEMMA LeastElement ==
    ASSUME NEW T, T \subseteq Nat, T # {}
    PROVE  \E x \in T : \A y \in T : x <= y
  <1> DEFINE R == OpToRel(<, Nat)
  <1>1. IsWellFoundedOn(R, Nat)
    BY NatLessThanWellFounded, Zenon
  <1>2. \A x, y \in Nat : <<y, x>> \in R <=> y < x
    BY DEF OpToRel
  <1> HIDE DEF R
  <1>3. PICK x \in T : \A y \in T : ~(<<y, x>> \in R)
    BY <1>1, WFMin
  <1>4. ASSUME NEW y \in T PROVE x <= y
    <2>1. x \in Nat /\ y \in Nat /\ ~(y < x)
      BY <1>2, <1>3
    <2> QED BY <2>1
  <1> QED BY <1>4

(* Induction: what holds of 0, and of n + 1 wherever of n, holds of all.   *)
LEMMA Induction ==
    ASSUME NEW T, 0 \in T, \A n \in Nat : n \in T => n + 1 \in T
    PROVE  Nat \subseteq T
  <1> DEFINE U == Nat \ T
  <1> SUFFICES ASSUME U # {} PROVE FALSE
    OBVIOUS
  <1>1. PICK x \in U : \A y \in U : x <= y
    BY LeastElement
  <1>2. x # 0 /\ x \in Nat
    OBVIOUS
  <1>3. x - 1 \in Nat /\ x - 1 \notin U
    BY <1>1, <1>2
  <1> QED BY <1>2, <1>3

(* A step from one value to the next, taken n times.                       *)
IsIteration(f, a, H, n) ==
    /\ DOMAIN f = 0..n
    /\ f[0] = a
    /\ \A k \in 1..n : f[k] = H[<<k, f[k - 1]>>]

(* A function on all natural numbers that is built by H from a, and two    *)
(* functions with the same values up to n.                                 *)
IsRecursion(f, a, H) == f[0] = a /\ \A n \in Nat \ {0} : f[n] = H[<<n, f[n - 1]>>]

AgreeUpTo(f, g, n) == \A k \in Nat : k <= n => f[k] = g[k]

(* Building a value in n steps is possible for every n: by induction on n. *)
LEMMA IterationsExist ==
    ASSUME NEW a, NEW X, a \in X, NEW H \in [(Nat \ {0}) \X X -> X], NEW n \in Nat
    PROVE  \E f \in [0..n -> X] : IsIteration(f, a, H, n)
  <1> DEFINE T == {m \in Nat : \E f \in [0..m -> X] : IsIteration(f, a, H, m)}
  <1>1. 0 \in T
    <2> DEFINE f == [k \in 0..0 |-> a]
    <2>1. f \in [0..0 -> X] /\ IsIteration(f, a, H, 0)
      BY DEF IsIteration
    <2> HIDE DEF f
    <2> QED BY <2>1
  <1>2. ASSUME NEW m \in Nat, m \in T PROVE m + 1 \in T
    <2>1. PICK f \in [0..m -> X] : IsIteration(f, a, H, m)
      BY <1>2
    <2> DEFINE g == [k \in 0..m + 1 |-> IF k <= m THEN f[k] ELSE H[<<m + 1, f[m]>>]]
    <2>2. f[m] \in X /\ H[<<m + 1, f[m]>>] \in X
      OBVIOUS
    <2>3. g \in [0..m + 1 -> X]
      BY <2>2
    <2>4. IsIteration(g, a, H, m + 1)
      <3>1. DOMAIN g = 0..m + 1 /\ g[0] = a
        BY <2>1 DEF IsIteration
      <3>2. ASSUME NEW k \in 1..m + 1 PROVE g[k] = H[<<k, g[k - 1]>>]
        <4>1. CASE k <= m
          <5>1. k \in 1..m /\ k - 1 \in 0..m /\ g[k] = f[k] /\ g[k - 1] = f[k - 1]
            BY <4>1
          <5> QED BY <2>1, <5>1 DEF IsIteration
        <4>2. CASE k = m + 1
          <5>1. g[k] = H[<<m + 1, f[m]>>] /\ g[k - 1] = f[m] /\ k - 1 = m
            BY <4>2
          <5> QED BY <4>2, <5>1
        <4> QED BY <4>1, <4>2
      <3> HIDE DEF g
      <3> QED BY <3>1, <3>2 DEF IsIteration
    <2> HIDE DEF g
    <2> QED BY <2>3, <2>4
  <1> HIDE DEF T
  <1>3. Nat \subseteq T
    BY <1>1, <1>2, Induction
  <1> QED BY <1>3 DEF T

(* Two such iterations from the same start and step have the same values   *)
(* as far as both go.                                                      *)
LEMMA IterationsAgree ==
    ASSUME NEW a, NEW H, NEW m \in Nat, NEW n \in Nat, n <= m, NEW f, NEW g,
           IsIteration(f, a, H, m), IsIteration(g, a, H, n)
    PROVE  AgreeUpTo(f, g, n)
  <1> DEFINE T == {k \in Nat : k <= n => f[k] = g[k]}
  <1>1. 0 \in T
    BY DEF IsIteration
  <1>2. ASSUME NEW k \in Nat, k \in T PROVE k + 1 \in T
    <2>1. SUFFICES ASSUME k + 1 <= n PROVE f[k + 1] = g[k + 1]
      OBVIOUS
    <2>2. f[k] = g[k]
      BY <1>2, <2>1
    <2>3. k + 1 \in 1..m /\ k + 1 \in 1..n /\ (k + 1) - 1 = k
      BY <2>1
    <2> QED BY <2>2, <2>3 DEF IsIteration
  <1> HIDE DEF T
  <1>3. Nat \subseteq T
    BY <1>1, <1>2, Induction
  <1> QED BY <1>3 DEF T, AgreeUpTo

(* So a recursive function on the natural numbers exists: its value at n   *)
(* is the last one of the iteration of n steps.                            *)
LEMMA RecursionExists ==
    ASSUME NEW a, NEW X, a \in X, NEW H \in [(Nat \ {0}) \X X -> X]
    PROVE  \E f \in [Nat -> X] : IsRecursion(f, a, H)
  <1> DEFINE G == [n \in Nat |-> CHOOSE f \in [0..n -> X] : IsIteration(f, a, H, n)]
             f == [n \in Nat |-> G[n][n]]
  <1>1. ASSUME NEW n \in Nat PROVE G[n] \in [0..n -> X] /\ IsIteration(G[n], a, H, n)
    BY IterationsExist
  <1> HIDE DEF G
  <1>2. f \in [Nat -> X]
    BY <1>1
  <1>3. f[0] = a
    BY <1>1 DEF IsIteration
  <1>4. ASSUME NEW n \in Nat \ {0} PROVE f[n] = H[<<n, f[n - 1]>>]
    <2>1. IsIteration(G[n], a, H, n) /\ IsIteration(G[n - 1], a, H, n - 1)
      BY <1>1
    <2>2. G[n][n] = H[<<n, G[n][n - 1]>>]
      BY <2>1 DEF IsIteration
    <2>3. G[n][n - 1] = G[n - 1][n - 1]
      <3>1. n \in Nat /\ n - 1 \in Nat /\ n - 1 <= n
        OBVIOUS
      <3>2. AgreeUpTo(G[n], G[n - 1], n - 1)
        BY <2>1, <3>1, IterationsAgree
      <3> QED BY <3>1, <3>2 DEF AgreeUpTo
    <2> QED BY <2>2, <2>3
  <1> HIDE DEF f
  <1> QED BY <1>2, <1>3, <1>4 DEF IsRecursion

(* The powers of ByteBase.                                                 *)
LEMMA PowerIsRecursive ==
    /\ Power \in [Nat -> Int]
    /\ Power[0] = 1
    /\ \A k \in Nat \ {0} : Power[k] = ByteBase * Power[k - 1]
  <1> DEFINE H == [p \in (Nat \ {0}) \X Int |-> ByteBase * p[2]]
             Recursive(f) == f = [k \in Nat |-> IF k = 0 THEN 1 ELSE ByteBase * f[k - 1]]
  <1>1. ByteBase \in Int
    BY ByteAssumption
  <1>2. H \in [(Nat \ {0}) \X Int -> Int]
    BY <1>1
  <1>3. \A n \in Nat \ {0}, v \in Int : H[<<n, v>>] = ByteBase * v
    OBVIOUS
  <1> HIDE DEF H
  <1>4. PICK f \in [Nat -> Int] : IsRecursion(f, 1, H)
    <2>1. 1 \in Int
      OBVIOUS
    <2> QED BY <1>2, <2>1, RecursionExists
  <1>5. Recursive(f)
    <2>1. ASSUME NEW n \in Nat \ {0} PROVE f[n] = ByteBase * f[n - 1]
      <3>1. n - 1 \in Nat /\ f[n - 1] \in Int
        OBVIOUS
      <3> QED BY <1>3, <1>4, <3>1 DEF IsRecursion
    <2>2. f[0] = 1 /\ DOMAIN f = Nat
      BY <1>4 DEF IsRecursion
    <2>3. \A n \in Nat : f[n] = IF n = 0 THEN 1 ELSE ByteBase * f[n - 1]
      BY <2>1, <2>2
    <2> QED BY <2>2, <2>3
  <1>6. Recursive(Power)
    <2>1. Power = CHOOSE g : Recursive(g)
      BY DEF Power
    <2> HIDE DEF Recursive
    <2> QED BY <1>5, <2>1
  <1>7. \A n \in Nat : Power[n] = IF n = 0 THEN 1 ELSE ByteBase * Power[n - 1]
    BY <1>6
  <1>8. DOMAIN Power = Nat
    BY <1>6
  <1>9. Power = f
    <2> DEFINE T == {n \in Nat : Power[n] = f[n]}
    <2>1. 0 \in T
      BY <1>4, <1>7 DEF IsRecursion
    <2>2. ASSUME NEW n \in Nat, n \in T PROVE n + 1 \in T
      <3>1. Power[n + 1] = ByteBase * Power[n]
        BY <1>7
      <3>2. f[n + 1] = ByteBase * f[n]
        <4>1. n + 1 \in Nat \ {0} /\ (n + 1) - 1 = n /\ f[n] \in Int
          OBVIOUS
        <4> QED BY <1>3, <1>4, <4>1 DEF IsRecursion
      <3> QED BY <2>2, <3>1, <3>2
    <2> HIDE DEF T
    <2>3. Nat \subseteq T
      BY <2>1, <2>2, Induction
    <2>4. \A n \in Nat : Power[n] = f[n]
      BY <2>3 DEF T
    <2>5. Power = [n \in Nat |-> Power[n]] /\ f = [n \in Nat |-> f[n]]
      BY <1>6, <1>4
    <2> QED BY <2>4, <2>5
  <1> QED BY <1>4, <1>7, <1>9

(* A byte is a digit to an even base.                                      *)
LEMMA BaseIsEven ==
    /\ ByteBase \in Nat \ {0} /\ SignOfByte \in Nat \ {0}
    /\ ByteBase = 2 * SignOfByte
    /\ SignBit = SignOfByte * Power[WordBytes - 1]
  <1>1. /\ ByteBase \in Nat /\ ByteBase % 2 = 0
        /\ WordBytes \in Nat \ {0}
        /\ 2 * SignBit = ByteBase * Power[WordBytes - 1]
        /\ Power[WordBytes - 1] \in Int /\ SignBit \in Nat \ {0}
    BY ByteAssumption, PowerIsRecursive, SignBitAssumption
  <1>2. ByteBase # 0
    BY <1>1
  <1>3. ByteBase = 2 * SignOfByte /\ SignOfByte \in Nat \ {0}
    BY <1>1, <1>2 DEF SignOfByte
  <1>4. 2 * SignBit = 2 * (SignOfByte * Power[WordBytes - 1])
    BY <1>1, <1>3, SMT
  <1> DEFINE p == SignOfByte * Power[WordBytes - 1]
  <1>5. p \in Int
    BY <1>1, <1>3
  <1> HIDE DEF p
  <1>6. SignBit = p
    BY <1>1, <1>4, <1>5 DEF p
  <1> QED BY <1>2, <1>1, <1>3, <1>6 DEF p

(* The powers are positive, and grow.                                      *)
LEMMA PowersGrow ==
    /\ \A k \in Nat : Power[k] \in Nat \ {0}
    /\ \A k \in Nat : Power[k + 1] = ByteBase * Power[k] /\ Power[k] < Power[k + 1]
    /\ \A j, k \in Nat : j <= k => Power[j] <= Power[k]
  <1>1. \A k \in Nat : Power[k + 1] = ByteBase * Power[k]
    BY PowerIsRecursive
  <1>2. \A k \in Nat : Power[k] \in Nat \ {0}
    <2> DEFINE T == {k \in Nat : Power[k] \in Nat \ {0}}
    <2>1. 0 \in T
      BY PowerIsRecursive
    <2>2. ASSUME NEW k \in Nat, k \in T PROVE k + 1 \in T
      <3>1. \A x, y \in Nat \ {0} : x * y \in Nat \ {0}
        BY SMT
      <3> QED BY <1>1, <2>2, <3>1, BaseIsEven
    <2> HIDE DEF T
    <2>3. Nat \subseteq T
      BY <2>1, <2>2, Induction
    <2> QED BY <2>3 DEF T
  <1>3. ASSUME NEW k \in Nat PROVE Power[k] < Power[k + 1]
    <2>1. \A p, s \in Nat \ {0} : p < 2 * s * p
      BY SMT
    <2> QED BY <1>1, <1>2, <2>1, BaseIsEven
  <1>4. ASSUME NEW j \in Nat PROVE \A k \in Nat : j <= k => Power[j] <= Power[k]
    <2> DEFINE T == {k \in Nat : j <= k => Power[j] <= Power[k]}
    <2>1. 0 \in T
      BY <1>2
    <2>2. ASSUME NEW k \in Nat, k \in T PROVE k + 1 \in T
      <3>1. Power[j] \in Int /\ Power[k] \in Int /\ Power[k + 1] \in Int /\ Power[k] < Power[k + 1]
        BY <1>2, <1>3
      <3>2. j <= k + 1 => j = k + 1 \/ j <= k
        OBVIOUS
      <3> QED BY <2>2, <3>1, <3>2
    <2> HIDE DEF T
    <2>3. Nat \subseteq T
      BY <2>1, <2>2, Induction
    <2> QED BY <2>3 DEF T
  <1> QED BY <1>1, <1>2, <1>3, <1>4

(* What the loop of toInt has added up after each byte.                    *)
IsSum(V, bytes) ==
    /\ V \in [0..Len(bytes) -> Int]
    /\ V[0] = 0
    /\ \A k \in 1..Len(bytes) : V[k] = V[k - 1] + bytes[k] * Power[k - 1]

(* LittleEndian, the loop over the bytes in parseScriptNum and toInt, is   *)
(* the sum of the bytes times the powers of their base.                    *)
LEMMA LittleEndianIsSum ==
    ASSUME NEW bytes \in Seq(Int)
    PROVE  \E V : IsSum(V, bytes) /\ LittleEndian(bytes) = V[Len(bytes)]
  <1> DEFINE n == Len(bytes)
             Added(k, v) == IF k \in 1..n THEN v + bytes[k] * Power[k - 1] ELSE v
             H == [p \in (Nat \ {0}) \X Int |-> Added(p[1], p[2])]
             Recursive(f) == f = [k \in 0..n |-> IF k = 0 THEN 0
                                                 ELSE f[k - 1] + bytes[k] * Power[k - 1]]
  <1>1. \A k \in Nat \ {0}, v \in Int : Added(k, v) \in Int
    <2>1. ASSUME NEW k \in 1..n, NEW v \in Int PROVE v + bytes[k] * Power[k - 1] \in Int
      <3>1. bytes[k] \in Int /\ Power[k - 1] \in Int
        BY PowerIsRecursive
      <3> QED BY <3>1
    <2> QED BY <2>1
  <1>2. n \in Nat
    OBVIOUS
  <1> HIDE DEF Added
  <1>3. H \in [(Nat \ {0}) \X Int -> Int]
    BY <1>1
  <1>4. \A k \in Nat \ {0}, v \in Int : H[<<k, v>>] = Added(k, v)
    OBVIOUS
  <1> HIDE DEF H, n
  <1>5. PICK f \in [0..n -> Int] : IsIteration(f, 0, H, n)
    <2>1. 0 \in Int
      OBVIOUS
    <2> QED BY <1>2, <1>3, <2>1, IterationsExist
  <1>6. ASSUME NEW g, Recursive(g) PROVE g \in [0..n -> Int] /\ IsIteration(g, 0, H, n)
    <2>1. DOMAIN g = 0..n /\ g[0] = 0
      BY <1>2, <1>6
    <2>2. ASSUME NEW k \in 1..n PROVE g[k] = g[k - 1] + bytes[k] * Power[k - 1]
      <3>1. k \in 0..n /\ k # 0
        BY <1>2
      <3> QED BY <1>6, <3>1
    <2> DEFINE T == {k \in Nat : k <= n => g[k] \in Int}
    <2>3. 0 \in T
      BY <2>1
    <2>4. ASSUME NEW k \in Nat, k \in T PROVE k + 1 \in T
      <3>1. SUFFICES ASSUME k + 1 <= n PROVE g[k + 1] \in Int
        OBVIOUS
      <3>2. k + 1 \in 1..n /\ (k + 1) - 1 = k /\ k + 1 \in Nat \ {0} /\ g[k] \in Int
        BY <1>2, <2>4, <3>1
      <3>3. g[k + 1] = Added(k + 1, g[k])
        BY <2>2, <3>2 DEF Added
      <3> QED BY <1>1, <3>2, <3>3
    <2> HIDE DEF T
    <2>5. Nat \subseteq T
      BY <2>3, <2>4, Induction
    <2>6. \A k \in 0..n : g[k] \in Int
      BY <1>2, <2>5 DEF T
    <2>7. g = [k \in 0..n |-> g[k]]
      BY <1>6
    <2>8. g \in [0..n -> Int]
      BY <2>6, <2>7
    <2>9. ASSUME NEW k \in 1..n PROVE g[k] = H[<<k, g[k - 1]>>]
      <3>1. k \in Nat \ {0} /\ k - 1 \in 0..n
        BY <1>2
      <3>2. g[k - 1] \in Int
        BY <2>6, <3>1
      <3>3. g[k] = Added(k, g[k - 1])
        BY <2>2 DEF Added
      <3> QED BY <1>4, <3>1, <3>2, <3>3
    <2> QED BY <2>1, <2>8, <2>9 DEF IsIteration
  <1>7. Recursive(f)
    <2>1. ASSUME NEW k \in 1..n PROVE f[k] = f[k - 1] + bytes[k] * Power[k - 1]
      <3>1. k \in Nat \ {0} /\ k - 1 \in 0..n
        BY <1>2
      <3>2. f[k - 1] \in Int /\ f[k] = H[<<k, f[k - 1]>>]
        BY <1>5, <3>1 DEF IsIteration
      <3>3. f[k] = Added(k, f[k - 1])
        BY <1>4, <3>1, <3>2
      <3> QED BY <3>3 DEF Added
    <2>2. f[0] = 0
      BY <1>5 DEF IsIteration
    <2>3. \A k \in 0..n : f[k] = IF k = 0 THEN 0 ELSE f[k - 1] + bytes[k] * Power[k - 1]
      BY <1>2, <2>1, <2>2
    <2> QED BY <2>3
  <1> DEFINE V == CHOOSE g : Recursive(g)
  <1>8. LittleEndian(bytes) = V[n]
    BY DEF LittleEndian, n
  <1>9. Recursive(V)
    <2> HIDE DEF Recursive
    <2> QED BY <1>7
  <1> HIDE DEF V
  <1>10. V \in [0..n -> Int] /\ V[0] = 0
    BY <1>6, <1>9 DEF IsIteration
  <1>11. ASSUME NEW k \in 1..n PROVE V[k] = V[k - 1] + bytes[k] * Power[k - 1]
    <2>1. k \in 0..n /\ k # 0
      BY <1>2
    <2> QED BY <1>9, <2>1
  <1>12. IsSum(V, bytes)
    BY <1>10, <1>11 DEF IsSum, n
  <1> QED BY <1>8, <1>12 DEF n

(* Division by a product is division by one factor and then by the other.  *)
LEMMA DivideTwice ==
    ASSUME NEW m \in Nat, NEW p \in Nat \ {0}, NEW b \in Nat \ {0}
    PROVE  m % (b * p) = (m % p) + ((m \div p) % b) * p
  <1> DEFINE q == m \div p
             r == m % p
             d == q \div b
             e == q % b
             x == e * p + r
  <1>1. m = q * p + r /\ r \in 0..p - 1 /\ q \in Nat
    BY DivMod
  <1>2. q = d * b + e /\ e \in 0..b - 1 /\ d \in Nat
    BY <1>1, DivMod
  <1> HIDE DEF q, r, d, e
  <1>3. (d * b + e) * p = d * (b * p) + e * p
    BY <1>2, SMT
  <1>4. m = d * (b * p) + x
    BY <1>1, <1>2, <1>3
  <1>5. e * p <= (b - 1) * p /\ e * p >= 0 /\ (b - 1) * p = b * p - p
    BY <1>2, SMT
  <1>6. b * p \in Nat \ {0} /\ x \in 0..b * p - 1
    <2>1. b * p \in Int /\ e * p \in Int
      BY <1>2, SMT
    <2>2. b * p >= p
      BY SMT
    <2> QED BY <1>1, <1>5, <2>1, <2>2
  <1>7. m - (b * p) * d \in 0..b * p - 1
    <2>1. (b * p) * d = d * (b * p)
      BY <1>2, SMT
    <2> HIDE DEF x
    <2> QED BY <1>2, <1>4, <1>6, <2>1
  <1>8. m % (b * p) = x
    <2> DEFINE w == b * p
    <2>1. w \in Nat \ {0} /\ m - w * d \in 0..w - 1 /\ m = d * w + x /\ d \in Int
      BY <1>2, <1>4, <1>6, <1>7
    <2> HIDE DEF w, x
    <2>2. d = m \div w
      BY <2>1, QuotientUnique
    <2>3. m = (m \div w) * w + (m % w)
      BY <2>1, DivMod
    <2>4. d * w \in Int /\ m % w \in Int /\ x \in Int
      BY <1>6, <2>1, DivMod
    <2>5. m % w = x
      BY <2>1, <2>2, <2>3, <2>4
    <2> QED BY <2>5 DEF w
  <1> QED BY <1>8 DEF q, r, d, e

(* What a digit stands for is a multiple of its power below the next one.  *)
LEMMA DigitTimesPower ==
    ASSUME NEW b \in Nat \ {0}, NEW p \in Nat \ {0}, NEW y \in 0..b - 1
    PROVE  b * p \in Nat \ {0} /\ y * p \in 0..b * p - p
  <1>1. y * p <= (b - 1) * p /\ y * p >= 0 /\ (b - 1) * p = b * p - p
    BY SMT
  <1>2. y * p \in Int /\ b * p \in Int /\ b * p >= p
    BY SMT
  <1> QED BY <1>1, <1>2

(* The bytes that are digits of a number add up to it.                     *)
LEMMA DigitsAddUp ==
    ASSUME NEW bytes \in Seq(Int), NEW m \in Nat,
           \A i \in 1..Len(bytes) : bytes[i] = (m \div Power[i - 1]) % ByteBase
    PROVE  LittleEndian(bytes) = m % Power[Len(bytes)]
  <1> DEFINE n == Len(bytes)
  <1>1. PICK V : IsSum(V, bytes) /\ LittleEndian(bytes) = V[Len(bytes)]
    BY LittleEndianIsSum
  <1> DEFINE T == {k \in Nat : k <= n => V[k] = m % Power[k]}
  <1>2. 0 \in T
    <2>1. m % 1 = 0
      BY SMT
    <2> QED BY <1>1, <2>1, PowerIsRecursive DEF IsSum
  <1>3. ASSUME NEW k \in Nat, k \in T PROVE k + 1 \in T
    <2>1. SUFFICES ASSUME k + 1 <= n PROVE V[k + 1] = m % Power[k + 1]
      OBVIOUS
    <2>2. k + 1 \in 1..n /\ (k + 1) - 1 = k
      BY <2>1
    <2>3. V[k + 1] = V[k] + bytes[k + 1] * Power[k]
      BY <1>1, <2>2 DEF IsSum
    <2>4. V[k] = m % Power[k] /\ bytes[k + 1] = (m \div Power[k]) % ByteBase
      BY <1>3, <2>1, <2>2
    <2>5. m % (ByteBase * Power[k]) = (m % Power[k]) + ((m \div Power[k]) % ByteBase) * Power[k]
      BY DivideTwice, PowersGrow, BaseIsEven
    <2> QED BY <2>3, <2>4, <2>5, PowersGrow
  <1> HIDE DEF T
  <1>4. Nat \subseteq T
    BY <1>2, <1>3, Induction
  <1>5. n \in Nat
    OBVIOUS
  <1>6. V[n] = m % Power[n]
    BY <1>4, <1>5 DEF T
  <1> QED BY <1>1, <1>6

(* A number of n bytes is less than the n-th power.                        *)
LEMMA SumIsSmall ==
    ASSUME NEW bytes \in Seq(Byte), NEW V, IsSum(V, bytes)
    PROVE  \A k \in Nat : k <= Len(bytes) => V[k] \in 0..Power[k] - 1
  <1> DEFINE n == Len(bytes)
             T == {k \in Nat : k <= n => V[k] \in 0..Power[k] - 1}
  <1>1. 0 \in T
    BY PowerIsRecursive DEF IsSum
  <1>2. ASSUME NEW k \in Nat, k \in T PROVE k + 1 \in T
    <2>1. SUFFICES ASSUME k + 1 <= n PROVE V[k + 1] \in 0..Power[k + 1] - 1
      OBVIOUS
    <2>2. k + 1 \in 1..n /\ (k + 1) - 1 = k
      BY <2>1
    <2>3. V[k + 1] = V[k] + bytes[k + 1] * Power[k]
      BY <2>2 DEF IsSum
    <2>4. V[k] \in 0..Power[k] - 1 /\ bytes[k + 1] \in 0..ByteBase - 1
      <3>1. bytes[k + 1] \in Byte
        BY <2>2
      <3>2. k <= n
        BY <2>1
      <3> QED BY <1>2, <3>1, <3>2 DEF Byte
    <2>5. Power[k] \in Nat \ {0} /\ Power[k + 1] = ByteBase * Power[k] /\ ByteBase \in Nat \ {0}
      BY PowersGrow, BaseIsEven
    <2> DEFINE p == Power[k]
               w == ByteBase * p
               z == bytes[k + 1] * p
    <2>7. w \in Nat \ {0} /\ z \in 0..w - p
      BY <2>4, <2>5, DigitTimesPower
    <2>8. V[k + 1] = V[k] + z /\ Power[k + 1] = w /\ V[k] \in 0..p - 1 /\ p \in Nat
      BY <2>3, <2>4, <2>5
    <2> HIDE DEF p, w, z
    <2> QED BY <2>7, <2>8
  <1> HIDE DEF T
  <1>3. Nat \subseteq T
    BY <1>1, <1>2, Induction
  <1> QED BY <1>3 DEF T

(* A number of a word's bytes whose last one has no sign is a machine      *)
(* integer.                                                                *)
LEMMA UnsignedFits ==
    ASSUME NEW bytes \in Seq(Byte), Len(bytes) \in 1..WordBytes,
           bytes[Len(bytes)] < SignOfByte
    PROVE  LittleEndian(bytes) \in 0..SignBit - 1
  <1> DEFINE n == Len(bytes)
  <1>1. bytes \in Seq(Int)
    BY BaseIsEven DEF Byte
  <1>2. PICK V : IsSum(V, bytes) /\ LittleEndian(bytes) = V[n]
    BY <1>1, LittleEndianIsSum
  <1>3. n \in Nat /\ n - 1 \in Nat /\ n - 1 <= n /\ n \in 1..n /\ n - 1 <= WordBytes - 1
        /\ WordBytes - 1 \in Nat
    BY ByteAssumption
  <1> DEFINE p == Power[n - 1]
  <1>4. V[n - 1] \in 0..p - 1 /\ V[n] = V[n - 1] + bytes[n] * p
    BY <1>2, <1>3, SumIsSmall DEF IsSum
  <1>5. bytes[n] \in 0..SignOfByte - 1
    BY BaseIsEven DEF Byte
  <1>6. p \in Nat \ {0} /\ p <= Power[WordBytes - 1] /\ Power[WordBytes - 1] \in Nat \ {0}
    BY <1>3, PowersGrow
  <1>7. SignOfByte * p <= SignBit
    <2>1. \A x, y, h \in Nat \ {0} : x <= y => h * x <= h * y
      BY SMT
    <2> QED BY <1>6, <2>1, BaseIsEven
  <1>8. bytes[n] * p \in 0..SignOfByte * p - p /\ SignOfByte * p \in Int
    <2> DEFINE y == bytes[n]
    <2>1. SignOfByte \in Nat \ {0} /\ p \in Nat \ {0} /\ y \in 0..SignOfByte - 1
      BY <1>5, <1>6, BaseIsEven
    <2> HIDE DEF p, y
    <2>2. SignOfByte * p \in Nat \ {0} /\ y * p \in 0..SignOfByte * p - p
      BY <2>1, DigitTimesPower
    <2> QED BY <2>2 DEF y
  <1> QED BY <1>2, <1>4, <1>6, <1>7, <1>8, ModulusPositive

(* The number of digits is the least that is enough.                       *)
LEMMA WidthIsLeast ==
    ASSUME NEW m \in 0..SignBit
    PROVE  Width(m) \in 1..WordBytes /\ m < Power[Width(m)]
           /\ \A j \in 1..Width(m) - 1 : m >= Power[j]
  <1> DEFINE T == {k \in 1..WordBytes + 1 : m < Power[k]}
             Narrow(k) == m < Power[k] /\ \A j \in 1..k - 1 : m >= Power[j]
  <1>1. WordBytes \in T
    <2>1. WordBytes \in 1..WordBytes + 1 /\ 2 * SignBit = Power[WordBytes]
      BY ByteAssumption
    <2>2. m < 2 * SignBit
      BY ModulusPositive
    <2> QED BY <2>1, <2>2
  <1>2. T \subseteq Nat
    OBVIOUS
  <1> HIDE DEF T
  <1>3. PICK k \in T : \A j \in T : k <= j
    <2>1. T # {}
      BY <1>1
    <2> QED BY <1>2, <2>1, LeastElement
  <1>4. k \in 1..WordBytes + 1 /\ Narrow(k)
    <2>1. ASSUME NEW j \in 1..k - 1 PROVE m >= Power[j]
      <3>1. j \in 1..WordBytes + 1 /\ j < k /\ j \in Nat /\ k \in Nat
        BY <1>3, ByteAssumption DEF T
      <3>2. j \notin T
        BY <1>3, <3>1
      <3>3. ~(m < Power[j]) /\ Power[j] \in Nat
        BY <3>1, <3>2, PowersGrow DEF T
      <3> QED BY <3>3
    <2> QED BY <1>3, <2>1 DEF T
  <1> DEFINE w == Width(m)
  <1>5. w \in 1..WordBytes + 1 /\ Narrow(w)
    <2>1. w = CHOOSE j \in 1..WordBytes + 1 : Narrow(j)
      BY DEF Width
    <2> HIDE DEF Narrow, w
    <2> QED BY <1>4, <2>1
  <1> HIDE DEF w
  <1>6. w # WordBytes + 1
    <2>1. ASSUME w = WordBytes + 1 PROVE FALSE
      <3>1. WordBytes \in 1..w - 1 /\ WordBytes \in Nat
        BY <2>1, ByteAssumption
      <3>2. m >= Power[WordBytes] /\ m < Power[WordBytes] /\ Power[WordBytes] \in Nat
        BY <1>1, <1>5, <3>1, PowersGrow DEF T
      <3> QED BY <3>2
    <2> QED BY <2>1
  <1>7. w \in 1..WordBytes
    BY <1>5, <1>6, ByteAssumption
  <1> QED BY <1>5, <1>7 DEF w

(* The digits of a magnitude.                                              *)
LEMMA DigitsAreBytes ==
    ASSUME NEW m \in 0..SignBit
    PROVE  /\ Digits(m) \in Seq(Byte)
           /\ Len(Digits(m)) = Width(m)
           /\ \A i \in 1..Width(m) : Digits(m)[i] = (m \div Power[i - 1]) % ByteBase
           /\ LittleEndian(Digits(m)) = m
           /\ m < SignBit /\ Width(m) = WordBytes => Digits(m)[Width(m)] < SignOfByte
  <1> DEFINE n == Width(m)
             d == Digits(m)
  <1>1. n \in Nat \ {0} /\ m \in Nat /\ m < Power[n] /\ n \in 1..n
    BY WidthIsLeast, ModulusPositive, ByteAssumption
  <1>2. \A i \in 1..n : (m \div Power[i - 1]) % ByteBase \in Byte
    <2>1. ASSUME NEW i \in 1..n PROVE (m \div Power[i - 1]) % ByteBase \in Byte
      <3>1. Power[i - 1] \in Nat \ {0}
        BY <1>1, PowersGrow
      <3>2. m \div Power[i - 1] \in Nat
        BY <1>1, <3>1, DivMod
      <3>3. (m \div Power[i - 1]) % ByteBase \in 0..ByteBase - 1
        BY <3>2, DivMod, BaseIsEven
      <3> QED BY <3>3 DEF Byte
    <2> QED BY <2>1
  <1>3. d = [i \in 1..n |-> (m \div Power[i - 1]) % ByteBase]
    BY DEF Digits
  <1> HIDE DEF n, d
  <1>4. d \in Seq(Byte) /\ Len(d) = n
    BY <1>1, <1>2, <1>3
  <1>5. \A i \in 1..n : d[i] = (m \div Power[i - 1]) % ByteBase
    BY <1>3
  <1>6. LittleEndian(d) = m % Power[n]
    <2>1. d \in Seq(Int)
      BY <1>4, BaseIsEven DEF Byte
    <2> QED BY <1>1, <1>4, <1>5, <2>1, DigitsAddUp
  <1>7. m % Power[n] = m
    BY <1>1, ModSmall, PowersGrow
  <1>8. ASSUME m < SignBit, n = WordBytes PROVE d[n] < SignOfByte
    <2> DEFINE p == Power[WordBytes - 1]
               q == m \div p
    <2>1. p \in Nat \ {0} /\ m = q * p + (m % p) /\ m % p \in 0..p - 1 /\ q \in Nat
      <3>1. p \in Nat \ {0}
        BY PowersGrow, ByteAssumption
      <3> HIDE DEF p
      <3> QED BY <1>1, <3>1, DivMod
    <2>2. SignBit = SignOfByte * p /\ SignOfByte \in Nat \ {0} /\ ByteBase = 2 * SignOfByte
      BY BaseIsEven
    <2>3. d[n] = q % ByteBase
      BY <1>1, <1>5, <1>8
    <2> HIDE DEF p, q
    <2>4. q < SignOfByte
      <3>1. q >= SignOfByte => q * p >= SignOfByte * p
        BY <2>1, <2>2, SMT
      <3>2. q * p \in Int /\ SignOfByte * p \in Int
        BY <2>1, <2>2, SMT
      <3> QED BY <1>8, <2>1, <2>2, <3>1, <3>2
    <2>5. q % ByteBase = q
      BY <2>1, <2>2, <2>4, ModSmall
    <2> QED BY <2>3, <2>4, <2>5
  <1> QED BY <1>4, <1>5, <1>6, <1>7, <1>8 DEF n, d

(* A sequence without its last element.                                    *)
LEMMA FrontIsShorter ==
    ASSUME NEW S, NEW s \in Seq(S), s # <<>>
    PROVE  /\ Front(s) \in Seq(S) /\ Len(Front(s)) = Len(s) - 1
           /\ \A i \in 1..Len(s) - 1 : Front(s)[i] = s[i]
  <1> DEFINE f == Front(s)
             n == Len(s)
             k == n - 1
  <1>1. n \in Nat \ {0}
    BY EmptySeq
  <1>2. f = SubSeq(s, 1, n - 1) /\ \A i \in 1..n - 1 : s[i] \in S
    BY <1>1 DEF Front
  <1>3. k \in Nat /\ k - 1 + 1 = k
    BY <1>1
  <1>4. f = SubSeq(s, 1, k) /\ \A i \in 1..k : s[i] \in S
    BY <1>2
  <1> HIDE DEF f, k
  <1>5. /\ f \in Seq(S)
        /\ Len(f) = IF 1 <= k THEN k - 1 + 1 ELSE 0
        /\ \A i \in 1..k - 1 + 1 : f[i] = s[1 + i - 1]
    BY <1>3, <1>4, SubSeqProperties
  <1>6. f \in Seq(S) /\ Len(f) = k /\ \A i \in 1..k : f[i] = s[i]
    BY <1>3, <1>5
  <1> QED BY <1>6 DEF f, k

(* A sequence with another last element.                                   *)
LEMMA LastReplaced ==
    ASSUME NEW S, NEW s \in Seq(S), s # <<>>, NEW x \in S
    PROVE  LET t == Append(Front(s), x)
           IN  /\ t \in Seq(S) /\ Len(t) = Len(s) /\ Last(t) = x
               /\ Front(t) = Front(s)
               /\ \A i \in 1..Len(s) - 1 : t[i] = s[i]
  <1> DEFINE f == Front(s)
             t == Append(f, x)
             n == Len(s)
  <1>1. n \in Nat \ {0}
    BY EmptySeq
  <1>2. f \in Seq(S) /\ Len(f) = n - 1 /\ \A i \in 1..n - 1 : f[i] = s[i]
    BY FrontIsShorter
  <1> HIDE DEF f, n
  <1>3. t \in Seq(S) /\ Len(t) = n /\ t[n] = x /\ \A i \in 1..n - 1 : t[i] = s[i]
    BY <1>1, <1>2
  <1> HIDE DEF t
  <1>4. Last(t) = x
    BY <1>3 DEF Last
  <1>5. Front(t) = f
    <2>1. Front(t) \in Seq(S) /\ Len(Front(t)) = n - 1 /\ \A i \in 1..n - 1 : Front(t)[i] = t[i]
      BY <1>1, <1>3, EmptySeq, FrontIsShorter
    <2> QED BY <1>2, <1>3, <2>1, SeqEqual
  <1> QED BY <1>3, <1>4, <1>5 DEF f, t, n

(* What a byte string would be without the limit on its length.            *)
ValueOf(bytes) ==
    IF bytes = <<>> THEN 0
    ELSE IF Last(bytes) >= SignOfByte
    THEN -LittleEndian(Append(Front(bytes), Last(bytes) - SignOfByte))
    ELSE LittleEndian(bytes)

(* StackItem::toInt reads no more bytes than a machine integer has, and    *)
(* then the value the sign and magnitude spell.                            *)
LEMMA ToIntIsValue ==
    ASSUME NEW bytes \in Seq(Byte)
    PROVE  toInt(bytes) = IF Len(bytes) > WordBytes THEN NoNumber ELSE ValueOf(bytes)
  <1>1. bytes = <<>> => Len(bytes) = 0 /\ ~(0 > WordBytes)
    BY EmptySeq, ByteAssumption
  <1> QED BY <1>1 DEF toInt, ValueOf

(* What StackItem::toInt returns is a machine integer: the sign bit is     *)
(* taken out of the last byte before the bytes are added up.               *)
LEMMA ToIntIsSigned ==
    ASSUME NEW bytes \in Seq(Byte) PROVE toInt(bytes) \in Signed \union {NoNumber}
  <1> DEFINE n == Len(bytes)
             t == Append(Front(bytes), Last(bytes) - SignOfByte)
  <1> SUFFICES ASSUME bytes # <<>>, n <= WordBytes PROVE toInt(bytes) \in Signed
    <2>1. bytes = <<>> => toInt(bytes) = 0
      BY DEF toInt
    <2>2. 0 \in Signed
      BY ModulusPositive DEF Signed
    <2>3. n \in Nat /\ (~(n <= WordBytes) => n > WordBytes)
      BY ByteAssumption
    <2>4. ~(n <= WordBytes) => toInt(bytes) \in {0, NoNumber}
      BY <2>1, <2>3 DEF toInt
    <2> QED BY <2>1, <2>2, <2>4
  <1>1. n \in 1..WordBytes /\ Last(bytes) = bytes[n] /\ Last(bytes) \in 0..ByteBase - 1
    <2>1. n \in Nat \ {0}
      BY EmptySeq
    <2>2. bytes[n] \in Byte
      BY <2>1
    <2> QED BY <2>1, <2>2, ByteAssumption DEF Last, Byte
  <1>2. toInt(bytes) = IF Last(bytes) >= SignOfByte THEN -LittleEndian(t) ELSE LittleEndian(bytes)
    BY <1>1, ByteAssumption DEF toInt
  <1>3. CASE Last(bytes) >= SignOfByte
    <2> DEFINE x == Last(bytes) - SignOfByte
    <2>1. x \in Byte /\ x < SignOfByte
      BY <1>1, <1>3, BaseIsEven DEF Byte
    <2> HIDE DEF x
    <2>2. t \in Seq(Byte) /\ Len(t) = n /\ Last(t) = x
      BY <2>1, LastReplaced DEF x
    <2> HIDE DEF t
    <2>3. LittleEndian(t) \in 0..SignBit - 1
      BY <1>1, <2>1, <2>2, UnsignedFits DEF Last
    <2>4. toInt(bytes) = -LittleEndian(t)
      BY <1>2, <1>3
    <2> QED BY <2>3, <2>4, ModulusPositive DEF Signed
  <1>4. CASE ~(Last(bytes) >= SignOfByte)
    <2>1. bytes[n] < SignOfByte
      BY <1>1, <1>4, BaseIsEven
    <2>2. LittleEndian(bytes) \in 0..SignBit - 1
      BY <1>1, <2>1, UnsignedFits
    <2>3. toInt(bytes) = LittleEndian(bytes)
      BY <1>2, <1>4
    <2> QED BY <2>2, <2>3, ModulusPositive DEF Signed
  <1> QED BY <1>3, <1>4

(* serializeScriptNum and toInt are inverse to each other, but for the one *)
(* number whose bytes are too many for toInt.                              *)
LEMMA RoundTrip ==
    ASSUME NEW v \in -SignBit..SignBit
    PROVE  /\ serializeScriptNum(v) \in Seq(Byte)
           /\ ValueOf(serializeScriptNum(v)) = v
           /\ v \in 1 - SignBit..SignBit - 1 => Len(serializeScriptNum(v)) <= WordBytes
  <1>1. CASE v = 0
    <2>1. serializeScriptNum(v) = <<>>
      BY <1>1 DEF serializeScriptNum
    <2>2. <<>> \in Seq(Byte) /\ Len(<<>>) = 0
      BY EmptySeq
    <2>3. ValueOf(<<>>) = 0
      BY DEF ValueOf
    <2>4. 0 <= WordBytes
      BY ByteAssumption
    <2> QED BY <1>1, <2>1, <2>2, <2>3, <2>4
  <1>2. CASE v # 0
    <2> DEFINE m == Magnitude(v)
               d == Digits(m)
               n == Width(m)
               sign == IF v < 0 THEN SignOfByte ELSE 0
               s == serializeScriptNum(v)
    <2>1. m \in 0..SignBit /\ m # 0 /\ v = (IF v < 0 THEN -m ELSE m)
          /\ (v \in 1 - SignBit..SignBit - 1 => m < SignBit)
      BY <1>2, ModulusPositive DEF Magnitude
    <2>2. /\ d \in Seq(Byte) /\ Len(d) = n
          /\ \A i \in 1..n : d[i] = (m \div Power[i - 1]) % ByteBase
          /\ LittleEndian(d) = m
          /\ m < SignBit /\ n = WordBytes => d[n] < SignOfByte
      BY <2>1, DigitsAreBytes
    <2>3. n \in 1..WordBytes /\ m < Power[n]
      BY <2>1, WidthIsLeast
    <2>4. s = IF Last(d) >= SignOfByte THEN Append(d, sign)
              ELSE Append(Front(d), Last(d) + sign)
      <3>1. s = CASE v = 0 -> <<>>
                  [] v # 0 /\ Last(d) >= SignOfByte -> Append(d, sign)
                  [] v # 0 /\ Last(d) < SignOfByte -> Append(Front(d), Last(d) + sign)
        BY DEF serializeScriptNum
      <3>2. Last(d) \in Int /\ SignOfByte \in Int
        <4>1. d[n] \in Byte
          BY <2>2, <2>3
        <4> QED BY <2>2, <4>1, BaseIsEven DEF Last, Byte
      <3>3. Last(d) < SignOfByte <=> ~(Last(d) >= SignOfByte)
        BY <3>2
      <3> HIDE DEF m, d, s, sign
      <3> QED BY <1>2, <3>1, <3>3
    <2>5. Last(d) = d[n] /\ Last(d) \in 0..ByteBase - 1
      <3>1. d[n] \in Byte
        BY <2>2, <2>3
      <3> QED BY <2>2, <3>1 DEF Last, Byte
    <2>6. sign \in {0, SignOfByte} /\ (sign = SignOfByte <=> v < 0) /\ sign \in Byte
          /\ 0 \in Byte
      BY BaseIsEven DEF Byte
    <2> HIDE DEF m, d, n, sign, s
    <2>7. d # <<>>
      BY <2>2, <2>3, EmptySeq
    <2>8. CASE Last(d) >= SignOfByte
      <3>1. s = Append(d, sign)
        BY <2>4, <2>8
      <3>2. s \in Seq(Byte) /\ Len(s) = n + 1 /\ s[n + 1] = sign
            /\ \A i \in 1..n : s[i] = d[i]
        BY <2>2, <2>6, <3>1
      <3>3. s # <<>> /\ Last(s) = sign
        BY <2>3, <3>2, EmptySeq DEF Last
      <3> DEFINE t == Append(Front(s), 0)
      <3>4. t \in Seq(Byte) /\ Len(t) = n + 1 /\ Last(t) = 0
            /\ \A i \in 1..Len(s) - 1 : t[i] = s[i]
        BY <2>6, <3>2, <3>3, LastReplaced
      <3> HIDE DEF t
      <3>5. t[n + 1] = 0 /\ \A i \in 1..n : t[i] = d[i]
        <4>1. Len(s) - 1 = n
          BY <2>3, <3>2
        <4> QED BY <3>2, <3>4, <4>1 DEF Last
      <3>6. \A i \in 1..n + 1 : t[i] = (m \div Power[i - 1]) % ByteBase
        <4>1. (m \div Power[n]) % ByteBase = 0
          <5>1. Power[n] \in Nat \ {0} /\ m \in 0..Power[n] - 1
            BY <2>1, <2>3, PowersGrow
          <5>2. m \div Power[n] = 0
            <6>1. \A p \in Nat \ {0} : \A x \in 0..p - 1 : x \div p = 0
              BY SMT
            <6> QED BY <5>1, <6>1
          <5> QED BY <5>2, ModSmall, BaseIsEven
        <4>2. ASSUME NEW i \in 1..n + 1 PROVE (i = n + 1 /\ i - 1 = n) \/ i \in 1..n
          BY <2>3
        <4> QED BY <2>2, <3>5, <4>1, <4>2
      <3>7. LittleEndian(t) = m
        <4>1. t \in Seq(Int) /\ m \in Nat
          BY <2>1, <3>4, BaseIsEven, ModulusPositive DEF Byte
        <4>2. LittleEndian(t) = m % Power[n + 1]
          BY <3>4, <3>6, <4>1, DigitsAddUp
        <4>3. Power[n + 1] \in Nat \ {0} /\ m \in 0..Power[n + 1] - 1
          <5>1. n \in Nat /\ n + 1 \in Nat
            BY <2>3
          <5>2. Power[n] \in Nat /\ Power[n + 1] \in Nat \ {0} /\ Power[n] < Power[n + 1]
            BY <5>1, PowersGrow
          <5> QED BY <2>3, <4>1, <5>2
        <4> QED BY <4>2, <4>3, ModSmall
      <3>8. ValueOf(s) = v
        <4>1. CASE v < 0
          <5>1. Last(s) >= SignOfByte /\ Last(s) - SignOfByte = 0
            BY <2>6, <3>3, <4>1, BaseIsEven
          <5>2. ValueOf(s) = -LittleEndian(t)
            BY <3>3, <5>1 DEF ValueOf, t
          <5> QED BY <2>1, <3>7, <4>1, <5>2
        <4>2. CASE ~(v < 0)
          <5>1. Last(s) = 0 /\ ~(Last(s) >= SignOfByte)
            BY <2>6, <3>3, <4>2, BaseIsEven
          <5>2. ValueOf(s) = LittleEndian(s)
            BY <3>3, <5>1 DEF ValueOf
          <5>3. s = t
            <6>1. ASSUME NEW i \in 1..n + 1 PROVE s[i] = t[i]
              <7>1. i = n + 1 \/ i \in 1..n
                BY <2>3
              <7> QED BY <3>2, <3>3, <3>5, <5>1, <7>1
            <6> QED BY <3>2, <3>4, <6>1, SeqEqual
          <5> QED BY <2>1, <3>7, <4>2, <5>2, <5>3
        <4> QED BY <4>1, <4>2
      <3>9. m < SignBit => Len(s) <= WordBytes
        <4>1. m < SignBit => n # WordBytes
          BY <2>2, <2>5, <2>8, BaseIsEven
        <4> QED BY <2>3, <3>2, <4>1, ByteAssumption
      <3> QED BY <2>1, <3>2, <3>8, <3>9 DEF s
    <2>9. CASE ~(Last(d) >= SignOfByte)
      <3> DEFINE x == Last(d) + sign
      <3>1. s = Append(Front(d), x)
        BY <2>4, <2>9
      <3>2. x \in Byte /\ Last(d) \in Byte /\ (x >= SignOfByte <=> v < 0)
            /\ (v < 0 => x - SignOfByte = Last(d)) /\ (~(v < 0) => x = Last(d))
        BY <2>5, <2>6, <2>9, BaseIsEven DEF Byte
      <3> HIDE DEF x
      <3>3. s \in Seq(Byte) /\ Len(s) = n /\ Last(s) = x /\ Front(s) = Front(d)
        BY <2>2, <2>7, <3>1, <3>2, LastReplaced
      <3>4. Append(Front(d), Last(d)) = d
        <4> DEFINE t == Append(Front(d), Last(d))
        <4>1. t \in Seq(Byte) /\ Len(t) = n /\ Last(t) = Last(d)
              /\ \A i \in 1..Len(d) - 1 : t[i] = d[i]
          BY <2>2, <2>7, <3>2, LastReplaced
        <4> HIDE DEF t
        <4>2. ASSUME NEW i \in 1..n PROVE t[i] = d[i]
          <5>1. i = n \/ i \in 1..Len(d) - 1
            BY <2>2, <2>3
          <5> QED BY <2>2, <4>1, <5>1 DEF Last
        <4>3. t = d
          BY <2>2, <4>1, <4>2, SeqEqual
        <4> QED BY <4>3 DEF t
      <3>5. s # <<>>
        BY <2>3, <3>3, EmptySeq
      <3>6. ValueOf(s) = v
        <4>1. CASE v < 0
          <5>1. ValueOf(s) = -LittleEndian(d)
            BY <3>2, <3>3, <3>4, <3>5, <4>1 DEF ValueOf
          <5> QED BY <2>1, <2>2, <4>1, <5>1
        <4>2. CASE ~(v < 0)
          <5>1. ValueOf(s) = LittleEndian(d)
            BY <3>1, <3>2, <3>3, <3>4, <3>5, <4>2 DEF ValueOf
          <5> QED BY <2>1, <2>2, <4>2, <5>1
        <4> QED BY <4>1, <4>2
      <3>7. Len(s) <= WordBytes
        BY <2>3, <3>3, ByteAssumption
      <3> QED BY <3>3, <3>6, <3>7 DEF s
    <2> QED BY <2>8, <2>9
  <1> QED BY <1>1, <1>2
-----------------------------------------------------------------------------
(* What wraps is a machine integer.                                        *)
LEMMA WordIsSigned ==
    ASSUME NEW n \in Int PROVE ToWord(n) \in Signed
  <1>1. Wrap(n) \in 0..2 * SignBit - 1
    <2>1. \A m \in Nat \ {0} : \A k \in Int : k % m \in 0..m - 1
      BY SMT
    <2> QED BY <2>1, ModulusPositive DEF Wrap, Modulus
  <1> QED BY <1>1, ModulusPositive DEF ToWord, Signed

(* What toInt makes of the bytes of a machine integer.                     *)
LEMMA SerializedIsRead ==
    ASSUME NEW v \in Signed
    PROVE  /\ serializeScriptNum(v) \in Seq(Byte)
           /\ isNumber(serializeScriptNum(v)) => toInt(serializeScriptNum(v)) = v
           /\ v # -SignBit => isNumber(serializeScriptNum(v))
  <1> DEFINE s == serializeScriptNum(v)
  <1>1. v \in -SignBit..SignBit /\ (v # -SignBit => v \in 1 - SignBit..SignBit - 1) /\ v \in Int
    BY ModulusPositive DEF Signed
  <1>2. s \in Seq(Byte) /\ ValueOf(s) = v /\ (v # -SignBit => Len(s) <= WordBytes)
    BY <1>1, RoundTrip
  <1> HIDE DEF s
  <1>3. toInt(s) = IF Len(s) > WordBytes THEN NoNumber ELSE v
    BY <1>2, ToIntIsValue
  <1>4. Len(s) <= WordBytes => ~(Len(s) > WordBytes)
    BY <1>2, ByteAssumption
  <1>5. v # NoNumber
    BY <1>1, NoNumberAssumption
  <1> QED BY <1>2, <1>3, <1>4, <1>5 DEF isNumber, s

(* Two machine integers have the same bytes only if they are the same.     *)
LEMMA SerializedOnce ==
    ASSUME NEW v \in Signed, NEW w \in Signed, serializeScriptNum(v) = serializeScriptNum(w)
    PROVE  v = w
  <1>1. v \in -SignBit..SignBit /\ w \in -SignBit..SignBit
    BY ModulusPositive DEF Signed
  <1>2. ValueOf(serializeScriptNum(v)) = v
    BY <1>1, RoundTrip
  <1>3. ValueOf(serializeScriptNum(w)) = w
    BY <1>1, RoundTrip
  <1> QED BY <1>2, <1>3

(* The truth values, as numbers and as bytes.                              *)
Truth(x) == IF x THEN 1 ELSE 0

(* A Boolean pushed on the stack is a number, 0 or 1, and is read back as  *)
(* the Boolean it was.                                                     *)
LEMMA TruthIsRead ==
    ASSUME NEW x
    PROVE  /\ Truth(x) \in Signed
           /\ isNumber(serializeScriptNum(Truth(x)))
           /\ toInt(serializeScriptNum(Truth(x))) = Truth(x)
           /\ isTrue(serializeScriptNum(Truth(x))) <=> x
  <1>1. Truth(x) \in Signed /\ Truth(x) # -SignBit
    BY TrueAssumption, ModulusPositive DEF Truth, Signed
  <1>2. isNumber(serializeScriptNum(Truth(x))) /\ toInt(serializeScriptNum(Truth(x))) = Truth(x)
    BY <1>1, SerializedIsRead
  <1>3. Truth(x) # 0 <=> x
    BY DEF Truth
  <1> QED BY <1>1, <1>2, <1>3 DEF isTrue

(* Bytes of a number below the sign, in one byte.                          *)
LEMMA OneByte ==
    ASSUME NEW b \in 1..SignOfByte - 1
    PROVE  serializeScriptNum(b) = <<b>> /\ b \in Signed /\ <<b>> \in Seq(Byte)
  <1>1. SignOfByte <= SignBit
    <2>1. \A h, p \in Nat \ {0} : h <= h * p
      BY SMT
    <2>2. Power[WordBytes - 1] \in Nat \ {0}
      BY PowersGrow, ByteAssumption
    <2> QED BY <2>1, <2>2, BaseIsEven
  <1>2. b \in 0..SignBit /\ b \in Signed /\ b \in 0..ByteBase - 1 /\ b # 0 /\ Magnitude(b) = b
        /\ b < SignOfByte /\ ~(b < 0)
    BY <1>1, BaseIsEven, ModulusPositive DEF Signed, Magnitude
  <1>3. Power[0] = 1 /\ Power[1] = ByteBase
    <2>1. Power[0] = 1 /\ Power[1] = ByteBase * Power[1 - 1]
      BY PowerIsRecursive
    <2> QED BY <2>1, BaseIsEven
  <1>4. Width(b) = 1
    <2>1. Width(b) \in 1..WordBytes /\ \A j \in 1..Width(b) - 1 : b >= Power[j]
      BY <1>2, WidthIsLeast
    <2>2. ~(b >= Power[1])
      BY <1>2, <1>3, BaseIsEven
    <2>3. 1 \notin 1..Width(b) - 1
      BY <2>1, <2>2
    <2> QED BY <2>1, <2>3, ByteAssumption
  <1>5. Digits(b) = <<b>>
    <2>1. /\ Digits(b) \in Seq(Byte) /\ Len(Digits(b)) = Width(b)
          /\ \A i \in 1..Width(b) : Digits(b)[i] = (b \div Power[i - 1]) % ByteBase
      BY <1>2, DigitsAreBytes
    <2>4. Len(Digits(b)) = 1 /\ Digits(b)[1] = (b \div Power[0]) % ByteBase
      BY <1>4, <2>1
    <2>2. b \div 1 = b
      BY SMT
    <2>3. Digits(b)[1] = b
      BY <1>2, <1>3, <2>2, <2>4, ModSmall, BaseIsEven
    <2> QED BY <2>1, <2>3, <2>4
  <1>6. <<b>> \in Seq(Byte)
    BY <1>2 DEF Byte
  <1>7. Last(<<b>>) = b /\ Front(<<b>>) = <<>>
    BY DEF Last, Front
  <1>8. serializeScriptNum(b) = Append(<<>>, b + 0)
    BY <1>2, <1>5, <1>7, BaseIsEven DEF serializeScriptNum
  <1> QED BY <1>2, <1>6, <1>8

(* The bytes NUM2BIN and numToBin make of such a number, and what it is as *)
(* big-endian bytes.                                                       *)
LEMMA BigEndianOneByte ==
    /\ BigEndian(<<>>) = 0
    /\ \A b \in Int : BigEndian(<<b>>) = b
  <1> DEFINE Recursive(f, s) == f = [k \in 0..Len(s) |-> IF k = 0 THEN 0
                                                         ELSE f[k - 1] * ByteBase + s[k]]
  <1>1. \A s : BigEndian(s) = (CHOOSE f : Recursive(f, s))[Len(s)]
    BY DEF BigEndian
  <1>2. BigEndian(<<>>) = 0
    <2> DEFINE f == [k \in 0..0 |-> 0]
    <2>1. Recursive(f, <<>>)
      OBVIOUS
    <2>2. \A g : Recursive(g, <<>>) => g[0] = 0
      OBVIOUS
    <2> HIDE DEF f, Recursive
    <2>3. Recursive(CHOOSE g : Recursive(g, <<>>), <<>>)
      BY <2>1
    <2> QED BY <1>1, <2>2, <2>3
  <1>3. ASSUME NEW b \in Int PROVE BigEndian(<<b>>) = b
    <2> DEFINE f == [k \in 0..1 |-> IF k = 0 THEN 0 ELSE b]
    <2>0. Len(<<b>>) = 1 /\ <<b>>[1] = b /\ 0 * ByteBase + b = b
      BY BaseIsEven
    <2>1. Recursive(f, <<b>>)
      <3>1. ASSUME NEW k \in 0..1
            PROVE  f[k] = IF k = 0 THEN 0 ELSE f[k - 1] * ByteBase + <<b>>[k]
        <4>1. k = 0 \/ (k = 1 /\ k - 1 = 0)
          OBVIOUS
        <4>2. f[0] = 0 /\ f[1] = b
          OBVIOUS
        <4> HIDE DEF f
        <4> QED BY <2>0, <4>1, <4>2
      <3>2. f = [k \in 0..1 |-> f[k]]
        OBVIOUS
      <3> HIDE DEF f
      <3> QED BY <2>0, <3>1, <3>2
    <2>2. ASSUME NEW g, Recursive(g, <<b>>) PROVE g[1] = b
      <3>1. g[0] = 0 /\ g[1] = g[0] * ByteBase + b
        BY <2>0, <2>2
      <3> QED BY <2>0, <3>1
    <2> HIDE DEF f, Recursive
    <2>3. Recursive(CHOOSE g : Recursive(g, <<b>>), <<b>>)
      BY <2>1
    <2> QED BY <1>1, <2>0, <2>2, <2>3
  <1> QED BY <1>2, <1>3

(* Opcodes one after another, no, one and two of them.                     *)
LEMMA OneAfterAnother ==
    /\ \A args : ExecuteOpcodes(<<>>, args) = Leaves(args)
    /\ \A op, args : ExecuteOpcodes(<<op>>, args) = executeOpcode(op, args)
    /\ \A p, q, args : ExecuteOpcodes(<<p, q>>, args) =
           LET r == executeOpcode(p, args)
           IN  IF r.ok THEN executeOpcode(q, r.items) ELSE r
  <1>1. \A args : Leaves(args).ok /\ Leaves(args).items = args
    BY DEF Leaves
  <1>2. \A args : ExecuteOpcodes(<<>>, args) = Leaves(args)
    <2>1. Len(<<>>) = 0 /\ ~(1 <= 0) /\ ~(2 <= 0)
      BY EmptySeq
    <2> QED BY <2>1 DEF ExecuteOpcodes
  <1>3. \A op, args : ExecuteOpcodes(<<op>>, args) = executeOpcode(op, args)
    <2>1. \A op : Len(<<op>>) = 1 /\ <<op>>[1] = op
      OBVIOUS
    <2>2. 1 <= 1 /\ ~(2 <= 1)
      OBVIOUS
    <2> QED BY <1>1, <2>1, <2>2 DEF ExecuteOpcodes
  <1>4. \A p, q, args : ExecuteOpcodes(<<p, q>>, args) =
            LET r == executeOpcode(p, args)
            IN  IF r.ok THEN executeOpcode(q, r.items) ELSE r
    <2>1. \A p, q : Len(<<p, q>>) = 2 /\ <<p, q>>[1] = p /\ <<p, q>>[2] = q
      OBVIOUS
    <2>2. 1 <= 2 /\ 2 <= 2
      OBVIOUS
    <2> QED BY <1>1, <2>1, <2>2 DEF ExecuteOpcodes
  <1> QED BY <1>2, <1>3, <1>4

(* An opcode on numbers reads its operands first.                          *)
LEMMA TwoNumbers ==
    ASSUME NEW op \in BinaryArithmetic \union Comparisons \union {"NUM2BIN"}, NEW p, NEW q
    PROVE  executeOpcode(op, <<p, q>>) =
               IF isNumber(p) /\ isNumber(q) THEN Numeric(op, <<toInt(p), toInt(q)>>)
               ELSE Throws
  <1> DEFINE args == <<p, q>>
             n == [k \in DOMAIN args |-> toInt(args[k])]
  <1>1. executeOpcode(op, args) = IF \E k \in DOMAIN args : ~isNumber(args[k]) THEN Throws
                                  ELSE Numeric(op, n)
    <2>1. op \in UnaryArithmetic \union BinaryArithmetic \union Comparisons \union {"NUM2BIN"}
      OBVIOUS
    <2>2. /\ op \notin {"EQUAL", "NOT", "0NOTEQUAL", "VERIFY"}
          /\ op \notin {"CAT", "SPLIT", "BIN2NUM", "SIZE"} /\ op # "DROP" /\ op # "NIP"
      BY DEF BinaryArithmetic, Comparisons
    <2> QED BY <2>1, <2>2 DEF executeOpcode
  <1>2. DOMAIN args = {1, 2} /\ args[1] = p /\ args[2] = q
    OBVIOUS
  <1>3. n = <<toInt(p), toInt(q)>>
    <2>1. DOMAIN <<toInt(p), toInt(q)>> = {1, 2}
      OBVIOUS
    <2> QED BY <1>2
  <1> HIDE DEF args, n
  <1>4. (\E k \in DOMAIN args : ~isNumber(args[k])) <=> ~(isNumber(p) /\ isNumber(q))
    BY <1>2
  <1>5. executeOpcode(op, args) =
            IF isNumber(p) /\ isNumber(q) THEN Numeric(op, <<toInt(p), toInt(q)>>) ELSE Throws
    BY <1>1, <1>3, <1>4
  <1> QED BY <1>5 DEF args

(* An arithmetic opcode with one operand throws when the operand is no     *)
(* number, and pushes its function of that number otherwise.               *)
LEMMA OneNumber ==
    ASSUME NEW op \in UnaryArithmetic, NEW p
    PROVE  executeOpcode(op, <<p>>) =
               IF isNumber(p) THEN PushInt(UnaryNumber(op, toInt(p))) ELSE Throws
  <1> DEFINE args == <<p>>
             n == [k \in DOMAIN args |-> toInt(args[k])]
  <1>1. executeOpcode(op, args) = IF \E k \in DOMAIN args : ~isNumber(args[k]) THEN Throws
                                  ELSE Numeric(op, n)
    <2>1. op \in UnaryArithmetic \union BinaryArithmetic \union Comparisons \union {"NUM2BIN"}
      OBVIOUS
    <2>2. /\ op \notin {"EQUAL", "NOT", "0NOTEQUAL", "VERIFY"}
          /\ op \notin {"CAT", "SPLIT", "BIN2NUM", "SIZE"} /\ op # "DROP" /\ op # "NIP"
      BY DEF UnaryArithmetic
    <2> QED BY <2>1, <2>2 DEF executeOpcode
  <1>2. DOMAIN args = {1} /\ args[1] = p
    OBVIOUS
  <1>3. n[1] = toInt(p)
    BY <1>2
  <1> HIDE DEF args, n
  <1>4. (\E k \in DOMAIN args : ~isNumber(args[k])) <=> ~isNumber(p)
    BY <1>2
  <1>5. Numeric(op, n) = PushInt(UnaryNumber(op, toInt(p)))
    <2>1. op \notin BinaryArithmetic /\ op \notin Comparisons /\ op # "NUM2BIN"
      BY DEF UnaryArithmetic, BinaryArithmetic, Comparisons
    <2> QED BY <1>3, <2>1 DEF Numeric
  <1>6. executeOpcode(op, args) =
            IF isNumber(p) THEN PushInt(UnaryNumber(op, toInt(p))) ELSE Throws
    BY <1>1, <1>4, <1>5
  <1> QED BY <1>6 DEF args

(* What the opcodes leave of two numbers.                                  *)
NumericLeavesOf(a, b) ==
    /\ Numeric("ADD", <<a, b>>) = PushInt(ToWord(a + b))
    /\ Numeric("SUB", <<a, b>>) = PushInt(ToWord(a - b))
    /\ Numeric("MUL", <<a, b>>) = PushInt(ToWord(a * b))
    /\ Numeric("DIV", <<a, b>>) =
           IF Divides(a, b) THEN PushInt(ToWord(Quotient(a, b))) ELSE Throws
    /\ Numeric("MOD", <<a, b>>) =
           IF Divides(a, b) THEN PushInt(ToWord(Remainder(a, b))) ELSE Throws
    /\ Numeric("NUMEQUAL", <<a, b>>) = PushBool(a = b)
    /\ Numeric("NUMNOTEQUAL", <<a, b>>) = PushBool(a # b)
    /\ Numeric("LESSTHAN", <<a, b>>) = PushBool(a < b)
    /\ Numeric("GREATERTHAN", <<a, b>>) = PushBool(a > b)
    /\ Numeric("LESSTHANOREQUAL", <<a, b>>) = PushBool(a <= b)
    /\ Numeric("GREATERTHANOREQUAL", <<a, b>>) = PushBool(a >= b)
    /\ Numeric("NUM2BIN", <<a, b>>) =
           IF b < 0 THEN Throws ELSE Leaves(<<NumToBinBytes(a, b)>>)

(* What each arithmetic opcode with two operands leaves for the numbers a  *)
(* and b.                                                                  *)
LEMMA NumericLeaves ==
    ASSUME NEW a \in Int, NEW b \in Int PROVE NumericLeavesOf(a, b)
  <1> DEFINE n == <<a, b>>
  <1>1. n[1] = a /\ n[2] = b
    OBVIOUS
  <1> HIDE DEF n
  <1>2. \A op \in BinaryArithmetic : Numeric(op, n) =
            IF op \in {"DIV", "MOD"} /\ ~Divides(a, b) THEN Throws
            ELSE PushInt(BinaryNumber(op, a, b))
    <2>1. \A op \in BinaryArithmetic : op \notin UnaryArithmetic /\ op \notin Comparisons
                                       /\ op # "NUM2BIN"
      BY DEF BinaryArithmetic, UnaryArithmetic, Comparisons
    <2> QED BY <1>1, <2>1 DEF Numeric
  <1>3. \A op \in Comparisons : Numeric(op, n) = PushBool(Compares(op, a, b))
    <2>1. \A op \in Comparisons : op \notin UnaryArithmetic /\ op \notin BinaryArithmetic
                                  /\ op # "NUM2BIN"
      BY DEF BinaryArithmetic, UnaryArithmetic, Comparisons
    <2> QED BY <1>1, <2>1 DEF Numeric
  <1>4. Numeric("NUM2BIN", n) = IF b < 0 THEN Throws ELSE Leaves(<<NumToBinBytes(a, b)>>)
    BY <1>1 DEF Numeric, UnaryArithmetic, BinaryArithmetic, Comparisons
  <1>5. /\ BinaryNumber("ADD", a, b) = ToWord(a + b)
        /\ BinaryNumber("SUB", a, b) = ToWord(a - b)
        /\ BinaryNumber("MUL", a, b) = ToWord(a * b)
        /\ BinaryNumber("DIV", a, b) = ToWord(Quotient(a, b))
        /\ BinaryNumber("MOD", a, b) = ToWord(Remainder(a, b))
    BY DEF BinaryNumber
  <1>6. {"ADD", "SUB", "MUL", "DIV", "MOD"} \subseteq BinaryArithmetic
    BY DEF BinaryArithmetic
  <1>7. {"NUMEQUAL", "NUMNOTEQUAL", "LESSTHAN", "GREATERTHAN", "LESSTHANOREQUAL",
         "GREATERTHANOREQUAL"} \subseteq Comparisons
    BY DEF Comparisons
  <1>8. /\ Compares("NUMEQUAL", a, b) = (a = b)
        /\ Compares("NUMNOTEQUAL", a, b) = (a # b)
        /\ Compares("LESSTHAN", a, b) = (a < b)
        /\ Compares("GREATERTHAN", a, b) = (a > b)
        /\ Compares("LESSTHANOREQUAL", a, b) = (a <= b)
        /\ Compares("GREATERTHANOREQUAL", a, b) = (a >= b)
    BY DEF Compares
  <1>9. /\ Numeric("ADD", n) = PushInt(ToWord(a + b))
        /\ Numeric("SUB", n) = PushInt(ToWord(a - b))
        /\ Numeric("MUL", n) = PushInt(ToWord(a * b))
        /\ Numeric("DIV", n) = IF Divides(a, b) THEN PushInt(ToWord(Quotient(a, b))) ELSE Throws
        /\ Numeric("MOD", n) = IF Divides(a, b) THEN PushInt(ToWord(Remainder(a, b))) ELSE Throws
    BY <1>2, <1>5, <1>6
  <1>10. /\ Numeric("NUMEQUAL", n) = PushBool(a = b)
         /\ Numeric("NUMNOTEQUAL", n) = PushBool(a # b)
         /\ Numeric("LESSTHAN", n) = PushBool(a < b)
         /\ Numeric("GREATERTHAN", n) = PushBool(a > b)
         /\ Numeric("LESSTHANOREQUAL", n) = PushBool(a <= b)
         /\ Numeric("GREATERTHANOREQUAL", n) = PushBool(a >= b)
    BY <1>3, <1>7, <1>8
  <1> QED BY <1>4, <1>9, <1>10 DEF n, NumericLeavesOf

(* What the opcodes on bytes and on truth values leave.                    *)
BytesLeaveOf(p, q) ==
    /\ executeOpcode("EQUAL", <<p, q>>) = PushBool(p = q)
    /\ executeOpcode("NOT", <<p>>) = PushBool(isNumber(p) /\ toInt(p) = 0)
    /\ executeOpcode("0NOTEQUAL", <<p>>) = PushBool(isTrue(p))
    /\ executeOpcode("VERIFY", <<p>>) = IF isTrue(p) THEN Leaves(<<>>) ELSE Throws
    /\ executeOpcode("CAT", <<p, q>>) = Leaves(<<p \o q>>)
    /\ executeOpcode("SPLIT", <<p, q>>) = Split(p, toInt(q))
    /\ executeOpcode("BIN2NUM", <<p>>) = PushInt(ToWord(BigEndian(p)))
    /\ executeOpcode("SIZE", <<p>>) = Leaves(<<p, serializeScriptNum(ToWord(Len(p)))>>)
    /\ executeOpcode("DROP", <<p, q>>) = Leaves(<<p>>)
    /\ executeOpcode("NIP", <<p, q>>) = Leaves(<<q>>)

(* They leave that of every two.                                           *)
LEMMA BytesLeave ==
    ASSUME NEW p, NEW q PROVE BytesLeaveOf(p, q)
  <1>1. <<p, q>>[1] = p /\ <<p, q>>[2] = q /\ <<p>>[1] = p
    OBVIOUS
  <1>2. Front(<<p, q>>) = <<p>>
    <2> DEFINE s == <<p, q>>
               f == Front(s)
    <2>1. s \in Seq({p, q}) /\ Len(s) = 2 /\ s[1] = p
      OBVIOUS
    <2> HIDE DEF s, f
    <2>2. s # <<>>
      BY <2>1, EmptySeq
    <2>3. f \in Seq({p, q}) /\ Len(f) = 1 /\ f[1] = p
      <3>1. f \in Seq({p, q}) /\ Len(f) = Len(s) - 1 /\ \A i \in 1..Len(s) - 1 : f[i] = s[i]
        BY <2>1, <2>2, FrontIsShorter DEF f
      <3> QED BY <2>1, <3>1
    <2>4. f = <<p>>
      BY <2>3
    <2> QED BY <2>4 DEF s, f
  <1>3. \A op \in {"EQUAL", "NOT", "0NOTEQUAL", "VERIFY"} : \A args :
            executeOpcode(op, args) = BooleanOpcode(op, args)
    BY DEF executeOpcode, UnaryArithmetic, BinaryArithmetic, Comparisons
  <1>4. \A op \in {"CAT", "SPLIT", "BIN2NUM", "SIZE"} : \A args :
            executeOpcode(op, args) = ByteOpcode(op, args)
    BY DEF executeOpcode, UnaryArithmetic, BinaryArithmetic, Comparisons
  <1>5. \A args : /\ executeOpcode("DROP", args) = Leaves(Front(args))
                  /\ executeOpcode("NIP", args) = Leaves(<<args[2]>>)
    BY DEF executeOpcode, UnaryArithmetic, BinaryArithmetic, Comparisons
  <1>6. /\ BooleanOpcode("EQUAL", <<p, q>>) = PushBool(p = q)
        /\ BooleanOpcode("NOT", <<p>>) = PushBool(isNumber(p) /\ toInt(p) = 0)
        /\ BooleanOpcode("0NOTEQUAL", <<p>>) = PushBool(isTrue(p))
        /\ BooleanOpcode("VERIFY", <<p>>) = IF isTrue(p) THEN Leaves(<<>>) ELSE Throws
    BY <1>1 DEF BooleanOpcode
  <1>7. /\ ByteOpcode("CAT", <<p, q>>) = Leaves(<<p \o q>>)
        /\ ByteOpcode("SPLIT", <<p, q>>) = Split(p, toInt(q))
        /\ ByteOpcode("BIN2NUM", <<p>>) = PushInt(ToWord(BigEndian(p)))
        /\ ByteOpcode("SIZE", <<p>>) = Leaves(<<p, serializeScriptNum(ToWord(Len(p)))>>)
    BY <1>1 DEF ByteOpcode
  <1>8. /\ executeOpcode("EQUAL", <<p, q>>) = PushBool(p = q)
        /\ executeOpcode("NOT", <<p>>) = PushBool(isNumber(p) /\ toInt(p) = 0)
        /\ executeOpcode("0NOTEQUAL", <<p>>) = PushBool(isTrue(p))
        /\ executeOpcode("VERIFY", <<p>>) = IF isTrue(p) THEN Leaves(<<>>) ELSE Throws
    BY <1>3, <1>6
  <1>9. /\ executeOpcode("CAT", <<p, q>>) = Leaves(<<p \o q>>)
        /\ executeOpcode("SPLIT", <<p, q>>) = Split(p, toInt(q))
        /\ executeOpcode("BIN2NUM", <<p>>) = PushInt(ToWord(BigEndian(p)))
        /\ executeOpcode("SIZE", <<p>>) = Leaves(<<p, serializeScriptNum(ToWord(Len(p)))>>)
    BY <1>4, <1>7
  <1>10. /\ executeOpcode("DROP", <<p, q>>) = Leaves(<<p>>)
         /\ executeOpcode("NIP", <<p, q>>) = Leaves(<<q>>)
    BY <1>1, <1>2, <1>5
  <1> QED BY <1>8, <1>9, <1>10, Zenon DEF BytesLeaveOf

(* What the interpreter's functions return for one value.                  *)
OneCalled(v) ==
    LET a == toScriptNum(v)
        Call1(name, result) ==
            callFunction(name, <<v>>) = IF a = NoNumber THEN Raises ELSE result
    IN  /\ Call1("Inc", Returns(fromInt(ToWord(a + 1))))
        /\ Call1("Dec", Returns(fromInt(ToWord(a - 1))))
        /\ Call1("Neg", Returns(fromInt(ToWord(-a))))
        /\ Call1("Abs", Returns(fromInt(ToWord(Magnitude(a)))))
        /\ Call1("BinToNum", Returns(fromInt(a)))
        /\ Call1("ZeroNotEqual", Returns(fromBool(a # 0)))
        /\ callFunction("Verify", <<v>>) = Verified(truthy(v))
        /\ callFunction("Not", <<v>>) = Returns(fromBool(~truthy(v)))
        /\ callFunction("Size", <<v>>) = Returns(fromInt(ToWord(Len(toScriptBytes(v)))))

(* They return that for every value.                                      *)
LEMMA CallOfOne ==
    ASSUME NEW v PROVE OneCalled(v)
  <1> DEFINE args == <<v>>
             a == toScriptNum(v)
             numbers == [k \in DOMAIN args |-> toScriptNum(args[k])]
             bytes == [k \in DOMAIN args |-> toScriptBytes(args[k])]
  <1>1. DOMAIN args = {1} /\ args[1] = v
    OBVIOUS
  <1>2. DOMAIN numbers = {1} /\ numbers[1] = a /\ bytes[1] = toScriptBytes(v)
    BY <1>1
  <1>3. \A name \in NumericFunctions : callFunction(name, args) =
            IF \E k \in DOMAIN args : numbers[k] = NoNumber THEN Raises
            ELSE NumericFunction(name, numbers)
    BY DEF callFunction, NumericFunctions
  <1>4. /\ callFunction("Verify", args) = Verified(truthy(args[1]))
        /\ callFunction("Not", args) = Returns(fromBool(~truthy(args[1])))
        /\ callFunction("Size", args) = Returns(fromInt(ToWord(Len(bytes[1]))))
    BY DEF callFunction, NumericFunctions
  <1> HIDE DEF args, a, numbers, bytes
  <1>5. (\E k \in DOMAIN args : numbers[k] = NoNumber) <=> a = NoNumber
    BY <1>1, <1>2
  <1>6. /\ NumericFunction("Inc", numbers) = Returns(fromInt(ToWord(a + 1)))
        /\ NumericFunction("Dec", numbers) = Returns(fromInt(ToWord(a - 1)))
        /\ NumericFunction("Neg", numbers) = Returns(fromInt(ToWord(-a)))
        /\ NumericFunction("Abs", numbers) = Returns(fromInt(ToWord(Magnitude(a))))
        /\ NumericFunction("BinToNum", numbers) = Returns(fromInt(a))
        /\ NumericFunction("ZeroNotEqual", numbers) = Returns(fromBool(a # 0))
    BY <1>2 DEF NumericFunction
  <1>7. {"Inc", "Dec", "Neg", "Abs", "BinToNum", "ZeroNotEqual"} \subseteq NumericFunctions
    BY DEF NumericFunctions
  <1>8. \A name \in {"Inc", "Dec", "Neg", "Abs", "BinToNum", "ZeroNotEqual"} :
            callFunction(name, args) =
                IF a = NoNumber THEN Raises ELSE NumericFunction(name, numbers)
    BY <1>3, <1>5, <1>7
  <1> QED BY <1>1, <1>2, <1>4, <1>6, <1>8 DEF args, a, OneCalled

(* What they return for two.                                               *)
TwoCalled(v, w) ==
    LET a == toScriptNum(v)
        b == toScriptNum(w)
        Call2(name, result) ==
            callFunction(name, <<v, w>>) =
                IF a = NoNumber \/ b = NoNumber THEN Raises ELSE result
    IN  /\ Call2("Add", Returns(fromInt(ToWord(a + b))))
        /\ Call2("Sub", Returns(fromInt(ToWord(a - b))))
        /\ Call2("Mul", Returns(fromInt(ToWord(a * b))))
        /\ Call2("Div", IF Divides(a, b) THEN Returns(fromInt(Quotient(a, b)))
                        ELSE Raises)
        /\ Call2("Mod", IF Divides(a, b) THEN Returns(fromInt(Remainder(a, b)))
                        ELSE Raises)
        /\ Call2("NumEqual", Returns(fromBool(a = b)))
        /\ Call2("NumNotEqual", Returns(fromBool(a # b)))
        /\ Call2("NumEqualVerify", Verified(a = b))
        /\ Call2("LessThan", Returns(fromBool(a < b)))
        /\ Call2("GreaterThan", Returns(fromBool(a > b)))
        /\ Call2("NumToBin", numToBin(a, b))
        /\ callFunction("Equal", <<v, w>>) =
               Returns(fromBool(toScriptBytes(v) = toScriptBytes(w)))
        /\ callFunction("EqualVerify", <<v, w>>) =
               Verified(toScriptBytes(v) = toScriptBytes(w))
        /\ callFunction("Cat", <<v, w>>) =
               Returns(fromBytes(toScriptBytes(v) \o toScriptBytes(w)))

(* They return that for every two.                                         *)
LEMMA CallOfTwo ==
    ASSUME NEW v, NEW w PROVE TwoCalled(v, w)
  <1> DEFINE args == <<v, w>>
             a == toScriptNum(v)
             b == toScriptNum(w)
             numbers == [k \in DOMAIN args |-> toScriptNum(args[k])]
             bytes == [k \in DOMAIN args |-> toScriptBytes(args[k])]
             Numerics == {"Add", "Sub", "Mul", "Div", "Mod", "NumEqual", "NumNotEqual",
                          "NumEqualVerify", "LessThan", "GreaterThan", "NumToBin"}
  <1>1. DOMAIN args = {1, 2} /\ args[1] = v /\ args[2] = w
    OBVIOUS
  <1>2. numbers[1] = a /\ numbers[2] = b
        /\ bytes[1] = toScriptBytes(v) /\ bytes[2] = toScriptBytes(w)
    BY <1>1
  <1>3. \A name \in NumericFunctions : callFunction(name, args) =
            IF \E k \in DOMAIN args : numbers[k] = NoNumber THEN Raises
            ELSE NumericFunction(name, numbers)
    BY DEF callFunction, NumericFunctions
  <1>4. /\ callFunction("Equal", args) = Returns(fromBool(bytes[1] = bytes[2]))
        /\ callFunction("EqualVerify", args) = Verified(bytes[1] = bytes[2])
        /\ callFunction("Cat", args) = Returns(fromBytes(bytes[1] \o bytes[2]))
    BY DEF callFunction, NumericFunctions
  <1> HIDE DEF args, a, b, numbers, bytes
  <1>5. (\E k \in DOMAIN args : numbers[k] = NoNumber) <=> a = NoNumber \/ b = NoNumber
    BY <1>1, <1>2
  <1>6. /\ NumericFunction("Add", numbers) = Returns(fromInt(ToWord(a + b)))
        /\ NumericFunction("Sub", numbers) = Returns(fromInt(ToWord(a - b)))
        /\ NumericFunction("Mul", numbers) = Returns(fromInt(ToWord(a * b)))
        /\ NumericFunction("Div", numbers) =
               IF Divides(a, b) THEN Returns(fromInt(Quotient(a, b))) ELSE Raises
        /\ NumericFunction("Mod", numbers) =
               IF Divides(a, b) THEN Returns(fromInt(Remainder(a, b))) ELSE Raises
    BY <1>2 DEF NumericFunction
  <1>7. /\ NumericFunction("NumEqual", numbers) = Returns(fromBool(a = b))
        /\ NumericFunction("NumNotEqual", numbers) = Returns(fromBool(a # b))
        /\ NumericFunction("NumEqualVerify", numbers) = Verified(a = b)
        /\ NumericFunction("LessThan", numbers) = Returns(fromBool(a < b))
        /\ NumericFunction("GreaterThan", numbers) = Returns(fromBool(a > b))
        /\ NumericFunction("NumToBin", numbers) = numToBin(a, b)
    BY <1>2 DEF NumericFunction
  <1>8. Numerics \subseteq NumericFunctions
    BY DEF NumericFunctions
  <1>9. \A name \in Numerics :
            callFunction(name, args) =
                IF a = NoNumber \/ b = NoNumber THEN Raises ELSE NumericFunction(name, numbers)
    BY <1>3, <1>5, <1>8
  <1>10. /\ callFunction("Equal", args) = Returns(fromBool(toScriptBytes(v) = toScriptBytes(w)))
         /\ callFunction("EqualVerify", args) = Verified(toScriptBytes(v) = toScriptBytes(w))
         /\ callFunction("Cat", args) = Returns(fromBytes(toScriptBytes(v) \o toScriptBytes(w)))
    BY <1>2, <1>4
  <1> QED BY <1>6, <1>7, <1>9, <1>10 DEF args, a, b, TwoCalled

(* A slice.                                                                *)
LEMMA CallOfSlice ==
    ASSUME NEW v, NEW w, NEW u
    PROVE  callFunction("Slice", <<v, w, u>>) =
               IF NoNumber \in {toScriptNum(w), toScriptNum(u)} THEN Raises
               ELSE sliceBytes(v, toScriptNum(w), toScriptNum(u))
  <1> DEFINE args == <<v, w, u>>
             numbers == [k \in DOMAIN args |-> toScriptNum(args[k])]
  <1>1. DOMAIN args = {1, 2, 3} /\ args[1] = v /\ args[2] = w /\ args[3] = u
    BY SMT
  <1>2. callFunction("Slice", args) =
            IF NoNumber \in {numbers[2], numbers[3]} THEN Raises
            ELSE sliceBytes(args[1], numbers[2], numbers[3])
    BY DEF callFunction, NumericFunctions
  <1>3. numbers[2] = toScriptNum(w) /\ numbers[3] = toScriptNum(u)
    BY <1>1
  <1> HIDE DEF args, numbers
  <1>4. callFunction("Slice", args) =
            IF NoNumber \in {toScriptNum(w), toScriptNum(u)} THEN Raises
            ELSE sliceBytes(v, toScriptNum(w), toScriptNum(u))
    BY <1>1, <1>2, <1>3
  <1> QED BY <1>4 DEF args

-----------------------------------------------------------------------------
(* What a loop is made of, while it is unrolled.                           *)
LoopIsTyped ==
    /\ loop = [start |-> loop.start, stop |-> loop.stop, step |-> loop.step,
               index |-> loop.index]
    /\ loop.start \in Signed /\ loop.stop \in Signed
    /\ loop.step \in Signed \ {0}
    /\ loop.index \in Nat

(* RangePlan::build and RangePlan::valueAt agree with integers without a   *)
(* bound, for every loop that is unrolled and every width of the machine.  *)
THEOREM RangesExact == RangeSpec => []RangesAreExact
  <1>1. ASSUME RangeInit PROVE LoopIsTyped
    <2>1. loop = NoLoop
      BY <1>1 DEF RangeInit
    <2> QED BY <2>1, ModulusPositive DEF LoopIsTyped, NoLoop, Signed
  <1>2. ASSUME LoopIsTyped, [RangeNext]_loop PROVE LoopIsTyped'
    <2>1. CASE UNCHANGED loop
      BY <1>2, <2>1 DEF LoopIsTyped
    <2>2. CASE NextIteration
      BY <1>2, <2>2 DEF LoopIsTyped, NextIteration
    <2>3. ASSUME NEW start \in Signed, NEW stop \in Signed, NEW step \in Signed \ {0},
                 BeginLoop(start, stop, step)
          PROVE  LoopIsTyped'
      BY <2>3 DEF LoopIsTyped, BeginLoop
    <2> QED BY <1>2, <2>1, <2>2, <2>3 DEF RangeNext
  <1>3. ASSUME LoopIsTyped PROVE RangesAreExact
    <2> DEFINE start == loop.start  stop == loop.stop  step == loop.step  k == loop.index
    <2>1. start \in Signed /\ stop \in Signed /\ step \in Signed \ {0} /\ k \in Nat
      BY <1>3 DEF LoopIsTyped
    <2> HIDE DEF start, stop, step, k
    <2>2. CASE Progresses(start, stop, step)
      <3>1. k < build(start, stop, step) <=> InRange(start, stop, step, k)
        BY <2>1, <2>2, CountIsExact, InRangeIsBelow
      <3>2. k < build(start, stop, step) => valueAt(start, step, k) = start + k * step
        BY <2>1, <2>2, CountIsExact, ValueIsExact
      <3> QED BY <3>1, <3>2 DEF RangesAreExact, Iterations, start, stop, step, k
    <2>3. CASE ~Progresses(start, stop, step)
      <3>1. build(start, stop, step) = 0
        BY <2>3 DEF build
      <3>2. ~(k < build(start, stop, step)) /\ ~InRange(start, stop, step, k)
        BY <2>1, <2>3, <3>1, InRangeIsBelow
      <3> QED BY <3>2 DEF RangesAreExact, Iterations, start, stop, step, k
    <2> QED BY <2>2, <2>3
  <1> QED BY <1>1, <1>2, <1>3, PTL DEF RangeSpec
-----------------------------------------------------------------------------
(* What folding an operator of two literals should make of them.           *)
IsFolded(op, a, b, v) ==
    IF v = NoNumber THEN Exact(op, a, b) \intersect Signed = {}
    ELSE v \in Signed /\ Exact(op, a, b) = {v}

(* checkedDivide.                                                          *)
LEMMA DivideIsExact ==
    ASSUME NEW a \in Signed, NEW b \in Signed
    PROVE  IsFolded("/", a, b, checkedDivide(a, b))
  <1> DEFINE E == Exact("/", a, b)
  <1>1. E = {q \in -SignBit..SignBit : b # 0 /\ IsQuotient(a, b, q)}
    BY DEF Exact, IsQuotient
  <1>2. NoNumber \notin Signed
    BY NoNumberAssumption DEF Signed
  <1>3. CASE b = 0
    <2>1. checkedDivide(a, b) = NoNumber /\ E = {}
      BY <1>1, <1>3 DEF checkedDivide, Divides
    <2> QED BY <2>1 DEF IsFolded
  <1>4. CASE b # 0
    <2>1. \A q \in Int : IsQuotient(a, b, q) <=> q = Quotient(a, b)
      BY <1>4, QuotientIsExact DEF Signed
    <2>2. Quotient(a, b) \in -SignBit..SignBit
      BY <1>4, QuotientInWord
    <2>3. E = {Quotient(a, b)}
      BY <1>1, <1>4, <2>1, <2>2
    <2>4. Quotient(a, b) \in Signed <=> Divides(a, b)
      BY <1>4, QuotientInWord
    <2> HIDE DEF E
    <2>5. checkedDivide(a, b) = IF Divides(a, b) THEN Quotient(a, b) ELSE NoNumber
      BY DEF checkedDivide
    <2> QED BY <1>2, <2>3, <2>4, <2>5 DEF IsFolded, E
  <1> QED BY <1>3, <1>4

(* What a comparison leaves is a machine integer, and a result.            *)
LEMMA TruthIsExact ==
    ASSUME NEW x PROVE StaticTruth(x) \in Signed \ {NoNumber}
  <1>1. 0 \in Signed /\ 1 \in Signed
    BY TrueAssumption, ModulusPositive DEF Signed
  <1> QED BY <1>1, NoNumberAssumption DEF StaticTruth

(* Every operator the folder knows is exact, and refuses a program only    *)
(* for a result that is no machine integer.                                *)
LEMMA OperatorIsExact ==
    ASSUME NEW op \in DOMAIN operatorMap, NEW a \in Signed, NEW b \in Signed
    PROVE  IsFolded(op, a, b, evaluateOperator(op, a, b))
  <1>1. op \in {"+", "-", "*", "/", "==", "!=", "<", ">", "<=", ">="}
    BY DEF operatorMap
  <1>2. \A n, v : Result(n, v) /\ Exact(op, a, b) = {n} => IsFolded(op, a, b, v)
    BY NoNumberAssumption DEF Result, IsFolded, Signed
  <1>3. \A x : Exact(op, a, b) = {StaticTruth(x)} => IsFolded(op, a, b, StaticTruth(x))
    BY TruthIsExact DEF IsFolded
  <1>4. CASE op = "+"
    <2>1. Exact(op, a, b) = {a + b} /\ evaluateOperator(op, a, b) = checkedAdd(a, b)
      BY <1>4 DEF Exact, evaluateOperator
    <2> QED BY <1>2, <2>1, AddIsExact
  <1>5. CASE op = "-"
    <2>1. Exact(op, a, b) = {a - b} /\ evaluateOperator(op, a, b) = checkedSubtract(a, b)
      BY <1>5 DEF Exact, evaluateOperator
    <2> QED BY <1>2, <2>1, AddIsExact
  <1>6. CASE op = "*"
    <2>1. Exact(op, a, b) = {a * b} /\ evaluateOperator(op, a, b) = checkedMultiply(a, b)
      BY <1>6 DEF Exact, evaluateOperator
    <2> QED BY <1>2, <2>1, MultiplyIsExact
  <1>7. CASE op = "/"
    <2>1. evaluateOperator(op, a, b) = checkedDivide(a, b)
      BY <1>7 DEF evaluateOperator
    <2> QED BY <1>7, <2>1, DivideIsExact
  <1>8. CASE op = "=="
    <2>1. Exact(op, a, b) = {StaticTruth(a = b)}
          /\ evaluateOperator(op, a, b) = StaticTruth(a = b)
      BY <1>8 DEF Exact, evaluateOperator
    <2> QED BY <1>3, <2>1
  <1>9. CASE op = "!="
    <2>1. Exact(op, a, b) = {StaticTruth(a # b)}
          /\ evaluateOperator(op, a, b) = StaticTruth(a # b)
      BY <1>9 DEF Exact, evaluateOperator
    <2> QED BY <1>3, <2>1
  <1>10. CASE op = "<"
    <2>1. Exact(op, a, b) = {StaticTruth(a < b)}
          /\ evaluateOperator(op, a, b) = StaticTruth(a < b)
      BY <1>10 DEF Exact, evaluateOperator
    <2> QED BY <1>3, <2>1
  <1>11. CASE op = ">"
    <2>1. Exact(op, a, b) = {StaticTruth(a > b)}
          /\ evaluateOperator(op, a, b) = StaticTruth(a > b)
      BY <1>11 DEF Exact, evaluateOperator
    <2> QED BY <1>3, <2>1
  <1>12. CASE op = "<="
    <2>1. Exact(op, a, b) = {StaticTruth(a <= b)}
          /\ evaluateOperator(op, a, b) = StaticTruth(a <= b)
      BY <1>12 DEF Exact, evaluateOperator
    <2> QED BY <1>3, <2>1
  <1>13. CASE op = ">="
    <2>1. Exact(op, a, b) = {StaticTruth(a >= b)}
          /\ evaluateOperator(op, a, b) = StaticTruth(a >= b)
      BY <1>13 DEF Exact, evaluateOperator
    <2> QED BY <1>3, <2>1
  <1> QED BY <1>1, <1>4, <1>5, <1>6, <1>7, <1>8, <1>9, <1>10, <1>11, <1>12, <1>13

-----------------------------------------------------------------------------
(* What the compiler knows of an operand is a machine integer. The set is  *)
(* there for the operands to be a sequence.                                *)
IsKnown(x)   == x.known \in Signed \union {NoNumber}
KnownItems == \E S : items \in Seq(S) /\ \A x \in S : IsKnown(x)

(* An operand as the compiler builds it.                                   *)
LEMMA OperandIsKnown ==
    ASSUME NEW bytes, NEW value, NEW known \in Signed \union {NoNumber}
    PROVE  IsKnown(Operand(bytes, value, known))
  BY DEF IsKnown, Operand

(* A new operand after those of a sequence.                                *)
LEMMA KnownAppend ==
    ASSUME NEW S, NEW s \in Seq(S), \A x \in S : IsKnown(x), NEW y, IsKnown(y),
           items' = Append(s, y)
    PROVE  KnownItems'
  <1> DEFINE T == S \union {y}
  <1>1. items' \in Seq(T)
    BY SMT
  <1>2. \A x \in T : IsKnown(x)
    OBVIOUS
  <1> HIDE DEF T
  <1>3. \E U : items' \in Seq(U) /\ \A x \in U : IsKnown(x)
    BY <1>1, <1>2
  <1> QED BY <1>3 DEF KnownItems, IsKnown

(* What FoldOperator computes of two literals is exact.                    *)
LEMMA FoldedIsExact ==
    ASSUME NEW S, items \in Seq(S), \A x \in S : IsKnown(x),
           NEW op \in Operators, FoldOperator(op)
    PROVE  IsFolded(op, items[Len(items) - 1].known, Last(items).known,
                    evaluateOperator(op, items[Len(items) - 1].known, Last(items).known))
  <1> DEFINE x == items[Len(items) - 1]
             y == Last(items)
  <1>1. Len(items) >= 2 /\ isLiteral(x) /\ isLiteral(y)
    BY DEF FoldOperator
  <1>2. x \in S /\ y \in S
    BY <1>1 DEF Last
  <1>3. x.known \in Signed /\ y.known \in Signed
    BY <1>1, <1>2 DEF isLiteral, IsKnown
  <1> QED BY <1>3, OperatorsAssumption, OperatorIsExact

(* Both sides may throw, and then only the operands are gone.              *)
LEMMA KnownFinish ==
    ASSUME KnownItems, NEW arity \in 1..3, Len(items) >= arity,
           NEW machine, NEW interpreter, NEW left,
           Len(machine.items) \in Nat, Finish(arity, machine, interpreter, left)
    PROVE  KnownItems'
  <1> DEFINE values == left \o interpreter.values
             n == IF machine.ok /\ interpreter.ok THEN Len(machine.items) ELSE 0
             new == [k \in 1..n |-> Operand(machine.items[k], values[k], NoNumber)]
             old == SubSeq(items, 1, Len(items) - arity)
  <1>1. PICK S : items \in Seq(S) /\ \A x \in S : IsKnown(x)
    BY DEF KnownItems
  <1>2. n \in Nat
    OBVIOUS
  <1>3. items' = old \o new
    BY DEF Finish
  <1>4. old \in Seq(S)
    BY <1>1
  <1> DEFINE T == S \union {new[k] : k \in 1..n}
  <1>5. \A x \in T : IsKnown(x)
    BY <1>1, OperandIsKnown
  <1> HIDE DEF n, old
  <1>6. new \in Seq({new[k] : k \in 1..n})
    <2> HIDE DEF values
    <2>1. new \in [1..n -> {new[k] : k \in 1..n}]
      OBVIOUS
    <2> HIDE DEF new
    <2> QED BY <1>2, <2>1, SeqDef
  <1> HIDE DEF new
  <1>7. old \in Seq(T) /\ new \in Seq(T)
    BY <1>4, <1>6
  <1> HIDE DEF T
  <1>8. items' \in Seq(T)
    BY <1>3, <1>7
  <1>9. \E U : items' \in Seq(U) /\ \A x \in U : IsKnown(x)
    BY <1>5, <1>8
  <1> QED BY <1>9 DEF KnownItems, IsKnown
-----------------------------------------------------------------------------
(* The opcodes of operators and functions, without DROP, which needs a     *)
(* sequence to take from.                                                  *)
Opcodes ==
    UnaryArithmetic \union BinaryArithmetic \union Comparisons
        \union {"NUM2BIN", "EQUAL", "NOT", "0NOTEQUAL", "VERIFY", "CAT", "SPLIT",
                "BIN2NUM", "SIZE", "NIP"}

(* The lists of opcodes are of one or two of them.                         *)
LEMMA ShortLists ==
    /\ \A a \in Opcodes : <<a>> \in Seq(Opcodes)
    /\ \A a, b \in Opcodes : <<a, b>> \in Seq(Opcodes)
  OBVIOUS

(* What g_operatorMap gives are opcodes.                                   *)
LEMMA OperatorOpcodes ==
    ASSUME NEW op \in DOMAIN operatorMap PROVE operatorMap[op] \in Seq(Opcodes)
  <1>1. op \in {"+", "-", "*", "/", "==", "!=", "<", ">", "<=", ">="}
    BY DEF operatorMap
  <1>2. {"ADD", "SUB", "MUL", "DIV", "EQUAL", "NOT", "LESSTHAN", "GREATERTHAN",
         "LESSTHANOREQUAL", "GREATERTHANOREQUAL"} \subseteq Opcodes
    BY DEF Opcodes, BinaryArithmetic, Comparisons
  <1>3. operatorMap["+"] = <<"ADD">> /\ operatorMap["-"] = <<"SUB">>
        /\ operatorMap["*"] = <<"MUL">> /\ operatorMap["/"] = <<"DIV">>
    BY DEF operatorMap
  <1>4. operatorMap["=="] = <<"EQUAL">> /\ operatorMap["!="] = <<"EQUAL", "NOT">>
    BY DEF operatorMap
  <1>5. operatorMap["<"] = <<"LESSTHAN">> /\ operatorMap[">"] = <<"GREATERTHAN">>
        /\ operatorMap["<="] = <<"LESSTHANOREQUAL">>
        /\ operatorMap[">="] = <<"GREATERTHANOREQUAL">>
    BY DEF operatorMap
  <1> HIDE DEF Opcodes
  <1>6. <<"ADD">> \in Seq(Opcodes) /\ <<"SUB">> \in Seq(Opcodes)
        /\ <<"MUL">> \in Seq(Opcodes) /\ <<"DIV">> \in Seq(Opcodes)
        /\ <<"EQUAL">> \in Seq(Opcodes) /\ <<"EQUAL", "NOT">> \in Seq(Opcodes)
        /\ <<"LESSTHAN">> \in Seq(Opcodes) /\ <<"GREATERTHAN">> \in Seq(Opcodes)
        /\ <<"LESSTHANOREQUAL">> \in Seq(Opcodes)
        /\ <<"GREATERTHANOREQUAL">> \in Seq(Opcodes)
    BY <1>2
  <1> QED BY <1>1, <1>3, <1>4, <1>5, <1>6

(* An entry of opCreators: its opcodes and its number of arguments.        *)
TakesOpcodes(f) == f.ops \in Seq(Opcodes) /\ f.arity \in 1..3

(* An entry as it is written.                                              *)
LEMMA FunctionTakes ==
    /\ \A s : TakesOpcodes(Function(<<>>, 3, s))
    /\ \A a \in Opcodes : \A s : /\ TakesOpcodes(Function(<<a>>, 1, s))
                                /\ TakesOpcodes(Function(<<a>>, 2, s))
    /\ \A a, b \in Opcodes : \A s : TakesOpcodes(Function(<<a, b>>, 2, s))
  <1>1. <<>> \in Seq(Opcodes)
    BY EmptySeq
  <1> QED BY <1>1, ShortLists DEF TakesOpcodes, Function

(* The entries of one argument.                                            *)
LEMMA UnaryOpcodes ==
    ASSUME NEW name \in DOMAIN UnaryFunctions PROVE TakesOpcodes(UnaryFunctions[name])
  <1>1. name \in {"Inc", "Dec", "Neg", "Abs", "Not", "ZeroNotEqual", "Verify"}
    BY DEF UnaryFunctions
  <1>2. /\ UnaryFunctions["Inc"] = Function(<<"1ADD">>, 1, FALSE)
        /\ UnaryFunctions["Dec"] = Function(<<"1SUB">>, 1, FALSE)
        /\ UnaryFunctions["Neg"] = Function(<<"NEGATE">>, 1, FALSE)
        /\ UnaryFunctions["Abs"] = Function(<<"ABS">>, 1, FALSE)
        /\ UnaryFunctions["Not"] = Function(<<"NOT">>, 1, FALSE)
        /\ UnaryFunctions["ZeroNotEqual"] = Function(<<"0NOTEQUAL">>, 1, FALSE)
        /\ UnaryFunctions["Verify"] = Function(<<"VERIFY">>, 1, FALSE)
    BY DEF UnaryFunctions
  <1>3. {"1ADD", "1SUB", "NEGATE", "ABS", "NOT", "0NOTEQUAL", "VERIFY"} \subseteq Opcodes
    BY DEF Opcodes, UnaryArithmetic
  <1> QED BY <1>1, <1>2, <1>3, FunctionTakes

(* The entries that compute.                                               *)
LEMMA ArithmeticOpcodes ==
    ASSUME NEW name \in DOMAIN ArithmeticFunctions
    PROVE  TakesOpcodes(ArithmeticFunctions[name])
  <1>1. name \in {"Add", "Mul", "Sub", "Div", "Mod"}
    BY DEF ArithmeticFunctions
  <1>2. /\ ArithmeticFunctions["Add"] = Function(<<"ADD">>, 2, FALSE)
        /\ ArithmeticFunctions["Mul"] = Function(<<"MUL">>, 2, FALSE)
        /\ ArithmeticFunctions["Sub"] = Function(<<"SUB">>, 2, TRUE)
        /\ ArithmeticFunctions["Div"] = Function(<<"DIV">>, 2, TRUE)
        /\ ArithmeticFunctions["Mod"] = Function(<<"MOD">>, 2, TRUE)
    BY DEF ArithmeticFunctions
  <1>3. {"ADD", "MUL", "SUB", "DIV", "MOD"} \subseteq Opcodes
    BY DEF Opcodes, BinaryArithmetic
  <1> QED BY <1>1, <1>2, <1>3, FunctionTakes

(* The entries that compare.                                               *)
LEMMA ComparisonOpcodes ==
    ASSUME NEW name \in DOMAIN ComparisonFunctions
    PROVE  TakesOpcodes(ComparisonFunctions[name])
  <1>1. name \in {"Equal", "EqualVerify", "NumEqual", "NumEqualVerify", "NumNotEqual",
                  "LessThan", "GreaterThan"}
    BY DEF ComparisonFunctions
  <1>2. /\ ComparisonFunctions["Equal"] = Function(<<"EQUAL">>, 2, FALSE)
        /\ ComparisonFunctions["EqualVerify"] = Function(<<"EQUAL", "VERIFY">>, 2, FALSE)
        /\ ComparisonFunctions["NumEqual"] = Function(<<"NUMEQUAL">>, 2, FALSE)
        /\ ComparisonFunctions["NumEqualVerify"] = Function(<<"NUMEQUAL", "VERIFY">>, 2, FALSE)
        /\ ComparisonFunctions["NumNotEqual"] = Function(<<"NUMNOTEQUAL">>, 2, FALSE)
        /\ ComparisonFunctions["LessThan"] = Function(<<"LESSTHAN">>, 2, TRUE)
        /\ ComparisonFunctions["GreaterThan"] = Function(<<"GREATERTHAN">>, 2, TRUE)
    BY DEF ComparisonFunctions
  <1>3. {"EQUAL", "VERIFY", "NUMEQUAL", "NUMNOTEQUAL", "LESSTHAN", "GREATERTHAN"}
            \subseteq Opcodes
    BY DEF Opcodes, Comparisons
  <1> QED BY <1>1, <1>2, <1>3, FunctionTakes

(* The entries on byte strings.                                            *)
LEMMA ByteOpcodes ==
    ASSUME NEW name \in DOMAIN ByteFunctions PROVE TakesOpcodes(ByteFunctions[name])
  <1>1. name \in {"Cat", "Size", "NumToBin", "BinToNum", "Slice"}
    BY DEF ByteFunctions
  <1>2. /\ ByteFunctions["Cat"] = Function(<<"CAT">>, 2, TRUE)
        /\ ByteFunctions["Size"] = Function(<<"SIZE">>, 1, FALSE)
        /\ ByteFunctions["NumToBin"] = Function(<<"NUM2BIN">>, 2, TRUE)
        /\ ByteFunctions["BinToNum"] = Function(<<"BIN2NUM">>, 1, FALSE)
        /\ ByteFunctions["Slice"] = Function(<<>>, 3, TRUE)
    BY DEF ByteFunctions
  <1>3. {"CAT", "SIZE", "NUM2BIN", "BIN2NUM"} \subseteq Opcodes
    BY DEF Opcodes
  <1> QED BY <1>1, <1>2, <1>3, FunctionTakes

(* Every entry of opCreators is one of those.                              *)
LEMMA FunctionOpcodes ==
    ASSUME NEW name \in DOMAIN opCreators PROVE TakesOpcodes(opCreators[name])
  <1>1. name \in DOMAIN UnaryFunctions \union DOMAIN ArithmeticFunctions
                  \union DOMAIN ComparisonFunctions \union DOMAIN ByteFunctions
    BY DEF opCreators
  <1>2. opCreators[name] =
            CASE name \in DOMAIN UnaryFunctions      -> UnaryFunctions[name]
              [] name \in DOMAIN ArithmeticFunctions -> ArithmeticFunctions[name]
              [] name \in DOMAIN ComparisonFunctions -> ComparisonFunctions[name]
              [] name \in DOMAIN ByteFunctions       -> ByteFunctions[name]
    BY <1>1 DEF opCreators
  <1> QED BY <1>1, <1>2, UnaryOpcodes, ArithmeticOpcodes, ComparisonOpcodes, ByteOpcodes

(* What an opcode leaves is a sequence. *)
LEMMA OpcodeLeaves ==
    ASSUME NEW op \in Opcodes, NEW args
    PROVE  Len(executeOpcode(op, args).items) \in Nat
  <1>1. \A x, y : /\ Len(Throws.items) \in Nat
                  /\ Len(Leaves(<<>>).items) \in Nat
                  /\ Len(Leaves(<<x>>).items) \in Nat
                  /\ Len(Leaves(<<x, y>>).items) \in Nat
    BY DEF Throws, Leaves
  <1>2. \A v, b : Len(PushInt(v).items) \in Nat /\ Len(PushBool(b).items) \in Nat
    BY <1>1 DEF PushInt, PushBool
  <1>3. CASE op \in UnaryArithmetic
    <2>1. \A n : Numeric(op, n) = PushInt(UnaryNumber(op, n[1]))
      BY <1>3 DEF Numeric, UnaryArithmetic, BinaryArithmetic, Comparisons
    <2>2. executeOpcode(op, args) =
              IF \E k \in DOMAIN args : ~isNumber(args[k]) THEN Throws
              ELSE Numeric(op, [k \in DOMAIN args |-> toInt(args[k])])
      BY <1>3 DEF executeOpcode, UnaryArithmetic, BinaryArithmetic, Comparisons
    <2> QED BY <1>1, <1>2, <2>1, <2>2
  <1>4. CASE op \in BinaryArithmetic
    <2>1. \A n : Numeric(op, n) \in {Throws, PushInt(BinaryNumber(op, n[1], n[2]))}
      BY <1>4 DEF Numeric, UnaryArithmetic, BinaryArithmetic, Comparisons
    <2>2. executeOpcode(op, args) =
              IF \E k \in DOMAIN args : ~isNumber(args[k]) THEN Throws
              ELSE Numeric(op, [k \in DOMAIN args |-> toInt(args[k])])
      BY <1>4 DEF executeOpcode, UnaryArithmetic, BinaryArithmetic, Comparisons
    <2> QED BY <1>1, <1>2, <2>1, <2>2
  <1>5. CASE op \in Comparisons
    <2>1. \A n : Numeric(op, n) = PushBool(Compares(op, n[1], n[2]))
      BY <1>5 DEF Numeric, UnaryArithmetic, BinaryArithmetic, Comparisons
    <2>2. executeOpcode(op, args) =
              IF \E k \in DOMAIN args : ~isNumber(args[k]) THEN Throws
              ELSE Numeric(op, [k \in DOMAIN args |-> toInt(args[k])])
      BY <1>5 DEF executeOpcode, UnaryArithmetic, BinaryArithmetic, Comparisons
    <2> QED BY <1>1, <1>2, <2>1, <2>2
  <1>6. CASE op = "NUM2BIN"
    <2>1. \A n : Numeric(op, n) \in {Throws, Leaves(<<NumToBinBytes(n[1], n[2])>>)}
      BY <1>6 DEF Numeric, UnaryArithmetic, BinaryArithmetic, Comparisons
    <2>2. executeOpcode(op, args) =
              IF \E k \in DOMAIN args : ~isNumber(args[k]) THEN Throws
              ELSE Numeric(op, [k \in DOMAIN args |-> toInt(args[k])])
      BY <1>6 DEF executeOpcode, UnaryArithmetic, BinaryArithmetic, Comparisons
    <2> QED BY <1>1, <2>1, <2>2
  <1>7. CASE op \in {"EQUAL", "NOT", "0NOTEQUAL", "VERIFY"}
    <2>1. executeOpcode(op, args) = BooleanOpcode(op, args)
      BY <1>7 DEF executeOpcode, UnaryArithmetic, BinaryArithmetic, Comparisons
    <2>2. \/ \E b : BooleanOpcode(op, args) = PushBool(b)
          \/ BooleanOpcode(op, args) \in {Throws, Leaves(<<>>)}
      BY <1>7 DEF BooleanOpcode
    <2> QED BY <1>1, <1>2, <2>1, <2>2
  <1>8. CASE op \in {"CAT", "SPLIT", "BIN2NUM", "SIZE"}
    <2>1. executeOpcode(op, args) = ByteOpcode(op, args)
      BY <1>8 DEF executeOpcode, UnaryArithmetic, BinaryArithmetic, Comparisons
    <2>2. \/ \E x, y : ByteOpcode(op, args) \in {Throws, Leaves(<<x>>), Leaves(<<x, y>>)}
          \/ \E v : ByteOpcode(op, args) = PushInt(v)
      BY <1>8 DEF ByteOpcode, Split
    <2> QED BY <1>1, <1>2, <2>1, <2>2
  <1>9. CASE op = "NIP"
    <2>1. executeOpcode(op, args) = Leaves(<<args[2]>>)
      BY <1>9 DEF executeOpcode, UnaryArithmetic, BinaryArithmetic, Comparisons
    <2> QED BY <1>1, <2>1
  <1> QED BY <1>3, <1>4, <1>5, <1>6, <1>7, <1>8, <1>9 DEF Opcodes

(* What one or two opcodes leave is a sequence.                            *)
LEMMA OpcodesLeave ==
    ASSUME NEW ops \in Seq(Opcodes), NEW args, Len(args) \in Nat
    PROVE  Len(ExecuteOpcodes(ops, args).items) \in Nat
  <1>1. Len(Leaves(args).items) \in Nat
    BY DEF Leaves
  <1>2. \A i \in 1..Len(ops) : \A r : Len(executeOpcode(ops[i], r.items).items) \in Nat
    BY OpcodeLeaves
  <1> QED BY <1>1, <1>2 DEF ExecuteOpcodes

(* What visitOperator emits leaves a sequence, an operand that is not      *)
(* emitted included.                                                       *)
LEMMA CodeLeaves ==
    ASSUME NEW op \in Operators, NEW x, NEW y, NEW code \in EmittedOperator(op, x, y)
    PROVE  Len(ExecuteOpcodes(code.ops, code.args).items) \in Nat
  <1> DEFINE Fits(c) == c.ops \in Seq(Opcodes) /\ Len(c.args) \in Nat
  <1>1. \A ops \in Seq(Opcodes) :
            \A z, w : Fits(Emitted(ops, <<z>>)) /\ Fits(Emitted(ops, <<z, w>>))
    <2>1. \A z : /\ DOMAIN [k \in DOMAIN <<z>> |-> <<z>>[k].bytes] = 1..1
                 /\ Len([k \in DOMAIN <<z>> |-> <<z>>[k].bytes]) = 1
      OBVIOUS
    <2>2. \A z, w : /\ DOMAIN [k \in DOMAIN <<z, w>> |-> <<z, w>>[k].bytes] = 1..2
                    /\ Len([k \in DOMAIN <<z, w>> |-> <<z, w>>[k].bytes]) = 2
      OBVIOUS
    <2> QED BY <2>1, <2>2 DEF Emitted
  <1>2. \A z : Fits(Unchanged(z))
    <2>1. <<>> \in Seq(Opcodes)
      BY EmptySeq
    <2> QED BY <2>1 DEF Unchanged
  <1>3. op \in DOMAIN operatorMap
    BY OperatorsAssumption
  <1>4. operatorMap[op] \in Seq(Opcodes)
    BY <1>3, OperatorOpcodes
  <1>5. <<"1ADD">> \in Seq(Opcodes) /\ <<"1SUB">> \in Seq(Opcodes)
        /\ <<"NEGATE">> \in Seq(Opcodes)
    BY ShortLists DEF Opcodes, UnaryArithmetic
  <1>6. HasIdentity(op, x, y) =>
            Identity(op, x, y) \in
                {Emitted(<<"1ADD">>, <<x>>), Emitted(<<"1SUB">>, <<x>>),
                 Emitted(<<"1ADD">>, <<y>>), Unchanged(x), Unchanged(y),
                 Emitted(<<"NEGATE">>, <<y>>)}
    BY DEF HasIdentity, Identity
  <1>7. \/ code = Identity(op, x, y) /\ HasIdentity(op, x, y)
        \/ code \in {Emitted(operatorMap[op], <<x, y>>), Emitted(operatorMap[op], <<y, x>>)}
    BY DEF EmittedOperator
  <1> HIDE DEF Fits
  <1>8. Fits(code)
    BY <1>1, <1>2, <1>4, <1>5, <1>6, <1>7
  <1> QED BY <1>8, OpcodesLeave DEF Fits

(* The two opcodes that cut a value leave a sequence.                      *)
LEMMA SplitLeaves ==
    ASSUME NEW x, NEW n, NEW op \in {"DROP", "NIP"}
    PROVE  Len(ExecuteOpcodes(<<"SPLIT", op>>, <<x, n>>).items) \in Nat
  <1> DEFINE r == executeOpcode("SPLIT", <<x, n>>)
  <1>1. r = Split(x, toInt(n))
    BY DEF executeOpcode, ByteOpcode, UnaryArithmetic, BinaryArithmetic, Comparisons
  <1>2. r = Throws \/ \E v, w : r = Leaves(<<v, w>>)
    BY <1>1 DEF Split
  <1> HIDE DEF r
  <1>3. ExecuteOpcodes(<<"SPLIT", op>>, <<x, n>>) =
            IF r.ok THEN executeOpcode(op, r.items) ELSE r
    BY DEF ExecuteOpcodes, Leaves, r
  <1>4. \A v, w : Len(executeOpcode(op, <<v, w>>).items) \in Nat
    <2>1. CASE op = "DROP"
      <3>1. \A v, w : executeOpcode(op, <<v, w>>) = Leaves(Front(<<v, w>>))
        BY <2>1 DEF executeOpcode, UnaryArithmetic, BinaryArithmetic, Comparisons
      <3>2. \A v, w : Len(Front(<<v, w>>)) \in Nat
        BY DEF Front
      <3>3. \A s : Leaves(s).items = s
        BY DEF Leaves
      <3>4. ASSUME NEW v, NEW w PROVE Len(executeOpcode(op, <<v, w>>).items) \in Nat
        <4>1. executeOpcode(op, <<v, w>>).items = Front(<<v, w>>)
          BY <3>1, <3>3
        <4> QED BY <3>2, <4>1
      <3> QED BY <3>4
    <2>2. CASE op = "NIP"
      BY <2>2, OpcodeLeaves DEF Opcodes
    <2> QED BY <2>1, <2>2
  <1> QED BY <1>2, <1>3, <1>4 DEF Throws, Leaves

(* What processSliceBuiltin emits leaves a sequence.                       *)
LEMMA SliceLeaves ==
    ASSUME NEW object, NEW start, NEW length
    PROVE  Len(ExecuteSlice(object, start, length).items) \in Nat
  <1>1. \A x, n : /\ Len(ExecuteOpcodes(<<"SPLIT", "DROP">>, <<x, n>>).items) \in Nat
                  /\ Len(ExecuteOpcodes(<<"SPLIT", "NIP">>, <<x, n>>).items) \in Nat
    BY SplitLeaves
  <1> QED BY <1>1 DEF ExecuteSlice

(* What a call emits leaves a sequence, whichever way its arguments lie.   *)
LEMMA CallLeaves ==
    ASSUME NEW name \in FunctionNames, NEW args, Len(args) \in Nat,
           DOMAIN args = 1..Len(args), NEW machine \in ExecuteCall(name, args)
    PROVE  Len(machine.items) \in Nat
  <1> DEFINE f == opCreators[name]
             bytes == [k \in DOMAIN args |-> args[k].bytes]
  <1>1. f.ops \in Seq(Opcodes)
    BY FunctionsAssumption, FunctionOpcodes DEF TakesOpcodes
  <1>2. Len(bytes) \in Nat /\ Len(Reverse(bytes)) \in Nat
    BY DEF Reverse
  <1>3. machine \in {ExecuteSlice(args[1], args[2], args[3]), ExecuteOpcodes(f.ops, bytes),
                     ExecuteOpcodes(f.ops, Reverse(bytes))}
    BY DEF ExecuteCall
  <1> QED BY <1>1, <1>2, <1>3, SliceLeaves, OpcodesLeave
-----------------------------------------------------------------------------
(* Every step keeps what the compiler knows of the operands a machine      *)
(* integer.                                                                *)
LEMMA KnownStep ==
    ASSUME KnownItems, [Next]_vars PROVE KnownItems'
  <1>1. PICK S : items \in Seq(S) /\ \A x \in S : IsKnown(x)
    BY DEF KnownItems
  <1>2. UNCHANGED items => KnownItems'
    BY DEF KnownItems, IsKnown
  <1>3. ASSUME NEW v \in 0..SignBit, Write(v) PROVE KnownItems'
    <2>1. CASE v \in Signed
      <3>1. items' = Append(items, LiteralOperand(v, fromInt(v)))
        BY <1>3, <2>1 DEF Write
      <3>2. IsKnown(LiteralOperand(v, fromInt(v)))
        BY <2>1, OperandIsKnown DEF LiteralOperand
      <3> QED BY <1>1, <3>1, <3>2, KnownAppend
    <2>2. CASE v \notin Signed
      BY <1>2, <1>3, <2>2 DEF Write
    <2> QED BY <2>1, <2>2
  <1>4. ASSUME NEW b \in Arguments, Parameter(b) PROVE KnownItems'
    <2>1. items' = Append(items, Operand(b, fromBytes(b), NoNumber))
      BY <1>4 DEF Parameter
    <2> QED BY <1>1, <2>1, OperandIsKnown, KnownAppend
  <1>5. ASSUME Minus PROVE KnownItems'
    <2> DEFINE v == Last(items).known
    <2>1. items # <<>> /\ v # NoNumber
      BY <1>5 DEF Minus, isLiteral
    <2>2. Last(items) \in S
      BY <1>1, <2>1 DEF Last
    <2>3. v \in Signed
      BY <1>1, <2>1, <2>2 DEF IsKnown
    <2>4. CASE v = Least
      BY <1>2, <1>5, <2>4 DEF Minus
    <2>5. CASE v # Least
      <3>1. items' = Append(Front(items), LiteralOperand(-v, fromInt(-v)))
        BY <1>5, <2>5 DEF Minus
      <3>2. -v \in Signed
        BY <2>3, <2>5, ModulusPositive DEF Signed, Least
      <3>3. IsKnown(LiteralOperand(-v, fromInt(-v)))
        BY <3>2, OperandIsKnown DEF LiteralOperand
      <3>4. Front(items) \in Seq(S)
        BY <1>1, <2>1 DEF Front
      <3> QED BY <1>1, <3>1, <3>3, <3>4, KnownAppend
    <2> QED BY <2>4, <2>5
  <1>6. ASSUME NEW op \in Operators, FoldOperator(op) PROVE KnownItems'
    <2>1. PICK v, value :
              \/ UNCHANGED items
              \/ /\ v # NoNumber
                 /\ v = evaluateOperator(op, items[Len(items) - 1].known, Last(items).known)
                 /\ items' = Append(SubSeq(items, 1, Len(items) - 2), LiteralOperand(v, value))
      BY <1>6 DEF FoldOperator
    <2>2. CASE UNCHANGED items
      BY <1>2, <2>2
    <2>3. CASE ~UNCHANGED items
      <3>1. v \in Signed
        BY <1>1, <1>6, <2>1, <2>3, FoldedIsExact DEF IsFolded
      <3>2. IsKnown(LiteralOperand(v, value))
        BY <3>1, OperandIsKnown DEF LiteralOperand
      <3>3. SubSeq(items, 1, Len(items) - 2) \in Seq(S)
        BY <1>1, <1>6 DEF FoldOperator
      <3> QED BY <1>1, <2>1, <2>3, <3>2, <3>3, KnownAppend
    <2> QED BY <2>2, <2>3
  <1>7. ASSUME NEW op \in Operators, EmitOperator(op) PROVE KnownItems'
    <2>1. PICK machine, interpreter :
              /\ Len(items) >= 2
              /\ Len(machine.items) \in Nat
              /\ Finish(2, machine, interpreter, <<>>)
      <3> DEFINE x == items[Len(items) - 1]
                 y == Last(items)
      <3>1. Len(items) >= 2
        BY <1>7 DEF EmitOperator
      <3>2. PICK code \in EmittedOperator(op, x, y) :
                Finish(2, ExecuteOpcodes(code.ops, code.args),
                       evalOp(op, x.value, y.value), <<>>)
        BY <1>7 DEF EmitOperator
      <3>3. Len(ExecuteOpcodes(code.ops, code.args).items) \in Nat
        BY <3>2, CodeLeaves
      <3> QED BY <3>1, <3>2, <3>3
    <2> QED BY <2>1, KnownFinish
  <1>8. ASSUME NEW name \in FunctionNames, Call(name) PROVE KnownItems'
    <2> DEFINE arity == opCreators[name].arity
               args  == SubSeq(items, Len(items) - arity + 1, Len(items))
               value == [k \in DOMAIN args |-> args[k].value]
               left  == IF name = "Size" THEN value ELSE <<>>
    <2>1. Len(items) >= arity /\ arity \in 1..3
      BY <1>8, FunctionsAssumption, FunctionOpcodes DEF Call, TakesOpcodes
    <2>2. \/ UNCHANGED items
          \/ \E machine \in ExecuteCall(name, args) :
                 Finish(arity, machine, callFunction(name, value), left)
      BY <1>8 DEF Call
    <2> HIDE DEF arity
    <2>3. Len(args) \in Nat /\ DOMAIN args = 1..Len(args)
      BY <1>1, <2>1
    <2> HIDE DEF args, value, left
    <2>4. ASSUME NEW machine \in ExecuteCall(name, args),
                 Finish(arity, machine, callFunction(name, value), left)
          PROVE  KnownItems'
      <3>1. Len(machine.items) \in Nat
        BY <2>3, CallLeaves
      <3> QED BY <2>1, <2>4, <3>1, KnownFinish
    <2> QED BY <1>2, <2>2, <2>4
  <1> QED BY <1>2, <1>3, <1>4, <1>5, <1>6, <1>7, <1>8 DEF Next, vars

(* A step that folds takes its result from the last two operands.          *)
LEMMA FoldStep ==
    ASSUME KnownItems, NEW op \in Operators, FoldOperator(op), outcome = "running"
    PROVE  LET exact == Exact(op, items[Len(items) - 1].known, Last(items).known)
           IN  IF exact \intersect Signed = {} THEN outcome' = "rejected"
               ELSE outcome' = "running" /\ exact = {Last(items').known}
  <1>1. PICK S : items \in Seq(S) /\ \A x \in S : IsKnown(x)
    BY DEF KnownItems
  <1> DEFINE a == items[Len(items) - 1].known
             b == Last(items).known
             v == evaluateOperator(op, a, b)
  <1>2. IsFolded(op, a, b, v)
    BY <1>1, FoldedIsExact
  <1>3. CASE v = NoNumber
    BY <1>2, <1>3 DEF FoldOperator, IsFolded
  <1>4. CASE v # NoNumber
    <2>1. PICK value :
              /\ items' = Append(SubSeq(items, 1, Len(items) - 2), LiteralOperand(v, value))
              /\ outcome' = outcome
      BY <1>4 DEF FoldOperator
    <2>2. SubSeq(items, 1, Len(items) - 2) \in Seq(S)
      BY <1>1 DEF FoldOperator
    <2>3. Last(items') = LiteralOperand(v, value)
      BY <2>1, <2>2 DEF Last
    <2>4. LiteralOperand(v, value).known = v
      BY DEF LiteralOperand, Operand
    <2>5. Exact(op, a, b) = {v} /\ v \in Signed
      BY <1>2, <1>4 DEF IsFolded
    <2> QED BY <2>1, <2>3, <2>4, <2>5
  <1> QED BY <1>3, <1>4

(* The folder refuses or replaces two literals exactly: for machine words of*)
(* any width, no check of it overflows at the bounds.                      *)
THEOREM FoldingExact == Spec => FoldingIsExact
  <1>1. Init => KnownItems
    <2>1. <<>> \in Seq({}) /\ \A x \in {} : IsKnown(x)
      BY EmptySeq
    <2> QED BY <2>1 DEF Init, KnownItems
  <1>2. KnownItems /\ [Next]_vars => KnownItems'
    BY KnownStep
  <1>3. KnownItems /\ [Next]_vars =>
            [\A op \in Operators :
                FoldOperator(op) =>
                    LET exact == Exact(op, items[Len(items) - 1].known, Last(items).known)
                    IN  IF exact \intersect Signed = {} THEN outcome' = "rejected"
                        ELSE outcome' = "running" /\ exact = {Last(items').known}]_vars
    <2> SUFFICES ASSUME KnownItems, [Next]_vars, ~UNCHANGED vars,
                        NEW op \in Operators, FoldOperator(op)
                 PROVE  LET exact == Exact(op, items[Len(items) - 1].known, Last(items).known)
                        IN  IF exact \intersect Signed = {} THEN outcome' = "rejected"
                            ELSE outcome' = "running" /\ exact = {Last(items').known}
      OBVIOUS
    <2>1. outcome = "running"
      BY DEF Next, vars, FoldOperator
    <2> QED BY <2>1, FoldStep
  <1> QED BY <1>1, <1>2, <1>3, PTL DEF Spec, FoldingIsExact

(* Every loop a program unrolls takes the values its range says.           *)
THEOREM LoopsExact == Spec => []RangesAreExact
  <1>1. Init => RangeInit
    BY DEF Init
  <1>2. [Next]_vars => [RangeNext]_loop
    BY DEF Next, vars, Write, Parameter, Minus, FoldOperator, EmitOperator, Call
  <1>3. Spec => RangeSpec
    BY <1>1, <1>2, PTL DEF Spec, RangeSpec
  <1> QED BY <1>3, RangesExact, PTL
-----------------------------------------------------------------------------
(* An operand's bytes on the machine's stack are those of the              *)
(* interpreter's value, and a literal is the number it is known to be.     *)
Agrees(x) ==
    /\ x.bytes \in Seq(Byte)
    /\ \/ /\ x.value.type = "Bytes"
          /\ x.value.bytes = x.bytes
       \/ /\ x.value.type # "Bytes"
          /\ x.value.number \in Signed
          /\ x.bytes = serializeScriptNum(x.value.number)
    /\ isLiteral(x) => x.value.type # "Bytes" /\ x.value.number = x.known

(* What the machine leaves is what the interpreter returns.                *)
Matches(machine, interpreter, left) ==
    /\ machine.ok = interpreter.ok
    /\ Len(machine.items) \in Nat
    /\ LET values == left \o interpreter.values
       IN  machine.ok => \A k \in 1..Len(machine.items) :
                             Agrees(Operand(machine.items[k], values[k], NoNumber))

(* Both sides read the same of an operand, where the machine can read it.  *)
LEMMA ReadAlike ==
    ASSUME NEW x, Agrees(x)
    PROVE  /\ toScriptBytes(x.value) = x.bytes
           /\ toInt(x.bytes) \in Signed \union {NoNumber}
           /\ isNumber(x.bytes) => toInt(x.bytes) \in Signed
           /\ ~TooWide(x) => toScriptNum(x.value) = toInt(x.bytes)
           /\ isLiteral(x) => x.known \in Signed /\ x.bytes = serializeScriptNum(x.known)
           /\ isLiteral(x) /\ ~TooWide(x) => isNumber(x.bytes) /\ toInt(x.bytes) = x.known
  <1>1. toScriptBytes(x.value) = x.bytes
    BY DEF Agrees, toScriptBytes
  <1>2. toInt(x.bytes) \in Signed \union {NoNumber}
    BY ToIntIsSigned DEF Agrees
  <1>3. isLiteral(x) => x.known \in Signed /\ x.bytes = serializeScriptNum(x.known)
    BY DEF Agrees
  <1>4. ASSUME ~TooWide(x) PROVE toScriptNum(x.value) = toInt(x.bytes)
    <2>1. CASE x.value.type = "Bytes"
      BY <2>1 DEF Agrees, toScriptNum
    <2>2. CASE x.value.type # "Bytes"
      <3>1. isNumber(x.bytes) /\ x.value.number \in Signed
            /\ x.bytes = serializeScriptNum(x.value.number)
        BY <1>4, <2>2 DEF TooWide, Agrees
      <3>2. toInt(x.bytes) = x.value.number
        BY <3>1, SerializedIsRead
      <3> QED BY <2>2, <3>2 DEF toScriptNum
    <2> QED BY <2>1, <2>2
  <1>5. ASSUME isLiteral(x), ~TooWide(x) PROVE isNumber(x.bytes) /\ toInt(x.bytes) = x.known
    <2>1. isNumber(x.bytes)
      BY <1>5 DEF TooWide, Agrees
    <2>2. toInt(x.bytes) = x.known
      BY <1>3, <1>5, <2>1, SerializedIsRead
    <2> QED BY <2>1, <2>2
  <1> QED BY <1>1, <1>2, <1>3, <1>4, <1>5 DEF isNumber

(* The pairs of results that match.                                        *)
LEMMA OperandAgrees ==
    /\ \A b \in Seq(Byte) : Agrees(Operand(b, fromBytes(b), NoNumber))
    /\ \A v \in Signed : /\ Agrees(Operand(serializeScriptNum(v), fromInt(v), NoNumber))
                         /\ Agrees(LiteralOperand(v, fromInt(v)))
    /\ \A x : Agrees(Operand(serializeScriptNum(Truth(x)), fromBool(x), NoNumber))
    /\ \A x : Agrees(x) => Agrees(Operand(x.bytes, x.value, NoNumber))
  <1>1. \A b, w, k : /\ Operand(b, w, k).bytes = b /\ Operand(b, w, k).value = w
                     /\ isLiteral(Operand(b, w, k)) <=> k # NoNumber
                     /\ Operand(b, w, k).known = k
    BY DEF Operand, isLiteral
  <1>2. \A b : fromBytes(b).type = "Bytes" /\ fromBytes(b).bytes = b
    BY DEF fromBytes, Scalar
  <1>3. \A v : fromInt(v).type # "Bytes" /\ fromInt(v).number = v
    BY DEF fromInt, Scalar
  <1>4. \A x : fromBool(x).type # "Bytes" /\ fromBool(x).number = Truth(x)
    BY DEF fromBool, Scalar, Truth
  <1>5. \A v \in Signed : serializeScriptNum(v) \in Seq(Byte)
    BY SerializedIsRead
  <1>6. \A x : Truth(x) \in Signed
    BY TruthIsRead
  <1>7. \A b \in Seq(Byte) : Agrees(Operand(b, fromBytes(b), NoNumber))
    BY <1>1, <1>2 DEF Agrees
  <1>8. \A v \in Signed : \A k \in {v, NoNumber} :
            Agrees(Operand(serializeScriptNum(v), fromInt(v), k))
    BY <1>1, <1>3, <1>5 DEF Agrees
  <1>9. \A x : Agrees(Operand(serializeScriptNum(Truth(x)), fromBool(x), NoNumber))
    BY <1>1, <1>4, <1>5, <1>6 DEF Agrees
  <1>10. \A x : Agrees(x) => Agrees(Operand(x.bytes, x.value, NoNumber))
    BY <1>1 DEF Agrees
  <1> QED BY <1>7, <1>8, <1>9, <1>10 DEF LiteralOperand

(* The pairs of outcomes of an opcode and of an interpreter function that  *)
(* match: both fail, both return nothing, or both return what is read      *)
(* alike.                                                                  *)
LEMMA MatchingPairs ==
    /\ \A left : Matches(Throws, Raises, left)
    /\ Matches(Leaves(<<>>), ReturnsVoid, <<>>)
    /\ \A b \in Seq(Byte) : Matches(Leaves(<<b>>), Returns(fromBytes(b)), <<>>)
    /\ \A v \in Signed : /\ Matches(PushInt(v), Returns(fromInt(v)), <<>>)
                         /\ Matches(Leaves(<<serializeScriptNum(v)>>), Returns(fromInt(v)), <<>>)
    /\ \A x : Matches(PushBool(x), Returns(fromBool(x)), <<>>)
    /\ \A x : \A v \in Signed : Agrees(x) =>
           Matches(Leaves(<<x.bytes, serializeScriptNum(v)>>), Returns(fromInt(v)), <<x.value>>)
  <1>1. /\ Throws.ok = FALSE /\ Throws.items = <<>> /\ Raises.ok = FALSE
        /\ \A s : Leaves(s).ok = TRUE /\ Leaves(s).items = s
        /\ \A w : Returns(w).ok = TRUE /\ Returns(w).values = <<w>>
        /\ ReturnsVoid.ok = TRUE
    BY DEF Throws, Raises, Leaves, Returns, ReturnsVoid
  <1>2. Len(<<>>) = 0
    BY EmptySeq
  <1>3. \A left : Matches(Throws, Raises, left)
    BY <1>1, <1>2 DEF Matches
  <1>4. Matches(Leaves(<<>>), ReturnsVoid, <<>>)
    <2>1. \A k : k \notin 1..0
      OBVIOUS
    <2> DEFINE machine == Leaves(<<>>)
               interpreter == ReturnsVoid
    <2>2. machine.ok = TRUE /\ interpreter.ok = TRUE /\ Len(machine.items) = 0
      BY <1>1, <1>2
    <2> HIDE DEF machine, interpreter
    <2>3. \A values : \A k \in 1..Len(machine.items) :
              Agrees(Operand(machine.items[k], values[k], NoNumber))
      BY <2>1, <2>2
    <2>4. Len(machine.items) \in Nat
      BY <2>2
    <2>5. Matches(machine, interpreter, <<>>)
      BY <2>2, <2>3, <2>4 DEF Matches
    <2> QED BY <2>5 DEF machine, interpreter
  <1>5. ASSUME NEW b, NEW w, Agrees(Operand(b, w, NoNumber))
        PROVE  Matches(Leaves(<<b>>), Returns(w), <<>>)
    <2>1. Leaves(<<b>>).items = <<b>> /\ Len(<<b>>) = 1 /\ <<b>>[1] = b
      BY <1>1
    <2>2. (<<>> \o Returns(w).values)[1] = w
      <3>1. <<>> \o <<w>> = <<w>>
        OBVIOUS
      <3> QED BY <1>1, <3>1
    <2>3. \A k \in 1..1 : k = 1
      OBVIOUS
    <2> QED BY <1>1, <1>5, <2>1, <2>2, <2>3 DEF Matches
  <1>6. ASSUME NEW x, NEW v \in Signed, Agrees(x)
        PROVE  Matches(Leaves(<<x.bytes, serializeScriptNum(v)>>), Returns(fromInt(v)), <<x.value>>)
    <2> DEFINE s == <<x.bytes, serializeScriptNum(v)>>
               w == <<x.value>> \o Returns(fromInt(v)).values
    <2>1. Leaves(s).items = s /\ Len(s) = 2 /\ s[1] = x.bytes /\ s[2] = serializeScriptNum(v)
      BY <1>1
    <2>2. w[1] = x.value /\ w[2] = fromInt(v)
      <3> DEFINE S == {x.value, fromInt(v)}
                 f == <<x.value>>
                 g == <<fromInt(v)>>
      <3>1. f \in Seq(S) /\ g \in Seq(S) /\ Len(f) = 1 /\ Len(g) = 1
            /\ f[1] = x.value /\ g[1] = fromInt(v)
        OBVIOUS
      <3>2. w = f \o g
        BY <1>1
      <3> HIDE DEF S, f, g, w
      <3>3. \A i \in 1..Len(f) + Len(g) : w[i] = IF i <= Len(f) THEN f[i] ELSE g[i - Len(f)]
        BY <3>1, <3>2, ConcatProperties
      <3> QED BY <3>1, <3>3
    <2>3. \A k \in 1..2 : k = 1 \/ k = 2
      OBVIOUS
    <2>4. Agrees(Operand(s[1], w[1], NoNumber)) /\ Agrees(Operand(s[2], w[2], NoNumber))
      BY <1>6, <2>1, <2>2, OperandAgrees
    <2> HIDE DEF s
    <2>5. \A k \in 1..Len(s) : Agrees(Operand(s[k], w[k], NoNumber))
      BY <2>1, <2>3, <2>4
    <2> DEFINE machine == Leaves(s)
               interpreter == Returns(fromInt(v))
    <2>6. machine.ok = TRUE /\ machine.items = s /\ interpreter.ok = TRUE /\ Len(s) \in Nat
      BY <1>1, <2>1
    <2>7. \A k \in 1..Len(s) :
              Agrees(Operand(s[k], (<<x.value>> \o interpreter.values)[k], NoNumber))
      BY <2>5
    <2> HIDE DEF machine, interpreter, w
    <2>8. Matches(machine, interpreter, <<x.value>>)
      BY <2>6, <2>7 DEF Matches
    <2> QED BY <2>8 DEF s, machine, interpreter
  <1>7. \A x : PushBool(x) = Leaves(<<serializeScriptNum(Truth(x))>>)
    BY DEF PushBool, PushInt, Truth
  <1> QED BY <1>3, <1>4, <1>5, <1>6, <1>7, OperandAgrees DEF PushInt

(* ASTInterpreter::evalOp on the values of two operands.                   *)
LEMMA EvalOpReads ==
    ASSUME NEW x, NEW y, Agrees(x), Agrees(y), ~TooWide(x), ~TooWide(y)
    PROVE  LET a == toInt(x.bytes)
               b == toInt(y.bytes)
           IN  /\ \A op \in {"+", "-", "*", "/", "<", ">", "<=", ">="} :
                      evalOp(op, x.value, y.value) =
                          IF a = NoNumber \/ b = NoNumber \/ (op = "/" /\ ~Divides(a, b))
                          THEN Raises ELSE Returns(OperatorValue(op, a, b))
               /\ evalOp("==", x.value, y.value) = Returns(fromBool(x.bytes = y.bytes))
               /\ evalOp("!=", x.value, y.value) = Returns(fromBool(x.bytes # y.bytes))
  <1>1. /\ toScriptBytes(x.value) = x.bytes /\ toScriptBytes(y.value) = y.bytes
        /\ toScriptNum(x.value) = toInt(x.bytes) /\ toScriptNum(y.value) = toInt(y.bytes)
    BY ReadAlike
  <1>2. evalOp("==", x.value, y.value) = Returns(fromBool(x.bytes = y.bytes))
    BY <1>1 DEF evalOp
  <1>3. evalOp("!=", x.value, y.value) = Returns(fromBool(x.bytes # y.bytes))
    BY <1>1 DEF evalOp
  <1>4. ASSUME NEW op \in {"+", "-", "*", "/", "<", ">", "<=", ">="}
        PROVE  evalOp(op, x.value, y.value) =
                   IF \/ toInt(x.bytes) = NoNumber \/ toInt(y.bytes) = NoNumber
                      \/ op = "/" /\ ~Divides(toInt(x.bytes), toInt(y.bytes))
                   THEN Raises ELSE Returns(OperatorValue(op, toInt(x.bytes), toInt(y.bytes)))
    <2>1. op # "==" /\ op # "!="
      OBVIOUS
    <2> QED BY <1>1, <2>1 DEF evalOp
  <1> QED BY <1>2, <1>3, <1>4

(* g_operatorMap, entry by entry.                                          *)
LEMMA OperatorMapIs ==
    /\ operatorMap["+"] = <<"ADD">> /\ operatorMap["-"] = <<"SUB">>
    /\ operatorMap["*"] = <<"MUL">> /\ operatorMap["/"] = <<"DIV">>
    /\ operatorMap["=="] = <<"EQUAL">> /\ operatorMap["!="] = <<"EQUAL", "NOT">>
    /\ operatorMap["<"] = <<"LESSTHAN">> /\ operatorMap[">"] = <<"GREATERTHAN">>
    /\ operatorMap["<="] = <<"LESSTHANOREQUAL">>
    /\ operatorMap[">="] = <<"GREATERTHANOREQUAL">>
  BY DEF operatorMap

(* A division the machine does has a machine integer for its quotient and  *)
(* for its remainder.                                                      *)
LEMMA DivisionFits ==
    ASSUME NEW a \in Signed, NEW b \in Signed, Divides(a, b)
    PROVE  Quotient(a, b) \in Signed /\ Remainder(a, b) \in Signed
  <1>1. b # 0 /\ a \in Int /\ b \in Int
    BY DEF Divides, Signed
  <1>2. Quotient(a, b) \in Signed
    BY <1>1, QuotientInWord
  <1>3. IsQuotient(a, b, Quotient(a, b))
    <2>1. Quotient(a, b) \in Int /\ b \in Int \ {0}
      BY <1>1, <1>2 DEF Signed
    <2> QED BY <1>1, <2>1, QuotientIsExact
  <1>4. Remainder(a, b) \in Signed
    <2> DEFINE r == Remainder(a, b)
    <2>1. Magnitude(r) < Magnitude(b)
      BY <1>3 DEF IsQuotient, Remainder
    <2>2. r \in Int
      <3>1. \A p, q, u \in Int : p - q * u \in Int
        BY SMT
      <3>2. Quotient(a, b) \in Int
        BY <1>2 DEF Signed
      <3> QED BY <1>1, <3>1, <3>2 DEF Remainder
    <2>3. b \in -SignBit..SignBit
      BY ModulusPositive DEF Signed
    <2> HIDE DEF r
    <2> QED BY <2>1, <2>2, <2>3, ModulusPositive DEF Magnitude, Signed, r
  <1> QED BY <1>2, <1>4

(* An operator that is emitted.                                            *)
LEMMA OperatorMatches ==
    ASSUME NEW op \in DOMAIN operatorMap, NEW x, NEW y, Agrees(x), Agrees(y),
           ~TooWide(x), ~TooWide(y)
    PROVE  Matches(ExecuteOpcodes(operatorMap[op], <<x.bytes, y.bytes>>),
                   evalOp(op, x.value, y.value), <<>>)
  <1> DEFINE p == x.bytes
             q == y.bytes
             a == toInt(p)
             b == toInt(q)
             machine == ExecuteOpcodes(operatorMap[op], <<p, q>>)
             interpreter == evalOp(op, x.value, y.value)
  <1> SUFFICES Matches(machine, interpreter, <<>>)
    OBVIOUS
  <1>1. op \in {"+", "-", "*", "/", "==", "!=", "<", ">", "<=", ">="}
    BY DEF operatorMap
  <1>2. (isNumber(p) => a \in Signed /\ a \in Int) /\ (isNumber(q) => b \in Signed /\ b \in Int)
        /\ (isNumber(p) <=> a # NoNumber) /\ (isNumber(q) <=> b # NoNumber)
    BY ReadAlike DEF isNumber, Signed
  <1>3. \A opcode : operatorMap[op] = <<opcode>> => machine = executeOpcode(opcode, <<p, q>>)
    BY OneAfterAnother
  <1>4. ASSUME NEW opcode \in BinaryArithmetic \union Comparisons, NEW pushed, NEW value,
               op \in {"+", "-", "*", "/", "<", ">", "<=", ">="},
               operatorMap[op] = <<opcode>>,
               isNumber(p), isNumber(q) ,
               op = "/" => Divides(a, b),
               Numeric(opcode, <<a, b>>) = pushed,
               OperatorValue(op, a, b) = value,
               Matches(pushed, Returns(value), <<>>)
        PROVE  Matches(machine, interpreter, <<>>)
    <2>1. machine = Numeric(opcode, <<a, b>>)
      BY <1>3, <1>4, TwoNumbers
    <2>2. interpreter = Returns(OperatorValue(op, a, b))
      BY <1>2, <1>4, EvalOpReads
    <2> QED BY <1>4, <2>1, <2>2
  <1>5. ASSUME NEW opcode \in BinaryArithmetic \union Comparisons,
               op \in {"+", "-", "*", "/", "<", ">", "<=", ">="},
               operatorMap[op] = <<opcode>>,
               ~(isNumber(p) /\ isNumber(q))
        PROVE  Matches(machine, interpreter, <<>>)
    <2>1. machine = Throws
      BY <1>3, <1>5, TwoNumbers
    <2>2. interpreter = Raises
      BY <1>2, <1>5, EvalOpReads
    <2> QED BY <2>1, <2>2, MatchingPairs
  <1>6. {"ADD", "SUB", "MUL", "DIV"} \subseteq BinaryArithmetic
        /\ {"LESSTHAN", "GREATERTHAN", "LESSTHANOREQUAL", "GREATERTHANOREQUAL"} \subseteq Comparisons
    BY DEF BinaryArithmetic, Comparisons
  <1>7. isNumber(p) /\ isNumber(q) =>
            /\ ToWord(a + b) \in Signed /\ ToWord(a - b) \in Signed /\ ToWord(a * b) \in Signed
    <2>1. \A i, j \in Int : i + j \in Int /\ i - j \in Int /\ i * j \in Int
      BY SMT
    <2>2. \A i \in Signed : i \in Int
      BY DEF Signed
    <2> QED BY <1>2, <2>1, <2>2, WordIsSigned
  <1>8. isNumber(p) /\ isNumber(q) /\ Divides(a, b) =>
            Quotient(a, b) \in Signed /\ ToWord(Quotient(a, b)) = Quotient(a, b)
    BY <1>2, DivisionFits, WordOfSigned
  <1>9. /\ OperatorValue("+", a, b) = fromInt(ToWord(a + b))
        /\ OperatorValue("-", a, b) = fromInt(ToWord(a - b))
        /\ OperatorValue("*", a, b) = fromInt(ToWord(a * b))
        /\ OperatorValue("/", a, b) = fromInt(Quotient(a, b))
        /\ OperatorValue("<", a, b) = fromBool(a < b)
        /\ OperatorValue(">", a, b) = fromBool(a > b)
        /\ OperatorValue("<=", a, b) = fromBool(a <= b)
        /\ OperatorValue(">=", a, b) = fromBool(a >= b)
    BY DEF OperatorValue
  <1> HIDE DEF p, q, a, b, machine, interpreter
  <1>10. isNumber(p) /\ isNumber(q) => NumericLeavesOf(a, b)
    BY <1>2, NumericLeaves
  <1>11. BytesLeaveOf(p, q)
    BY BytesLeave
  <1>12. CASE op = "+"
    <2>1. op \in {"+", "-", "*", "/", "<", ">", "<=", ">="} /\ operatorMap[op] = <<"ADD">>
          /\ "ADD" \in BinaryArithmetic \union Comparisons
      BY <1>6, <1>12, OperatorMapIs
    <2>2. CASE isNumber(p) /\ isNumber(q)
      <3>1. Numeric("ADD", <<a, b>>) = PushInt(ToWord(a + b))
        BY <1>10, <2>2, Zenon DEF NumericLeavesOf
      <3>2. Matches(PushInt(ToWord(a + b)), Returns(fromInt(ToWord(a + b))), <<>>)
        BY <1>7, <2>2, MatchingPairs, Zenon
      <3>3. OperatorValue(op, a, b) = fromInt(ToWord(a + b)) /\ op # "/"
        BY <1>9, <1>12
      <3> QED BY <1>4, <2>1, <2>2, <3>1, <3>2, <3>3
    <2> QED BY <1>5, <2>1, <2>2
  <1>13. CASE op = "-"
    <2>1. op \in {"+", "-", "*", "/", "<", ">", "<=", ">="} /\ operatorMap[op] = <<"SUB">>
          /\ "SUB" \in BinaryArithmetic \union Comparisons
      BY <1>6, <1>13, OperatorMapIs
    <2>2. CASE isNumber(p) /\ isNumber(q)
      <3>1. Numeric("SUB", <<a, b>>) = PushInt(ToWord(a - b))
        BY <1>10, <2>2, Zenon DEF NumericLeavesOf
      <3>2. Matches(PushInt(ToWord(a - b)), Returns(fromInt(ToWord(a - b))), <<>>)
        BY <1>7, <2>2, MatchingPairs, Zenon
      <3>3. OperatorValue(op, a, b) = fromInt(ToWord(a - b)) /\ op # "/"
        BY <1>9, <1>13
      <3> QED BY <1>4, <2>1, <2>2, <3>1, <3>2, <3>3
    <2> QED BY <1>5, <2>1, <2>2
  <1>14. CASE op = "*"
    <2>1. op \in {"+", "-", "*", "/", "<", ">", "<=", ">="} /\ operatorMap[op] = <<"MUL">>
          /\ "MUL" \in BinaryArithmetic \union Comparisons
      BY <1>6, <1>14, OperatorMapIs
    <2>2. CASE isNumber(p) /\ isNumber(q)
      <3>1. Numeric("MUL", <<a, b>>) = PushInt(ToWord(a * b))
        BY <1>10, <2>2, Zenon DEF NumericLeavesOf
      <3>2. Matches(PushInt(ToWord(a * b)), Returns(fromInt(ToWord(a * b))), <<>>)
        BY <1>7, <2>2, MatchingPairs, Zenon
      <3>3. OperatorValue(op, a, b) = fromInt(ToWord(a * b)) /\ op # "/"
        BY <1>9, <1>14
      <3> QED BY <1>4, <2>1, <2>2, <3>1, <3>2, <3>3
    <2> QED BY <1>5, <2>1, <2>2
  <1>15. CASE op = "/"
    <2>1. op \in {"+", "-", "*", "/", "<", ">", "<=", ">="} /\ operatorMap[op] = <<"DIV">>
          /\ "DIV" \in BinaryArithmetic \union Comparisons
      BY <1>6, <1>15, OperatorMapIs
    <2>2. CASE isNumber(p) /\ isNumber(q) /\ Divides(a, b)
      <3>1. Numeric("DIV", <<a, b>>) = PushInt(Quotient(a, b))
        <4>1. Numeric("DIV", <<a, b>>) =
                  IF Divides(a, b) THEN PushInt(ToWord(Quotient(a, b))) ELSE Throws
          BY <1>10, <2>2, Zenon DEF NumericLeavesOf
        <4> QED BY <1>8, <2>2, <4>1
      <3>2. Matches(PushInt(Quotient(a, b)), Returns(fromInt(Quotient(a, b))), <<>>)
        BY <1>8, <2>2, MatchingPairs
      <3> QED BY <1>4, <1>9, <1>15, <2>1, <2>2, <3>1, <3>2
    <2>3. CASE isNumber(p) /\ isNumber(q) /\ ~Divides(a, b)
      <3>1. Numeric("DIV", <<a, b>>) = Throws
        <4>1. Numeric("DIV", <<a, b>>) =
                  IF Divides(a, b) THEN PushInt(ToWord(Quotient(a, b))) ELSE Throws
          BY <1>10, <2>3, Zenon DEF NumericLeavesOf
        <4> QED BY <2>3, <4>1
      <3>2. machine = Throws
        BY <1>3, <2>1, <2>3, <3>1, TwoNumbers DEF p, q, a, b
      <3>3. interpreter = Raises
        BY <1>15, <2>1, <2>3, EvalOpReads DEF interpreter, p, q, a, b
      <3> QED BY <3>2, <3>3, MatchingPairs
    <2> QED BY <1>5, <2>1, <2>2, <2>3
  <1>16. CASE op = "<"
    <2>1. op \in {"+", "-", "*", "/", "<", ">", "<=", ">="} /\ operatorMap[op] = <<"LESSTHAN">>
          /\ "LESSTHAN" \in BinaryArithmetic \union Comparisons
      BY <1>6, <1>16, OperatorMapIs
    <2>2. CASE isNumber(p) /\ isNumber(q)
      <3>1. Numeric("LESSTHAN", <<a, b>>) = PushBool(a < b)
        BY <1>10, <2>2, Zenon DEF NumericLeavesOf
      <3>2. Matches(PushBool(a < b), Returns(fromBool(a < b)), <<>>)
        BY MatchingPairs, Zenon
      <3>3. OperatorValue(op, a, b) = fromBool(a < b) /\ op # "/"
        BY <1>9, <1>16
      <3> QED BY <1>4, <2>1, <2>2, <3>1, <3>2, <3>3
    <2> QED BY <1>5, <2>1, <2>2
  <1>17. CASE op = ">"
    <2>1. op \in {"+", "-", "*", "/", "<", ">", "<=", ">="} /\ operatorMap[op] = <<"GREATERTHAN">>
          /\ "GREATERTHAN" \in BinaryArithmetic \union Comparisons
      BY <1>6, <1>17, OperatorMapIs
    <2>2. CASE isNumber(p) /\ isNumber(q)
      <3>1. Numeric("GREATERTHAN", <<a, b>>) = PushBool(a > b)
        BY <1>10, <2>2, Zenon DEF NumericLeavesOf
      <3>2. Matches(PushBool(a > b), Returns(fromBool(a > b)), <<>>)
        BY MatchingPairs, Zenon
      <3>3. OperatorValue(op, a, b) = fromBool(a > b) /\ op # "/"
        BY <1>9, <1>17
      <3> QED BY <1>4, <2>1, <2>2, <3>1, <3>2, <3>3
    <2> QED BY <1>5, <2>1, <2>2
  <1>18. CASE op = "<="
    <2>1. op \in {"+", "-", "*", "/", "<", ">", "<=", ">="} /\ operatorMap[op] = <<"LESSTHANOREQUAL">>
          /\ "LESSTHANOREQUAL" \in BinaryArithmetic \union Comparisons
      BY <1>6, <1>18, OperatorMapIs
    <2>2. CASE isNumber(p) /\ isNumber(q)
      <3>1. Numeric("LESSTHANOREQUAL", <<a, b>>) = PushBool(a <= b)
        BY <1>10, <2>2, Zenon DEF NumericLeavesOf
      <3>2. Matches(PushBool(a <= b), Returns(fromBool(a <= b)), <<>>)
        BY MatchingPairs, Zenon
      <3>3. OperatorValue(op, a, b) = fromBool(a <= b) /\ op # "/"
        BY <1>9, <1>18
      <3> QED BY <1>4, <2>1, <2>2, <3>1, <3>2, <3>3
    <2> QED BY <1>5, <2>1, <2>2
  <1>19. CASE op = ">="
    <2>1. op \in {"+", "-", "*", "/", "<", ">", "<=", ">="} /\ operatorMap[op] = <<"GREATERTHANOREQUAL">>
          /\ "GREATERTHANOREQUAL" \in BinaryArithmetic \union Comparisons
      BY <1>6, <1>19, OperatorMapIs
    <2>2. CASE isNumber(p) /\ isNumber(q)
      <3>1. Numeric("GREATERTHANOREQUAL", <<a, b>>) = PushBool(a >= b)
        BY <1>10, <2>2, Zenon DEF NumericLeavesOf
      <3>2. Matches(PushBool(a >= b), Returns(fromBool(a >= b)), <<>>)
        BY MatchingPairs, Zenon
      <3>3. OperatorValue(op, a, b) = fromBool(a >= b) /\ op # "/"
        BY <1>9, <1>19
      <3> QED BY <1>4, <2>1, <2>2, <3>1, <3>2, <3>3
    <2> QED BY <1>5, <2>1, <2>2
  <1>20. CASE op = "=="
    <2>3. machine = executeOpcode("EQUAL", <<p, q>>)
      BY <1>3, <1>20, OperatorMapIs
    <2>4. executeOpcode("EQUAL", <<p, q>>) = PushBool(p = q)
      BY <1>11, Zenon DEF BytesLeaveOf
    <2>1. machine = PushBool(p = q)
      BY <2>3, <2>4, Zenon
    <2>2. interpreter = Returns(fromBool(p = q))
      BY <1>20, EvalOpReads DEF interpreter, p, q
    <2> QED BY <2>1, <2>2, MatchingPairs, Zenon
  <1>21. CASE op = "!="
    <2> DEFINE s == serializeScriptNum(Truth(p = q))
    <2>1. executeOpcode("EQUAL", <<p, q>>) = Leaves(<<s>>)
      <3>1. executeOpcode("EQUAL", <<p, q>>) = PushBool(p = q)
        BY <1>11, Zenon DEF BytesLeaveOf
      <3> QED BY <3>1, Zenon DEF PushBool, PushInt, Truth
    <2>2. Leaves(<<s>>).ok /\ Leaves(<<s>>).items = <<s>>
      BY DEF Leaves
    <2>3. machine = executeOpcode("NOT", <<s>>)
      BY <1>21, <2>1, <2>2, OperatorMapIs, OneAfterAnother DEF machine
    <2>4. machine = PushBool(isNumber(s) /\ toInt(s) = 0)
      <3>1. BytesLeaveOf(s, s)
        BY BytesLeave
      <3> QED BY <2>3, <3>1, Zenon DEF BytesLeaveOf
    <2>5. (isNumber(s) /\ toInt(s) = 0) = (p # q)
      BY TruthIsRead DEF Truth
    <2>6. interpreter = Returns(fromBool(p # q))
      BY <1>21, EvalOpReads DEF interpreter, p, q
    <2> QED BY <2>4, <2>5, <2>6, MatchingPairs, Zenon
  <1> QED BY <1>1, <1>12, <1>13, <1>14, <1>15, <1>16, <1>17, <1>18, <1>19, <1>20, <1>21

(* What 0 and 1 leave of a machine integer.                                *)
LEMMA Neutral ==
    ASSUME NEW a \in Signed
    PROVE  /\ ToWord(a + 0) = a /\ ToWord(0 + a) = a /\ ToWord(a - 0) = a
           /\ ToWord(a * 1) = a /\ ToWord(1 * a) = a
           /\ Quotient(a, 1) = a /\ Divides(a, 1)
  <1>1. a \in Int /\ a + 0 = a /\ 0 + a = a /\ a - 0 = a /\ a * 1 = a /\ 1 * a = a
    BY DEF Signed
  <1>2. ToWord(a) = a
    BY WordOfSigned
  <1>3. Quotient(a, 1) = a
    <2>1. a >= 0 => Quotient(a, 1) = a \div 1
      BY <1>1, QuotientBySigns
    <2>2. a < 0 => Quotient(a, 1) = -((-a) \div 1)
      BY <1>1, QuotientBySigns
    <2>3. \A n \in Int : n \div 1 = n /\ -(-n) = n /\ -n \in Int
      BY SMT
    <2> QED BY <1>1, <2>1, <2>2, <2>3
  <1> QED BY <1>1, <1>2, <1>3 DEF Divides

(* Both ways round, an operator that does not care for it is the same.     *)
LEMMA EvalOpCommutes ==
    ASSUME NEW op, isCommutativeOp(op), NEW x, NEW y, Agrees(x), Agrees(y),
           ~TooWide(x), ~TooWide(y)
    PROVE  evalOp(op, x.value, y.value) = evalOp(op, y.value, x.value)
  <1> DEFINE a == toInt(x.bytes)
             b == toInt(y.bytes)
             p == x.bytes
             q == y.bytes
  <1>1. op \in {"+", "*", "==", "!="}
    BY DEF isCommutativeOp
  <1>2. a \in Signed \union {NoNumber} /\ b \in Signed \union {NoNumber}
    BY ReadAlike
  <1>3. CASE op \in {"+", "*"}
    <2>1. \A i, j \in Signed : i + j = j + i /\ i * j = j * i
      <3>1. \A i, j \in Int : i + j = j + i /\ i * j = j * i
        BY SMT
      <3> QED BY <3>1 DEF Signed
    <2>2. \A i, j \in Signed : OperatorValue(op, i, j) = OperatorValue(op, j, i)
      <3>1. \A i, j : OperatorValue("+", i, j) = fromInt(ToWord(i + j))
                      /\ OperatorValue("*", i, j) = fromInt(ToWord(i * j))
        BY DEF OperatorValue
      <3> QED BY <1>3, <2>1, <3>1
    <2>3. /\ evalOp(op, x.value, y.value) =
                 IF a = NoNumber \/ b = NoNumber THEN Raises
                 ELSE Returns(OperatorValue(op, a, b))
          /\ evalOp(op, y.value, x.value) =
                 IF b = NoNumber \/ a = NoNumber THEN Raises
                 ELSE Returns(OperatorValue(op, b, a))
      BY <1>3, EvalOpReads
    <2> HIDE DEF a, b
    <2> QED BY <1>2, <2>2, <2>3
  <1>4. CASE op = "=="
    <2>1. evalOp(op, x.value, y.value) = Returns(fromBool(p = q))
      BY <1>4, EvalOpReads
    <2>2. evalOp(op, y.value, x.value) = Returns(fromBool(q = p))
      BY <1>4, EvalOpReads
    <2>3. (p = q) = (q = p)
      OBVIOUS
    <2> HIDE DEF p, q
    <2> QED BY <2>1, <2>2, <2>3
  <1>5. CASE op = "!="
    <2>1. evalOp(op, x.value, y.value) = Returns(fromBool(p # q))
      BY <1>5, EvalOpReads
    <2>2. evalOp(op, y.value, x.value) = Returns(fromBool(q # p))
      BY <1>5, EvalOpReads
    <2>3. (p # q) = (q # p)
      OBVIOUS
    <2> HIDE DEF p, q
    <2> QED BY <2>1, <2>2, <2>3
  <1> QED BY <1>1, <1>3, <1>4, <1>5

(* The bytes of the operands that are left.                                *)
LEMMA EmittedIs ==
    /\ \A ops, x : Emitted(ops, <<x>>).ops = ops /\ Emitted(ops, <<x>>).args = <<x.bytes>>
    /\ \A ops, x, y : /\ Emitted(ops, <<x, y>>).ops = ops
                      /\ Emitted(ops, <<x, y>>).args = <<x.bytes, y.bytes>>
    /\ \A x : Unchanged(x).ops = <<>> /\ Unchanged(x).args = <<x.bytes>>
  <1>1. \A ops, x : Emitted(ops, <<x>>).ops = ops /\ Emitted(ops, <<x>>).args = <<x.bytes>>
    <2>1. \A x : [k \in DOMAIN <<x>> |-> <<x>>[k].bytes] = <<x.bytes>>
      OBVIOUS
    <2> QED BY <2>1 DEF Emitted
  <1>2. \A ops, x, y : /\ Emitted(ops, <<x, y>>).ops = ops
                       /\ Emitted(ops, <<x, y>>).args = <<x.bytes, y.bytes>>
    <2>1. \A x, y : [k \in DOMAIN <<x, y>> |-> <<x, y>>[k].bytes] = <<x.bytes, y.bytes>>
      OBVIOUS
    <2> QED BY <2>1 DEF Emitted
  <1>3. \A x : Unchanged(x).ops = <<>> /\ Unchanged(x).args = <<x.bytes>>
    BY DEF Unchanged
  <1> QED BY <1>1, <1>2, <1>3

(* An operator with an operand that changes nothing, or nearly nothing.    *)
LEMMA IdentityMatches ==
    ASSUME NEW op, NEW x, NEW y, Agrees(x), Agrees(y), ~TooWide(x), ~TooWide(y),
           HasIdentity(op, x, y), Canonical(x.bytes), Canonical(y.bytes),
           ~(isLiteral(x) /\ isLiteral(y))
    PROVE  LET code == Identity(op, x, y)
           IN  Matches(ExecuteOpcodes(code.ops, code.args),
                       evalOp(op, x.value, y.value), <<>>)
  <1> DEFINE p == x.bytes
             q == y.bytes
             a == toInt(p)
             b == toInt(q)
             code == Identity(op, x, y)
             machine == ExecuteOpcodes(code.ops, code.args)
             interpreter == evalOp(op, x.value, y.value)
             One(z) == isLiteralValue(z, 1)
             Zero(z) == isLiteralValue(z, 0)
  <1> SUFFICES Matches(machine, interpreter, <<>>)
    OBVIOUS
  <1>1. /\ isNumber(p) /\ a \in Signed /\ p = serializeScriptNum(a) /\ a # NoNumber
        /\ isNumber(q) /\ b \in Signed /\ q = serializeScriptNum(b) /\ b # NoNumber
    BY ReadAlike DEF Canonical, isNumber
  <1>2. /\ (isLiteral(x) => x.known = a) /\ (isLiteral(y) => y.known = b)
    BY ReadAlike
  <1>3. /\ One(x) => isLiteral(x) /\ a = 1
        /\ Zero(x) => isLiteral(x) /\ a = 0
        /\ One(y) => isLiteral(y) /\ b = 1
        /\ Zero(y) => isLiteral(y) /\ b = 0
    BY <1>2 DEF isLiteralValue
  <1>4. /\ ~(One(x) /\ Zero(x)) /\ ~(One(y) /\ Zero(y))
        /\ ~((One(x) \/ Zero(x)) /\ (One(y) \/ Zero(y)))
    BY <1>3 DEF isLiteralValue
  <1>5. \A f \in {"+", "-", "*", "/"} : (f = "/" => Divides(a, b)) =>
            evalOp(f, x.value, y.value) = Returns(OperatorValue(f, a, b))
    BY <1>1, EvalOpReads
  <1>6. /\ OperatorValue("+", a, b) = fromInt(ToWord(a + b))
        /\ OperatorValue("-", a, b) = fromInt(ToWord(a - b))
        /\ OperatorValue("*", a, b) = fromInt(ToWord(a * b))
        /\ OperatorValue("/", a, b) = fromInt(Quotient(a, b))
    BY DEF OperatorValue
  <1>7. \/ op \in {"+", "-"} /\ One(y) /\ code = Emitted(IF op = "+" THEN <<"1ADD">> ELSE <<"1SUB">>, <<x>>)
        \/ op = "+" /\ One(x) /\ code = Emitted(<<"1ADD">>, <<y>>)
        \/ op \in {"+", "-"} /\ Zero(y) /\ code = Unchanged(x)
        \/ op = "+" /\ Zero(x) /\ code = Unchanged(y)
        \/ op = "-" /\ Zero(x) /\ code = Emitted(<<"NEGATE">>, <<y>>)
        \/ op \in {"*", "/"} /\ One(y) /\ code = Unchanged(x)
        \/ op = "*" /\ One(x) /\ code = Unchanged(y)
    <2>1. \/ op \in {"+", "-"} /\ One(y)
          \/ op = "+" /\ One(x)
          \/ op \in {"+", "-"} /\ Zero(y)
          \/ op = "+" /\ Zero(x)
          \/ op = "-" /\ Zero(x)
          \/ op \in {"*", "/"} /\ One(y)
          \/ op = "*" /\ One(x)
      BY DEF HasIdentity
    <2> DEFINE yone == One(y)
               xone == One(x)
               yzero == Zero(y)
               xzero == Zero(x)
    <2>2. code = CASE op \in {"+", "-"} /\ yone ->
                        Emitted(IF op = "+" THEN <<"1ADD">> ELSE <<"1SUB">>, <<x>>)
                   [] op = "+" /\ xone -> Emitted(<<"1ADD">>, <<y>>)
                   [] op \in {"+", "-"} /\ yzero -> Unchanged(x)
                   [] op = "+" /\ xzero -> Unchanged(y)
                   [] op = "-" /\ xzero -> Emitted(<<"NEGATE">>, <<y>>)
                   [] op \in {"*", "/"} /\ yone -> Unchanged(x)
                   [] op = "*" /\ xone -> Unchanged(y)
      BY DEF Identity
    <2> HIDE DEF code
    <2>3. \/ op \in {"+", "-"} /\ yone
          \/ op = "+" /\ xone
          \/ op \in {"+", "-"} /\ yzero
          \/ op = "+" /\ xzero
          \/ op = "-" /\ xzero
          \/ op \in {"*", "/"} /\ yone
          \/ op = "*" /\ xone
      BY <2>1
    <2>4. /\ ~(xone /\ xzero) /\ ~(yone /\ yzero)
          /\ ~((xone \/ xzero) /\ (yone \/ yzero))
      BY <1>4
    <2> HIDE DEF yone, xone, yzero, xzero
    <2>5. op = "+" => op # "-" /\ op # "*" /\ op # "/"
      OBVIOUS
    <2>6. CASE op \in {"+", "-"} /\ yone
      BY <2>2, <2>4, <2>6 DEF yone
    <2>7. CASE op = "+" /\ xone
      BY <2>2, <2>4, <2>7 DEF xone
    <2>8. CASE op \in {"+", "-"} /\ yzero
      BY <2>2, <2>4, <2>8 DEF yzero
    <2>9. CASE op = "+" /\ xzero
      BY <2>2, <2>4, <2>9 DEF xzero
    <2>10. CASE op = "-" /\ xzero
      BY <2>2, <2>4, <2>10 DEF xzero
    <2>11. CASE op \in {"*", "/"} /\ yone
      BY <2>2, <2>4, <2>11 DEF yone
    <2>12. CASE op = "*" /\ xone
      BY <2>2, <2>4, <2>12 DEF xone
    <2> QED BY <2>3, <2>6, <2>7, <2>8, <2>9, <2>10, <2>11, <2>12
  <1>8. \A opcode, z : code = Emitted(<<opcode>>, <<z>>) =>
            machine = executeOpcode(opcode, <<z.bytes>>)
    <2> SUFFICES ASSUME NEW opcode, NEW z, code = Emitted(<<opcode>>, <<z>>)
                 PROVE  machine = executeOpcode(opcode, <<z.bytes>>)
      OBVIOUS
    <2> DEFINE emitted == Emitted(<<opcode>>, <<z>>)
    <2>3. emitted.ops = <<opcode>> /\ emitted.args = <<z.bytes>>
      BY EmittedIs, Zenon
    <2> HIDE DEF code, emitted
    <2>4. code = emitted
      BY DEF emitted
    <2>1. code.ops = <<opcode>> /\ code.args = <<z.bytes>>
      BY <2>3, <2>4
    <2>2. machine = ExecuteOpcodes(<<opcode>>, <<z.bytes>>)
      BY <2>1
    <2> QED BY <2>2, OneAfterAnother
  <1>9. \A z : code = Unchanged(z) => machine = Leaves(<<z.bytes>>)
    <2> SUFFICES ASSUME NEW z, code = Unchanged(z) PROVE machine = Leaves(<<z.bytes>>)
      OBVIOUS
    <2>1. code.ops = <<>> /\ code.args = <<z.bytes>>
      BY EmittedIs
    <2>2. machine = ExecuteOpcodes(<<>>, <<z.bytes>>)
      BY <2>1
    <2> QED BY <2>2, OneAfterAnother
  <1>10. \A opcode \in UnaryArithmetic :
            /\ executeOpcode(opcode, <<p>>) = PushInt(UnaryNumber(opcode, a))
            /\ executeOpcode(opcode, <<q>>) = PushInt(UnaryNumber(opcode, b))
    BY <1>1, OneNumber
  <1>11. \A n : /\ UnaryNumber("1ADD", n) = ToWord(n + 1)
                /\ UnaryNumber("1SUB", n) = ToWord(n - 1)
                /\ UnaryNumber("NEGATE", n) = ToWord(-n)
    BY DEF UnaryNumber
  <1>12. {"1ADD", "1SUB", "NEGATE"} \subseteq UnaryArithmetic
    BY DEF UnaryArithmetic
  <1>13. \A v \in Signed : /\ Matches(PushInt(v), Returns(fromInt(v)), <<>>)
                           /\ Matches(Leaves(<<serializeScriptNum(v)>>), Returns(fromInt(v)), <<>>)
    BY MatchingPairs
  <1>14. /\ ToWord(a + 1) \in Signed /\ ToWord(a - 1) \in Signed
         /\ ToWord(b + 1) \in Signed /\ ToWord(-b) \in Signed
         /\ 1 + b = b + 1 /\ 0 - b = -b
    <2>1. \A n \in Int : n + 1 \in Int /\ n - 1 \in Int /\ -n \in Int /\ 1 + n = n + 1 /\ 0 - n = -n
      BY SMT
    <2>2. a \in Int /\ b \in Int
      BY <1>1 DEF Signed
    <2> QED BY <2>1, <2>2, WordIsSigned
  <1>15. /\ Matches(Leaves(<<p>>), Returns(fromInt(a)), <<>>)
         /\ Matches(Leaves(<<q>>), Returns(fromInt(b)), <<>>)
    BY <1>1, <1>13
  <1> HIDE DEF p, q, a, b, code, machine, interpreter, One, Zero
  <1>16. CASE op \in {"+", "-"} /\ One(y)
              /\ code = Emitted(IF op = "+" THEN <<"1ADD">> ELSE <<"1SUB">>, <<x>>)
    <2>1. b = 1
      BY <1>3, <1>16
    <2>2. CASE op = "+"
      <3>1. machine = PushInt(ToWord(a + 1))
        BY <1>8, <1>10, <1>11, <1>12, <1>16, <2>2 DEF p
      <3>2. interpreter = Returns(fromInt(ToWord(a + 1)))
        BY <1>5, <1>6, <2>1, <2>2 DEF interpreter
      <3> QED BY <1>13, <1>14, <3>1, <3>2
    <2>3. CASE op = "-"
      <3>1. machine = PushInt(ToWord(a - 1))
        BY <1>8, <1>10, <1>11, <1>12, <1>16, <2>3 DEF p
      <3>2. interpreter = Returns(fromInt(ToWord(a - 1)))
        BY <1>5, <1>6, <2>1, <2>3 DEF interpreter
      <3> QED BY <1>13, <1>14, <3>1, <3>2
    <2> QED BY <1>16, <2>2, <2>3
  <1>17. CASE op = "+" /\ One(x) /\ code = Emitted(<<"1ADD">>, <<y>>)
    <2>1. a = 1
      BY <1>3, <1>17
    <2>2. machine = PushInt(ToWord(b + 1))
      BY <1>8, <1>10, <1>11, <1>12, <1>17 DEF q
    <2>3. interpreter = Returns(fromInt(ToWord(b + 1)))
      BY <1>5, <1>6, <1>14, <1>17, <2>1 DEF interpreter
    <2> QED BY <1>13, <1>14, <2>2, <2>3
  <1>18. CASE op \in {"+", "-"} /\ Zero(y) /\ code = Unchanged(x)
    <2>1. b = 0 /\ ToWord(a + 0) = a /\ ToWord(a - 0) = a
      BY <1>1, <1>3, <1>18, Neutral
    <2>2. machine = Leaves(<<p>>)
      BY <1>9, <1>18 DEF p
    <2>3. interpreter = Returns(fromInt(a))
      <3>1. interpreter = Returns(OperatorValue(op, a, b))
        BY <1>5, <1>18 DEF interpreter
      <3> QED BY <1>6, <1>18, <2>1, <3>1
    <2> QED BY <1>15, <2>2, <2>3
  <1>19. CASE op = "+" /\ Zero(x) /\ code = Unchanged(y)
    <2>1. a = 0 /\ ToWord(0 + b) = b
      BY <1>1, <1>3, <1>19, Neutral
    <2>2. machine = Leaves(<<q>>)
      BY <1>9, <1>19 DEF q
    <2>3. interpreter = Returns(fromInt(b))
      BY <1>5, <1>6, <1>19, <2>1 DEF interpreter
    <2> QED BY <1>15, <2>2, <2>3
  <1>20. CASE op = "-" /\ Zero(x) /\ code = Emitted(<<"NEGATE">>, <<y>>)
    <2>1. a = 0
      BY <1>3, <1>20
    <2>2. machine = PushInt(ToWord(-b))
      BY <1>8, <1>10, <1>11, <1>12, <1>20 DEF q
    <2>3. interpreter = Returns(fromInt(ToWord(-b)))
      BY <1>5, <1>6, <1>14, <1>20, <2>1 DEF interpreter
    <2> QED BY <1>13, <1>14, <2>2, <2>3
  <1>21. CASE op \in {"*", "/"} /\ One(y) /\ code = Unchanged(x)
    <2>1. b = 1 /\ ToWord(a * 1) = a /\ Quotient(a, 1) = a /\ Divides(a, b)
      BY <1>1, <1>3, <1>21, Neutral
    <2>2. machine = Leaves(<<p>>)
      BY <1>9, <1>21 DEF p
    <2>3. interpreter = Returns(fromInt(a))
      <3>1. interpreter = Returns(OperatorValue(op, a, b))
        BY <1>5, <1>21, <2>1 DEF interpreter
      <3> QED BY <1>6, <1>21, <2>1, <3>1
    <2> QED BY <1>15, <2>2, <2>3
  <1>22. CASE op = "*" /\ One(x) /\ code = Unchanged(y)
    <2>1. a = 1 /\ ToWord(1 * b) = b
      BY <1>1, <1>3, <1>22, Neutral
    <2>2. machine = Leaves(<<q>>)
      BY <1>9, <1>22 DEF q
    <2>3. interpreter = Returns(fromInt(b))
      BY <1>5, <1>6, <1>22, <2>1 DEF interpreter
    <2> QED BY <1>15, <2>2, <2>3
  <1> QED BY <1>7, <1>16, <1>17, <1>18, <1>19, <1>20, <1>21, <1>22

(* An operator that is emitted, as EmitOperator emits it.                  *)
LEMMA EmittedMatches ==
    ASSUME NEW op \in DOMAIN operatorMap, NEW x, NEW y, Agrees(x), Agrees(y),
           ~TooWide(x), ~TooWide(y), ~(isLiteral(x) /\ isLiteral(y)),
           HasIdentity(op, x, y) => Canonical(x.bytes) /\ Canonical(y.bytes),
           NEW code \in EmittedOperator(op, x, y)
    PROVE  Matches(ExecuteOpcodes(code.ops, code.args), evalOp(op, x.value, y.value), <<>>)
  <1>1. CASE HasIdentity(op, x, y)
    <2>1. code = Identity(op, x, y)
      BY <1>1 DEF EmittedOperator
    <2>2. Matches(ExecuteOpcodes(Identity(op, x, y).ops, Identity(op, x, y).args),
                  evalOp(op, x.value, y.value), <<>>)
      BY <1>1, IdentityMatches
    <2> QED BY <2>1, <2>2
  <1>2. CASE code = Emitted(operatorMap[op], <<x, y>>)
    <2>1. code.ops = operatorMap[op] /\ code.args = <<x.bytes, y.bytes>>
      BY <1>2, EmittedIs
    <2> QED BY <2>1, OperatorMatches
  <1>3. CASE isCommutativeOp(op) /\ code = Emitted(operatorMap[op], <<y, x>>)
    <2>1. code.ops = operatorMap[op] /\ code.args = <<y.bytes, x.bytes>>
      BY <1>3, EmittedIs
    <2>2. Matches(ExecuteOpcodes(operatorMap[op], <<y.bytes, x.bytes>>),
                  evalOp(op, y.value, x.value), <<>>)
      BY OperatorMatches
    <2>3. evalOp(op, x.value, y.value) = evalOp(op, y.value, x.value)
      BY <1>3, EvalOpCommutes
    <2> QED BY <2>1, <2>2, <2>3
  <1> QED BY <1>1, <1>2, <1>3 DEF EmittedOperator
-----------------------------------------------------------------------------
(* A number that has no more than one byte and no sign.                    *)
LEMMA OneByteIsRead ==
    ASSUME NEW p \in Seq(Byte), p = <<>> \/ (Len(p) = 1 /\ p[1] < SignOfByte)
    PROVE  /\ toInt(p) \in 0..SignOfByte - 1 /\ toInt(p) \in Signed /\ isNumber(p)
           /\ BigEndian(p) = toInt(p)
           /\ serializeScriptNum(toInt(p)) = IF toInt(p) = 0 THEN <<>> ELSE <<toInt(p)>>
  <1>1. 0 \in Signed /\ NoNumber \notin Signed /\ 0 \in 0..SignOfByte - 1
    BY ModulusPositive, NoNumberAssumption, BaseIsEven DEF Signed
  <1>2. serializeScriptNum(0) = <<>>
    BY DEF serializeScriptNum
  <1>3. CASE p = <<>>
    <2>1. toInt(p) = 0 /\ BigEndian(p) = 0
      BY <1>3, BigEndianOneByte DEF toInt
    <2> QED BY <1>1, <1>2, <2>1 DEF isNumber
  <1>4. CASE Len(p) = 1 /\ p[1] < SignOfByte
    <2> DEFINE b == p[1]
    <2>1. p = <<b>> /\ b \in Byte
      BY <1>4
    <2>2. b \in Int /\ b \in 0..SignOfByte - 1
      BY <1>4, <2>1, BaseIsEven DEF Byte
    <2> HIDE DEF b
    <2>3. BigEndian(p) = b
      BY <2>1, <2>2, BigEndianOneByte
    <2>4. CASE b = 0
      <3>1. toInt(p) = LittleEndian(p)
        <4>1. p # <<>> /\ ~(Len(p) > WordBytes) /\ Last(p) = 0 /\ ~(0 >= SignOfByte)
          <5>1. Len(p) = 1 /\ Last(p) = p[1] /\ p[1] = 0
            BY <1>4, <2>1, <2>4 DEF Last
          <5>2. p # <<>>
            BY <5>1, EmptySeq
          <5>3. ~(1 > WordBytes)
            BY ByteAssumption
          <5>4. ~(0 >= SignOfByte)
            BY <1>4, <5>1, BaseIsEven
          <5> QED BY <5>1, <5>2, <5>3, <5>4
        <4> QED BY <4>1 DEF toInt
      <3>2. LittleEndian(p) = 0
        <4>1. p \in Seq(Int)
          BY <2>1, <2>2
        <4>2. PICK V : IsSum(V, p) /\ LittleEndian(p) = V[Len(p)]
          BY <4>1, LittleEndianIsSum
        <4>3. V[0] = 0 /\ V[1] = V[0] + p[1] * Power[0]
          BY <1>4, <4>2 DEF IsSum
        <4>4. p[1] = 0 /\ 0 * Power[0] = 0
          BY <2>1, <2>4, PowersGrow
        <4> QED BY <1>4, <4>2, <4>3, <4>4
      <3> QED BY <1>1, <1>2, <2>3, <2>4, <3>1, <3>2 DEF isNumber
    <2>5. CASE b # 0
      <3>1. b \in 1..SignOfByte - 1
        BY <2>2, <2>5, BaseIsEven
      <3>2. serializeScriptNum(b) = <<b>> /\ b \in Signed
        BY <3>1, OneByte
      <3>3. b # -SignBit
        BY <2>2, ModulusPositive
      <3>4. isNumber(p) /\ toInt(p) = b
        BY <2>1, <3>2, <3>3, SerializedIsRead
      <3> QED BY <2>2, <2>3, <2>5, <3>2, <3>4
    <2> QED BY <2>4, <2>5
  <1> QED BY <1>3, <1>4

(* The entries of opCreators, by their number of arguments.                *)
LEMMA OneArgument ==
    /\ opCreators["Inc"] = Function(<<"1ADD">>, 1, FALSE)
    /\ opCreators["Dec"] = Function(<<"1SUB">>, 1, FALSE)
    /\ opCreators["Neg"] = Function(<<"NEGATE">>, 1, FALSE)
    /\ opCreators["Abs"] = Function(<<"ABS">>, 1, FALSE)
    /\ opCreators["Not"] = Function(<<"NOT">>, 1, FALSE)
    /\ opCreators["ZeroNotEqual"] = Function(<<"0NOTEQUAL">>, 1, FALSE)
    /\ opCreators["Verify"] = Function(<<"VERIFY">>, 1, FALSE)
    /\ opCreators["Size"] = Function(<<"SIZE">>, 1, FALSE)
    /\ opCreators["BinToNum"] = Function(<<"BIN2NUM">>, 1, FALSE)
  <1>1. DOMAIN UnaryFunctions = {"Inc", "Dec", "Neg", "Abs", "Not", "ZeroNotEqual", "Verify"}
    BY DEF UnaryFunctions
  <1>2. DOMAIN ArithmeticFunctions = {"Add", "Mul", "Sub", "Div", "Mod"}
    BY DEF ArithmeticFunctions
  <1>3. DOMAIN ComparisonFunctions = {"Equal", "EqualVerify", "NumEqual", "NumEqualVerify",
                                      "NumNotEqual", "LessThan", "GreaterThan"}
    BY DEF ComparisonFunctions
  <1>4. DOMAIN ByteFunctions = {"Cat", "Size", "NumToBin", "BinToNum", "Slice"}
    BY DEF ByteFunctions
  <1>5. \A name \in DOMAIN UnaryFunctions : opCreators[name] = UnaryFunctions[name]
    <2> SUFFICES ASSUME NEW name \in DOMAIN UnaryFunctions
                 PROVE  opCreators[name] = UnaryFunctions[name]
      OBVIOUS
    <2>1. name \notin DOMAIN ArithmeticFunctions /\ name \notin DOMAIN ComparisonFunctions
          /\ name \notin DOMAIN ByteFunctions
      BY <1>1, <1>2, <1>3, <1>4
    <2> QED BY <2>1 DEF opCreators
  <1>6. \A name \in DOMAIN ByteFunctions : opCreators[name] = ByteFunctions[name]
    BY <1>1, <1>2, <1>3, <1>4 DEF opCreators
  <1>7. /\ UnaryFunctions["Inc"] = Function(<<"1ADD">>, 1, FALSE)
        /\ UnaryFunctions["Dec"] = Function(<<"1SUB">>, 1, FALSE)
        /\ UnaryFunctions["Neg"] = Function(<<"NEGATE">>, 1, FALSE)
        /\ UnaryFunctions["Abs"] = Function(<<"ABS">>, 1, FALSE)
        /\ UnaryFunctions["Not"] = Function(<<"NOT">>, 1, FALSE)
        /\ UnaryFunctions["ZeroNotEqual"] = Function(<<"0NOTEQUAL">>, 1, FALSE)
        /\ UnaryFunctions["Verify"] = Function(<<"VERIFY">>, 1, FALSE)
    BY DEF UnaryFunctions
  <1>8. /\ ByteFunctions["Size"] = Function(<<"SIZE">>, 1, FALSE)
        /\ ByteFunctions["BinToNum"] = Function(<<"BIN2NUM">>, 1, FALSE)
    BY DEF ByteFunctions
  <1> QED BY <1>1, <1>4, <1>5, <1>6, <1>7, <1>8

(* Those of two arguments, and the one of three.                           *)
LEMMA MoreArguments ==
    /\ opCreators["Add"] = Function(<<"ADD">>, 2, FALSE)
    /\ opCreators["Mul"] = Function(<<"MUL">>, 2, FALSE)
    /\ opCreators["Sub"] = Function(<<"SUB">>, 2, TRUE)
    /\ opCreators["Div"] = Function(<<"DIV">>, 2, TRUE)
    /\ opCreators["Mod"] = Function(<<"MOD">>, 2, TRUE)
    /\ opCreators["Equal"] = Function(<<"EQUAL">>, 2, FALSE)
    /\ opCreators["EqualVerify"] = Function(<<"EQUAL", "VERIFY">>, 2, FALSE)
    /\ opCreators["NumEqual"] = Function(<<"NUMEQUAL">>, 2, FALSE)
    /\ opCreators["NumEqualVerify"] = Function(<<"NUMEQUAL", "VERIFY">>, 2, FALSE)
    /\ opCreators["NumNotEqual"] = Function(<<"NUMNOTEQUAL">>, 2, FALSE)
    /\ opCreators["LessThan"] = Function(<<"LESSTHAN">>, 2, TRUE)
    /\ opCreators["GreaterThan"] = Function(<<"GREATERTHAN">>, 2, TRUE)
    /\ opCreators["Cat"] = Function(<<"CAT">>, 2, TRUE)
    /\ opCreators["NumToBin"] = Function(<<"NUM2BIN">>, 2, TRUE)
    /\ opCreators["Slice"] = Function(<<>>, 3, TRUE)
  <1>1. DOMAIN UnaryFunctions = {"Inc", "Dec", "Neg", "Abs", "Not", "ZeroNotEqual", "Verify"}
    BY DEF UnaryFunctions
  <1>2. DOMAIN ArithmeticFunctions = {"Add", "Mul", "Sub", "Div", "Mod"}
    BY DEF ArithmeticFunctions
  <1>3. DOMAIN ComparisonFunctions = {"Equal", "EqualVerify", "NumEqual", "NumEqualVerify",
                                      "NumNotEqual", "LessThan", "GreaterThan"}
    BY DEF ComparisonFunctions
  <1>4. DOMAIN ByteFunctions = {"Cat", "Size", "NumToBin", "BinToNum", "Slice"}
    BY DEF ByteFunctions
  <1>5. \A name \in DOMAIN ArithmeticFunctions : opCreators[name] = ArithmeticFunctions[name]
    <2> SUFFICES ASSUME NEW name \in DOMAIN ArithmeticFunctions
                 PROVE  opCreators[name] = ArithmeticFunctions[name]
      OBVIOUS
    <2>1. name \notin DOMAIN UnaryFunctions /\ name \notin DOMAIN ComparisonFunctions
          /\ name \notin DOMAIN ByteFunctions
      BY <1>1, <1>2, <1>3, <1>4
    <2> QED BY <2>1 DEF opCreators
  <1>6. \A name \in DOMAIN ComparisonFunctions : opCreators[name] = ComparisonFunctions[name]
    <2> SUFFICES ASSUME NEW name \in DOMAIN ComparisonFunctions
                 PROVE  opCreators[name] = ComparisonFunctions[name]
      OBVIOUS
    <2>1. name \notin DOMAIN UnaryFunctions /\ name \notin DOMAIN ArithmeticFunctions
          /\ name \notin DOMAIN ByteFunctions
      BY <1>1, <1>2, <1>3, <1>4
    <2> QED BY <2>1 DEF opCreators
  <1>7. \A name \in DOMAIN ByteFunctions : opCreators[name] = ByteFunctions[name]
    BY <1>1, <1>2, <1>3, <1>4 DEF opCreators
  <1>8. /\ ArithmeticFunctions["Add"] = Function(<<"ADD">>, 2, FALSE)
        /\ ArithmeticFunctions["Mul"] = Function(<<"MUL">>, 2, FALSE)
        /\ ArithmeticFunctions["Sub"] = Function(<<"SUB">>, 2, TRUE)
        /\ ArithmeticFunctions["Div"] = Function(<<"DIV">>, 2, TRUE)
        /\ ArithmeticFunctions["Mod"] = Function(<<"MOD">>, 2, TRUE)
    BY DEF ArithmeticFunctions
  <1>9. /\ ComparisonFunctions["Equal"] = Function(<<"EQUAL">>, 2, FALSE)
        /\ ComparisonFunctions["EqualVerify"] = Function(<<"EQUAL", "VERIFY">>, 2, FALSE)
        /\ ComparisonFunctions["NumEqual"] = Function(<<"NUMEQUAL">>, 2, FALSE)
        /\ ComparisonFunctions["NumEqualVerify"] = Function(<<"NUMEQUAL", "VERIFY">>, 2, FALSE)
        /\ ComparisonFunctions["NumNotEqual"] = Function(<<"NUMNOTEQUAL">>, 2, FALSE)
        /\ ComparisonFunctions["LessThan"] = Function(<<"LESSTHAN">>, 2, TRUE)
        /\ ComparisonFunctions["GreaterThan"] = Function(<<"GREATERTHAN">>, 2, TRUE)
    BY DEF ComparisonFunctions
  <1>10. /\ ByteFunctions["Cat"] = Function(<<"CAT">>, 2, TRUE)
         /\ ByteFunctions["NumToBin"] = Function(<<"NUM2BIN">>, 2, TRUE)
         /\ ByteFunctions["Slice"] = Function(<<>>, 3, TRUE)
    BY DEF ByteFunctions
  <1> QED BY <1>2, <1>3, <1>4, <1>5, <1>6, <1>7, <1>8, <1>9, <1>10

(* A function of one number or one byte string.                            *)
LEMMA UnaryMatches ==
    ASSUME NEW name \in {"Inc", "Dec", "Neg", "Abs", "Not", "ZeroNotEqual", "Verify", "Size",
                         "BinToNum"},
           NEW x, Agrees(x), ~TooWide(x),
           name \in {"Not", "Verify"} => ~FalseBytes(x),
           name \in {"Not", "ZeroNotEqual"} => isNumber(x.bytes),
           name = "BinToNum" => OneByteNumber(x)
    PROVE  Matches(ExecuteOpcodes(opCreators[name].ops, <<x.bytes>>),
                   callFunction(name, <<x.value>>),
                   IF name = "Size" THEN <<x.value>> ELSE <<>>)
  <1> DEFINE p == x.bytes
             a == toInt(p)
             v == x.value
             machine == ExecuteOpcodes(opCreators[name].ops, <<p>>)
             interpreter == callFunction(name, <<v>>)
             left == IF name = "Size" THEN <<v>> ELSE <<>>
  <1> SUFFICES Matches(machine, interpreter, left)
    OBVIOUS
  <1>1. /\ toScriptBytes(v) = p /\ toScriptNum(v) = a /\ p \in Seq(Byte)
        /\ (isNumber(p) => a \in Signed) /\ (isNumber(p) <=> a # NoNumber)
    BY ReadAlike DEF Agrees, isNumber
  <1>2. \A opcode : opCreators[name].ops = <<opcode>> => machine = executeOpcode(opcode, <<p>>)
    BY OneAfterAnother
  <1>3. \A ops, arity, sensitive : Function(ops, arity, sensitive).ops = ops
    BY DEF Function
  <1>4. OneCalled(v) /\ BytesLeaveOf(p, p)
    BY CallOfOne, BytesLeave
  <1>5. \A opcode \in UnaryArithmetic : executeOpcode(opcode, <<p>>) =
            IF isNumber(p) THEN PushInt(UnaryNumber(opcode, a)) ELSE Throws
    BY OneNumber
  <1>6. /\ {"1ADD", "1SUB", "NEGATE", "ABS"} \subseteq UnaryArithmetic
        /\ \A n : /\ UnaryNumber("1ADD", n) = ToWord(n + 1)
                  /\ UnaryNumber("1SUB", n) = ToWord(n - 1)
                  /\ UnaryNumber("NEGATE", n) = ToWord(-n)
                  /\ UnaryNumber("ABS", n) = ToWord(Magnitude(n))
    BY DEF UnaryArithmetic, UnaryNumber
  <1>7. isNumber(p) => /\ ToWord(a + 1) \in Signed /\ ToWord(a - 1) \in Signed
                       /\ ToWord(-a) \in Signed /\ ToWord(Magnitude(a)) \in Signed
    <2>1. \A n \in Int : n + 1 \in Int /\ n - 1 \in Int /\ -n \in Int /\ Magnitude(n) \in Int
      BY SMT DEF Magnitude
    <2>2. \A n \in Signed : n \in Int
      BY DEF Signed
    <2> QED BY <1>1, <2>1, <2>2, WordIsSigned
  <1>8. /\ \A w \in Signed : Matches(PushInt(w), Returns(fromInt(w)), <<>>)
        /\ Matches(Throws, Raises, <<>>)
    BY MatchingPairs
  <1>9. \A t : Matches(PushBool(t), Returns(fromBool(t)), <<>>)
    BY MatchingPairs, Zenon
  <1> HIDE DEF p, a, v, machine, interpreter, left
  <1>10. name # "Size" => left = <<>>
    BY DEF left
  <1>11. ASSUME NEW opcode \in UnaryArithmetic, NEW w,
                opCreators[name] = Function(<<opcode>>, 1, FALSE), name # "Size",
                UnaryNumber(opcode, a) = w,
                isNumber(p) => w \in Signed,
                interpreter = IF a = NoNumber THEN Raises ELSE Returns(fromInt(w))
         PROVE  Matches(machine, interpreter, left)
    <2>1. machine = IF isNumber(p) THEN PushInt(w) ELSE Throws
      <3>1. opCreators[name].ops = <<opcode>>
        BY <1>11 DEF Function
      <3>2. machine = executeOpcode(opcode, <<p>>)
        BY <1>2, <3>1
      <3> QED BY <1>5, <1>11, <3>2
    <2> QED BY <1>1, <1>8, <1>10, <1>11, <2>1
  <1>12. CASE name = "Inc"
    <2>1. interpreter = IF a = NoNumber THEN Raises ELSE Returns(fromInt(ToWord(a + 1)))
      BY <1>1, <1>4, <1>12 DEF OneCalled, interpreter
    <2> QED BY <1>6, <1>7, <1>11, <1>12, <2>1, OneArgument
  <1>13. CASE name = "Dec"
    <2>1. interpreter = IF a = NoNumber THEN Raises ELSE Returns(fromInt(ToWord(a - 1)))
      BY <1>1, <1>4, <1>13 DEF OneCalled, interpreter
    <2> QED BY <1>6, <1>7, <1>11, <1>13, <2>1, OneArgument
  <1>14. CASE name = "Neg"
    <2>1. interpreter = IF a = NoNumber THEN Raises ELSE Returns(fromInt(ToWord(-a)))
      BY <1>1, <1>4, <1>14 DEF OneCalled, interpreter
    <2> QED BY <1>6, <1>7, <1>11, <1>14, <2>1, OneArgument
  <1>15. CASE name = "Abs"
    <2>1. interpreter = IF a = NoNumber THEN Raises ELSE Returns(fromInt(ToWord(Magnitude(a))))
      BY <1>1, <1>4, <1>15 DEF OneCalled, interpreter
    <2> QED BY <1>6, <1>7, <1>11, <1>15, <2>1, OneArgument
  <1>16. CASE name = "Not"
    <2>1. machine = executeOpcode("NOT", <<p>>)
      <3>1. opCreators[name].ops = <<"NOT">>
        BY <1>16, OneArgument DEF Function
      <3> QED BY <1>2, <3>1
    <2>2. machine = PushBool(isNumber(p) /\ toInt(p) = 0)
      BY <1>4, <2>1, Zenon DEF BytesLeaveOf
    <2>3. interpreter = Returns(fromBool(~truthy(v)))
      BY <1>4, <1>16, Zenon DEF OneCalled, interpreter
    <2>4. (isNumber(p) /\ toInt(p) = 0) = (~truthy(v))
      BY <1>16 DEF FalseBytes, isTrue, p, v, truthy
    <2>5. left = <<>>
      BY <1>10, <1>16
    <2> QED BY <1>9, <2>2, <2>3, <2>4, <2>5, Zenon
  <1>17. CASE name = "ZeroNotEqual"
    <2>1. machine = executeOpcode("0NOTEQUAL", <<p>>)
      <3>1. opCreators[name].ops = <<"0NOTEQUAL">>
        BY <1>17, OneArgument DEF Function
      <3> QED BY <1>2, <3>1
    <2>2. machine = PushBool(isTrue(p))
      BY <1>4, <2>1, Zenon DEF BytesLeaveOf
    <2>3. interpreter = IF a = NoNumber THEN Raises ELSE Returns(fromBool(a # 0))
      BY <1>1, <1>4, <1>17, Zenon DEF OneCalled, interpreter
    <2>4. isNumber(p) /\ isTrue(p) = (a # 0)
      BY <1>17 DEF isTrue, p, a
    <2>5. left = <<>> /\ interpreter = Returns(fromBool(a # 0))
      BY <1>1, <1>10, <1>17, <2>3, <2>4
    <2> QED BY <1>9, <2>2, <2>4, <2>5, Zenon
  <1>18. CASE name = "Verify"
    <2>1. machine = executeOpcode("VERIFY", <<p>>)
      <3>1. opCreators[name].ops = <<"VERIFY">>
        BY <1>18, OneArgument DEF Function
      <3> QED BY <1>2, <3>1
    <2>2. machine = IF isTrue(p) THEN Leaves(<<>>) ELSE Throws
      BY <1>4, <2>1, Zenon DEF BytesLeaveOf
    <2>3. interpreter = Verified(truthy(v))
      BY <1>4, <1>18, Zenon DEF OneCalled, interpreter
    <2>4. isTrue(p) <=> truthy(v)
      BY <1>18 DEF FalseBytes, isTrue, p, v, truthy
    <2>5. left = <<>>
      BY <1>10, <1>18
    <2> QED BY <2>2, <2>3, <2>4, <2>5, MatchingPairs DEF Verified
  <1>19. CASE name = "Size"
    <2> DEFINE size == ToWord(Len(p))
    <2>1. machine = executeOpcode("SIZE", <<p>>)
      <3>1. opCreators[name].ops = <<"SIZE">>
        BY <1>19, OneArgument DEF Function
      <3> QED BY <1>2, <3>1
    <2>2. machine = Leaves(<<p, serializeScriptNum(size)>>)
      BY <1>4, <2>1, Zenon DEF BytesLeaveOf
    <2>3. interpreter = Returns(fromInt(ToWord(Len(toScriptBytes(v)))))
      BY <1>4, <1>19, Zenon DEF OneCalled, interpreter
    <2>4. size \in Signed /\ interpreter = Returns(fromInt(size))
      BY <1>1, <2>3, WordIsSigned
    <2>5. left = <<v>>
      BY <1>19 DEF left
    <2> HIDE DEF size
    <2>6. Matches(Leaves(<<x.bytes, serializeScriptNum(size)>>), Returns(fromInt(size)), <<x.value>>)
      BY <2>4, MatchingPairs
    <2> QED BY <2>2, <2>4, <2>5, <2>6 DEF p, v
  <1>20. CASE name = "BinToNum"
    <2>1. machine = executeOpcode("BIN2NUM", <<p>>)
      <3>1. opCreators[name].ops = <<"BIN2NUM">>
        BY <1>20, OneArgument DEF Function
      <3> QED BY <1>2, <3>1
    <2>2. machine = PushInt(ToWord(BigEndian(p)))
      BY <1>4, <2>1, Zenon DEF BytesLeaveOf
    <2>3. p = <<>> \/ (Len(p) = 1 /\ p[1] < SignOfByte)
      BY <1>20 DEF OneByteNumber, p
    <2>4. isNumber(p) /\ BigEndian(p) = a /\ a \in Signed
      BY <1>1, <2>3, OneByteIsRead DEF a
    <2>5. machine = PushInt(a)
      BY <2>2, <2>4, WordOfSigned
    <2>6. interpreter = IF a = NoNumber THEN Raises ELSE Returns(fromInt(a))
      BY <1>1, <1>4, <1>20 DEF OneCalled, interpreter
    <2> QED BY <1>1, <1>8, <1>10, <1>20, <2>4, <2>5, <2>6
  <1> QED BY <1>12, <1>13, <1>14, <1>15, <1>16, <1>17, <1>18, <1>19, <1>20

(* VERIFY after a comparison.                                              *)
LEMMA ThenVerify ==
    ASSUME NEW opcode, NEW args, NEW t, executeOpcode(opcode, args) = PushBool(t)
    PROVE  Matches(ExecuteOpcodes(<<opcode, "VERIFY">>, args), Verified(t), <<>>)
  <1> DEFINE s == serializeScriptNum(Truth(t))
             machine == ExecuteOpcodes(<<opcode, "VERIFY">>, args)
  <1>1. executeOpcode(opcode, args) = Leaves(<<s>>)
    BY Zenon DEF PushBool, PushInt, Truth
  <1>2. Leaves(<<s>>).ok = TRUE /\ Leaves(<<s>>).items = <<s>>
    BY DEF Leaves
  <1>3. isTrue(s) <=> t
    BY TruthIsRead
  <1>4. BytesLeaveOf(s, s)
    BY BytesLeave
  <1> HIDE DEF s
  <1>5. machine = executeOpcode("VERIFY", <<s>>)
    BY <1>1, <1>2, OneAfterAnother
  <1> HIDE DEF machine
  <1>6. machine = IF isTrue(s) THEN Leaves(<<>>) ELSE Throws
    BY <1>4, <1>5, Zenon DEF BytesLeaveOf
  <1>7. Matches(machine, Verified(t), <<>>)
    BY <1>3, <1>6, MatchingPairs DEF Verified
  <1> QED BY <1>7 DEF machine

(* NumToBin of a number in one byte.                                       *)
LEMMA OneByteFilled ==
    ASSUME NEW a \in 0..SignOfByte - 1,
           serializeScriptNum(a) = IF a = 0 THEN <<>> ELSE <<a>>
    PROVE  /\ NumToBinBytes(a, 1) = <<a>>
           /\ numToBin(a, 1) = Returns(fromBytes(<<a>>))
           /\ <<a>> \in Seq(Byte)
  <1>1. a \in 0..ByteBase - 1 /\ a \in Int /\ ~(a < 0)
    BY BaseIsEven
  <1>2. NumToBinBytes(a, 1) = <<a>>
    <2>1. Power[0] = 1 /\ a \div 1 = a
      BY <1>1, PowerIsRecursive
    <2>2. a % ByteBase = a
      BY <1>1, BaseIsEven, ModSmall
    <2> DEFINE f == [i \in 1..1 |-> (a \div Power[1 - i]) % ByteBase]
    <2>3. f \in Seq({a}) /\ Len(f) = 1 /\ f[1] = a
      <3>1. f[1] = (a \div Power[0]) % ByteBase
        OBVIOUS
      <3>2. f[1] = a
        BY <2>1, <2>2, <3>1
      <3>3. f \in [1..1 -> {a}]
        BY <3>2
      <3> QED BY <3>2, <3>3
    <2> HIDE DEF f
    <2>4. f = <<a>>
      BY <2>3
    <2> QED BY <2>4 DEF NumToBinBytes, f
  <1>3. <<a>> \in Seq(Byte)
    BY <1>1 DEF Byte
  <1>4. numToBin(a, 1) = Returns(fromBytes(<<a>>))
    <2> DEFINE bytes == serializeScriptNum(a)
               filled == [i \in 1..1 |-> IF i <= Len(bytes) THEN bytes[i] ELSE 0]
    <2>1. Len(bytes) \in {0, 1} /\ (a = 0 => Len(bytes) = 0)
          /\ (a # 0 => Len(bytes) = 1 /\ bytes[1] = a)
      <3>1. Len(<<>>) = 0 /\ Len(<<a>>) = 1 /\ <<a>>[1] = a
        OBVIOUS
      <3> QED BY <3>1
    <2> HIDE DEF bytes
    <2>2. filled = <<a>>
      <3>1. (IF 1 <= Len(bytes) THEN bytes[1] ELSE 0) = a
        BY <2>1
      <3>2. filled \in Seq({a}) /\ Len(filled) = 1 /\ filled[1] = a
        <4>1. filled[1] = a
          BY <3>1
        <4>2. filled \in [1..1 -> {a}]
          BY <4>1
        <4> QED BY <4>1, <4>2
      <3> HIDE DEF filled
      <3> QED BY <3>2
    <2> HIDE DEF filled
    <2>3. ~(1 < 0 \/ Len(bytes) > 1)
      BY <2>1
    <2>4. numToBin(a, 1) = Returns(fromBytes(filled))
      BY <1>1, <2>3 DEF numToBin, bytes, filled
    <2> QED BY <2>2, <2>4
  <1> QED BY <1>2, <1>3, <1>4

(* A function of two arguments, in their order.                            *)
LEMMA BinaryMatches ==
    ASSUME NEW name \in {"Add", "Mul", "Sub", "Div", "Mod", "Equal", "EqualVerify", "NumEqual",
                         "NumEqualVerify", "NumNotEqual", "LessThan", "GreaterThan", "Cat",
                         "NumToBin"},
           NEW x, NEW y, Agrees(x), Agrees(y), ~TooWide(x), ~TooWide(y),
           name = "NumToBin" => OneByteNumber(x) /\ y.bytes = serializeScriptNum(1)
    PROVE  Matches(ExecuteOpcodes(opCreators[name].ops, <<x.bytes, y.bytes>>),
                   callFunction(name, <<x.value, y.value>>), <<>>)
  <1> DEFINE p == x.bytes
             q == y.bytes
             a == toInt(p)
             b == toInt(q)
             v == x.value
             w == y.value
             machine == ExecuteOpcodes(opCreators[name].ops, <<p, q>>)
             interpreter == callFunction(name, <<v, w>>)
             numbers == isNumber(p) /\ isNumber(q)
  <1> SUFFICES Matches(machine, interpreter, <<>>)
    OBVIOUS
  <1>1. /\ toScriptBytes(v) = p /\ toScriptNum(v) = a /\ p \in Seq(Byte)
        /\ toScriptBytes(w) = q /\ toScriptNum(w) = b /\ q \in Seq(Byte)
    BY ReadAlike DEF Agrees
  <1>2. /\ (isNumber(p) <=> a # NoNumber) /\ (isNumber(q) <=> b # NoNumber)
        /\ numbers => a \in Signed /\ b \in Signed /\ a \in Int /\ b \in Int
    BY ReadAlike DEF isNumber, Signed
  <1>3. \A opcode : opCreators[name].ops = <<opcode>> =>
            machine = executeOpcode(opcode, <<p, q>>)
    BY OneAfterAnother
  <1>4. TwoCalled(v, w) /\ BytesLeaveOf(p, q)
    BY CallOfTwo, BytesLeave
  <1>5. numbers => NumericLeavesOf(a, b)
    BY <1>2, NumericLeaves
  <1>6. \A opcode \in BinaryArithmetic \union Comparisons \union {"NUM2BIN"} :
            executeOpcode(opcode, <<p, q>>) =
                IF numbers THEN Numeric(opcode, <<a, b>>) ELSE Throws
    BY TwoNumbers
  <1>7. /\ {"ADD", "SUB", "MUL", "DIV", "MOD"} \subseteq BinaryArithmetic
        /\ {"NUMEQUAL", "NUMNOTEQUAL", "LESSTHAN", "GREATERTHAN"} \subseteq Comparisons
    BY DEF BinaryArithmetic, Comparisons
  <1>8. numbers => ToWord(a + b) \in Signed /\ ToWord(a - b) \in Signed /\ ToWord(a * b) \in Signed
    <2>1. \A i, j \in Int : i + j \in Int /\ i - j \in Int /\ i * j \in Int
      BY SMT
    <2> QED BY <1>2, <2>1, WordIsSigned
  <1>9. numbers /\ Divides(a, b) =>
            /\ Quotient(a, b) \in Signed /\ ToWord(Quotient(a, b)) = Quotient(a, b)
            /\ Remainder(a, b) \in Signed /\ ToWord(Remainder(a, b)) = Remainder(a, b)
    BY <1>2, DivisionFits, WordOfSigned
  <1>10. /\ \A n \in Signed : Matches(PushInt(n), Returns(fromInt(n)), <<>>)
         /\ Matches(Throws, Raises, <<>>)
         /\ \A s \in Seq(Byte) : Matches(Leaves(<<s>>), Returns(fromBytes(s)), <<>>)
    BY MatchingPairs
  <1>11. \A t : Matches(PushBool(t), Returns(fromBool(t)), <<>>)
    BY MatchingPairs, Zenon
  <1>12. \A ops, arity, sensitive : Function(ops, arity, sensitive).ops = ops
    BY DEF Function
  <1>13. b # NoNumber /\ a # NoNumber <=> numbers
    BY <1>2
  <1> HIDE DEF p, q, a, b, v, w, machine, interpreter, numbers
  <1>14. ASSUME NEW opcode \in BinaryArithmetic \union Comparisons \union {"NUM2BIN"},
                NEW pushed, NEW result,
                opCreators[name].ops = <<opcode>>,
                numbers => Numeric(opcode, <<a, b>>) = pushed,
                interpreter = IF a = NoNumber \/ b = NoNumber THEN Raises ELSE result,
                numbers => Matches(pushed, result, <<>>)
         PROVE  Matches(machine, interpreter, <<>>)
    <2>1. machine = IF numbers THEN Numeric(opcode, <<a, b>>) ELSE Throws
      BY <1>3, <1>6, <1>14
    <2>2. CASE numbers
      <3>1. machine = pushed /\ interpreter = result
        BY <1>13, <1>14, <2>1, <2>2
      <3> QED BY <1>14, <2>2, <3>1
    <2>3. CASE ~numbers
      <3>1. machine = Throws /\ interpreter = Raises
        BY <1>13, <1>14, <2>1, <2>3
      <3> QED BY <1>10, <3>1
    <2> QED BY <2>2, <2>3
  <1>15. CASE name = "Add"
    <2>1. opCreators[name].ops = <<"ADD">>
      BY <1>15, MoreArguments DEF Function
    <2>2. numbers => Numeric("ADD", <<a, b>>) = PushInt(ToWord(a + b))
      BY <1>5, Zenon DEF NumericLeavesOf
    <2>3. interpreter = IF a = NoNumber \/ b = NoNumber THEN Raises
                        ELSE Returns(fromInt(ToWord(a + b)))
      BY <1>1, <1>4, <1>15, Zenon DEF TwoCalled, interpreter
    <2>4. numbers => Matches(PushInt(ToWord(a + b)), Returns(fromInt(ToWord(a + b))), <<>>)
      BY <1>8, <1>10
    <2> QED BY <1>7, <1>14, <2>1, <2>2, <2>3, <2>4
  <1>16. CASE name = "Mul"
    <2>1. opCreators[name].ops = <<"MUL">>
      BY <1>16, MoreArguments DEF Function
    <2>2. numbers => Numeric("MUL", <<a, b>>) = PushInt(ToWord(a * b))
      BY <1>5, Zenon DEF NumericLeavesOf
    <2>3. interpreter = IF a = NoNumber \/ b = NoNumber THEN Raises
                        ELSE Returns(fromInt(ToWord(a * b)))
      BY <1>1, <1>4, <1>16, Zenon DEF TwoCalled, interpreter
    <2>4. numbers => Matches(PushInt(ToWord(a * b)), Returns(fromInt(ToWord(a * b))), <<>>)
      BY <1>8, <1>10
    <2> QED BY <1>7, <1>14, <2>1, <2>2, <2>3, <2>4
  <1>17. CASE name = "Sub"
    <2>1. opCreators[name].ops = <<"SUB">>
      BY <1>17, MoreArguments DEF Function
    <2>2. numbers => Numeric("SUB", <<a, b>>) = PushInt(ToWord(a - b))
      BY <1>5, Zenon DEF NumericLeavesOf
    <2>3. interpreter = IF a = NoNumber \/ b = NoNumber THEN Raises
                        ELSE Returns(fromInt(ToWord(a - b)))
      BY <1>1, <1>4, <1>17, Zenon DEF TwoCalled, interpreter
    <2>4. numbers => Matches(PushInt(ToWord(a - b)), Returns(fromInt(ToWord(a - b))), <<>>)
      BY <1>8, <1>10
    <2> QED BY <1>7, <1>14, <2>1, <2>2, <2>3, <2>4
  <1>18. CASE name = "Div"
    <2> DEFINE pushed == IF Divides(a, b) THEN PushInt(ToWord(Quotient(a, b))) ELSE Throws
               result == IF Divides(a, b) THEN Returns(fromInt(Quotient(a, b))) ELSE Raises
    <2>1. opCreators[name].ops = <<"DIV">>
      BY <1>18, MoreArguments DEF Function
    <2>2. numbers => Numeric("DIV", <<a, b>>) = pushed
      BY <1>5, Zenon DEF NumericLeavesOf
    <2>3. interpreter = IF a = NoNumber \/ b = NoNumber THEN Raises ELSE result
      BY <1>1, <1>4, <1>18, Zenon DEF TwoCalled, interpreter
    <2>4. numbers => Matches(pushed, result, <<>>)
      BY <1>9, <1>10
    <2> HIDE DEF pushed, result
    <2> QED BY <1>7, <1>14, <2>1, <2>2, <2>3, <2>4
  <1>19. CASE name = "Mod"
    <2> DEFINE pushed == IF Divides(a, b) THEN PushInt(ToWord(Remainder(a, b))) ELSE Throws
               result == IF Divides(a, b) THEN Returns(fromInt(Remainder(a, b))) ELSE Raises
    <2>1. opCreators[name].ops = <<"MOD">>
      BY <1>19, MoreArguments DEF Function
    <2>2. numbers => Numeric("MOD", <<a, b>>) = pushed
      BY <1>5, Zenon DEF NumericLeavesOf
    <2>3. interpreter = IF a = NoNumber \/ b = NoNumber THEN Raises ELSE result
      BY <1>1, <1>4, <1>19, Zenon DEF TwoCalled, interpreter
    <2>4. numbers => Matches(pushed, result, <<>>)
      BY <1>9, <1>10
    <2> HIDE DEF pushed, result
    <2> QED BY <1>7, <1>14, <2>1, <2>2, <2>3, <2>4
  <1>20. CASE name = "NumEqual"
    <2>1. opCreators[name].ops = <<"NUMEQUAL">>
      BY <1>20, MoreArguments DEF Function
    <2>2. numbers => Numeric("NUMEQUAL", <<a, b>>) = PushBool(a = b)
      BY <1>5, Zenon DEF NumericLeavesOf
    <2>3. interpreter = IF a = NoNumber \/ b = NoNumber THEN Raises
                        ELSE Returns(fromBool(a = b))
      BY <1>1, <1>4, <1>20, Zenon DEF TwoCalled, interpreter
    <2> DEFINE pushed == PushBool(a = b)
               result == Returns(fromBool(a = b))
    <2>4. Matches(pushed, result, <<>>)
      BY <1>11, Zenon
    <2>5. numbers => Numeric("NUMEQUAL", <<a, b>>) = pushed
      BY <2>2
    <2>6. interpreter = IF a = NoNumber \/ b = NoNumber THEN Raises ELSE result
      BY <2>3
    <2> HIDE DEF pushed, result
    <2> QED BY <1>7, <1>14, <2>1, <2>4, <2>5, <2>6
  <1>21. CASE name = "NumNotEqual"
    <2>1. opCreators[name].ops = <<"NUMNOTEQUAL">>
      BY <1>21, MoreArguments DEF Function
    <2>2. numbers => Numeric("NUMNOTEQUAL", <<a, b>>) = PushBool(a # b)
      BY <1>5, Zenon DEF NumericLeavesOf
    <2>3. interpreter = IF a = NoNumber \/ b = NoNumber THEN Raises
                        ELSE Returns(fromBool(a # b))
      BY <1>1, <1>4, <1>21, Zenon DEF TwoCalled, interpreter
    <2> DEFINE pushed == PushBool(a # b)
               result == Returns(fromBool(a # b))
    <2>4. Matches(pushed, result, <<>>)
      BY <1>11, Zenon
    <2>5. numbers => Numeric("NUMNOTEQUAL", <<a, b>>) = pushed
      BY <2>2
    <2>6. interpreter = IF a = NoNumber \/ b = NoNumber THEN Raises ELSE result
      BY <2>3
    <2> HIDE DEF pushed, result
    <2> QED BY <1>7, <1>14, <2>1, <2>4, <2>5, <2>6
  <1>22. CASE name = "LessThan"
    <2>1. opCreators[name].ops = <<"LESSTHAN">>
      BY <1>22, MoreArguments DEF Function
    <2>2. numbers => Numeric("LESSTHAN", <<a, b>>) = PushBool(a < b)
      BY <1>5, Zenon DEF NumericLeavesOf
    <2>3. interpreter = IF a = NoNumber \/ b = NoNumber THEN Raises
                        ELSE Returns(fromBool(a < b))
      BY <1>1, <1>4, <1>22, Zenon DEF TwoCalled, interpreter
    <2> DEFINE pushed == PushBool(a < b)
               result == Returns(fromBool(a < b))
    <2>4. Matches(pushed, result, <<>>)
      BY <1>11, Zenon
    <2>5. numbers => Numeric("LESSTHAN", <<a, b>>) = pushed
      BY <2>2
    <2>6. interpreter = IF a = NoNumber \/ b = NoNumber THEN Raises ELSE result
      BY <2>3
    <2> HIDE DEF pushed, result
    <2> QED BY <1>7, <1>14, <2>1, <2>4, <2>5, <2>6
  <1>23. CASE name = "GreaterThan"
    <2>1. opCreators[name].ops = <<"GREATERTHAN">>
      BY <1>23, MoreArguments DEF Function
    <2>2. numbers => Numeric("GREATERTHAN", <<a, b>>) = PushBool(a > b)
      BY <1>5, Zenon DEF NumericLeavesOf
    <2>3. interpreter = IF a = NoNumber \/ b = NoNumber THEN Raises
                        ELSE Returns(fromBool(a > b))
      BY <1>1, <1>4, <1>23, Zenon DEF TwoCalled, interpreter
    <2> DEFINE pushed == PushBool(a > b)
               result == Returns(fromBool(a > b))
    <2>4. Matches(pushed, result, <<>>)
      BY <1>11, Zenon
    <2>5. numbers => Numeric("GREATERTHAN", <<a, b>>) = pushed
      BY <2>2
    <2>6. interpreter = IF a = NoNumber \/ b = NoNumber THEN Raises ELSE result
      BY <2>3
    <2> HIDE DEF pushed, result
    <2> QED BY <1>7, <1>14, <2>1, <2>4, <2>5, <2>6
  <1>24. CASE name = "Equal"
    <2>1. opCreators[name].ops = <<"EQUAL">>
      BY <1>24, MoreArguments DEF Function
    <2>2. machine = PushBool(p = q)
      <3>1. machine = executeOpcode("EQUAL", <<p, q>>)
        BY <1>3, <2>1
      <3> QED BY <1>4, <3>1, Zenon DEF BytesLeaveOf
    <2>3. interpreter = Returns(fromBool(p = q))
      BY <1>1, <1>4, <1>24, Zenon DEF TwoCalled, interpreter
    <2> QED BY <1>11, <2>2, <2>3, Zenon
  <1>25. CASE name = "EqualVerify"
    <2>1. opCreators[name].ops = <<"EQUAL", "VERIFY">>
      BY <1>25, MoreArguments DEF Function
    <2>2. executeOpcode("EQUAL", <<p, q>>) = PushBool(p = q)
      BY <1>4, Zenon DEF BytesLeaveOf
    <2>3. interpreter = Verified(p = q)
      BY <1>1, <1>4, <1>25, Zenon DEF TwoCalled, interpreter
    <2>4. machine = ExecuteOpcodes(<<"EQUAL", "VERIFY">>, <<p, q>>)
      BY <2>1 DEF machine
    <2>5. Matches(ExecuteOpcodes(<<"EQUAL", "VERIFY">>, <<p, q>>), Verified(p = q), <<>>)
      BY <2>2, ThenVerify, Zenon
    <2> QED BY <2>3, <2>4, <2>5, Zenon
  <1>26. CASE name = "NumEqualVerify"
    <2>1. opCreators[name].ops = <<"NUMEQUAL", "VERIFY">>
      BY <1>26, MoreArguments DEF Function
    <2>2. machine = ExecuteOpcodes(<<"NUMEQUAL", "VERIFY">>, <<p, q>>)
      BY <2>1 DEF machine
    <2>3. interpreter = IF a = NoNumber \/ b = NoNumber THEN Raises ELSE Verified(a = b)
      BY <1>1, <1>4, <1>26, Zenon DEF TwoCalled, interpreter
    <2>4. CASE numbers
      <3>1. executeOpcode("NUMEQUAL", <<p, q>>) = Numeric("NUMEQUAL", <<a, b>>)
        BY <1>6, <1>7, <2>4
      <3>2. Numeric("NUMEQUAL", <<a, b>>) = PushBool(a = b)
        BY <1>5, <2>4, Zenon DEF NumericLeavesOf
      <3>3. executeOpcode("NUMEQUAL", <<p, q>>) = PushBool(a = b)
        BY <3>1, <3>2, Zenon
      <3>4. Matches(ExecuteOpcodes(<<"NUMEQUAL", "VERIFY">>, <<p, q>>), Verified(a = b), <<>>)
        BY <3>3, ThenVerify, Zenon
      <3>5. interpreter = Verified(a = b)
        BY <1>13, <2>3, <2>4, Zenon
      <3> QED BY <2>2, <3>4, <3>5, Zenon
    <2>5. CASE ~numbers
      <3>1. executeOpcode("NUMEQUAL", <<p, q>>) = Throws
        BY <1>6, <1>7, <2>5
      <3>2. Throws.ok = FALSE
        BY DEF Throws
      <3>3. machine = Throws
        BY <2>2, <3>1, <3>2, OneAfterAnother
      <3>4. interpreter = Raises
        BY <1>13, <2>3, <2>5
      <3> QED BY <1>10, <3>3, <3>4
    <2> QED BY <2>4, <2>5
  <1>27. CASE name = "Cat"
    <2>1. opCreators[name].ops = <<"CAT">>
      BY <1>27, MoreArguments DEF Function
    <2>2. machine = Leaves(<<p \o q>>)
      <3>1. machine = executeOpcode("CAT", <<p, q>>)
        BY <1>3, <2>1
      <3> QED BY <1>4, <3>1, Zenon DEF BytesLeaveOf
    <2>3. interpreter = Returns(fromBytes(p \o q))
      BY <1>1, <1>4, <1>27, Zenon DEF TwoCalled, interpreter
    <2>4. p \o q \in Seq(Byte)
      BY <1>1, ConcatProperties
    <2> QED BY <1>10, <2>2, <2>3, <2>4
  <1>28. CASE name = "NumToBin"
    <2>1. opCreators[name].ops = <<"NUM2BIN">>
      BY <1>28, MoreArguments DEF Function
    <2>2. /\ a \in 0..SignOfByte - 1 /\ isNumber(p)
          /\ serializeScriptNum(a) = IF a = 0 THEN <<>> ELSE <<a>>
      BY <1>1, <1>28, OneByteIsRead DEF OneByteNumber, p, a
    <2>3. b = 1 /\ isNumber(q)
      <3>1. 1 \in Signed /\ 1 # -SignBit
        BY TrueAssumption, ModulusPositive
      <3> QED BY <1>28, <3>1, SerializedIsRead DEF q, b
    <2>4. numbers
      BY <2>2, <2>3 DEF numbers
    <2>5. Numeric("NUM2BIN", <<a, b>>) = Leaves(<<<<a>>>>)
      <3>1. Numeric("NUM2BIN", <<a, b>>) =
                IF b < 0 THEN Throws ELSE Leaves(<<NumToBinBytes(a, b)>>)
        BY <1>5, <2>4, Zenon DEF NumericLeavesOf
      <3> QED BY <2>2, <2>3, <3>1, OneByteFilled
    <2>6. interpreter = IF a = NoNumber \/ b = NoNumber THEN Raises ELSE numToBin(a, b)
      BY <1>1, <1>4, <1>28, Zenon DEF TwoCalled, interpreter
    <2>7. numToBin(a, b) = Returns(fromBytes(<<a>>)) /\ <<a>> \in Seq(Byte)
      BY <2>2, <2>3, OneByteFilled
    <2>8. Matches(Leaves(<<<<a>>>>), numToBin(a, b), <<>>)
      BY <1>10, <2>7
    <2> QED BY <1>14, <2>1, <2>5, <2>6, <2>8
  <1> QED BY <1>15, <1>16, <1>17, <1>18, <1>19, <1>20, <1>21, <1>22, <1>23, <1>24, <1>25, <1>26, <1>27, <1>28

(* The functions that do not care for the order of their arguments.        *)
LEMMA CallCommutes ==
    ASSUME NEW name \in {"Add", "Mul", "Equal", "EqualVerify", "NumEqual", "NumEqualVerify",
                         "NumNotEqual"},
           NEW x, NEW y, Agrees(x), Agrees(y), ~TooWide(x), ~TooWide(y)
    PROVE  callFunction(name, <<x.value, y.value>>) = callFunction(name, <<y.value, x.value>>)
  <1> DEFINE p == x.bytes
             q == y.bytes
             a == toInt(p)
             b == toInt(q)
             v == x.value
             w == y.value
             none == a = NoNumber \/ b = NoNumber
  <1>1. /\ toScriptBytes(v) = p /\ toScriptNum(v) = a
        /\ toScriptBytes(w) = q /\ toScriptNum(w) = b
        /\ a \in Signed \union {NoNumber} /\ b \in Signed \union {NoNumber}
    BY ReadAlike
  <1>2. TwoCalled(v, w) /\ TwoCalled(w, v)
    BY CallOfTwo
  <1>3. ~none => a + b = b + a /\ a * b = b * a
    <2>1. \A i, j \in Int : i + j = j + i /\ i * j = j * i
      BY SMT
    <2> QED BY <1>1, <2>1 DEF Signed
  <1> HIDE DEF p, q, a, b, v, w
  <1>4. ASSUME NEW there, NEW back,
               callFunction(name, <<v, w>>) = IF a = NoNumber \/ b = NoNumber THEN Raises ELSE there,
               callFunction(name, <<w, v>>) = IF b = NoNumber \/ a = NoNumber THEN Raises ELSE back,
               ~none => there = back
        PROVE  callFunction(name, <<v, w>>) = callFunction(name, <<w, v>>)
    BY <1>4
  <1> HIDE DEF none
  <1>5. CASE name = "Add"
    <2> DEFINE there == Returns(fromInt(ToWord(a + b)))
               back == Returns(fromInt(ToWord(b + a)))
    <2>1. callFunction(name, <<v, w>>) = IF a = NoNumber \/ b = NoNumber THEN Raises ELSE there
      BY <1>1, <1>2, <1>5, Zenon DEF TwoCalled
    <2>2. callFunction(name, <<w, v>>) = IF b = NoNumber \/ a = NoNumber THEN Raises ELSE back
      BY <1>1, <1>2, <1>5, Zenon DEF TwoCalled
    <2>3. ~none => there = back
      BY <1>3
    <2> HIDE DEF there, back
    <2>4. callFunction(name, <<v, w>>) = callFunction(name, <<w, v>>)
      BY <1>4, <2>1, <2>2, <2>3
    <2> QED BY <2>4 DEF v, w
  <1>6. CASE name = "Mul"
    <2> DEFINE there == Returns(fromInt(ToWord(a * b)))
               back == Returns(fromInt(ToWord(b * a)))
    <2>1. callFunction(name, <<v, w>>) = IF a = NoNumber \/ b = NoNumber THEN Raises ELSE there
      BY <1>1, <1>2, <1>6, Zenon DEF TwoCalled
    <2>2. callFunction(name, <<w, v>>) = IF b = NoNumber \/ a = NoNumber THEN Raises ELSE back
      BY <1>1, <1>2, <1>6, Zenon DEF TwoCalled
    <2>3. ~none => there = back
      BY <1>3
    <2> HIDE DEF there, back
    <2>4. callFunction(name, <<v, w>>) = callFunction(name, <<w, v>>)
      BY <1>4, <2>1, <2>2, <2>3
    <2> QED BY <2>4 DEF v, w
  <1>7. CASE name = "NumEqual"
    <2> DEFINE there == Returns(fromBool(a = b))
               back == Returns(fromBool(b = a))
    <2>1. callFunction(name, <<v, w>>) = IF a = NoNumber \/ b = NoNumber THEN Raises ELSE there
      BY <1>1, <1>2, <1>7, Zenon DEF TwoCalled
    <2>2. callFunction(name, <<w, v>>) = IF b = NoNumber \/ a = NoNumber THEN Raises ELSE back
      BY <1>1, <1>2, <1>7, Zenon DEF TwoCalled
    <2>3. ~none => there = back
      <3>1. (a = b) = (b = a)
        OBVIOUS
      <3> QED BY <3>1, Zenon
    <2> HIDE DEF there, back
    <2>4. callFunction(name, <<v, w>>) = callFunction(name, <<w, v>>)
      BY <1>4, <2>1, <2>2, <2>3
    <2> QED BY <2>4 DEF v, w
  <1>8. CASE name = "NumEqualVerify"
    <2> DEFINE there == Verified(a = b)
               back == Verified(b = a)
    <2>1. callFunction(name, <<v, w>>) = IF a = NoNumber \/ b = NoNumber THEN Raises ELSE there
      BY <1>1, <1>2, <1>8, Zenon DEF TwoCalled
    <2>2. callFunction(name, <<w, v>>) = IF b = NoNumber \/ a = NoNumber THEN Raises ELSE back
      BY <1>1, <1>2, <1>8, Zenon DEF TwoCalled
    <2>3. ~none => there = back
      <3>1. (a = b) = (b = a)
        OBVIOUS
      <3> QED BY <3>1, Zenon
    <2> HIDE DEF there, back
    <2>4. callFunction(name, <<v, w>>) = callFunction(name, <<w, v>>)
      BY <1>4, <2>1, <2>2, <2>3
    <2> QED BY <2>4 DEF v, w
  <1>9. CASE name = "NumNotEqual"
    <2> DEFINE there == Returns(fromBool(a # b))
               back == Returns(fromBool(b # a))
    <2>1. callFunction(name, <<v, w>>) = IF a = NoNumber \/ b = NoNumber THEN Raises ELSE there
      BY <1>1, <1>2, <1>9, Zenon DEF TwoCalled
    <2>2. callFunction(name, <<w, v>>) = IF b = NoNumber \/ a = NoNumber THEN Raises ELSE back
      BY <1>1, <1>2, <1>9, Zenon DEF TwoCalled
    <2>3. ~none => there = back
      <3>1. (a # b) = (b # a)
        OBVIOUS
      <3> QED BY <3>1, Zenon
    <2> HIDE DEF there, back
    <2>4. callFunction(name, <<v, w>>) = callFunction(name, <<w, v>>)
      BY <1>4, <2>1, <2>2, <2>3
    <2> QED BY <2>4 DEF v, w
  <1>10. CASE name = "Equal"
    <2>1. callFunction(name, <<v, w>>) = Returns(fromBool(p = q))
      BY <1>1, <1>2, <1>10, Zenon DEF TwoCalled
    <2>2. callFunction(name, <<w, v>>) = Returns(fromBool(q = p))
      BY <1>1, <1>2, <1>10, Zenon DEF TwoCalled
    <2>3. (p = q) = (q = p)
      OBVIOUS
    <2>4. callFunction(name, <<v, w>>) = callFunction(name, <<w, v>>)
      BY <2>1, <2>2, <2>3, Zenon
    <2> QED BY <2>4 DEF v, w
  <1>11. CASE name = "EqualVerify"
    <2>1. callFunction(name, <<v, w>>) = Verified(p = q)
      BY <1>1, <1>2, <1>11, Zenon DEF TwoCalled
    <2>2. callFunction(name, <<w, v>>) = Verified(q = p)
      BY <1>1, <1>2, <1>11, Zenon DEF TwoCalled
    <2>3. (p = q) = (q = p)
      OBVIOUS
    <2>4. callFunction(name, <<v, w>>) = callFunction(name, <<w, v>>)
      BY <2>1, <2>2, <2>3, Zenon
    <2> QED BY <2>4 DEF v, w
  <1> QED BY <1>5, <1>6, <1>7, <1>8, <1>9, <1>10, <1>11

(* The bytes of a value from one place to another.                         *)
LEMMA Sliced ==
    ASSUME NEW p \in Seq(Byte), NEW i \in 0..Len(p), NEW j \in i..Len(p)
    PROVE  /\ SubSeq(p, i + 1, j) \in Seq(Byte)
           /\ Len(SubSeq(p, i + 1, j)) = j - i
           /\ \A k \in 1..j - i : SubSeq(p, i + 1, j)[k] = p[i + k]
  <1> DEFINE s == SubSeq(p, i + 1, j)
  <1>1. i + 1 \in 1..Len(p) + 1 /\ j \in i..Len(p) /\ i \in Nat /\ j \in Nat
    OBVIOUS
  <1>2. i + 1 \in Int /\ j \in Int /\ (i + 1) - 1 = i /\ Len(p) \in Nat
    BY <1>1
  <1>3. s = [k \in 1..j - i |-> p[i + k]]
    <2>1. s = [k \in 1..(j - (i + 1) + 1) |-> p[k + (i + 1) - 1]]
      OBVIOUS
    <2>2. j - (i + 1) + 1 = j - i
      BY <1>1
    <2>3. \A k \in 1..j - i : k + (i + 1) - 1 = i + k
      BY <1>1
    <2> QED BY <2>1, <2>2, <2>3
  <1>4. j - i \in Nat
    BY <1>1
  <1>5. \A k \in 1..j - i : i + k \in 1..Len(p) /\ p[i + k] \in Byte
    BY <1>1
  <1>6. s \in [1..j - i -> Byte]
    BY <1>3, <1>5
  <1> HIDE DEF s
  <1>7. s \in Seq(Byte) /\ Len(s) = j - i
    BY <1>4, <1>6
  <1> QED BY <1>3, <1>7 DEF s

(* What is left of a slice of a slice.                                     *)
LEMMA SlicedTwice ==
    ASSUME NEW p \in Seq(Byte), NEW i \in 0..Len(p), NEW n \in 0..Len(p) - i
    PROVE  LET rest == SubSeq(p, i + 1, Len(p))
           IN  /\ rest \in Seq(Byte) /\ Len(rest) = Len(p) - i
               /\ SubSeq(rest, 1, n) = SubSeq(p, i + 1, i + n)
               /\ SubSeq(rest, 1, n) \in Seq(Byte)
  <1> DEFINE rest == SubSeq(p, i + 1, Len(p))
             s == SubSeq(rest, 0 + 1, n)
             t == SubSeq(p, i + 1, i + n)
  <1>1. i \in Nat /\ n \in Nat /\ Len(p) \in i..Len(p) /\ i + n \in i..Len(p)
        /\ n \in 0..Len(p) - i /\ (i + n) - i = n /\ n - 0 = n
    OBVIOUS
  <1>2. /\ rest \in Seq(Byte) /\ Len(rest) = Len(p) - i
        /\ \A k \in 1..Len(p) - i : rest[k] = p[i + k]
    BY <1>1, Sliced
  <1>3. t \in Seq(Byte) /\ Len(t) = n /\ \A k \in 1..n : t[k] = p[i + k]
    BY <1>1, Sliced
  <1> HIDE DEF rest, t
  <1>4. 0 \in 0..Len(rest) /\ n \in 0..Len(rest)
    BY <1>1, <1>2
  <1>5. s \in Seq(Byte) /\ Len(s) = n /\ \A k \in 1..n : s[k] = rest[0 + k]
    BY <1>1, <1>2, <1>4, Sliced
  <1>6. \A k \in 1..n : s[k] = t[k]
    <2>1. \A k \in 1..n : 0 + k = k /\ k \in 1..Len(p) - i
      BY <1>1
    <2> HIDE DEF s
    <2> QED BY <1>2, <1>3, <1>5, <2>1
  <1> HIDE DEF s
  <1>7. s = t
    BY <1>3, <1>5, <1>6, SeqEqual
  <1> QED BY <1>2, <1>5, <1>7 DEF rest, s, t

(* The two ways processSliceBuiltin has of taking a part.                  *)
LEMMA PrefixAndSuffix ==
    ASSUME NEW p, NEW r
    PROVE  LET n == toInt(r)
               inside == n # NoNumber /\ n \in 0..Len(p)
           IN  /\ ExecuteOpcodes(<<"SPLIT", "DROP">>, <<p, r>>) =
                      IF inside THEN Leaves(<<SubSeq(p, 1, n)>>) ELSE Throws
               /\ ExecuteOpcodes(<<"SPLIT", "NIP">>, <<p, r>>) =
                      IF inside THEN Leaves(<<SubSeq(p, n + 1, Len(p))>>) ELSE Throws
  <1> DEFINE n == toInt(r)
             inside == n # NoNumber /\ n \in 0..Len(p)
             before == SubSeq(p, 1, n)
             after == SubSeq(p, n + 1, Len(p))
             split == executeOpcode("SPLIT", <<p, r>>)
  <1>1. split = IF inside THEN Leaves(<<before, after>>) ELSE Throws
    <2>1. BytesLeaveOf(p, r)
      BY BytesLeave
    <2>2. split = Split(p, n)
      BY <2>1, Zenon DEF BytesLeaveOf
    <2> QED BY <2>2 DEF Split
  <1> HIDE DEF n, inside, before, after, split
  <1>2. /\ executeOpcode("DROP", <<before, after>>) = Leaves(<<before>>)
        /\ executeOpcode("NIP", <<before, after>>) = Leaves(<<after>>)
    <2>1. BytesLeaveOf(before, after)
      BY BytesLeave
    <2> QED BY <2>1, Zenon DEF BytesLeaveOf
  <1>3. /\ Throws.ok = FALSE
        /\ \A items_ : Leaves(items_).ok = TRUE /\ Leaves(items_).items = items_
    BY DEF Throws, Leaves
  <1>4. \A op : ExecuteOpcodes(<<"SPLIT", op>>, <<p, r>>) =
                    IF split.ok THEN executeOpcode(op, split.items) ELSE split
    BY OneAfterAnother DEF split
  <1>5. /\ ExecuteOpcodes(<<"SPLIT", "DROP">>, <<p, r>>) =
               IF inside THEN Leaves(<<before>>) ELSE Throws
        /\ ExecuteOpcodes(<<"SPLIT", "NIP">>, <<p, r>>) =
               IF inside THEN Leaves(<<after>>) ELSE Throws
    BY <1>1, <1>2, <1>3, <1>4
  <1> QED BY <1>5 DEF n, inside, before, after

(* The interpreter's slice, where it moves no bound.                       *)
LEMMA SliceInside ==
    ASSUME NEW v, NEW p, toScriptBytes(v) = p, Len(p) \in Nat, NEW i \in Int, NEW n \in Int
    PROVE  /\ i \in {-1, 0} /\ n \in 0..Len(p) =>
                  sliceBytes(v, i, n) = Returns(fromBytes(SubSeq(p, 1, n)))
           /\ i \in 0..Len(p) /\ n = -1 =>
                  sliceBytes(v, i, n) = Returns(fromBytes(SubSeq(p, i + 1, Len(p))))
           /\ i \in 0..Len(p) /\ n \in 0..Len(p) - i =>
                  sliceBytes(v, i, n) = Returns(fromBytes(SubSeq(p, i + 1, i + n)))
  <1> DEFINE least(a, b) == IF a < b THEN a ELSE b
             start == IF i < 0 THEN 0 ELSE least(i, Len(p))
             stop == IF n < 0 THEN Len(p) ELSE least(start + n, Len(p))
  <1>1. sliceBytes(v, i, n) = Returns(fromBytes(SubSeq(p, start + 1, stop)))
    BY DEF sliceBytes
  <1>2. i \in {-1, 0} /\ n \in 0..Len(p) => start = 0 /\ stop = n /\ 0 + 1 = 1
    OBVIOUS
  <1>3. i \in 0..Len(p) /\ n = -1 => start = i /\ stop = Len(p)
    OBVIOUS
  <1>4. i \in 0..Len(p) /\ n \in 0..Len(p) - i => start = i /\ stop = i + n
    OBVIOUS
  <1> HIDE DEF start, stop
  <1> QED BY <1>1, <1>2, <1>3, <1>4

(* A slice within the value.                                               *)
LEMMA SliceMatches ==
    ASSUME NEW x, NEW y, NEW z, Agrees(x), Agrees(y), Agrees(z),
           ~TooWide(x), ~TooWide(y), ~TooWide(z),
           ~SliceRejected(y, z), SliceInBounds(x, y, z)
    PROVE  Matches(ExecuteSlice(x, y, z),
                   callFunction("Slice", <<x.value, y.value, z.value>>), <<>>)
  <1> DEFINE p == x.bytes
             v == x.value
             i == toInt(y.bytes)
             n == toInt(z.bytes)
             atEnd == isLiteral(y) /\ y.known \in {-1, 0}
             toEnd == isLiteralValue(z, -1)
             machine == ExecuteSlice(x, y, z)
             interpreter == callFunction("Slice", <<v, y.value, z.value>>)
             inside(k, s) == k # NoNumber /\ k \in 0..Len(s)
  <1> SUFFICES Matches(machine, interpreter, <<>>)
    OBVIOUS
  <1>1. /\ toScriptBytes(v) = p /\ p \in Seq(Byte) /\ Len(p) \in Nat
        /\ toScriptNum(y.value) = i /\ toScriptNum(z.value) = n
        /\ i \in Signed \union {NoNumber} /\ n \in Signed \union {NoNumber}
    BY ReadAlike DEF Agrees
  <1>2. /\ \A k \in Signed : k \in Int
        /\ NoNumber \notin Int
    BY NoNumberAssumption DEF Signed
  <1>3. (isLiteral(y) => y.known = i /\ i # NoNumber) /\ (isLiteral(z) => z.known = n /\ n # NoNumber)
    BY ReadAlike DEF isNumber
  <1>4. /\ (isNumber(y.bytes) <=> i # NoNumber) /\ (isNumber(z.bytes) <=> n # NoNumber)
    BY DEF isNumber
  <1>5. (atEnd => i \in {-1, 0}) /\ (toEnd => n = -1) /\ ~(atEnd /\ toEnd)
    BY <1>3 DEF isLiteralValue, SliceRejected
  <1>6. interpreter = IF i = NoNumber \/ n = NoNumber THEN Raises ELSE sliceBytes(v, i, n)
    BY <1>1, CallOfSlice
  <1>7. \A s, r : /\ ExecuteOpcodes(<<"SPLIT", "DROP">>, <<s, r>>) =
                         IF inside(toInt(r), s) THEN Leaves(<<SubSeq(s, 1, toInt(r))>>) ELSE Throws
                  /\ ExecuteOpcodes(<<"SPLIT", "NIP">>, <<s, r>>) =
                         IF inside(toInt(r), s)
                         THEN Leaves(<<SubSeq(s, toInt(r) + 1, Len(s))>>) ELSE Throws
    BY PrefixAndSuffix
  <1> DEFINE head == ExecuteOpcodes(<<"SPLIT", "DROP">>, <<p, z.bytes>>)
             rest == ExecuteOpcodes(<<"SPLIT", "NIP">>, <<p, y.bytes>>)
             part == ExecuteOpcodes(<<"SPLIT", "DROP">>, <<rest.items[1], z.bytes>>)
  <1>8. /\ atEnd => machine = head
        /\ ~atEnd /\ toEnd => machine = rest
        /\ ~atEnd /\ ~toEnd => machine = IF rest.ok THEN part ELSE rest
    <2>1. machine = CASE atEnd -> head
                      [] toEnd -> rest
                      [] OTHER -> IF rest.ok THEN part ELSE rest
      BY DEF ExecuteSlice
    <2> HIDE DEF machine, atEnd, toEnd, head, rest, part
    <2> QED BY <1>5, <2>1
  <1>9. head = IF inside(n, p) THEN Leaves(<<SubSeq(p, 1, n)>>) ELSE Throws
    BY <1>7
  <1>10. rest = IF inside(i, p) THEN Leaves(<<SubSeq(p, i + 1, Len(p))>>) ELSE Throws
    BY <1>7
  <1>11. /\ Throws.ok = FALSE
         /\ \A s : Leaves(<<s>>).ok = TRUE /\ Leaves(<<s>>).items[1] = s
    BY DEF Throws, Leaves
  <1>12. part = LET s == rest.items[1]
                IN  IF inside(n, s) THEN Leaves(<<SubSeq(s, 1, n)>>) ELSE Throws
    BY <1>7
  <1>13. /\ Matches(Throws, Raises, <<>>)
         /\ \A s \in Seq(Byte) : Matches(Leaves(<<s>>), Returns(fromBytes(s)), <<>>)
    BY MatchingPairs
  <1>14. \/ i = NoNumber \/ n = NoNumber
         \/ LET first == IF isLiteral(y) /\ y.known = -1 THEN 0 ELSE i
            IN  /\ first \in 0..Len(p)
                /\ toEnd \/ n \in 0..Len(p) - first
    BY <1>4 DEF SliceInBounds
  <1>15. /\ atEnd => (IF isLiteral(y) /\ y.known = -1 THEN 0 ELSE i) = 0
         /\ ~atEnd => (IF isLiteral(y) /\ y.known = -1 THEN 0 ELSE i) = i
    BY <1>3
  <1>16. i = NoNumber \/ n = NoNumber
            \/ (atEnd /\ n \in 0..Len(p))
            \/ (~atEnd /\ i \in 0..Len(p) /\ (toEnd \/ n \in 0..Len(p) - i))
    BY <1>1, <1>5, <1>14, <1>15
  <1>17. isLiteral(y) => i # NoNumber
    BY <1>3
  <1>18. toEnd => n # NoNumber
    BY <1>3 DEF isLiteralValue
  <1>19. /\ i # NoNumber /\ n # NoNumber => i \in Int /\ n \in Int
    BY <1>1, <1>2
  <1>20. atEnd => i # NoNumber
    BY <1>17
  <1>21. i # NoNumber /\ n # NoNumber =>
             /\ i \in {-1, 0} /\ n \in 0..Len(p) =>
                    sliceBytes(v, i, n) = Returns(fromBytes(SubSeq(p, 1, n)))
             /\ i \in 0..Len(p) /\ n = -1 =>
                    sliceBytes(v, i, n) = Returns(fromBytes(SubSeq(p, i + 1, Len(p))))
             /\ i \in 0..Len(p) /\ n \in 0..Len(p) - i =>
                    sliceBytes(v, i, n) = Returns(fromBytes(SubSeq(p, i + 1, i + n)))
    BY <1>1, <1>19, SliceInside
  <1> HIDE DEF p, v, i, n, atEnd, toEnd, machine, interpreter, inside, head, rest, part
  <1>22. CASE n = NoNumber
    <2>1. interpreter = Raises
      BY <1>6, <1>22
    <2>2. ~inside(n, p) /\ \A s : ~inside(n, s)
      BY <1>22 DEF inside
    <2>3. machine = Throws
      BY <1>8, <1>9, <1>10, <1>11, <1>12, <1>18, <1>22, <2>2
    <2> QED BY <1>13, <2>1, <2>3
  <1>23. CASE n # NoNumber /\ i = NoNumber
    <2>1. interpreter = Raises
      BY <1>6, <1>23
    <2>2. ~inside(i, p) /\ ~atEnd
      BY <1>23, <1>20 DEF inside
    <2>3. machine = Throws
      BY <1>8, <1>10, <1>11, <2>2
    <2> QED BY <1>13, <2>1, <2>3
  <1>24. CASE n # NoNumber /\ i # NoNumber /\ atEnd
    <2>1. n \in 0..Len(p) /\ i \in {-1, 0}
      BY <1>5, <1>16, <1>24
    <2>2. machine = Leaves(<<SubSeq(p, 1, n)>>)
      BY <1>8, <1>9, <1>24, <2>1 DEF inside
    <2>3. interpreter = Returns(fromBytes(SubSeq(p, 1, n)))
      BY <1>6, <1>24, <1>21, <2>1
    <2>4. SubSeq(p, 0 + 1, n) \in Seq(Byte) /\ 0 + 1 = 1
      BY <1>1, <2>1, Sliced
    <2> QED BY <1>13, <2>2, <2>3, <2>4
  <1>25. CASE n # NoNumber /\ i # NoNumber /\ ~atEnd
    <2>1. i \in 0..Len(p)
      BY <1>16, <1>25
    <2>2. rest = Leaves(<<SubSeq(p, i + 1, Len(p))>>)
      BY <1>10, <1>25, <2>1 DEF inside
    <2>3. CASE toEnd
      <3>1. machine = Leaves(<<SubSeq(p, i + 1, Len(p))>>)
        BY <1>8, <1>25, <2>2, <2>3
      <3>2. interpreter = Returns(fromBytes(SubSeq(p, i + 1, Len(p))))
        BY <1>5, <1>6, <1>25, <1>21, <2>1, <2>3
      <3>3. SubSeq(p, i + 1, Len(p)) \in Seq(Byte)
        BY <1>1, <2>1, Sliced
      <3> QED BY <1>13, <3>1, <3>2, <3>3
    <2>4. CASE ~toEnd
      <3> DEFINE s == SubSeq(p, i + 1, Len(p))
                 t == SubSeq(p, i + 1, i + n)
      <3>1. n \in 0..Len(p) - i
        BY <1>16, <1>25, <2>4
      <3>2. s \in Seq(Byte) /\ Len(s) = Len(p) - i /\ SubSeq(s, 1, n) = t /\ t \in Seq(Byte)
        BY <1>1, <2>1, <3>1, SlicedTwice
      <3> HIDE DEF s, t
      <3>3. rest = Leaves(<<s>>)
        BY <2>2 DEF s
      <3>4. rest.ok = TRUE /\ rest.items[1] = s
        BY <1>11, <3>3
      <3>5. part = Leaves(<<t>>)
        BY <1>12, <1>25, <3>1, <3>2, <3>4 DEF inside
      <3>6. machine = Leaves(<<t>>)
        BY <1>8, <1>25, <2>4, <3>4, <3>5
      <3>7. interpreter = Returns(fromBytes(t))
        BY <1>6, <1>25, <1>21, <2>1, <3>1 DEF t
      <3> QED BY <1>13, <3>2, <3>6, <3>7
    <2> QED BY <2>3, <2>4
  <1> QED BY <1>22, <1>23, <1>24, <1>25

(* The values and the bytes of one, two and three operands.                *)
LEMMA FieldsOf ==
    /\ \A x : LET args == <<x>>
              IN  /\ DOMAIN args = {1} /\ args[1] = x
                  /\ [k \in DOMAIN args |-> args[k].value] = <<x.value>>
                  /\ [k \in DOMAIN args |-> args[k].bytes] = <<x.bytes>>
    /\ \A x, y : LET args == <<x, y>>
                 IN  /\ DOMAIN args = {1, 2} /\ args[1] = x /\ args[2] = y
                     /\ [k \in DOMAIN args |-> args[k].value] = <<x.value, y.value>>
                     /\ [k \in DOMAIN args |-> args[k].bytes] = <<x.bytes, y.bytes>>
    /\ \A x, y, z : LET args == <<x, y, z>>
                    IN  /\ DOMAIN args = {1, 2, 3}
                        /\ args[1] = x /\ args[2] = y /\ args[3] = z
                        /\ [k \in DOMAIN args |-> args[k].value] = <<x.value, y.value, z.value>>
    /\ \A p, q : Reverse(<<p, q>>) = <<q, p>>
  <1>1. \A x : LET args == <<x>>
               IN  /\ DOMAIN args = {1} /\ args[1] = x
                   /\ [k \in DOMAIN args |-> args[k].value] = <<x.value>>
                   /\ [k \in DOMAIN args |-> args[k].bytes] = <<x.bytes>>
    OBVIOUS
  <1>2. \A x, y : LET args == <<x, y>>
                  IN  /\ DOMAIN args = {1, 2} /\ args[1] = x /\ args[2] = y
                      /\ [k \in DOMAIN args |-> args[k].value] = <<x.value, y.value>>
                      /\ [k \in DOMAIN args |-> args[k].bytes] = <<x.bytes, y.bytes>>
    OBVIOUS
  <1>3. \A x, y, z : LET args == <<x, y, z>>
                     IN  /\ DOMAIN args = {1, 2, 3}
                         /\ args[1] = x /\ args[2] = y /\ args[3] = z
                         /\ [k \in DOMAIN args |-> args[k].value] = <<x.value, y.value, z.value>>
    BY SMT
  <1>4. \A p, q : Reverse(<<p, q>>) = <<q, p>>
    <2> SUFFICES ASSUME NEW p, NEW q PROVE Reverse(<<p, q>>) = <<q, p>>
      OBVIOUS
    <2> DEFINE s == <<p, q>>
               r == Reverse(s)
    <2>1. Len(s) = 2 /\ s[1] = p /\ s[2] = q
      OBVIOUS
    <2> HIDE DEF s
    <2>2. r = [i \in 1..2 |-> s[2 - i + 1]]
      BY <2>1 DEF Reverse
    <2>3. r[1] = q /\ r[2] = p /\ r \in [1..2 -> {p, q}]
      <3>1. \A i \in 1..2 : i = 1 \/ i = 2
        OBVIOUS
      <3>2. 2 - 1 + 1 = 2 /\ 2 - 2 + 1 = 1
        OBVIOUS
      <3> QED BY <2>1, <2>2, <3>1, <3>2
    <2>4. r \in Seq({p, q}) /\ Len(r) = 2
      <3> HIDE DEF r
      <3>1. r \in Seq({p, q})
        <4>1. \A S : \A n \in Nat : \A f : f \in [1..n -> S] => f \in Seq(S)
          BY SeqDef, Zenon
        <4>2. 2 \in Nat /\ r \in [1..2 -> {p, q}]
          BY <2>3
        <4> HIDE DEF r
        <4> QED BY <4>1, <4>2, Zenon
      <3>2. DOMAIN r = 1..2
        BY <2>3
      <3>3. DOMAIN r = 1..Len(r) /\ Len(r) \in Nat
        BY <3>1
      <3>4. \A m, n \in Nat : 1..m = 1..n => m = n
        OBVIOUS
      <3> QED BY <3>1, <3>2, <3>3, <3>4
    <2> HIDE DEF r
    <2>5. r = <<q, p>>
      BY <2>3, <2>4
    <2> QED BY <2>5 DEF r, s
  <1> QED BY <1>1, <1>2, <1>3, <1>4

(* Sequences of one, two and three.                                        *)
LEMMA Tuples ==
    ASSUME NEW S, NEW s \in Seq(S)
    PROVE  /\ Len(s) = 1 => s = <<s[1]>> /\ s[1] \in S
           /\ Len(s) = 2 => s = <<s[1], s[2]>> /\ s[1] \in S /\ s[2] \in S
           /\ Len(s) = 3 => s = <<s[1], s[2], s[3]>> /\ s[1] \in S /\ s[2] \in S /\ s[3] \in S
  OBVIOUS

(* The functions of opCreators that take one argument, those that take     *)
(* two, and those whose arguments the compiler may exchange.               *)
OneArgumentNames ==
    {"Inc", "Dec", "Neg", "Abs", "Not", "ZeroNotEqual", "Verify", "Size", "BinToNum"}
TwoArgumentNames ==
    {"Add", "Mul", "Sub", "Div", "Mod", "Equal", "EqualVerify", "NumEqual", "NumEqualVerify",
     "NumNotEqual", "LessThan", "GreaterThan", "Cat", "NumToBin"}
CommutingNames ==
    {"Add", "Mul", "Equal", "EqualVerify", "NumEqual", "NumEqualVerify", "NumNotEqual"}

(* The names of opCreators, their arities, and which may be turned round.  *)
LEMMA NamesOf ==
    /\ \A name \in DOMAIN opCreators :
           name \in OneArgumentNames \union TwoArgumentNames \union {"Slice"}
    /\ \A name \in OneArgumentNames : opCreators[name].arity = 1
    /\ \A name \in TwoArgumentNames :
           /\ opCreators[name].arity = 2
           /\ ~opCreators[name].sensitive => name \in CommutingNames
    /\ opCreators["Slice"].arity = 3
  <1>1. DOMAIN UnaryFunctions = {"Inc", "Dec", "Neg", "Abs", "Not", "ZeroNotEqual", "Verify"}
    BY DEF UnaryFunctions
  <1>2. DOMAIN ArithmeticFunctions = {"Add", "Mul", "Sub", "Div", "Mod"}
    BY DEF ArithmeticFunctions
  <1>3. DOMAIN ComparisonFunctions = {"Equal", "EqualVerify", "NumEqual", "NumEqualVerify",
                                      "NumNotEqual", "LessThan", "GreaterThan"}
    BY DEF ComparisonFunctions
  <1>4. DOMAIN ByteFunctions = {"Cat", "Size", "NumToBin", "BinToNum", "Slice"}
    BY DEF ByteFunctions
  <1>5. DOMAIN opCreators = DOMAIN UnaryFunctions \union DOMAIN ArithmeticFunctions
                                \union DOMAIN ComparisonFunctions \union DOMAIN ByteFunctions
    BY DEF opCreators
  <1>6. \A name \in DOMAIN opCreators :
            name \in OneArgumentNames \union TwoArgumentNames \union {"Slice"}
    BY <1>1, <1>2, <1>3, <1>4, <1>5 DEF OneArgumentNames, TwoArgumentNames
  <1>8. \A name \in OneArgumentNames : \E ops : opCreators[name] = Function(ops, 1, FALSE)
    BY OneArgument DEF OneArgumentNames
  <1>9. \A name \in CommutingNames : \E ops : opCreators[name] = Function(ops, 2, FALSE)
    BY MoreArguments DEF CommutingNames
  <1>10. \A name \in TwoArgumentNames \ CommutingNames :
             \E ops : opCreators[name] = Function(ops, 2, TRUE)
    BY MoreArguments DEF CommutingNames, TwoArgumentNames
  <1>11. opCreators["Slice"].arity = 3
    BY MoreArguments DEF Function
  <1>12. ASSUME NEW name \in OneArgumentNames PROVE opCreators[name].arity = 1
    <2>1. PICK ops : opCreators[name] = Function(ops, 1, FALSE)
      BY <1>8
    <2> QED BY <2>1 DEF Function
  <1>13. ASSUME NEW name \in TwoArgumentNames
         PROVE  /\ opCreators[name].arity = 2
                /\ ~opCreators[name].sensitive => name \in CommutingNames
    <2>1. CASE name \in CommutingNames
      <3>1. PICK ops : opCreators[name] = Function(ops, 2, FALSE)
        BY <1>9, <2>1
      <3> QED BY <2>1, <3>1 DEF Function
    <2>2. CASE name \notin CommutingNames
      <3>1. opCreators[name].arity = 2 /\ opCreators[name].sensitive = TRUE
        <4>1. PICK ops : opCreators[name] = Function(ops, 2, TRUE)
          BY <1>10, <2>2
        <4> QED BY <4>1 DEF Function
      <3> QED BY <3>1
    <2> QED BY <2>1, <2>2
  <1> QED BY <1>6, <1>11, <1>12, <1>13

(* The ways out of the machine and the interpreter that are known to be    *)
(* different, all excluded.                                                *)
AllExcluded == {"least", "falseBytes", "identity", "byteOrder", "sliceBounds"} \subseteq Excluded

(* A call.                                                                 *)
LEMMA CallMatches ==
    ASSUME AllExcluded, NEW name \in DOMAIN opCreators, NEW S, NEW args \in Seq(S),
           \A x \in S : Agrees(x), Len(args) = opCreators[name].arity,
           ~CallDiffers(name, args),
           ~(name = "Slice" /\ SliceRejected(args[2], args[3])),
           NEW machine \in ExecuteCall(name, args)
    PROVE  LET value == [k \in DOMAIN args |-> args[k].value]
           IN  Matches(machine, callFunction(name, value),
                       IF name = "Size" THEN value ELSE <<>>)
  <1> DEFINE value == [k \in DOMAIN args |-> args[k].value]
             bytes == [k \in DOMAIN args |-> args[k].bytes]
             ops == opCreators[name].ops
  <1>1. \A k \in DOMAIN args : ~TooWide(args[k])
    BY DEF CallDiffers, AllExcluded
  <1>2. name # "Slice" =>
            \/ machine = ExecuteOpcodes(ops, bytes)
            \/ /\ opCreators[name].arity = 2 /\ ~opCreators[name].sensitive
               /\ machine = ExecuteOpcodes(ops, Reverse(bytes))
    BY DEF ExecuteCall
  <1>3. CASE name \in OneArgumentNames
    <2> DEFINE x == args[1]
    <2>1. args = <<x>> /\ x \in S
      BY <1>3, NamesOf, Tuples
    <2>2. value = <<x.value>> /\ bytes = <<x.bytes>> /\ 1 \in DOMAIN args
      BY <2>1, FieldsOf
    <2>3. Agrees(x) /\ ~TooWide(x)
      BY <1>1, <2>1, <2>2
    <2>4. /\ name \in {"Not", "Verify"} => ~FalseBytes(x)
          /\ name \in {"Not", "ZeroNotEqual"} => isNumber(x.bytes)
          /\ name = "BinToNum" => OneByteNumber(x)
      BY DEF CallDiffers, AllExcluded
    <2>5. name # "Slice" /\ opCreators[name].arity = 1
      BY <1>3, NamesOf DEF OneArgumentNames
    <2>6. machine = ExecuteOpcodes(ops, <<x.bytes>>)
      BY <1>2, <2>2, <2>5
    <2> HIDE DEF x, value
    <2>7. Matches(ExecuteOpcodes(ops, <<x.bytes>>), callFunction(name, <<x.value>>),
                  IF name = "Size" THEN <<x.value>> ELSE <<>>)
      BY <1>3, <2>3, <2>4, UnaryMatches DEF OneArgumentNames
    <2>8. Matches(machine, callFunction(name, value), IF name = "Size" THEN value ELSE <<>>)
      BY <2>2, <2>6, <2>7
    <2> QED BY <2>8 DEF value
  <1>4. CASE name \in TwoArgumentNames
    <2> DEFINE x == args[1]
               y == args[2]
    <2>1. args = <<x, y>> /\ x \in S /\ y \in S
      BY <1>4, NamesOf, Tuples
    <2>2. value = <<x.value, y.value>> /\ bytes = <<x.bytes, y.bytes>>
          /\ 1 \in DOMAIN args /\ 2 \in DOMAIN args
      BY <2>1, FieldsOf
    <2>3. Agrees(x) /\ ~TooWide(x) /\ Agrees(y) /\ ~TooWide(y)
      BY <1>1, <2>1, <2>2
    <2>4. name = "NumToBin" => OneByteNumber(x) /\ y.bytes = serializeScriptNum(1)
      BY DEF CallDiffers, AllExcluded
    <2>5. name # "Slice" /\ name # "Size"
          /\ (~opCreators[name].sensitive => name \in CommutingNames)
      BY <1>4, NamesOf DEF TwoArgumentNames
    <2>6. Reverse(bytes) = <<y.bytes, x.bytes>>
      BY <2>2, FieldsOf
    <2>7. \/ machine = ExecuteOpcodes(ops, <<x.bytes, y.bytes>>)
          \/ name \in CommutingNames /\ machine = ExecuteOpcodes(ops, <<y.bytes, x.bytes>>)
      BY <1>2, <2>2, <2>5, <2>6
    <2> HIDE DEF x, y, value
    <2>8. Matches(ExecuteOpcodes(ops, <<x.bytes, y.bytes>>),
                  callFunction(name, <<x.value, y.value>>), <<>>)
      BY <1>4, <2>3, <2>4, BinaryMatches DEF TwoArgumentNames
    <2>9. name \in CommutingNames =>
              Matches(ExecuteOpcodes(ops, <<y.bytes, x.bytes>>),
                      callFunction(name, <<x.value, y.value>>), <<>>)
      <3> SUFFICES ASSUME name \in CommutingNames
                   PROVE  Matches(ExecuteOpcodes(ops, <<y.bytes, x.bytes>>),
                                  callFunction(name, <<x.value, y.value>>), <<>>)
        OBVIOUS
      <3>1. name # "NumToBin"
        BY DEF CommutingNames
      <3>2. Matches(ExecuteOpcodes(ops, <<y.bytes, x.bytes>>),
                    callFunction(name, <<y.value, x.value>>), <<>>)
        BY <1>4, <2>3, <3>1, BinaryMatches DEF TwoArgumentNames
      <3>3. callFunction(name, <<x.value, y.value>>) = callFunction(name, <<y.value, x.value>>)
        BY <2>3, CallCommutes DEF CommutingNames
      <3> QED BY <3>2, <3>3
    <2>10. Matches(machine, callFunction(name, value), <<>>)
      BY <2>2, <2>7, <2>8, <2>9
    <2> QED BY <2>5, <2>10 DEF value
  <1>5. CASE name = "Slice"
    <2> DEFINE x == args[1]
               y == args[2]
               z == args[3]
    <2>1. args = <<x, y, z>> /\ x \in S /\ y \in S /\ z \in S
      BY <1>5, NamesOf, Tuples
    <2>2. value = <<x.value, y.value, z.value>>
          /\ 1 \in DOMAIN args /\ 2 \in DOMAIN args /\ 3 \in DOMAIN args
      BY <2>1, FieldsOf
    <2>3. Agrees(x) /\ ~TooWide(x) /\ Agrees(y) /\ ~TooWide(y) /\ Agrees(z) /\ ~TooWide(z)
      BY <1>1, <2>1, <2>2
    <2>4. SliceInBounds(x, y, z) /\ ~SliceRejected(y, z)
      BY <1>5 DEF CallDiffers, AllExcluded
    <2>5. machine = ExecuteSlice(x, y, z)
      BY <1>5 DEF ExecuteCall
    <2> HIDE DEF x, y, z, value
    <2>6. Matches(ExecuteSlice(x, y, z), callFunction("Slice", <<x.value, y.value, z.value>>),
                  <<>>)
      BY <2>3, <2>4, SliceMatches
    <2>7. Matches(machine, callFunction(name, value), <<>>)
      BY <1>5, <2>2, <2>5, <2>6
    <2> QED BY <1>5, <2>7 DEF value
  <1> QED BY <1>3, <1>4, <1>5, NamesOf
-----------------------------------------------------------------------------
(* Every operand is on the machine's stack what the interpreter has, and   *)
(* no program stops because one side alone throws.                         *)
AgreeItems == \E S : items \in Seq(S) /\ \A x \in S : Agrees(x)
Together   == outcome \in {"running", "both throw", "rejected"}
AgreeInv   == AgreeItems /\ Together

(* A new operand after those of a sequence.                                *)
LEMMA AgreeAppend ==
    ASSUME NEW S, NEW s \in Seq(S), \A x \in S : Agrees(x), NEW y, Agrees(y),
           items' = Append(s, y)
    PROVE  AgreeItems'
  <1> DEFINE T == S \union {y}
  <1>1. items' \in Seq(T)
    BY SMT
  <1>2. \A x \in T : Agrees(x)
    OBVIOUS
  <1> HIDE DEF T
  <1>3. \E U : items' \in Seq(U) /\ \A x \in U : Agrees(x)
    BY <1>1, <1>2
  <1> QED BY <1>3 DEF AgreeItems, Agrees, isLiteral

(* What both sides make of the last operands.                              *)
LEMMA AgreeFinish ==
    ASSUME AgreeItems, NEW arity \in 1..3, Len(items) >= arity,
           NEW machine, NEW interpreter, NEW left, Matches(machine, interpreter, left),
           Finish(arity, machine, interpreter, left)
    PROVE  AgreeInv'
  <1> DEFINE values == left \o interpreter.values
             n == IF machine.ok /\ interpreter.ok THEN Len(machine.items) ELSE 0
             new == [k \in 1..n |-> Operand(machine.items[k], values[k], NoNumber)]
             old == SubSeq(items, 1, Len(items) - arity)
  <1>1. PICK S : items \in Seq(S) /\ \A x \in S : Agrees(x)
    BY DEF AgreeItems
  <1>2. n \in Nat
    BY DEF Matches
  <1>3. items' = old \o new
    BY DEF Finish
  <1>4. old \in Seq(S)
    BY <1>1
  <1>5. ASSUME NEW k \in 1..n PROVE Agrees(new[k])
    <2>1. machine.ok /\ n = Len(machine.items)
      <3>1. \A i \in 1..0 : FALSE
        OBVIOUS
      <3> QED BY <3>1
    <2>2. Agrees(Operand(machine.items[k], values[k], NoNumber))
      BY <2>1 DEF Matches
    <2>3. new[k] = Operand(machine.items[k], values[k], NoNumber)
      OBVIOUS
    <2> HIDE DEF new
    <2> QED BY <2>2, <2>3
  <1>6. outcome' \in {"running", "both throw"}
    <2>1. machine.ok = interpreter.ok
      BY DEF Matches
    <2> QED BY <2>1 DEF Finish
  <1> DEFINE T == S \union {new[k] : k \in 1..n}
  <1>7. \A x \in T : Agrees(x)
    BY <1>1, <1>5
  <1> HIDE DEF n, old
  <1>8. new \in Seq({new[k] : k \in 1..n})
    <2> HIDE DEF values
    <2>1. new \in [1..n -> {new[k] : k \in 1..n}]
      OBVIOUS
    <2> HIDE DEF new
    <2> QED BY <1>2, <2>1, SeqDef
  <1> HIDE DEF new
  <1>9. old \in Seq(T) /\ new \in Seq(T)
    BY <1>4, <1>8
  <1> HIDE DEF T
  <1>10. items' \in Seq(T)
    BY <1>3, <1>9
  <1>11. \E U : items' \in Seq(U) /\ \A x \in U : Agrees(x)
    BY <1>7, <1>10
  <1> QED BY <1>6, <1>11 DEF AgreeInv, AgreeItems, Together, Agrees, isLiteral

(* A literal, where the interpreter has its number.                        *)
LEMMA LiteralAgrees ==
    ASSUME NEW v \in Signed, NEW w, w.type # "Bytes", w.number = v
    PROVE  Agrees(LiteralOperand(v, w))
  <1>1. LET x == LiteralOperand(v, w)
        IN  x.bytes = serializeScriptNum(v) /\ x.value = w /\ x.known = v
    BY DEF LiteralOperand, Operand
  <1>2. serializeScriptNum(v) \in Seq(Byte)
    BY SerializedIsRead
  <1> HIDE DEF LiteralOperand
  <1> QED BY <1>1, <1>2 DEF Agrees

(* What the interpreter makes of two literals is what the folder makes.    *)
LEMMA FoldedAgrees ==
    ASSUME NEW op \in DOMAIN operatorMap, NEW x, NEW y, Agrees(x), Agrees(y),
           isLiteral(x), isLiteral(y),
           evaluateOperator(op, x.known, y.known) # NoNumber
    PROVE  LET v == evaluateOperator(op, x.known, y.known)
           IN  Agrees(LiteralOperand(v, evalOp(op, x.value, y.value).values[1]))
  <1> DEFINE a == x.known
             b == y.known
             v == evaluateOperator(op, a, b)
             w == evalOp(op, x.value, y.value).values[1]
  <1>1. /\ a \in Signed /\ b \in Signed /\ a \in Int /\ b \in Int
        /\ toScriptNum(x.value) = a /\ toScriptNum(y.value) = b
        /\ toScriptBytes(x.value) = serializeScriptNum(a)
        /\ toScriptBytes(y.value) = serializeScriptNum(b)
    BY DEF Agrees, toScriptNum, toScriptBytes, Signed
  <1>2. a # NoNumber /\ b # NoNumber
    BY DEF isLiteral
  <1>3. \A u : Returns(u).values[1] = u
    BY DEF Returns
  <1>4. /\ \A n : fromInt(n).type # "Bytes" /\ fromInt(n).number = n
        /\ \A t : fromBool(t).type # "Bytes" /\ fromBool(t).number = StaticTruth(t)
    BY DEF fromInt, fromBool, Scalar, StaticTruth
  <1>5. op \in {"+", "-", "*", "/", "==", "!=", "<", ">", "<=", ">="}
    BY DEF operatorMap
  <1>6. v \in Signed
    BY <1>1, OperatorIsExact DEF IsFolded
  <1>7. (serializeScriptNum(a) = serializeScriptNum(b)) = (a = b)
    BY <1>1, SerializedOnce
  <1>8. op \notin {"==", "!="} =>
            evalOp(op, x.value, y.value) =
                IF op = "/" /\ ~Divides(a, b) THEN Raises ELSE Returns(OperatorValue(op, a, b))
    BY <1>1, <1>2 DEF evalOp
  <1>9. /\ op = "==" => evalOp(op, x.value, y.value) =
                            Returns(fromBool(serializeScriptNum(a) = serializeScriptNum(b)))
        /\ op = "!=" => evalOp(op, x.value, y.value) =
                            Returns(fromBool(serializeScriptNum(a) # serializeScriptNum(b)))
    BY <1>1 DEF evalOp
  <1>10. v # NoNumber
    OBVIOUS
  <1> HIDE DEF a, b, v, w
  <1>11. CASE op \in {"+", "-", "*"}
    <2>1. w = OperatorValue(op, a, b)
      BY <1>3, <1>8, <1>11 DEF w
    <2>2. /\ op = "+" => OperatorValue(op, a, b) = fromInt(ToWord(a + b)) /\ v = checkedAdd(a, b)
          /\ op = "-" => OperatorValue(op, a, b) = fromInt(ToWord(a - b)) /\ v = checkedSubtract(a, b)
          /\ op = "*" => OperatorValue(op, a, b) = fromInt(ToWord(a * b)) /\ v = checkedMultiply(a, b)
      BY DEF OperatorValue, evaluateOperator, v
    <2>3. /\ checkedAdd(a, b) \in {NoNumber, ToWord(a + b)}
          /\ checkedSubtract(a, b) \in {NoNumber, ToWord(a - b)}
          /\ checkedMultiply(a, b) \in {NoNumber, ToWord(a * b)}
      BY DEF checkedAdd, checkedSubtract, checkedMultiply
    <2>4. w = fromInt(v)
      BY <1>10, <1>11, <2>1, <2>2, <2>3
    <2>5. w.type # "Bytes" /\ w.number = v
      BY <1>4, <2>4
    <2> QED BY <1>6, <2>5, LiteralAgrees DEF v, w, a, b
  <1>12. CASE op = "/"
    <2>1. v = IF Divides(a, b) THEN Quotient(a, b) ELSE NoNumber
      BY <1>12 DEF evaluateOperator, checkedDivide, v
    <2>2. w = OperatorValue("/", a, b)
      BY <1>3, <1>8, <1>10, <1>12, <2>1 DEF w
    <2>3. w = fromInt(v)
      BY <1>10, <2>1, <2>2 DEF OperatorValue
    <2>4. w.type # "Bytes" /\ w.number = v
      BY <1>4, <2>3
    <2> QED BY <1>6, <2>4, LiteralAgrees DEF v, w, a, b
  <1>13. ASSUME NEW t, w = fromBool(t), v = StaticTruth(t)
         PROVE  Agrees(LiteralOperand(v, w))
    <2>1. w.type # "Bytes" /\ w.number = v
      BY <1>4, <1>13
    <2> QED BY <1>6, <2>1, LiteralAgrees
  <1>14. CASE op = "=="
    <2>1. v = StaticTruth(a = b)
      BY <1>14 DEF evaluateOperator, v
    <2>2. w = fromBool(a = b)
      BY <1>3, <1>7, <1>9, <1>14, Zenon DEF w
    <2> QED BY <1>13, <2>1, <2>2, Zenon DEF v, w, a, b
  <1>15. CASE op = "!="
    <2>1. v = StaticTruth(a # b)
      BY <1>15 DEF evaluateOperator, v
    <2>2. w = fromBool(a # b)
      BY <1>3, <1>7, <1>9, <1>15, Zenon DEF w
    <2> QED BY <1>13, <2>1, <2>2, Zenon DEF v, w, a, b
  <1>16. CASE op = "<"
    <2>1. v = StaticTruth(a < b)
      BY <1>16 DEF evaluateOperator, v
    <2>2. OperatorValue(op, a, b) = fromBool(a < b)
      BY <1>16 DEF OperatorValue
    <2>3. w = OperatorValue(op, a, b)
      BY <1>3, <1>8, <1>16 DEF w
    <2>4. w = fromBool(a < b)
      BY <2>2, <2>3, Zenon
    <2> QED BY <1>13, <2>1, <2>4, Zenon DEF v, w, a, b
  <1>17. CASE op = ">"
    <2>1. v = StaticTruth(a > b)
      BY <1>17 DEF evaluateOperator, v
    <2>2. OperatorValue(op, a, b) = fromBool(a > b)
      BY <1>17 DEF OperatorValue
    <2>3. w = OperatorValue(op, a, b)
      BY <1>3, <1>8, <1>17 DEF w
    <2>4. w = fromBool(a > b)
      BY <2>2, <2>3, Zenon
    <2> QED BY <1>13, <2>1, <2>4, Zenon DEF v, w, a, b
  <1>18. CASE op = "<="
    <2>1. v = StaticTruth(a <= b)
      BY <1>18 DEF evaluateOperator, v
    <2>2. OperatorValue(op, a, b) = fromBool(a <= b)
      BY <1>18 DEF OperatorValue
    <2>3. w = OperatorValue(op, a, b)
      BY <1>3, <1>8, <1>18 DEF w
    <2>4. w = fromBool(a <= b)
      BY <2>2, <2>3, Zenon
    <2> QED BY <1>13, <2>1, <2>4, Zenon DEF v, w, a, b
  <1>19. CASE op = ">="
    <2>1. v = StaticTruth(a >= b)
      BY <1>19 DEF evaluateOperator, v
    <2>2. OperatorValue(op, a, b) = fromBool(a >= b)
      BY <1>19 DEF OperatorValue
    <2>3. w = OperatorValue(op, a, b)
      BY <1>3, <1>8, <1>19 DEF w
    <2>4. w = fromBool(a >= b)
      BY <2>2, <2>3, Zenon
    <2> QED BY <1>13, <2>1, <2>4, Zenon DEF v, w, a, b
  <1> QED BY <1>5, <1>11, <1>12, <1>14, <1>15, <1>16, <1>17, <1>18, <1>19

(* A call takes the last operands.                                         *)
LEMMA CallAgrees ==
    ASSUME AllExcluded, AgreeInv, NEW name \in FunctionNames, Call(name)
    PROVE  AgreeInv'
  <1> DEFINE arity == opCreators[name].arity
             args  == SubSeq(items, Len(items) - arity + 1, Len(items))
             value == [k \in DOMAIN args |-> args[k].value]
             left  == IF name = "Size" THEN value ELSE <<>>
  <1>1. PICK S : items \in Seq(S) /\ \A x \in S : Agrees(x)
    BY DEF AgreeInv, AgreeItems
  <1>2. Len(items) >= arity /\ arity \in 1..3
    BY FunctionsAssumption, FunctionOpcodes DEF Call, TakesOpcodes
  <1>3. \/ UNCHANGED items /\ outcome' = "rejected"
        \/ /\ ~(name = "Slice" /\ SliceRejected(args[2], args[3]))
           /\ ~CallDiffers(name, args)
           /\ \E machine \in ExecuteCall(name, args) :
                  Finish(arity, machine, callFunction(name, value), left)
    BY DEF Call
  <1> HIDE DEF arity
  <1>4. args \in Seq(S) /\ Len(args) = arity
    <2> DEFINE m == Len(items) - arity + 1
               n == Len(items)
    <2>1. m \in Int /\ n \in Int /\ m \in 1..n /\ n - m + 1 = arity /\ n \in Nat
      BY <1>1, <1>2
    <2>2. \A i \in m..n : items[i] \in S
      BY <1>1, <2>1
    <2> HIDE DEF m, n
    <2>3. SubSeq(items, m, n) \in Seq(S)
          /\ Len(SubSeq(items, m, n)) = IF m <= n THEN n - m + 1 ELSE 0
      BY <2>1, <2>2, SubSeqProperties
    <2>4. SubSeq(items, m, n) \in Seq(S) /\ Len(SubSeq(items, m, n)) = arity
      BY <2>1, <2>3
    <2> QED BY <2>4 DEF m, n
  <1> HIDE DEF args
  <1>5. CASE UNCHANGED items /\ outcome' = "rejected"
    BY <1>5 DEF AgreeInv, AgreeItems, Together, Agrees, isLiteral
  <1>6. ASSUME ~(name = "Slice" /\ SliceRejected(args[2], args[3])), ~CallDiffers(name, args),
               NEW machine \in ExecuteCall(name, args),
               Finish(arity, machine, callFunction(name, value), left)
        PROVE  AgreeInv'
    <2>1. name \in DOMAIN opCreators
      BY FunctionsAssumption
    <2>2. Matches(machine, callFunction(name, value), left)
      BY <1>1, <1>4, <1>6, <2>1, CallMatches DEF arity
    <2> HIDE DEF value, left
    <2>3. AgreeItems
      BY DEF AgreeInv
    <2> QED BY <1>2, <1>6, <2>2, <2>3, AgreeFinish
  <1> QED BY <1>3, <1>5, <1>6

(* An operator that is emitted takes the last two.                         *)
LEMMA EmitAgrees ==
    ASSUME AllExcluded, AgreeInv, NEW op \in Operators, EmitOperator(op)
    PROVE  AgreeInv'
  <1> DEFINE x == items[Len(items) - 1]
             y == Last(items)
  <1>1. PICK S : items \in Seq(S) /\ \A z \in S : Agrees(z)
    BY DEF AgreeInv, AgreeItems
  <1>2. Len(items) >= 2 /\ ~(isLiteral(x) /\ isLiteral(y)) /\ ~OperatorDiffers(op, x, y)
    BY DEF EmitOperator
  <1>3. PICK code \in EmittedOperator(op, x, y) :
            Finish(2, ExecuteOpcodes(code.ops, code.args), evalOp(op, x.value, y.value), <<>>)
    BY DEF EmitOperator
  <1>4. x \in S /\ y \in S
    BY <1>1, <1>2 DEF Last
  <1> HIDE DEF x, y
  <1>5. ~TooWide(x) /\ ~TooWide(y)
        /\ (HasIdentity(op, x, y) => Canonical(x.bytes) /\ Canonical(y.bytes))
    BY <1>2 DEF OperatorDiffers, AllExcluded
  <1>6. Matches(ExecuteOpcodes(code.ops, code.args), evalOp(op, x.value, y.value), <<>>)
    BY <1>1, <1>2, <1>3, <1>4, <1>5, OperatorsAssumption, EmittedMatches
  <1>7. AgreeItems
    BY DEF AgreeInv
  <1> QED BY <1>2, <1>3, <1>6, <1>7, AgreeFinish

(* An operator that is folded leaves a literal.                            *)
LEMMA FoldAgrees ==
    ASSUME AgreeInv, NEW op \in Operators, FoldOperator(op)
    PROVE  AgreeInv'
  <1> DEFINE x == items[Len(items) - 1]
             y == Last(items)
             v == evaluateOperator(op, x.known, y.known)
             w == evalOp(op, x.value, y.value).values[1]
             rest == SubSeq(items, 1, Len(items) - 2)
  <1>1. PICK S : items \in Seq(S) /\ \A z \in S : Agrees(z)
    BY DEF AgreeInv, AgreeItems
  <1>2. Len(items) >= 2 /\ isLiteral(x) /\ isLiteral(y)
    BY DEF FoldOperator
  <1>3. x \in S /\ y \in S
    BY <1>1, <1>2 DEF Last
  <1>4. CASE v = NoNumber
    <2>1. UNCHANGED items /\ outcome' = "rejected"
      BY <1>4 DEF FoldOperator
    <2> QED BY <2>1 DEF AgreeInv, AgreeItems, Together, Agrees, isLiteral
  <1>5. CASE v # NoNumber
    <2>1. items' = Append(rest, LiteralOperand(v, w)) /\ UNCHANGED outcome
      BY <1>5 DEF FoldOperator
    <2>2. rest \in Seq(S)
      BY <1>1, <1>2
    <2>3. Agrees(LiteralOperand(v, w))
      <3> HIDE DEF x, y
      <3> QED BY <1>1, <1>2, <1>3, <1>5, OperatorsAssumption, FoldedAgrees
    <2> HIDE DEF x, y, v, w, rest
    <2>4. AgreeItems'
      BY <1>1, <2>1, <2>2, <2>3, AgreeAppend
    <2> QED BY <2>1, <2>4 DEF AgreeInv, Together
  <1> QED BY <1>4, <1>5

(* A minus before a literal.                                               *)
LEMMA MinusAgrees ==
    ASSUME AgreeInv, Minus PROVE AgreeInv'
  <1> DEFINE v == Last(items).known
  <1>1. PICK S : items \in Seq(S) /\ \A x \in S : Agrees(x)
    BY DEF AgreeInv, AgreeItems
  <1>2. items # <<>> /\ isLiteral(Last(items))
    BY DEF Minus
  <1>3. Last(items) \in S
    BY <1>1, <1>2 DEF Last
  <1>4. v \in Signed
    BY <1>1, <1>2, <1>3 DEF Agrees
  <1>5. CASE v = Least
    <2>1. UNCHANGED items /\ outcome' = "rejected"
      BY <1>5 DEF Minus
    <2> QED BY <2>1 DEF AgreeInv, AgreeItems, Together, Agrees, isLiteral
  <1>6. CASE v # Least
    <2>1. items' = Append(Front(items), LiteralOperand(-v, fromInt(-v))) /\ UNCHANGED outcome
      BY <1>6 DEF Minus
    <2>2. -v \in Signed
      BY <1>4, <1>6, ModulusPositive DEF Signed, Least
    <2>3. Agrees(LiteralOperand(-v, fromInt(-v)))
      BY <2>2, OperandAgrees
    <2>4. Front(items) \in Seq(S)
      BY <1>1, <1>2 DEF Front
    <2>5. AgreeItems'
      BY <1>1, <2>1, <2>3, <2>4, AgreeAppend
    <2> QED BY <2>1, <2>5 DEF AgreeInv, Together
  <1> QED BY <1>5, <1>6

(* The operands an expression starts from.                                 *)
LEMMA StartAgrees ==
    ASSUME AgreeInv,
           (\E v \in 0..SignBit : Write(v)) \/ (\E b \in Arguments : Parameter(b))
    PROVE  AgreeInv'
  <1>1. PICK S : items \in Seq(S) /\ \A x \in S : Agrees(x)
    BY DEF AgreeInv, AgreeItems
  <1>2. ASSUME NEW v \in 0..SignBit, Write(v) PROVE AgreeInv'
    <2>1. CASE v \in Signed
      <3>1. items' = Append(items, LiteralOperand(v, fromInt(v))) /\ UNCHANGED outcome
        BY <1>2, <2>1 DEF Write
      <3>2. Agrees(LiteralOperand(v, fromInt(v)))
        BY <2>1, OperandAgrees
      <3>3. AgreeItems'
        BY <1>1, <3>1, <3>2, AgreeAppend
      <3> QED BY <3>1, <3>3 DEF AgreeInv, Together
    <2>2. CASE v \notin Signed
      <3>1. UNCHANGED items /\ outcome' = "rejected"
        BY <1>2, <2>2 DEF Write
      <3> QED BY <3>1 DEF AgreeInv, AgreeItems, Together, Agrees, isLiteral
    <2> QED BY <2>1, <2>2
  <1>3. ASSUME NEW b \in Arguments, Parameter(b) PROVE AgreeInv'
    <2>1. items' = Append(items, Operand(b, fromBytes(b), NoNumber)) /\ UNCHANGED outcome
      BY <1>3 DEF Parameter
    <2>2. Agrees(Operand(b, fromBytes(b), NoNumber))
      BY ArgumentsAssumption, OperandAgrees
    <2>3. AgreeItems'
      BY <1>1, <2>1, <2>2, AgreeAppend
    <2> QED BY <2>1, <2>3 DEF AgreeInv, Together
  <1> QED BY <1>2, <1>3

(* Every step keeps the two sides together.                                *)
LEMMA AgreeStep ==
    ASSUME AllExcluded, AgreeInv, [Next]_vars PROVE AgreeInv'
  <1>1. CASE UNCHANGED <<items, outcome>>
    BY <1>1 DEF AgreeInv, AgreeItems, Together, Agrees, isLiteral
  <1>2. \/ UNCHANGED <<items, outcome>>
        \/ (\E v \in 0..SignBit : Write(v)) \/ (\E b \in Arguments : Parameter(b))
        \/ Minus
        \/ \E op \in Operators : FoldOperator(op) \/ EmitOperator(op)
        \/ \E name \in FunctionNames : Call(name)
    BY DEF Next, vars
  <1> QED BY <1>1, <1>2, StartAgrees, MinusAgrees, FoldAgrees, EmitAgrees, CallAgrees

(* What the expressions leave agrees.                                      *)
LEMMA AgreeInvImplies == AgreeInv => ExpressionsAgree
  <1> SUFFICES ASSUME AgreeInv PROVE ExpressionsAgree
    OBVIOUS
  <1>1. PICK S : items \in Seq(S) /\ \A x \in S : Agrees(x)
    BY DEF AgreeInv, AgreeItems
  <1>2. \A k \in DOMAIN items : items[k] \in S
    BY <1>1
  <1>3. \A x \in S : x.bytes = toScriptBytes(x.value)
    BY <1>1, ReadAlike
  <1>4. outcome \notin {"only the machine throws", "only the interpreter throws"}
    BY DEF AgreeInv, Together
  <1> QED BY <1>2, <1>3, <1>4 DEF ExpressionsAgree

(* Where none of the known differences comes up, an expression that is     *)
(* compiled and executed is what the interpreter makes of it: for machine  *)
(* words of any width, byte strings of any length and expressions of any   *)
(* size.                                                                   *)
THEOREM ExpressionsCorrect == AllExcluded /\ Spec => []ExpressionsAgree
  <1> SUFFICES ASSUME AllExcluded PROVE Spec => []ExpressionsAgree
    OBVIOUS
  <1>1. Init => AgreeInv
    <2>1. <<>> \in Seq({}) /\ \A x \in {} : Agrees(x)
      BY EmptySeq
    <2> QED BY <2>1 DEF Init, AgreeInv, AgreeItems, Together
  <1>2. AgreeInv /\ [Next]_vars => AgreeInv'
    BY AgreeStep
  <1> QED BY <1>1, <1>2, AgreeInvImplies, PTL DEF Spec
=============================================================================
