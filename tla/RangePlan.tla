------------------------------ MODULE RangePlan ------------------------------
(***************************************************************************)
(* The values of Range(start, stop, step), src/src/compiler/range_plan.cpp.*)
(* A loop is unrolled at compile time, and its bounds may be any integers  *)
(* of the machine: their distance need not fit in one, and the least of    *)
(* them has no negative. The code counts in unsigned integers, in which    *)
(* the signed ones keep their order once the sign bit is turned.           *)
(***************************************************************************)
EXTENDS Integers, Sequences, FiniteSets

CONSTANT SignBit  \* 2^63

ASSUME SignBitAssumption == SignBit \in Nat \ {0}

Signed   == -SignBit..SignBit - 1
Unsigned == 0..2 * SignBit - 1

(* What the unsigned operators of the machine leave of a number.           *)
Wrap(n) == n % (2 * SignBit)

TurnSign(u)    == Wrap(u + SignBit)
ordered(v)     == TurnSign(Wrap(v))
fromOrdered(u) == LET bits == TurnSign(u)
                  IN  IF bits < SignBit THEN bits ELSE bits - 2 * SignBit

stepMagnitude(step) == IF step >= 0 THEN step ELSE Wrap(Wrap(-(step + 1)) + 1)

Progresses(start, stop, step) == IF step > 0 THEN start < stop ELSE start > stop

Distance(start, stop, step) ==
    IF step > 0 THEN Wrap(ordered(stop) - ordered(start))
    ELSE Wrap(ordered(start) - ordered(stop))

(* RangePlan::build refuses a step of 0; a plan is its number of values.   *)
MutBuild(start, stop, step) ==
    IF ~Progresses(start, stop, step) THEN 0
    ELSE Wrap(Distance(start, stop, step) + stepMagnitude(step) - 1) \div stepMagnitude(step)
build(start, stop, step) ==
    IF ~Progresses(start, stop, step) THEN 0
    ELSE LET distance  == Distance(start, stop, step)
             magnitude == stepMagnitude(step)
         IN  Wrap(distance \div magnitude + (IF distance % magnitude = 0 THEN 0 ELSE 1))

valueAt(start, step, index) ==
    LET offset == stepMagnitude(step) * index
        value  == IF step > 0 THEN ordered(start) + offset ELSE ordered(start) - offset
    IN  IF offset \in Unsigned /\ value \in Unsigned THEN fromOrdered(value)
        ELSE "ValueOverflow"

RangeValues(start, stop, step) ==
    [k \in 1..build(start, stop, step) |-> valueAt(start, step, k - 1)]
-----------------------------------------------------------------------------
(* What Range means, in integers without a bound.                          *)
InRange(start, stop, step, k) ==
    IF step > 0 THEN start + k * step < stop ELSE start + k * step > stop
=============================================================================
