------------------------- MODULE BVMSimulator_proofs -------------------------
(***************************************************************************)
(* Proofs about the debugger's virtual machine, for programs of any length *)
(* and with any number of private functions, and for every sequence of     *)
(* commands. What a theorem asks of the programs is its hypothesis: that   *)
(* the debug information represents them (the frames, the step commands),  *)
(* that no private function contains a return (the breakpoints), or that   *)
(* no stale frame meets a return (the refinement of BVMScript).            *)
(*                                                                         *)
(* First how the ranges of a program lie: the active expansions of a       *)
(* position nest, the function found by name is the innermost of them, and *)
(* from one position to the next at most one of them ends or one starts.   *)
(* Then the frames that match a position, and what pushing and popping one *)
(* makes of them. From these, that an instruction leaves the machine with  *)
(* the frames of its new position. Then the same for the frames, stale or  *)
(* not, of the programs that are not represented. From these the frames'   *)
(* invariant, the breakpoints, the refinement and the step commands.       *)
(***************************************************************************)
EXTENDS BVMSimulator, FiniteSetTheorems, FunctionTheorems, NaturalsInduction,
        SequenceTheorems, WellFoundedInduction, TLAPS

LEMMA ProgramType ==
    ASSUME NEW p, IsProgram(p)
    PROVE  Size(p) \in Nat \ {0} /\ Len(p.expansions) \in Nat \ {0}
BY DEF IsProgram, Size

LEMMA ExpansionType ==
    ASSUME NEW p, IsProgram(p), NEW i \in 1..Len(p.expansions)
    PROVE  /\ p.expansions[i].name \in Nat
           /\ p.expansions[i].start \in Nat /\ p.expansions[i].end \in Nat
           /\ p.expansions[i].start < p.expansions[i].end
           /\ p.expansions[i].end <= Size(p)
<1> DEFINE Ranges == [name : Nat, start : Nat, end : Nat]
<1>1. p.expansions[i] \in Ranges
  <2>1. p.expansions \in Seq(Ranges)
    BY Zenon DEF IsProgram
  <2> HIDE DEF Ranges
  <2> QED BY <2>1
<1>2. /\ p.expansions[i].start < p.expansions[i].end
      /\ p.expansions[i].end <= Size(p)
  BY Zenon DEF IsProgram
<1> QED BY <1>1, <1>2

(* The boundaries of two expansions, in whatever order they are given.     *)
LEMMA Apart ==
    ASSUME NEW p, IsProgram(p), Representable(p),
           NEW i \in 1..Len(p.expansions), NEW j \in 1..Len(p.expansions), i # j
    PROVE  /\ p.expansions[i].start # p.expansions[j].start
           /\ p.expansions[i].name # p.expansions[j].name
           /\ i < j => p.expansions[i].start < p.expansions[j].start
<1> DEFINE e == p.expansions[i]
           f == p.expansions[j]
<1>len. Len(p.expansions) \in Nat
  BY ProgramType
<1>types. /\ e.start \in Nat /\ e.end \in Nat /\ e.start < e.end
          /\ f.start \in Nat /\ f.end \in Nat /\ f.start < f.end
  BY ExpansionType
<1>1. CASE i < j
  <2>1. /\ Disjoint(e, f) \/ Nested(e, f)
        /\ e.start # f.start
        /\ e.name # f.name
    BY <1>1 DEF Representable, RangesNest, NamesTellApart
  <2> QED BY <2>1, <1>1, <1>types DEF Disjoint, Nested
<1>2. CASE j < i
  <2>1. /\ f.start # e.start
        /\ f.name # e.name
    BY <1>2 DEF Representable, RangesNest, NamesTellApart
  <2> QED BY <2>1, <1>2, <1>len
<1> QED BY <1>1, <1>2, <1>len

LEMMA ActiveNest ==
    ASSUME NEW p, IsProgram(p), Representable(p), NEW q \in Nat,
           NEW i \in ActiveIn(p, q), NEW j \in ActiveIn(p, q), i < j
    PROVE  /\ Nested(p.expansions[i], p.expansions[j])
           /\ p.expansions[j].name < p.expansions[i].name
           /\ p.expansions[i].start < p.expansions[j].start
<1>1. /\ i \in 1..Len(p.expansions) /\ j \in 1..Len(p.expansions)
      /\ p.expansions[i].start <= q /\ q < p.expansions[i].end
      /\ p.expansions[j].start <= q /\ q < p.expansions[j].end
  BY DEF ActiveIn
<1>2. /\ p.expansions[i].end \in Nat /\ p.expansions[j].start \in Nat
      /\ p.expansions[i].start < p.expansions[j].start
  BY <1>1, ExpansionType, Apart
<1>3. ~Disjoint(p.expansions[i], p.expansions[j])
  BY <1>1, <1>2 DEF Disjoint
<1>4. Disjoint(p.expansions[i], p.expansions[j])
          \/ Nested(p.expansions[i], p.expansions[j])
  BY <1>1 DEF Representable, RangesNest
<1>5. Nested(p.expansions[i], p.expansions[j]) =>
          p.expansions[j].name < p.expansions[i].name
  BY <1>1 DEF Representable, NamesTellApart
<1> QED BY <1>2, <1>3, <1>4, <1>5

LEMMA MainIsActive ==
    ASSUME NEW p, IsProgram(p), NEW q \in 0..Size(p) - 1
    PROVE  1 \in ActiveIn(p, q)
<1>1. /\ Len(p.expansions) \in Nat \ {0} /\ Size(p) \in Nat
      /\ p.expansions[1].start = 0 /\ p.expansions[1].end = Size(p)
  BY ProgramType DEF IsProgram
<1> QED BY <1>1 DEF ActiveIn

LEMMA RangeOfName ==
    ASSUME NEW p, IsProgram(p), Representable(p),
           NEW i \in 1..Len(p.expansions)
    PROVE  RangeOf(p, p.expansions[i].name) = p.expansions[i]
<1> DEFINE Last(k) == /\ p.expansions[k].name = p.expansions[i].name
                      /\ \A j \in 1..Len(p.expansions) :
                            p.expansions[j].name = p.expansions[i].name => j <= k
<1>1. \A k \in 1..Len(p.expansions) :
          p.expansions[k].name = p.expansions[i].name => k = i
  BY Apart
<1>2. Last(i)
  BY <1>1
<1>3. \A k \in 1..Len(p.expansions) : Last(k) => k = i
  BY <1>1
<1>4. (CHOOSE k \in 1..Len(p.expansions) : Last(k)) = i
  <2> HIDE DEF Last
  <2> QED BY <1>2, <1>3
<1> QED BY <1>4 DEF RangeOf

LEMMA LastIndex ==
    ASSUME NEW n \in Nat, NEW S \in SUBSET (1..n), S # {}
    PROVE  \E i \in S : \A j \in S : j <= i
<1> DEFINE T == {n - i : i \in S}
           R == OpToRel(<, Nat)
<1>1. T \subseteq Nat /\ T # {}
  <2>1. \A i \in S : n - i \in Nat
    OBVIOUS
  <2> QED BY <2>1, Zenon
<1>2. IsWellFoundedOn(R, Nat)
  BY NatLessThanWellFounded
<1> HIDE DEF T, R
<1>3. PICK x \in T : \A y \in T : ~(<<y, x>> \in R)
  BY <1>1, <1>2, WFMin
<1> USE DEF T
<1>4. PICK i \in S : x = n - i
  BY <1>3
<1>5. ASSUME NEW j \in S PROVE j <= i
  <2>1. n - j \in T /\ n - j \in Nat /\ n - i \in Nat /\ i \in Int /\ j \in Int
    OBVIOUS
  <2>2. ~(n - j < n - i)
    <3>1. ~(<<n - j, n - i>> \in R)
      BY <1>3, <1>4, <2>1
    <3> QED BY <2>1, <3>1 DEF R, OpToRel
  <2> QED BY <2>1, <2>2
<1> QED BY <1>5

(* The innermost active expansion: the others contain it.                  *)
IsInnermost(p, q, k) ==
    k \in ActiveIn(p, q) /\ \A i \in ActiveIn(p, q) : i <= k

LEMMA Innermost ==
    ASSUME NEW p, IsProgram(p), Representable(p), NEW q \in 0..Size(p) - 1
    PROVE  \E k \in ActiveIn(p, q) :
               IsInnermost(p, q, k) /\ getFunctionAtPC(p, q) = p.expansions[k]
<1> DEFINE Contains(n) == RangeOf(p, n).start <= q /\ q < RangeOf(p, n).end
           covering == {n \in Names(p) : Contains(n)}
           NameOf(i) == p.expansions[i].name
<1>1. Len(p.expansions) \in Nat /\ q \in Nat
  BY ProgramType
<1>2. PICK k \in ActiveIn(p, q) : \A i \in ActiveIn(p, q) : i <= k
  <2>1. ActiveIn(p, q) \in SUBSET (1..Len(p.expansions))
    BY DEF ActiveIn
  <2>2. ActiveIn(p, q) # {}
    BY MainIsActive
  <2> QED BY <1>1, <2>1, <2>2, LastIndex
<1>3. k \in 1..Len(p.expansions)
  BY DEF ActiveIn
<1>4. \A i \in 1..Len(p.expansions) : NameOf(i) \in covering <=> i \in ActiveIn(p, q)
  BY RangeOfName DEF ActiveIn, Names
<1>5. \A n \in covering : \E i \in ActiveIn(p, q) : n = NameOf(i)
  <2> SUFFICES ASSUME NEW n \in covering PROVE \E i \in ActiveIn(p, q) : n = NameOf(i)
    OBVIOUS
  <2>1. PICK i \in 1..Len(p.expansions) : n = NameOf(i)
    BY DEF Names
  <2>2. i \in ActiveIn(p, q)
    BY <1>4, <2>1
  <2> QED BY <2>1, <2>2
<1>6. \A i \in ActiveIn(p, q) : NameOf(k) <= NameOf(i)
  <2> SUFFICES ASSUME NEW i \in ActiveIn(p, q) PROVE NameOf(k) <= NameOf(i)
    OBVIOUS
  <2>1. i \in 1..Len(p.expansions)
    BY DEF ActiveIn
  <2>2. NameOf(i) \in Nat /\ NameOf(k) \in Nat
    BY <1>3, <2>1, ExpansionType
  <2>3. CASE i = k
    BY <2>2, <2>3
  <2>4. CASE i < k
    BY <1>1, <2>2, <2>4, ActiveNest
  <2> QED BY <1>1, <1>2, <1>3, <2>1, <2>3, <2>4
<1>7. NameOf(k) \in covering /\ \A n \in covering : NameOf(k) <= n
  BY <1>3, <1>4, <1>5, <1>6
<1>8. \A n \in covering : n \in Nat
  BY <1>5, ExpansionType DEF ActiveIn
<1>9. (CHOOSE n \in covering : \A m \in covering : n <= m) = NameOf(k)
  <2> HIDE DEF covering
  <2>1. \A n \in covering : (\A m \in covering : n <= m) => n = NameOf(k)
    BY <1>7, <1>8
  <2> QED BY <1>7, <2>1
<1>10. getFunctionAtPC(p, q) = RangeOf(p, NameOf(k))
  <2> DEFINE getter == IF covering = {} THEN NoFunction
                       ELSE RangeOf(p, CHOOSE n \in covering : \A m \in covering : n <= m)
  <2>1. getFunctionAtPC(p, q) = getter
    BY Zenon DEF getFunctionAtPC
  <2> HIDE DEF covering
  <2> QED BY <1>7, <1>9, <2>1
<1> QED BY <1>2, <1>3, <1>10, RangeOfName DEF IsInnermost

(* From a position to the next one at most one expansion ends, then none   *)
(* starts, or at most one starts.                                          *)
LEMMA ActiveEnds ==
    ASSUME NEW p, IsProgram(p), Representable(p), NEW q \in Nat,
           q + 1 < Size(p), NEW k, IsInnermost(p, q, k),
           p.expansions[k].end = q + 1
    PROVE  /\ ActiveIn(p, q + 1) = ActiveIn(p, q) \ {k}
           /\ \A i \in ActiveIn(p, q + 1) : p.expansions[i].start # q + 1
<1>1. /\ k \in ActiveIn(p, q) /\ k \in 1..Len(p.expansions)
      /\ Len(p.expansions) \in Nat /\ Size(p) \in Nat
      /\ \A i \in ActiveIn(p, q) : i <= k
  BY ProgramType DEF IsInnermost, ActiveIn
<1>2. \A i \in 1..Len(p.expansions) : p.expansions[i].start # q + 1
  <2> SUFFICES ASSUME NEW i \in 1..Len(p.expansions), p.expansions[i].start = q + 1
               PROVE FALSE
    OBVIOUS
  <2>1. k < i
    <3>1. p.expansions[k].start <= q /\ p.expansions[k].start \in Nat
      BY <1>1, ExpansionType DEF ActiveIn
    <3>2. ~(i < k) /\ i # k
      BY <1>1, <3>1, Apart
    <3> QED BY <1>1, <3>2
  <2> QED BY <1>1, <2>1 DEF Representable, RangesNest
<1>3. \A i \in ActiveIn(p, q) \ {k} : p.expansions[i].end # q + 1
  <2> SUFFICES ASSUME NEW i \in ActiveIn(p, q), i # k, p.expansions[i].end = q + 1
               PROVE FALSE
    OBVIOUS
  <2>1. i \in 1..Len(p.expansions) /\ i < k
    BY <1>1 DEF ActiveIn
  <2>2. i # 1
    BY <2>1 DEF IsProgram
  <2>3. i > 1
    BY <2>1, <2>2
  <2> QED BY <1>1, <2>1, <2>3 DEF Representable, RangesNest
<1>4. ASSUME NEW i PROVE i \in ActiveIn(p, q + 1) <=> i \in ActiveIn(p, q) \ {k}
  <2>1. CASE i \in 1..Len(p.expansions)
    <3>1. p.expansions[i].start \in Nat /\ p.expansions[i].end \in Nat
      BY <2>1, ExpansionType
    <3> QED BY <1>2, <1>3, <2>1, <3>1 DEF ActiveIn
  <2>2. CASE i \notin 1..Len(p.expansions)
    BY <2>2 DEF ActiveIn
  <2> QED BY <2>1, <2>2
<1>5. ActiveIn(p, q + 1) = ActiveIn(p, q) \ {k}
  BY <1>4
<1> QED BY <1>2, <1>5 DEF ActiveIn

LEMMA Beyond ==
    ASSUME NEW q \in Nat, NEW e \in Nat, q < e, e # q + 1
    PROVE  e > q + 1
OBVIOUS

LEMMA ActiveGoesOn ==
    ASSUME NEW p, IsProgram(p), Representable(p), NEW q \in Nat,
           q + 1 < Size(p), NEW k, IsInnermost(p, q, k),
           p.expansions[k].end # q + 1
    PROVE  /\ ActiveIn(p, q) \subseteq ActiveIn(p, q + 1)
           /\ \A i \in ActiveIn(p, q + 1) \ ActiveIn(p, q) :
                 p.expansions[i].start = q + 1 /\ IsInnermost(p, q + 1, i)
<1>1. /\ k \in ActiveIn(p, q) /\ k \in 1..Len(p.expansions)
      /\ Len(p.expansions) \in Nat /\ Size(p) \in Nat
      /\ \A i \in ActiveIn(p, q) : i <= k
      /\ p.expansions[k].end > q + 1
  <2>1. /\ k \in ActiveIn(p, q) /\ k \in 1..Len(p.expansions)
        /\ q < p.expansions[k].end
        /\ \A i \in ActiveIn(p, q) : i <= k
    BY DEF IsInnermost, ActiveIn
  <2>2. /\ p.expansions[k].end \in Nat /\ Size(p) \in Nat
        /\ Len(p.expansions) \in Nat
    BY <2>1, ExpansionType, ProgramType
  <2>3. p.expansions[k].end > q + 1
    BY <2>1, <2>2, Beyond
  <2> QED BY <2>1, <2>2, <2>3, Zenon
<1>2. ActiveIn(p, q) \subseteq ActiveIn(p, q + 1)
  <2> SUFFICES ASSUME NEW i \in ActiveIn(p, q) PROVE i \in ActiveIn(p, q + 1)
    OBVIOUS
  <2>1. /\ i \in 1..Len(p.expansions) /\ i <= k
        /\ p.expansions[i].start \in Nat /\ p.expansions[i].end \in Nat
        /\ p.expansions[i].start <= q
    BY <1>1, ExpansionType DEF ActiveIn
  <2>2. p.expansions[k].end <= p.expansions[i].end
    <3>1. CASE i < k
      BY <1>1, <3>1, ActiveNest DEF Nested
    <3>2. CASE i = k
      BY <3>2, <2>1
    <3> QED BY <1>1, <2>1, <3>1, <3>2
  <2>3. p.expansions[k].end \in Nat
    BY <1>1, ExpansionType
  <2> QED BY <1>1, <2>1, <2>2, <2>3 DEF ActiveIn
<1>3. ASSUME NEW i \in ActiveIn(p, q + 1) \ ActiveIn(p, q)
      PROVE  p.expansions[i].start = q + 1 /\ IsInnermost(p, q + 1, i)
  <2>1. /\ i \in 1..Len(p.expansions)
        /\ p.expansions[i].start \in Nat /\ p.expansions[i].end \in Nat
    BY ExpansionType DEF ActiveIn
  <2>2. p.expansions[i].start = q + 1
    BY <2>1 DEF ActiveIn
  <2>3. ASSUME NEW j \in ActiveIn(p, q + 1) PROVE j <= i
    <3>1. /\ j \in 1..Len(p.expansions)
          /\ p.expansions[j].start \in Nat /\ p.expansions[j].start <= q + 1
      BY ExpansionType DEF ActiveIn
    <3>2. ~(i < j)
      BY <2>1, <2>2, <3>1, Apart
    <3> QED BY <1>1, <2>1, <3>1, <3>2
  <2> QED BY <2>2, <2>3 DEF IsInnermost
<1> QED BY <1>2, <1>3

(***************************************************************************)
(* Call frames. The frames of a position, its expansions' order being that *)
(* of their starts, end with the innermost one's.                          *)
(***************************************************************************)
Frames == [name : Nat, entryPC : Nat, returnPC : Nat]

LEMMA FrameType ==
    ASSUME NEW p, IsProgram(p), NEW i \in 1..Len(p.expansions)
    PROVE  /\ FrameOf(p.expansions[i]) \in Frames
           /\ FrameOf(p.expansions[i]).name = p.expansions[i].name
           /\ FrameOf(p.expansions[i]).entryPC = p.expansions[i].start
           /\ FrameOf(p.expansions[i]).returnPC = p.expansions[i].end
BY ExpansionType DEF FrameOf, Frame, Frames

LEMMA FrameOfPosition ==
    ASSUME NEW p, IsProgram(p), NEW q, NEW frames, FramesAre(p, q, frames)
    PROVE  /\ \A k \in 1..Len(frames) : \E i \in ActiveIn(p, q) :
                  frames[k] = FrameOf(p.expansions[i])
           /\ \A i \in ActiveIn(p, q) : \E k \in 1..Len(frames) :
                  frames[k] = FrameOf(p.expansions[i])
<1> DEFINE S == {frames[k] : k \in 1..Len(frames)}
           T == {FrameOf(p.expansions[i]) : i \in ActiveIn(p, q)}
<1>1. S = T
  BY Zenon DEF FramesAre
<1>2. ASSUME NEW k \in 1..Len(frames)
      PROVE  \E i \in ActiveIn(p, q) : frames[k] = FrameOf(p.expansions[i])
  <2>1. frames[k] \in T
    BY <1>1, Zenon
  <2> QED BY <2>1, Zenon
<1>3. ASSUME NEW i \in ActiveIn(p, q)
      PROVE  \E k \in 1..Len(frames) : frames[k] = FrameOf(p.expansions[i])
  <2>1. FrameOf(p.expansions[i]) \in S
    BY <1>1, Zenon
  <2> QED BY <2>1, Zenon
<1> QED BY <1>2, <1>3

(* Two frames of different expansions have different entries.              *)
LEMMA SameFrame ==
    ASSUME NEW p, IsProgram(p), Representable(p),
           NEW i \in 1..Len(p.expansions), NEW j \in 1..Len(p.expansions),
           FrameOf(p.expansions[i]) = FrameOf(p.expansions[j])
    PROVE  i = j
BY FrameType, Apart

LEMMA TopFrame ==
    ASSUME NEW p, IsProgram(p), Representable(p), NEW q \in 0..Size(p) - 1,
           NEW frames \in Seq(Frames), FramesAre(p, q, frames),
           NEW k, IsInnermost(p, q, k)
    PROVE  Len(frames) \in Nat \ {0} /\ Top(frames) = FrameOf(p.expansions[k])
<1>1. /\ k \in ActiveIn(p, q) /\ k \in 1..Len(p.expansions)
      /\ \A i \in ActiveIn(p, q) : i <= k
  BY DEF IsInnermost, ActiveIn
<1>2. PICK n \in 1..Len(frames) : frames[n] = FrameOf(p.expansions[k])
  BY <1>1, FrameOfPosition
<1>3. Len(frames) \in Nat \ {0} /\ Len(frames) \in 1..Len(frames)
  BY <1>2
<1>4. PICK i \in ActiveIn(p, q) : frames[Len(frames)] = FrameOf(p.expansions[i])
  BY <1>3, FrameOfPosition
<1>5. i \in 1..Len(p.expansions)
  BY DEF ActiveIn
<1>6. CASE n = Len(frames)
  BY <1>2, <1>3, <1>6 DEF Top
<1>7. CASE n < Len(frames)
  <2>1. frames[n].entryPC < frames[Len(frames)].entryPC
    BY <1>3, <1>7 DEF FramesAre
  <2>2. p.expansions[k].start < p.expansions[i].start
    BY <1>1, <1>2, <1>4, <1>5, <2>1, FrameType
  <2>3. i <= k /\ i # k
    <3>1. p.expansions[k].start \in Nat
      BY <1>1, ExpansionType
    <3>2. i # k
      <4> SUFFICES ASSUME i = k PROVE FALSE
        OBVIOUS
      <4>1. p.expansions[k].start < p.expansions[k].start
        BY <2>2
      <4> QED BY <3>1, <4>1
    <3> QED BY <1>1, <3>2
  <2>4. i < k
    BY <1>1, <1>5, <2>3, ProgramType
  <2>5. p.expansions[i].start < p.expansions[k].start
    BY <1>1, <1>5, <2>4, Apart
  <2> QED BY <1>1, <1>5, <2>2, <2>5, ExpansionType
<1> QED BY <1>2, <1>3, <1>6, <1>7

LEMMA OuterFacts ==
    ASSUME NEW S, NEW s \in Seq(S), Len(s) # 0
    PROVE  /\ Outer(s) \in Seq(S) /\ Len(Outer(s)) = Len(s) - 1
           /\ \A n \in 1..Len(s) - 1 : Outer(s)[n] = s[n]
<1> DEFINE n == Len(s) - 1
<1>1. n \in Int /\ n >= 0 /\ Len(s) \in Nat /\ \A i \in 1..n : s[i] \in S
  OBVIOUS
<1>2. /\ SubSeq(s, 1, n) \in Seq(S)
      /\ Len(SubSeq(s, 1, n)) = IF 1 <= n THEN n - 1 + 1 ELSE 0
      /\ \A i \in 1..n - 1 + 1 : SubSeq(s, 1, n)[i] = s[1 + i - 1]
  <2> HIDE DEF n
  <2> QED BY <1>1, SubSeqProperties
<1>3. \A i \in 1..n : 1 + i - 1 = i
  BY <1>1
<1>4. n - 1 + 1 = n
  BY <1>1
<1>5. \A i \in 1..n : SubSeq(s, 1, n)[i] = s[i]
  BY <1>2, <1>3, <1>4
<1>6. Len(SubSeq(s, 1, n)) = n
  BY <1>1, <1>2, <1>4
<1> QED BY <1>2, <1>5, <1>6 DEF Outer

LEMMA Popped ==
    ASSUME NEW p, IsProgram(p), Representable(p), NEW q \in 0..Size(p) - 1,
           NEW frames \in Seq(Frames), FramesAre(p, q, frames),
           NEW k, IsInnermost(p, q, k),
           NEW r, ActiveIn(p, r) = ActiveIn(p, q) \ {k}
    PROVE  FramesAre(p, r, Outer(frames))
<1> DEFINE N == Len(frames)
<1>1. N \in Nat \ {0} /\ frames[N] = FrameOf(p.expansions[k])
  BY TopFrame DEF Top
<1>2. /\ Outer(frames) \in Seq(Frames) /\ Len(Outer(frames)) = N - 1
      /\ \A n \in 1..N - 1 : Outer(frames)[n] = frames[n]
  BY <1>1, OuterFacts
<1>k. k \in ActiveIn(p, q) /\ k \in 1..Len(p.expansions)
  BY DEF IsInnermost, ActiveIn
<1>3. \A n \in 1..N - 1 : \E i \in ActiveIn(p, r) : frames[n] = FrameOf(p.expansions[i])
  <2> SUFFICES ASSUME NEW n \in 1..N - 1
               PROVE \E i \in ActiveIn(p, r) : frames[n] = FrameOf(p.expansions[i])
    OBVIOUS
  <2>1. PICK i \in ActiveIn(p, q) : frames[n] = FrameOf(p.expansions[i])
    BY <1>1, FrameOfPosition
  <2>2. frames[n].entryPC < frames[N].entryPC
    BY <1>1 DEF FramesAre
  <2>3. i \in 1..Len(p.expansions)
    BY DEF ActiveIn
  <2>4. i # k
    BY <1>1, <1>k, <2>1, <2>2, <2>3, FrameType, ExpansionType
  <2> QED BY <2>1, <2>4
<1>4. \A i \in ActiveIn(p, r) : \E n \in 1..N - 1 : frames[n] = FrameOf(p.expansions[i])
  <2> SUFFICES ASSUME NEW i \in ActiveIn(p, r)
               PROVE \E n \in 1..N - 1 : frames[n] = FrameOf(p.expansions[i])
    OBVIOUS
  <2>1. i \in ActiveIn(p, q) /\ i # k
    OBVIOUS
  <2>2. PICK n \in 1..N : frames[n] = FrameOf(p.expansions[i])
    BY <2>1, FrameOfPosition
  <2>3. i \in 1..Len(p.expansions)
    BY <2>1 DEF ActiveIn
  <2>4. n # N
    BY <1>1, <1>k, <2>1, <2>2, <2>3, SameFrame
  <2> QED BY <1>1, <2>2, <2>4
<1>5. {Outer(frames)[n] : n \in 1..Len(Outer(frames))}
          = {FrameOf(p.expansions[i]) : i \in ActiveIn(p, r)}
  BY <1>2, <1>3, <1>4
<1>6. \A j, n \in 1..Len(Outer(frames)) :
          j < n => Outer(frames)[j].entryPC < Outer(frames)[n].entryPC
  BY <1>1, <1>2 DEF FramesAre
<1> QED BY <1>5, <1>6, Zenon DEF FramesAre

LEMMA Pushed ==
    ASSUME NEW p, IsProgram(p), Representable(p), NEW q \in 0..Size(p) - 1,
           NEW frames \in Seq(Frames), FramesAre(p, q, frames),
           NEW r, NEW i \in 1..Len(p.expansions),
           ActiveIn(p, r) = ActiveIn(p, q) \cup {i}, q < p.expansions[i].start
    PROVE  FramesAre(p, r, Append(frames, FrameOf(p.expansions[i])))
<1> DEFINE N == Len(frames)
           new == FrameOf(p.expansions[i])
           all == Append(frames, new)
<1>1. /\ N \in Nat /\ new \in Frames /\ new.entryPC = p.expansions[i].start
      /\ Len(all) = N + 1 /\ all[N + 1] = new
      /\ \A n \in 1..N : all[n] = frames[n]
  BY FrameType
<1> HIDE DEF new, all
<1>2. \A n \in 1..N : frames[n].entryPC \in Nat /\ frames[n].entryPC <= q
  <2> SUFFICES ASSUME NEW n \in 1..N
               PROVE frames[n].entryPC \in Nat /\ frames[n].entryPC <= q
    OBVIOUS
  <2>1. PICK j \in ActiveIn(p, q) : frames[n] = FrameOf(p.expansions[j])
    BY FrameOfPosition
  <2>2. j \in 1..Len(p.expansions) /\ p.expansions[j].start <= q
    BY DEF ActiveIn
  <2>3. frames[n].entryPC = p.expansions[j].start
    BY <2>1, <2>2, FrameType
  <2>4. p.expansions[j].start \in Nat
    BY <2>2, ExpansionType
  <2> QED BY <2>2, <2>3, <2>4
<1>3. \A n \in 1..Len(all) : \E j \in ActiveIn(p, r) : all[n] = FrameOf(p.expansions[j])
  <2> SUFFICES ASSUME NEW n \in 1..Len(all)
               PROVE \E j \in ActiveIn(p, r) : all[n] = FrameOf(p.expansions[j])
    OBVIOUS
  <2>1. CASE n = N + 1
    BY <1>1, <2>1 DEF new
  <2>2. CASE n \in 1..N
    <3>1. PICK j \in ActiveIn(p, q) : frames[n] = FrameOf(p.expansions[j])
      BY <2>2, FrameOfPosition
    <3> QED BY <1>1, <2>2, <3>1
  <2> QED BY <1>1, <2>1, <2>2
<1>4. \A j \in ActiveIn(p, r) : \E n \in 1..Len(all) : all[n] = FrameOf(p.expansions[j])
  <2> SUFFICES ASSUME NEW j \in ActiveIn(p, r)
               PROVE \E n \in 1..Len(all) : all[n] = FrameOf(p.expansions[j])
    OBVIOUS
  <2>1. CASE j = i
    BY <1>1, <2>1 DEF new
  <2>2. CASE j \in ActiveIn(p, q)
    <3>1. PICK n \in 1..N : frames[n] = FrameOf(p.expansions[j])
      BY <2>2, FrameOfPosition
    <3> QED BY <1>1, <3>1
  <2> QED BY <2>1, <2>2
<1>5. {all[n] : n \in 1..Len(all)}
          = {FrameOf(p.expansions[j]) : j \in ActiveIn(p, r)}
  <2> DEFINE T == {FrameOf(p.expansions[j]) : j \in ActiveIn(p, r)}
  <2>1. \A n \in 1..Len(all) : all[n] \in T
    BY <1>3, Zenon
  <2>2. ASSUME NEW x \in T PROVE \E n \in 1..Len(all) : all[n] = x
    <3>1. PICK j \in ActiveIn(p, r) : x = FrameOf(p.expansions[j])
      BY Zenon
    <3> QED BY <1>4, <3>1, Zenon
  <2> HIDE DEF T
  <2>3. {all[n] : n \in 1..Len(all)} = T
    BY <2>1, <2>2
  <2> QED BY <2>3 DEF T
<1>6. ASSUME NEW j \in 1..Len(all), NEW n \in 1..Len(all), j < n
      PROVE  all[j].entryPC < all[n].entryPC
  <2>1. j \in 1..N
    BY <1>1, <1>6
  <2>2. CASE n = N + 1
    <3>1. q \in Nat /\ p.expansions[i].start \in Nat
      BY ProgramType, ExpansionType
    <3> QED BY <1>1, <1>2, <2>1, <2>2, <3>1
  <2>3. CASE n \in 1..N
    BY <1>1, <1>6, <2>1, <2>3 DEF FramesAre
  <2> QED BY <1>1, <2>2, <2>3
<1> QED BY <1>5, <1>6, Zenon DEF FramesAre, all, new

(***************************************************************************)
(* One instruction.                                                        *)
(***************************************************************************)
Machines == [state : States, pc : Nat, callStack : Seq(Frames),
             conditionStack : Seq(BOOLEAN), lastEvent : Events]

(* A machine on an instruction, and one whose frames are the source's.     *)
OnInstruction(m) == m \in Machines /\ m.pc \in 0..Size(prog) - 1

OnCourse(m) == OnInstruction(m) /\ FramesAre(prog, m.pc, m.callStack)

LEMMA TopLevelReturn ==
    ASSUME IsProgram(prog), Representable(prog), NEW m, OnCourse(m),
           prog.code[m.pc + 1] = "return"
    PROVE  Len(m.callStack) <= 1
<1> DEFINE s == m.callStack
<1>1. s \in Seq(Frames) /\ Len(s) \in Nat /\ m.pc \in 0..Size(prog) - 1
  BY DEF OnCourse, OnInstruction, Machines
<1>2. SUFFICES ASSUME Len(s) > 1 PROVE FALSE
  BY <1>1
<1>3. /\ 1 \in 1..Len(s) /\ 2 \in 1..Len(s)
      /\ s[1].entryPC < s[2].entryPC
  BY <1>1, <1>2 DEF OnCourse, FramesAre
<1>4. PICK i \in ActiveIn(prog, m.pc) : s[2] = FrameOf(prog.expansions[i])
  BY <1>3, FrameOfPosition DEF OnCourse
<1>5. PICK j \in ActiveIn(prog, m.pc) : s[1] = FrameOf(prog.expansions[j])
  BY <1>3, FrameOfPosition DEF OnCourse
<1>6. i \in 1..Len(prog.expansions) /\ j \in 1..Len(prog.expansions)
  BY DEF ActiveIn
<1>7. /\ prog.expansions[j].start \in Nat /\ prog.expansions[i].start \in Nat
      /\ prog.expansions[j].start < prog.expansions[i].start
  BY <1>3, <1>4, <1>5, <1>6, FrameType, ExpansionType
<1>8. i # 1
  <2>1. prog.expansions[1].start = 0
    BY DEF IsProgram
  <2> QED BY <1>7, <2>1
<1>9. i \in 2..Len(prog.expansions)
  BY <1>6, <1>8, ProgramType
<1> QED BY <1>1, <1>9 DEF Representable, NoNestedReturn

LEMMA Opcode ==
    ASSUME IsProgram(prog), NEW m, OnInstruction(m), NEW n \in executeOpcode(m)
    PROVE  \/ n = Throws(m)
           \/ /\ n \in Machines
              /\ n.pc = m.pc /\ n.callStack = m.callStack
              /\ n.conditionStack \in
                     Script!Branches(prog.code[m.pc + 1], m.conditionStack)
              /\ n.state = IF /\ prog.code[m.pc + 1] = "return"
                              /\ Script!Taken(m.conditionStack)
                           THEN "FINISHED" ELSE m.state
       \/ /\ n = op_return(m) /\ Len(m.callStack) > 1
          /\ prog.code[m.pc + 1] = "return" /\ Script!Taken(m.conditionStack)
<1> DEFINE op == prog.code[m.pc + 1]
           cs == m.conditionStack
<1>1. \A c : isCurrentlyExecuting(c) = Script!Taken(c)
  BY Zenon DEF isCurrentlyExecuting, Script!Taken
<1>2. \A c : Outer(c) = Script!Outer(c)
  BY Zenon DEF Outer, Script!Outer
<1>3. m \in Machines /\ cs \in Seq(BOOLEAN) /\ Len(cs) \in Nat
  BY DEF OnInstruction, Machines
<1>4. op \in Ops
  <2>1. prog.code \in Seq(Ops) /\ m.pc + 1 \in 1..Len(prog.code)
    BY ProgramType DEF IsProgram, OnInstruction, Size
  <2> QED BY <2>1
<1>5. CASE op = "if"
  <2>1. n \in op_if(m) \/ n = Throws(m)
    BY <1>5 DEF executeOpcode
  <2>2. ASSUME NEW cond \in BOOLEAN,
               n = [m EXCEPT !.conditionStack =
                        Append(@, isCurrentlyExecuting(m.conditionStack) /\ cond)]
        PROVE  /\ n \in Machines
               /\ n.pc = m.pc /\ n.callStack = m.callStack /\ n.state = m.state
               /\ n.conditionStack = Append(cs, Script!Taken(cs) /\ cond)
    <3>0. (isCurrentlyExecuting(cs) /\ cond) \in BOOLEAN
      OBVIOUS
    <3> DEFINE b == isCurrentlyExecuting(cs) /\ cond
    <3>1. Append(cs, b) \in Seq(BOOLEAN)
      <4>1. b \in BOOLEAN
        BY <3>0
      <4> HIDE DEF b
      <4> QED BY <1>3, <4>1
    <3>2. n = [m EXCEPT !.conditionStack = Append(cs, b)]
      BY <2>2, Zenon
    <3>3. b = (Script!Taken(cs) /\ cond)
      BY <1>1, Zenon
    <3>4. n.conditionStack = Append(cs, b)
      <4> HIDE DEF b
      <4> QED BY <1>3, <3>2 DEF Machines
    <3>5. /\ n \in Machines
          /\ n.pc = m.pc /\ n.callStack = m.callStack /\ n.state = m.state
      <4> HIDE DEF b
      <4> QED BY <1>3, <3>1, <3>2 DEF Machines
    <3>6. n.conditionStack = Append(cs, Script!Taken(cs) /\ cond)
      BY <3>3, <3>4, Zenon
    <3> QED BY <3>5, <3>6, Zenon
  <2>3. CASE n \in op_if(m)
    <3>1. PICK cond \in BOOLEAN :
              n = [m EXCEPT !.conditionStack =
                       Append(@, isCurrentlyExecuting(m.conditionStack) /\ cond)]
      BY <2>3, Zenon DEF op_if
    <3>2. Append(cs, Script!Taken(cs) /\ cond) \in Script!Branches("if", cs)
      BY Zenon DEF Script!Branches
    <3>3. n.conditionStack \in Script!Branches("if", cs)
      BY <2>2, <3>1, <3>2, Zenon
    <3>4. /\ n \in Machines
          /\ n.pc = m.pc /\ n.callStack = m.callStack /\ n.state = m.state
      BY <2>2, <3>1, Zenon
    <3> QED BY <1>5, <3>3, <3>4
  <2> QED BY <2>1, <2>3
<1>6. CASE op = "else"
  <2>1. n \in op_else(m)
    BY <1>6 DEF executeOpcode
  <2>2. CASE cs = <<>>
    BY <2>1, <2>2 DEF op_else
  <2>3. CASE cs # <<>>
    <3> DEFINE b == isCurrentlyExecuting(Outer(cs)) /\ ~Top(cs)
    <3>1. n = [m EXCEPT !.conditionStack = Append(Outer(cs), b)]
      BY <2>1, <2>3, Zenon DEF op_else
    <3>2. Append(Outer(cs), b) \in Seq(BOOLEAN)
      <4>1. b \in BOOLEAN
        OBVIOUS
      <4>2. Outer(cs) \in Seq(BOOLEAN)
        BY <1>3, <2>3, OuterFacts
      <4> HIDE DEF b
      <4> QED BY <4>1, <4>2
    <3>3. Script!Branches("else", cs)
              = {Append(Script!Outer(cs), Script!Taken(Script!Outer(cs)) /\ ~cs[Len(cs)])}
      BY DEF Script!Branches
    <3>4. b = (Script!Taken(Script!Outer(cs)) /\ ~cs[Len(cs)])
      BY <1>1, <1>2, Zenon DEF Top
    <3>5. Append(Outer(cs), b) \in Script!Branches("else", cs)
      BY <1>2, <3>3, <3>4, Zenon
    <3> HIDE DEF b
    <3>6. /\ n \in Machines
          /\ n.pc = m.pc /\ n.callStack = m.callStack /\ n.state = m.state
          /\ n.conditionStack = Append(Outer(cs), b)
      BY <1>3, <3>1, <3>2 DEF Machines
    <3> QED BY <1>6, <3>5, <3>6
  <2> QED BY <2>2, <2>3
<1>7. CASE op = "endif"
  <2>1. n \in op_endif(m)
    BY <1>7 DEF executeOpcode
  <2>2. CASE cs = <<>>
    BY <2>1, <2>2 DEF op_endif
  <2>3. CASE cs # <<>>
    <3>1. n = [m EXCEPT !.conditionStack = Outer(cs)]
      BY <2>1, <2>3, Zenon DEF op_endif
    <3>2. Outer(cs) \in Seq(BOOLEAN)
      BY <1>3, <2>3, OuterFacts
    <3>3. Script!Branches("endif", cs) = {Script!Outer(cs)}
      BY DEF Script!Branches
    <3>4. /\ n \in Machines
          /\ n.pc = m.pc /\ n.callStack = m.callStack /\ n.state = m.state
          /\ n.conditionStack = Outer(cs)
      BY <1>3, <3>1, <3>2 DEF Machines
    <3> QED BY <1>2, <1>7, <3>3, <3>4
  <2> QED BY <2>2, <2>3
<1>8. CASE op = "plain"
  <2>1. n = m \/ n = Throws(m)
    BY <1>8 DEF executeOpcode
  <2>2. Script!Branches("plain", cs) = {cs}
    BY DEF Script!Branches
  <2> QED BY <1>3, <1>8, <2>1, <2>2
<1>9. CASE op = "return"
  <2>1. Script!Branches("return", cs) = {cs}
    BY DEF Script!Branches
  <2>2. CASE ~Script!Taken(cs)
    <3>1. ~isCurrentlyExecuting(cs)
      BY <1>1, <2>2, Zenon
    <3>2. n = m
      BY <1>9, <3>1 DEF executeOpcode
    <3> QED BY <1>3, <1>9, <2>1, <2>2, <3>2
  <2>3. CASE Script!Taken(cs)
    <3>1. isCurrentlyExecuting(cs)
      BY <1>1, <2>3, Zenon
    <3>2. n = op_return(m)
      BY <1>9, <3>1 DEF executeOpcode
    <3>3. Len(m.callStack) \in Nat
      BY <1>3 DEF Machines
    <3>4. CASE Len(m.callStack) > 1
      BY <1>9, <2>3, <3>2, <3>4
    <3>5. CASE Len(m.callStack) <= 1
      <4>1. n = [m EXCEPT !.state = "FINISHED", !.lastEvent = "FINISHED"]
        BY <3>2, <3>5 DEF op_return
      <4>2. /\ n \in Machines
            /\ n.pc = m.pc /\ n.callStack = m.callStack /\ n.state = "FINISHED"
            /\ n.conditionStack = cs
        BY <1>3, <4>1 DEF Machines, States, Events
      <4> QED BY <1>9, <2>1, <2>3, <4>2
    <3> QED BY <3>3, <3>4, <3>5
  <2> QED BY <2>2, <2>3
<1> QED BY <1>4, <1>5, <1>6, <1>7, <1>8, <1>9 DEF Ops

LEMMA AdvanceFacts ==
    ASSUME IsProgram(prog), Representable(prog), NEW m, OnCourse(m)
    PROVE  /\ Advance(m) \in Machines
           /\ Advance(m).pc = m.pc + 1
           /\ m.pc + 1 < Size(prog) =>
                  FramesAre(prog, m.pc + 1, Advance(m).callStack)
           /\ Advance(m).state = m.state
           /\ Advance(m).conditionStack = m.conditionStack
           /\ Advance(m).lastEvent = "INSTRUCTION_EXECUTED"
<1> DEFINE q == m.pc
           moved == [m EXCEPT !.pc = @ + 1]
           next == EnterFunction(moved)
           last == LeaveFunction(next, q)
<1>1. /\ m \in Machines /\ q \in 0..Size(prog) - 1 /\ q \in Nat
      /\ m.callStack \in Seq(Frames) /\ FramesAre(prog, q, m.callStack)
      /\ Size(prog) \in Nat
  BY ProgramType DEF OnCourse, OnInstruction, Machines
<1>2. PICK k \in ActiveIn(prog, q) :
          IsInnermost(prog, q, k) /\ getFunctionAtPC(prog, q) = prog.expansions[k]
  BY <1>1, Innermost
<1> DEFINE f == prog.expansions[k]
<1>f. getFunctionAtPC(prog, q) = f
  BY <1>2
<1>3. /\ k \in 1..Len(prog.expansions) /\ q < f.end
      /\ f.start \in Nat /\ f.end \in Nat /\ f.end <= Size(prog)
  BY <1>1, <1>2, ExpansionType DEF ActiveIn
<1>4. /\ moved \in Machines /\ moved.pc = q + 1 /\ moved.callStack = m.callStack
      /\ moved.state = m.state /\ moved.conditionStack = m.conditionStack
  BY <1>1 DEF Machines
<1>5. Advance(m) = [last EXCEPT !.lastEvent = "INSTRUCTION_EXECUTED"]
  BY Zenon DEF Advance
<1>6. SUFFICES /\ last \in Machines /\ last.pc = q + 1
               /\ q + 1 < Size(prog) => FramesAre(prog, q + 1, last.callStack)
               /\ last.state = m.state
               /\ last.conditionStack = m.conditionStack
  <2> HIDE DEF last
  <2> QED BY <1>5, <1>6 DEF Machines, Events
<1>7. f # NoFunction
  BY <1>1, <1>3 DEF NoFunction
<1>8. CASE f.end = q + 1
  <2>1. next = moved
    <3>1. CASE q + 1 = Size(prog)
      BY <1>1, <1>4, <3>1 DEF EnterFunction
    <3>2. CASE q + 1 < Size(prog)
      <4>1. PICK j \in ActiveIn(prog, q + 1) :
                getFunctionAtPC(prog, q + 1) = prog.expansions[j]
        BY <1>1, <3>2, Innermost
      <4>2. prog.expansions[j].start # q + 1
        BY <1>1, <1>2, <1>8, <3>2, ActiveEnds
      <4> QED BY <1>4, <4>1, <4>2 DEF EnterFunction
    <3> QED BY <1>1, <3>1, <3>2
  <2>2. Len(m.callStack) \in Nat \ {0} /\ Top(m.callStack) = FrameOf(f)
    BY <1>1, <1>2, TopFrame
  <2>3. m.callStack # <<>>
    BY <2>2
  <2>t. /\ Top(m.callStack).name = f.name /\ Top(m.callStack).entryPC = f.start
        /\ Top(m.callStack).returnPC = f.end
    BY <1>3, <2>2, FrameType
  <2>4. last = popCallFrame(moved)
    <3>1. moved.pc >= f.end
      BY <1>1, <1>4, <1>8
    <3>2. last = LeaveFunction(moved, q)
      BY <2>1, Zenon
    <3> HIDE DEF moved, last, f, q
    <3> QED BY <1>f, <1>4, <1>7, <2>3, <2>t, <3>1, <3>2, Zenon DEF LeaveFunction
  <2>5. popCallFrame(moved) = [moved EXCEPT !.callStack = Outer(m.callStack), !.pc = f.end]
    <3>1. Top(moved.callStack).returnPC = f.end
      BY <1>4, <2>t, Zenon
    <3>2. popCallFrame(moved) = [moved EXCEPT !.callStack = Outer(moved.callStack),
                                              !.pc = Top(moved.callStack).returnPC]
      BY Zenon DEF popCallFrame
    <3> QED BY <1>4, <3>1, <3>2, Zenon
  <2>6. Outer(m.callStack) \in Seq(Frames)
    BY <1>1, <2>2, OuterFacts
  <2>7. /\ last \in Machines /\ last.pc = q + 1
        /\ last.state = m.state /\ last.conditionStack = m.conditionStack
        /\ last.callStack = Outer(m.callStack)
    <3> HIDE DEF last, moved
    <3> QED BY <1>3, <1>4, <1>8, <2>4, <2>5, <2>6 DEF Machines
  <2>8. ASSUME q + 1 < Size(prog) PROVE FramesAre(prog, q + 1, Outer(m.callStack))
    <3>1. ActiveIn(prog, q + 1) = ActiveIn(prog, q) \ {k}
      BY <1>1, <1>2, <1>8, <2>8, ActiveEnds
    <3> QED BY <1>1, <1>2, <3>1, Popped
  <2> QED BY <2>7, <2>8
<1>9. CASE f.end # q + 1
  <2>1. q + 1 < f.end /\ q + 1 < Size(prog)
    BY <1>1, <1>3, <1>9
  <2>2. PICK j \in ActiveIn(prog, q + 1) :
            /\ IsInnermost(prog, q + 1, j)
            /\ getFunctionAtPC(prog, q + 1) = prog.expansions[j]
    BY <1>1, <2>1, Innermost
  <2> DEFINE g == prog.expansions[j]
  <2>3. /\ j \in 1..Len(prog.expansions) /\ g.start \in Nat /\ g.end \in Nat
        /\ g.start < g.end /\ FrameOf(g) \in Frames
    BY <2>2, ExpansionType, FrameType DEF ActiveIn
  <2>4. /\ ActiveIn(prog, q) \subseteq ActiveIn(prog, q + 1)
        /\ \A i \in ActiveIn(prog, q + 1) \ ActiveIn(prog, q) :
              prog.expansions[i].start = q + 1 /\ IsInnermost(prog, q + 1, i)
    BY <1>1, <1>2, <1>9, <2>1, ActiveGoesOn
  <2>5. /\ next \in Machines /\ next.pc = q + 1
        /\ FramesAre(prog, q + 1, next.callStack)
        /\ next.state = m.state /\ next.conditionStack = m.conditionStack
    <3>1. CASE g.start = q + 1
      <4>1. \A i \in 1..Len(m.callStack) : m.callStack[i].entryPC # q + 1
        <5> SUFFICES ASSUME NEW i \in 1..Len(m.callStack)
                     PROVE  m.callStack[i].entryPC # q + 1
          OBVIOUS
        <5> DEFINE s == m.callStack
        <5>0. FramesAre(prog, q, s) /\ i \in 1..Len(s)
          BY <1>1
        <5>1. PICK h \in ActiveIn(prog, q) : s[i] = FrameOf(prog.expansions[h])
          <6> HIDE DEF s, q
          <6> QED BY <5>0, FrameOfPosition
        <5>2. h \in 1..Len(prog.expansions) /\ prog.expansions[h].start <= q
          BY DEF ActiveIn
        <5> QED BY <1>1, <5>1, <5>2, FrameType, ExpansionType
      <4>2. g # NoFunction
        BY <2>3 DEF NoFunction
      <4>3. next = [moved EXCEPT !.callStack = Append(m.callStack, FrameOf(g))]
        <5>1. FrameOf(g) = Frame(g.name, q + 1, g.end)
          BY <3>1 DEF FrameOf
        <5> QED BY <1>4, <2>1, <2>2, <3>1, <4>1, <4>2, <5>1 DEF EnterFunction
      <4>4. ActiveIn(prog, q + 1) = ActiveIn(prog, q) \cup {j}
        <5>1. \A i \in ActiveIn(prog, q + 1) \ ActiveIn(prog, q) : i = j
          <6> SUFFICES ASSUME NEW i \in ActiveIn(prog, q + 1) \ ActiveIn(prog, q)
                       PROVE  i = j
            OBVIOUS
          <6>1. i <= j /\ j <= i /\ i \in Nat /\ j \in Nat
            BY <2>2, <2>4, ProgramType DEF IsInnermost, ActiveIn
          <6> QED BY <6>1
        <5> QED BY <2>2, <2>4, <5>1
      <4>5. FramesAre(prog, q + 1, Append(m.callStack, FrameOf(g)))
        <5>1. q < prog.expansions[j].start
          BY <1>1, <3>1
        <5> DEFINE s == m.callStack
                   r == q + 1
        <5>2. s \in Seq(Frames) /\ FramesAre(prog, q, s)
          BY <1>1
        <5>3. ActiveIn(prog, r) = ActiveIn(prog, q) \cup {j}
          BY <4>4
        <5> HIDE DEF s, q, r
        <5>4. FramesAre(prog, r, Append(s, FrameOf(prog.expansions[j])))
          BY <1>1, <2>3, <5>1, <5>2, <5>3, Pushed
        <5> QED BY <5>4 DEF s, r, q
      <4>6. Append(m.callStack, FrameOf(g)) \in Seq(Frames)
        BY <1>1, <2>3
      <4> HIDE DEF next, moved
      <4> QED BY <1>4, <4>3, <4>5, <4>6 DEF Machines
    <3>2. CASE g.start # q + 1
      <4>1. next = moved
        BY <1>4, <2>2, <3>2 DEF EnterFunction
      <4>2. ActiveIn(prog, q + 1) = ActiveIn(prog, q)
        <5> SUFFICES ASSUME NEW i \in ActiveIn(prog, q + 1) \ ActiveIn(prog, q)
                     PROVE  FALSE
          BY <2>4
        <5>1. i <= j /\ j <= i /\ i \in Nat /\ j \in Nat
          BY <2>2, <2>4, ProgramType DEF IsInnermost, ActiveIn
        <5> QED BY <2>4, <3>2, <5>1
      <4>3. FramesAre(prog, q + 1, m.callStack)
        BY <1>1, <4>2, Zenon DEF FramesAre
      <4> QED BY <1>4, <4>1, <4>3
    <3> QED BY <3>1, <3>2
  <2>6. last = next
    <3>1. ~(next.pc >= f.end)
      <4> HIDE DEF next
      <4> QED BY <1>1, <1>3, <2>1, <2>5
    <3> HIDE DEF next, f, q
    <3> QED BY <1>f, <3>1, Zenon DEF LeaveFunction
  <2> QED BY <2>5, <2>6
<1> QED BY <1>8, <1>9

LEMMA PositionType ==
    ASSUME NEW p, IsProgram(p), NEW q \in Nat
    PROVE  PositionAt(p, q) \in Nat \X Nat /\ LineAt(p, q) \in Nat
<1>1. Size(p) \in Nat /\ p.position \in [0..Size(p) - 1 -> Nat \X Nat]
  BY ProgramType DEF IsProgram
<1>2. PositionAt(p, q) \in Nat \X Nat
  BY <1>1 DEF PositionAt, NoPosition
<1> QED BY <1>2 DEF LineAt

LEMMA Executed ==
    ASSUME TypeOK, Representable(prog), pc < Size(prog),
           FramesAre(prog, pc, callStack), state \in {"RUNNING", "STEP_MODE"},
           NEW n \in executeInstruction(Machine)
    PROVE  /\ n \in Machines
           /\ \/ /\ n.state = "ERROR" /\ n.pc = pc
                 /\ n.callStack = callStack /\ n.conditionStack = conditionStack
              \/ /\ n.pc = pc + 1
                 /\ pc + 1 < Size(prog) => FramesAre(prog, pc + 1, n.callStack)
                 /\ n.conditionStack \in
                        Script!Branches(prog.code[pc + 1], conditionStack)
                 /\ n.state = IF /\ prog.code[pc + 1] = "return"
                                 /\ Script!Taken(conditionStack)
                              THEN "FINISHED" ELSE state
<1>1. IsProgram(prog) /\ Size(prog) \in Nat /\ pc \in 0..Size(prog)
  BY ProgramType DEF TypeOK
<1>2. /\ Machine \in Machines /\ Machine.pc = pc /\ Machine.state = state
      /\ Machine.callStack = callStack /\ Machine.conditionStack = conditionStack
  BY <1>1 DEF Machine, Machines, TypeOK, Frames
<1> DEFINE m == Machine
<1>3. OnCourse(m)
  BY <1>1, <1>2 DEF OnCourse, OnInstruction
<1>4. PICK o \in executeOpcode(m) : n = IF o.state = "ERROR" THEN o ELSE Advance(o)
  BY Zenon DEF executeInstruction
<1> HIDE DEF m
<1>5. CASE o = Throws(m)
  <2>1. /\ o \in Machines /\ o.state = "ERROR" /\ o.pc = pc
        /\ o.callStack = callStack /\ o.conditionStack = conditionStack
    BY <1>2, <1>5 DEF Throws, Machines, States, Events, m
  <2> QED BY <1>4, <2>1
<1>6. CASE /\ o \in Machines
           /\ o.pc = pc /\ o.callStack = callStack
           /\ o.conditionStack \in
                  Script!Branches(prog.code[pc + 1], conditionStack)
           /\ o.state = IF /\ prog.code[pc + 1] = "return"
                           /\ Script!Taken(conditionStack)
                        THEN "FINISHED" ELSE state
  <2>1. OnCourse(o)
    BY <1>1, <1>6 DEF OnCourse, OnInstruction
  <2>2. n = Advance(o)
    BY <1>4, <1>6
  <2>3. /\ Advance(o) \in Machines
        /\ Advance(o).pc = pc + 1
        /\ pc + 1 < Size(prog) => FramesAre(prog, pc + 1, Advance(o).callStack)
        /\ Advance(o).state = o.state
        /\ Advance(o).conditionStack = o.conditionStack
    BY <1>1, <1>6, <2>1, AdvanceFacts
  <2> QED BY <1>6, <2>2, <2>3
<1>7. prog.code[pc + 1] = "return" => Len(m.callStack) <= 1
  BY <1>1, <1>2, <1>3, TopLevelReturn DEF m
<1>8. ~(Len(m.callStack) > 1 /\ prog.code[pc + 1] = "return")
  <2>1. Len(m.callStack) \in Nat
    BY <1>3 DEF OnCourse, OnInstruction, Machines
  <2> QED BY <1>7, <2>1
<1> QED BY <1>1, <1>2, <1>3, <1>4, <1>5, <1>6, <1>8, Opcode DEF m, OnCourse

(***************************************************************************)
(* Programs whose ranges the debug information does not represent.         *)
(***************************************************************************)

(* RangeOf finds an expansion of the name, the last one.                   *)
LEMMA RangeIsExpansion ==
    ASSUME NEW p, IsProgram(p), NEW n \in Names(p)
    PROVE  \E i \in 1..Len(p.expansions) :
               RangeOf(p, n) = p.expansions[i] /\ p.expansions[i].name = n
<1> DEFINE S == {i \in 1..Len(p.expansions) : p.expansions[i].name = n}
           Last(i) == /\ p.expansions[i].name = n
                      /\ \A j \in 1..Len(p.expansions) :
                            p.expansions[j].name = n => j <= i
<1>1. Len(p.expansions) \in Nat
  BY ProgramType
<1>2. S \in SUBSET (1..Len(p.expansions)) /\ S # {}
  BY DEF Names
<1>3. \E i \in S : \A j \in S : j <= i
  <2> HIDE DEF S
  <2> QED BY <1>1, <1>2, LastIndex
<1>4. \E i \in 1..Len(p.expansions) : Last(i)
  BY <1>3
<1>5. RangeOf(p, n) = p.expansions[CHOOSE i \in 1..Len(p.expansions) : Last(i)]
  BY Zenon DEF RangeOf
<1> DEFINE k == CHOOSE i \in 1..Len(p.expansions) : Last(i)
<1>6. k \in 1..Len(p.expansions) /\ Last(k)
  <2> HIDE DEF Last
  <2> QED BY <1>4
<1> QED BY <1>5, <1>6

(* A set of numbers that is not empty has a least one.                     *)
LEMMA LeastNumber ==
    ASSUME NEW S \in SUBSET Nat, S # {}
    PROVE  \E n \in S : \A m \in S : n <= m
<1> DEFINE R == OpToRel(<, Nat)
<1>1. IsWellFoundedOn(R, Nat)
  BY NatLessThanWellFounded
<1> HIDE DEF R
<1>2. PICK n \in S : \A m \in S : ~(<<m, n>> \in R)
  BY <1>1, WFMin
<1>3. ASSUME NEW m \in S PROVE n <= m
  <2>1. n \in Nat /\ m \in Nat /\ ~(m < n)
    BY <1>2 DEF R, OpToRel
  <2> QED BY <2>1
<1> QED BY <1>3

(* A range that getFunctionAtPC answers with, if it finds one.             *)
IsRange(p, f) ==
    \E i \in 1..Len(p.expansions) :
        f = p.expansions[i] /\ RangeOf(p, p.expansions[i].name) = p.expansions[i]

LEMMA FoundRange ==
    ASSUME NEW p, IsProgram(p), NEW q \in Nat,
           getFunctionAtPC(p, q) # NoFunction
    PROVE  LET f == getFunctionAtPC(p, q)
           IN  IsRange(p, f) /\ f.start <= q /\ q < f.end
<1> DEFINE covering == {n \in Names(p) :
                           RangeOf(p, n).start <= q /\ q < RangeOf(p, n).end}
           name == CHOOSE n \in covering : \A m \in covering : n <= m
<1>1. getFunctionAtPC(p, q) = IF covering = {} THEN NoFunction ELSE RangeOf(p, name)
  BY Zenon DEF getFunctionAtPC
<1>2. covering \in SUBSET Nat
  BY ExpansionType DEF Names
<1>3. covering # {} /\ getFunctionAtPC(p, q) = RangeOf(p, name)
  BY <1>1
<1>4. name \in covering
  <2> HIDE DEF covering
  <2>1. \E n \in covering : \A m \in covering : n <= m
    BY <1>2, <1>3, LeastNumber
  <2> QED BY <2>1
<1>5. name \in Names(p) /\ RangeOf(p, name).start <= q /\ q < RangeOf(p, name).end
  BY <1>4
<1> HIDE DEF name
<1>6. PICK i \in 1..Len(p.expansions) :
          RangeOf(p, name) = p.expansions[i] /\ p.expansions[i].name = name
  BY <1>5, RangeIsExpansion
<1> QED BY <1>3, <1>5, <1>6 DEF IsRange

(* The selected function's range is its own.                               *)
LEMMA MainRange ==
    ASSUME NEW p, IsProgram(p), OnlyItself(p)
    PROVE  /\ 1 \in 1..Len(p.expansions) /\ Len(p.expansions) \in Nat
           /\ RangeOf(p, p.expansions[1].name) = p.expansions[1]
           /\ p.expansions[1].start = 0 /\ p.expansions[1].end = Size(p)
<1>1. 1 \in 1..Len(p.expansions) /\ Len(p.expansions) \in Nat
  BY ProgramType
<1>2. p.expansions[1].name \in Names(p)
  BY <1>1 DEF Names
<1>3. PICK i \in 1..Len(p.expansions) :
          /\ RangeOf(p, p.expansions[1].name) = p.expansions[i]
          /\ p.expansions[i].name = p.expansions[1].name
  BY <1>2, RangeIsExpansion
<1>4. i = 1
  BY <1>1, <1>3 DEF OnlyItself
<1> QED BY <1>1, <1>3, <1>4 DEF IsProgram

(* Frames of ranges are frames, and a range is known by its name.          *)
LEMMA RangeFrame ==
    ASSUME NEW p, IsProgram(p), NEW f, IsRange(p, f)
    PROVE  /\ f.name \in Nat /\ f.start \in Nat /\ f.end \in Nat
           /\ f.start < f.end /\ f.end <= Size(p)
           /\ FrameOf(f) \in Frames /\ FrameOf(f).name = f.name
           /\ FrameOf(f).entryPC = f.start /\ FrameOf(f).returnPC = f.end
           /\ RangeOf(p, f.name) = f
BY ExpansionType, FrameType DEF IsRange

LEMMA EntryType ==
    ASSUME NEW frames \in Seq(Frames), NEW k \in 1..Len(frames)
    PROVE  frames[k].entryPC \in Nat
<1>1. frames[k] \in Frames
  OBVIOUS
<1> QED BY <1>1 DEF Frames

LEMMA FrameOfRange ==
    ASSUME NEW p, IsProgram(p), OnlyItself(p), NEW q,
           NEW frames \in Seq(Frames), FramesOfRanges(p, q, frames),
           NEW k \in 1..Len(frames)
    PROVE  \E f : IsRange(p, f) /\ frames[k] = FrameOf(f)
<1>1. CASE k = 1
  <2>1. IsRange(p, p.expansions[1]) /\ frames[k] = FrameOf(p.expansions[1])
    BY <1>1, MainRange DEF IsRange, FramesOfRanges
  <2> QED BY <2>1
<1>2. CASE k \in 2..Len(frames)
  <2>1. PICK i \in 2..Len(p.expansions) :
            /\ frames[k] = FrameOf(p.expansions[i])
            /\ RangeOf(p, p.expansions[i].name) = p.expansions[i]
    BY <1>2 DEF FramesOfRanges
  <2>2. i \in 1..Len(p.expansions)
    BY MainRange
  <2>3. IsRange(p, p.expansions[i])
    BY <2>1, <2>2 DEF IsRange
  <2> QED BY <2>1, <2>3
<1> QED BY <1>1, <1>2

(* A range that starts after the first position is not the selected        *)
(* function's.                                                             *)
LEMMA LaterRange ==
    ASSUME NEW p, IsProgram(p), OnlyItself(p), NEW f, IsRange(p, f), f.start # 0
    PROVE  \E i \in 2..Len(p.expansions) :
               f = p.expansions[i] /\ RangeOf(p, p.expansions[i].name) = p.expansions[i]
<1>1. PICK i \in 1..Len(p.expansions) :
          f = p.expansions[i] /\ RangeOf(p, p.expansions[i].name) = p.expansions[i]
  BY DEF IsRange
<1>2. i # 1
  BY <1>1, MainRange
<1>3. i \in 2..Len(p.expansions)
  BY <1>2, MainRange
<1> QED BY <1>1, <1>3

(* Without its topmost frame, which is not the first, a stack is one of    *)
(* every position from that frame's entry.                                 *)
LEMMA PoppedRanges ==
    ASSUME NEW p, IsProgram(p), NEW q \in Nat,
           NEW frames \in Seq(Frames), FramesOfRanges(p, q, frames),
           Len(frames) > 1, NEW r \in Nat, Top(frames).entryPC <= r
    PROVE  FramesOfRanges(p, r, Outer(frames)) /\ Outer(frames) \in Seq(Frames)
<1> DEFINE N == Len(frames)
           outer == Outer(frames)
<1>1. N \in Nat /\ N > 1 /\ frames[N] = Top(frames) /\ frames[N].entryPC \in Nat
  <2>1. N \in Nat /\ N > 1 /\ N \in 1..N
    OBVIOUS
  <2> QED BY <2>1, EntryType DEF Top
<1>2. /\ outer \in Seq(Frames) /\ Len(outer) = N - 1
      /\ \A k \in 1..N - 1 : outer[k] = frames[k]
  BY <1>1, OuterFacts
<1> HIDE DEF outer
<1>3. outer # <<>> /\ outer[1] = FrameOf(p.expansions[1])
  BY <1>1, <1>2 DEF FramesOfRanges
<1>4. ASSUME NEW k \in 2..N - 1
      PROVE  /\ \E i \in 2..Len(p.expansions) :
                    /\ outer[k] = FrameOf(p.expansions[i])
                    /\ RangeOf(p, p.expansions[i].name) = p.expansions[i]
             /\ outer[k].entryPC <= r
  <2>1. outer[k] = frames[k] /\ k \in 2..N /\ k < N /\ k \in 1..N /\ N \in 1..N
    BY <1>1, <1>2
  <2>2. frames[k].entryPC < frames[N].entryPC /\ frames[k].entryPC \in Nat
    BY <2>1, EntryType DEF FramesOfRanges
  <2>3. outer[k].entryPC <= r
    BY <1>1, <2>1, <2>2
  <2>4. \E i \in 2..Len(p.expansions) :
            /\ frames[k] = FrameOf(p.expansions[i])
            /\ RangeOf(p, p.expansions[i].name) = p.expansions[i]
    BY <2>1 DEF FramesOfRanges
  <2> QED BY <2>1, <2>3, <2>4
<1>5. ASSUME NEW j \in 1..N - 1, NEW k \in 1..N - 1, j < k
      PROVE  outer[j].entryPC < outer[k].entryPC
  <2>1. j \in 1..N /\ k \in 1..N /\ outer[j] = frames[j] /\ outer[k] = frames[k]
    BY <1>1, <1>2
  <2> QED BY <1>5, <2>1 DEF FramesOfRanges
<1>6. FramesOfRanges(p, r, outer)
  BY <1>2, <1>3, <1>4, <1>5 DEF FramesOfRanges
<1> QED BY <1>2, <1>6 DEF outer

(* A range that starts at the next position is pushed.                     *)
LEMMA PushedRange ==
    ASSUME NEW p, IsProgram(p), OnlyItself(p), NEW q \in Nat,
           NEW frames \in Seq(Frames), FramesOfRanges(p, q, frames),
           NEW f, IsRange(p, f), f.start = q + 1
    PROVE  /\ FramesOfRanges(p, q + 1, Append(frames, FrameOf(f)))
           /\ Append(frames, FrameOf(f)) \in Seq(Frames)
<1> DEFINE N == Len(frames)
           all == Append(frames, FrameOf(f))
<1>1. FrameOf(f) \in Frames /\ FrameOf(f).entryPC = q + 1
  BY RangeFrame
<1>2. /\ N \in Nat /\ N >= 1 /\ all \in Seq(Frames) /\ Len(all) = N + 1
      /\ all[N + 1] = FrameOf(f) /\ \A k \in 1..N : all[k] = frames[k]
  BY <1>1 DEF FramesOfRanges
<1> HIDE DEF all
<1>3. \A k \in 1..N : frames[k].entryPC \in Nat /\ frames[k].entryPC <= q
  <2> SUFFICES ASSUME NEW k \in 1..N
               PROVE  frames[k].entryPC \in Nat /\ frames[k].entryPC <= q
    OBVIOUS
  <2>1. frames[k].entryPC \in Nat
    BY EntryType
  <2>2. CASE k = 1
    <3>1. frames[1].entryPC = 0
      BY MainRange DEF FramesOfRanges, FrameOf, Frame
    <3> QED BY <2>1, <2>2, <3>1
  <2>3. CASE k \in 2..N
    BY <2>1, <2>3 DEF FramesOfRanges
  <2> QED BY <1>2, <2>2, <2>3
<1>4. all # <<>> /\ all[1] = FrameOf(p.expansions[1])
  BY <1>2 DEF FramesOfRanges
<1>5. ASSUME NEW k \in 2..N + 1
      PROVE  /\ \E i \in 2..Len(p.expansions) :
                    /\ all[k] = FrameOf(p.expansions[i])
                    /\ RangeOf(p, p.expansions[i].name) = p.expansions[i]
             /\ all[k].entryPC <= q + 1
  <2>1. CASE k = N + 1
    <3>1. PICK i \in 2..Len(p.expansions) :
              f = p.expansions[i] /\ RangeOf(p, p.expansions[i].name) = p.expansions[i]
      BY LaterRange
    <3> QED BY <1>1, <1>2, <2>1, <3>1
  <2>2. CASE k \in 2..N
    <3>1. all[k] = frames[k] /\ all[k].entryPC <= q + 1
      BY <1>2, <1>3, <2>2
    <3>2. \E i \in 2..Len(p.expansions) :
              /\ frames[k] = FrameOf(p.expansions[i])
              /\ RangeOf(p, p.expansions[i].name) = p.expansions[i]
      BY <2>2 DEF FramesOfRanges
    <3> QED BY <3>1, <3>2
  <2> QED BY <1>2, <2>1, <2>2
<1>6. ASSUME NEW j \in 1..N + 1, NEW k \in 1..N + 1, j < k
      PROVE  all[j].entryPC < all[k].entryPC
  <2>1. j \in 1..N /\ all[j] = frames[j]
    BY <1>2, <1>6
  <2>2. CASE k = N + 1
    BY <1>1, <1>2, <1>3, <2>1, <2>2
  <2>3. CASE k \in 1..N
    BY <1>2, <1>6, <2>1, <2>3 DEF FramesOfRanges
  <2> QED BY <1>2, <2>2, <2>3
<1>7. FramesOfRanges(p, q + 1, all)
  BY <1>2, <1>4, <1>5, <1>6 DEF FramesOfRanges
<1> QED BY <1>2, <1>7 DEF all

LEMMA LaterPosition ==
    ASSUME NEW p, NEW q \in Nat, NEW frames \in Seq(Frames),
           FramesOfRanges(p, q, frames)
    PROVE  FramesOfRanges(p, q + 1, frames)
<1>1. \A k \in 2..Len(frames) : frames[k].entryPC <= q + 1
  <2> SUFFICES ASSUME NEW k \in 2..Len(frames) PROVE frames[k].entryPC <= q + 1
    OBVIOUS
  <2>1. frames[k].entryPC \in Nat /\ frames[k].entryPC <= q
    BY EntryType DEF FramesOfRanges
  <2> QED BY <2>1
<1> QED BY <1>1 DEF FramesOfRanges

(* The increment moves the machine to the next position; the frames it     *)
(* pushes and pops are of ranges.                                          *)
LEMMA AdvanceRanges ==
    ASSUME IsProgram(prog), OnlyItself(prog), NEW m, OnInstruction(m),
           FramesOfRanges(prog, m.pc, m.callStack)
    PROVE  /\ Advance(m) \in Machines
           /\ Advance(m).pc = m.pc + 1
           /\ m.pc + 1 < Size(prog) =>
                  FramesOfRanges(prog, m.pc + 1, Advance(m).callStack)
           /\ Advance(m).state = m.state
           /\ Advance(m).conditionStack = m.conditionStack
<1> DEFINE q == m.pc
           s == m.callStack
           moved == [m EXCEPT !.pc = @ + 1]
           next == EnterFunction(moved)
           last == LeaveFunction(next, q)
           f == getFunctionAtPC(prog, q)
           g == getFunctionAtPC(prog, q + 1)
           Right(n, t) == /\ n \in Machines /\ n.pc = q + 1 /\ n.callStack = t
                          /\ n.state = m.state /\ n.conditionStack = m.conditionStack
<1>1. /\ m \in Machines /\ q \in 0..Size(prog) - 1 /\ q \in Nat
      /\ s \in Seq(Frames) /\ FramesOfRanges(prog, q, s)
      /\ Size(prog) \in Nat
  BY ProgramType DEF OnInstruction, Machines
<1>2. Right(moved, s)
  BY <1>1 DEF Machines
<1>3. Advance(m) = [last EXCEPT !.lastEvent = "INSTRUCTION_EXECUTED"]
  BY Zenon DEF Advance
<1>4. SUFFICES \E t : /\ Right(last, t)
                      /\ q + 1 < Size(prog) => FramesOfRanges(prog, q + 1, t)
  <2> HIDE DEF last
  <2> QED BY <1>3, <1>4 DEF Machines, Events
<1>5. f # NoFunction => IsRange(prog, f) /\ f.start <= q /\ q < f.end
  BY <1>1, FoundRange
<1>6. g # NoFunction => IsRange(prog, g)
  BY <1>1, FoundRange
<1>7. \/ next = moved
      \/ /\ IsRange(prog, g) /\ g.start = q + 1
         /\ next = [moved EXCEPT !.callStack = Append(s, FrameOf(g))]
  <2>1. g # NoFunction /\ g.start = q + 1 => Frame(g.name, q + 1, g.end) = FrameOf(g)
    BY DEF FrameOf
  <2>2. \/ next = moved
        \/ /\ g # NoFunction /\ g.start = q + 1
           /\ next = [moved EXCEPT !.callStack = Append(s, Frame(g.name, q + 1, g.end))]
    <3>1. moved.pc = q + 1 /\ moved.callStack = s
      BY <1>2
    <3> HIDE DEF moved, s, q
    <3> QED BY <3>1, Zenon DEF EnterFunction
  <2> HIDE DEF next, moved, g, s, q
  <2> QED BY <1>6, <2>1, <2>2
<1>8. CASE /\ IsRange(prog, g) /\ g.start = q + 1
           /\ next = [moved EXCEPT !.callStack = Append(s, FrameOf(g))]
  <2> DEFINE t == Append(s, FrameOf(g))
  <2>1. FramesOfRanges(prog, q + 1, t) /\ t \in Seq(Frames)
    <3> HIDE DEF q, s, g
    <3> QED BY <1>1, <1>8, PushedRange
  <2>2. Top(t) = FrameOf(g) /\ FrameOf(g).entryPC = q + 1
    <3>1. Len(t) = Len(s) + 1 /\ t[Len(s) + 1] = FrameOf(g)
      <4>1. FrameOf(g) \in Frames
        BY <1>1, <1>8, RangeFrame
      <4> HIDE DEF s, g
      <4> QED BY <1>1, <4>1
    <3>2. FrameOf(g).entryPC = q + 1
      BY <1>1, <1>8, RangeFrame
    <3> QED BY <3>1, <3>2 DEF Top
  <2>3. Right(next, t)
    <3> HIDE DEF t, moved, next
    <3> QED BY <1>2, <1>8, <2>1 DEF Machines, t
  <2>4. last = next
    <3>1. f # NoFunction => f.start # q + 1
      <4>1. f # NoFunction => f.start \in Nat /\ f.start <= q
        BY <1>1, <1>5, RangeFrame
      <4> HIDE DEF f
      <4> QED BY <1>1, <4>1
    <3>2. next.callStack = t
      BY <2>3
    <3> HIDE DEF next, t, q
    <3> QED BY <2>2, <3>1, <3>2 DEF LeaveFunction, f
  <2> HIDE DEF last, next, t
  <2> QED BY <2>1, <2>3, <2>4
<1>9. CASE next = moved
  <2> DEFINE leaves == /\ s # <<>> /\ f # NoFunction /\ q + 1 >= f.end
                       /\ Top(s).name = f.name /\ Top(s).entryPC = f.start
  <2>1. last = IF leaves THEN popCallFrame(moved) ELSE moved
    <3>1. last = LeaveFunction(moved, q)
      BY <1>9, Zenon
    <3>2. moved.pc = q + 1 /\ moved.callStack = s
      BY <1>2
    <3> HIDE DEF last, moved, q, s
    <3> QED BY <3>1, <3>2, Zenon DEF LeaveFunction, leaves
  <2>2. CASE ~leaves
    <3>1. FramesOfRanges(prog, q + 1, s)
      <4> HIDE DEF q, s
      <4> QED BY <1>1, LaterPosition
    <3>2. last = moved
      BY <2>1, <2>2, Zenon
    <3> HIDE DEF last, moved, s
    <3> QED BY <1>2, <3>1, <3>2
  <2>3. CASE leaves
    <3>1. /\ IsRange(prog, f) /\ f.start <= q /\ f.start \in Nat /\ f.end \in Nat
          /\ f.end = q + 1
      <4>1. /\ IsRange(prog, f) /\ f.start <= q /\ q < f.end
            /\ f.start \in Nat /\ f.end \in Nat
        BY <1>1, <1>5, <2>3, RangeFrame
      <4>2. q + 1 >= f.end
        BY <2>3
      <4> HIDE DEF f
      <4> QED BY <1>1, <4>1, <4>2
    <3>2. Len(s) \in 1..Len(s) /\ Len(s) \in Nat
      BY <1>1 DEF FramesOfRanges
    <3>3. PICK h : IsRange(prog, h) /\ Top(s) = FrameOf(h)
      <4> HIDE DEF s, q
      <4> QED BY <1>1, <3>2, FrameOfRange DEF Top
    <3>4. h = f
      <4>1. h.name = f.name
        <5>1. FrameOf(h).name = h.name
          BY <1>1, <3>3, RangeFrame
        <5> QED BY <2>3, <3>3, <5>1
      <4>2. RangeOf(prog, h.name) = h /\ RangeOf(prog, f.name) = f
        BY <3>1, <3>3, RangeFrame
      <4> QED BY <4>1, <4>2
    <3>5. Top(s).returnPC = q + 1 /\ Top(s).entryPC <= q + 1
      <4>1. FrameOf(h).returnPC = h.end /\ FrameOf(h).entryPC = h.start
        BY <3>3, RangeFrame
      <4> HIDE DEF f, s, q
      <4> QED BY <1>1, <3>1, <3>3, <3>4, <4>1
    <3>6. last = [moved EXCEPT !.callStack = Outer(s), !.pc = q + 1]
      <4>1. last = popCallFrame(moved)
        BY <2>1, <2>3, Zenon
      <4>2. popCallFrame(moved) = [moved EXCEPT !.callStack = Outer(moved.callStack),
                                                !.pc = Top(moved.callStack).returnPC]
        BY Zenon DEF popCallFrame
      <4>3. moved.callStack = s
        BY <1>2
      <4> HIDE DEF moved, last, s, q
      <4> QED BY <3>5, <4>1, <4>2, <4>3, Zenon
    <3>7. Outer(s) \in Seq(Frames)
      <4>1. Len(s) # 0
        BY <3>2
      <4> HIDE DEF s
      <4> QED BY <1>1, <4>1, OuterFacts
    <3>8. Right(last, Outer(s))
      <4> HIDE DEF last, moved, s
      <4> QED BY <1>1, <1>2, <3>6, <3>7 DEF Machines
    <3>9. ASSUME q + 1 < Size(prog) PROVE FramesOfRanges(prog, q + 1, Outer(s))
      <4>1. Len(s) > 1
        <5> SUFFICES ASSUME Len(s) = 1 PROVE FALSE
          BY <3>2
        <5>1. Top(s) = FrameOf(prog.expansions[1])
          BY <1>1 DEF FramesOfRanges, Top
        <5>2. prog.expansions[1].end = Size(prog)
          BY MainRange
        <5>3. Top(s).returnPC = Size(prog)
          BY <5>1, <5>2 DEF FrameOf, Frame
        <5> QED BY <1>1, <3>5, <3>9, <5>3
      <4> HIDE DEF s, q
      <4> QED BY <1>1, <3>5, <4>1, PoppedRanges
    <3> HIDE DEF last, s
    <3> QED BY <3>8, <3>9
  <2> QED BY <2>2, <2>3
<1> QED BY <1>7, <1>8, <1>9

(* op_return in a frame whose function has no return: the frame is stale,  *)
(* and the machine goes back to its end.                                   *)
LEMMA StaleReturn ==
    ASSUME IsProgram(prog), NeverJumpsAhead(prog), NEW m, OnInstruction(m),
           FramesOfRanges(prog, m.pc, m.callStack), Len(m.callStack) > 1,
           prog.code[m.pc + 1] = "return"
    PROVE  LET n == op_return(m)
           IN  /\ OnInstruction(n) /\ n.pc < m.pc
               /\ FramesOfRanges(prog, n.pc, n.callStack)
               /\ n.state = m.state /\ n.conditionStack = m.conditionStack
<1> DEFINE s == m.callStack
           n == op_return(m)
<1>1. /\ m \in Machines /\ m.pc \in 0..Size(prog) - 1 /\ m.pc \in Nat
      /\ s \in Seq(Frames) /\ Size(prog) \in Nat
      /\ Len(s) \in 2..Len(s) /\ Len(s) \in 1..Len(s)
  BY ProgramType DEF OnInstruction, Machines
<1>2. PICK i \in 2..Len(prog.expansions) : Top(s) = FrameOf(prog.expansions[i])
  BY <1>1 DEF FramesOfRanges, Top
<1> DEFINE e == prog.expansions[i]
<1>3. i \in 1..Len(prog.expansions) /\ Len(prog.expansions) \in Nat
  BY ProgramType
<1>4. /\ e.start \in Nat /\ e.end \in Nat /\ e.start < e.end
      /\ Top(s).entryPC = e.start /\ Top(s).returnPC = e.end
  BY <1>2, <1>3, ExpansionType, FrameType
<1>5. e.start <= m.pc
  <2>1. Top(s).entryPC <= m.pc
    BY <1>1 DEF FramesOfRanges, Top
  <2> QED BY <1>4, <2>1
<1>6. e.end <= m.pc
  <2>1. i \notin ActiveIn(prog, m.pc)
    BY <1>1 DEF NeverJumpsAhead, NoNestedReturn
  <2>2. ~(m.pc < e.end)
    BY <1>3, <1>5, <2>1 DEF ActiveIn
  <2> HIDE DEF e
  <2> QED BY <1>1, <1>4, <2>2
<1>7. n = [m EXCEPT !.callStack = Outer(s), !.pc = e.end - 1]
  <2>1. popCallFrame(m) = [m EXCEPT !.callStack = Outer(s), !.pc = e.end]
    BY <1>4 DEF popCallFrame
  <2>2. ~(Len(m.callStack) <= 1)
    BY <1>1
  <2>3. n = [popCallFrame(m) EXCEPT !.pc = IF @ > 0 THEN @ - 1 ELSE @]
    BY <2>2, Zenon DEF op_return
  <2>4. popCallFrame(m).pc = e.end /\ e.end > 0
    <3> HIDE DEF e, s
    <3> QED BY <1>1, <1>4, <2>1 DEF Machines
  <2> HIDE DEF e, s, n
  <2> QED BY <1>1, <2>1, <2>3, <2>4 DEF Machines
<1>8. e.end - 1 \in Nat /\ e.end - 1 < m.pc /\ e.start <= e.end - 1
      /\ e.end - 1 \in 0..Size(prog) - 1
  <2> HIDE DEF e
  <2> QED BY <1>1, <1>4, <1>6
<1>9. FramesOfRanges(prog, e.end - 1, Outer(s)) /\ Outer(s) \in Seq(Frames)
  <2> DEFINE r == e.end - 1
  <2>1. r \in Nat /\ Top(s).entryPC <= r
    BY <1>4, <1>8
  <2> HIDE DEF e, s, r
  <2>2. FramesOfRanges(prog, r, Outer(s)) /\ Outer(s) \in Seq(Frames)
    BY <1>1, <2>1, PoppedRanges DEF s
  <2> QED BY <2>2 DEF r
<1>10. /\ n \in Machines /\ n.pc = e.end - 1 /\ n.callStack = Outer(s)
       /\ n.state = m.state /\ n.conditionStack = m.conditionStack
  <2> DEFINE r == e.end - 1
  <2>1. r \in Nat
    BY <1>8
  <2>2. n = [m EXCEPT !.callStack = Outer(s), !.pc = r]
    BY <1>7
  <2> HIDE DEF n, r, s
  <2>3. /\ n \in Machines /\ n.pc = r /\ n.callStack = Outer(s)
        /\ n.state = m.state /\ n.conditionStack = m.conditionStack
    BY <1>1, <1>9, <2>1, <2>2 DEF Machines
  <2> QED BY <2>3 DEF r
<1> HIDE DEF n, e
<1> QED BY <1>8, <1>9, <1>10 DEF OnInstruction, n

(* One instruction of a program whose returns never jump ahead: the        *)
(* machine's frames keep their course, and it moves by one or goes back.   *)
GoesBack(n) ==
    /\ ~Representable(prog)
    /\ prog.code[pc + 1] = "return" /\ Len(callStack) > 1
    /\ n.pc <= pc /\ Course(prog, n.pc, n.callStack)
    /\ n.state = state

LEMMA ExecutedCourse ==
    ASSUME TypeOK, NeverJumpsAhead(prog), pc < Size(prog),
           Course(prog, pc, callStack), state \in {"RUNNING", "STEP_MODE"},
           NEW n \in executeInstruction(Machine)
    PROVE  /\ n \in Machines
           /\ \/ /\ n.state = "ERROR" /\ n.pc = pc
                 /\ n.callStack = callStack /\ n.conditionStack = conditionStack
              \/ /\ n.pc = pc + 1
                 /\ pc + 1 < Size(prog) => Course(prog, pc + 1, n.callStack)
                 /\ n.conditionStack \in
                        Script!Branches(prog.code[pc + 1], conditionStack)
                 /\ n.state = IF /\ prog.code[pc + 1] = "return"
                                 /\ Script!Taken(conditionStack)
                              THEN "FINISHED" ELSE state
              \/ GoesBack(n)
<1>1. CASE Representable(prog)
  BY <1>1, Executed DEF Course
<1>2. CASE ~Representable(prog)
  <2> DEFINE m == Machine
  <2>1. IsProgram(prog) /\ Size(prog) \in Nat /\ pc \in 0..Size(prog)
    BY ProgramType DEF TypeOK
  <2>2. /\ m \in Machines /\ m.pc = pc /\ m.state = state
        /\ m.callStack = callStack /\ m.conditionStack = conditionStack
    BY <2>1 DEF Machine, Machines, TypeOK, Frames
  <2>3. OnInstruction(m) /\ FramesOfRanges(prog, m.pc, m.callStack)
    BY <1>2, <2>1, <2>2 DEF OnInstruction, Course
  <2>4. OnlyItself(prog)
    BY DEF NeverJumpsAhead
  <2>5. PICK o \in executeOpcode(m) : n = IF o.state = "ERROR" THEN o ELSE Advance(o)
    BY Zenon DEF executeInstruction
  <2> HIDE DEF m
  <2>6. CASE o = Throws(m)
    <3>1. /\ o \in Machines /\ o.state = "ERROR" /\ o.pc = pc
          /\ o.callStack = callStack /\ o.conditionStack = conditionStack
      BY <2>2, <2>6 DEF Throws, Machines, States, Events
    <3> QED BY <2>5, <3>1
  <2>7. CASE /\ o \in Machines
             /\ o.pc = pc /\ o.callStack = callStack
             /\ o.conditionStack \in
                    Script!Branches(prog.code[pc + 1], conditionStack)
             /\ o.state = IF /\ prog.code[pc + 1] = "return"
                             /\ Script!Taken(conditionStack)
                          THEN "FINISHED" ELSE state
    <3>1. OnInstruction(o) /\ FramesOfRanges(prog, o.pc, o.callStack)
      BY <2>2, <2>3, <2>7 DEF OnInstruction
    <3>2. n = Advance(o)
      BY <2>5, <2>7
    <3>3. /\ Advance(o) \in Machines
          /\ Advance(o).pc = pc + 1
          /\ pc + 1 < Size(prog) => FramesOfRanges(prog, pc + 1, Advance(o).callStack)
          /\ Advance(o).state = o.state
          /\ Advance(o).conditionStack = o.conditionStack
      BY <2>1, <2>4, <2>7, <3>1, AdvanceRanges
    <3> QED BY <1>2, <2>7, <3>2, <3>3 DEF Course
  <2>8. CASE /\ o = op_return(m) /\ Len(m.callStack) > 1
             /\ prog.code[m.pc + 1] = "return"
    <3>1. /\ OnInstruction(o) /\ o.pc < pc
          /\ FramesOfRanges(prog, o.pc, o.callStack)
          /\ o.state = state
      BY <2>1, <2>2, <2>3, <2>8, StaleReturn
    <3>2. n = Advance(o)
      BY <2>5, <3>1
    <3>3. /\ Advance(o) \in Machines
          /\ Advance(o).pc = o.pc + 1
          /\ o.pc + 1 < Size(prog) =>
                 FramesOfRanges(prog, o.pc + 1, Advance(o).callStack)
          /\ Advance(o).state = o.state
      BY <2>1, <2>4, <3>1, AdvanceRanges
    <3>4. o.pc \in Nat /\ o.pc + 1 <= pc /\ o.pc + 1 < Size(prog)
      <4>1. o.pc \in 0..Size(prog) - 1
        BY <3>1 DEF OnInstruction
      <4> QED BY <2>1, <3>1, <4>1
    <3>5. GoesBack(n)
      BY <1>2, <2>2, <2>8, <3>1, <3>2, <3>3, <3>4 DEF GoesBack, Course
    <3> QED BY <3>2, <3>3, <3>5
  <2> QED BY <2>1, <2>2, <2>3, <2>6, <2>7, <2>8, Opcode
<1> QED BY <1>1, <1>2

(***************************************************************************)
(* The course.                                                             *)
(***************************************************************************)
AllRepresentable == \A p \in Programs : Representable(p)

(* ... or programs whose returns never jump ahead: all of these, and more. *)
AllKeepCourse == \A p \in Programs : NeverJumpsAhead(p)

LEMMA RepresentableNeverJumps ==
    ASSUME NEW p, IsProgram(p), Representable(p)
    PROVE  NeverJumpsAhead(p)
<1>1. 1 \in 1..Len(p.expansions) /\ Len(p.expansions) \in Nat
  BY ProgramType
<1>2. OnlyItself(p)
  <2> SUFFICES ASSUME NEW i \in 2..Len(p.expansions)
               PROVE  p.expansions[i].name # p.expansions[1].name
    BY DEF OnlyItself
  <2>1. i \in 1..Len(p.expansions) /\ 1 < i
    BY <1>1
  <2> QED BY <1>1, <2>1 DEF Representable, NamesTellApart
<1> QED BY <1>2 DEF NeverJumpsAhead, Representable

LEMMA RepresentableKeepsCourse == AllRepresentable => AllKeepCourse
BY ProgramsAssumption, RepresentableNeverJumps DEF AllRepresentable, AllKeepCourse

(* The machine of a state that keeps the invariant.                        *)
Consistent(m) ==
    /\ m \in Machines /\ m.pc <= Size(prog)
    /\ m.pc < Size(prog) => Course(prog, m.pc, m.callStack)

LEMMA FreshFacts ==
    ASSUME IsProgram(prog)
    PROVE  Consistent(Fresh(prog)) /\ Fresh(prog).pc = 0
<1> DEFINE main == prog.expansions[1]
           s == <<Frame(main.name, 0, Size(prog))>>
<1>1. /\ Size(prog) \in Nat \ {0} /\ Len(prog.expansions) \in Nat \ {0}
      /\ 1 \in 1..Len(prog.expansions)
      /\ main.start = 0 /\ main.end = Size(prog) /\ main.name \in Nat
  <2>1. /\ Size(prog) \in Nat \ {0} /\ Len(prog.expansions) \in Nat \ {0}
        /\ 1 \in 1..Len(prog.expansions)
    BY ProgramType
  <2>2. main.start = 0 /\ main.end = Size(prog)
    BY Zenon DEF IsProgram
  <2>3. main.name \in Nat
    BY <2>1, ExpansionType
  <2> QED BY <2>1, <2>2, <2>3
<1>2. Frame(main.name, 0, Size(prog)) = FrameOf(main)
  BY <1>1 DEF FrameOf
<1>3. /\ s \in Seq(Frames) /\ Len(s) = 1 /\ s[1] = FrameOf(main)
  BY <1>1, <1>2, FrameType
<1>4. ASSUME Representable(prog) PROVE ActiveIn(prog, 0) = {1}
  <2>1. \A i \in ActiveIn(prog, 0) : i = 1
    <3> SUFFICES ASSUME NEW i \in ActiveIn(prog, 0), i # 1 PROVE FALSE
      OBVIOUS
    <3>1. i \in 1..Len(prog.expansions) /\ prog.expansions[i].start <= 0
      BY DEF ActiveIn
    <3>2. prog.expansions[1].start < prog.expansions[i].start
      BY <1>1, <1>4, <3>1, Apart
    <3> QED BY <1>1, <3>1, <3>2, ExpansionType
  <2>2. 1 \in ActiveIn(prog, 0)
    BY <1>1, MainIsActive
  <2> QED BY <2>1, <2>2
<1>5. ASSUME Representable(prog) PROVE FramesAre(prog, 0, s)
  <2>1. {s[k] : k \in 1..Len(s)} = {FrameOf(prog.expansions[i]) : i \in ActiveIn(prog, 0)}
    <3> HIDE DEF s
    <3> QED BY <1>3, <1>4, <1>5
  <2>2. \A j, k \in 1..Len(s) : j < k => s[j].entryPC < s[k].entryPC
    BY <1>3
  <2> QED BY <2>1, <2>2, Zenon DEF FramesAre
<1>6. /\ Fresh(prog).pc = 0 /\ Fresh(prog).callStack = s
      /\ Fresh(prog) \in Machines
  BY <1>3 DEF Fresh, Machines, States, Events
<1>7. FramesOfRanges(prog, 0, s)
  BY <1>3 DEF FramesOfRanges
<1>8. Course(prog, 0, s)
  BY <1>5, <1>7 DEF Course
<1> HIDE DEF s
<1> QED BY <1>1, <1>6, <1>8 DEF Consistent

LEMMA MachineFacts ==
    ASSUME TypeOK
    PROVE  /\ Machine \in Machines /\ Machine.pc = pc /\ Machine.state = state
           /\ Machine.callStack = callStack
           /\ Machine.conditionStack = conditionStack
           /\ Machine.lastEvent = lastEvent
           /\ IsProgram(prog) /\ Size(prog) \in Nat /\ pc \in 0..Size(prog)
           /\ pc <= Size(prog)
<1>1. IsProgram(prog) /\ Size(prog) \in Nat /\ pc \in 0..Size(prog)
  BY ProgramType DEF TypeOK
<1> QED BY <1>1 DEF Machine, Machines, TypeOK, Frames

(* A step that keeps the program leaves a machine that keeps the invariant.*)
LEMMA BecomesConsistent ==
    ASSUME IsProgram(prog), NEW m, Consistent(m), Becomes(m), prog' = prog,
           breakpoints' \subseteq Breakpoints(prog),
           skipBreakpointOnce' \in BOOLEAN, skipBreakpointLine' \in Nat,
           stepStartLocation' \in Nat \X Nat, stepStartCallDepth' \in Nat,
           pauseRequested' \in BOOLEAN, terminateRequested' \in BOOLEAN,
           command' \in Commands \cup {"none"},
           lastCommand' \in Commands \cup {"none"}, startPC' \in 0..Size(prog)
    PROVE  FramesKeepCourse'
<1>1. /\ m.state \in States /\ m.lastEvent \in Events /\ m.pc \in 0..Size(prog)
      /\ m.callStack \in Seq(Frames) /\ m.conditionStack \in Seq(BOOLEAN)
      /\ Size(prog) \in Nat
  BY ProgramType DEF Consistent, Machines
<1>2. /\ state' = m.state /\ pc' = m.pc /\ callStack' = m.callStack
      /\ conditionStack' = m.conditionStack /\ lastEvent' = m.lastEvent
  BY DEF Becomes
<1>3. TypeOK'
  BY <1>1, <1>2 DEF TypeOK, Frames
<1>4. pc' < Size(prog') => Course(prog', pc', callStack')
  BY <1>2 DEF Consistent
<1> QED BY <1>3, <1>4 DEF FramesKeepCourse

(* With another state and event a machine is as consistent as before.      *)
LEMMA SameFrames ==
    ASSUME NEW m, Consistent(m), NEW st \in States, NEW ev \in Events
    PROVE  /\ Consistent([m EXCEPT !.state = st])
           /\ Consistent([m EXCEPT !.state = st, !.lastEvent = ev])
           /\ Consistent([m EXCEPT !.lastEvent = ev])
<1>1. /\ m \in Machines /\ m.pc <= Size(prog)
      /\ m.pc < Size(prog) => Course(prog, m.pc, m.callStack)
  BY DEF Consistent
<1>2. ASSUME NEW n \in Machines, n.pc = m.pc, n.callStack = m.callStack
      PROVE  Consistent(n)
  BY <1>1, <1>2 DEF Consistent
<1>3. /\ [m EXCEPT !.state = st] \in Machines
      /\ [m EXCEPT !.state = st].pc = m.pc
      /\ [m EXCEPT !.state = st].callStack = m.callStack
  BY <1>1 DEF Machines
<1>4. /\ [m EXCEPT !.state = st, !.lastEvent = ev] \in Machines
      /\ [m EXCEPT !.state = st, !.lastEvent = ev].pc = m.pc
      /\ [m EXCEPT !.state = st, !.lastEvent = ev].callStack = m.callStack
  BY <1>1 DEF Machines
<1>5. /\ [m EXCEPT !.lastEvent = ev] \in Machines
      /\ [m EXCEPT !.lastEvent = ev].pc = m.pc
      /\ [m EXCEPT !.lastEvent = ev].callStack = m.callStack
  BY <1>1 DEF Machines
<1> QED BY <1>2, <1>3, <1>4, <1>5

LEMMA CourseInit ==
    ASSUME Init, AllKeepCourse
    PROVE  CourseInv
<1>1. /\ prog \in Programs /\ IsProgram(prog) /\ NeverJumpsAhead(prog)
      /\ Size(prog) \in Nat
  BY ProgramsAssumption, ProgramType DEF Init, AllKeepCourse
<1>2. Consistent(Fresh(prog)) /\ Fresh(prog).callStack = callStack
  BY <1>1, FreshFacts DEF Init
<1>3. TypeOK
  <2>1. callStack \in Seq(Frames)
    BY <1>2 DEF Consistent, Machines
  <2>2. NoPosition \in Nat \X Nat /\ 0 \in 0..Size(prog)
    BY <1>1 DEF NoPosition
  <2>3. conditionStack \in Seq(BOOLEAN)
    BY DEF Init
  <2> QED BY <1>1, <2>1, <2>2, <2>3 DEF Init, TypeOK, Frames, States, Events, Commands
<1>4. Course(prog, pc, callStack)
  <2>1. Fresh(prog).pc = 0 /\ Size(prog) # 0
    BY <1>1, FreshFacts, ProgramType
  <2> QED BY <1>1, <1>2, <2>1 DEF Init, Consistent
<1> QED BY <1>1, <1>3, <1>4 DEF CourseInv, FramesKeepCourse, Init, StepCommands

LEMMA CourseStep ==
    ASSUME CourseInv, AllKeepCourse, Next
    PROVE  CourseInv'
<1>1. /\ prog \in Programs /\ IsProgram(prog) /\ NeverJumpsAhead(prog) /\ TypeOK
      /\ FramesKeepCourse
  BY ProgramsAssumption DEF CourseInv, AllKeepCourse, FramesKeepCourse
<1>2. Consistent(Machine)
  BY <1>1, MachineFacts DEF Consistent, FramesKeepCourse
<1>3. Consistent(Fresh(prog)) /\ Fresh(prog).pc = 0 /\ 0 < Size(prog)
  BY <1>1, FreshFacts, ProgramType
<1>4. /\ breakpoints \subseteq Breakpoints(prog)
      /\ skipBreakpointOnce \in BOOLEAN /\ skipBreakpointLine \in Nat
      /\ stepStartLocation \in Nat \X Nat /\ stepStartCallDepth \in Nat
      /\ pauseRequested \in BOOLEAN /\ terminateRequested \in BOOLEAN
      /\ command \in Commands \cup {"none"}
      /\ lastCommand \in Commands \cup {"none"} /\ startPC \in 0..Size(prog)
      /\ Size(prog) \in Nat /\ pc \in 0..Size(prog) /\ 0 \in 0..Size(prog)
      /\ Len(callStack) \in Nat /\ state \in States /\ lastEvent \in Events
  BY <1>1, MachineFacts DEF TypeOK
<1>5. /\ {"READY", "RUNNING", "PAUSED", "STEP_MODE", "FINISHED"} \subseteq States
      /\ {"STARTED", "RESUMED", "STEPPED", "BREAKPOINT_HIT", "PAUSED", "FINISHED"}
             \subseteq Events
  BY DEF States, Events
<1>6. ASSUME NEW n \in executeInstruction(Machine), pc < Size(prog),
             state \in {"RUNNING", "STEP_MODE"}
      PROVE  Consistent(n)
  <2>1. Course(prog, pc, callStack)
    BY <1>1, <1>6 DEF FramesKeepCourse
  <2>2. \/ n \in Machines /\ n.pc = pc /\ n.callStack = callStack
        \/ n \in Machines /\ n.pc = pc + 1
             /\ (pc + 1 < Size(prog) => Course(prog, pc + 1, n.callStack))
        \/ n \in Machines /\ n.pc <= pc /\ Course(prog, n.pc, n.callStack)
    BY <1>1, <1>6, <2>1, ExecutedCourse DEF GoesBack
  <2>3. n.pc \in Nat
    BY <2>2 DEF Machines
  <2> QED BY <1>4, <1>6, <2>1, <2>2, <2>3 DEF Consistent
<1> DEFINE Rest == /\ command' \in StepCommands => state' = "STEP_MODE" /\ pc' < Size(prog)
                   /\ state' = "PAUSED" => pc' < Size(prog)
<1>7. SUFFICES prog' = prog /\ FramesKeepCourse' /\ Rest
  BY <1>1 DEF CourseInv
<1>8. ASSUME Becomes(Machine)
      PROVE  UNCHANGED machine
  BY <1>8 DEF Becomes, Machine, machine
<1>9. ASSUME UNCHANGED machine
      PROVE  Becomes(Machine)
  BY <1>9 DEF Becomes, Machine, machine
<1>10. LineAt(prog, pc) \in Nat /\ PositionAt(prog, pc) \in Nat \X Nat
  BY <1>1, <1>4, PositionType
<1>11. CASE SetBreakpoints
  <2>1. /\ prog' = prog /\ UNCHANGED <<machine, skip, step, requests, command, aux>>
        /\ breakpoints' \subseteq Breakpoints(prog)
    BY <1>11 DEF SetBreakpoints
  <2>2. FramesKeepCourse'
    BY <1>1, <1>2, <1>4, <1>9, <2>1, BecomesConsistent DEF skip, step, requests, aux
  <2> QED BY <2>1, <2>2 DEF CourseInv, machine
<1>12. CASE Reset
  <2> DEFINE m == [Fresh(prog) EXCEPT !.lastEvent = lastEvent]
  <2>1. /\ prog' = prog /\ UNCHANGED <<breakpoints, step, command, startPC>>
        /\ Becomes(m) /\ ResetSkipAndRequests /\ lastCommand' = "none" /\ Idle
    BY <1>12 DEF Reset
  <2>2. Consistent(m)
    BY <1>3, <1>4, <1>5, SameFrames, Zenon
  <2>3. FramesKeepCourse'
    <3> HIDE DEF m
    <3> QED BY <1>1, <1>4, <2>1, <2>2, BecomesConsistent
            DEF step, ResetSkipAndRequests
  <2>4. state' = "READY"
    BY <2>1 DEF Becomes, Fresh
  <2> QED BY <2>1, <2>3, <2>4 DEF Idle, StepCommands
<1>13. CASE Run
  <2>1. /\ prog' = prog /\ UNCHANGED <<breakpoints, step>> /\ command' = "run"
        /\ lastCommand' = "run"
    BY <1>13 DEF Run, Begins
  <2>2. PICK m : /\ Becomes(m) /\ Consistent(m) /\ m.state = "RUNNING"
                 /\ startPC' \in 0..Size(prog)
    <3>1. CASE state = "PAUSED"
      <4> DEFINE n == [Machine EXCEPT !.state = "RUNNING", !.lastEvent = "RESUMED"]
      <4>1. Becomes(n) /\ startPC' = pc
        BY <1>13, <3>1 DEF Run, Begins
      <4>2. Consistent(n)
        BY <1>2, <1>5, SameFrames, Zenon
      <4>3. n.state = "RUNNING"
        BY DEF Machine
      <4> QED BY <1>4, <4>1, <4>2, <4>3
    <3>2. CASE state # "PAUSED"
      <4> DEFINE n == [Fresh(prog) EXCEPT !.state = "RUNNING", !.lastEvent = "RESUMED"]
      <4>1. Becomes(n) /\ startPC' = 0
        BY <1>13, <3>2 DEF Run, Begins
      <4>2. Consistent(n)
        BY <1>3, <1>5, SameFrames, Zenon
      <4>3. n.state = "RUNNING"
        BY DEF Fresh
      <4> QED BY <1>4, <4>1, <4>2, <4>3
    <3> QED BY <3>1, <3>2
  <2>3. /\ skipBreakpointOnce' \in BOOLEAN /\ skipBreakpointLine' \in Nat
        /\ pauseRequested' \in BOOLEAN /\ terminateRequested' \in BOOLEAN
    <3>1. CASE state = "PAUSED"
      BY <1>4, <1>13, <3>1 DEF Run, skip
    <3>2. CASE state # "PAUSED"
      <4>1. ResetSkipAndRequests
        BY <1>13, <3>2, Zenon DEF Run
      <4> QED BY <4>1 DEF ResetSkipAndRequests
    <3> QED BY <3>1, <3>2
  <2>4. FramesKeepCourse'
    BY <1>1, <1>4, <2>1, <2>2, <2>3, BecomesConsistent DEF step, Commands
  <2>5. state' = "RUNNING"
    BY <2>2 DEF Becomes
  <2> QED BY <2>1, <2>4, <2>5 DEF StepCommands
<1>14. ASSUME NEW c \in Commands \ {"run"}, BeginStep(c)
       PROVE  prog' = prog /\ FramesKeepCourse' /\ Rest
  <2>1. /\ prog' = prog /\ UNCHANGED breakpoints /\ command' = c
        /\ lastCommand' = c /\ stepStartCallDepth' = Len(callStack)
        /\ state \in {"READY", "PAUSED"}
        /\ stepStartLocation' = IF c = "stepOut" THEN stepStartLocation
                                ELSE PositionAt(prog, pc)
    BY <1>14 DEF BeginStep, Begins
  <2>2. PICK m : /\ Becomes(m) /\ Consistent(m) /\ m.state = "STEP_MODE"
                 /\ startPC' \in 0..Size(prog) /\ m.pc < Size(prog)
    <3>1. CASE state = "PAUSED"
      <4> DEFINE n == [Machine EXCEPT !.state = "STEP_MODE"]
      <4>1. Becomes(n) /\ startPC' = pc
        BY <1>14, <3>1 DEF BeginStep, Begins
      <4>2. Consistent(n)
        BY <1>2, <1>4, <1>5, SameFrames, Zenon
      <4>3. n.state = "STEP_MODE" /\ n.pc < Size(prog)
        BY <3>1 DEF Machine, CourseInv
      <4> QED BY <1>4, <4>1, <4>2, <4>3
    <3>2. CASE state = "READY"
      <4> DEFINE n == [Fresh(prog) EXCEPT !.state = "STEP_MODE", !.lastEvent = "STARTED"]
      <4>1. Becomes(n) /\ startPC' = 0
        BY <1>14, <3>2 DEF BeginStep, Begins
      <4>2. Consistent(n)
        BY <1>3, <1>5, SameFrames, Zenon
      <4>3. n.state = "STEP_MODE" /\ n.pc < Size(prog)
        BY <1>3 DEF Fresh
      <4> QED BY <1>4, <4>1, <4>2, <4>3
    <3> QED BY <2>1, <3>1, <3>2
  <2>3. /\ skipBreakpointOnce' \in BOOLEAN /\ skipBreakpointLine' \in Nat
        /\ pauseRequested' \in BOOLEAN /\ terminateRequested' \in BOOLEAN
    <3>1. CASE state = "PAUSED"
      BY <1>4, <1>14, <3>1 DEF BeginStep, skip
    <3>2. CASE state # "PAUSED"
      <4>1. ResetSkipAndRequests
        BY <1>14, <3>2, Zenon DEF BeginStep
      <4> QED BY <4>1 DEF ResetSkipAndRequests
    <3> QED BY <3>1, <3>2
  <2>4. stepStartLocation' \in Nat \X Nat /\ stepStartCallDepth' \in Nat
    BY <1>4, <1>10, <2>1
  <2>5. FramesKeepCourse'
    BY <1>1, <1>4, <2>1, <2>2, <2>3, <2>4, BecomesConsistent
  <2>6. state' = "STEP_MODE" /\ pc' < Size(prog)
    BY <2>2 DEF Becomes
  <2> QED BY <2>1, <2>5, <2>6
<1>15. CASE RequestPause \/ RequestTerminate
  <2>1. /\ prog' = prog /\ UNCHANGED <<breakpoints, machine, skip, step, command, aux>>
        /\ pauseRequested' \in BOOLEAN /\ terminateRequested' \in BOOLEAN
    BY <1>4, <1>15 DEF RequestPause, RequestTerminate
  <2>2. FramesKeepCourse'
    BY <1>1, <1>2, <1>4, <1>9, <2>1, BecomesConsistent DEF skip, step, aux
  <2> QED BY <2>1, <2>2 DEF CourseInv, machine
<1>16. CASE RunFinishes
  <2>1. /\ prog' = prog /\ UNCHANGED <<breakpoints, skip, step, requests, aux>>
        /\ command' = "none"
    BY <1>16 DEF RunFinishes, Returns
  <2>2. PICK m : /\ Becomes(m) /\ Consistent(m)
                 /\ m.state = "FINISHED" \/ m = Machine
    <3>1. CASE state = "RUNNING" /\ ~Live
      <4> DEFINE n == [Machine EXCEPT !.state = "FINISHED", !.lastEvent = "FINISHED"]
      <4>1. Becomes(n)
        BY <1>16, <3>1 DEF RunFinishes
      <4>2. Consistent(n)
        BY <1>2, <1>5, SameFrames, Zenon
      <4>3. n.state = "FINISHED"
        BY DEF Machine
      <4> QED BY <4>1, <4>2, <4>3
    <3>2. CASE ~(state = "RUNNING" /\ ~Live)
      BY <1>2, <1>9, <1>16, <3>2 DEF RunFinishes
    <3> QED BY <3>1, <3>2
  <2>3. FramesKeepCourse'
    BY <1>1, <1>4, <2>1, <2>2, BecomesConsistent DEF skip, step, requests, aux
  <2>4. state' = "FINISHED" \/ (state' = state /\ pc' = pc)
    BY <2>2 DEF Becomes, Machine
  <2> QED BY <2>1, <2>3, <2>4 DEF CourseInv, StepCommands
<1>17. CASE RunTerminates
  <2> DEFINE m == [Machine EXCEPT !.state = "FINISHED"]
  <2>1. /\ prog' = prog /\ UNCHANGED <<breakpoints, skip, step, requests, aux>>
        /\ command' = "none" /\ Becomes(m)
    BY <1>17 DEF RunTerminates, Returns
  <2>2. Consistent(m) /\ m.state = "FINISHED"
    <3>1. Consistent(m)
      BY <1>2, <1>4, <1>5, SameFrames, Zenon
    <3>2. m.state = "FINISHED"
      BY DEF Machine
    <3> QED BY <3>1, <3>2
  <2> HIDE DEF m
  <2>3. FramesKeepCourse'
    BY <1>1, <1>4, <2>1, <2>2, BecomesConsistent DEF skip, step, requests, aux
  <2> QED BY <2>1, <2>2, <2>3 DEF Becomes, StepCommands
<1>18. CASE RunPauses
  <2> DEFINE m == [Machine EXCEPT !.state = "PAUSED", !.lastEvent = "PAUSED"]
  <2>1. /\ prog' = prog /\ UNCHANGED <<breakpoints, skip, step, aux>>
        /\ pauseRequested' = FALSE /\ terminateRequested' = terminateRequested
        /\ command' = "none" /\ Becomes(m) /\ pc < Size(prog)
    BY <1>18 DEF RunPauses, Returns, Live
  <2>2. Consistent(m) /\ m.pc = pc
    <3>1. Consistent(m)
      BY <1>2, <1>5, SameFrames, Zenon
    <3>2. m.pc = pc
      BY DEF Machine
    <3> QED BY <3>1, <3>2
  <2> HIDE DEF m
  <2>3. FramesKeepCourse'
    BY <1>1, <1>4, <2>1, <2>2, BecomesConsistent DEF skip, step, aux
  <2> QED BY <2>1, <2>2, <2>3 DEF Becomes, StepCommands
<1>19. CASE RunBreaks
  <2> DEFINE m == [Machine EXCEPT !.state = "PAUSED", !.lastEvent = "BREAKPOINT_HIT"]
  <2>1. /\ prog' = prog /\ UNCHANGED <<breakpoints, step, requests, aux>>
        /\ skipBreakpointOnce' = TRUE /\ skipBreakpointLine' = LineAt(prog, pc)
        /\ command' = "none" /\ Becomes(m) /\ pc < Size(prog)
    BY <1>19 DEF RunBreaks, Returns, RunPasses, Live
  <2>2. Consistent(m) /\ m.pc = pc
    <3>1. Consistent(m)
      BY <1>2, <1>5, SameFrames, Zenon
    <3>2. m.pc = pc
      BY DEF Machine
    <3> QED BY <3>1, <3>2
  <2> HIDE DEF m
  <2>3. FramesKeepCourse'
    BY <1>1, <1>4, <1>10, <2>1, <2>2, BecomesConsistent DEF step, requests, aux
  <2> QED BY <2>1, <2>2, <2>3 DEF Becomes, StepCommands
<1>20. CASE RunExecutes
  <2>1. /\ prog' = prog /\ UNCHANGED <<breakpoints, step, requests, aux>>
        /\ skipBreakpointOnce' = SkipsLine /\ skipBreakpointLine' = skipBreakpointLine
        /\ command' = "run" /\ state = "RUNNING" /\ pc < Size(prog)
    BY <1>20 DEF RunExecutes, Loops, RunPasses, Live
  <2>2. PICK n \in executeInstruction(Machine) : Becomes(n)
    BY <1>20 DEF RunExecutes
  <2>3. Consistent(n)
    BY <1>6, <2>1
  <2>4. SkipsLine \in BOOLEAN
    BY <1>4 DEF SkipsLine
  <2>5. FramesKeepCourse'
    BY <1>1, <1>4, <2>1, <2>2, <2>3, <2>4, BecomesConsistent DEF step, requests, aux, Commands
  <2>6. state' # "PAUSED"
    <3>1. Course(prog, pc, callStack)
      BY <1>1, <2>1 DEF FramesKeepCourse
    <3>2. n.state \in {"ERROR", "FINISHED", "RUNNING"}
      BY <1>1, <2>1, <3>1, ExecutedCourse DEF GoesBack
    <3> QED BY <2>2, <3>2 DEF Becomes
  <2> QED BY <2>1, <2>5, <2>6 DEF StepCommands
<1>21. CASE StepIteration
  <2>1. /\ prog' = prog /\ UNCHANGED <<breakpoints, skip, step, requests, aux>>
        /\ state = "STEP_MODE" /\ pc < Size(prog) /\ command \in StepCommands
    BY <1>21 DEF StepIteration, CourseInv, StepCommands
  <2>2. PICK n \in executeInstruction(Machine) :
          \/ /\ n.state \in {"FINISHED", "ERROR"}
             /\ Becomes(n) /\ Returns
          \/ /\ n.state = "STEP_MODE" /\ n.pc >= Size(prog)
             /\ Becomes([n EXCEPT !.state = "FINISHED", !.lastEvent = "FINISHED"])
             /\ Returns
          \/ /\ n.state = "STEP_MODE" /\ n.pc < Size(prog)
             /\ Decision(n) = "continue"
             /\ Becomes(n) /\ Loops
          \/ /\ n.state = "STEP_MODE" /\ n.pc < Size(prog)
             /\ Decision(n) # "continue"
             /\ Becomes([n EXCEPT !.state = "PAUSED", !.lastEvent = Decision(n)])
             /\ Returns
    BY <1>21, Zenon DEF StepIteration
  <2>3. Consistent(n)
    BY <1>6, <2>1
  <2>4. Decision(n) \in {"continue", "BREAKPOINT_HIT", "STEPPED"}
    BY <2>1 DEF Decision, StepCommands, StepInDecision, StepOverDecision, StepOutDecision
  <2>5. ASSUME NEW m, Consistent(m), Becomes(m), command' \in Commands \cup {"none"}
        PROVE  FramesKeepCourse'
    BY <1>1, <1>4, <2>1, <2>5, BecomesConsistent DEF skip, step, requests, aux
  <2>6. CASE n.state \in {"FINISHED", "ERROR"} /\ Becomes(n) /\ Returns
    <3>1. FramesKeepCourse'
      BY <2>3, <2>5, <2>6 DEF Returns
    <3> QED BY <2>1, <2>6, <3>1 DEF Becomes, Returns, StepCommands
  <2>7. CASE /\ n.state = "STEP_MODE" /\ n.pc >= Size(prog)
             /\ Becomes([n EXCEPT !.state = "FINISHED", !.lastEvent = "FINISHED"])
             /\ Returns
    <3> DEFINE m == [n EXCEPT !.state = "FINISHED", !.lastEvent = "FINISHED"]
    <3>1. Consistent(m)
      BY <1>5, <2>3, SameFrames, Zenon
    <3>2. m.state = "FINISHED"
      BY <2>3 DEF Consistent, Machines
    <3>3. Becomes(m)
      BY <2>7
    <3> HIDE DEF m
    <3>4. FramesKeepCourse'
      BY <2>5, <2>7, <3>1, <3>3 DEF Returns
    <3> QED BY <2>1, <2>7, <3>2, <3>3, <3>4 DEF Becomes, Returns, StepCommands
  <2>8. CASE /\ n.state = "STEP_MODE" /\ n.pc < Size(prog)
             /\ Becomes(n) /\ Loops
    <3>1. FramesKeepCourse'
      BY <1>4, <2>3, <2>5, <2>8 DEF Loops
    <3> QED BY <2>1, <2>8, <3>1 DEF Becomes
  <2>9. CASE /\ n.state = "STEP_MODE" /\ n.pc < Size(prog)
             /\ Decision(n) # "continue"
             /\ Becomes([n EXCEPT !.state = "PAUSED", !.lastEvent = Decision(n)])
             /\ Returns
    <3> DEFINE m == [n EXCEPT !.state = "PAUSED", !.lastEvent = Decision(n)]
    <3>1. Consistent(m)
      <4>1. Decision(n) \in Events
        BY <2>4, <2>9 DEF Events
      <4> QED BY <1>5, <2>3, <4>1, SameFrames, Zenon
    <3>2. m.pc = n.pc
      OBVIOUS
    <3>3. Becomes(m)
      BY <2>9
    <3> HIDE DEF m
    <3>4. FramesKeepCourse'
      BY <2>5, <2>9, <3>1, <3>3 DEF Returns
    <3> QED BY <2>1, <2>9, <3>2, <3>3, <3>4 DEF Becomes, Returns, StepCommands
  <2> QED BY <2>2, <2>6, <2>7, <2>8, <2>9
<1> QED BY <1>11, <1>12, <1>13, <1>14, <1>15, <1>16, <1>17, <1>18, <1>19,
           <1>20, <1>21 DEF Next, Client, Loop

LEMMA CourseNext ==
    ASSUME CourseInv, AllKeepCourse, [Next]_vars
    PROVE  CourseInv'
<1>1. CASE UNCHANGED vars
  BY <1>1 DEF vars, machine, skip, step, requests, aux, CourseInv,
              FramesKeepCourse, TypeOK
<1> QED BY <1>1, CourseStep

(* For programs the debug information represents, the course is the source.*)
LEMMA CourseIsSource ==
    ASSUME AllRepresentable
    PROVE  CourseInv <=> FrameInv
<1>1. prog \in Programs => Representable(prog)
  BY DEF AllRepresentable
<1>2. prog \in Programs => (FramesKeepCourse <=> FramesMatchSource)
  BY <1>1 DEF FramesKeepCourse, FramesMatchSource, Course
<1> QED BY <1>2, Zenon DEF CourseInv, FrameInv

LEMMA CourseIsSourceNext ==
    ASSUME AllRepresentable, CourseInv'
    PROVE  FrameInv'
<1>1. prog' \in Programs /\ Representable(prog') /\ FramesKeepCourse'
  BY DEF AllRepresentable, CourseInv
<1>2. FramesMatchSource'
  BY <1>1 DEF FramesKeepCourse, FramesMatchSource, Course
<1> QED BY <1>2 DEF CourseInv, FrameInv

LEMMA FrameInit ==
    ASSUME Init, AllRepresentable
    PROVE  FrameInv
BY CourseInit, CourseIsSource, RepresentableKeepsCourse

LEMMA FrameNext ==
    ASSUME FrameInv, AllRepresentable, [Next]_vars
    PROVE  FrameInv'
BY CourseNext, CourseIsSource, CourseIsSourceNext, RepresentableKeepsCourse

(* The frames of every state are those of the source text, for every       *)
(* program the debug information can represent, whatever the user does.    *)
THEOREM FramesCorrect ==
    ASSUME AllRepresentable
    PROVE  Spec => []FramesMatchSource
<1>1. Init => FrameInv
  BY FrameInit
<1>2. FrameInv /\ [Next]_vars => FrameInv'
  BY FrameNext
<1>3. FrameInv => FramesMatchSource
  BY DEF FrameInv
<1> QED BY <1>1, <1>2, <1>3, PTL DEF Spec

(***************************************************************************)
(* The breakpoints.                                                        *)
(***************************************************************************)
(* One instruction of run() moves the machine by at most one.              *)
LEMMA RunExecutesOne ==
    ASSUME CourseInv, AllKeepCourse, RunExecutes
    PROVE  pc' \in Nat /\ pc' <= pc + 1
<1>1. PICK n \in executeInstruction(Machine) : Becomes(n)
  BY DEF RunExecutes
<1>2. /\ TypeOK /\ NeverJumpsAhead(prog) /\ pc < Size(prog) /\ state = "RUNNING"
      /\ Course(prog, pc, callStack)
  BY DEF CourseInv, FramesKeepCourse, AllKeepCourse, RunExecutes, RunPasses, Live
<1>3. n \in Machines /\ (n.pc = pc \/ n.pc = pc + 1 \/ n.pc <= pc)
  BY <1>2, ExecutedCourse DEF GoesBack
<1>4. n.pc \in Nat /\ pc \in Nat
  BY <1>2, <1>3, MachineFacts DEF Machines
<1>5. n.pc <= pc + 1
  BY <1>3, <1>4
<1> QED BY <1>1, <1>4, <1>5 DEF Becomes

(* A position before the new one is an earlier one or the last one.        *)
LEMMA LastOrEarlier ==
    ASSUME NEW a \in Nat, NEW b \in Nat, NEW c \in Nat, c <= b + 1,
           NEW q \in a .. c - 1
    PROVE  q \in a .. b - 1 \/ q = b
OBVIOUS

(* Actions of run() that let it go on, and those that set the skip flag.   *)
LEMMA SkipStep ==
    ASSUME CourseInv, SkipInv, AllKeepCourse, [Next]_vars
    PROVE  SkipInv'
<1> SUFFICES ASSUME command' = "run", skipBreakpointOnce',
                    NEW q \in startPC' .. pc' - 1
             PROVE  LineAt(prog', q) = skipBreakpointLine'
  BY DEF SkipInv
<1>1. pc \in Nat /\ startPC \in Nat
  BY MachineFacts DEF CourseInv, FramesKeepCourse, TypeOK
<1>2. CASE UNCHANGED vars \/ SetBreakpoints \/ RequestPause \/ RequestTerminate
  <2>1. UNCHANGED <<prog, machine, skip, command, aux>>
    BY <1>2, Zenon DEF vars, SetBreakpoints, RequestPause, RequestTerminate
  <2> QED BY <2>1 DEF SkipInv, machine, skip, aux
<1>3. CASE Reset
  BY <1>3 DEF Reset, ResetSkipAndRequests
<1>4. CASE Run
  <2>1. startPC' = pc'
    <3>1. CASE state = "PAUSED"
      BY <1>4, <3>1 DEF Run, Begins, Becomes, Machine
    <3>2. CASE state # "PAUSED"
      BY <1>4, <3>2 DEF Run, Begins, Becomes, Fresh
    <3> QED BY <3>1, <3>2
  <2>2. pc' \in Nat
    <3>1. CASE state = "PAUSED"
      BY <1>1, <1>4, <3>1 DEF Run, Becomes, Machine
    <3>2. CASE state # "PAUSED"
      BY <1>4, <3>2 DEF Run, Becomes, Fresh
    <3> QED BY <3>1, <3>2
  <2>3. \A n \in Nat : n .. n - 1 = {}
    OBVIOUS
  <2>4. q \in pc' .. pc' - 1
    BY <2>1, Zenon
  <2> QED BY <2>2, <2>3, <2>4, Zenon
<1>5. CASE \E c \in Commands \ {"run"} : BeginStep(c)
  BY <1>5 DEF BeginStep, Begins
<1>6. CASE RunFinishes \/ RunTerminates \/ RunPauses \/ RunBreaks
  BY <1>6 DEF RunFinishes, RunTerminates, RunPauses, RunBreaks, Returns
<1>7. CASE RunExecutes
  <2>1. /\ command = "run" /\ skipBreakpointOnce /\ skipBreakpointLine' = skipBreakpointLine
        /\ skipBreakpointLine = LineAt(prog, pc) /\ prog' = prog /\ startPC' = startPC
    BY <1>7 DEF RunExecutes, RunPasses, SkipsLine, aux
  <2>2. \A r \in startPC .. pc - 1 : LineAt(prog, r) = skipBreakpointLine
    BY <2>1 DEF SkipInv
  <2>3. pc' \in Nat /\ pc' <= pc + 1
    BY <1>7, RunExecutesOne
  <2>4. q \in startPC .. pc' - 1
    BY <2>1, Zenon
  <2>5. q \in startPC .. pc - 1 \/ q = pc
    BY <1>1, <2>3, <2>4, LastOrEarlier
  <2> QED BY <2>1, <2>2, <2>5
<1>8. CASE StepIteration
  BY <1>8 DEF StepIteration, Returns, Loops
<1> QED BY <1>2, <1>3, <1>4, <1>5, <1>6, <1>7, <1>8 DEF Next, Client, Loop

(* run() passes no breakpoint of a line it has not been on since it began, *)
(* in programs in which no private function contains a return: their       *)
(* expansions may be repeated, adjacent or overlap, and frames be stale.   *)
THEOREM BreakpointsKept ==
    ASSUME AllKeepCourse
    PROVE  Spec => NoBreakpointMissed
<1> DEFINE Missed == command = "run" /\ pc' > pc /\ shouldBreakAtPC(Machine) =>
                \A q \in startPC..pc : LineAt(prog, q) = LineAt(prog, pc)
<1>1. Init => CourseInv /\ SkipInv
  BY CourseInit DEF Init, SkipInv
<1>2. CourseInv /\ SkipInv /\ [Next]_vars => (CourseInv /\ SkipInv)'
  BY CourseNext, SkipStep
<1>3. CourseInv /\ SkipInv /\ [Next]_vars => [Missed]_vars
  <2> SUFFICES ASSUME CourseInv, SkipInv, Next, command = "run", pc' > pc,
                      shouldBreakAtPC(Machine), NEW q \in startPC..pc
               PROVE  LineAt(prog, q) = LineAt(prog, pc)
    BY DEF vars
  <2>1. pc \in Nat /\ startPC \in Nat
    BY MachineFacts DEF CourseInv, FramesKeepCourse, TypeOK
  <2>2. CASE RunExecutes
    <3>1. skipBreakpointOnce /\ skipBreakpointLine = LineAt(prog, pc)
      BY <2>2 DEF RunExecutes, SkipsLine
    <3>2. \A r \in startPC .. pc - 1 : LineAt(prog, r) = skipBreakpointLine
      BY <3>1 DEF SkipInv
    <3>3. q \in startPC .. pc - 1 \/ q = pc
      BY <2>1
    <3> QED BY <3>1, <3>2, <3>3
  <2>3. CASE RequestPause \/ RequestTerminate
    <3>1. pc' = pc
      BY <2>3, Zenon DEF RequestPause, RequestTerminate, machine
    <3> QED BY <2>1, <3>1
  <2>4. CASE RunFinishes
    <3>1. pc' = pc
      <4>1. CASE state = "RUNNING" /\ ~Live
        BY <2>4, <4>1 DEF RunFinishes, Becomes, Machine
      <4>2. CASE ~(state = "RUNNING" /\ ~Live)
        BY <2>4, <4>2, Zenon DEF RunFinishes, machine
      <4> QED BY <4>1, <4>2
    <3> QED BY <2>1, <3>1
  <2>5. CASE RunTerminates \/ RunPauses \/ RunBreaks
    <3>1. pc' = pc
      <4>1. CASE RunTerminates
        BY <4>1 DEF RunTerminates, Becomes, Machine
      <4>2. CASE RunPauses
        BY <4>2 DEF RunPauses, Becomes, Machine
      <4>3. CASE RunBreaks
        BY <4>3 DEF RunBreaks, Becomes, Machine
      <4> QED BY <2>5, <4>1, <4>2, <4>3
    <3> QED BY <2>1, <3>1
  <2>6. CASE \/ SetBreakpoints \/ Reset \/ Run
             \/ \E c \in Commands \ {"run"} : BeginStep(c)
    BY <2>6 DEF SetBreakpoints, Reset, Run, BeginStep, Idle
  <2>7. CASE StepIteration
    BY <2>7 DEF StepIteration
  <2> QED BY <2>2, <2>3, <2>4, <2>5, <2>6, <2>7 DEF Next, Client, Loop
<1> QED BY <1>1, <1>2, <1>3, PTL DEF Spec, NoBreakpointMissed

(***************************************************************************)
(* The script.                                                             *)
(***************************************************************************)
LEMMA StatusOf ==
    /\ state = "FINISHED" => Status = "done"
    /\ state = "ERROR" => Status = "failed"
    /\ state \notin {"FINISHED", "ERROR"} => Status = "running"
BY DEF Status

LEMMA StatusNext ==
    /\ state' = "FINISHED" => Status' = "done"
    /\ state' = "ERROR" => Status' = "failed"
    /\ state' \notin {"FINISHED", "ERROR"} => Status' = "running"
BY DEF Status

(* Programs in which no stale frame is on the call stack when a return is  *)
(* executed: the debug information represents them, or their returns come  *)
(* before the first instruction of the first private function.             *)
ReturnsSafely(p) == Representable(p) \/ ReturnsFirst(p)

AllReturnSafely == \A p \in Programs : ReturnsSafely(p)

LEMMA SafeReturnsNeverJump ==
    ASSUME NEW p, IsProgram(p), ReturnsSafely(p)
    PROVE  NeverJumpsAhead(p)
<1>1. CASE Representable(p)
  BY <1>1, RepresentableNeverJumps
<1>2. CASE ReturnsFirst(p)
  <2>1. NoNestedReturn(p)
    BY <1>2 DEF ReturnsFirst, NoNestedReturn, ActiveIn
  <2> QED BY <1>2, <2>1 DEF ReturnsFirst, NeverJumpsAhead
<1> QED BY <1>1, <1>2 DEF ReturnsSafely

(* A frame above the selected function's is of a range that has begun, and *)
(* so there is no return to execute with it.                               *)
LEMMA NeverGoesBack ==
    ASSUME TypeOK, ReturnsSafely(prog), pc < Size(prog),
           Course(prog, pc, callStack), NEW n
    PROVE  ~GoesBack(n)
<1> SUFFICES ASSUME GoesBack(n) PROVE FALSE
  OBVIOUS
<1>1. /\ ~Representable(prog) /\ ReturnsFirst(prog)
      /\ prog.code[pc + 1] = "return" /\ Len(callStack) > 1
      /\ FramesOfRanges(prog, pc, callStack)
  BY DEF GoesBack, ReturnsSafely, Course
<1>2. /\ IsProgram(prog) /\ Size(prog) \in Nat /\ pc \in 0..Size(prog)
      /\ callStack \in Seq(Frames) /\ 2 \in 2..Len(callStack)
      /\ Len(prog.expansions) \in Nat
  BY <1>1, ProgramType DEF TypeOK, Frames
<1>3. PICK i \in 2..Len(prog.expansions) :
          callStack[2] = FrameOf(prog.expansions[i])
  BY <1>1, <1>2, Zenon DEF FramesOfRanges
<1>4. callStack[2].entryPC <= pc
  BY <1>1, <1>2, Zenon DEF FramesOfRanges
<1>5. i \in 1..Len(prog.expansions)
  BY <1>2
<1>6. prog.expansions[i].start <= pc
  BY <1>2, <1>3, <1>4, <1>5, ExpansionType, FrameType
<1>7. pc \in 0..Size(prog) - 1
  BY <1>2
<1> QED BY <1>1, <1>6, <1>7 DEF ReturnsFirst

(* An executed instruction is one of the script's, or its failure.         *)
LEMMA ExecutedIsScript ==
    ASSUME TypeOK, ReturnsSafely(prog), pc < Size(prog),
           Course(prog, pc, callStack), state \in {"RUNNING", "STEP_MODE"},
           NEW n \in executeInstruction(Machine),
           prog' = prog, terminateRequested' = terminateRequested,
           pc' = n.pc, conditionStack' = n.conditionStack,
           \/ state' = n.state
           \/ n.state = state /\ state' = "PAUSED"
           \/ n.state = state /\ state' = "FINISHED" /\ n.pc >= Size(prog)
    PROVE  Script!Next
<1>1. Status = "running" /\ Size(prog) = Script!Size /\ pc \in Nat /\ Size(prog) \in Nat
  BY StatusOf, MachineFacts DEF Size, Script!Size
<1>2. CASE /\ n.state = "ERROR" /\ n.pc = pc
           /\ n.callStack = callStack /\ n.conditionStack = conditionStack
  <2>1. Status' = "failed"
    BY <1>2, StatusNext
  <2>2. Script!Fails
    BY <1>1, <1>2, <2>1 DEF Script!Fails
  <2> QED BY <2>2 DEF Script!Next
<1>3. CASE /\ n.pc = pc + 1
           /\ n.conditionStack \in
                  Script!Branches(prog.code[pc + 1], conditionStack)
           /\ n.state = IF /\ prog.code[pc + 1] = "return"
                           /\ Script!Taken(conditionStack)
                        THEN "FINISHED" ELSE state
  <2> DEFINE returns == prog.code[pc + 1] = "return" /\ Script!Taken(conditionStack)
  <2>1. \/ Status' = "running" /\ ~returns
        \/ Status' = "done" /\ returns
        \/ Status' = "done" /\ pc + 1 = Script!Size
    <3>1. CASE returns
      BY <1>3, <3>1, StatusNext
    <3>2. CASE ~returns
      <4>1. n.state = state
        BY <1>3, <3>2
      <4>2. CASE state' \notin {"FINISHED", "ERROR"}
        BY <3>2, <4>2, StatusNext
      <4>3. CASE state' = "FINISHED" /\ n.pc >= Size(prog)
        BY <1>1, <1>3, <4>3, StatusNext
      <4> QED BY <4>1, <4>2, <4>3
    <3> QED BY <3>1, <3>2
  <2>2. Script!Instruction
    BY <1>1, <1>3, <2>1 DEF Script!Instruction
  <2> QED BY <2>2 DEF Script!Next
<1>4. ~GoesBack(n)
  BY NeverGoesBack
<1>5. NeverJumpsAhead(prog)
  BY SafeReturnsNeverJump DEF TypeOK
<1> QED BY <1>2, <1>3, <1>4, <1>5, ExecutedCourse

LEMMA ScriptStep ==
    ASSUME CourseInv, AllReturnSafely, [Next]_vars
    PROVE  [Script!Next]_Script!vars
<1>1. /\ TypeOK /\ ReturnsSafely(prog) /\ Size(prog) \in Nat /\ pc \in 0..Size(prog)
      /\ pc < Size(prog) => Course(prog, pc, callStack)
      /\ Size(prog) = Script!Size
  BY MachineFacts DEF CourseInv, FramesKeepCourse, AllReturnSafely, Size, Script!Size
<1>2. ASSUME UNCHANGED <<prog, pc, conditionStack>>, Status' = Status
      PROVE  Script!Next
  <2>1. Script!Client
    BY <1>2 DEF Script!Client
  <2> QED BY <2>1 DEF Script!Next
<1>3. ASSUME UNCHANGED <<prog, machine>> PROVE Script!Next
  <2>1. UNCHANGED <<pc, conditionStack, state>>
    BY <1>3, Zenon DEF machine
  <2>2. Status' = Status
    BY <2>1 DEF Status
  <2> QED BY <1>2, <1>3, <2>1, <2>2
<1>4. ASSUME pc' = 0, conditionStack' = <<>>, prog' = prog,
             state' \notin {"FINISHED", "ERROR"}
      PROVE  Script!Next
  <2>1. Script!Restart
    BY <1>4, StatusNext DEF Script!Restart
  <2> QED BY <2>1 DEF Script!Next
<1>5. CASE UNCHANGED vars \/ SetBreakpoints \/ RequestPause \/ RequestTerminate
  <2>1. UNCHANGED <<prog, machine>>
    BY <1>5, Zenon DEF vars, SetBreakpoints, RequestPause, RequestTerminate
  <2> QED BY <1>3, <2>1
<1>6. CASE Reset
  <2>1. /\ pc' = 0 /\ conditionStack' = <<>> /\ prog' = prog /\ state' = "READY"
    BY <1>6 DEF Reset, Becomes, Fresh
  <2> QED BY <1>4, <2>1
<1>7. CASE Run
  <2>1. CASE state = "PAUSED"
    <3>1. UNCHANGED <<prog, pc, conditionStack>> /\ state' = "RUNNING"
      BY <1>7, <2>1 DEF Run, Becomes, Machine
    <3> QED BY <1>2, <2>1, <3>1, StatusOf, StatusNext
  <2>2. CASE state # "PAUSED"
    <3>1. /\ pc' = 0 /\ conditionStack' = <<>> /\ prog' = prog /\ state' = "RUNNING"
      BY <1>7, <2>2 DEF Run, Becomes, Fresh
    <3> QED BY <1>4, <3>1
  <2> QED BY <2>1, <2>2
<1>8. ASSUME NEW c \in Commands \ {"run"}, BeginStep(c) PROVE Script!Next
  <2>1. CASE state = "PAUSED"
    <3>1. UNCHANGED <<prog, pc, conditionStack>> /\ state' = "STEP_MODE"
      BY <1>8, <2>1 DEF BeginStep, Becomes, Machine
    <3> QED BY <1>2, <2>1, <3>1, StatusOf, StatusNext
  <2>2. CASE state # "PAUSED"
    <3>1. /\ pc' = 0 /\ conditionStack' = <<>> /\ prog' = prog /\ state' = "STEP_MODE"
      BY <1>8, <2>2 DEF BeginStep, Becomes, Fresh
    <3> QED BY <1>4, <3>1
  <2> QED BY <2>1, <2>2
(* The end of the code, or the client's wish: the script ends.             *)
<1>9. ASSUME UNCHANGED <<prog, pc, conditionStack, terminateRequested>>,
             state = "RUNNING", state' = "FINISHED", pc >= Size(prog) \/ terminateRequested
      PROVE  Script!Next
  <2>1. pc = Script!Size \/ terminateRequested
    BY <1>1, <1>9
  <2>2. Status = "running" /\ Status' = "done"
    BY <1>9, StatusOf, StatusNext
  <2>3. Script!Ends
    BY <1>9, <2>1, <2>2 DEF Script!Ends
  <2> QED BY <2>3 DEF Script!Next
<1>10. CASE RunFinishes
  <2>1. CASE state = "RUNNING" /\ ~Live
    <3>1. /\ UNCHANGED <<prog, pc, conditionStack, terminateRequested>>
          /\ state' = "FINISHED"
      BY <1>10, <2>1 DEF RunFinishes, Becomes, Machine, requests
    <3> QED BY <1>1, <1>9, <2>1, <3>1 DEF Live
  <2>2. CASE ~(state = "RUNNING" /\ ~Live)
    <3>1. UNCHANGED <<prog, machine>>
      BY <1>10, <2>2 DEF RunFinishes
    <3> QED BY <1>3, <3>1
  <2> QED BY <2>1, <2>2
<1>11. CASE RunTerminates
  <2>1. /\ UNCHANGED <<prog, pc, conditionStack, terminateRequested>>
        /\ state = "RUNNING" /\ state' = "FINISHED" /\ terminateRequested
    BY <1>11 DEF RunTerminates, Becomes, Machine, requests
  <2> QED BY <1>9, <2>1
<1>12. CASE RunPauses
  <2>1. /\ UNCHANGED <<prog, pc, conditionStack>> /\ state = "RUNNING" /\ state' = "PAUSED"
    BY <1>12 DEF RunPauses, Becomes, Machine
  <2> QED BY <1>2, <2>1, StatusOf, StatusNext
<1>13. CASE RunBreaks
  <2>1. /\ UNCHANGED <<prog, pc, conditionStack>> /\ state = "RUNNING" /\ state' = "PAUSED"
    BY <1>13 DEF RunBreaks, RunPasses, Becomes, Machine
  <2> QED BY <1>2, <2>1, StatusOf, StatusNext
<1>14. CASE RunExecutes
  <2>1. PICK n \in executeInstruction(Machine) : Becomes(n)
    BY <1>14 DEF RunExecutes
  <2>2. /\ pc < Size(prog) /\ state = "RUNNING" /\ prog' = prog
        /\ terminateRequested' = terminateRequested
    BY <1>14 DEF RunExecutes, RunPasses, Live, requests
  <2>3. pc' = n.pc /\ conditionStack' = n.conditionStack /\ state' = n.state
    BY <2>1 DEF Becomes
  <2> QED BY <1>1, <2>2, <2>3, ExecutedIsScript
<1>15. CASE StepIteration
  <2>1. /\ prog' = prog /\ terminateRequested' = terminateRequested
        /\ state = "STEP_MODE" /\ pc < Size(prog)
    BY <1>15 DEF StepIteration, CourseInv, StepCommands, requests
  <2>2. PICK n \in executeInstruction(Machine) :
          /\ pc' = n.pc /\ conditionStack' = n.conditionStack
          /\ \/ state' = n.state
             \/ n.state = state /\ state' = "PAUSED"
             \/ n.state = state /\ state' = "FINISHED" /\ n.pc >= Size(prog)
    <3>1. PICK n \in executeInstruction(Machine) :
          \/ /\ n.state \in {"FINISHED", "ERROR"}
             /\ Becomes(n) /\ Returns
          \/ /\ n.state = "STEP_MODE" /\ n.pc >= Size(prog)
             /\ Becomes([n EXCEPT !.state = "FINISHED", !.lastEvent = "FINISHED"])
             /\ Returns
          \/ /\ n.state = "STEP_MODE" /\ n.pc < Size(prog)
             /\ Decision(n) = "continue"
             /\ Becomes(n) /\ Loops
          \/ /\ n.state = "STEP_MODE" /\ n.pc < Size(prog)
             /\ Decision(n) # "continue"
             /\ Becomes([n EXCEPT !.state = "PAUSED", !.lastEvent = Decision(n)])
             /\ Returns
      BY <1>15, Zenon DEF StepIteration
    <3>2. n \in Machines
      BY <1>1, <2>1, SafeReturnsNeverJump, ExecutedCourse DEF TypeOK
    <3>3. CASE Becomes(n)
      BY <3>3 DEF Becomes
    <3>4. CASE /\ n.state = "STEP_MODE" /\ n.pc >= Size(prog)
               /\ Becomes([n EXCEPT !.state = "FINISHED", !.lastEvent = "FINISHED"])
      BY <2>1, <3>2, <3>4 DEF Becomes, Machines
    <3>5. CASE /\ n.state = "STEP_MODE"
               /\ Becomes([n EXCEPT !.state = "PAUSED", !.lastEvent = Decision(n)])
      BY <2>1, <3>2, <3>5 DEF Becomes, Machines
    <3> QED BY <3>1, <3>3, <3>4, <3>5
  <2> QED BY <1>1, <2>1, <2>2, ExecutedIsScript
<1> QED BY <1>5, <1>6, <1>7, <1>8, <1>10, <1>11, <1>12, <1>13, <1>14, <1>15
        DEF Next, Client, Loop

LEMMA ReturnSafelyKeepsCourse == AllReturnSafely => AllKeepCourse
BY ProgramsAssumption, SafeReturnsNeverJump DEF AllReturnSafely, AllKeepCourse

(* Debugging executes the script's instructions, in order and once, if no  *)
(* stale frame is on the call stack at a return. With one op_return goes   *)
(* back, in the debugged program only, and the refinement does not hold.   *)
THEOREM DebuggingIsTransparent ==
    ASSUME AllReturnSafely
    PROVE  Spec => ImplementsScript
<1>1. Init => CourseInv /\ Script!Init
  BY CourseInit, ReturnSafelyKeepsCourse, StatusOf DEF Init, Script!Init
<1>2. CourseInv /\ [Next]_vars => CourseInv'
  BY CourseNext, ReturnSafelyKeepsCourse
<1>3. CourseInv /\ [Next]_vars => [Script!Next]_Script!vars
  BY ScriptStep
<1> QED BY <1>1, <1>2, <1>3, PTL DEF Spec, ImplementsScript, Script!Spec

(***************************************************************************)
(* The step commands.                                                      *)
(***************************************************************************)
(* The call depth is the number of active expansions.                      *)
LEMMA DepthIsLength ==
    ASSUME NEW p, IsProgram(p), Representable(p), NEW q \in Nat,
           NEW frames \in Seq(Frames), FramesAre(p, q, frames)
    PROVE  Cardinality(ActiveIn(p, q)) = Len(frames)
<1> DEFINE N == Len(frames)
           A == ActiveIn(p, q)
           Of(i) == CHOOSE k \in 1..N : frames[k] = FrameOf(p.expansions[i])
           f == [i \in A |-> Of(i)]
<1>1. N \in Nat /\ A \subseteq 1..Len(p.expansions) /\ Len(p.expansions) \in Nat
  BY ProgramType DEF ActiveIn
<1>2. /\ \A k \in 1..N : \E i \in A : frames[k] = FrameOf(p.expansions[i])
      /\ \A i \in A : \E k \in 1..N : frames[k] = FrameOf(p.expansions[i])
  BY FrameOfPosition
<1> HIDE DEF A, N
<1>3. \A i \in A : Of(i) \in 1..N /\ frames[Of(i)] = FrameOf(p.expansions[i])
  BY <1>2, Zenon
<1>4. \A i, j \in A : Of(i) = Of(j) => i = j
  <2> SUFFICES ASSUME NEW i \in A, NEW j \in A, Of(i) = Of(j) PROVE i = j
    BY Zenon
  <2>1. FrameOf(p.expansions[i]) = FrameOf(p.expansions[j])
    BY <1>3, Zenon
  <2> QED BY <1>1, <2>1, SameFrame
<1>5. \A k, l \in 1..N : frames[k] = frames[l] => k = l
  <2> SUFFICES ASSUME NEW k \in 1..N, NEW l \in 1..N, frames[k] = frames[l], k < l
               PROVE  FALSE
    BY <1>1
  <2>1. frames[k].entryPC < frames[l].entryPC
    BY DEF FramesAre, N
  <2>2. frames[k] \in Frames
    BY DEF N
  <2> QED BY <2>1, <2>2 DEF Frames
<1>6. ASSUME NEW k \in 1..N PROVE \E i \in A : Of(i) = k
  <2>1. PICK i \in A : frames[k] = FrameOf(p.expansions[i])
    BY <1>2
  <2>2. Of(i) \in 1..N /\ frames[Of(i)] = frames[k]
    BY <1>3, <2>1, Zenon
  <2>3. Of(i) = k
    BY <1>5, <2>2, Zenon
  <2> QED BY <2>3, Zenon
<1> HIDE DEF Of
<1>7. f \in Bijection(A, 1..N)
  <2>1. f \in [A -> 1..N] /\ \A i \in A : f[i] = Of(i)
    BY <1>3
  <2>2. \A i, j \in A : f[i] = f[j] => i = j
    BY <1>4, <2>1
  <2>3. \A k \in 1..N : \E i \in A : f[i] = k
    BY <1>6, <2>1
  <2> HIDE DEF f
  <2> QED BY <2>1, <2>2, <2>3, Fun_IsBij
<1>8. ExistsBijection(A, 1..N)
  BY <1>7, Zenon DEF ExistsBijection
<1>9. IsFiniteSet(1..Len(p.expansions))
  BY <1>1, FS_Interval
<1>10. IsFiniteSet(A)
  BY <1>1, <1>9, FS_Subset
<1>11. Cardinality(1..N) = Cardinality(A)
  BY <1>8, <1>10, FS_Bijection
<1>12. Cardinality(1..N) = N
  <2>1. 1 \in Int /\ N \in Int
    BY <1>1
  <2>2. Cardinality(1..N) = IF 1 > N THEN 0 ELSE N - 1 + 1
    BY <2>1, FS_Interval
  <2> QED BY <1>1, <2>2
<1> QED BY <1>11, <1>12 DEF A, N

LEMMA ActiveFinite ==
    ASSUME NEW p, IsProgram(p), NEW q
    PROVE  /\ IsFiniteSet(ActiveIn(p, q)) /\ Cardinality(ActiveIn(p, q)) \in Nat
           /\ ActiveIn(p, q) \subseteq 1..Len(p.expansions)
<1>1. ActiveIn(p, q) \subseteq 1..Len(p.expansions) /\ Len(p.expansions) \in Nat
  BY ProgramType DEF ActiveIn
<1>2. IsFiniteSet(1..Len(p.expansions))
  BY <1>1, FS_Interval
<1> QED BY <1>1, <1>2, FS_Subset, FS_CardinalityType

(* What contains the innermost expansion of a position contains the        *)
(* positions of that expansion.                                            *)
LEMMA WithinInnermost ==
    ASSUME NEW p, IsProgram(p), Representable(p), NEW q \in Nat, NEW s \in Nat,
           NEW k, IsInnermost(p, q, k), k \in ActiveIn(p, s)
    PROVE  ActiveIn(p, q) \subseteq ActiveIn(p, s)
<1> SUFFICES ASSUME NEW i \in ActiveIn(p, q) PROVE i \in ActiveIn(p, s)
  OBVIOUS
<1>1. /\ k \in ActiveIn(p, q) /\ i <= k
      /\ i \in 1..Len(p.expansions) /\ k \in 1..Len(p.expansions)
  BY DEF IsInnermost, ActiveIn
<1>2. CASE i = k
  BY <1>2
<1>3. CASE i < k
  <2>1. Nested(p.expansions[i], p.expansions[k])
    BY <1>1, <1>3, ActiveNest
  <2>2. /\ p.expansions[i].start \in Nat /\ p.expansions[i].end \in Nat
        /\ p.expansions[k].start \in Nat /\ p.expansions[k].end \in Nat
    BY <1>1, ExpansionType
  <2>3. p.expansions[k].start <= s /\ s < p.expansions[k].end
    BY DEF ActiveIn
  <2>4. p.expansions[i].start <= s /\ s < p.expansions[i].end
    <3>1. /\ p.expansions[i].start <= p.expansions[k].start
          /\ p.expansions[k].end <= p.expansions[i].end
      BY <2>1 DEF Nested
    <3>2. s \in Nat
      OBVIOUS
    <3> QED BY <2>2, <2>3, <3>1, <3>2
  <2> QED BY <1>1, <2>4 DEF ActiveIn
<1>4. i \in Int /\ k \in Int
  BY <1>1
<1> QED BY <1>1, <1>2, <1>3, <1>4

(* A step over: from a position within the frame it started in, the next   *)
(* position that is no deeper is in that frame or in one around it, and    *)
(* one that is deeper still within the frame.                              *)
LEMMA WithinFrame ==
    ASSUME NEW p, IsProgram(p), Representable(p), NEW q \in Nat, q + 1 < Size(p),
           NEW s \in 0..Size(p) - 1, ActiveIn(p, s) \subseteq ActiveIn(p, q)
    PROVE  LET D == Cardinality(ActiveIn(p, s))
               E == Cardinality(ActiveIn(p, q + 1))
           IN  /\ E <= D => ActiveIn(p, q + 1) \subseteq ActiveIn(p, s)
               /\ E > D => ActiveIn(p, s) \subseteq ActiveIn(p, q + 1)
<1> DEFINE A(x) == ActiveIn(p, x)
           C(x) == Cardinality(A(x))
<1>1. /\ \A x : IsFiniteSet(A(x)) /\ C(x) \in Nat
      /\ Size(p) \in Nat /\ s \in Nat /\ q \in 0..Size(p) - 1
  BY ActiveFinite, ProgramType
<1>2. PICK k \in A(q) : IsInnermost(p, q, k)
  BY <1>1, Innermost
<1> HIDE DEF A
<1>3. A(s) \subseteq A(q)
  BY DEF A
(* Two such sets of which one contains the other are ordered as their sizes.*)
<1>4. ASSUME NEW x, NEW y, A(x) \subseteq A(y)
      PROVE  C(x) <= C(y) /\ (C(x) = C(y) => A(x) = A(y))
  BY <1>1, <1>4, FS_Subset
<1>5. CASE p.expansions[k].end # q + 1
  <2>1. A(q) \subseteq A(q + 1)
    BY <1>2, <1>5, ActiveGoesOn DEF A
  <2>2. A(s) \subseteq A(q + 1)
    BY <1>3, <2>1
  <2>3. C(s) <= C(q + 1) /\ (C(s) = C(q + 1) => A(s) = A(q + 1))
    BY <1>4, <2>2
  <2>4. C(q + 1) <= C(s) => A(q + 1) \subseteq A(s)
    BY <1>1, <2>3
  <2> QED BY <2>2, <2>4 DEF A
<1>6. CASE p.expansions[k].end = q + 1
  <2>1. A(q + 1) = A(q) \ {k}
    BY <1>2, <1>6, ActiveEnds DEF A
  <2>2. k \in A(q) /\ C(q + 1) = C(q) - 1
    BY <1>1, <1>2, <2>1, FS_RemoveElement
  <2>3. CASE k \in A(s)
    <3>1. A(q) \subseteq A(s)
      BY <1>1, <1>2, <2>3, WithinInnermost DEF A
    <3>2. A(q + 1) \subseteq A(s) /\ C(q) <= C(s)
      BY <1>4, <2>1, <3>1
    <3>3. C(q + 1) <= C(s) /\ ~(C(q + 1) > C(s))
      BY <1>1, <2>2, <3>2
    <3> QED BY <3>2, <3>3 DEF A
  <2>4. CASE k \notin A(s)
    <3>1. A(s) \subseteq A(q + 1)
      BY <1>3, <2>1, <2>4
    <3>2. C(s) <= C(q + 1) /\ (C(s) = C(q + 1) => A(s) = A(q + 1))
      BY <1>4, <3>1
    <3>3. C(q + 1) <= C(s) => A(q + 1) \subseteq A(s)
      BY <1>1, <3>2
    <3> QED BY <3>1, <3>3 DEF A
  <2> QED BY <2>3, <2>4
<1> QED BY <1>5, <1>6

(* What a step loop's decision says of the machine.                        *)
LEMMA Decisions ==
    ASSUME command \in StepCommands, NEW m
    PROVE  /\ Decision(m) \in {"continue", "BREAKPOINT_HIT", "STEPPED"}
           /\ command = "stepIn" /\ Decision(m) = "continue" => SamePosition(m)
           /\ command = "stepOver" =>
                  (Decision(m) = "continue" <=> Deeper(m) \/ SamePosition(m))
           /\ command = "stepOut" /\ Decision(m) = "continue" =>
                  ~(stepStartCallDepth > 1 /\ Len(m.callStack) < stepStartCallDepth)
           /\ command = "stepOut" /\ Decision(m) = "STEPPED" =>
                  (stepStartCallDepth > 1 /\ Len(m.callStack) < stepStartCallDepth)
<1>1. CASE command = "stepIn"
  BY <1>1 DEF Decision, StepInDecision
<1>2. CASE command = "stepOver"
  BY <1>2 DEF Decision, StepOverDecision
<1>3. CASE command = "stepOut"
  BY <1>3 DEF Decision, StepOutDecision
<1> QED BY <1>1, <1>2, <1>3 DEF StepCommands

LEMMA StepIterationStops ==
    ASSUME FrameInv, StepInv, AllRepresentable, StepIteration
    PROVE  StepInv'
<1> DEFINE D == Cardinality(ActiveIn(prog, startPC))
<1>1. /\ TypeOK /\ IsProgram(prog) /\ Representable(prog)
      /\ Size(prog) \in Nat /\ pc \in Nat /\ startPC \in Nat
      /\ command \in StepCommands /\ state = "STEP_MODE" /\ pc < Size(prog)
      /\ FramesAre(prog, pc, callStack) /\ callStack \in Seq(Frames)
  <2>1. TypeOK /\ Representable(prog) /\ command \in StepCommands
    BY DEF FrameInv, FramesMatchSource, AllRepresentable, StepIteration, StepCommands
  <2>2. state = "STEP_MODE" /\ pc < Size(prog)
    BY <2>1 DEF FrameInv
  <2>3. FramesAre(prog, pc, callStack)
    BY <2>2 DEF FrameInv, FramesMatchSource
  <2>4. startPC \in Nat /\ callStack \in Seq(Frames)
    <3>1. startPC \in 0..Size(prog) /\ callStack \in Seq(Frames)
      BY <2>1 DEF TypeOK, Frames
    <3> QED BY <2>1, <3>1, MachineFacts
  <2> QED BY <2>1, <2>2, <2>3, <2>4, MachineFacts
<1>2. /\ lastCommand = command /\ startPC <= pc /\ stepStartCallDepth = D
      /\ command # "stepOut" => stepStartLocation = PositionAt(prog, startPC)
      /\ pc > startPC => ~RunsPast(pc)
      /\ command = "stepOver" => ActiveIn(prog, startPC) \subseteq ActiveIn(prog, pc)
  BY <1>1 DEF StepInv, StepCommands, Depth, Active
<1>3. D \in Nat
  BY <1>1, ActiveFinite
<1>4. UNCHANGED <<prog, step, aux>>
  BY DEF StepIteration
<1>5. PICK n \in executeInstruction(Machine) :
          \/ /\ n.state \in {"FINISHED", "ERROR"}
             /\ Becomes(n) /\ Returns
          \/ /\ n.state = "STEP_MODE" /\ n.pc >= Size(prog)
             /\ Becomes([n EXCEPT !.state = "FINISHED", !.lastEvent = "FINISHED"])
             /\ Returns
          \/ /\ n.state = "STEP_MODE" /\ n.pc < Size(prog)
             /\ Decision(n) = "continue"
             /\ Becomes(n) /\ Loops
          \/ /\ n.state = "STEP_MODE" /\ n.pc < Size(prog)
             /\ Decision(n) # "continue"
             /\ Becomes([n EXCEPT !.state = "PAUSED", !.lastEvent = Decision(n)])
             /\ Returns
  BY Zenon DEF StepIteration
<1>6. /\ n \in Machines
      /\ \/ n.state = "ERROR"
         \/ /\ n.pc = pc + 1
            /\ pc + 1 < Size(prog) => FramesAre(prog, pc + 1, n.callStack)
            /\ n.state \in {"FINISHED", "STEP_MODE"}
  BY <1>1, Executed
(* What happened to the variables, in three cases.                         *)
<1>7. \/ command' = "none" /\ state' = "ERROR"
      \/ /\ command' = "none" /\ state' = "FINISHED" /\ pc' = pc + 1
      \/ /\ command' = command /\ state' = "STEP_MODE" /\ pc' = pc + 1
         /\ pc + 1 < Size(prog) /\ Decision(n) = "continue"
      \/ /\ command' = "none" /\ state' = "PAUSED" /\ pc' = pc + 1
         /\ pc + 1 < Size(prog) /\ Decision(n) # "continue"
         /\ lastEvent' = Decision(n)
  <2>1. CASE n.state \in {"FINISHED", "ERROR"} /\ Becomes(n) /\ Returns
    BY <1>6, <2>1 DEF Becomes, Returns
  <2>2. CASE /\ n.state = "STEP_MODE" /\ n.pc >= Size(prog)
             /\ Becomes([n EXCEPT !.state = "FINISHED", !.lastEvent = "FINISHED"])
             /\ Returns
    BY <1>6, <2>2 DEF Becomes, Returns, Machines
  <2>3. CASE /\ n.state = "STEP_MODE" /\ n.pc < Size(prog)
             /\ Decision(n) = "continue" /\ Becomes(n) /\ Loops
    BY <1>6, <2>3 DEF Becomes, Loops
  <2>4. CASE /\ n.state = "STEP_MODE" /\ n.pc < Size(prog)
             /\ Decision(n) # "continue"
             /\ Becomes([n EXCEPT !.state = "PAUSED", !.lastEvent = Decision(n)])
             /\ Returns
    BY <1>6, <2>4 DEF Becomes, Returns, Machines
  <2> QED BY <1>5, <2>1, <2>2, <2>3, <2>4
<1>8. ASSUME NEW q PROVE RunsPast(q)' = RunsPast(q)
  BY <1>4, Zenon DEF RunsPast, NextStatement, Depth, Active, aux
<1>9. ASSUME state' # "ERROR", NEW q \in startPC' + 1 .. pc' - 1
      PROVE  ~RunsPast(q)'
  <2>1. pc' = pc + 1 /\ startPC' = startPC
    BY <1>4, <1>7, <1>9 DEF aux
  <2>2. q \in startPC + 1 .. pc - 1 \/ (q = pc /\ pc > startPC)
    BY <1>1, <2>1
  <2>3. \A r \in startPC + 1 .. pc - 1 : ~RunsPast(r)
    BY <1>1 DEF StepInv, StepsStopWhereAsked
  <2>4. ~RunsPast(q)
    BY <1>2, <2>2, <2>3
  <2> QED BY <1>8, <2>4
<1>10. ASSUME pc + 1 < Size(prog), n.state # "ERROR"
       PROVE  Cardinality(ActiveIn(prog, pc + 1)) = Len(n.callStack)
  <2>1. FramesAre(prog, pc + 1, n.callStack) /\ n.callStack \in Seq(Frames)
    BY <1>6, <1>10 DEF Machines
  <2> QED BY <1>1, <2>1, DepthIsLength
<1>11. n.state # "ERROR" => n.pc = pc + 1
  BY <1>6
<1>12. ASSUME command = "stepOver", pc + 1 < Size(prog)
       PROVE  /\ Cardinality(ActiveIn(prog, pc + 1)) <= D =>
                     ActiveIn(prog, pc + 1) \subseteq ActiveIn(prog, startPC)
              /\ Cardinality(ActiveIn(prog, pc + 1)) > D =>
                     ActiveIn(prog, startPC) \subseteq ActiveIn(prog, pc + 1)
  <2>1. startPC \in 0..Size(prog) - 1
    BY <1>1, <1>2
  <2> QED BY <1>1, <1>2, <1>12, <2>1, WithinFrame
<1>13. CASE command' = "none" /\ state' = "ERROR"
  BY <1>13 DEF StepInv, StepsStopWhereAsked, StepCommands
<1>14. CASE command' = "none" /\ state' = "FINISHED"
  BY <1>9, <1>14 DEF StepInv, StepsStopWhereAsked, StopsTooEarly, Stopped, StepCommands
<1>15. CASE /\ command' = command /\ state' = "STEP_MODE" /\ pc' = pc + 1
            /\ pc + 1 < Size(prog) /\ Decision(n) = "continue" /\ n.state # "ERROR"
  <2>1. UNCHANGED <<prog, startPC, lastCommand, stepStartCallDepth, stepStartLocation>>
    BY <1>4 DEF step, aux
  <2>2. n.pc = pc + 1 /\ PositionAt(prog, n.pc) = PositionAt(prog, pc + 1)
    BY <1>11, <1>15
  <2>3. ~RunsPast(pc + 1)
    <3>1. CASE command = "stepIn"
      <4>1. PositionAt(prog, pc + 1) = PositionAt(prog, startPC)
        BY <1>1, <1>2, <1>15, <2>2, <3>1, Decisions DEF SamePosition
      <4> QED BY <1>2, <3>1, <4>1 DEF RunsPast
    <3>2. CASE command = "stepOver"
      <4>1. Deeper(n) \/ PositionAt(prog, pc + 1) = PositionAt(prog, startPC)
        BY <1>1, <1>2, <1>15, <2>2, <3>2, Decisions DEF SamePosition
      <4>2. ~NextStatement(pc + 1)
        <5>1. CASE PositionAt(prog, pc + 1) = PositionAt(prog, startPC)
          BY <5>1 DEF NextStatement
        <5>2. CASE Deeper(n)
          <6>1. Cardinality(ActiveIn(prog, pc + 1)) > D
            BY <1>2, <1>10, <1>15, <5>2 DEF Deeper
          <6>2. /\ IsFiniteSet(ActiveIn(prog, startPC))
                /\ Cardinality(ActiveIn(prog, pc + 1)) \in Nat
            BY <1>1, ActiveFinite
          <6>3. ~(ActiveIn(prog, pc + 1) \subseteq ActiveIn(prog, startPC))
            <7> SUFFICES ASSUME ActiveIn(prog, pc + 1) \subseteq ActiveIn(prog, startPC)
                         PROVE  FALSE
              OBVIOUS
            <7>1. Cardinality(ActiveIn(prog, pc + 1)) <= D
              BY <6>2, FS_Subset
            <7> QED BY <1>3, <6>1, <6>2, <7>1
          <6> QED BY <6>3 DEF NextStatement, Active
        <5> QED BY <4>1, <5>1, <5>2
      <4> QED BY <1>2, <3>2, <4>2 DEF RunsPast
    <3>3. CASE command = "stepOut"
      <4>1. ~(D > 1 /\ Len(n.callStack) < D)
        BY <1>1, <1>2, <1>15, <3>3, Decisions
      <4>2. ~(Depth(startPC) > 1 /\ Depth(pc + 1) < Depth(startPC))
        BY <1>10, <1>15, <4>1 DEF Depth, Active
      <4> QED BY <1>2, <3>3, <4>2 DEF RunsPast
    <3> QED BY <1>1, <3>1, <3>2, <3>3 DEF StepCommands
  <2>4. ASSUME command = "stepOver"
        PROVE  ActiveIn(prog, startPC) \subseteq ActiveIn(prog, pc + 1)
    <3>1. Deeper(n) \/ PositionAt(prog, pc + 1) = PositionAt(prog, startPC)
      BY <1>1, <1>2, <1>15, <2>2, <2>4, Decisions DEF SamePosition
    <3>2. CASE PositionAt(prog, pc + 1) = PositionAt(prog, startPC)
      <4>1. startPC \in 0..Size(prog) - 1 /\ pc + 1 \in 0..Size(prog) - 1
        BY <1>1, <1>2, <1>15
      <4>2. prog.position[pc + 1] = prog.position[startPC]
        BY <1>1, <1>15, <3>2, <4>1 DEF PositionAt
      <4>3. ActiveIn(prog, pc + 1) = ActiveIn(prog, startPC)
        BY <1>1, <4>1, <4>2, Zenon DEF Representable, PositionsTellApart
      <4> QED BY <4>3
    <3>3. CASE Deeper(n)
      <4>1. Cardinality(ActiveIn(prog, pc + 1)) > D
        BY <1>2, <1>10, <1>15, <3>3 DEF Deeper
      <4> QED BY <1>12, <1>15, <2>4, <4>1
    <3> QED BY <3>1, <3>2, <3>3
  <2>5. StepsStopWhereAsked'
    BY <1>1, <1>9, <1>15 DEF StepsStopWhereAsked, StopsTooEarly, Stopped, Idle, StepCommands
  <2>6. /\ (startPC <= pc)' /\ (stepStartCallDepth = Depth(startPC))'
        /\ (command # "stepOut" => stepStartLocation = PositionAt(prog, startPC))'
        /\ ~RunsPast(pc)'
        /\ (command = "stepOver" => Active(startPC) \subseteq Active(pc))'
    <3>1. (startPC <= pc)'
      BY <1>1, <1>2, <1>15, <2>1
    <3>2. (stepStartCallDepth = Depth(startPC))'
      BY <1>2, <2>1 DEF Depth, Active
    <3>3. (command # "stepOut" => stepStartLocation = PositionAt(prog, startPC))'
      BY <1>2, <1>15, <2>1
    <3>4. ~RunsPast(pc)'
      <4>1. RunsPast(pc)' = RunsPast(pc + 1)
        BY <1>15, <2>1, Zenon DEF RunsPast, NextStatement, Depth, Active
      <4> QED BY <2>3, <4>1
    <3>5. (command = "stepOver" => Active(startPC) \subseteq Active(pc))'
      BY <1>15, <2>1, <2>4 DEF Active
    <3> QED BY <3>1, <3>2, <3>3, <3>4, <3>5
  <2> QED BY <1>2, <1>15, <2>1, <2>5, <2>6 DEF StepInv
<1>16. CASE /\ command' = "none" /\ state' = "PAUSED" /\ pc' = pc + 1
            /\ pc + 1 < Size(prog) /\ Decision(n) # "continue" /\ n.state # "ERROR"
            /\ lastEvent' = Decision(n)
  <2>1. UNCHANGED <<prog, startPC, lastCommand, stepStartCallDepth, stepStartLocation>>
    BY <1>4 DEF step, aux
  <2>2. n.pc = pc + 1 /\ PositionAt(prog, n.pc) = PositionAt(prog, pc + 1)
    BY <1>11, <1>16
  <2>3. ASSUME command = "stepOver" PROVE NextStatement(pc + 1)
    <3>1. ~Deeper(n) /\ PositionAt(prog, pc + 1) # PositionAt(prog, startPC)
      BY <1>1, <1>2, <1>16, <2>2, <2>3, Decisions DEF SamePosition
    <3>2. Cardinality(ActiveIn(prog, pc + 1)) \in Nat
      BY <1>1, ActiveFinite
    <3>3. Cardinality(ActiveIn(prog, pc + 1)) <= D
      BY <1>2, <1>3, <1>10, <1>16, <3>1, <3>2 DEF Deeper
    <3> QED BY <1>12, <1>16, <2>3, <3>1, <3>3 DEF NextStatement, Active
  <2>4. ASSUME command = "stepOut", Decision(n) = "STEPPED"
        PROVE  ~(Depth(pc + 1) >= Depth(startPC))
    <3>1. Len(n.callStack) < D
      BY <1>1, <1>2, <2>4, Decisions
    <3>2. Cardinality(ActiveIn(prog, pc + 1)) < D
      BY <1>10, <1>16, <3>1
    <3>3. Cardinality(ActiveIn(prog, pc + 1)) \in Nat
      BY <1>1, ActiveFinite
    <3> QED BY <1>3, <3>2, <3>3 DEF Depth, Active
  <2>5. NextStatement(pc)' = NextStatement(pc + 1)
    BY <1>16, <2>1, Zenon DEF NextStatement, Active
  <2>6. Depth(pc)' = Depth(pc + 1) /\ Depth(startPC)' = Depth(startPC)
    BY <1>16, <2>1, Zenon DEF Depth, Active
  <2>7. ~StopsTooEarly'
    <3>1. CASE command = "stepOver"
      BY <1>2, <2>1, <2>3, <2>5, <3>1 DEF StopsTooEarly, Stopped
    <3>2. CASE command = "stepOut"
      <4>1. lastEvent' = "STEPPED" => ~(Depth(pc)' >= Depth(startPC)')
        BY <1>16, <2>4, <2>6, <3>2
      <4> QED BY <1>2, <2>1, <3>2, <4>1 DEF StopsTooEarly, Stopped
    <3>3. CASE command = "stepIn"
      BY <1>2, <2>1, <3>3 DEF StopsTooEarly, Stopped
    <3> QED BY <1>1, <3>1, <3>2, <3>3 DEF StepCommands
  <2> QED BY <1>9, <1>16, <2>7 DEF StepInv, StepsStopWhereAsked, StepCommands
<1>17. n.state = "ERROR" => state' = "ERROR" /\ command' = "none"
  <2> SUFFICES ASSUME n.state = "ERROR" PROVE state' = "ERROR" /\ command' = "none"
    OBVIOUS
  <2>1. Becomes(n) /\ Returns
    BY <1>5
  <2> QED BY <2>1 DEF Becomes, Returns
<1> QED BY <1>7, <1>13, <1>14, <1>15, <1>16, <1>17

LEMMA StepStep ==
    ASSUME FrameInv, StepInv, AllRepresentable, [Next]_vars
    PROVE  StepInv'
<1>1. /\ TypeOK /\ IsProgram(prog) /\ Representable(prog)
      /\ Size(prog) \in Nat /\ pc \in Nat /\ callStack \in Seq(Frames)
  <2>1. TypeOK /\ Representable(prog)
    BY DEF FrameInv, FramesMatchSource, AllRepresentable
  <2> QED BY <2>1, MachineFacts DEF TypeOK, Frames
<1>2. ASSUME UNCHANGED <<prog, machine, step, command, aux>> PROVE StepInv'
  <2>1. UNCHANGED <<prog, state, pc, lastEvent, stepStartLocation,
                    stepStartCallDepth, command, lastCommand, startPC>>
    BY <1>2, Zenon DEF machine, step, aux
  <2>2. StepsStopWhereAsked' = StepsStopWhereAsked
    BY <2>1, Zenon DEF StepsStopWhereAsked, StopsTooEarly, Stopped, Idle, RunsPast,
                NextStatement, Depth, Active
  <2>3. RunsPast(pc)' = RunsPast(pc) /\ Depth(startPC)' = Depth(startPC)
        /\ Active(startPC)' = Active(startPC) /\ Active(pc)' = Active(pc)
    BY <2>1, Zenon DEF RunsPast, NextStatement, Depth, Active
  <2> QED BY <2>1, <2>2, <2>3 DEF StepInv
(* Of other commands than the steps nothing is asked.                      *)
<1>3. ASSUME lastCommand' \in {"run", "none"}, command' \in {"none", lastCommand'},
             state' = "READY" => pc' = 0
      PROVE  StepInv'
  <2>1. \A q : ~RunsPast(q)'
    BY <1>3 DEF RunsPast
  <2>2. ~StopsTooEarly'
    BY <1>3 DEF StopsTooEarly, Stopped
  <2> QED BY <1>3, <2>1, <2>2 DEF StepInv, StepsStopWhereAsked, StepCommands
<1>4. CASE UNCHANGED vars \/ SetBreakpoints \/ RequestPause \/ RequestTerminate
  <2>1. UNCHANGED <<prog, machine, step, command, aux>>
    BY <1>4, Zenon DEF vars, SetBreakpoints, RequestPause, RequestTerminate
  <2> QED BY <1>2, <2>1
<1>5. CASE Reset
  <2>1. lastCommand' = "none" /\ command' = "none" /\ pc' = 0
    BY <1>5 DEF Reset, Idle, Becomes, Fresh
  <2> QED BY <1>3, <2>1
<1>6. CASE Run
  <2>1. lastCommand' = "run" /\ command' = "run"
    BY <1>6 DEF Run, Begins
  <2>2. state' = "RUNNING"
    <3>1. CASE state = "PAUSED"
      BY <1>6, <3>1 DEF Run, Becomes, Machine
    <3>2. CASE state # "PAUSED"
      BY <1>6, <3>2 DEF Run, Becomes, Fresh
    <3> QED BY <3>1, <3>2
  <2> QED BY <1>3, <2>1, <2>2
<1>7. ASSUME NEW c \in Commands \ {"run"}, BeginStep(c) PROVE StepInv'
  <2>1. /\ command' = c /\ lastCommand' = c /\ c \in StepCommands
        /\ state \in {"READY", "PAUSED"} /\ prog' = prog
        /\ stepStartCallDepth' = Len(callStack)
        /\ stepStartLocation' = IF c = "stepOut" THEN stepStartLocation
                                ELSE PositionAt(prog, pc)
    BY <1>7 DEF BeginStep, Begins, Commands, StepCommands
  <2>2. pc' = pc /\ startPC' = pc /\ state' = "STEP_MODE"
    <3>1. CASE state = "PAUSED"
      BY <1>7, <3>1 DEF BeginStep, Begins, Becomes, Machine
    <3>2. CASE state # "PAUSED"
      <4>1. pc' = 0 /\ startPC' = 0 /\ state' = "STEP_MODE"
        BY <1>7, <3>2 DEF BeginStep, Begins, Becomes, Fresh
      <4>2. pc = 0
        BY <2>1, <3>2 DEF StepInv
      <4> QED BY <4>1, <4>2
    <3> QED BY <3>1, <3>2
  <2>3. pc < Size(prog)
    <3>1. CASE state = "PAUSED"
      BY <3>1 DEF FrameInv
    <3>2. CASE state # "PAUSED"
      <4>1. pc = 0
        BY <2>1, <3>2 DEF StepInv
      <4> QED BY <1>1, <4>1, ProgramType
    <3> QED BY <3>1, <3>2
  <2>4. Cardinality(ActiveIn(prog, pc)) = Len(callStack)
    BY <1>1, <2>3, DepthIsLength DEF FrameInv, FramesMatchSource
  <2>5. (stepStartCallDepth = Depth(startPC))'
    BY <2>1, <2>2, <2>4 DEF Depth, Active
  <2>6. (command # "stepOut" => stepStartLocation = PositionAt(prog, startPC))'
    BY <2>1, <2>2
  <2>7. (startPC <= pc)' /\ ~(pc > startPC)'
    BY <1>1, <2>2
  <2>8. (Active(startPC) \subseteq Active(pc))'
    BY <2>1, <2>2 DEF Active
  <2>9. StepsStopWhereAsked'
    <3>1. \A q \in startPC' + 1 .. pc' - 1 : FALSE
      BY <1>1, <2>2
    <3>2. ~StopsTooEarly'
      BY <2>1, <2>2 DEF StopsTooEarly, Stopped, Idle, StepCommands
    <3> QED BY <3>1, <3>2 DEF StepsStopWhereAsked
  <2> QED BY <2>1, <2>2, <2>5, <2>6, <2>7, <2>8, <2>9 DEF StepInv
<1>8. CASE RunFinishes \/ RunTerminates \/ RunPauses \/ RunBreaks \/ RunExecutes
  <2>1. /\ command = "run" /\ lastCommand = "run"
        /\ command' \in {"none", "run"}
    BY <1>8 DEF StepInv, RunFinishes, RunTerminates, RunPauses, RunBreaks,
                RunExecutes, RunPasses, Returns, Loops
  <2>2. lastCommand' = lastCommand
    <3>1. UNCHANGED aux
      BY <1>8, Zenon DEF RunFinishes, RunTerminates, RunPauses, RunBreaks, RunExecutes
    <3> QED BY <3>1 DEF aux
  <2>3. state' = "READY" => pc' = 0
    <3>1. CASE RunFinishes
      <4>1. CASE state = "RUNNING" /\ ~Live
        BY <3>1, <4>1 DEF RunFinishes, Becomes, Machine
      <4>2. CASE ~(state = "RUNNING" /\ ~Live)
        BY <3>1, <4>2 DEF RunFinishes, machine, StepInv
      <4> QED BY <4>1, <4>2
    <3>2. CASE RunTerminates
      BY <3>2 DEF RunTerminates, Becomes, Machine
    <3>3. CASE RunPauses
      BY <3>3 DEF RunPauses, Becomes, Machine
    <3>4. CASE RunBreaks
      BY <3>4 DEF RunBreaks, Becomes, Machine
    <3>5. CASE RunExecutes
      <4>1. PICK n \in executeInstruction(Machine) : Becomes(n)
        BY <3>5 DEF RunExecutes
      <4>2. pc < Size(prog) /\ state = "RUNNING" /\ FramesAre(prog, pc, callStack)
        BY <3>5 DEF RunExecutes, RunPasses, Live, FrameInv, FramesMatchSource
      <4>3. n.state \in {"ERROR", "FINISHED", "RUNNING"}
        BY <1>1, <4>2, Executed
      <4> QED BY <4>1, <4>3 DEF Becomes
    <3> QED BY <1>8, <3>1, <3>2, <3>3, <3>4, <3>5
  <2> QED BY <1>3, <2>1, <2>2, <2>3
<1>9. CASE StepIteration
  BY <1>9, StepIterationStops
<1> QED BY <1>4, <1>5, <1>6, <1>7, <1>8, <1>9 DEF Next, Client, Loop

(* The step commands stop neither too early nor too late, by counting      *)
(* frames and comparing positions.                                         *)
THEOREM StepsCorrect ==
    ASSUME AllRepresentable
    PROVE  Spec => []StepsStopWhereAsked
<1>1. Init => FrameInv /\ StepInv
  <2> SUFFICES ASSUME Init PROVE FrameInv /\ StepInv
    OBVIOUS
  <2>1. \A q : ~RunsPast(q)
    BY DEF Init, RunsPast
  <2>2. StepInv
    BY <2>1 DEF Init, StepInv, StepsStopWhereAsked, StopsTooEarly, Stopped, StepCommands
  <2> QED BY <2>2, FrameInit
<1>2. FrameInv /\ StepInv /\ [Next]_vars => (FrameInv /\ StepInv)'
  BY FrameNext, StepStep
<1>3. StepInv => StepsStopWhereAsked
  BY DEF StepInv
<1> QED BY <1>1, <1>2, <1>3, PTL DEF Spec
=============================================================================
