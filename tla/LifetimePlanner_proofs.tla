------------------------- MODULE LifetimePlanner_proofs -------------------------
(***************************************************************************)
(* No statement finds a place given up that it still uses: for functions   *)
(* of any size, whatever the names, the nesting and the path the function  *)
(* takes.                                                                  *)
(*                                                                         *)
(* The proof has two halves that meet in SoundGraph. One is about the      *)
(* analysis: where its rounds change nothing its sets satisfy the          *)
(* equations (FixedDominators, FixedLiveness), so what a block needs is    *)
(* available on every path to it (SoundLiveness), and a run keeps what is  *)
(* needed from where it stands (SoundRun). That a place is not given up    *)
(* and then defined anew takes a reason of its own: a definition is        *)
(* executed once (RunsOnce), or what it defines escapes (EscapesAll).      *)
(* The other half is about the planner: it makes no other graphs. A loop   *)
(* that is open leads back only to blocks in which all that is defined     *)
(* escapes (PlanGraph), the blocks a node will be continued at are empty   *)
(* until then (OpenFine), and the scopes a node remembers are those around *)
(* it (Nested).                                                            *)
(***************************************************************************)
EXTENDS LifetimePlanner, FiniteSetTheorems, SequenceTheorems, WellFoundedInduction, TLAPS


(* A set of natural numbers that is not empty has a least one.             *)
LEMMA LeastElement ==
    ASSUME NEW T, T \subseteq Nat, T # {}
    PROVE  \E x \in T : \A y \in T : x <= y
  <1> DEFINE R == OpToRel(<, Nat)
  <1>1. IsWellFoundedOn(R, Nat)
    BY NatLessThanWellFounded, Zenon
  <1>2. \A x, y \in Nat : <<y, x>> \in R <=> y < x
    BY DEF OpToRel
  <1> HIDE DEF R
  <1>3. PICK x \in T : \A y \in T : ~(<<y, x>> \in R)
    BY <1>1, WFMin
  <1>4. ASSUME NEW y \in T PROVE x <= y
    <2>1. x \in Nat /\ y \in Nat /\ ~(y < x)
      BY <1>2, <1>3
    <2> QED BY <2>1
  <1> QED BY <1>4

(* Induction on the natural numbers, about sets of them.                   *)
LEMMA Induction ==
    ASSUME NEW T, 0 \in T, \A n \in Nat : n \in T => n + 1 \in T
    PROVE  Nat \subseteq T
  <1> DEFINE U == Nat \ T
  <1> SUFFICES ASSUME U # {} PROVE FALSE
    OBVIOUS
  <1>1. PICK x \in U : \A y \in U : x <= y
    BY LeastElement
  <1>2. x # 0 /\ x \in Nat
    OBVIOUS
  <1>3. x - 1 \in Nat /\ x - 1 \notin U
    BY <1>1, <1>2
  <1> QED BY <1>2, <1>3

-----------------------------------------------------------------------------
(* Liveness within a block: the boundaries, the last first.                *)
Backward(g, b, liveOut, f, n) ==
    f = [k \in 0..n |->
            IF k = 0 THEN liveOut
            ELSE LiveBefore(g, Statement(g, b, Len(g.blocks[b].statements) - k + 1), f[k - 1])]

(* There is such a computation for any number of statements.               *)
LEMMA BackwardExists ==
    ASSUME NEW g, NEW b, NEW liveOut, NEW n \in Nat
    PROVE  \E f : Backward(g, b, liveOut, f, n)
  <1> DEFINE Step(k, l) == LiveBefore(g, Statement(g, b, Len(g.blocks[b].statements) - k + 1), l)
             T == {m \in Nat : \E f : f = [k \in 0..m |-> IF k = 0 THEN liveOut ELSE Step(k, f[k - 1])]}
  <1>1. 0 \in T
    <2> DEFINE f == [k \in 0..0 |-> liveOut]
    <2>1. f = [k \in 0..0 |-> IF k = 0 THEN liveOut ELSE Step(k, f[k - 1])]
      OBVIOUS
    <2> HIDE DEF f, Step
    <2> QED BY <2>1
  <1>2. ASSUME NEW m \in Nat, m \in T PROVE m + 1 \in T
    <2> HIDE DEF Step
    <2>1. PICK f : f = [k \in 0..m |-> IF k = 0 THEN liveOut ELSE Step(k, f[k - 1])]
      BY <1>2
    <2> DEFINE h == [k \in 0..m + 1 |-> IF k = 0 THEN liveOut ELSE Step(k, f[k - 1])]
    <2>2. \A k \in 0..m : h[k] = f[k]
      BY <2>1
    <2>3. \A k \in 0..m + 1 : k # 0 => k - 1 \in 0..m
      OBVIOUS
    <2>4. h = [k \in 0..m + 1 |-> IF k = 0 THEN liveOut ELSE Step(k, h[k - 1])]
      BY <2>2, <2>3
    <2> HIDE DEF h
    <2> QED BY <2>4
  <1> HIDE DEF T
  <1>3. n \in T
    BY <1>1, <1>2, Induction
  <1> QED BY <1>3 DEF T, Backward

(* The boundaries of a block satisfy the equations of the analysis.        *)
LEMMA LiveAtEquations ==
    ASSUME NEW g, NEW b, NEW liveOut, Len(g.blocks[b].statements) \in Nat
    PROVE  LET n == Len(g.blocks[b].statements)
               l == LiveAt(g, b, liveOut)
           IN  /\ l[n] = liveOut
               /\ \A k \in 1..n : l[k - 1] = LiveBefore(g, Statement(g, b, k), l[k])
  <1> DEFINE n == Len(g.blocks[b].statements)
             back == CHOOSE f : Backward(g, b, liveOut, f, n)
             l == [k \in 0..n |-> back[n - k]]
  <1>1. LiveAt(g, b, liveOut) = l
    BY DEF LiveAt, Backward
  <1>2. Backward(g, b, liveOut, back, n)
    BY BackwardExists
  <1> HIDE DEF back
  <1>3. back[0] = liveOut
    BY <1>2 DEF Backward
  <1>4. ASSUME NEW k \in 1..n
        PROVE  back[n - k + 1] = LiveBefore(g, Statement(g, b, k), back[n - k])
    <2> DEFINE m == n - k + 1
    <2>1. m \in 0..n /\ m # 0 /\ m - 1 = n - k /\ n - m + 1 = k
      OBVIOUS
    <2>2. back[m] = LiveBefore(g, Statement(g, b, n - m + 1), back[m - 1])
      <3> HIDE DEF m
      <3> QED BY <1>2, <2>1 DEF Backward
    <2> QED BY <2>1, <2>2
  <1>5. l[n] = liveOut
    BY <1>3
  <1>6. ASSUME NEW k \in 1..n PROVE l[k - 1] = LiveBefore(g, Statement(g, b, k), l[k])
    <2>1. l[k - 1] = back[n - k + 1] /\ l[k] = back[n - k]
      <3>1. k - 1 \in 0..n /\ k \in 0..n /\ n - (k - 1) = n - k + 1
        OBVIOUS
      <3> QED BY <3>1
    <2> HIDE DEF l
    <2> QED BY <1>4, <2>1
  <1> QED BY <1>1, <1>5, <1>6

-----------------------------------------------------------------------------
(* What a graph is made of.                                                *)
UseType == [value : Nat, effect : Effects]
StatementType == [definitions : SUBSET Nat, uses : Seq(UseType), anchor : Nat, top : Nat]
BlockType == [statements : Seq(StatementType), successors : SUBSET Nat]
EntryType == [name : Names, binding : Nat, atoms : SUBSET Nat, sources : SUBSET Nat]
GraphType == [blocks : Seq(BlockType), parameters : SUBSET Nat, table : Seq(EntryType)]

(* Edges lead to blocks, and the entry is one.                             *)
HasItsBlocks(g) ==
    /\ Entry \in Blocks(g)
    /\ \A b \in Blocks(g) : g.blocks[b].successors \subseteq Blocks(g)

(* The shape of a graph: its blocks and its values are numbered.         *)
LEMMA GraphShape ==
    ASSUME NEW g \in GraphType
    PROVE  /\ Len(g.blocks) \in Nat /\ Blocks(g) = 1..Len(g.blocks)
           /\ Len(g.table) \in Nat /\ Values(g) = 1..Len(g.table)
           /\ \A b \in Blocks(g) :
                  /\ g.blocks[b] \in BlockType
                  /\ Len(g.blocks[b].statements) \in Nat
                  /\ DOMAIN g.blocks[b].statements = 1..Len(g.blocks[b].statements)
                  /\ \A k \in DOMAIN g.blocks[b].statements : Statement(g, b, k) \in StatementType
  <1>1. g.blocks \in Seq(BlockType) /\ g.table \in Seq(EntryType)
    BY DEF GraphType
  <1>2. /\ Len(g.blocks) \in Nat /\ Blocks(g) = 1..Len(g.blocks)
        /\ Len(g.table) \in Nat /\ Values(g) = 1..Len(g.table)
    BY <1>1, LenProperties DEF Blocks, Values
  <1>3. ASSUME NEW b \in Blocks(g)
        PROVE  /\ g.blocks[b] \in BlockType
               /\ Len(g.blocks[b].statements) \in Nat
               /\ DOMAIN g.blocks[b].statements = 1..Len(g.blocks[b].statements)
               /\ \A k \in DOMAIN g.blocks[b].statements : Statement(g, b, k) \in StatementType
    <2>1. g.blocks[b] \in BlockType
      BY <1>1, <1>2, ElementOfSeq
    <2>2. g.blocks[b].statements \in Seq(StatementType)
      BY <2>1 DEF BlockType
    <2>3. /\ Len(g.blocks[b].statements) \in Nat
          /\ DOMAIN g.blocks[b].statements = 1..Len(g.blocks[b].statements)
      BY <2>2, LenProperties
    <2> QED BY <2>1, <2>2, <2>3, ElementOfSeq DEF Statement
  <1> QED BY <1>2, <1>3

(* The sites of a graph are those of its blocks.                           *)
LEMMA SitesAreSites ==
    ASSUME NEW g
    PROVE  \A b, k : <<b, k>> \in Sites(g) <=> b \in Blocks(g) /\ k \in DOMAIN g.blocks[b].statements
  BY DEF Sites

(* A site is a block and the number of a statement of it.                *)
LEMMA SitesArePairs ==
    ASSUME NEW g, NEW at \in Sites(g)
    PROVE  /\ at = <<at[1], at[2]>>
           /\ at[1] \in Blocks(g) /\ at[2] \in DOMAIN g.blocks[at[1]].statements
  BY DEF Sites

-----------------------------------------------------------------------------
(* What can be reached in so many steps.                                   *)
Spreading(g, f, n) ==
    f = [k \in 0..n |->
            IF k = 0 THEN {Entry}
            ELSE f[k - 1] \cup UNION {g.blocks[b].successors : b \in f[k - 1]}]

(* There is such a computation for any number of steps.                  *)
LEMMA SpreadingExists ==
    ASSUME NEW g, NEW n \in Nat
    PROVE  \E f : Spreading(g, f, n)
  <1> DEFINE Step(l) == l \cup UNION {g.blocks[b].successors : b \in l}
             start == {Entry}
             T == {m \in Nat : \E f : f = [k \in 0..m |-> IF k = 0 THEN start ELSE Step(f[k - 1])]}
  <1>1. 0 \in T
    <2> DEFINE f == [k \in 0..0 |-> start]
    <2>1. f = [k \in 0..0 |-> IF k = 0 THEN start ELSE Step(f[k - 1])]
      OBVIOUS
    <2> HIDE DEF f, Step, start
    <2> QED BY <2>1
  <1>2. ASSUME NEW m \in Nat, m \in T PROVE m + 1 \in T
    <2> HIDE DEF Step, start
    <2>1. PICK f : f = [k \in 0..m |-> IF k = 0 THEN start ELSE Step(f[k - 1])]
      BY <1>2
    <2> DEFINE h == [k \in 0..m + 1 |-> IF k = 0 THEN start ELSE Step(f[k - 1])]
    <2>2. \A k \in 0..m : h[k] = f[k]
      BY <2>1
    <2>3. \A k \in 0..m + 1 : k # 0 => k - 1 \in 0..m
      OBVIOUS
    <2>4. h = [k \in 0..m + 1 |-> IF k = 0 THEN start ELSE Step(h[k - 1])]
      BY <2>2, <2>3
    <2> HIDE DEF h
    <2> QED BY <2>4
  <1> HIDE DEF T
  <1>3. n \in T
    BY <1>1, <1>2, Induction
  <1> QED BY <1>3 DEF T, Spreading

(* A set of blocks is closed if no edge leaves it.                         *)
Closed(g, set) == \A b \in set : g.blocks[b].successors \subseteq set

(* With every step there is a block more, until there is nothing left to   *)
(* be reached: in as many steps as there are blocks everything is.         *)
LEMMA ReachableIsClosed ==
    ASSUME NEW g \in GraphType, HasItsBlocks(g)
    PROVE  /\ Entry \in Reachable(g)
           /\ Reachable(g) \subseteq Blocks(g)
           /\ Closed(g, Reachable(g))
  <1> DEFINE n == Len(g.blocks)
             within == CHOOSE f : Spreading(g, f, n)
             Grown(k) == Closed(g, within[k]) \/ Cardinality(within[k]) >= k + 1
             T == {k \in Nat : k <= n => Entry \in within[k] /\ within[k] \subseteq 1..n /\ Grown(k)}
  <1>1. Reachable(g) = within[n]
    BY DEF Reachable, Spreading
  <1>2. n \in Nat /\ Blocks(g) = 1..n
    BY GraphShape
  <1>3. Spreading(g, within, n)
    BY <1>2, SpreadingExists
  <1> HIDE DEF within
  <1>4. within[0] = {Entry}
    BY <1>2, <1>3 DEF Spreading
  <1>5. ASSUME NEW k \in 1..n
        PROVE  within[k] = within[k - 1] \cup UNION {g.blocks[b].successors : b \in within[k - 1]}
    BY <1>2, <1>3 DEF Spreading
  <1>6. 0 \in T
    <2>1. Grown(0)
      BY <1>4, FS_Singleton
    <2>2. Entry \in within[0] /\ within[0] \subseteq 1..n
      BY <1>2, <1>4 DEF HasItsBlocks
    <2> QED BY <2>1, <2>2
  <1>7. ASSUME NEW k \in Nat, k \in T, k + 1 <= n PROVE k + 1 \in T
    <2>1. /\ within[k + 1] = within[k] \cup UNION {g.blocks[b].successors : b \in within[k]}
          /\ k + 1 \in Nat /\ k <= n
      <3>1. k + 1 \in 1..n /\ k + 1 - 1 = k
        BY <1>2, <1>7
      <3> QED BY <1>5, <3>1
    <2>2. Entry \in within[k] /\ within[k] \subseteq 1..n
      BY <1>7, <2>1
    <2>3. Entry \in within[k + 1] /\ within[k] \subseteq within[k + 1] /\ within[k + 1] \subseteq 1..n
      BY <1>2, <2>1, <2>2 DEF HasItsBlocks
    <2>4. Grown(k + 1)
      <3>1. CASE Closed(g, within[k])
        <4>1. within[k + 1] = within[k]
          BY <2>1, <3>1 DEF Closed
        <4> QED BY <3>1, <4>1
      <3>2. CASE ~Closed(g, within[k])
        <4>1. within[k + 1] # within[k]
          BY <2>1, <3>2 DEF Closed
        <4>2. Cardinality(within[k]) >= k + 1
          BY <1>7, <2>1, <3>2
        <4>3. IsFiniteSet(within[k + 1])
          <5>1. IsFiniteSet(1..n) /\ within[k + 1] \in SUBSET (1..n)
            BY <1>2, <2>3, FS_Interval
          <5> QED BY <5>1, FS_Subset
        <4>4. /\ Cardinality(within[k]) <= Cardinality(within[k + 1])
              /\ Cardinality(within[k]) # Cardinality(within[k + 1])
          BY <2>3, <4>1, <4>3, FS_Subset
        <4>5. Cardinality(within[k]) \in Nat /\ Cardinality(within[k + 1]) \in Nat
          BY <2>3, <4>3, FS_Subset, FS_CardinalityType
        <4> QED BY <4>2, <4>4, <4>5
      <3> QED BY <3>1, <3>2
    <2> HIDE DEF Grown
    <2> QED BY <2>1, <2>3, <2>4
  <1>8. ASSUME NEW k \in Nat, k \in T PROVE k + 1 \in T
    BY <1>2, <1>7, <1>8
  <1> HIDE DEF T
  <1>9. n \in T
    BY <1>2, <1>6, <1>8, Induction
  <1>10. Cardinality(within[n]) <= n /\ Cardinality(within[n]) \in Nat
    <2>1. within[n] \in SUBSET (1..n)
      BY <1>2, <1>9 DEF T
    <2>2. IsFiniteSet(1..n) /\ Cardinality(1..n) = n
      BY <1>2, FS_Interval
    <2> QED BY <2>1, <2>2, FS_Subset, FS_CardinalityType
  <1> QED BY <1>1, <1>2, <1>9, <1>10 DEF T

-----------------------------------------------------------------------------
(* A round visits each block once, in some order, and changes only what it *)
(* knows of the block it visits. If in the end nothing is different,       *)
(* nothing was on the way.                                                 *)
IsRound(f, order, N) ==
    /\ \A i, j \in 1..N : order[i] = order[j] => i = j
    /\ \A k \in 1..N : \A b \in 1..N : b # order[k] => f[k][b] = f[k - 1][b]

(* Nothing is different from where the round began.                      *)
NothingNew(f, k, N) == \A b \in 1..N : f[k][b] = f[0][b]

(* A round that ends where it began has not left it on the way.          *)
LEMMA NothingMoved ==
    ASSUME NEW N \in Nat, NEW order, NEW f, IsRound(f, order, N), NothingNew(f, N, N)
    PROVE  \A k \in 0..N : NothingNew(f, k, N)
  <1> SUFFICES ASSUME NEW k \in 0..N, NEW b \in 1..N, f[k][b] # f[0][b] PROVE FALSE
    BY DEF NothingNew
  <1>1. ASSUME NEW m \in 1..N, order[m] # b PROVE f[m][b] = f[m - 1][b]
    BY <1>1 DEF IsRound
  <1>2. \E j \in 1..k : order[j] = b
    <2> DEFINE T == {m \in Nat : m <= k => (f[m][b] = f[0][b] \/ \E j \in 1..m : order[j] = b)}
    <2>1. 0 \in T
      OBVIOUS
    <2>2. ASSUME NEW m \in Nat, m \in T PROVE m + 1 \in T
      <3> SUFFICES ASSUME m + 1 <= k PROVE f[m + 1][b] = f[0][b] \/ \E j \in 1..m + 1 : order[j] = b
        OBVIOUS
      <3>1. m <= k /\ m + 1 \in 1..N /\ m + 1 - 1 = m /\ m + 1 \in 1..m + 1 /\ 1..m \subseteq 1..m + 1
        OBVIOUS
      <3>2. f[m][b] = f[0][b] \/ \E j \in 1..m : order[j] = b
        BY <2>2, <3>1
      <3>3. order[m + 1] = b \/ f[m + 1][b] = f[m][b]
        BY <1>1, <3>1
      <3> QED BY <3>1, <3>2, <3>3
    <2> HIDE DEF T
    <2>3. k \in T
      BY <2>1, <2>2, Induction
    <2> QED BY <2>3 DEF T
  <1>3. \E j \in k + 1..N : order[j] = b
    <2> DEFINE T == {m \in Nat : k + m <= N =>
                        (f[k + m][b] = f[k][b] \/ \E j \in k + 1..k + m : order[j] = b)}
    <2>1. 0 \in T
      OBVIOUS
    <2>2. ASSUME NEW m \in Nat, m \in T PROVE m + 1 \in T
      <3> SUFFICES ASSUME k + (m + 1) <= N
                   PROVE  \/ f[k + (m + 1)][b] = f[k][b]
                          \/ \E j \in k + 1..k + (m + 1) : order[j] = b
        OBVIOUS
      <3>1. /\ k + m <= N /\ k + (m + 1) \in 1..N /\ k + (m + 1) - 1 = k + m
            /\ k + (m + 1) \in k + 1..k + (m + 1) /\ k + 1..k + m \subseteq k + 1..k + (m + 1)
        OBVIOUS
      <3>2. f[k + m][b] = f[k][b] \/ \E j \in k + 1..k + m : order[j] = b
        BY <2>2, <3>1
      <3>3. order[k + (m + 1)] = b \/ f[k + (m + 1)][b] = f[k + m][b]
        BY <1>1, <3>1
      <3> QED BY <3>1, <3>2, <3>3
    <2> HIDE DEF T
    <2>3. N - k \in T
      BY <2>1, <2>2, Induction
    <2>4. k + (N - k) = N
      OBVIOUS
    <2>5. f[N][b] = f[k][b] \/ \E j \in k + 1..N : order[j] = b
      BY <2>3, <2>4 DEF T
    <2> QED BY <2>5 DEF NothingNew
  <1>4. PICK i \in 1..k : order[i] = b
    BY <1>2
  <1>5. PICK j \in k + 1..N : order[j] = b
    BY <1>3
  <1> QED BY <1>4, <1>5 DEF IsRound
-----------------------------------------------------------------------------
(* The dominators: what a round does with a block, and the round.          *)
RefinedDominators(g, d, b) ==
    IF b = Entry \/ b \notin Reachable(g) THEN d
    ELSE [d EXCEPT ![b] = {b} \cup {a \in Reachable(g) :
             \A p \in Predecessors(g, Reachable(g), b) : a \in d[p]}]

(* A round of the computation of the dominators, block by block.         *)
DominatorRound(g, d, f, n) ==
    f = [b \in 0..n |-> IF b = 0 THEN d ELSE RefinedDominators(g, f[b - 1], b)]

(* There is such a round for any number of blocks.                       *)
LEMMA DominatorRoundExists ==
    ASSUME NEW g, NEW d, NEW n \in Nat
    PROVE  \E f : DominatorRound(g, d, f, n)
  <1> DEFINE Step(k, e) == RefinedDominators(g, e, k)
             T == {m \in Nat : \E f : f = [k \in 0..m |-> IF k = 0 THEN d ELSE Step(k, f[k - 1])]}
  <1>1. 0 \in T
    <2> DEFINE f == [k \in 0..0 |-> d]
    <2>1. f = [k \in 0..0 |-> IF k = 0 THEN d ELSE Step(k, f[k - 1])]
      OBVIOUS
    <2> HIDE DEF f, Step
    <2> QED BY <2>1
  <1>2. ASSUME NEW m \in Nat, m \in T PROVE m + 1 \in T
    <2> HIDE DEF Step
    <2>1. PICK f : f = [k \in 0..m |-> IF k = 0 THEN d ELSE Step(k, f[k - 1])]
      BY <1>2
    <2> DEFINE h == [k \in 0..m + 1 |-> IF k = 0 THEN d ELSE Step(k, f[k - 1])]
    <2>2. \A k \in 0..m : h[k] = f[k]
      BY <2>1
    <2>3. \A k \in 0..m + 1 : k # 0 => k - 1 \in 0..m
      OBVIOUS
    <2>4. h = [k \in 0..m + 1 |-> IF k = 0 THEN d ELSE Step(k, h[k - 1])]
      BY <2>2, <2>3
    <2> HIDE DEF h
    <2> QED BY <2>4
  <1> HIDE DEF T
  <1>3. n \in T
    BY <1>1, <1>2, Induction
  <1> QED BY <1>3 DEF T, DominatorRound

(* What the analysis computes is such a round.                           *)
LEMMA SweepDominatorsIsARound ==
    ASSUME NEW g, NEW d, Len(g.blocks) \in Nat
    PROVE  \E f : DominatorRound(g, d, f, Len(g.blocks)) /\ SweepDominators(g, d) = f[Len(g.blocks)]
  <1> DEFINE f == CHOOSE h : DominatorRound(g, d, h, Len(g.blocks))
  <1>1. SweepDominators(g, d) = f[Len(g.blocks)]
    BY DEF SweepDominators, DominatorRound, RefinedDominators
  <1>2. DominatorRound(g, d, f, Len(g.blocks))
    BY DominatorRoundExists
  <1> HIDE DEF f
  <1> QED BY <1>1, <1>2

(* The sets the analysis keeps: for every block one, the entry's its own.  *)
DominatorType(g) == {d \in [Blocks(g) -> SUBSET Nat] : d[Entry] = {Entry}}

(* Whatever the round has visited, the sets are sets of blocks.          *)
LEMMA RoundsKeepTheType ==
    ASSUME NEW g \in GraphType, HasItsBlocks(g), NEW d \in DominatorType(g), NEW f,
           DominatorRound(g, d, f, Len(g.blocks))
    PROVE  \A k \in 0..Len(g.blocks) : f[k] \in DominatorType(g)
  <1> DEFINE n == Len(g.blocks)
             T == {k \in Nat : k <= n => f[k] \in DominatorType(g)}
  <1>1. n \in Nat /\ Blocks(g) = 1..n
    BY GraphShape
  <1>2. 0 \in T
    BY <1>1 DEF DominatorRound
  <1>3. ASSUME NEW k \in Nat, k \in T PROVE k + 1 \in T
    <2> SUFFICES ASSUME k + 1 <= n PROVE f[k + 1] \in DominatorType(g)
      OBVIOUS
    <2>1. k <= n /\ k + 1 \in 0..n /\ k + 1 # 0 /\ k + 1 - 1 = k /\ k + 1 \in Blocks(g)
      BY <1>1
    <2>2. f[k] \in DominatorType(g)
      BY <1>3, <2>1
    <2>3. f[k + 1] = RefinedDominators(g, f[k], k + 1)
      BY <2>1 DEF DominatorRound
    <2>4. Reachable(g) \subseteq Nat
      BY <1>1, ReachableIsClosed
    <2>5. CASE k + 1 = Entry \/ k + 1 \notin Reachable(g)
      BY <2>2, <2>3, <2>5 DEF RefinedDominators
    <2>6. CASE k + 1 # Entry /\ k + 1 \in Reachable(g)
      <3> DEFINE new == {k + 1} \cup {a \in Reachable(g) :
                    \A p \in Predecessors(g, Reachable(g), k + 1) : a \in f[k][p]}
      <3>1. f[k + 1] = [f[k] EXCEPT ![k + 1] = new]
        BY <2>3, <2>6 DEF RefinedDominators
      <3>2. new \in SUBSET Nat
        BY <2>4
      <3> HIDE DEF new
      <3>3. f[k] \in [Blocks(g) -> SUBSET Nat] /\ f[k][Entry] = {Entry}
        BY <2>2 DEF DominatorType
      <3>4. f[k + 1] \in [Blocks(g) -> SUBSET Nat] /\ f[k + 1][Entry] = {Entry}
        <4>1. Entry \in Blocks(g)
          BY DEF HasItsBlocks
        <4> DEFINE e == f[k]  c == k + 1
        <4>2. f[c] = [e EXCEPT ![c] = new] /\ c # Entry /\ e \in [Blocks(g) -> SUBSET Nat] /\ e[Entry] = {Entry}
          BY <2>6, <3>1, <3>3
        <4> HIDE DEF e, c
        <4>3. f[c] \in [Blocks(g) -> SUBSET Nat]
          BY <4>2, <3>2
        <4>4. f[c][Entry] = {Entry}
          BY <4>1, <4>2
        <4> QED BY <4>3, <4>4 DEF c
      <3> QED BY <3>4 DEF DominatorType
    <2> QED BY <2>5, <2>6
  <1> HIDE DEF T
  <1>4. Nat \subseteq T
    BY <1>2, <1>3, Induction
  <1> QED BY <1>1, <1>4 DEF T

(* And so they are at its end.                                           *)
LEMMA SweepDominatorsKeepsTheType ==
    ASSUME NEW g \in GraphType, HasItsBlocks(g), NEW d \in DominatorType(g)
    PROVE  SweepDominators(g, d) \in DominatorType(g)
  <1>1. Len(g.blocks) \in Nat
    BY GraphShape
  <1>2. PICK f : DominatorRound(g, d, f, Len(g.blocks)) /\ SweepDominators(g, d) = f[Len(g.blocks)]
    BY <1>1, SweepDominatorsIsARound
  <1> QED BY <1>1, <1>2, RoundsKeepTheType

(* When a round changes nothing, a block is dominated by itself and by what*)
(* dominates all its predecessors.                                         *)
LEMMA DominatorsAreFixed ==
    ASSUME NEW g \in GraphType, HasItsBlocks(g), NEW d \in DominatorType(g),
           SweepDominators(g, d) = d
    PROVE  \A b \in Reachable(g) \ {Entry} :
               d[b] = {b} \cup {a \in Reachable(g) :
                          \A p \in Predecessors(g, Reachable(g), b) : a \in d[p]}
  <1> DEFINE n == Len(g.blocks)
             order == [b \in 1..n |-> b]
  <1>1. n \in Nat /\ Blocks(g) = 1..n
    BY GraphShape
  <1>2. PICK f : DominatorRound(g, d, f, n) /\ SweepDominators(g, d) = f[n]
    BY <1>1, SweepDominatorsIsARound
  <1>3. \A k \in 0..n : f[k] \in DominatorType(g)
    BY <1>2, RoundsKeepTheType
  <1>4. f[0] = d /\ f[n] = d
    BY <1>1, <1>2 DEF DominatorRound
  <1>5. ASSUME NEW k \in 1..n PROVE f[k] = RefinedDominators(g, f[k - 1], k)
    <2>1. k \in 0..n /\ k # 0
      BY <1>1
    <2> HIDE DEF n
    <2> QED BY <1>2, <2>1 DEF DominatorRound
  <1>6. ASSUME NEW k \in 1..n, NEW b \in 1..n, b # order[k] PROVE f[k][b] = f[k - 1][b]
    <2>1. k - 1 \in 0..n
      BY <1>1
    <2> QED BY <1>1, <1>3, <1>5, <1>6, <2>1 DEF RefinedDominators, DominatorType
  <1>7. \A k \in 0..n : NothingNew(f, k, n)
    <2>1. IsRound(f, order, n)
      BY <1>6 DEF IsRound
    <2>2. NothingNew(f, n, n)
      BY <1>4 DEF NothingNew
    <2> HIDE DEF order, n
    <2> QED BY <1>1, <2>1, <2>2, NothingMoved
  <1>8. ASSUME NEW k \in 0..n PROVE f[k] = d
    <2>1. f[k] \in [1..n -> SUBSET Nat] /\ d \in [1..n -> SUBSET Nat]
      BY <1>1, <1>3 DEF DominatorType
    <2>2. \A b \in 1..n : f[k][b] = d[b]
      BY <1>4, <1>7 DEF NothingNew
    <2> QED BY <2>1, <2>2
  <1> SUFFICES ASSUME NEW b \in Reachable(g) \ {Entry}
               PROVE  d[b] = {b} \cup {a \in Reachable(g) :
                          \A p \in Predecessors(g, Reachable(g), b) : a \in d[p]}
    OBVIOUS
  <1>9. b \in 1..n /\ b - 1 \in 0..n /\ b \in 0..n
    BY <1>1, ReachableIsClosed
  <1>10. d = RefinedDominators(g, d, b)
    BY <1>5, <1>8, <1>9
  <1>11. b \in DOMAIN d
    BY <1>1, <1>9 DEF DominatorType
  <1> QED BY <1>10, <1>11 DEF RefinedDominators

-----------------------------------------------------------------------------
(* Values that are certain to be there before a statement.                 *)
OnlyAvailable(g, d, values, b, k) == \A v \in values : AvailableBefore(g, d, v, b, k)

(* What is available has a number.                                       *)
LEMMA AvailableAreNumbers ==
    ASSUME NEW g \in GraphType, NEW d, NEW values, NEW b, NEW k,
           OnlyAvailable(g, d, values, b, k)
    PROVE  values \subseteq Nat
  <1> SUFFICES ASSUME NEW v \in values PROVE v \in Nat
    OBVIOUS
  <1>1. CASE v \in g.parameters
    BY <1>1 DEF GraphType
  <1>2. CASE \E at \in DefinedAt(g, v) : TRUE
    <2>1. PICK at \in Sites(g) : v \in Statement(g, at[1], at[2]).definitions
      BY <1>2 DEF DefinedAt
    <2>2. Statement(g, at[1], at[2]) \in StatementType
      BY <2>1, SitesArePairs, GraphShape
    <2> QED BY <2>1, <2>2 DEF StatementType
  <1> QED BY <1>1, <1>2 DEF OnlyAvailable, AvailableBefore

(* What the dominators mean where nothing is reported.                     *)
FixedDominators(g, d) ==
    /\ d \in DominatorType(g)
    /\ \A b \in Reachable(g) \ {Entry} :
           d[b] = {b} \cup {a \in Reachable(g) :
                      \A p \in Predecessors(g, Reachable(g), b) : a \in d[p]}

(* Where nothing is reported, what a statement uses is available before  *)
(* it.                                                                   *)
LEMMA NothingIsUnavailable ==
    ASSUME NEW g, NEW d, AvailabilityIssues(g, d) = {}, NEW at \in ReachableSites(g)
    PROVE  LET s == Statement(g, at[1], at[2])
           IN  OnlyAvailable(g, d, UsedIn(s) \cup SourcesIn(g, s), at[1], at[2])
  <1> DEFINE s == Statement(g, at[1], at[2])
             Unavailable(values, x) == \E v \in values : ~AvailableBefore(g, d, v, x[1], x[2])
  <1>1. "UseBeforeDefinition" \notin AvailabilityIssues(g, d)
    OBVIOUS
  <1>2. "AliasSourceUnavailable" \notin AvailabilityIssues(g, d)
    OBVIOUS
  <1>3. ~Unavailable(UsedIn(s), at)
    BY <1>1 DEF AvailabilityIssues
  <1>4. ~Unavailable(SourcesIn(g, s), at)
    BY <1>2 DEF AvailabilityIssues
  <1> QED BY <1>3, <1>4 DEF OnlyAvailable

(* What is needed at a boundary of a block is there, if what is needed at  *)
(* its end is.                                                             *)
LEMMA NeededIsAvailable ==
    ASSUME NEW g \in GraphType, HasItsBlocks(g), NEW d, AvailabilityIssues(g, d) = {},
           NEW b \in Reachable(g), NEW liveOut,
           OnlyAvailable(g, d, liveOut, b, Len(g.blocks[b].statements) + 1)
    PROVE  \A k \in 0..Len(g.blocks[b].statements) :
               OnlyAvailable(g, d, LiveAt(g, b, liveOut)[k], b, k + 1)
  <1> DEFINE n == Len(g.blocks[b].statements)
             l == LiveAt(g, b, liveOut)
             T == {m \in Nat : m <= n => OnlyAvailable(g, d, l[n - m], b, n - m + 1)}
  <1>1. /\ b \in Blocks(g) /\ n \in Nat
        /\ DOMAIN g.blocks[b].statements = 1..n
    BY ReachableIsClosed, GraphShape
  <1>2. l[n] = liveOut /\ \A k \in 1..n : l[k - 1] = LiveBefore(g, Statement(g, b, k), l[k])
    BY <1>1, LiveAtEquations
  <1> HIDE DEF l
  <1>3. 0 \in T
    BY <1>1, <1>2
  <1>4. ASSUME NEW k \in 1..n, OnlyAvailable(g, d, l[k], b, k + 1)
        PROVE  OnlyAvailable(g, d, l[k - 1], b, k)
    <2> DEFINE s == Statement(g, b, k)
    <2>1. <<b, k>> \in ReachableSites(g)
      BY <1>1, SitesAreSites DEF ReachableSites
    <2>2. OnlyAvailable(g, d, UsedIn(s) \cup SourcesIn(g, s), b, k)
      <3> DEFINE at == <<b, k>>
      <3>1. at \in ReachableSites(g) /\ at[1] = b /\ at[2] = k
        BY <2>1
      <3> HIDE DEF at
      <3> QED BY <3>1, NothingIsUnavailable
    <2>3. ASSUME NEW v \in l[k] \ s.definitions PROVE AvailableBefore(g, d, v, b, k)
      <3>1. AvailableBefore(g, d, v, b, k + 1)
        BY <1>4 DEF OnlyAvailable
      <3>2. ASSUME NEW at \in DefinedAt(g, v), at[1] = b, at[2] < k + 1 PROVE at[2] < k
        <4>1. at[2] # k
          BY <2>3, <3>2 DEF DefinedAt
        <4>2. at[2] \in Nat
          <5>1. at \in Sites(g)
            BY DEF DefinedAt
          <5>2. at[2] \in DOMAIN g.blocks[b].statements
            BY <3>2, <5>1, SitesArePairs
          <5> QED BY <1>1, <5>2
        <4>3. k \in Nat
          BY <1>1
        <4> QED BY <3>2, <4>1, <4>2, <4>3
      <3> QED BY <3>1, <3>2 DEF AvailableBefore
    <2>4. l[k - 1] = (l[k] \ s.definitions) \cup SourcesIn(g, s) \cup UsedIn(s)
      BY <1>2 DEF LiveBefore
    <2> HIDE DEF s
    <2> QED BY <2>2, <2>3, <2>4 DEF OnlyAvailable
  <1>5. ASSUME NEW m \in Nat, m \in T PROVE m + 1 \in T
    <2> SUFFICES ASSUME m + 1 <= n PROVE OnlyAvailable(g, d, l[n - (m + 1)], b, n - (m + 1) + 1)
      OBVIOUS
    <2> DEFINE k == n - m
    <2>1. k \in 1..n /\ m <= n /\ n - (m + 1) = k - 1 /\ n - (m + 1) + 1 = k
      BY <1>1
    <2>2. OnlyAvailable(g, d, l[k], b, k + 1)
      BY <1>5, <2>1
    <2> HIDE DEF k, n
    <2> QED BY <1>4, <2>1, <2>2
  <1>6. ASSUME NEW k \in 0..n PROVE OnlyAvailable(g, d, l[k], b, k + 1)
    <2> HIDE DEF T
    <2>1. Nat \subseteq T
      BY <1>3, <1>5, Induction
    <2>2. n - k \in Nat /\ n - k <= n /\ n - (n - k) = k
      BY <1>1
    <2> QED BY <2>1, <2>2 DEF T
  <1> QED BY <1>6 DEF l

(* What is there at the beginning of a block is there at the end of every  *)
(* block before it.                                                        *)
LEMMA AvailableAcrossEdges ==
    ASSUME NEW g \in GraphType, HasItsBlocks(g), NEW d, FixedDominators(g, d),
           NEW b \in Reachable(g), NEW t \in g.blocks[b].successors,
           NEW values, OnlyAvailable(g, d, values, t, 1)
    PROVE  OnlyAvailable(g, d, values, b, Len(g.blocks[b].statements) + 1)
  <1> SUFFICES ASSUME NEW v \in values, v \notin g.parameters
               PROVE  AvailableBefore(g, d, v, b, Len(g.blocks[b].statements) + 1)
    BY DEF OnlyAvailable, AvailableBefore
  <1>1. t \in Reachable(g) /\ b \in Blocks(g) /\ t \in Blocks(g)
    BY ReachableIsClosed DEF Closed
  <1>2. PICK at \in DefinedAt(g, v) : IF at[1] = t THEN at[2] < 1 ELSE at[1] \in d[t]
    BY DEF OnlyAvailable, AvailableBefore
  <1>3. at \in Sites(g)
    BY DEF DefinedAt
  <1>4. at[1] \in Blocks(g) /\ at[2] \in 1..Len(g.blocks[at[1]].statements)
        /\ Len(g.blocks[at[1]].statements) \in Nat
    BY <1>3, SitesArePairs, GraphShape
  <1>5. at[1] # t /\ at[1] \in d[t]
    BY <1>2, <1>4
  <1>6. t # Entry
    BY <1>5 DEF FixedDominators, DominatorType
  <1>7. b \in Predecessors(g, Reachable(g), t)
    BY DEF Predecessors
  <1>8. at[1] \in d[b]
    BY <1>1, <1>5, <1>6, <1>7 DEF FixedDominators
  <1>9. at[1] = b => at[2] < Len(g.blocks[b].statements) + 1
    BY <1>4
  <1> QED BY <1>8, <1>9 DEF AvailableBefore

-----------------------------------------------------------------------------
(* Liveness: what a round does with a block, and the round.                *)
LeavingBlock(g, l, b) == UNION {l.in[t] : t \in g.blocks[b].successors}

(* The block's two sets are computed anew.                               *)
RefinedLiveness(g, l, b) ==
    IF b \notin Reachable(g) THEN l
    ELSE [in  |-> [l.in EXCEPT ![b] = LiveAt(g, b, LeavingBlock(g, l, b))[0]],
          out |-> [l.out EXCEPT ![b] = LeavingBlock(g, l, b)]]

(* A round of the computation of liveness, the last block first.         *)
LivenessRound(g, l, f, n) ==
    f = [k \in 0..n |-> IF k = 0 THEN l ELSE RefinedLiveness(g, f[k - 1], Len(g.blocks) - k + 1)]

(* There is such a round for any number of blocks.                       *)
LEMMA LivenessRoundExists ==
    ASSUME NEW g, NEW l, NEW n \in Nat
    PROVE  \E f : LivenessRound(g, l, f, n)
  <1> DEFINE Step(k, e) == RefinedLiveness(g, e, Len(g.blocks) - k + 1)
             T == {m \in Nat : \E f : f = [k \in 0..m |-> IF k = 0 THEN l ELSE Step(k, f[k - 1])]}
  <1>1. 0 \in T
    <2> DEFINE f == [k \in 0..0 |-> l]
    <2>1. f = [k \in 0..0 |-> IF k = 0 THEN l ELSE Step(k, f[k - 1])]
      OBVIOUS
    <2> HIDE DEF f, Step
    <2> QED BY <2>1
  <1>2. ASSUME NEW m \in Nat, m \in T PROVE m + 1 \in T
    <2> HIDE DEF Step
    <2>1. PICK f : f = [k \in 0..m |-> IF k = 0 THEN l ELSE Step(k, f[k - 1])]
      BY <1>2
    <2> DEFINE h == [k \in 0..m + 1 |-> IF k = 0 THEN l ELSE Step(k, f[k - 1])]
    <2>2. \A k \in 0..m : h[k] = f[k]
      BY <2>1
    <2>3. \A k \in 0..m + 1 : k # 0 => k - 1 \in 0..m
      OBVIOUS
    <2>4. h = [k \in 0..m + 1 |-> IF k = 0 THEN l ELSE Step(k, h[k - 1])]
      BY <2>2, <2>3
    <2> HIDE DEF h
    <2> QED BY <2>4
  <1> HIDE DEF T
  <1>3. n \in T
    BY <1>1, <1>2, Induction
  <1> QED BY <1>3 DEF T, LivenessRound

(* What the analysis computes is such a round.                           *)
LEMMA SweepLivenessIsARound ==
    ASSUME NEW g, NEW l, Len(g.blocks) \in Nat
    PROVE  \E f : LivenessRound(g, l, f, Len(g.blocks)) /\ SweepLiveness(g, l) = f[Len(g.blocks)]
  <1> DEFINE f == CHOOSE h : LivenessRound(g, l, h, Len(g.blocks))
  <1>1. SweepLiveness(g, l) = f[Len(g.blocks)]
    BY DEF SweepLiveness, LivenessRound, RefinedLiveness, LeavingBlock
  <1>2. LivenessRound(g, l, f, Len(g.blocks))
    BY LivenessRoundExists
  <1> HIDE DEF f
  <1> QED BY <1>1, <1>2

(* The sets the analysis keeps: what is needed at the beginning of a block *)
(* is there on every path to it.                                           *)
LivenessType(g) == [in : [Blocks(g) -> SUBSET Nat], out : [Blocks(g) -> SUBSET Nat]]
(* What is needed at the beginning of a block is available there.        *)
SoundLiveness(g, d, l) ==
    /\ l \in LivenessType(g)
    /\ \A b \in Reachable(g) : OnlyAvailable(g, d, l.in[b], b, 1)

(* A visit to a block keeps that.                                        *)
LEMMA RefinedLivenessIsSound ==
    ASSUME NEW g \in GraphType, HasItsBlocks(g), NEW d, FixedDominators(g, d),
           AvailabilityIssues(g, d) = {}, NEW l, SoundLiveness(g, d, l), NEW b \in Blocks(g)
    PROVE  SoundLiveness(g, d, RefinedLiveness(g, l, b))
  <1> SUFFICES ASSUME b \in Reachable(g) PROVE SoundLiveness(g, d, RefinedLiveness(g, l, b))
    BY DEF RefinedLiveness
  <1> DEFINE out == LeavingBlock(g, l, b)
             in == LiveAt(g, b, out)[0]
             new == RefinedLiveness(g, l, b)
  <1>1. OnlyAvailable(g, d, out, b, Len(g.blocks[b].statements) + 1)
    <2>1. ASSUME NEW t \in g.blocks[b].successors
          PROVE  OnlyAvailable(g, d, l.in[t], b, Len(g.blocks[b].statements) + 1)
      <3>1. t \in Reachable(g)
        BY ReachableIsClosed DEF Closed
      <3>2. OnlyAvailable(g, d, l.in[t], t, 1)
        BY <3>1 DEF SoundLiveness
      <3> QED BY <3>2, AvailableAcrossEdges
    <2> QED BY <2>1 DEF OnlyAvailable, LeavingBlock
  <1>2. 0 \in 0..Len(g.blocks[b].statements)
    BY GraphShape
  <1>3. OnlyAvailable(g, d, in, b, 1)
    BY <1>1, <1>2, NeededIsAvailable
  <1>4. in \subseteq Nat /\ out \subseteq Nat
    BY <1>1, <1>3, AvailableAreNumbers
  <1>5. new = [in |-> [l.in EXCEPT ![b] = in], out |-> [l.out EXCEPT ![b] = out]]
    BY DEF RefinedLiveness
  <1> HIDE DEF in, out, new
  <1>6. l.in \in [Blocks(g) -> SUBSET Nat] /\ l.out \in [Blocks(g) -> SUBSET Nat]
    BY DEF SoundLiveness, LivenessType
  <1>7. new \in LivenessType(g)
    BY <1>4, <1>5, <1>6 DEF LivenessType
  <1>8. ASSUME NEW c \in Reachable(g) PROVE OnlyAvailable(g, d, new.in[c], c, 1)
    <2>1. new.in[c] = IF c = b THEN in ELSE l.in[c]
      <3>1. c \in Blocks(g)
        BY ReachableIsClosed
      <3> QED BY <1>5, <1>6, <3>1
    <2> QED BY <1>3, <2>1 DEF SoundLiveness
  <1> QED BY <1>7, <1>8 DEF SoundLiveness, new

(* So it is kept whatever the round has visited.                         *)
LEMMA RoundsStaySound ==
    ASSUME NEW g \in GraphType, HasItsBlocks(g), NEW d, FixedDominators(g, d),
           AvailabilityIssues(g, d) = {}, NEW l, SoundLiveness(g, d, l),
           NEW f, LivenessRound(g, l, f, Len(g.blocks))
    PROVE  \A k \in 0..Len(g.blocks) : SoundLiveness(g, d, f[k])
  <1> DEFINE n == Len(g.blocks)
             T == {k \in Nat : k <= n => SoundLiveness(g, d, f[k])}
  <1>1. n \in Nat /\ Blocks(g) = 1..n
    BY GraphShape
  <1>2. 0 \in T
    BY <1>1 DEF LivenessRound
  <1>3. ASSUME NEW k \in Nat, k \in T PROVE k + 1 \in T
    <2> SUFFICES ASSUME k + 1 <= n PROVE SoundLiveness(g, d, f[k + 1])
      OBVIOUS
    <2> DEFINE b == n - (k + 1) + 1
    <2>1. k <= n /\ k + 1 \in 0..n /\ k + 1 # 0 /\ k + 1 - 1 = k /\ b \in Blocks(g)
      BY <1>1
    <2>2. SoundLiveness(g, d, f[k])
      BY <1>3, <2>1
    <2>3. f[k + 1] = RefinedLiveness(g, f[k], b)
      BY <2>1 DEF LivenessRound
    <2> HIDE DEF b
    <2> QED BY <2>1, <2>2, <2>3, RefinedLivenessIsSound
  <1> HIDE DEF T
  <1>4. Nat \subseteq T
    BY <1>2, <1>3, Induction
  <1> QED BY <1>1, <1>4 DEF T

(* And so it is at its end.                                              *)
LEMMA SweepLivenessIsSound ==
    ASSUME NEW g \in GraphType, HasItsBlocks(g), NEW d, FixedDominators(g, d),
           AvailabilityIssues(g, d) = {}, NEW l, SoundLiveness(g, d, l)
    PROVE  SoundLiveness(g, d, SweepLiveness(g, l))
  <1>1. Len(g.blocks) \in Nat
    BY GraphShape
  <1>2. PICK f : LivenessRound(g, l, f, Len(g.blocks)) /\ SweepLiveness(g, l) = f[Len(g.blocks)]
    BY <1>1, SweepLivenessIsARound
  <1> QED BY <1>1, <1>2, RoundsStaySound

(* When a round changes nothing, what is needed at the end of a block is   *)
(* what its successors need, and at its beginning what follows from that.  *)
FixedLiveness(g, l) ==
    \A b \in Reachable(g) :
        /\ l.out[b] = LeavingBlock(g, l, b)
        /\ l.in[b] = LiveAt(g, b, l.out[b])[0]

(* Functions that agree everywhere are the same.                         *)
LEMMA SameFunction ==
    ASSUME NEW S, NEW T, NEW u \in [S -> T], NEW v \in [S -> T], \A x \in S : u[x] = v[x]
    PROVE  u = v
  OBVIOUS

(* A round that changes nothing has visited each block in vain: the      *)
(* equations of all of them hold.                                        *)
LEMMA LivenessIsFixed ==
    ASSUME NEW g \in GraphType, HasItsBlocks(g), NEW d, FixedDominators(g, d),
           AvailabilityIssues(g, d) = {}, NEW l, SoundLiveness(g, d, l), SweepLiveness(g, l) = l
    PROVE  FixedLiveness(g, l)
  <1> DEFINE n == Len(g.blocks)
             order == [k \in 1..n |-> n - k + 1]
  <1>1. n \in Nat /\ Blocks(g) = 1..n
    BY GraphShape
  <1>2. PICK f : LivenessRound(g, l, f, n) /\ SweepLiveness(g, l) = f[n]
    BY <1>1, SweepLivenessIsARound
  <1>3. \A k \in 0..n : f[k] \in LivenessType(g)
    BY <1>2, RoundsStaySound DEF SoundLiveness
  <1>4. f[0] = l /\ f[n] = l
    BY <1>1, <1>2 DEF LivenessRound
  <1>5. ASSUME NEW k \in 1..n PROVE f[k] = RefinedLiveness(g, f[k - 1], order[k])
    <2>1. k \in 0..n /\ k # 0 /\ order[k] = n - k + 1
      BY <1>1
    <2> HIDE DEF order
    <2> QED BY <1>2, <2>1 DEF LivenessRound
  <1>6. IsRound([k \in 0..n |-> f[k].in], order, n) /\ IsRound([k \in 0..n |-> f[k].out], order, n)
    <2>1. \A i, j \in 1..n : order[i] = order[j] => i = j
      OBVIOUS
    <2>2. ASSUME NEW k \in 1..n, NEW b \in 1..n, b # order[k]
          PROVE  f[k].in[b] = f[k - 1].in[b] /\ f[k].out[b] = f[k - 1].out[b]
      <3>1. f[k - 1] \in LivenessType(g)
        <4>1. k - 1 \in 0..n
          BY <1>1
        <4> QED BY <1>3, <4>1
      <3>2. f[k] = RefinedLiveness(g, f[k - 1], order[k])
        BY <1>5
      <3> DEFINE e == f[k - 1]  c == order[k]
      <3> HIDE DEF order, n, e, c
      <3>3. e.in \in [1..n -> SUBSET Nat] /\ e.out \in [1..n -> SUBSET Nat]
        BY <1>1, <3>1 DEF LivenessType, e
      <3>4. f[k] = RefinedLiveness(g, e, c) /\ b # c
        BY <2>2, <3>2 DEF e, c
      <3>5. f[k].in[b] = e.in[b] /\ f[k].out[b] = e.out[b]
        BY <3>3, <3>4 DEF RefinedLiveness
      <3> QED BY <3>5 DEF e
    <2> DEFINE fi == [k \in 0..n |-> f[k].in]  fo == [k \in 0..n |-> f[k].out]
    <2>3. ASSUME NEW k \in 1..n PROVE fi[k] = f[k].in /\ fi[k - 1] = f[k - 1].in
                                      /\ fo[k] = f[k].out /\ fo[k - 1] = f[k - 1].out
      <3>1. k \in 0..n /\ k - 1 \in 0..n
        BY <1>1
      <3> QED BY <3>1
    <2> HIDE DEF fi, fo, order
    <2>4. IsRound(fi, order, n)
      BY <2>1, <2>2, <2>3 DEF IsRound
    <2>5. IsRound(fo, order, n)
      BY <2>1, <2>2, <2>3 DEF IsRound
    <2> QED BY <2>4, <2>5 DEF fi, fo
  <1>7. ASSUME NEW k \in 0..n PROVE f[k] = l
    <2> DEFINE fi == [x \in 0..n |-> f[x].in]  fo == [x \in 0..n |-> f[x].out]
    <2>1. fi[0] = l.in /\ fi[n] = l.in /\ fo[0] = l.out /\ fo[n] = l.out
      BY <1>1, <1>4
    <2>2. IsRound(fi, order, n) /\ IsRound(fo, order, n)
      BY <1>6
    <2>3. fi[k] = f[k].in /\ fo[k] = f[k].out
      OBVIOUS
    <2> HIDE DEF fi, fo, order
    <2>4. NothingNew(fi, n, n) /\ NothingNew(fo, n, n)
      BY <2>1 DEF NothingNew
    <2>5. NothingNew(fi, k, n) /\ NothingNew(fo, k, n)
      <3> HIDE DEF n
      <3> QED BY <1>1, <2>2, <2>4, NothingMoved
    <2>6. \A b \in 1..n : f[k].in[b] = l.in[b] /\ f[k].out[b] = l.out[b]
      BY <2>1, <2>3, <2>5 DEF NothingNew
    <2>7. f[k] \in LivenessType(g) /\ l \in LivenessType(g)
      BY <1>3 DEF SoundLiveness
    <2>8. f[k].in = l.in /\ f[k].out = l.out
      <3>1. /\ f[k].in \in [1..n -> SUBSET Nat] /\ f[k].out \in [1..n -> SUBSET Nat]
            /\ l.in \in [1..n -> SUBSET Nat] /\ l.out \in [1..n -> SUBSET Nat]
        BY <1>1, <2>7 DEF LivenessType
      <3> HIDE DEF n
      <3> DEFINE S == 1..n  T == SUBSET Nat
                 i == f[k].in  j == l.in  o == f[k].out  p == l.out
      <3>2. i \in [S -> T] /\ j \in [S -> T] /\ o \in [S -> T] /\ p \in [S -> T]
        BY <3>1
      <3>3. (\A b \in S : i[b] = j[b]) /\ (\A b \in S : o[b] = p[b])
        BY <2>6
      <3> HIDE DEF S, T, i, j, o, p
      <3>4. i = j /\ o = p
        BY <3>2, <3>3, SameFunction
      <3> QED BY <3>4 DEF i, j, o, p
    <2> QED BY <2>7, <2>8 DEF LivenessType
  <1> SUFFICES ASSUME NEW b \in Reachable(g)
               PROVE  l.out[b] = LeavingBlock(g, l, b) /\ l.in[b] = LiveAt(g, b, l.out[b])[0]
    BY DEF FixedLiveness
  <1>8. b \in Blocks(g)
    BY ReachableIsClosed
  <1> DEFINE k == n - b + 1
  <1>9. k \in 1..n /\ k - 1 \in 0..n /\ k \in 0..n /\ order[k] = b
    BY <1>1, <1>8
  <1>10. l = RefinedLiveness(g, l, b)
    <2> HIDE DEF k, order
    <2> QED BY <1>5, <1>7, <1>9
  <1>11. l \in LivenessType(g)
    BY DEF SoundLiveness
  <1>12. /\ l.in = [l.in EXCEPT ![b] = LiveAt(g, b, LeavingBlock(g, l, b))[0]]
         /\ l.out = [l.out EXCEPT ![b] = LeavingBlock(g, l, b)]
    BY <1>10 DEF RefinedLiveness
  <1>13. l.in \in [Blocks(g) -> SUBSET Nat] /\ l.out \in [Blocks(g) -> SUBSET Nat]
    BY <1>11 DEF LivenessType
  <1>14. l.out[b] = LeavingBlock(g, l, b) /\ l.in[b] = LiveAt(g, b, LeavingBlock(g, l, b))[0]
    BY <1>8, <1>12, <1>13
  <1> QED BY <1>14

(* What the analysis keeps at a site is what is needed after it.           *)
LEMMA KeptIsNeeded ==
    ASSUME NEW g \in GraphType, NEW l, NEW at \in Sites(g)
    PROVE  /\ Kept(g, l).escaped = Escaped(g)
           /\ Kept(g, l).live[at[1]][at[2]] = AtomsOf(g, LiveAt(g, at[1], l.out[at[1]])[at[2]])
  <1> DEFINE b == at[1]  k == at[2]  n == Len(g.blocks[b].statements)
             row == [j \in DOMAIN g.blocks[b].statements |-> AtomsOf(g, LiveAt(g, b, l.out[b])[j])]
  <1>1. b \in Blocks(g) /\ k \in DOMAIN g.blocks[b].statements
    BY SitesArePairs
  <1>2. n \in Nat /\ DOMAIN g.blocks[b].statements = 1..n
    BY <1>1, GraphShape
  <1>3. Kept(g, l).escaped = Escaped(g) /\ Kept(g, l).live[b] = <<>> \o row
    BY <1>1 DEF Kept
  <1>4. (<<>> \o row)[k] = row[k]
    <2> DEFINE value(j) == AtomsOf(g, LiveAt(g, b, l.out[b])[j])
               all == {value(j) : j \in 1..n}
    <2>1. row \in [1..n -> all]
      BY <1>2
    <2> HIDE DEF row, all
    <2>2. row \in Seq(all)
      BY <1>2, <2>1
    <2> QED BY <2>2, ConcatEmptySeq
  <1>5. row[k] = AtomsOf(g, LiveAt(g, b, l.out[b])[k])
    BY <1>1
  <1> QED BY <1>3, <1>4, <1>5

-----------------------------------------------------------------------------
(* The table of the values: each lives in one place, that of a root. A root*)
(* has its own, and every other value is an alias.                         *)
IsRoot(g, v) == g.table[v].sources = {} /\ g.table[v].atoms = {v}
(* An alias lives where its source lives.                                *)
IsAlias(g, v) ==
    \E u \in Values(g) : g.table[v].sources = {u} /\ g.table[v].atoms = g.table[u].atoms
(* Every value is one or the other, and the parameters are roots.        *)
SoundTable(g) ==
    /\ \A v \in Values(g) : IsRoot(g, v) \/ IsAlias(g, v)
    /\ \A v \in Values(g) : \E r \in Values(g) : IsRoot(g, r) /\ g.table[v].atoms = {r}
    /\ g.parameters \subseteq {v \in Values(g) : IsRoot(g, v)}

(* What a statement defines are values of the table, and no alias together *)
(* with its source.                                                        *)
SoundDefinitions(g) ==
    \A at \in Sites(g) : \A v \in Statement(g, at[1], at[2]).definitions :
        /\ v \in Values(g)
        /\ g.table[v].sources \cap Statement(g, at[1], at[2]).definitions = {}

(* A block is executed once, if no path leads back to it: some set of      *)
(* blocks that is not left any more has all its successors, and not itself.*)
RunsOnce(g, b) ==
    \E set \in SUBSET Blocks(g) :
        Closed(g, set) /\ g.blocks[b].successors \subseteq set /\ b \notin set

(* Or else all that is defined in it escapes in it.                        *)
EscapesAll(g, b) ==
    \A j \in DOMAIN g.blocks[b].statements : \A v \in Statement(g, b, j).definitions :
        \E i \in DOMAIN g.blocks[b].statements : v \in UsedFor(Statement(g, b, i), "Escape")

(* A graph the analysis and the run can rely on.                         *)
SoundGraph(g) ==
    /\ g \in GraphType
    /\ HasItsBlocks(g)
    /\ SoundTable(g)
    /\ SoundDefinitions(g)
    /\ \A b \in Blocks(g) : RunsOnce(g, b) \/ EscapesAll(g, b)

(* What an alias is in is what its source is in, which is needed before it.*)
LEMMA DefinedPlaces ==
    ASSUME NEW g, SoundGraph(g), NEW at \in Sites(g), NEW after,
           NEW a \in AtomsOf(g, Statement(g, at[1], at[2]).definitions)
    PROVE  \/ a \in AtomsOf(g, LiveBefore(g, Statement(g, at[1], at[2]), after))
           \/ a \in Statement(g, at[1], at[2]).definitions
  <1> DEFINE s == Statement(g, at[1], at[2])
  <1>1. PICK v \in s.definitions : a \in g.table[v].atoms
    BY DEF AtomsOf
  <1>2. v \in Values(g) /\ g.table[v].sources \cap s.definitions = {}
    BY <1>1 DEF SoundGraph, SoundDefinitions
  <1>3. CASE IsRoot(g, v)
    BY <1>1, <1>3 DEF IsRoot
  <1>4. CASE IsAlias(g, v)
    <2>1. PICK u \in Values(g) : g.table[v].sources = {u} /\ g.table[v].atoms = g.table[u].atoms
      BY <1>4 DEF IsAlias
    <2>2. u \in SourcesIn(g, s)
      BY <1>1, <1>2, <2>1 DEF SourcesIn
    <2>3. u \in LiveBefore(g, s, after)
      BY <2>2 DEF LiveBefore
    <2> QED BY <1>1, <2>1, <2>3 DEF AtomsOf
  <1> QED BY <1>2, <1>3, <1>4 DEF SoundGraph, SoundTable

(* How often an atom is consumed.                                          *)
LEMMA ConsumedIsCounted ==
    ASSUME NEW g \in GraphType, NEW at \in Sites(g), NEW a
    PROVE  LET s == Statement(g, at[1], at[2])
           IN  Consumptions(g, s, a) > 0 <=> a \in AtomsOf(g, UsedFor(s, "Consume"))
  <1> DEFINE s == Statement(g, at[1], at[2])
             set == {i \in DOMAIN s.uses :
                        s.uses[i].effect = "Consume" /\ a \in g.table[s.uses[i].value].atoms}
  <1>1. s \in StatementType
    BY SitesArePairs, GraphShape
  <1>2. DOMAIN s.uses = 1..Len(s.uses) /\ Len(s.uses) \in Nat
    <2>1. s.uses \in Seq(UseType)
      BY <1>1 DEF StatementType
    <2> QED BY <2>1, LenProperties
  <1>3. IsFiniteSet(set)
    <2>1. IsFiniteSet(1..Len(s.uses)) /\ set \in SUBSET (1..Len(s.uses))
      BY <1>2, FS_Interval
    <2> QED BY <2>1, FS_Subset
  <1>4. Cardinality(set) \in Nat /\ (Cardinality(set) = 0 <=> set = {})
    BY <1>3, FS_CardinalityType, FS_EmptySet
  <1>5. Consumptions(g, s, a) = Cardinality(set)
    BY DEF Consumptions
  <1>6. a \in AtomsOf(g, UsedFor(s, "Consume")) <=> set # {}
    BY DEF AtomsOf, UsedFor
  <1> HIDE DEF set, s
  <1>7. Consumptions(g, s, a) > 0 <=> a \in AtomsOf(g, UsedFor(s, "Consume"))
    BY <1>4, <1>5, <1>6
  <1> QED BY <1>7 DEF s

(* Where nothing is reported, what a statement consumes is needed neither  *)
(* after it nor by anybody else.                                           *)
LEMMA ConsumedIsOver ==
    ASSUME NEW g, SoundGraph(g), NEW l, ConsumeIssues(g, l) = {}, NEW at \in ReachableSites(g),
           NEW a \in AtomsOf(g, UsedFor(Statement(g, at[1], at[2]), "Consume"))
    PROVE  /\ a \notin Escaped(g)
           /\ a \notin AtomsOf(g, LiveAt(g, at[1], l.out[at[1]])[at[2]])
  <1> DEFINE s == Statement(g, at[1], at[2])
             kept == Kept(g, l)
  <1>1. at \in Sites(g) /\ g \in GraphType
    BY DEF ReachableSites, SoundGraph
  <1>2. Consumptions(g, s, a) > 0
    BY <1>1, ConsumedIsCounted
  <1>3. a \in AtomsIn(g, s)
    BY DEF AtomsIn, AtomsOf, UsedFor, UsedIn
  <1>4. "ConsumedEscapedAtom" \notin ConsumeIssues(g, l)
    OBVIOUS
  <1>5. "ConsumedAtomStillLive" \notin ConsumeIssues(g, l)
    OBVIOUS
  <1>6. a \notin kept.escaped
    BY <1>2, <1>3, <1>4, Zenon DEF ConsumeIssues
  <1>7. a \notin kept.live[at[1]][at[2]]
    BY <1>2, <1>3, <1>5, Zenon DEF ConsumeIssues
  <1> QED BY <1>1, <1>6, <1>7, KeptIsNeeded

(* Where a kill stands its atom is mentioned, is needed no longer, and has *)
(* not escaped; a kill to clean up after is not a consumption.             *)
SoundKill(g, l, kill) ==
    /\ kill.at \in ReachableSites(g)
    /\ kill.atom \in AtomsIn(g, Statement(g, kill.at[1], kill.at[2]))
    /\ kill.atom \notin AtomsOf(g, LiveAt(g, kill.at[1], l.out[kill.at[1]])[kill.at[2]])
    /\ kill.atom \notin Escaped(g)
    /\ kill.cleanup =>
           kill.atom \notin AtomsOf(g, UsedFor(Statement(g, kill.at[1], kill.at[2]), "Consume"))

(* The kills of the analysis are of that kind, and there is one of an    *)
(* atom at a site.                                                       *)
LEMMA KillsAreSound ==
    ASSUME NEW g \in GraphType, NEW l, NEW r
    PROVE  /\ \A kill \in Kills(g, l, r) : SoundKill(g, l, kill)
           /\ \A k1, k2 \in Kills(g, l, r) : k1.at = k2.at /\ k1.atom = k2.atom => k1 = k2
  <1> DEFINE kept == Kept(g, l)
             There(at) == ReachingAt(g, at[1], r.in[at[1]])
             Made(at, a) ==
                 LET s == Statement(g, at[1], at[2])
                     consumed == Consumptions(g, s, a) > 0
                 IN  [at |-> at, atom |-> a,
                      retired |-> Retired(g, There(at)[IF consumed THEN at[2] - 1 ELSE at[2]], a),
                      cleanup |-> ~consumed]
  <1>1. ASSUME NEW kill \in Kills(g, l, r)
        PROVE  \E at \in ReachableSites(g) :
                  \E a \in AtomsIn(g, Statement(g, at[1], at[2]))
                             \ (kept.live[at[1]][at[2]] \cup kept.escaped) : kill = Made(at, a)
    BY DEF Kills
  <1>2. ASSUME NEW kill \in Kills(g, l, r) PROVE SoundKill(g, l, kill)
    <2>1. PICK at \in ReachableSites(g) :
              \E a \in AtomsIn(g, Statement(g, at[1], at[2]))
                         \ (kept.live[at[1]][at[2]] \cup kept.escaped) : kill = Made(at, a)
      BY <1>1
    <2>2. PICK a \in AtomsIn(g, Statement(g, at[1], at[2]))
                         \ (kept.live[at[1]][at[2]] \cup kept.escaped) : kill = Made(at, a)
      BY <2>1
    <2> HIDE DEF kept
    <2>3. at \in Sites(g)
      BY DEF ReachableSites
    <2>4. kill.at = at /\ kill.atom = a
      BY <2>2
    <2>5. kill.cleanup <=> ~(Consumptions(g, Statement(g, at[1], at[2]), a) > 0)
      BY <2>2
    <2>6. kill.cleanup => a \notin AtomsOf(g, UsedFor(Statement(g, at[1], at[2]), "Consume"))
      BY <2>3, <2>5, ConsumedIsCounted
    <2>7. a \notin Escaped(g) /\ a \notin AtomsOf(g, LiveAt(g, at[1], l.out[at[1]])[at[2]])
      BY <2>2, <2>3, KeptIsNeeded DEF kept
    <2> QED BY <2>2, <2>4, <2>6, <2>7 DEF SoundKill
  <1>3. ASSUME NEW k1 \in Kills(g, l, r), NEW k2 \in Kills(g, l, r), k1.at = k2.at, k1.atom = k2.atom
        PROVE  k1 = k2
    <2>1. PICK at1, a1 : k1 = Made(at1, a1)
      BY <1>1
    <2>2. PICK at2, a2 : k2 = Made(at2, a2)
      BY <1>1
    <2>3. k1.at = at1 /\ k1.atom = a1 /\ k2.at = at2 /\ k2.atom = a2
      BY <2>1, <2>2
    <2> HIDE DEF Made
    <2> QED BY <1>3, <2>1, <2>2, <2>3
  <1> QED BY <1>2, <1>3

(* On an edge only what the block at its end does not need is given up.    *)
SoundEdgeKill(g, l, kill) ==
    /\ kill.atom \in AtomsOf(g, l.out[kill.from])
    /\ kill.atom \notin AtomsOf(g, l.in[kill.to])
    /\ kill.atom \notin Escaped(g)

(* The kills the analysis puts on edges are of that kind.                *)
LEMMA EdgeKillsAreSound ==
    ASSUME NEW g, NEW l, NEW r, NEW kill \in EdgeKills(g, l, r)
    PROVE  SoundEdgeKill(g, l, kill)
  <1>1. PICK b \in Reachable(g) : \E t \in g.blocks[b].successors :
            kill \in {[from |-> b, to |-> t, atom |-> a]
                         : a \in (AtomsOf(g, l.out[b]) \cap AtomsOf(g, r.out[b]))
                                 \ (AtomsOf(g, l.in[t]) \cup Escaped(g))}
    BY DEF EdgeKills
  <1>2. PICK t \in g.blocks[b].successors :
            \E a \in (AtomsOf(g, l.out[b]) \cap AtomsOf(g, r.out[b]))
                                 \ (AtomsOf(g, l.in[t]) \cup Escaped(g)) :
                kill = [from |-> b, to |-> t, atom |-> a]
    BY <1>1
  <1> QED BY <1>2 DEF SoundEdgeKill
-----------------------------------------------------------------------------
(* A graph that has been analysed, and the result.                         *)
Analysed(g, d, l, r) ==
    /\ SoundGraph(g)
    /\ DefinitionIssues(g) = {}
    /\ FixedDominators(g, d)
    /\ AvailabilityIssues(g, d) = {}
    /\ SoundLiveness(g, d, l)
    /\ FixedLiveness(g, l)
    /\ ConsumeIssues(g, l) = {}
    /\ r.escaped = Escaped(g)
    /\ \A kill \in r.kills : SoundKill(g, l, kill)
    /\ \A k1, k2 \in r.kills : k1.at = k2.at /\ k1.atom = k2.atom => k1 = k2
    /\ \A kill \in r.edgeKills : SoundEdgeKill(g, l, kill)
    /\ \A kill \in r.schedule : kill \in r.kills /\ kill.cleanup

(* The values needed from a place in the graph on, and their atoms.        *)
LiveHere(g, l, p) == LiveAt(g, p[1], l.out[p[1]])[p[2]]
(* The places in storage needed from there on.                           *)
NeededHere(g, l, p) == AtomsOf(g, LiveHere(g, l, p))

(* A place is a block that can be reached, and how many of its statements*)
(* are over.                                                             *)
IsPlace(g, p) ==
    \E b \in Reachable(g) : \E k \in 0..Len(g.blocks[b].statements) : p = <<b, k>>

(* A place in storage that has not escaped is given its value only once:   *)
(* where it has one, the definition is behind, and no path leads back.     *)
BehindUs(g, p, at) ==
    \A set \in SUBSET Blocks(g) :
        Closed(g, set) /\ g.blocks[at[1]].successors \subseteq set =>
            p[1] \in set \/ (p[1] = at[1] /\ p[2] >= at[2])
(* So it is for every place in storage that has not escaped.             *)
DefinedBehind(g, r, p, there) ==
    \A a \in there \ r.escaped : \A at \in DefinedAt(g, a) : BehindUs(g, p, at)

(* The drops that are due: of places that are there, that are not needed   *)
(* any more, and each of which is dropped once.                            *)
SoundPending(g, l, r, p, there, due) ==
    /\ due \subseteq r.schedule
    /\ \A kill \in due : kill.atom \in there /\ kill.atom \notin NeededHere(g, l, p)
    /\ \A k1, k2 \in due : k1.atom = k2.atom => k1 = k2

(* The run: what is needed is there, what is lent stays, and the drops   *)
(* that are due are right.                                               *)
SoundRun(g, l, r, p, kept, there, due, borrowed) ==
    /\ IsPlace(g, p)
    /\ NeededHere(g, l, p) \subseteq kept \cap there
    /\ borrowed \subseteq kept \cap there \cap r.escaped
    /\ SoundPending(g, l, r, p, there, due)
    /\ DefinedBehind(g, r, p, there)

-----------------------------------------------------------------------------
(* Where the run stands, and the statement before it.                      *)
LEMMA PlaceFacts ==
    ASSUME NEW g, SoundGraph(g), NEW p, IsPlace(g, p)
    PROVE  /\ p = <<p[1], p[2]>> /\ p[1] \in Reachable(g) /\ p[1] \in Blocks(g) /\ p[2] \in Nat
           /\ p[2] <= Len(g.blocks[p[1]].statements)
           /\ Len(g.blocks[p[1]].statements) \in Nat
           /\ p[2] < Len(g.blocks[p[1]].statements) =>
                  /\ <<p[1], p[2] + 1>> \in ReachableSites(g)
                  /\ IsPlace(g, <<p[1], p[2] + 1>>)
  <1>1. PICK b \in Reachable(g) : \E k \in 0..Len(g.blocks[b].statements) : p = <<b, k>>
    BY DEF IsPlace
  <1>2. PICK k \in 0..Len(g.blocks[b].statements) : p = <<b, k>>
    BY <1>1
  <1>3. p[1] = b /\ p[2] = k
    BY <1>2
  <1>4. b \in Blocks(g)
    BY ReachableIsClosed DEF SoundGraph
  <1>5. /\ Len(g.blocks[b].statements) \in Nat
        /\ DOMAIN g.blocks[b].statements = 1..Len(g.blocks[b].statements)
    BY <1>4, GraphShape DEF SoundGraph
  <1>6. ASSUME k < Len(g.blocks[b].statements)
        PROVE  <<b, k + 1>> \in ReachableSites(g) /\ IsPlace(g, <<b, k + 1>>)
    <2>1. k + 1 \in DOMAIN g.blocks[b].statements /\ k + 1 \in 0..Len(g.blocks[b].statements)
      BY <1>5, <1>6
    <2>2. <<b, k + 1>> \in Sites(g)
      BY <1>4, <2>1, SitesAreSites
    <2> QED BY <2>1, <2>2 DEF ReachableSites, IsPlace
  <1> QED BY <1>2, <1>3, <1>4, <1>5, <1>6

(* What is needed before a statement follows from what is needed after   *)
(* it.                                                                   *)
LEMMA LiveAlongABlock ==
    ASSUME NEW g, SoundGraph(g), NEW l, NEW p, IsPlace(g, p),
           p[2] < Len(g.blocks[p[1]].statements)
    PROVE  LiveHere(g, l, p)
             = LiveBefore(g, Statement(g, p[1], p[2] + 1), LiveHere(g, l, <<p[1], p[2] + 1>>))
  <1> DEFINE b == p[1]  k == p[2]  n == Len(g.blocks[b].statements)
  <1>1. n \in Nat /\ k \in Nat /\ k < n
    BY PlaceFacts
  <1>2. k + 1 \in 1..n /\ k + 1 - 1 = k
    BY <1>1
  <1>3. LiveAt(g, b, l.out[b])[k] = LiveBefore(g, Statement(g, b, k + 1), LiveAt(g, b, l.out[b])[k + 1])
    <2> HIDE DEF k
    <2> QED BY <1>1, <1>2, LiveAtEquations
  <1> QED BY <1>3 DEF LiveHere

(* A place in storage that is there and not needed is not defined by the   *)
(* statement that comes: it would be for the second time.                  *)
LEMMA NotDefinedAgain ==
    ASSUME NEW g, NEW d, NEW l, NEW r, Analysed(g, d, l, r),
           NEW p, IsPlace(g, p), p[2] < Len(g.blocks[p[1]].statements),
           NEW there, DefinedBehind(g, r, p, there),
           NEW a \in there \ r.escaped, a \notin NeededHere(g, l, p)
    PROVE  a \notin AtomsOf(g, Statement(g, p[1], p[2] + 1).definitions)
  <1> DEFINE b == p[1]
             s == Statement(g, b, p[2] + 1)
             at == <<b, p[2] + 1>>
  <1> SUFFICES ASSUME a \in AtomsOf(g, s.definitions) PROVE FALSE
    OBVIOUS
  <1>1. SoundGraph(g)
    BY DEF Analysed
  <1>2. /\ b \in Reachable(g) /\ b \in Blocks(g) /\ p[2] \in Nat
        /\ at \in ReachableSites(g) /\ at \in Sites(g) /\ at[1] = b /\ at[2] = p[2] + 1
    BY <1>1, PlaceFacts DEF ReachableSites
  <1>3. a \in s.definitions
    <2>1. s = Statement(g, at[1], at[2])
      OBVIOUS
    <2>2. NeededHere(g, l, p) = AtomsOf(g, LiveBefore(g, s, LiveHere(g, l, at)))
      BY <1>1, LiveAlongABlock DEF NeededHere
    <2> HIDE DEF s, at
    <2> QED BY <1>1, <1>2, <2>1, <2>2, DefinedPlaces
  <1>4. IsRoot(g, a)
    <2>1. PICK v \in s.definitions : a \in g.table[v].atoms
      BY DEF AtomsOf
    <2>2. v \in Values(g)
      BY <1>1, <1>2, <2>1 DEF SoundGraph, SoundDefinitions
    <2>3. PICK root \in Values(g) : IsRoot(g, root) /\ g.table[v].atoms = {root}
      BY <1>1, <2>2 DEF SoundGraph, SoundTable
    <2> QED BY <2>1, <2>3
  <1>5. at \in DefinedAt(g, a)
    BY <1>2, <1>3 DEF DefinedAt
  <1>6. BehindUs(g, p, at)
    BY <1>5 DEF DefinedBehind
  <1>7. CASE RunsOnce(g, b)
    <2>1. PICK set \in SUBSET Blocks(g) :
              Closed(g, set) /\ g.blocks[b].successors \subseteq set /\ b \notin set
      BY <1>7 DEF RunsOnce
    <2>2. p[1] \in set \/ p[2] >= p[2] + 1
      BY <1>2, <1>6, <2>1 DEF BehindUs
    <2> QED BY <1>2, <2>1, <2>2
  <1>8. CASE EscapesAll(g, b)
    <2>1. p[2] + 1 \in DOMAIN g.blocks[b].statements
      BY <1>2, SitesArePairs
    <2>2. PICK i \in DOMAIN g.blocks[b].statements : a \in UsedFor(Statement(g, b, i), "Escape")
      BY <1>3, <1>8, <2>1 DEF EscapesAll
    <2> DEFINE site == <<b, i>>
    <2>3. site \in ReachableSites(g) /\ site[1] = b /\ site[2] = i
      BY <1>2, SitesAreSites DEF ReachableSites
    <2>4. a \in AtomsOf(g, UsedFor(Statement(g, site[1], site[2]), "Escape"))
      BY <1>4, <2>2 DEF AtomsOf, IsRoot
    <2> HIDE DEF site
    <2>5. a \in Escaped(g)
      BY <2>3, <2>4 DEF Escaped
    <2> QED BY <2>5 DEF Analysed
  <1> QED BY <1>1, <1>2, <1>7, <1>8 DEF SoundGraph

(* The sites of a graph are finitely many.                                 *)
SitesUpTo(g, m) == UNION {{b} \X DOMAIN g.blocks[b].statements : b \in 1..m}

(* Block by block there are finitely many statements.                    *)
LEMMA SitesAreFinite ==
    ASSUME NEW g \in GraphType
    PROVE  IsFiniteSet(Sites(g))
  <1> DEFINE n == Len(g.blocks)
             T == {m \in Nat : m <= n => IsFiniteSet(SitesUpTo(g, m))}
  <1>1. n \in Nat /\ Blocks(g) = 1..n
    BY GraphShape
  <1>2. 0 \in T
    <2>1. SitesUpTo(g, 0) = {}
      BY DEF SitesUpTo
    <2> QED BY <2>1, FS_EmptySet
  <1>3. ASSUME NEW m \in Nat, m \in T PROVE m + 1 \in T
    <2> SUFFICES ASSUME m + 1 <= n PROVE IsFiniteSet(SitesUpTo(g, m + 1))
      OBVIOUS
    <2> DEFINE b == m + 1
               statements == DOMAIN g.blocks[b].statements
               row == {b} \X statements
    <2>1. IsFiniteSet(SitesUpTo(g, m)) /\ b \in Blocks(g) /\ 1..b = (1..m) \cup {b}
      BY <1>1, <1>3
    <2> HIDE DEF b
    <2>2. SitesUpTo(g, b) = SitesUpTo(g, m) \cup row
      BY <2>1 DEF SitesUpTo
    <2>3. statements = 1..Len(g.blocks[b].statements) /\ Len(g.blocks[b].statements) \in Nat
      BY <2>1, GraphShape
    <2>4. IsFiniteSet(statements)
      BY <2>3, FS_Interval
    <2>5. IsFiniteSet({b})
      BY FS_Singleton
    <2> HIDE DEF statements
    <2>6. IsFiniteSet(row)
      BY <2>4, <2>5, FS_Product
    <2> HIDE DEF row
    <2>7. IsFiniteSet(SitesUpTo(g, b))
      BY <2>1, <2>2, <2>6, FS_Union
    <2> QED BY <2>7 DEF b
  <1> HIDE DEF T
  <1>4. Nat \subseteq T
    BY <1>2, <1>3, Induction
  <1>5. Sites(g) = SitesUpTo(g, n)
    BY <1>1 DEF Sites, SitesUpTo
  <1>6. IsFiniteSet(SitesUpTo(g, n))
    BY <1>1, <1>4 DEF T
  <1> QED BY <1>5, <1>6

(* A value that is defined has one definition.                             *)
LEMMA OneDefinition ==
    ASSUME NEW g, SoundGraph(g), DefinitionIssues(g) = {},
           NEW v \in Values(g), NEW x \in DefinedAt(g, v), NEW y \in DefinedAt(g, v)
    PROVE  x = y
  <1>1. ~(Cardinality(DefinedAt(g, v)) > 1)
    <2>1. "DuplicateDefinition" \notin DefinitionIssues(g)
      OBVIOUS
    <2> QED BY <2>1 DEF DefinitionIssues
  <1>2. IsFiniteSet(DefinedAt(g, v))
    <2>1. IsFiniteSet(Sites(g))
      BY SitesAreFinite DEF SoundGraph
    <2>2. DefinedAt(g, v) \in SUBSET Sites(g)
      BY DEF DefinedAt
    <2> QED BY <2>1, <2>2, FS_Subset
  <1>3. Cardinality({x, y}) <= Cardinality(DefinedAt(g, v))
        /\ Cardinality(DefinedAt(g, v)) \in Nat
    BY <1>2, FS_Subset, FS_CardinalityType
  <1>4. x # y => Cardinality({x, y}) = 2
    <2>1. IsFiniteSet({x}) /\ Cardinality({x}) = 1
      BY FS_Singleton
    <2>2. {x, y} = {x} \cup {y}
      OBVIOUS
    <2>3. IsFiniteSet({x} \cup {y})
          /\ Cardinality({x} \cup {y}) = IF y \in {x} THEN 1 ELSE 1 + 1
      BY <2>1, FS_AddElement
    <2> QED BY <2>2, <2>3
  <1> QED BY <1>1, <1>3, <1>4

(* The run before a statement, and what comes of it.                       *)
BeforeStatement(g, r, p, due, over, s, next, defined, consumed, killed) ==
    /\ p[2] < Len(g.blocks[p[1]].statements)
    /\ over \in SUBSET due /\ s = Statement(g, p[1], p[2] + 1) /\ next = <<p[1], p[2] + 1>>
    /\ defined = AtomsOf(g, s.definitions) /\ consumed = AtomsOf(g, UsedFor(s, "Consume"))
    /\ killed = {kill \in r.kills : kill.at = next}

(* What a statement does to the run.                                       *)
LEMMA StatementRuns ==
    ASSUME NEW g, NEW d, NEW l, NEW r, Analysed(g, d, l, r),
           NEW p, NEW kept, NEW there, NEW due, NEW borrowed,
           SoundRun(g, l, r, p, kept, there, due, borrowed),
           NEW over, NEW s, NEW next, NEW defined, NEW consumed, NEW killed,
           BeforeStatement(g, r, p, due, over, s, next, defined, consumed, killed)
    PROVE  SoundRun(g, l, r, next,
                    (kept \cup defined) \ (consumed \cup AtomsKilledBy(killed)),
                    ((there \ AtomsKilledBy(over)) \cup defined) \ consumed,
                    (due \ over) \cup (killed \cap r.schedule),
                    borrowed \cup AtomsOf(g, UsedFor(s, "Escape")))
  <1> USE DEF BeforeStatement
  <1> DEFINE kept2 == (kept \cup defined) \ (consumed \cup AtomsKilledBy(killed))
             there2 == ((there \ AtomsKilledBy(over)) \cup defined) \ consumed
             due2 == (due \ over) \cup (killed \cap r.schedule)
             lent2 == AtomsOf(g, UsedFor(s, "Escape"))
             needed == NeededHere(g, l, p)
             needed2 == NeededHere(g, l, next)
  <1>1. SoundGraph(g) /\ IsPlace(g, p)
    BY DEF Analysed, SoundRun
  <1>2. /\ next[1] = p[1] /\ next[2] = p[2] + 1 /\ p[2] \in Nat
        /\ next \in ReachableSites(g) /\ IsPlace(g, next) /\ next \in Sites(g)
        /\ s = Statement(g, next[1], next[2])
    BY <1>1, PlaceFacts DEF ReachableSites
  <1>3. LiveHere(g, l, p) = (LiveHere(g, l, next) \ s.definitions) \cup SourcesIn(g, s) \cup UsedIn(s)
    BY <1>1, LiveAlongABlock DEF LiveBefore
  <1>4. needed2 \subseteq needed \cup defined
    BY <1>3 DEF AtomsOf, NeededHere
  <1>5. AtomsOf(g, UsedIn(s)) \subseteq needed
    BY <1>3 DEF AtomsOf, NeededHere
  <1>6. consumed \subseteq needed /\ lent2 \subseteq needed
    BY <1>5 DEF AtomsOf, UsedFor, UsedIn
  <1>7. needed \subseteq kept \cap there
    BY DEF SoundRun
  <1>8. ASSUME NEW a \in consumed PROVE a \notin r.escaped /\ a \notin needed2
    <2>1. a \notin Escaped(g) /\ a \notin AtomsOf(g, LiveAt(g, next[1], l.out[next[1]])[next[2]])
      BY <1>2, ConsumedIsOver DEF Analysed
    <2> QED BY <2>1 DEF Analysed, NeededHere, LiveHere
  <1>9. ASSUME NEW kill \in killed
        PROVE  /\ SoundKill(g, l, kill) /\ kill.at = next
               /\ kill.atom \in defined \cup AtomsOf(g, UsedIn(s))
               /\ kill.atom \notin r.escaped /\ kill.atom \notin needed2
               /\ kill.cleanup => kill.atom \notin consumed
    <2>1. SoundKill(g, l, kill) /\ kill.at = next
      BY DEF Analysed
    <2>2. kill.atom \in AtomsIn(g, s)
      BY <1>2, <2>1 DEF SoundKill
    <2>3. kill.atom \in defined \cup AtomsOf(g, UsedIn(s))
      BY <2>2 DEF AtomsIn, AtomsOf
    <2>4. kill.atom \notin r.escaped /\ kill.atom \notin needed2
      BY <1>2, <2>1 DEF SoundKill, Analysed, NeededHere, LiveHere
    <2>5. kill.cleanup => kill.atom \notin consumed
      BY <1>2, <2>1 DEF SoundKill
    <2> QED BY <2>1, <2>3, <2>4, <2>5
  <1>10. ASSUME NEW kill \in due
         PROVE  /\ kill \in r.schedule /\ kill.atom \in there /\ kill.atom \notin needed
                /\ kill.atom \notin r.escaped /\ kill.atom \notin defined
    <2>1. kill \in r.schedule /\ kill.atom \in there /\ kill.atom \notin needed
      BY DEF SoundRun, SoundPending
    <2>2. kill.atom \notin r.escaped
      BY <2>1 DEF Analysed, SoundKill
    <2>3. DefinedBehind(g, r, p, there)
      BY DEF SoundRun
    <2>4. kill.atom \notin defined
      BY <1>1, <2>1, <2>2, <2>3, NotDefinedAgain
    <2> QED BY <2>1, <2>2, <2>4
  <1>11. AtomsKilledBy(over) \cap needed = {} /\ AtomsKilledBy(over) \cap r.escaped = {}
    BY <1>10 DEF AtomsKilledBy
  <1>12. needed2 \subseteq kept2 \cap there2
    <2>1. AtomsKilledBy(killed) \cap needed2 = {}
      BY <1>9 DEF AtomsKilledBy
    <2>2. consumed \cap needed2 = {}
      BY <1>8
    <2> QED BY <1>4, <1>7, <1>11, <2>1, <2>2
  <1>13. borrowed \cup lent2 \subseteq kept2 \cap there2 \cap r.escaped
    <2>1. lent2 \subseteq r.escaped
      <3>1. lent2 \subseteq Escaped(g)
        BY <1>2 DEF Escaped
      <3> QED BY <3>1 DEF Analysed
    <2>2. borrowed \subseteq kept \cap there \cap r.escaped
      BY DEF SoundRun
    <2>3. AtomsKilledBy(killed) \cap r.escaped = {} /\ consumed \cap r.escaped = {}
      BY <1>8, <1>9 DEF AtomsKilledBy
    <2> QED BY <1>6, <1>7, <1>11, <2>1, <2>2, <2>3
  <1>14. SoundPending(g, l, r, next, there2, due2)
    <2>1. due2 \subseteq r.schedule
      BY <1>10
    <2>2. \A k1, k2 \in due : k1.atom = k2.atom => k1 = k2
      BY DEF SoundRun, SoundPending
    <2>3. ASSUME NEW kill \in due \ over PROVE kill.atom \in there2 /\ kill.atom \notin needed2
      <3>1. kill.atom \notin AtomsKilledBy(over)
        BY <2>2, <2>3 DEF AtomsKilledBy
      <3> QED BY <1>4, <1>6, <1>10, <3>1
    <2>4. ASSUME NEW kill \in killed \cap r.schedule
          PROVE  kill.atom \in there2 /\ kill.atom \notin needed2
      <3>1. kill.cleanup
        BY DEF Analysed
      <3> QED BY <1>5, <1>7, <1>9, <1>11, <3>1
    <2>5. ASSUME NEW k1 \in due \ over, NEW k2 \in killed PROVE k1.atom # k2.atom
      BY <1>5, <1>9, <1>10
    <2>6. ASSUME NEW k1 \in killed, NEW k2 \in killed, k1.atom = k2.atom PROVE k1 = k2
      BY <2>6 DEF Analysed
    <2>7. ASSUME NEW k1 \in due2, NEW k2 \in due2, k1.atom = k2.atom PROVE k1 = k2
      BY <2>2, <2>5, <2>6, <2>7
    <2> HIDE DEF due2, there2, needed2
    <2>8. \A kill \in due2 : kill.atom \in there2 /\ kill.atom \notin needed2
      BY <2>3, <2>4 DEF due2
    <2> QED BY <2>1, <2>7, <2>8 DEF SoundPending, needed2
  <1>15. DefinedBehind(g, r, next, there2)
    <2> SUFFICES ASSUME NEW a \in there2 \ r.escaped, NEW at \in DefinedAt(g, a),
                        NEW set \in SUBSET Blocks(g),
                        Closed(g, set), g.blocks[at[1]].successors \subseteq set
                 PROVE  next[1] \in set \/ (next[1] = at[1] /\ next[2] >= at[2])
      BY DEF DefinedBehind, BehindUs
    <2>1. at \in Sites(g) /\ at[2] \in Nat
      <3>1. at \in Sites(g)
        BY DEF DefinedAt
      <3>2. at[1] \in Blocks(g) /\ at[2] \in DOMAIN g.blocks[at[1]].statements
        BY <3>1, SitesArePairs
      <3>3. at[2] \in Nat
        BY <1>1, <3>2, GraphShape DEF SoundGraph
      <3> QED BY <3>1, <3>3
    <2>2. CASE a \in there
      <3>1. p[1] \in set \/ (p[1] = at[1] /\ p[2] >= at[2])
        BY <2>2 DEF SoundRun, DefinedBehind, BehindUs
      <3> QED BY <1>2, <2>1, <3>1
    <2>3. CASE a \notin there
      <3>1. a \in AtomsOf(g, s.definitions) /\ a \notin needed
        BY <1>7, <2>3
      <3>2. a \in s.definitions
        <4>1. needed = AtomsOf(g, LiveBefore(g, s, LiveHere(g, l, next)))
          BY <1>1, LiveAlongABlock DEF NeededHere
        <4> QED BY <1>1, <1>2, <3>1, <4>1, DefinedPlaces
      <3>3. next \in DefinedAt(g, a)
        BY <1>2, <3>2 DEF DefinedAt
      <3>4. at = next
        <4>1. a \in Values(g)
          BY <1>1, <1>2, <3>2 DEF SoundGraph, SoundDefinitions
        <4>2. DefinitionIssues(g) = {}
          BY DEF Analysed
        <4> QED BY <1>1, <3>3, <4>1, <4>2, OneDefinition
      <3> QED BY <1>2, <2>1, <3>4
    <2> QED BY <2>2, <2>3
  <1> HIDE DEF kept2, there2, due2, lent2
  <1>16. SoundRun(g, l, r, next, kept2, there2, due2, borrowed \cup lent2)
    BY <1>2, <1>12, <1>13, <1>14, <1>15 DEF SoundRun
  <1> QED BY <1>16 DEF kept2, there2, due2, lent2

(* What an edge does to the run.                                           *)
LEMMA EdgeRuns ==
    ASSUME NEW g, NEW d, NEW l, NEW r, Analysed(g, d, l, r),
           NEW p, NEW kept, NEW there, NEW due, NEW borrowed,
           SoundRun(g, l, r, p, kept, there, due, borrowed),
           ~(p[2] < Len(g.blocks[p[1]].statements)),
           NEW t \in g.blocks[p[1]].successors,
           NEW killed, killed = {kill \in r.edgeKills : kill.from = p[1] /\ kill.to = t}
    PROVE  SoundRun(g, l, r, <<t, 0>>, kept \ AtomsKilledBy(killed), there, due, borrowed)
  <1> DEFINE b == p[1]
             next == <<t, 0>>
             kept2 == kept \ AtomsKilledBy(killed)
  <1>1. SoundGraph(g) /\ IsPlace(g, p)
    BY DEF Analysed, SoundRun
  <1>2. /\ b \in Reachable(g) /\ b \in Blocks(g)
        /\ p[2] = Len(g.blocks[b].statements) /\ Len(g.blocks[b].statements) \in Nat
    <2>1. p[2] \in Nat /\ p[2] <= Len(g.blocks[b].statements) /\ Len(g.blocks[b].statements) \in Nat
      BY <1>1, PlaceFacts
    <2>2. b \in Reachable(g) /\ b \in Blocks(g)
      BY <1>1, PlaceFacts
    <2> QED BY <2>1, <2>2
  <1>3. t \in Reachable(g) /\ t \in Blocks(g)
    BY <1>1, <1>2, ReachableIsClosed DEF Closed, SoundGraph
  <1>4. Len(g.blocks[t].statements) \in Nat
    BY <1>1, <1>3, GraphShape DEF SoundGraph
  <1>5. IsPlace(g, next)
    <2>1. 0 \in 0..Len(g.blocks[t].statements)
      BY <1>4
    <2> QED BY <1>3, <2>1 DEF IsPlace
  <1>6. LiveHere(g, l, p) = l.out[b]
    BY <1>2, LiveAtEquations DEF LiveHere
  <1>7. LiveHere(g, l, next) = l.in[t]
    BY <1>3 DEF LiveHere, Analysed, FixedLiveness
  <1>8. NeededHere(g, l, next) \subseteq NeededHere(g, l, p)
    <2>1. l.out[b] = LeavingBlock(g, l, b)
      BY <1>2 DEF Analysed, FixedLiveness
    <2> QED BY <1>6, <1>7, <2>1 DEF NeededHere, AtomsOf, LeavingBlock
  <1>9. ASSUME NEW a \in AtomsKilledBy(killed) PROVE a \notin NeededHere(g, l, next) /\ a \notin r.escaped
    <2>1. PICK kill \in killed : a = kill.atom
      BY DEF AtomsKilledBy
    <2>2. SoundEdgeKill(g, l, kill) /\ kill.to = t
      BY DEF Analysed
    <2> QED BY <1>7, <2>1, <2>2 DEF SoundEdgeKill, Analysed, NeededHere
  <1>10. NeededHere(g, l, next) \subseteq kept2 \cap there
    BY <1>8, <1>9 DEF SoundRun
  <1>11. borrowed \subseteq kept2 \cap there \cap r.escaped
    BY <1>9 DEF SoundRun
  <1>12. SoundPending(g, l, r, next, there, due)
    BY <1>8 DEF SoundRun, SoundPending
  <1>13. DefinedBehind(g, r, next, there)
    <2> SUFFICES ASSUME NEW a \in there \ r.escaped, NEW at \in DefinedAt(g, a),
                        NEW set \in SUBSET Blocks(g),
                        Closed(g, set), g.blocks[at[1]].successors \subseteq set
                 PROVE  t \in set
      BY DEF DefinedBehind, BehindUs
    <2>1. p[1] \in set \/ (p[1] = at[1] /\ p[2] >= at[2])
      BY DEF SoundRun, DefinedBehind, BehindUs
    <2> QED BY <2>1 DEF Closed
  <1> HIDE DEF kept2, next
  <1>14. SoundRun(g, l, r, next, kept2, there, due, borrowed)
    BY <1>5, <1>10, <1>11, <1>12, <1>13 DEF SoundRun
  <1> QED BY <1>14 DEF kept2, next

(* Where the run begins nothing is needed but the parameters.              *)
LEMMA RunBegins ==
    ASSUME NEW g, NEW d, NEW l, NEW r, Analysed(g, d, l, r), NEW p, p = <<Entry, 0>>
    PROVE  LET there == AtomsOf(g, g.parameters) IN SoundRun(g, l, r, p, there, there, {}, {})
  <1> DEFINE there == AtomsOf(g, g.parameters)
  <1>1. SoundGraph(g) /\ g \in GraphType /\ HasItsBlocks(g)
    BY DEF Analysed, SoundGraph
  <1>2. Entry \in Reachable(g) /\ Entry \in Blocks(g)
    BY <1>1, ReachableIsClosed DEF HasItsBlocks
  <1>3. p[1] = Entry /\ p[2] = 0
    OBVIOUS
  <1>4. IsPlace(g, p)
    <2>1. 0 \in 0..Len(g.blocks[Entry].statements)
      BY <1>1, <1>2, GraphShape
    <2> QED BY <1>2, <2>1 DEF IsPlace
  <1>5. NeededHere(g, l, p) \subseteq there
    <2>1. LiveHere(g, l, p) = l.in[Entry]
      BY <1>2, <1>3 DEF LiveHere, Analysed, FixedLiveness
    <2>2. ASSUME NEW v \in l.in[Entry] PROVE v \in g.parameters
      <3>1. AvailableBefore(g, d, v, Entry, 1)
        BY <1>2 DEF Analysed, SoundLiveness, OnlyAvailable
      <3>2. ASSUME NEW at \in DefinedAt(g, v),
                   IF at[1] = Entry THEN at[2] < 1 ELSE at[1] \in d[Entry]
            PROVE  FALSE
        <4>1. d[Entry] = {Entry}
          BY DEF Analysed, FixedDominators, DominatorType
        <4>2. at[1] = Entry /\ at[2] < 1
          BY <3>2, <4>1
        <4>3. at \in Sites(g)
          BY DEF DefinedAt
        <4>4. at[2] \in DOMAIN g.blocks[Entry].statements
          BY <4>2, <4>3, SitesArePairs
        <4>5. at[2] \in 1..Len(g.blocks[Entry].statements)
          BY <1>1, <1>2, <4>4, GraphShape
        <4> QED BY <4>2, <4>5
      <3> QED BY <3>1, <3>2 DEF AvailableBefore
    <2> QED BY <2>1, <2>2 DEF NeededHere, AtomsOf
  <1>6. DefinedBehind(g, r, p, there)
    <2> SUFFICES ASSUME NEW a \in there, NEW at \in DefinedAt(g, a) PROVE FALSE
      BY DEF DefinedBehind
    <2>1. PICK v \in g.parameters : a \in g.table[v].atoms
      BY DEF AtomsOf
    <2>2. a = v
      BY <1>1, <2>1 DEF SoundGraph, SoundTable, IsRoot
    <2>3. a \in Defined(g)
      BY DEF DefinedAt, Defined
    <2>4. "ParameterDefined" \notin DefinitionIssues(g)
      BY DEF Analysed
    <2> QED BY <2>1, <2>2, <2>3, <2>4 DEF DefinitionIssues
  <1>7. SoundPending(g, l, r, p, there, {})
    BY DEF SoundPending
  <1> HIDE DEF there
  <1>8. SoundRun(g, l, r, p, there, there, {}, {})
    BY <1>4, <1>5, <1>6, <1>7 DEF SoundRun
  <1> QED BY <1>8 DEF there

(* What a run is about to do.                                              *)
AboutTo(g, r, p, due, over, s, killed, leaving) ==
    /\ over \in SUBSET due /\ s = Statement(g, p[1], p[2] + 1)
    /\ killed = {kill \in r.kills : kill.cleanup /\ kill.at = <<p[1], p[2] + 1>>}
    /\ leaving = {kill \in r.edgeKills : kill.from = p[1]}

(* What a run that is safe finds.                                         *)
Safe(g, p, kept, there, borrowed, over, s, killed, leaving) ==
    /\ borrowed \subseteq kept \cap there
    /\ AtomsKilledBy(over) \subseteq there
    /\ p[2] < Len(g.blocks[p[1]].statements) =>
           /\ AtomsOf(g, UsedIn(s) \cup SourcesIn(g, s))
                \subseteq kept \cap (there \ AtomsKilledBy(over))
           /\ AtomsKilledBy(killed) \subseteq kept \cup AtomsOf(g, s.definitions)
    /\ ~(p[2] < Len(g.blocks[p[1]].statements)) => AtomsKilledBy(leaving) \subseteq kept

(* What the run needs is there.                                            *)
LEMMA RunIsSafe ==
    ASSUME NEW g, NEW d, NEW l, NEW r, Analysed(g, d, l, r),
           NEW p, NEW kept, NEW there, NEW due, NEW borrowed,
           SoundRun(g, l, r, p, kept, there, due, borrowed),
           NEW over, NEW s, NEW killed, NEW leaving,
           AboutTo(g, r, p, due, over, s, killed, leaving)
    PROVE  Safe(g, p, kept, there, borrowed, over, s, killed, leaving)
  <1>1. SoundGraph(g) /\ IsPlace(g, p)
    BY DEF Analysed, SoundRun
  <1>2. borrowed \subseteq kept \cap there
    BY DEF SoundRun
  <1>3. AtomsKilledBy(over) \subseteq there /\ AtomsKilledBy(over) \cap NeededHere(g, l, p) = {}
    BY DEF SoundRun, SoundPending, AtomsKilledBy, AboutTo
  <1>4. ASSUME p[2] < Len(g.blocks[p[1]].statements)
        PROVE  /\ AtomsOf(g, UsedIn(s) \cup SourcesIn(g, s))
                    \subseteq kept \cap (there \ AtomsKilledBy(over))
               /\ AtomsKilledBy(killed) \subseteq kept \cup AtomsOf(g, s.definitions)
    <2> DEFINE next == <<p[1], p[2] + 1>>
    <2>1. LiveHere(g, l, p) = (LiveHere(g, l, next) \ s.definitions) \cup SourcesIn(g, s) \cup UsedIn(s)
      BY <1>1, <1>4, LiveAlongABlock DEF LiveBefore, AboutTo
    <2>2. AtomsOf(g, UsedIn(s) \cup SourcesIn(g, s)) \subseteq NeededHere(g, l, p)
      BY <2>1 DEF NeededHere, AtomsOf
    <2>3. NeededHere(g, l, p) \subseteq kept \cap there
      BY DEF SoundRun
    <2>4. ASSUME NEW kill \in killed PROVE kill.atom \in kept \cup AtomsOf(g, s.definitions)
      <3>1. kill.atom \in AtomsIn(g, s)
        BY DEF Analysed, SoundKill, AboutTo
      <3> QED BY <2>2, <2>3, <3>1 DEF AtomsIn, AtomsOf
    <2>5. AtomsKilledBy(killed) \subseteq kept \cup AtomsOf(g, s.definitions)
      BY <2>4 DEF AtomsKilledBy
    <2>6. AtomsOf(g, UsedIn(s) \cup SourcesIn(g, s)) \subseteq kept \cap (there \ AtomsKilledBy(over))
      BY <1>3, <2>2, <2>3
    <2> QED BY <2>5, <2>6
  <1>5. ASSUME ~(p[2] < Len(g.blocks[p[1]].statements)),
               NEW kill \in r.edgeKills, kill.from = p[1]
        PROVE  kill.atom \in kept
    <2>1. p[2] = Len(g.blocks[p[1]].statements) /\ Len(g.blocks[p[1]].statements) \in Nat
      <3>1. /\ p[2] \in Nat /\ p[2] <= Len(g.blocks[p[1]].statements)
            /\ Len(g.blocks[p[1]].statements) \in Nat
        BY <1>1, PlaceFacts
      <3> QED BY <1>5, <3>1
    <2>2. LiveHere(g, l, p) = l.out[p[1]]
      BY <2>1, LiveAtEquations DEF LiveHere
    <2>3. kill.atom \in AtomsOf(g, l.out[p[1]])
      BY <1>5 DEF Analysed, SoundEdgeKill
    <2> QED BY <2>2, <2>3 DEF SoundRun, NeededHere
  <1>6. ~(p[2] < Len(g.blocks[p[1]].statements)) => AtomsKilledBy(leaving) \subseteq kept
    BY <1>5 DEF AtomsKilledBy, AboutTo
  <1> QED BY <1>2, <1>3, <1>4, <1>6 DEF Safe

-----------------------------------------------------------------------------
(* What the planner does to a graph. A statement at the end of a block     *)
(* changes nothing else.                                                   *)
LEMMA AppendedShape ==
    ASSUME NEW g \in GraphType, NEW b \in Blocks(g), NEW s \in StatementType
    PROVE  LET g2 == Appended(g, b, s)
               n == Len(g.blocks[b].statements)
           IN  /\ g2 \in GraphType
               /\ g2.table = g.table /\ g2.parameters = g.parameters
               /\ Blocks(g2) = Blocks(g) /\ Values(g2) = Values(g)
               /\ Len(g2.blocks) = Len(g.blocks)
               /\ \A c \in Blocks(g) : g2.blocks[c].successors = g.blocks[c].successors
               /\ \A c \in Blocks(g) : c # b => g2.blocks[c] = g.blocks[c]
               /\ n \in Nat
               /\ DOMAIN g.blocks[b].statements = 1..n
               /\ DOMAIN g2.blocks[b].statements = 1..n + 1
               /\ \A k \in 1..n : Statement(g2, b, k) = Statement(g, b, k)
               /\ Statement(g2, b, n + 1) = s
  <1> DEFINE g2 == Appended(g, b, s)
             block2 == [g.blocks[b] EXCEPT !.statements = Append(@, s)]
             blocks2 == [g.blocks EXCEPT ![b] = block2]
             n == Len(g.blocks[b].statements)
  <1>1. g.blocks[b] \in BlockType /\ Len(g.blocks) \in Nat /\ Blocks(g) = 1..Len(g.blocks)
    BY GraphShape
  <1>2. g.blocks[b].statements \in Seq(StatementType) /\ g.blocks \in Seq(BlockType)
    BY <1>1 DEF BlockType, GraphType
  <1>3. /\ Append(g.blocks[b].statements, s) \in Seq(StatementType)
        /\ Len(Append(g.blocks[b].statements, s)) = n + 1
        /\ \A k \in 1..n : Append(g.blocks[b].statements, s)[k] = g.blocks[b].statements[k]
        /\ Append(g.blocks[b].statements, s)[n + 1] = s
    BY <1>2, AppendProperties
  <1>4. /\ block2 \in BlockType
        /\ block2.statements = Append(g.blocks[b].statements, s)
        /\ block2.successors = g.blocks[b].successors
    BY <1>1, <1>3 DEF BlockType
  <1>5. /\ blocks2 \in Seq(BlockType) /\ Len(blocks2) = Len(g.blocks)
        /\ \A c \in 1..Len(g.blocks) : blocks2[c] = IF c = b THEN block2 ELSE g.blocks[c]
    <2> HIDE DEF block2
    <2> QED BY <1>1, <1>2, <1>4, ExceptSeq
  <1>6. g2 = [g EXCEPT !.blocks = blocks2]
    BY DEF Appended
  <1>7. /\ g2 \in GraphType /\ g2.blocks = blocks2
        /\ g2.table = g.table /\ g2.parameters = g.parameters
    <2> HIDE DEF blocks2, g2
    <2> QED BY <1>5, <1>6 DEF GraphType
  <1> HIDE DEF blocks2, g2, block2
  <1>8. Blocks(g2) = Blocks(g) /\ Values(g2) = Values(g) /\ Len(g2.blocks) = Len(g.blocks)
    BY <1>1, <1>5, <1>7, GraphShape DEF Values
  <1>9. /\ \A c \in Blocks(g) : g2.blocks[c].successors = g.blocks[c].successors
        /\ \A c \in Blocks(g) : c # b => g2.blocks[c] = g.blocks[c]
        /\ g2.blocks[b].statements = Append(g.blocks[b].statements, s)
    BY <1>1, <1>4, <1>5, <1>7
  <1>10. /\ n \in Nat /\ DOMAIN g.blocks[b].statements = 1..n
         /\ DOMAIN g2.blocks[b].statements = 1..n + 1
    BY <1>2, <1>3, <1>9, LenProperties
  <1>11. /\ \A k \in 1..n : Statement(g2, b, k) = Statement(g, b, k)
         /\ Statement(g2, b, n + 1) = s
    BY <1>3, <1>9 DEF Statement
  <1> QED BY <1>7, <1>8, <1>9, <1>10, <1>11 DEF g2

(* Its edges are the same, so what is closed is.                           *)
LEMMA SameEdges ==
    ASSUME NEW g, NEW g2, Blocks(g2) = Blocks(g),
           \A c \in Blocks(g) : g2.blocks[c].successors = g.blocks[c].successors
    PROVE  /\ \A set \in SUBSET Blocks(g) : Closed(g2, set) <=> Closed(g, set)
           /\ \A c \in Blocks(g) : RunsOnce(g2, c) <=> RunsOnce(g, c)
           /\ HasItsBlocks(g) => HasItsBlocks(g2)
  <1>1. \A set \in SUBSET Blocks(g) : Closed(g2, set) <=> Closed(g, set)
    BY DEF Closed
  <1> QED BY <1>1 DEF RunsOnce, HasItsBlocks

(* The table is sound or not whatever the blocks are.                    *)
LEMMA SameTable ==
    ASSUME NEW g, NEW g2, g2.table = g.table, g2.parameters = g.parameters, SoundTable(g)
    PROVE  SoundTable(g2)
  <1>1. Values(g2) = Values(g)
    BY DEF Values
  <1>2. \A v \in Values(g) : (IsRoot(g2, v) <=> IsRoot(g, v)) /\ (IsAlias(g2, v) <=> IsAlias(g, v))
    BY <1>1 DEF IsRoot, IsAlias
  <1>3. \A v \in Values(g) : IsRoot(g2, v) \/ IsAlias(g2, v)
    BY <1>2 DEF SoundTable
  <1>4. \A v \in Values(g) : \E r \in Values(g) : IsRoot(g2, r) /\ g2.table[v].atoms = {r}
    BY <1>2 DEF SoundTable
  <1>5. g2.parameters \subseteq {v \in Values(g) : IsRoot(g2, v)}
    BY <1>2 DEF SoundTable
  <1> QED BY <1>1, <1>3, <1>4, <1>5 DEF SoundTable

(* What makes a graph sound but for what may be executed repeatedly.       *)
WellMade(g) == g \in GraphType /\ HasItsBlocks(g) /\ SoundTable(g) /\ SoundDefinitions(g)

(* A statement may define values of the table.                             *)
MayDefine(g, values) ==
    \A v \in values : v \in Values(g) /\ g.table[v].sources \cap values = {}

(* A statement leaves what is there as it is.                              *)
LEMMA StatementAdded ==
    ASSUME NEW g, WellMade(g), NEW b \in Blocks(g),
           NEW s \in StatementType, MayDefine(g, s.definitions)
    PROVE  LET g2 == Appended(g, b, s)
           IN  /\ WellMade(g2)
               /\ \A set \in SUBSET Blocks(g) : Closed(g2, set) <=> Closed(g, set)
               /\ \A c \in Blocks(g) : RunsOnce(g2, c) <=> RunsOnce(g, c)
               /\ \A c \in Blocks(g) : c # b => (EscapesAll(g2, c) <=> EscapesAll(g, c))
  <1> DEFINE n == Len(g.blocks[b].statements)
  <1>0. g \in GraphType
    BY DEF WellMade
  <1>1. PICK g2 : g2 = Appended(g, b, s)
    OBVIOUS
  <1>2. /\ g2 \in GraphType
        /\ g2.table = g.table /\ g2.parameters = g.parameters
        /\ Blocks(g2) = Blocks(g) /\ Values(g2) = Values(g)
        /\ \A c \in Blocks(g) : g2.blocks[c].successors = g.blocks[c].successors
        /\ \A c \in Blocks(g) : c # b => g2.blocks[c] = g.blocks[c]
    BY <1>0, <1>1, AppendedShape
  <1>3. /\ n \in Nat
        /\ DOMAIN g.blocks[b].statements = 1..n
        /\ DOMAIN g2.blocks[b].statements = 1..n + 1
        /\ \A k \in 1..n : Statement(g2, b, k) = Statement(g, b, k)
        /\ Statement(g2, b, n + 1) = s
    BY <1>0, <1>1, AppendedShape
  <1> HIDE DEF n
  <1>4. SoundTable(g2)
    BY <1>2, SameTable DEF WellMade
  <1>5. SoundDefinitions(g2)
    <2> SUFFICES ASSUME NEW at \in Sites(g2), NEW v \in Statement(g2, at[1], at[2]).definitions
                 PROVE  /\ v \in Values(g2)
                        /\ g2.table[v].sources \cap Statement(g2, at[1], at[2]).definitions = {}
      BY DEF SoundDefinitions
    <2>1. at[1] \in Blocks(g) /\ at[2] \in DOMAIN g2.blocks[at[1]].statements /\ at = <<at[1], at[2]>>
      BY <1>2, SitesArePairs
    <2>2. CASE at[1] = b /\ at[2] = n + 1
      BY <1>2, <1>3, <2>2 DEF MayDefine
    <2>3. CASE ~(at[1] = b /\ at[2] = n + 1)
      <3>1. /\ at[2] \in DOMAIN g.blocks[at[1]].statements
            /\ Statement(g2, at[1], at[2]) = Statement(g, at[1], at[2])
        <4>1. CASE at[1] = b
          <5>1. at[2] \in 1..n
            BY <1>3, <2>1, <2>3, <4>1
          <5> QED BY <1>3, <4>1, <5>1
        <4>2. CASE at[1] # b
          BY <1>2, <2>1, <4>2 DEF Statement
        <4> QED BY <4>1, <4>2
      <3>2. at \in Sites(g)
        BY <2>1, <3>1, SitesAreSites
      <3> QED BY <1>2, <3>1, <3>2 DEF WellMade, SoundDefinitions
    <2> QED BY <2>2, <2>3
  <1>6. ASSUME NEW c \in Blocks(g), c # b PROVE EscapesAll(g2, c) <=> EscapesAll(g, c)
    BY <1>2, <1>6 DEF EscapesAll, Statement
  <1>7. /\ \A set \in SUBSET Blocks(g) : Closed(g2, set) <=> Closed(g, set)
        /\ \A c \in Blocks(g) : RunsOnce(g2, c) <=> RunsOnce(g, c)
        /\ HasItsBlocks(g2)
    BY <1>2, SameEdges DEF WellMade
  <1>8. WellMade(g2)
    BY <1>2, <1>4, <1>5, <1>7 DEF WellMade
  <1> QED BY <1>1, <1>6, <1>7, <1>8

(* A loop never leaves a set of blocks in each of which all escapes that is*)
(* defined in it.                                                          *)
LoopEscapes(g, header) ==
    \E set \in SUBSET Blocks(g) :
        Closed(g, set) /\ header \in set /\ \A c \in set : EscapesAll(g, c)

(* A graph that is being planned: the headers of the loops that are open,  *)
(* the block it is continued at, and the blocks that wait for their turn.  *)
PlanGraph(g, headers, end, waiting) ==
    /\ SoundGraph(g)
    /\ \A x \in headers : LoopEscapes(g, x)
    /\ end \in Blocks(g) /\ g.blocks[end].successors = {}
    /\ \A b \in waiting : b \in Blocks(g) /\ g.blocks[b] = EmptyBlock

(* Where edges stay and what escapes does, so does the plan.               *)
LEMMA StillPlanned ==
    ASSUME NEW g, NEW headers, NEW end, NEW waiting, PlanGraph(g, headers, end, waiting),
           NEW g2, WellMade(g2), Blocks(g2) = Blocks(g),
           \A c \in Blocks(g) : g2.blocks[c].successors = g.blocks[c].successors,
           \A b \in waiting : g2.blocks[b] = g.blocks[b],
           \A c \in Blocks(g) : EscapesAll(g, c) => EscapesAll(g2, c)
    PROVE  PlanGraph(g2, headers, end, waiting)
  <1>1. /\ \A set \in SUBSET Blocks(g) : Closed(g2, set) <=> Closed(g, set)
        /\ \A c \in Blocks(g) : RunsOnce(g2, c) <=> RunsOnce(g, c)
    BY SameEdges
  <1>2. SoundGraph(g2)
    BY <1>1 DEF PlanGraph, SoundGraph, WellMade
  <1>3. ASSUME NEW x \in headers PROVE LoopEscapes(g2, x)
    <2>1. PICK set \in SUBSET Blocks(g) :
              Closed(g, set) /\ x \in set /\ \A c \in set : EscapesAll(g, c)
      BY DEF PlanGraph, LoopEscapes
    <2>2. Closed(g2, set) /\ \A c \in set : EscapesAll(g2, c)
      BY <1>1, <2>1
    <2> QED BY <2>1, <2>2 DEF LoopEscapes
  <1> QED BY <1>2, <1>3 DEF PlanGraph

(* A statement that defines nothing can be added anywhere.                 *)
LEMMA UseAdded ==
    ASSUME NEW g, NEW headers, NEW end, NEW waiting, PlanGraph(g, headers, end, waiting),
           NEW b \in Blocks(g), b \notin waiting, NEW s \in StatementType, s.definitions = {}
    PROVE  PlanGraph(Appended(g, b, s), headers, end, waiting)
  <1> DEFINE n == Len(g.blocks[b].statements)
  <1>0. g \in GraphType /\ SoundGraph(g) /\ WellMade(g)
    BY DEF PlanGraph, SoundGraph, WellMade
  <1>1. PICK g2 : g2 = Appended(g, b, s)
    OBVIOUS
  <1>2. /\ Blocks(g2) = Blocks(g)
        /\ \A c \in Blocks(g) : g2.blocks[c].successors = g.blocks[c].successors
        /\ \A c \in Blocks(g) : c # b => g2.blocks[c] = g.blocks[c]
    BY <1>0, <1>1, AppendedShape
  <1>3. /\ n \in Nat
        /\ DOMAIN g.blocks[b].statements = 1..n
        /\ DOMAIN g2.blocks[b].statements = 1..n + 1
        /\ \A k \in 1..n : Statement(g2, b, k) = Statement(g, b, k)
        /\ Statement(g2, b, n + 1) = s
    BY <1>0, <1>1, AppendedShape
  <1> HIDE DEF n
  <1>4. /\ WellMade(g2)
        /\ \A set \in SUBSET Blocks(g) : Closed(g2, set) <=> Closed(g, set)
        /\ \A c \in Blocks(g) : RunsOnce(g2, c) <=> RunsOnce(g, c)
        /\ \A c \in Blocks(g) : c # b => (EscapesAll(g2, c) <=> EscapesAll(g, c))
    <2>1. MayDefine(g, s.definitions)
      BY DEF MayDefine
    <2> QED BY <1>0, <1>1, <2>1, StatementAdded
  <1>5. ASSUME NEW c \in Blocks(g), EscapesAll(g, c) PROVE EscapesAll(g2, c)
    <2>1. CASE c # b
      BY <1>4, <1>5, <2>1
    <2>2. CASE c = b
      <3> SUFFICES ASSUME NEW j \in 1..n + 1, NEW v \in Statement(g2, b, j).definitions
                   PROVE  \E i \in 1..n + 1 : v \in UsedFor(Statement(g2, b, i), "Escape")
        BY <1>3, <2>2 DEF EscapesAll
      <3>1. j # n + 1
        BY <1>3
      <3>2. j \in 1..n
        BY <1>3, <3>1
      <3>3. v \in Statement(g, b, j).definitions
        BY <1>3, <3>2
      <3>4. PICK i \in 1..n : v \in UsedFor(Statement(g, b, i), "Escape")
        BY <1>3, <1>5, <2>2, <3>2, <3>3 DEF EscapesAll
      <3>5. v \in UsedFor(Statement(g2, b, i), "Escape") /\ i \in 1..n + 1
        BY <1>3, <3>4
      <3> QED BY <3>5
    <2> QED BY <2>1, <2>2
  <1>6. \A c \in waiting : g2.blocks[c] = g.blocks[c]
    BY <1>2 DEF PlanGraph
  <1>7. PlanGraph(g2, headers, end, waiting)
    BY <1>2, <1>4, <1>5, <1>6, StillPlanned
  <1> QED BY <1>1, <1>7

(* One that defines something in the block the graph is continued at: it is*)
(* executed once, as long as no loop is open.                              *)
LEMMA DefinitionAdded ==
    ASSUME NEW g, NEW end, NEW waiting, PlanGraph(g, {}, end, waiting), end \notin waiting,
           NEW s \in StatementType, MayDefine(g, s.definitions)
    PROVE  PlanGraph(Appended(g, end, s), {}, end, waiting)
  <1>1. PICK g2 : g2 = Appended(g, end, s)
    OBVIOUS
  <1>2. SoundGraph(g) /\ WellMade(g) /\ g \in GraphType /\ end \in Blocks(g)
    BY DEF PlanGraph, SoundGraph, WellMade
  <1>3. /\ Blocks(g2) = Blocks(g)
        /\ \A c \in Blocks(g) : g2.blocks[c].successors = g.blocks[c].successors
        /\ \A c \in Blocks(g) : c # end => g2.blocks[c] = g.blocks[c]
    BY <1>1, <1>2, AppendedShape
  <1>4. /\ WellMade(g2)
        /\ \A c \in Blocks(g) : RunsOnce(g2, c) <=> RunsOnce(g, c)
        /\ \A c \in Blocks(g) : c # end => (EscapesAll(g2, c) <=> EscapesAll(g, c))
    BY <1>1, <1>2, StatementAdded
  <1>5. RunsOnce(g2, end)
    <2>1. g.blocks[end].successors = {} /\ Closed(g, {})
      BY DEF PlanGraph, Closed
    <2>2. RunsOnce(g, end)
      BY <2>1 DEF RunsOnce
    <2> QED BY <1>2, <1>4, <2>2
  <1>6. \A c \in Blocks(g) : RunsOnce(g2, c) \/ EscapesAll(g2, c)
    BY <1>2, <1>4, <1>5 DEF SoundGraph
  <1>7. PlanGraph(g2, {}, end, waiting)
    BY <1>3, <1>4, <1>6 DEF PlanGraph, SoundGraph, WellMade
  <1> QED BY <1>1, <1>7

(* In a loop what is defined escapes in the next statement.                *)
LEMMA EscapingAdded ==
    ASSUME NEW g, NEW headers, NEW end, NEW waiting, PlanGraph(g, headers, end, waiting),
           end \notin waiting,
           NEW s \in StatementType, MayDefine(g, s.definitions),
           NEW r \in StatementType, r.definitions = {}, s.definitions \subseteq UsedFor(r, "Escape")
    PROVE  PlanGraph(Appended(Appended(g, end, s), end, r), headers, end, waiting)
  <1> DEFINE n == Len(g.blocks[end].statements)
  <1>0. g \in GraphType /\ SoundGraph(g) /\ WellMade(g) /\ end \in Blocks(g)
    BY DEF PlanGraph, SoundGraph, WellMade
  <1>1. PICK g2 : g2 = Appended(g, end, s)
    OBVIOUS
  <1>2. PICK g3 : g3 = Appended(g2, end, r)
    OBVIOUS
  <1>3. /\ g2 \in GraphType /\ Blocks(g2) = Blocks(g)
        /\ \A c \in Blocks(g) : g2.blocks[c].successors = g.blocks[c].successors
        /\ \A c \in Blocks(g) : c # end => g2.blocks[c] = g.blocks[c]
    BY <1>0, <1>1, AppendedShape
  <1>4. /\ n \in Nat
        /\ DOMAIN g.blocks[end].statements = 1..n
        /\ DOMAIN g2.blocks[end].statements = 1..n + 1
        /\ \A k \in 1..n : Statement(g2, end, k) = Statement(g, end, k)
        /\ Statement(g2, end, n + 1) = s
    BY <1>0, <1>1, AppendedShape
  <1> HIDE DEF n
  <1>5. /\ WellMade(g2)
        /\ \A c \in Blocks(g) : c # end => (EscapesAll(g2, c) <=> EscapesAll(g, c))
    BY <1>0, <1>1, StatementAdded
  <1>6. /\ Blocks(g3) = Blocks(g)
        /\ \A c \in Blocks(g) : g3.blocks[c].successors = g.blocks[c].successors
        /\ \A c \in Blocks(g) : c # end => g3.blocks[c] = g.blocks[c]
    BY <1>0, <1>2, <1>3, AppendedShape
  <1>7. Len(g2.blocks[end].statements) = n + 1
    <2>1. /\ Len(g2.blocks[end].statements) \in Nat
          /\ DOMAIN g2.blocks[end].statements = 1..Len(g2.blocks[end].statements)
      BY <1>0, <1>2, <1>3, AppendedShape
    <2> QED BY <1>4, <2>1
  <1>8. /\ DOMAIN g3.blocks[end].statements = 1..n + 2
        /\ \A k \in 1..n + 1 : Statement(g3, end, k) = Statement(g2, end, k)
        /\ Statement(g3, end, n + 2) = r
    <2>1. /\ DOMAIN g3.blocks[end].statements = 1..(n + 1) + 1
          /\ \A k \in 1..n + 1 : Statement(g3, end, k) = Statement(g2, end, k)
          /\ Statement(g3, end, (n + 1) + 1) = r
      BY <1>0, <1>2, <1>3, <1>7, AppendedShape
    <2>2. (n + 1) + 1 = n + 2
      BY <1>4
    <2> QED BY <2>1, <2>2
  <1>9. /\ WellMade(g3)
        /\ \A c \in Blocks(g) : c # end => (EscapesAll(g3, c) <=> EscapesAll(g2, c))
    <2>1. MayDefine(g2, r.definitions)
      BY DEF MayDefine
    <2> QED BY <1>0, <1>2, <1>3, <1>5, <2>1, StatementAdded
  <1>10. ASSUME NEW c \in Blocks(g), EscapesAll(g, c) PROVE EscapesAll(g3, c)
    <2>1. CASE c # end
      BY <1>5, <1>9, <1>10, <2>1
    <2>2. CASE c = end
      <3> SUFFICES ASSUME NEW j \in 1..n + 2, NEW v \in Statement(g3, end, j).definitions
                   PROVE  \E i \in 1..n + 2 : v \in UsedFor(Statement(g3, end, i), "Escape")
        BY <1>8, <2>2 DEF EscapesAll
      <3>1. CASE j = n + 2
        BY <1>8, <3>1
      <3>2. CASE j = n + 1
        <4>1. v \in UsedFor(Statement(g3, end, n + 2), "Escape") /\ n + 1 \in 1..n + 1
          BY <1>4, <1>8, <3>2
        <4> QED BY <1>4, <4>1
      <3>3. CASE j # n + 1 /\ j # n + 2
        <4>1. j \in 1..n /\ j \in 1..n + 1
          BY <1>4, <3>3
        <4>2. v \in Statement(g, end, j).definitions
          BY <1>4, <1>8, <4>1
        <4>3. PICK i \in 1..n : v \in UsedFor(Statement(g, end, i), "Escape")
          BY <1>4, <1>10, <2>2, <4>1, <4>2 DEF EscapesAll
        <4>4. i \in 1..n + 1 /\ i \in 1..n + 2
          BY <1>4
        <4> QED BY <1>4, <1>8, <4>3, <4>4
      <3> QED BY <3>1, <3>2, <3>3
    <2> QED BY <2>1, <2>2
  <1>11. \A c \in waiting : g3.blocks[c] = g.blocks[c]
    BY <1>6 DEF PlanGraph
  <1>12. PlanGraph(g3, headers, end, waiting)
    BY <1>6, <1>9, <1>10, <1>11, StillPlanned
  <1> QED BY <1>1, <1>2, <1>12

(* The elements of a finite set in some order: each once, and no others.   *)
LEMMA Ordered ==
    ASSUME NEW S, IsFiniteSet(S)
    PROVE  LET f == SetToSeq(S)
           IN  /\ f \in Seq(S)
               /\ DOMAIN f = 1..Len(f) /\ Len(f) \in Nat
               /\ {f[i] : i \in DOMAIN f} = S
               /\ f = <<>> => S = {}
  <1> DEFINE n == Cardinality(S)
             f == SetToSeq(S)
  <1>1. n \in Nat /\ ExistsBijection(1..n, S)
    BY FS_CardinalityType
  <1>2. \E h \in [1..n -> S] : IsInjective(h)
    BY <1>1 DEF ExistsBijection, Bijection, Injection
  <1>3. f \in [1..n -> S] /\ IsInjective(f)
    BY <1>2 DEF SetToSeq
  <1> HIDE DEF f
  <1>4. IsFiniteSet(1..n) /\ Cardinality(1..n) = n
    <2> HIDE DEF n
    <2>1. Cardinality(1..n) = IF 1 > n THEN 0 ELSE n - 1 + 1
      BY <1>1, FS_Interval
    <2> QED BY <1>1, <2>1, FS_Interval
  <1>5. f \in Injection(1..n, S)
    BY <1>3 DEF Injection
  <1>6. f \in Surjection(1..n, S)
    BY <1>4, <1>5, FS_Injection
  <1> HIDE DEF n
  <1>7. {f[i] : i \in DOMAIN f} = S
    BY <1>3, <1>6 DEF Surjection
  <1>8. f \in Seq(S)
    BY <1>1, <1>3
  <1>9. DOMAIN f = 1..Len(f) /\ Len(f) \in Nat
    BY <1>8, LenProperties
  <1>10. f = <<>> => S = {}
    BY <1>7
  <1> QED BY <1>7, <1>8, <1>9, <1>10 DEF f

(* Of finitely many values all escape.                                     *)
LEMMA AllEscape ==
    ASSUME NEW S \in SUBSET Nat, IsFiniteSet(S)
    PROVE  /\ EscapesOf(S) \in Seq(UseType)
           /\ \A s : s.uses = EscapesOf(S) => UsedFor(s, "Escape") = S
  <1> DEFINE f == SetToSeq(S)
  <1>1. f \in Seq(S) /\ DOMAIN f = 1..Len(f) /\ Len(f) \in Nat /\ {f[i] : i \in DOMAIN f} = S
    BY Ordered
  <1>2. EscapesOf(S) = [i \in DOMAIN f |-> Use(f[i], "Escape")]
    BY DEF EscapesOf
  <1> HIDE DEF f
  <1>3. \A i \in DOMAIN f : f[i] \in Nat
    BY <1>1
  <1>4. EscapesOf(S) \in [1..Len(f) -> UseType]
    BY <1>1, <1>2, <1>3 DEF Use, UseType, Effects
  <1>5. EscapesOf(S) \in Seq(UseType)
    BY <1>1, <1>4
  <1>6. ASSUME NEW s, s.uses = EscapesOf(S) PROVE UsedFor(s, "Escape") = S
    <2>1. DOMAIN s.uses = DOMAIN f
      BY <1>2, <1>6
    <2>2. \A i \in DOMAIN f : s.uses[i].effect = "Escape" /\ s.uses[i].value = f[i]
      BY <1>2, <1>6 DEF Use
    <2>3. UsedFor(s, "Escape") = {f[i] : i \in DOMAIN f}
      BY <2>1, <2>2 DEF UsedFor
    <2> QED BY <1>1, <2>3
  <1> QED BY <1>5, <1>6

(* What the planner adds of a statement keeps the plan.                    *)
LEMMA StatementRecorded ==
    ASSUME NEW g, NEW headers, NEW end, NEW waiting, PlanGraph(g, headers, end, waiting),
           end \notin waiting,
           NEW s \in StatementType, MayDefine(g, s.definitions), IsFiniteSet(s.definitions),
           NEW inLoop, inLoop \/ headers = {}
    PROVE  PlanGraph(Recorded(g, end, s, inLoop), headers, end, waiting)
  <1>1. CASE inLoop /\ s.definitions # {}
    <2> DEFINE r == [s EXCEPT !.definitions = {}, !.uses = EscapesOf(s.definitions)]
    <2>1. s.definitions \in SUBSET Nat
      BY DEF StatementType
    <2>2. EscapesOf(s.definitions) \in Seq(UseType)
      BY <2>1, AllEscape
    <2>3. /\ r \in StatementType /\ r.definitions = {} /\ r.uses = EscapesOf(s.definitions)
      BY <2>2 DEF StatementType
    <2> HIDE DEF r
    <2>4. s.definitions \subseteq UsedFor(r, "Escape")
      BY <2>1, <2>3, AllEscape
    <2>5. PlanGraph(Appended(Appended(g, end, s), end, r), headers, end, waiting)
      BY <2>3, <2>4, EscapingAdded
    <2> QED BY <1>1, <2>5 DEF Recorded, r
  <1>2. CASE ~inLoop /\ s.definitions # {}
    <2>1. PlanGraph(Appended(g, end, s), {}, end, waiting)
      BY <1>2, DefinitionAdded
    <2>2. Recorded(g, end, s, inLoop) = Appended(g, end, s)
      BY <1>2 DEF Recorded
    <2> QED BY <1>2, <2>1, <2>2
  <1>3. CASE s.definitions = {}
    <2>1. end \in Blocks(g)
      BY DEF PlanGraph
    <2>2. PlanGraph(Appended(g, end, s), headers, end, waiting)
      BY <1>3, <2>1, UseAdded
    <2> QED BY <1>3, <2>2 DEF Recorded
  <1> QED BY <1>1, <1>2, <1>3

-----------------------------------------------------------------------------
(* The plan goes on at a block that has waited for it.                     *)
LEMMA GoesOn ==
    ASSUME NEW g, NEW headers, NEW end, NEW waiting, PlanGraph(g, headers, end, waiting),
           NEW headers2 \in SUBSET headers, NEW waiting2 \in SUBSET waiting,
           NEW next \in waiting \cup {end}
    PROVE  PlanGraph(g, headers2, next, waiting2)
  BY DEF PlanGraph, EmptyBlock

(* Edges change nothing but where a block leads.                           *)
LEMMA LinkedShape ==
    ASSUME NEW g \in GraphType, NEW b \in Blocks(g), NEW to \in SUBSET Nat
    PROVE  LET g2 == Linked(g, b, to)
           IN  /\ g2 \in GraphType
               /\ g2.table = g.table /\ g2.parameters = g.parameters
               /\ Blocks(g2) = Blocks(g) /\ Values(g2) = Values(g)
               /\ Len(g2.blocks) = Len(g.blocks)
               /\ \A c \in Blocks(g) : g2.blocks[c].statements = g.blocks[c].statements
               /\ \A c \in Blocks(g) : c # b => g2.blocks[c] = g.blocks[c]
               /\ g2.blocks[b].successors = g.blocks[b].successors \cup to
  <1> DEFINE g2 == Linked(g, b, to)
             block2 == [g.blocks[b] EXCEPT !.successors = @ \cup to]
             blocks2 == [g.blocks EXCEPT ![b] = block2]
  <1>1. g.blocks[b] \in BlockType /\ Len(g.blocks) \in Nat /\ Blocks(g) = 1..Len(g.blocks)
    BY GraphShape
  <1>2. g.blocks \in Seq(BlockType)
    BY DEF GraphType
  <1>3. /\ block2 \in BlockType
        /\ block2.successors = g.blocks[b].successors \cup to
        /\ block2.statements = g.blocks[b].statements
    BY <1>1 DEF BlockType
  <1>4. /\ blocks2 \in Seq(BlockType) /\ Len(blocks2) = Len(g.blocks)
        /\ \A c \in 1..Len(g.blocks) : blocks2[c] = IF c = b THEN block2 ELSE g.blocks[c]
    <2> HIDE DEF block2
    <2> QED BY <1>1, <1>2, <1>3, ExceptSeq
  <1>5. g2 = [g EXCEPT !.blocks = blocks2]
    BY DEF Linked
  <1>6. /\ g2 \in GraphType /\ g2.blocks = blocks2
        /\ g2.table = g.table /\ g2.parameters = g.parameters
    <2> HIDE DEF blocks2, g2
    <2> QED BY <1>4, <1>5 DEF GraphType
  <1> HIDE DEF blocks2, g2, block2
  <1>7. Blocks(g2) = Blocks(g) /\ Values(g2) = Values(g) /\ Len(g2.blocks) = Len(g.blocks)
    BY <1>1, <1>4, <1>6, GraphShape DEF Values
  <1>8. /\ \A c \in Blocks(g) : g2.blocks[c].statements = g.blocks[c].statements
        /\ \A c \in Blocks(g) : c # b => g2.blocks[c] = g.blocks[c]
        /\ g2.blocks[b].successors = g.blocks[b].successors \cup to
    BY <1>1, <1>3, <1>4, <1>6
  <1> QED BY <1>6, <1>7, <1>8 DEF g2

(* Definitions are sound or not, and escape or not, whatever the edges   *)
(* are.                                                                  *)
LEMMA SameStatements ==
    ASSUME NEW g, NEW g2, Blocks(g2) = Blocks(g), Values(g2) = Values(g), g2.table = g.table,
           \A c \in Blocks(g) : g2.blocks[c].statements = g.blocks[c].statements
    PROVE  /\ SoundDefinitions(g) => SoundDefinitions(g2)
           /\ \A c \in Blocks(g) : EscapesAll(g2, c) <=> EscapesAll(g, c)
  <1>1. \A c \in Blocks(g) : \A k : Statement(g2, c, k) = Statement(g, c, k)
    BY DEF Statement
  <1>2. \A c \in Blocks(g) : EscapesAll(g2, c) <=> EscapesAll(g, c)
    BY <1>1 DEF EscapesAll
  <1>3. ASSUME SoundDefinitions(g), NEW at \in Sites(g2),
               NEW v \in Statement(g2, at[1], at[2]).definitions
        PROVE  /\ v \in Values(g2)
               /\ g2.table[v].sources \cap Statement(g2, at[1], at[2]).definitions = {}
    <2>1. at = <<at[1], at[2]>> /\ at[1] \in Blocks(g) /\ at[2] \in DOMAIN g2.blocks[at[1]].statements
      BY SitesArePairs
    <2>2. at \in Sites(g) /\ Statement(g2, at[1], at[2]) = Statement(g, at[1], at[2])
      BY <1>1, <2>1, SitesAreSites
    <2> QED BY <1>3, <2>2 DEF SoundDefinitions
  <1> QED BY <1>2, <1>3 DEF SoundDefinitions

(* A block may lead into a set of blocks that is not left and in which all *)
(* escapes: to blocks that wait, or back to the header of a loop.          *)
LEMMA EdgeAdded ==
    ASSUME NEW g, NEW headers, NEW end, NEW waiting, PlanGraph(g, headers, end, waiting),
           NEW b \in Blocks(g), NEW X \in SUBSET Blocks(g), NEW to \in SUBSET X,
           Closed(g, X), \A c \in X : EscapesAll(g, c),
           NEW waiting2 \in SUBSET waiting, b \notin waiting2,
           NEW next \in waiting, next # b
    PROVE  PlanGraph(Linked(g, b, to), headers, next, waiting2)
  <1>0. SoundGraph(g) /\ g \in GraphType /\ Blocks(g) \subseteq Nat
    BY GraphShape DEF PlanGraph, SoundGraph
  <1>1. PICK g2 : g2 = Linked(g, b, to)
    OBVIOUS
  <1>2. /\ g2 \in GraphType
        /\ g2.table = g.table /\ g2.parameters = g.parameters
        /\ Blocks(g2) = Blocks(g) /\ Values(g2) = Values(g)
        /\ \A c \in Blocks(g) : g2.blocks[c].statements = g.blocks[c].statements
        /\ \A c \in Blocks(g) : c # b => g2.blocks[c] = g.blocks[c]
        /\ g2.blocks[b].successors = g.blocks[b].successors \cup to
    <2>1. to \in SUBSET Nat
      BY <1>0
    <2> QED BY <1>0, <1>1, <2>1, LinkedShape
  <1>3. /\ SoundDefinitions(g2)
        /\ \A c \in Blocks(g) : EscapesAll(g2, c) <=> EscapesAll(g, c)
    BY <1>0, <1>2, SameStatements DEF SoundGraph
  <1>4. HasItsBlocks(g2) /\ SoundTable(g2)
    <2>1. SoundTable(g2)
      BY <1>0, <1>2, SameTable DEF SoundGraph
    <2>2. Entry \in Blocks(g2)
      BY <1>0, <1>2 DEF SoundGraph, HasItsBlocks
    <2>3. ASSUME NEW c \in Blocks(g2) PROVE g2.blocks[c].successors \subseteq Blocks(g2)
      <3>1. g.blocks[c].successors \subseteq Blocks(g)
        BY <1>0, <1>2 DEF SoundGraph, HasItsBlocks
      <3> QED BY <1>2, <3>1
    <2> QED BY <2>1, <2>2, <2>3 DEF HasItsBlocks
  <1>5. ASSUME NEW set \in SUBSET Blocks(g), Closed(g, set) PROVE Closed(g2, set \cup X)
    <2> SUFFICES ASSUME NEW c \in set \cup X PROVE g2.blocks[c].successors \subseteq set \cup X
      BY DEF Closed
    <2>1. g.blocks[c].successors \subseteq set \cup X
      BY <1>5 DEF Closed
    <2>2. c \in Blocks(g)
      OBVIOUS
    <2> QED BY <1>2, <2>1, <2>2
  <1>6. ASSUME NEW c \in Blocks(g), ~EscapesAll(g2, c) PROVE RunsOnce(g2, c)
    <2>1. c \notin X /\ RunsOnce(g, c)
      BY <1>0, <1>3, <1>6 DEF SoundGraph
    <2>2. PICK set \in SUBSET Blocks(g) :
              Closed(g, set) /\ g.blocks[c].successors \subseteq set /\ c \notin set
      BY <2>1 DEF RunsOnce
    <2>3. Closed(g2, set \cup X) /\ c \notin set \cup X
      BY <1>5, <2>1, <2>2
    <2>4. g2.blocks[c].successors \subseteq set \cup X
      BY <1>2, <2>2
    <2>5. set \cup X \in SUBSET Blocks(g2)
      BY <1>2
    <2> QED BY <2>3, <2>4, <2>5 DEF RunsOnce
  <1>7. SoundGraph(g2)
    BY <1>2, <1>3, <1>4, <1>6 DEF SoundGraph
  <1>8. ASSUME NEW x \in headers PROVE LoopEscapes(g2, x)
    <2>1. PICK set \in SUBSET Blocks(g) :
              Closed(g, set) /\ x \in set /\ \A c \in set : EscapesAll(g, c)
      BY DEF PlanGraph, LoopEscapes
    <2>2. Closed(g2, set \cup X) /\ x \in set \cup X /\ \A c \in set \cup X : EscapesAll(g2, c)
      BY <1>3, <1>5, <2>1
    <2>3. set \cup X \in SUBSET Blocks(g2)
      BY <1>2
    <2> QED BY <2>2, <2>3 DEF LoopEscapes
  <1>9. /\ next \in Blocks(g2) /\ g2.blocks[next].successors = {}
        /\ \A c \in waiting2 : c \in Blocks(g2) /\ g2.blocks[c] = EmptyBlock
    <2>1. next \in Blocks(g) /\ g.blocks[next] = EmptyBlock
      BY DEF PlanGraph
    <2>2. \A c \in waiting2 : c \in Blocks(g) /\ g.blocks[c] = EmptyBlock /\ c # b
      BY DEF PlanGraph
    <2> QED BY <1>2, <2>1, <2>2 DEF EmptyBlock
  <1>10. PlanGraph(g2, headers, next, waiting2)
    BY <1>7, <1>8, <1>9 DEF PlanGraph
  <1> QED BY <1>1, <1>10

(* Nothing is defined in a block that waits, and it leads nowhere.         *)
LEMMA WaitingBlocks ==
    ASSUME NEW g, NEW headers, NEW end, NEW waiting, PlanGraph(g, headers, end, waiting),
           NEW X \in SUBSET waiting
    PROVE  X \in SUBSET Blocks(g) /\ Closed(g, X) /\ \A c \in X : EscapesAll(g, c)
  <1>1. \A c \in X : c \in Blocks(g) /\ g.blocks[c].statements = <<>> /\ g.blocks[c].successors = {}
    BY DEF PlanGraph, EmptyBlock
  <1>2. DOMAIN <<>> = {}
    OBVIOUS
  <1>3. \A c \in X : EscapesAll(g, c)
    BY <1>1, <1>2 DEF EscapesAll
  <1> QED BY <1>1, <1>3 DEF Closed

(* So a block may lead to blocks that wait.                              *)
LEMMA EdgeToWaiting ==
    ASSUME NEW g, NEW headers, NEW end, NEW waiting, PlanGraph(g, headers, end, waiting),
           NEW b \in Blocks(g), NEW to \in SUBSET waiting,
           NEW waiting2 \in SUBSET waiting, b \notin waiting2,
           NEW next \in waiting, next # b
    PROVE  PlanGraph(Linked(g, b, to), headers, next, waiting2)
  <1>1. to \in SUBSET Blocks(g) /\ Closed(g, to) /\ \A c \in to : EscapesAll(g, c)
    BY WaitingBlocks
  <1> QED BY <1>1, EdgeAdded

-----------------------------------------------------------------------------
(* Blocks added to a graph wait.                                           *)
Grown(g) == [g EXCEPT !.blocks = @ \o <<EmptyBlock, EmptyBlock, EmptyBlock>>]

(* Three blocks more, and nothing else.                                  *)
LEMMA GrownShape ==
    ASSUME NEW g \in GraphType
    PROVE  LET g2 == Grown(g)
               n == Len(g.blocks)
           IN  /\ g2 \in GraphType /\ g2.table = g.table /\ g2.parameters = g.parameters
               /\ n \in Nat /\ Blocks(g) = 1..n /\ Blocks(g2) = 1..n + 3 /\ Values(g2) = Values(g)
               /\ \A c \in Blocks(g) : g2.blocks[c] = g.blocks[c]
               /\ \A c \in {n + 1, n + 2, n + 3} : g2.blocks[c] = EmptyBlock
  <1> DEFINE g2 == Grown(g)
             n == Len(g.blocks)
             three == <<EmptyBlock, EmptyBlock, EmptyBlock>>
             joined == g.blocks \o three
  <1>1. EmptyBlock \in BlockType
    <2>1. <<>> \in Seq(StatementType)
      BY EmptySeq
    <2> QED BY <2>1 DEF EmptyBlock, BlockType
  <1>2. /\ three \in Seq(BlockType) /\ Len(three) = 3
        /\ three[1] = EmptyBlock /\ three[2] = EmptyBlock /\ three[3] = EmptyBlock
    <2> HIDE DEF EmptyBlock
    <2> QED BY <1>1 DEF three
  <1>3. g.blocks \in Seq(BlockType) /\ n \in Nat /\ Blocks(g) = 1..n
    BY GraphShape DEF GraphType
  <1> HIDE DEF three
  <1>4. /\ joined \in Seq(BlockType)
        /\ Len(joined) = n + 3
        /\ \A i \in 1..n + 3 : joined[i] = IF i <= n THEN g.blocks[i] ELSE three[i - n]
    <2>1. /\ g.blocks \o three \in Seq(BlockType)
          /\ Len(g.blocks \o three) = Len(g.blocks) + Len(three)
          /\ \A i \in 1..Len(g.blocks) + Len(three) : (g.blocks \o three)[i] =
                 IF i <= Len(g.blocks) THEN g.blocks[i] ELSE three[i - Len(g.blocks)]
      <3> HIDE DEF g2
      <3> QED BY <1>2, <1>3, ConcatProperties
    <2> QED BY <1>2, <2>1
  <1>5. g2 = [g EXCEPT !.blocks = joined]
    BY DEF Grown, three
  <1> HIDE DEF joined
  <1>6. /\ g2 \in GraphType /\ g2.blocks = joined
        /\ g2.table = g.table /\ g2.parameters = g.parameters
    <2> HIDE DEF g2
    <2> QED BY <1>4, <1>5 DEF GraphType
  <1> HIDE DEF g2, n
  <1>7. Blocks(g2) = 1..n + 3 /\ Values(g2) = Values(g)
    <2>1. Blocks(g2) = 1..Len(g2.blocks)
      BY <1>6, GraphShape
    <2> QED BY <1>4, <1>6, <2>1 DEF Values
  <1>8. \A c \in Blocks(g) : g2.blocks[c] = g.blocks[c]
    BY <1>3, <1>4, <1>6
  <1>9. \A c \in {n + 1, n + 2, n + 3} : g2.blocks[c] = EmptyBlock
    <2>1. /\ n + 1 \in 1..n + 3 /\ n + 1 - n = 1 /\ ~(n + 1 <= n)
          /\ n + 2 \in 1..n + 3 /\ n + 2 - n = 2 /\ ~(n + 2 <= n)
          /\ n + 3 \in 1..n + 3 /\ n + 3 - n = 3 /\ ~(n + 3 <= n)
      BY <1>3
    <2>2. g2.blocks[n + 1] = EmptyBlock
      <3>1. joined[n + 1] = three[n + 1 - n]
        BY <1>3, <1>4, <2>1
      <3> QED BY <1>2, <1>3, <1>6, <2>1, <3>1
    <2>3. g2.blocks[n + 2] = EmptyBlock
      <3>1. joined[n + 2] = three[n + 2 - n]
        BY <1>3, <1>4, <2>1
      <3> QED BY <1>2, <1>3, <1>6, <2>1, <3>1
    <2>4. g2.blocks[n + 3] = EmptyBlock
      <3>1. joined[n + 3] = three[n + 3 - n]
        BY <1>3, <1>4, <2>1
      <3> QED BY <1>2, <1>3, <1>6, <2>1, <3>1
    <2> QED BY <2>2, <2>3, <2>4
  <1> QED BY <1>3, <1>6, <1>7, <1>8, <1>9 DEF g2, n

(* They wait, and the plan is still one.                                 *)
LEMMA BlocksAdded ==
    ASSUME NEW g, NEW headers, NEW end, NEW waiting, PlanGraph(g, headers, end, waiting),
           NEW n, n = Len(g.blocks)
    PROVE  PlanGraph(Grown(g), headers, end, waiting \cup {n + 1, n + 2, n + 3})
  <1>0. SoundGraph(g) /\ g \in GraphType
    BY DEF PlanGraph, SoundGraph
  <1>1. PICK g2 : g2 = Grown(g)
    OBVIOUS
  <1>2. /\ g2 \in GraphType /\ g2.table = g.table /\ g2.parameters = g.parameters
        /\ n \in Nat /\ Blocks(g) = 1..n /\ Blocks(g2) = 1..n + 3 /\ Values(g2) = Values(g)
        /\ \A c \in Blocks(g) : g2.blocks[c] = g.blocks[c]
        /\ \A c \in {n + 1, n + 2, n + 3} : g2.blocks[c] = EmptyBlock
    BY <1>0, <1>1, GrownShape
  <1>3. Blocks(g) \subseteq Blocks(g2)
    BY <1>2
  <1>4. \A c \in Blocks(g2) \ Blocks(g) : g2.blocks[c] = EmptyBlock
    <2>1. \A c \in Blocks(g2) \ Blocks(g) : c \in {n + 1, n + 2, n + 3}
      BY <1>2
    <2> QED BY <1>2, <2>1
  <1>5. DOMAIN <<>> = {}
    OBVIOUS
  <1>6. \A c \in Blocks(g2) \ Blocks(g) : g2.blocks[c].successors = {} /\ DOMAIN g2.blocks[c].statements = {}
    BY <1>4, <1>5 DEF EmptyBlock
  <1>7. ASSUME NEW set \in SUBSET Blocks(g), Closed(g, set) PROVE Closed(g2, set) /\ set \in SUBSET Blocks(g2)
    BY <1>2, <1>3, <1>7 DEF Closed
  <1>8. HasItsBlocks(g2)
    <2>1. Entry \in Blocks(g2) /\ \A c \in Blocks(g) : g2.blocks[c].successors \subseteq Blocks(g2)
      BY <1>0, <1>2, <1>3 DEF SoundGraph, HasItsBlocks
    <2> QED BY <1>6, <2>1 DEF HasItsBlocks
  <1>9. SoundTable(g2)
    BY <1>0, <1>2, SameTable DEF SoundGraph
  <1>10. SoundDefinitions(g2)
    <2> SUFFICES ASSUME NEW at \in Sites(g2), NEW v \in Statement(g2, at[1], at[2]).definitions
                 PROVE  /\ v \in Values(g2)
                        /\ g2.table[v].sources \cap Statement(g2, at[1], at[2]).definitions = {}
      BY DEF SoundDefinitions
    <2>1. at = <<at[1], at[2]>> /\ at[1] \in Blocks(g2) /\ at[2] \in DOMAIN g2.blocks[at[1]].statements
      BY SitesArePairs
    <2>2. at[1] \in Blocks(g)
      BY <1>6, <2>1
    <2>3. at \in Sites(g) /\ Statement(g2, at[1], at[2]) = Statement(g, at[1], at[2])
      BY <1>2, <2>1, <2>2, SitesAreSites DEF Statement
    <2> QED BY <1>0, <1>2, <2>3 DEF SoundGraph, SoundDefinitions
  <1>11. \A c \in Blocks(g) : EscapesAll(g, c) => EscapesAll(g2, c)
    BY <1>2 DEF EscapesAll, Statement
  <1>12. ASSUME NEW c \in Blocks(g2) PROVE RunsOnce(g2, c) \/ EscapesAll(g2, c)
    <2>1. CASE c \notin Blocks(g)
      BY <1>6, <2>1 DEF EscapesAll
    <2>2. CASE c \in Blocks(g) /\ EscapesAll(g, c)
      BY <1>11, <2>2
    <2>3. CASE c \in Blocks(g) /\ RunsOnce(g, c)
      <3>1. PICK set \in SUBSET Blocks(g) :
                Closed(g, set) /\ g.blocks[c].successors \subseteq set /\ c \notin set
        BY <2>3 DEF RunsOnce
      <3>2. Closed(g2, set) /\ set \in SUBSET Blocks(g2) /\ g2.blocks[c].successors \subseteq set
        BY <1>2, <1>7, <2>3, <3>1
      <3> QED BY <3>1, <3>2 DEF RunsOnce
    <2> QED BY <1>0, <2>1, <2>2, <2>3 DEF SoundGraph
  <1>13. SoundGraph(g2)
    BY <1>2, <1>8, <1>9, <1>10, <1>12 DEF SoundGraph
  <1>14. ASSUME NEW x \in headers PROVE LoopEscapes(g2, x)
    <2>1. PICK set \in SUBSET Blocks(g) :
              Closed(g, set) /\ x \in set /\ \A c \in set : EscapesAll(g, c)
      BY DEF PlanGraph, LoopEscapes
    <2>2. Closed(g2, set) /\ set \in SUBSET Blocks(g2) /\ \A c \in set : EscapesAll(g2, c)
      BY <1>7, <1>11, <2>1
    <2> QED BY <2>1, <2>2 DEF LoopEscapes
  <1>15. end \in Blocks(g2) /\ g2.blocks[end].successors = {}
    BY <1>2, <1>3 DEF PlanGraph
  <1>16. \A b \in waiting \cup {n + 1, n + 2, n + 3} : b \in Blocks(g2) /\ g2.blocks[b] = EmptyBlock
    <2>1. \A b \in waiting : b \in Blocks(g2) /\ g2.blocks[b] = EmptyBlock
      BY <1>2, <1>3 DEF PlanGraph
    <2>2. {n + 1, n + 2, n + 3} \subseteq Blocks(g2)
      BY <1>2
    <2> QED BY <1>2, <2>1, <2>2
  <1>17. PlanGraph(g2, headers, end, waiting \cup {n + 1, n + 2, n + 3})
    BY <1>13, <1>14, <1>15, <1>16 DEF PlanGraph
  <1> QED BY <1>1, <1>17

(* A table may get further values: some in places of their own, others in  *)
(* those of values that are there.                                         *)
Extends(t, g) ==
    /\ t \in Seq(EntryType) /\ Len(t) >= Len(g.table)
    /\ \A v \in Values(g) : t[v] = g.table[v]
    /\ \A v \in (Len(g.table) + 1)..Len(t) :
          \/ t[v].sources = {} /\ t[v].atoms = {v}
          \/ \E u \in Values(g) : t[v].sources = {u} /\ t[v].atoms = g.table[u].atoms

(* A graph with another table.                                           *)
HasTable(g2, g, t) == g2 = [g EXCEPT !.table = t]

(* It is a plan as well.                                                 *)
LEMMA ValuesAdded ==
    ASSUME NEW g, NEW headers, NEW end, NEW waiting, PlanGraph(g, headers, end, waiting),
           NEW t, Extends(t, g), NEW g2, HasTable(g2, g, t)
    PROVE  PlanGraph(g2, headers, end, waiting) /\ g2.table = t /\ g2.blocks = g.blocks
  <1>0. SoundGraph(g) /\ g \in GraphType
    BY DEF PlanGraph, SoundGraph
  <1>1. /\ g2 \in GraphType /\ g2.table = t /\ g2.parameters = g.parameters /\ g2.blocks = g.blocks
    BY <1>0 DEF GraphType, Extends, HasTable
  <1>2. /\ Len(g.table) \in Nat /\ Len(t) \in Nat /\ Len(t) >= Len(g.table)
        /\ Values(g) = 1..Len(g.table) /\ Values(g2) = 1..Len(t) /\ Blocks(g2) = Blocks(g)
    <2>1. Blocks(g2) = Blocks(g)
      BY <1>1 DEF Blocks
    <2> QED BY <1>0, <1>1, <2>1, GraphShape DEF Extends
  <1>3. Values(g) \subseteq Values(g2)
    BY <1>2
  <1>4. \A v \in Values(g) : g2.table[v] = g.table[v]
    BY <1>1 DEF Extends
  <1>5. \A v \in Values(g2) \ Values(g) :
          \/ IsRoot(g2, v)
          \/ \E u \in Values(g) : g2.table[v].sources = {u} /\ g2.table[v].atoms = g.table[u].atoms
    <2>1. \A v \in Values(g2) \ Values(g) : v \in (Len(g.table) + 1)..Len(t)
      BY <1>2
    <2> QED BY <1>1, <2>1 DEF Extends, IsRoot
  <1>6. \A v \in Values(g) : IsRoot(g, v) => IsRoot(g2, v)
    BY <1>4 DEF IsRoot
  <1>7. ASSUME NEW v \in Values(g2)
        PROVE  /\ IsRoot(g2, v) \/ IsAlias(g2, v)
               /\ \E r \in Values(g2) : IsRoot(g2, r) /\ g2.table[v].atoms = {r}
    <2>1. ASSUME NEW u \in Values(g)
          PROVE  /\ IsRoot(g2, u) \/ IsAlias(g2, u)
                 /\ \E r \in Values(g2) : IsRoot(g2, r) /\ g2.table[u].atoms = {r}
      <3>1. IsRoot(g, u) \/ IsAlias(g, u)
        BY <1>0 DEF SoundGraph, SoundTable
      <3>2. PICK r \in Values(g) : IsRoot(g, r) /\ g.table[u].atoms = {r}
        BY <1>0 DEF SoundGraph, SoundTable
      <3>3. IsAlias(g, u) => IsAlias(g2, u)
        BY <1>3, <1>4 DEF IsAlias
      <3> QED BY <1>3, <1>4, <1>6, <3>1, <3>2, <3>3
    <2>2. CASE v \in Values(g)
      BY <2>1, <2>2
    <2>3. CASE IsRoot(g2, v)
      BY <2>3 DEF IsRoot
    <2>4. CASE \E u \in Values(g) : g2.table[v].sources = {u} /\ g2.table[v].atoms = g.table[u].atoms
      <3>1. PICK u \in Values(g) : g2.table[v].sources = {u} /\ g2.table[v].atoms = g.table[u].atoms
        BY <2>4
      <3>2. u \in Values(g2) /\ g2.table[v].atoms = g2.table[u].atoms
        BY <1>3, <1>4, <3>1
      <3>3. IsAlias(g2, v)
        BY <3>1, <3>2 DEF IsAlias
      <3> QED BY <2>1, <3>2, <3>3
    <2> QED BY <1>5, <2>2, <2>3, <2>4
  <1>8. g2.parameters \subseteq {v \in Values(g2) : IsRoot(g2, v)}
    BY <1>0, <1>1, <1>3, <1>6 DEF SoundGraph, SoundTable
  <1>9. SoundTable(g2)
    BY <1>7, <1>8 DEF SoundTable
  <1>10. Sites(g2) = Sites(g) /\ \A b, k : Statement(g2, b, k) = Statement(g, b, k)
    BY <1>1 DEF Sites, Blocks, Statement
  <1>11. SoundDefinitions(g2)
    BY <1>0, <1>3, <1>4, <1>10 DEF SoundGraph, SoundDefinitions
  <1>12. WellMade(g2)
    <2>1. HasItsBlocks(g2)
      BY <1>0, <1>1 DEF SoundGraph, HasItsBlocks, Blocks
    <2> QED BY <1>1, <1>9, <1>11, <2>1 DEF WellMade
  <1>13. \A c \in Blocks(g) : EscapesAll(g, c) => EscapesAll(g2, c)
    BY <1>1, <1>10 DEF EscapesAll
  <1>14. PlanGraph(g2, headers, end, waiting)
    BY <1>1, <1>2, <1>12, <1>13, StillPlanned
  <1> QED BY <1>1, <1>14

(* A loop begins: its header leads to its body and to what follows it.     *)
LEMMA LoopBegun ==
    ASSUME NEW g, NEW headers, NEW h, NEW waiting, PlanGraph(g, headers, h, waiting),
           NEW x \in waiting, NEW e \in waiting, h \in waiting, x # h, e # h,
           NEW waiting2 \in SUBSET waiting, h \notin waiting2
    PROVE  PlanGraph(Linked(g, h, {x, e}), headers \cup {h}, x, waiting2)
  <1>0. SoundGraph(g) /\ g \in GraphType /\ Blocks(g) \subseteq Nat
    BY GraphShape DEF PlanGraph, SoundGraph
  <1>1. PICK g2 : g2 = Linked(g, h, {x, e})
    OBVIOUS
  <1>2. {h, x, e} \subseteq Blocks(g)
    BY DEF PlanGraph
  <1>3. PlanGraph(g2, headers, x, waiting2)
    BY <1>1, <1>2, EdgeToWaiting
  <1>4. /\ Blocks(g2) = Blocks(g)
        /\ \A c \in Blocks(g) : g2.blocks[c].statements = g.blocks[c].statements
        /\ \A c \in Blocks(g) : c # h => g2.blocks[c] = g.blocks[c]
        /\ g2.blocks[h].successors = g.blocks[h].successors \cup {x, e}
    <2>1. {x, e} \in SUBSET Nat /\ h \in Blocks(g)
      BY <1>0, <1>2
    <2>2. PICK to : to = {x, e}
      OBVIOUS
    <2>3. /\ Blocks(g2) = Blocks(g)
          /\ \A c \in Blocks(g) : g2.blocks[c].statements = g.blocks[c].statements
          /\ \A c \in Blocks(g) : c # h => g2.blocks[c] = g.blocks[c]
          /\ g2.blocks[h].successors = g.blocks[h].successors \cup to
      BY <1>0, <1>1, <2>1, <2>2, LinkedShape
    <2> QED BY <2>2, <2>3
  <1>5. \A c \in {h, x, e} : g.blocks[c] = EmptyBlock
    BY DEF PlanGraph
  <1>6. \A c \in {h, x, e} : g2.blocks[c].statements = <<>>
    BY <1>2, <1>4, <1>5 DEF EmptyBlock
  <1>7. \A c \in {h, x, e} : EscapesAll(g2, c)
    <2>1. DOMAIN <<>> = {}
      OBVIOUS
    <2> QED BY <1>6, <2>1 DEF EscapesAll
  <1>8. Closed(g2, {h, x, e})
    <2>1. g2.blocks[h].successors = {x, e}
      BY <1>4, <1>5 DEF EmptyBlock
    <2>2. g2.blocks[x].successors = {} /\ g2.blocks[e].successors = {}
      BY <1>2, <1>4, <1>5 DEF EmptyBlock
    <2> QED BY <2>1, <2>2 DEF Closed
  <1>9. LoopEscapes(g2, h)
    <2>1. {h, x, e} \in SUBSET Blocks(g2)
      BY <1>2, <1>4
    <2> QED BY <1>7, <1>8, <2>1 DEF LoopEscapes
  <1>10. PlanGraph(g2, headers \cup {h}, x, waiting2)
    BY <1>3, <1>9 DEF PlanGraph
  <1> QED BY <1>1, <1>10

(* It ends: its body leads back to the header.                             *)
LEMMA LoopEnded ==
    ASSUME NEW g, NEW headers, NEW end, NEW waiting, PlanGraph(g, headers, end, waiting),
           NEW b \in Blocks(g), NEW x \in headers,
           NEW waiting2 \in SUBSET waiting, b \notin waiting2,
           NEW next \in waiting, next # b
    PROVE  PlanGraph(Linked(g, b, {x}), headers, next, waiting2)
  <1>1. PICK set \in SUBSET Blocks(g) :
            Closed(g, set) /\ x \in set /\ \A c \in set : EscapesAll(g, c)
    BY DEF PlanGraph, LoopEscapes
  <1>2. {x} \in SUBSET set
    BY <1>1
  <1> QED BY <1>1, <1>2, EdgeAdded
-----------------------------------------------------------------------------
(* The scopes: in each the value of each of its names.                     *)
ScopeType == UNION {[names -> Nat] : names \in SUBSET Names}
(* The values the scopes name are in the table.                          *)
Known(g, list) ==
    /\ list \in Seq(ScopeType)
    /\ \A i \in DOMAIN list : \A x \in DOMAIN list[i] : list[i][x] \in Values(g)

(* The names a list of scopes has are those of another, as far as it goes. *)
SameNames(list, other) == \A i \in 1..Len(list) : DOMAIN list[i] = DOMAIN other[i]
(* The same scopes with the same names, whatever their values.           *)
SameShape(list, other) == Len(list) = Len(other) /\ SameNames(list, other)

(* The nodes being visited.                                                *)
BlockFrame == [kind : {"block"}, id : Nat]
IfFrame == [kind : {"if"}, id : Nat, before : Seq(ScopeType), else : Nat, join : Nat]
ElseFrame == [kind : {"else"}, id : Nat, before : Seq(ScopeType), join : Nat,
              thenEnd : Nat, thenReaches : BOOLEAN, then : Seq(ScopeType)]
ForFrame == [kind : {"for"}, id : Nat, before : Seq(ScopeType), header : Nat, exit : Nat]
FrameType == BlockFrame \cup IfFrame \cup ElseFrame \cup ForFrame

(* What a node being visited is made of.                                 *)
LEMMA FrameFacts ==
    ASSUME NEW f \in FrameType
    PROVE  /\ f.id \in Nat
           /\ f.kind \in {"block", "if", "else", "for"}
           /\ f.kind = "if" => f \in IfFrame
           /\ f.kind = "else" => f \in ElseFrame
           /\ f.kind = "for" => f \in ForFrame
           /\ f.kind # "block" => f.before \in Seq(ScopeType)
  <1>1. CASE f \in BlockFrame
    BY <1>1 DEF BlockFrame
  <1>2. CASE f \in IfFrame
    BY <1>2 DEF IfFrame
  <1>3. CASE f \in ElseFrame
    BY <1>3 DEF ElseFrame
  <1>4. CASE f \in ForFrame
    BY <1>4 DEF ForFrame
  <1> QED BY <1>1, <1>2, <1>3, <1>4 DEF FrameType

(* The blocks a node will be continued at.                                 *)
Waits(f) ==
    CASE f.kind = "if" -> {f.else, f.join}
      [] f.kind = "else" -> {f.join}
      [] f.kind = "for" -> {f.exit}
      [] OTHER -> {}
(* And those of all the nodes being visited.                             *)
Waiting(list) == UNION {Waits(list[i]) : i \in DOMAIN list}
(* The headers of the loops being visited.                               *)
Headers(list) == {list[i].header : i \in {j \in DOMAIN list : list[j].kind = "for"}}

(* A node being visited knows values of the table, and the end of its    *)
(* then-branch is a block.                                               *)
FrameFine(g, f) ==
    /\ f \in FrameType
    /\ f.kind # "block" => Known(g, f.before)
    /\ f.kind = "if" => f.else # f.join
    /\ f.kind = "else" => Known(g, f.then) /\ SameShape(f.before, f.then) /\ f.thenEnd \in Blocks(g)

(* Each node has blocks of its own, and none of them is the end of a     *)
(* then-branch.                                                          *)
OpenFine(g, list) ==
    /\ list \in Seq(FrameType)
    /\ \A i \in DOMAIN list : FrameFine(g, list[i])
    /\ \A i, j \in DOMAIN list : i # j => Waits(list[i]) \cap Waits(list[j]) = {}
    /\ \A i \in DOMAIN list : list[i].kind = "else" => list[i].thenEnd \notin Waiting(list)

(* All but the last element of a list, and the last.                     *)
LEMMA FrontFacts ==
    ASSUME NEW S, NEW list \in Seq(S), list # <<>>
    PROVE  /\ Front(list) \in Seq(S) /\ Len(list) \in Nat /\ Len(list) > 0
           /\ Len(Front(list)) = Len(list) - 1
           /\ DOMAIN list = 1..Len(list) /\ DOMAIN Front(list) = 1..Len(list) - 1
           /\ \A i \in 1..Len(list) - 1 : Front(list)[i] = list[i]
           /\ Last(list) = list[Len(list)] /\ Last(list) \in S
  <1> DEFINE n == Len(list)
  <1>1. n \in Nat /\ n # 0 /\ DOMAIN list = 1..n
    <2>1. n \in Nat /\ DOMAIN list = 1..n
      BY LenProperties
    <2>2. n # 0
      BY EmptySeq
    <2> QED BY <2>1, <2>2
  <1>2. \A i \in 1..n - 1 : list[i] \in S
    BY <1>1, ElementOfSeq
  <1>3. /\ SubSeq(list, 1, n - 1) \in Seq(S)
        /\ Len(SubSeq(list, 1, n - 1)) = n - 1
        /\ \A i \in 1..n - 1 : SubSeq(list, 1, n - 1)[i] = list[i]
    <2> HIDE DEF n
    <2>1. /\ SubSeq(list, 1, n - 1) \in Seq(S)
          /\ Len(SubSeq(list, 1, n - 1)) = IF 1 <= n - 1 THEN n - 1 - 1 + 1 ELSE 0
          /\ \A i \in 1..n - 1 - 1 + 1 : SubSeq(list, 1, n - 1)[i] = list[1 + i - 1]
      BY <1>1, <1>2, SubSeqProperties
    <2>2. n - 1 - 1 + 1 = n - 1 /\ \A i \in 1..n - 1 : 1 + i - 1 = i
      BY <1>1
    <2> QED BY <1>1, <2>1, <2>2
  <1>4. Front(list) = SubSeq(list, 1, n - 1) /\ Last(list) = list[n]
    BY DEF Front, Last
  <1>5. list[n] \in S
    BY <1>1, ElementOfSeq
  <1>6. DOMAIN Front(list) = 1..n - 1
    BY <1>3, <1>4, LenProperties
  <1> QED BY <1>1, <1>3, <1>4, <1>5, <1>6

(* What is known of a graph stays known of one with more in it.            *)
LEMMA StillKnown ==
    ASSUME NEW g, NEW g2, Values(g) \subseteq Values(g2), Blocks(g) \subseteq Blocks(g2)
    PROVE  /\ \A list : Known(g, list) => Known(g2, list)
           /\ \A list : OpenFine(g, list) => OpenFine(g2, list)
  <1>1. \A list : Known(g, list) => Known(g2, list)
    BY DEF Known
  <1>2. \A f : FrameFine(g, f) => FrameFine(g2, f)
    BY <1>1 DEF FrameFine
  <1> QED BY <1>1, <1>2 DEF OpenFine

(* A block waits if it waits for some node.                              *)
LEMMA WaitingPlaces ==
    ASSUME NEW list, NEW b
    PROVE  b \in Waiting(list) <=> \E i \in DOMAIN list : b \in Waits(list[i])
  BY DEF Waiting

(* A node begins: its blocks are added to those that wait.               *)
LEMMA FramePushed ==
    ASSUME NEW g, NEW list, OpenFine(g, list), NEW f, FrameFine(g, f),
           Waits(f) \cap Waiting(list) = {},
           f.kind = "else" => f.thenEnd \notin Waiting(list) \cup Waits(f),
           \A i \in DOMAIN list : list[i].kind = "else" => list[i].thenEnd \notin Waits(f)
    PROVE  /\ OpenFine(g, Append(list, f))
           /\ Waiting(Append(list, f)) = Waiting(list) \cup Waits(f)
           /\ f.kind = "for" => Headers(Append(list, f)) = Headers(list) \cup {f.header}
           /\ f.kind # "for" => Headers(Append(list, f)) = Headers(list)
           /\ list \in Seq(FrameType) /\ Append(list, f) \in Seq(FrameType) /\ Len(list) \in Nat
           /\ Len(Append(list, f)) = Len(list) + 1
  <1> DEFINE n == Len(list)
             list2 == Append(list, f)
  <1>1. list \in Seq(FrameType) /\ f \in FrameType
    BY DEF OpenFine, FrameFine
  <1>2. n \in Nat /\ DOMAIN list = 1..n
    BY <1>1, LenProperties
  <1>3. /\ list2 \in Seq(FrameType) /\ Len(list2) = n + 1
        /\ \A i \in 1..n : list2[i] = list[i]
        /\ list2[n + 1] = f
    BY <1>1, AppendProperties
  <1>4. DOMAIN list2 = 1..n + 1
    BY <1>3, LenProperties
  <1> HIDE DEF list2, n
  <1>5. \A i \in 1..n + 1 : i # n + 1 => i \in 1..n
    BY <1>2
  <1>6. 1..n \subseteq 1..n + 1 /\ n + 1 \in 1..n + 1
    BY <1>2
  <1>7. Waiting(list2) = Waiting(list) \cup Waits(f)
    <2>1. ASSUME NEW b PROVE b \in Waiting(list2) <=> b \in Waiting(list) \/ b \in Waits(f)
      <3>1. b \in Waiting(list2) <=> \E i \in 1..n + 1 : b \in Waits(list2[i])
        BY <1>4, WaitingPlaces
      <3>2. b \in Waiting(list) <=> \E i \in 1..n : b \in Waits(list[i])
        BY <1>2, WaitingPlaces
      <3> QED BY <1>3, <1>5, <1>6, <3>1, <3>2
    <2> QED BY <2>1
  <1>8. Headers(list2) = Headers(list) \cup {list2[i].header : i \in {j \in {n + 1} : f.kind = "for"}}
    <2>1. ASSUME NEW b
          PROVE  b \in Headers(list2) <=> b \in Headers(list) \/ (f.kind = "for" /\ b = f.header)
      <3>1. b \in Headers(list2) <=> \E i \in 1..n + 1 : list2[i].kind = "for" /\ b = list2[i].header
        BY <1>4 DEF Headers
      <3>2. b \in Headers(list) <=> \E i \in 1..n : list[i].kind = "for" /\ b = list[i].header
        BY <1>2 DEF Headers
      <3> QED BY <1>3, <1>5, <1>6, <3>1, <3>2
    <2> QED BY <1>3, <2>1
  <1>9. /\ f.kind = "for" => Headers(list2) = Headers(list) \cup {f.header}
        /\ f.kind # "for" => Headers(list2) = Headers(list)
    BY <1>3, <1>8
  <1>10. \A i \in 1..n + 1 : FrameFine(g, list2[i])
    BY <1>2, <1>3, <1>5 DEF OpenFine
  <1>11. ASSUME NEW i \in 1..n + 1, NEW j \in 1..n + 1, i # j PROVE Waits(list2[i]) \cap Waits(list2[j]) = {}
    <2>1. \A k \in 1..n : Waits(list[k]) \subseteq Waiting(list)
      BY <1>2 DEF Waiting
    <2>2. CASE i = n + 1
      <3>1. j \in 1..n
        BY <1>5, <1>11, <2>2
      <3> QED BY <1>3, <2>1, <2>2, <3>1
    <2>3. CASE j = n + 1
      <3>1. i \in 1..n
        BY <1>5, <1>11, <2>3
      <3> QED BY <1>3, <2>1, <2>3, <3>1
    <2>4. CASE i # n + 1 /\ j # n + 1
      <3>1. i \in 1..n /\ j \in 1..n
        BY <1>5, <2>4
      <3> QED BY <1>2, <1>3, <1>11, <3>1 DEF OpenFine
    <2> QED BY <2>2, <2>3, <2>4
  <1>12. ASSUME NEW i \in 1..n + 1, list2[i].kind = "else" PROVE list2[i].thenEnd \notin Waiting(list2)
    <2>1. CASE i = n + 1
      BY <1>3, <1>7, <1>12, <2>1
    <2>2. CASE i # n + 1
      <3>1. i \in 1..n
        BY <1>5, <2>2
      <3> QED BY <1>2, <1>3, <1>7, <1>12, <3>1 DEF OpenFine
    <2> QED BY <2>1, <2>2
  <1>13. OpenFine(g, list2)
    BY <1>3, <1>4, <1>10, <1>11, <1>12 DEF OpenFine
  <1> QED BY <1>1, <1>2, <1>3, <1>7, <1>9, <1>13 DEF list2, n

(* The innermost node ends: its blocks do not wait any more.             *)
LEMMA FramePopped ==
    ASSUME NEW g, NEW list, OpenFine(g, list), list # <<>>, NEW f, f = Last(list)
    PROVE  /\ OpenFine(g, Front(list)) /\ FrameFine(g, f)
           /\ Waiting(list) = Waiting(Front(list)) \cup Waits(f)
           /\ Waits(f) \cap Waiting(Front(list)) = {}
           /\ f.kind = "else" => f.thenEnd \notin Waiting(list)
           /\ Headers(Front(list)) \subseteq Headers(list)
           /\ f.kind = "for" => f.header \in Headers(list)
           /\ \A i \in DOMAIN Front(list) : Front(list)[i].kind = "else" =>
                  Front(list)[i].thenEnd \notin Waiting(list)
  <1> DEFINE n == Len(list)
             list2 == Front(list)
  <1>1. list \in Seq(FrameType)
    BY DEF OpenFine
  <1>2. /\ list2 \in Seq(FrameType) /\ n \in Nat /\ n > 0
        /\ DOMAIN list = 1..n /\ DOMAIN list2 = 1..n - 1
        /\ \A i \in 1..n - 1 : list2[i] = list[i]
        /\ f = list[n]
    BY <1>1, FrontFacts
  <1> HIDE DEF list2, n
  <1>3. \A i \in 1..n : i # n => i \in 1..n - 1
    BY <1>2
  <1>4. 1..n - 1 \subseteq 1..n /\ n \in 1..n /\ n \notin 1..n - 1
    BY <1>2
  <1>5. Waiting(list) = Waiting(list2) \cup Waits(f)
    <2>1. ASSUME NEW b PROVE b \in Waiting(list) <=> b \in Waiting(list2) \/ b \in Waits(f)
      <3>1. b \in Waiting(list) <=> \E i \in 1..n : b \in Waits(list[i])
        BY <1>2, WaitingPlaces
      <3>2. b \in Waiting(list2) <=> \E i \in 1..n - 1 : b \in Waits(list2[i])
        BY <1>2, WaitingPlaces
      <3> QED BY <1>2, <1>3, <1>4, <3>1, <3>2
    <2> QED BY <2>1
  <1>6. Waits(f) \cap Waiting(list2) = {}
    <2>1. ASSUME NEW b \in Waiting(list2) PROVE b \notin Waits(f)
      <3>1. PICK i \in 1..n - 1 : b \in Waits(list2[i])
        BY <1>2, WaitingPlaces
      <3>2. i \in 1..n /\ n \in 1..n /\ i # n
        BY <1>4
      <3>3. Waits(list[i]) \cap Waits(list[n]) = {}
        BY <1>2, <3>2 DEF OpenFine
      <3> QED BY <1>2, <3>1, <3>3
    <2> QED BY <2>1
  <1>7. FrameFine(g, f) /\ (f.kind = "else" => f.thenEnd \notin Waiting(list))
    BY <1>2, <1>4 DEF OpenFine
  <1>8. Headers(list2) \subseteq Headers(list) /\ (f.kind = "for" => f.header \in Headers(list))
    BY <1>2, <1>4 DEF Headers
  <1>9. \A i \in 1..n - 1 : list2[i].kind = "else" => list2[i].thenEnd \notin Waiting(list)
    BY <1>2, <1>4 DEF OpenFine
  <1>10. OpenFine(g, list2)
    <2>1. \A i \in 1..n - 1 : FrameFine(g, list2[i])
      BY <1>2, <1>4 DEF OpenFine
    <2>2. \A i, j \in 1..n - 1 : i # j => Waits(list2[i]) \cap Waits(list2[j]) = {}
      BY <1>2, <1>4 DEF OpenFine
    <2>3. \A i \in 1..n - 1 : list2[i].kind = "else" => list2[i].thenEnd \notin Waiting(list2)
      BY <1>5, <1>9
    <2> QED BY <1>2, <2>1, <2>2, <2>3 DEF OpenFine
  <1> QED BY <1>2, <1>5, <1>6, <1>7, <1>8, <1>9, <1>10 DEF list2

-----------------------------------------------------------------------------
(* How many scopes there are outside of the nodes being visited, and what  *)
(* they were before each of them: the same names, with other values.       *)
Opened(f) == IF f.kind = "for" THEN 2 ELSE 1
(* With every node there are more scopes.                                *)
Levels(level, list) ==
    /\ level[0] = 2
    /\ \A i \in 1..Len(list) : level[i] = level[i - 1] + Opened(list[i])
    /\ \A i, j \in 0..Len(list) : i < j => level[i] < level[j]
(* What a node remembers are the scopes there were when it began.        *)
Enclosed(level, list, names) ==
    \A i \in 1..Len(list) : list[i].kind # "block" =>
        Len(list[i].before) = level[i - 1] /\ SameNames(list[i].before, names)
(* The nodes being visited and the scopes are nested.                    *)
Nested(list, names) ==
    \E level \in [0..Len(list) -> Nat] :
        /\ Levels(level, list)
        /\ Len(names) = level[Len(list)]
        /\ Enclosed(level, list, names)

(* There are always the scope of the parameters and that of the body.    *)
LEMMA AtLeastTwo ==
    ASSUME NEW list, Len(list) \in Nat, NEW names, Nested(list, names)
    PROVE  Len(names) \in Nat /\ Len(names) >= 2
  <1>1. PICK level \in [0..Len(list) -> Nat] : Levels(level, list) /\ Len(names) = level[Len(list)]
    BY DEF Nested
  <1>2. level[0] = 2 /\ level[Len(list)] \in Nat
    BY <1>1 DEF Levels
  <1>3. 0 < Len(list) => level[0] < level[Len(list)]
    BY <1>1 DEF Levels
  <1> QED BY <1>1, <1>2, <1>3

(* A node begins.                                                          *)
LEMMA NestedPushed ==
    ASSUME NEW list \in Seq(FrameType), NEW f \in FrameType, NEW names, Nested(list, names),
           f.kind # "block" => Len(f.before) = Len(names) /\ SameNames(f.before, names),
           NEW names2, Len(names2) = Len(names) + Opened(f), SameNames(names, names2)
    PROVE  Nested(Append(list, f), names2)
  <1> DEFINE n == Len(list)
             list2 == Append(list, f)
  <1>1. n \in Nat
    BY LenProperties
  <1>2. /\ Len(list2) = n + 1
        /\ \A i \in 1..n : list2[i] = list[i]
        /\ list2[n + 1] = f
    BY AppendProperties
  <1>3. PICK level \in [0..n -> Nat] :
            Levels(level, list) /\ Len(names) = level[n] /\ Enclosed(level, list, names)
    BY DEF Nested
  <1> DEFINE level2 == [i \in 0..n + 1 |-> IF i = n + 1 THEN level[n] + Opened(f) ELSE level[i]]
  <1>4. Opened(f) \in Nat /\ Opened(f) > 0
    BY DEF Opened
  <1>5. level[n] \in Nat /\ \A i \in 0..n : level[i] \in Nat /\ level[i] <= level[n]
    <2>1. \A i \in 0..n : i < n => level[i] < level[n]
      BY <1>1, <1>3 DEF Levels
    <2> QED BY <1>1, <2>1
  <1>6. /\ level2 \in [0..n + 1 -> Nat]
        /\ level2[n + 1] = level[n] + Opened(f)
        /\ \A i \in 0..n : level2[i] = level[i]
    BY <1>1, <1>4, <1>5
  <1> HIDE DEF level2, list2
  <1>7. Levels(level2, list2)
    <2>1. level2[0] = 2
      BY <1>1, <1>3, <1>6 DEF Levels
    <2>2. ASSUME NEW i \in 1..n + 1 PROVE level2[i] = level2[i - 1] + Opened(list2[i])
      <3>1. CASE i = n + 1
        <4>1. i - 1 = n /\ n \in 0..n
          BY <1>1, <3>1
        <4> QED BY <1>2, <1>6, <3>1, <4>1
      <3>2. CASE i # n + 1
        <4>1. i \in 1..n /\ i \in 0..n /\ i - 1 \in 0..n
          BY <1>1, <3>2
        <4>2. level[i] = level[i - 1] + Opened(list[i])
          BY <1>3, <4>1 DEF Levels
        <4> QED BY <1>2, <1>6, <4>1, <4>2
      <3> QED BY <3>1, <3>2
    <2>3. ASSUME NEW i \in 0..n + 1, NEW j \in 0..n + 1, i < j PROVE level2[i] < level2[j]
      <3>1. CASE j = n + 1
        <4>1. i \in 0..n
          BY <1>1, <2>3, <3>1
        <4>2. level2[i] = level[i] /\ level[i] \in Nat /\ level[i] <= level[n]
          BY <1>5, <1>6, <4>1
        <4>3. level2[j] = level[n] + Opened(f)
          BY <1>6, <3>1
        <4> QED BY <1>4, <1>5, <4>2, <4>3
      <3>2. CASE j # n + 1
        <4>1. i \in 0..n /\ j \in 0..n
          BY <1>1, <2>3, <3>2
        <4> QED BY <1>3, <1>6, <2>3, <4>1 DEF Levels
      <3> QED BY <3>1, <3>2
    <2> QED BY <1>2, <2>1, <2>2, <2>3 DEF Levels
  <1>8. Enclosed(level2, list2, names2)
    <2> SUFFICES ASSUME NEW i \in 1..n + 1, list2[i].kind # "block"
                 PROVE  Len(list2[i].before) = level2[i - 1] /\ SameNames(list2[i].before, names2)
      BY <1>2 DEF Enclosed
    <2>1. CASE i = n + 1
      <3>1. i - 1 = n /\ n \in 0..n /\ list2[i] = f
        BY <1>1, <1>2, <2>1
      <3>2. Len(f.before) = level[n] /\ SameNames(f.before, names)
        BY <1>3, <3>1
      <3>3. SameNames(f.before, names2)
        BY <1>3, <3>2 DEF SameNames
      <3> QED BY <1>6, <3>1, <3>2, <3>3
    <2>2. CASE i # n + 1
      <3>1. i \in 1..n /\ i - 1 \in 0..n /\ list2[i] = list[i]
        BY <1>1, <1>2, <2>2
      <3>2. Len(list[i].before) = level[i - 1] /\ SameNames(list[i].before, names)
        BY <1>3, <3>1 DEF Enclosed
      <3>3. level[i - 1] <= level[n] /\ level[i - 1] \in Nat
        BY <1>5, <3>1
      <3>4. 1..Len(list[i].before) \subseteq 1..Len(names)
        BY <1>3, <1>5, <3>2, <3>3
      <3>5. SameNames(list[i].before, names2)
        BY <3>2, <3>4 DEF SameNames
      <3> QED BY <1>6, <3>1, <3>2, <3>5
    <2> QED BY <2>1, <2>2
  <1>9. Nested(list2, names2)
    <2>1. n + 1 \in 0..n + 1 /\ Len(names2) = level2[n + 1]
      BY <1>1, <1>3, <1>6
    <2>2. \E l \in [0..Len(list2) -> Nat] :
              Levels(l, list2) /\ Len(names2) = l[Len(list2)] /\ Enclosed(l, list2, names2)
      BY <1>2, <1>6, <1>7, <1>8, <2>1
    <2> QED BY <2>2 DEF Nested
  <1> QED BY <1>9 DEF list2

(* It ends.                                                                *)
LEMMA NestedPopped ==
    ASSUME NEW list \in Seq(FrameType), list # <<>>, NEW names, Nested(list, names),
           NEW f, f = Last(list)
    PROVE  /\ f.kind # "block" => Len(names) = Len(f.before) + Opened(f) /\ SameNames(f.before, names)
           /\ \A names2 : Len(names2) \in Nat /\ Len(names) = Len(names2) + Opened(f)
                             /\ SameNames(names2, names) => Nested(Front(list), names2)
  <1> DEFINE n == Len(list)
             list2 == Front(list)
  <1>1. /\ list2 \in Seq(FrameType) /\ n \in Nat /\ n > 0 /\ Len(list2) = n - 1
        /\ \A i \in 1..n - 1 : list2[i] = list[i]
        /\ f = list[n]
    BY FrontFacts
  <1>2. PICK level \in [0..n -> Nat] :
            Levels(level, list) /\ Len(names) = level[n] /\ Enclosed(level, list, names)
    BY DEF Nested
  <1> HIDE DEF list2
  <1>3. n \in 1..n /\ n - 1 \in 0..n /\ n \in 0..n
    BY <1>1
  <1>4. level[n] = level[n - 1] + Opened(f) /\ level[n - 1] \in Nat /\ Opened(f) \in Nat
    BY <1>1, <1>2, <1>3 DEF Levels, Opened
  <1>5. f.kind # "block" => Len(f.before) = level[n - 1] /\ SameNames(f.before, names)
    BY <1>1, <1>2, <1>3 DEF Enclosed
  <1>6. ASSUME NEW names2, Len(names2) \in Nat, Len(names) = Len(names2) + Opened(f),
               SameNames(names2, names)
        PROVE  Nested(list2, names2)
    <2> DEFINE level2 == [i \in 0..n - 1 |-> level[i]]
    <2>1. 0..n - 1 \subseteq 0..n /\ 1..n - 1 \subseteq 1..n /\ n - 1 \in 0..n - 1
      BY <1>1
    <2>2. level2 \in [0..n - 1 -> Nat] /\ \A i \in 0..n - 1 : level2[i] = level[i]
      BY <2>1
    <2> HIDE DEF level2
    <2>3. Len(names2) = level2[n - 1]
      BY <1>2, <1>4, <1>6, <2>1, <2>2
    <2>4. Levels(level2, list2)
      <3>1. 0 \in 0..n - 1 /\ \A i \in 1..n - 1 : i \in 0..n - 1 /\ i - 1 \in 0..n - 1
        BY <1>1
      <3>2. level2[0] = 2
        BY <1>2, <2>2, <3>1 DEF Levels
      <3>3. \A i \in 1..n - 1 : level2[i] = level2[i - 1] + Opened(list2[i])
        BY <1>1, <1>2, <2>1, <2>2, <3>1 DEF Levels
      <3>4. \A i, j \in 0..n - 1 : i < j => level2[i] < level2[j]
        BY <1>2, <2>1, <2>2 DEF Levels
      <3> QED BY <1>1, <3>2, <3>3, <3>4 DEF Levels
    <2>5. Enclosed(level2, list2, names2)
      <3> SUFFICES ASSUME NEW i \in 1..n - 1, list2[i].kind # "block"
                   PROVE  Len(list2[i].before) = level2[i - 1] /\ SameNames(list2[i].before, names2)
        BY <1>1 DEF Enclosed
      <3>1. i \in 1..n /\ i - 1 \in 0..n - 1 /\ i - 1 \in 0..n /\ list2[i] = list[i] /\ i - 1 <= n - 1
        BY <1>1, <2>1
      <3>2. Len(list[i].before) = level[i - 1] /\ SameNames(list[i].before, names)
        BY <1>2, <3>1 DEF Enclosed
      <3>3. level[i - 1] <= level[n - 1]
        <4>1. i - 1 < n - 1 => level[i - 1] < level[n - 1]
          BY <1>2, <1>3, <3>1 DEF Levels
        <4>2. level[i - 1] \in Nat /\ level[n - 1] \in Nat
          BY <1>3, <3>1
        <4> QED BY <1>1, <3>1, <4>1, <4>2
      <3>4. 1..Len(list[i].before) \subseteq 1..Len(names2)
        <4>1. Len(list[i].before) \in Nat /\ Len(list[i].before) <= Len(names2)
          BY <2>2, <2>3, <2>1, <3>1, <3>2, <3>3
        <4> QED BY <1>6, <4>1
      <3>5. SameNames(list[i].before, names2)
        BY <1>6, <3>2, <3>4 DEF SameNames
      <3> QED BY <2>2, <3>1, <3>2, <3>5
    <2>6. \E l \in [0..Len(list2) -> Nat] :
              Levels(l, list2) /\ Len(names2) = l[Len(list2)] /\ Enclosed(l, list2, names2)
      BY <1>1, <2>2, <2>3, <2>4, <2>5
    <2> QED BY <2>6 DEF Nested
  <1>7. f.kind # "block" => Len(names) = Len(f.before) + Opened(f) /\ SameNames(f.before, names)
    BY <1>2, <1>4, <1>5
  <1> QED BY <1>6, <1>7 DEF list2

(* A value changes, or the last scope gets another name.                   *)
LEMMA NestedKept ==
    ASSUME NEW list, Len(list) \in Nat, NEW names, Nested(list, names), NEW names2,
           Len(names2) = Len(names), \A i \in 1..Len(names) - 1 : DOMAIN names2[i] = DOMAIN names[i]
    PROVE  Nested(list, names2)
  <1> DEFINE n == Len(list)
  <1>1. PICK level \in [0..n -> Nat] :
            Levels(level, list) /\ Len(names) = level[n] /\ Enclosed(level, list, names)
    BY DEF Nested
  <1>2. Enclosed(level, list, names2)
    <2> SUFFICES ASSUME NEW i \in 1..n, list[i].kind # "block"
                 PROVE  Len(list[i].before) = level[i - 1] /\ SameNames(list[i].before, names2)
      BY DEF Enclosed
    <2>1. Len(list[i].before) = level[i - 1] /\ SameNames(list[i].before, names)
      BY <1>1 DEF Enclosed
    <2>2. i - 1 \in 0..n /\ n \in 0..n /\ i - 1 < n
      OBVIOUS
    <2>3. level[i - 1] < level[n] /\ level[i - 1] \in Nat /\ level[n] \in Nat
      BY <1>1, <2>2 DEF Levels
    <2>4. 1..Len(list[i].before) \subseteq 1..Len(names) - 1
      BY <1>1, <2>1, <2>3
    <2> QED BY <2>1, <2>4 DEF SameNames
  <1> QED BY <1>1, <1>2 DEF Nested

-----------------------------------------------------------------------------
(* A list of scopes gets another one, or loses its last.                   *)
LEMMA ScopePushed ==
    ASSUME NEW g, NEW list, Known(g, list), NEW s \in ScopeType, \A x \in DOMAIN s : s[x] \in Values(g)
    PROVE  /\ Known(g, Append(list, s)) /\ Len(list) \in Nat
           /\ Len(Append(list, s)) = Len(list) + 1 /\ SameNames(list, Append(list, s))
  <1> DEFINE n == Len(list)
             list2 == Append(list, s)
  <1>1. list \in Seq(ScopeType)
    BY DEF Known
  <1>2. n \in Nat /\ DOMAIN list = 1..n
    BY <1>1, LenProperties
  <1>3. /\ list2 \in Seq(ScopeType) /\ Len(list2) = n + 1
        /\ \A i \in 1..n : list2[i] = list[i]
        /\ list2[n + 1] = s
    BY <1>1, AppendProperties
  <1>4. DOMAIN list2 = 1..n + 1
    BY <1>3, LenProperties
  <1> HIDE DEF list2
  <1>5. ASSUME NEW i \in 1..n + 1, NEW x \in DOMAIN list2[i] PROVE list2[i][x] \in Values(g)
    <2>1. CASE i = n + 1
      BY <1>3, <2>1, <1>5
    <2>2. CASE i # n + 1
      <3>1. i \in 1..n
        BY <1>2, <2>2
      <3> QED BY <1>2, <1>3, <1>5, <3>1 DEF Known
    <2> QED BY <2>1, <2>2
  <1>6. Known(g, list2) /\ SameNames(list, list2)
    BY <1>3, <1>4, <1>5 DEF Known, SameNames
  <1> QED BY <1>2, <1>3, <1>6 DEF list2

(* It loses its last.                                                    *)
LEMMA ScopePopped ==
    ASSUME NEW g, NEW list, Known(g, list), list # <<>>
    PROVE  /\ Known(g, Front(list)) /\ SameNames(Front(list), list)
           /\ Len(list) \in Nat /\ Len(list) > 0 /\ Len(Front(list)) = Len(list) - 1
  <1>1. list \in Seq(ScopeType)
    BY DEF Known
  <1>2. /\ Front(list) \in Seq(ScopeType) /\ Len(list) \in Nat /\ Len(list) > 0
        /\ Len(Front(list)) = Len(list) - 1
        /\ DOMAIN list = 1..Len(list) /\ DOMAIN Front(list) = 1..Len(list) - 1
        /\ \A i \in 1..Len(list) - 1 : Front(list)[i] = list[i]
    BY <1>1, FrontFacts
  <1>3. 1..Len(list) - 1 \subseteq 1..Len(list)
    BY <1>2
  <1>4. Known(g, Front(list))
    BY <1>2, <1>3 DEF Known
  <1> QED BY <1>2, <1>4 DEF SameNames

(* A scope begins without a name.                                        *)
LEMMA EmptyScope == NoScope \in ScopeType /\ DOMAIN NoScope = {}
  <1>1. NoScope \in [{} -> Nat] /\ {} \in SUBSET Names
    BY DEF NoScope
  <1> QED BY <1>1 DEF ScopeType, NoScope

(* A name in a scope gets a value, the other names keep theirs.          *)
LEMMA NameBound ==
    ASSUME NEW scope \in ScopeType, NEW x \in Names, NEW v \in Nat, NEW s, s = Bound(scope, x, v)
    PROVE  /\ s \in ScopeType /\ DOMAIN s = DOMAIN scope \cup {x}
           /\ \A y \in DOMAIN s : s[y] = IF y = x THEN v ELSE scope[y]
  <1>1. PICK names \in SUBSET Names : scope \in [names -> Nat]
    BY DEF ScopeType
  <1>2. Bound(scope, x, v) \in [names \cup {x} -> Nat] /\ names \cup {x} \in SUBSET Names
    BY <1>1 DEF Bound
  <1>3. Bound(scope, x, v) \in ScopeType
    BY <1>2 DEF ScopeType
  <1> QED BY <1>3 DEF Bound

(* A name gets a value in a scope.                                         *)
HasName(list2, list, k, x, v) == list2 = [list EXCEPT ![k] = Bound(@, x, v)]

(* It gets a value in one of the scopes: all the names still have values.*)
LEMMA NameSet ==
    ASSUME NEW g, NEW list, Known(g, list), NEW k \in DOMAIN list,
           NEW x \in Names, NEW v \in Values(g), v \in Nat,
           NEW list2, HasName(list2, list, k, x, v)
    PROVE  /\ Known(g, list2) /\ Len(list2) = Len(list) /\ Len(list) \in Nat
           /\ \A i \in 1..Len(list) : i # k \/ x \in DOMAIN list[k] => DOMAIN list2[i] = DOMAIN list[i]
  <1>0. PICK scope : scope = Bound(list[k], x, v)
    OBVIOUS
  <1>1. list \in Seq(ScopeType)
    BY DEF Known
  <1>2. Len(list) \in Nat /\ DOMAIN list = 1..Len(list)
    BY <1>1, LenProperties
  <1>3. list[k] \in ScopeType
    BY <1>1, <1>2, ElementOfSeq
  <1>4. /\ scope \in ScopeType /\ DOMAIN scope = DOMAIN list[k] \cup {x}
        /\ \A y \in DOMAIN scope : scope[y] = IF y = x THEN v ELSE list[k][y]
    BY <1>0, <1>3, NameBound
  <1>9. /\ list2 \in Seq(ScopeType) /\ Len(list2) = Len(list)
        /\ \A i \in 1..Len(list) : list2[i] = IF i = k THEN scope ELSE list[i]
    <2>1. list2 = [list EXCEPT ![k] = scope]
      BY <1>0 DEF HasName
    <2> QED BY <1>1, <1>2, <1>4, <2>1, ExceptSeq
  <1>10. DOMAIN list2 = 1..Len(list)
    BY <1>9, LenProperties
  <1>11. \A y \in DOMAIN scope : scope[y] \in Values(g)
    BY <1>4 DEF Known
  <1>12. \A i \in 1..Len(list) : \A y \in DOMAIN list2[i] : list2[i][y] \in Values(g)
    BY <1>2, <1>9, <1>11 DEF Known
  <1>13. Known(g, list2)
    BY <1>9, <1>10, <1>12 DEF Known
  <1>14. \A i \in 1..Len(list) : i # k \/ x \in DOMAIN list[k] => DOMAIN list2[i] = DOMAIN list[i]
    BY <1>4, <1>9
  <1> QED BY <1>2, <1>9, <1>13, <1>14
-----------------------------------------------------------------------------
(* The plan, and what the planner knows.                                   *)
PlanOf(g, names, b, list, n) ==
    /\ n \in Nat
    /\ PlanGraph(g, Headers(list), b, Waiting(list))
    /\ b \notin Waiting(list)
    /\ OpenFine(g, list)
    /\ Known(g, names)
    /\ Nested(list, names)
(* The invariant of the planner.                                         *)
PlanInv == reaches \in BOOLEAN /\ PlanOf(graph, scopes, block, open, planned)

(* A name that can be seen has a value.                                    *)
LEMMA NamesHaveValues ==
    ASSUME Known(graph, scopes), NEW x \in Visible
    PROVE  /\ Owner(x) \in DOMAIN scopes /\ x \in DOMAIN scopes[Owner(x)]
           /\ Current(x) \in Values(graph) /\ x \in Names
  <1> DEFINE n == Len(scopes)
             having == {i \in DOMAIN scopes : x \in DOMAIN scopes[i]}
             T == {n - i : i \in having}
  <1>1. scopes \in Seq(ScopeType)
    BY DEF Known
  <1>2. n \in Nat /\ DOMAIN scopes = 1..n
    BY <1>1, LenProperties
  <1>3. having # {}
    BY DEF Visible
  <1>4. T \subseteq Nat /\ T # {}
    BY <1>2, <1>3
  <1> HIDE DEF T
  <1>5. PICK t \in T : \A u \in T : t <= u
    BY <1>4, LeastElement
  <1>6. PICK i \in having : t = n - i
    BY DEF T
  <1>7. \A j \in having : j <= i
    <2> TAKE j \in having
    <2>1. n - j \in T
      BY DEF T
    <2>2. n - i <= n - j
      BY <1>5, <1>6, <2>1
    <2>3. i \in Nat /\ j \in Nat
      BY <1>2
    <2> QED BY <1>2, <2>2, <2>3
  <1>8. \E k \in DOMAIN scopes :
            x \in DOMAIN scopes[k] /\ \A j \in DOMAIN scopes : x \in DOMAIN scopes[j] => j <= k
    BY <1>7
  <1>9. Owner(x) \in DOMAIN scopes /\ x \in DOMAIN scopes[Owner(x)]
    BY <1>8 DEF Owner
  <1>10. Current(x) \in Values(graph)
    BY <1>9 DEF Current, Known
  <1>11. x \in Names
    <2>1. scopes[Owner(x)] \in ScopeType
      BY <1>1, <1>2, <1>9, ElementOfSeq
    <2> QED BY <1>9, <2>1 DEF ScopeType
  <1> QED BY <1>9, <1>10, <1>11

(* The statement of the function's own list a node is part of has a      *)
(* number.                                                               *)
LEMMA OutermostType ==
    ASSUME open \in Seq(FrameType), NEW frames \in SUBSET DOMAIN open, NEW id \in Nat
    PROVE  Outermost(frames, id) \in Nat
  <1>1. CASE frames = {}
    BY <1>1 DEF Outermost
  <1>2. CASE frames # {}
    <2>1. DOMAIN open = 1..Len(open) /\ Len(open) \in Nat
      BY LenProperties
    <2>2. frames \subseteq Nat
      BY <2>1
    <2>3. \E x \in frames : \A y \in frames : x <= y
      BY <1>2, <2>2, LeastElement
    <2>4. Min(frames) \in frames
      BY <2>3 DEF Min
    <2>5. open[Min(frames)] \in FrameType
      BY <2>1, <2>4, ElementOfSeq
    <2>6. open[Min(frames)].id \in Nat
      BY <2>5, FrameFacts
    <2> QED BY <1>2, <2>6 DEF Outermost
  <1> QED BY <1>1, <1>2

(* What the planner adds to a block is a statement.                      *)
LEMMA AnchoredType ==
    ASSUME open \in Seq(FrameType), NEW definitions \in SUBSET Nat, NEW uses \in Seq(UseType),
           NEW id \in Nat
    PROVE  /\ Anchored(definitions, uses, id) \in StatementType
           /\ Anchored(definitions, uses, id).definitions = definitions
  <1>1. Outermost(Conditionals, id) \in Nat
    <2>1. Conditionals \in SUBSET DOMAIN open
      BY DEF Conditionals
    <2> QED BY <2>1, OutermostType
  <1> QED BY <1>1 DEF Anchored, StatementType

-----------------------------------------------------------------------------
(* What the planner records of a statement changes neither the table nor *)
(* which blocks there are.                                               *)
LEMMA RecordedShape ==
    ASSUME NEW g \in GraphType, NEW b \in Blocks(g), NEW s \in StatementType,
           IsFiniteSet(s.definitions), NEW inLoop
    PROVE  LET g2 == Recorded(g, b, s, inLoop)
           IN  g2.table = g.table /\ Blocks(g2) = Blocks(g) /\ Values(g2) = Values(g)
  <1>1. PICK g2 : g2 = Appended(g, b, s)
    OBVIOUS
  <1>2. /\ g2 \in GraphType /\ g2.table = g.table /\ Blocks(g2) = Blocks(g) /\ Values(g2) = Values(g)
    BY <1>1, AppendedShape
  <1>3. CASE inLoop /\ s.definitions # {}
    <2>1. PICK r : r = [s EXCEPT !.definitions = {}, !.uses = EscapesOf(s.definitions)]
      OBVIOUS
    <2>2. r \in StatementType
      <3>1. s.definitions \in SUBSET Nat
        BY DEF StatementType
      <3>2. EscapesOf(s.definitions) \in Seq(UseType)
        BY <3>1, AllEscape
      <3> QED BY <2>1, <3>2 DEF StatementType
    <2>3. PICK g3 : g3 = Appended(g2, b, r)
      OBVIOUS
    <2>4. g3.table = g2.table /\ Blocks(g3) = Blocks(g2) /\ Values(g3) = Values(g2)
      BY <1>2, <2>2, <2>3, AppendedShape
    <2> QED BY <1>1, <1>2, <1>3, <2>1, <2>3, <2>4 DEF Recorded
  <1>4. CASE ~(inLoop /\ s.definitions # {})
    BY <1>1, <1>2, <1>4 DEF Recorded
  <1> QED BY <1>3, <1>4

(* A statement that defines nothing, in the block the plan is at.          *)
LEMMA PlainPlan ==
    ASSUME NEW g, NEW names, NEW b, NEW list, NEW n, PlanOf(g, names, b, list, n),
           NEW s \in StatementType, s.definitions = {}
    PROVE  PlanOf(Appended(g, b, s), names, b, list, n + 1)
  <1>1. g \in GraphType /\ b \in Blocks(g)
    BY DEF PlanOf, PlanGraph, SoundGraph
  <1>2. PICK g2 : g2 = Appended(g, b, s)
    OBVIOUS
  <1>3. Values(g2) = Values(g) /\ Blocks(g2) = Blocks(g)
    BY <1>1, <1>2, AppendedShape
  <1>4. Known(g2, names) /\ OpenFine(g2, list)
    BY <1>3, StillKnown DEF PlanOf
  <1>5. PlanGraph(g2, Headers(list), b, Waiting(list))
    BY <1>1, <1>2, UseAdded DEF PlanOf
  <1>6. PlanOf(g2, names, b, list, n + 1)
    BY <1>4, <1>5 DEF PlanOf
  <1> QED BY <1>2, <1>6

(* What a declaration or an assignment adds to the table and to a scope.   *)
IsPlaced(entry, g, v) ==
    \/ entry.sources = {} /\ entry.atoms = {v}
    \/ \E u \in Values(g) : entry.sources = {u} /\ entry.atoms = g.table[u].atoms

(* A table with another entry.                                           *)
HasEntry(t, g, entry) == t = Append(g.table, entry)

(* A statement that defines a new value of a name.                         *)
LEMMA ValuePlan ==
    ASSUME NEW g, NEW names, NEW b, NEW list, NEW n, PlanOf(g, names, b, list, n),
           NEW v, v = Len(g.table) + 1, NEW entry \in EntryType,
           IsPlaced(entry, g, v),
           NEW t, HasEntry(t, g, entry), NEW g1, HasTable(g1, g, t),
           NEW s \in StatementType, s.definitions = {v},
           NEW inLoop, inLoop \/ Headers(list) = {},
           NEW k \in DOMAIN names, NEW x \in Names, k = Len(names) \/ x \in DOMAIN names[k],
           NEW names2, HasName(names2, names, k, x, v)
    PROVE  PlanOf(Recorded(g1, b, s, inLoop), names2, b, list, n + 1)
  <1>1. g \in GraphType /\ b \in Blocks(g) /\ g.table \in Seq(EntryType)
    BY DEF PlanOf, PlanGraph, SoundGraph, GraphType
  <1>2. /\ Len(g.table) \in Nat /\ Values(g) = 1..Len(g.table)
        /\ t \in Seq(EntryType) /\ Len(t) = Len(g.table) + 1
        /\ \A i \in 1..Len(g.table) : t[i] = g.table[i]
        /\ t[v] = entry
    BY <1>1, GraphShape, AppendProperties DEF HasEntry
  <1>3. Extends(t, g)
    <2>1. \A u \in (Len(g.table) + 1)..Len(t) : u = v
      BY <1>2
    <2>2. Len(t) >= Len(g.table)
      BY <1>2
    <2> QED BY <1>2, <2>1, <2>2 DEF Extends, IsPlaced
  <1>4. PlanGraph(g1, Headers(list), b, Waiting(list)) /\ g1.table = t /\ g1.blocks = g.blocks
    <2>1. PlanGraph(g, Headers(list), b, Waiting(list))
      BY DEF PlanOf
    <2>2. \A headers, waiting : PlanGraph(g, headers, b, waiting) /\ Extends(t, g) =>
             PlanGraph(g1, headers, b, waiting) /\ g1.table = t /\ g1.blocks = g.blocks
      BY ValuesAdded
    <2> QED BY <1>3, <2>1, <2>2
  <1>5. /\ g1 \in GraphType /\ Values(g1) = 1..Len(t) /\ Blocks(g1) = Blocks(g)
    <2>1. g1 \in GraphType
      BY <1>4 DEF PlanGraph, SoundGraph
    <2>2. Blocks(g1) = Blocks(g)
      BY <1>4 DEF Blocks
    <2> QED BY <1>4, <2>1, <2>2, GraphShape
  <1>6. v \in Values(g1) /\ v \in Nat /\ v \notin Values(g) /\ Values(g) \subseteq Values(g1)
    BY <1>2, <1>5
  <1>7. MayDefine(g1, s.definitions)
    <2>1. entry.sources \cap {v} = {}
      BY <1>6 DEF IsPlaced
    <2> QED BY <1>2, <1>4, <1>6, <2>1 DEF MayDefine
  <1>8. IsFiniteSet(s.definitions)
    <2>1. IsFiniteSet({v})
      BY FS_Singleton
    <2> QED BY <2>1
  <1>9. PICK g2 : g2 = Recorded(g1, b, s, inLoop)
    OBVIOUS
  <1>10. PlanGraph(g2, Headers(list), b, Waiting(list))
    BY <1>4, <1>7, <1>8, <1>9, StatementRecorded DEF PlanOf
  <1>11. Values(g2) = Values(g1) /\ Blocks(g2) = Blocks(g)
    BY <1>1, <1>5, <1>8, <1>9, RecordedShape
  <1>12. OpenFine(g2, list) /\ Known(g2, names)
    BY <1>6, <1>11, StillKnown DEF PlanOf
  <1>13. /\ Known(g2, names2) /\ Len(names2) = Len(names) /\ Len(names) \in Nat
         /\ \A i \in 1..Len(names) : i # k \/ x \in DOMAIN names[k] => DOMAIN names2[i] = DOMAIN names[i]
    BY <1>6, <1>11, <1>12, NameSet
  <1>14. Nested(list, names2)
    <2>1. \A i \in 1..Len(names) - 1 : i \in 1..Len(names) /\ i # Len(names)
      BY <1>13
    <2>2. \A i \in 1..Len(names) - 1 : DOMAIN names2[i] = DOMAIN names[i]
      BY <1>13, <2>1
    <2>3. Len(list) \in Nat
      BY LenProperties DEF PlanOf, OpenFine
    <2> QED BY <1>13, <2>2, <2>3, NestedKept DEF PlanOf
  <1>15. PlanOf(g2, names2, b, list, n + 1)
    BY <1>10, <1>12, <1>13, <1>14 DEF PlanOf
  <1> QED BY <1>9, <1>15

-----------------------------------------------------------------------------
(* A node begins, other than a loop: it has a scope of its own.            *)
LEMMA NodeBegun ==
    ASSUME NEW g, NEW list, OpenFine(g, list), NEW names, Known(g, names), Nested(list, names),
           NEW f, FrameFine(g, f), f.kind # "for", f.kind # "block" => f.before = names,
           Waits(f) \cap Waiting(list) = {},
           f.kind = "else" => f.thenEnd \notin Waiting(list) \cup Waits(f),
           \A i \in DOMAIN list : list[i].kind = "else" => list[i].thenEnd \notin Waits(f)
    PROVE  /\ OpenFine(g, Append(list, f)) /\ Known(g, Append(names, NoScope))
           /\ Nested(Append(list, f), Append(names, NoScope))
           /\ Waiting(Append(list, f)) = Waiting(list) \cup Waits(f)
           /\ Headers(Append(list, f)) = Headers(list)
  <1>1. /\ OpenFine(g, Append(list, f))
        /\ Waiting(Append(list, f)) = Waiting(list) \cup Waits(f)
        /\ Headers(Append(list, f)) = Headers(list)
        /\ list \in Seq(FrameType)
    BY FramePushed
  <1>2. /\ Known(g, Append(names, NoScope)) /\ Len(names) \in Nat
        /\ Len(Append(names, NoScope)) = Len(names) + 1
        /\ SameNames(names, Append(names, NoScope))
    BY ScopePushed, EmptyScope
  <1>3. SameNames(names, names)
    BY DEF SameNames
  <1>4. f \in FrameType /\ Opened(f) = 1
    BY DEF FrameFine, Opened
  <1>5. f.kind # "block" => Len(f.before) = Len(names) /\ SameNames(f.before, names)
    BY <1>3
  <1>6. Nested(Append(list, f), Append(names, NoScope))
    BY <1>1, <1>2, <1>4, <1>5, NestedPushed
  <1> QED BY <1>1, <1>2, <1>6

(* It ends. What was known before it, or in it but for its own names, can  *)
(* be known after it.                                                      *)
LEMMA NodeEnded ==
    ASSUME NEW g, NEW list, OpenFine(g, list), list # <<>>, NEW names, Known(g, names),
           Nested(list, names), NEW f, f = Last(list)
    PROVE  /\ OpenFine(g, Front(list)) /\ FrameFine(g, f)
           /\ Waiting(list) = Waiting(Front(list)) \cup Waits(f)
           /\ Waits(f) \cap Waiting(Front(list)) = {}
           /\ f.kind # "for" => /\ Known(g, Front(names)) /\ Nested(Front(list), Front(names))
                                /\ Len(Front(names)) = Len(names) - 1 /\ Len(names) \in Nat
           /\ f.kind \in {"if", "else"} => SameShape(f.before, Front(names))
           /\ f.kind # "block" => /\ Known(g, f.before)
                                  /\ \A names2 : SameShape(f.before, names2) =>
                                          Nested(Front(list), names2)
  <1>1. /\ OpenFine(g, Front(list)) /\ FrameFine(g, f)
        /\ Waiting(list) = Waiting(Front(list)) \cup Waits(f)
        /\ Waits(f) \cap Waiting(Front(list)) = {}
    BY FramePopped
  <1>2. list \in Seq(FrameType) /\ Len(list) \in Nat
    BY LenProperties DEF OpenFine
  <1>3. Len(names) \in Nat /\ Len(names) >= 2 /\ names # <<>> /\ names \in Seq(ScopeType)
    BY <1>2, AtLeastTwo DEF Known
  <1>4. /\ f.kind # "block" => Len(names) = Len(f.before) + Opened(f) /\ SameNames(f.before, names)
        /\ \A names2 : Len(names2) \in Nat /\ Len(names) = Len(names2) + Opened(f)
                          /\ SameNames(names2, names) => Nested(Front(list), names2)
    BY <1>2, NestedPopped
  <1>5. /\ Known(g, Front(names)) /\ SameNames(Front(names), names)
        /\ Len(Front(names)) = Len(names) - 1
    BY <1>3, ScopePopped
  <1>6. f.kind # "for" => Nested(Front(list), Front(names))
    <2>1. Len(Front(names)) \in Nat /\ Len(names) = Len(Front(names)) + 1
      BY <1>3, <1>5
    <2>2. f.kind # "for" => Opened(f) = 1
      BY DEF Opened
    <2> QED BY <1>4, <1>5, <2>1, <2>2
  <1>7. f.kind # "block" => f.before \in Seq(ScopeType) /\ Len(f.before) \in Nat /\ Known(g, f.before)
    BY <1>1, LenProperties DEF FrameFine, Known
  <1>8. f.kind \in {"if", "else"} => SameShape(f.before, Front(names))
    <2>1. SUFFICES ASSUME f.kind \in {"if", "else"} PROVE SameShape(f.before, Front(names))
      OBVIOUS
    <2>2. Len(f.before) = Len(names) - 1 /\ SameNames(f.before, names) /\ Len(f.before) \in Nat
      <3>1. Opened(f) = 1
        BY <2>1 DEF Opened
      <3> QED BY <1>3, <1>4, <1>7, <2>1, <3>1
    <2>3. \A i \in 1..Len(f.before) : DOMAIN f.before[i] = DOMAIN Front(names)[i]
      BY <1>3, <1>5, <2>2 DEF SameNames
    <2> QED BY <1>5, <2>2, <2>3 DEF SameShape, SameNames
  <1>9. ASSUME f.kind # "block", NEW names2, SameShape(f.before, names2)
        PROVE  Nested(Front(list), names2)
    <2>1. Len(names2) \in Nat /\ Len(names) = Len(names2) + Opened(f)
      BY <1>4, <1>7, <1>9 DEF SameShape
    <2>2. SameNames(names2, names)
      BY <1>4, <1>9 DEF SameShape, SameNames
    <2> QED BY <1>4, <2>1, <2>2
  <1> QED BY <1>1, <1>3, <1>5, <1>6, <1>7, <1>8, <1>9

(* A block begins, and ends.                                               *)
LEMMA BlockBegins ==
    ASSUME NEW g, NEW names, NEW b, NEW list, NEW n, PlanOf(g, names, b, list, n),
           NEW f \in BlockFrame
    PROVE  PlanOf(g, Append(names, NoScope), b, Append(list, f), n + 1)
  <1>1. f \in FrameType /\ f.kind = "block" /\ n + 1 \in Nat
    BY DEF FrameType, BlockFrame, PlanOf
  <1>2. FrameFine(g, f)
    BY <1>1 DEF FrameFine
  <1>3. Waits(f) = {}
    BY <1>1 DEF Waits
  <1>4. OpenFine(g, list) /\ Known(g, names) /\ Nested(list, names)
    BY DEF PlanOf
  <1>5. /\ OpenFine(g, Append(list, f)) /\ Known(g, Append(names, NoScope))
        /\ Nested(Append(list, f), Append(names, NoScope))
        /\ Waiting(Append(list, f)) = Waiting(list)
        /\ Headers(Append(list, f)) = Headers(list)
    BY <1>1, <1>2, <1>3, <1>4, NodeBegun
  <1> QED BY <1>1, <1>5 DEF PlanOf

(* A block of the program ends: its names are forgotten.                 *)
LEMMA BlockEnds ==
    ASSUME NEW g, NEW names, NEW b, NEW list, NEW n, PlanOf(g, names, b, list, n),
           list # <<>>, Last(list).kind = "block"
    PROVE  PlanOf(g, Front(names), b, Front(list), n)
  <1>1. PICK f : f = Last(list)
    OBVIOUS
  <1>2. Waits(f) = {}
    BY <1>1 DEF Waits
  <1>3. /\ OpenFine(g, Front(list)) /\ Known(g, Front(names)) /\ Nested(Front(list), Front(names))
        /\ Waiting(list) = Waiting(Front(list))
    BY <1>1, <1>2, NodeEnded DEF PlanOf
  <1>4. Headers(Front(list)) \subseteq Headers(list)
    BY <1>1, FramePopped DEF PlanOf
  <1>5. PlanGraph(g, Headers(Front(list)), b, Waiting(Front(list)))
    BY <1>3, <1>4, GoesOn DEF PlanOf
  <1> QED BY <1>3, <1>5 DEF PlanOf

(* The blocks that wait are blocks of the graph.                           *)
LEMMA WaitingExist ==
    ASSUME NEW g, NEW names, NEW b, NEW list, NEW n, PlanOf(g, names, b, list, n),
           NEW m, m = Len(g.blocks)
    PROVE  /\ g \in GraphType /\ m \in Nat /\ Blocks(g) = 1..m
           /\ b \in 1..m /\ Waiting(list) \subseteq 1..m
           /\ \A i \in DOMAIN list : list[i].kind = "else" => list[i].thenEnd \in 1..m
  <1>1. g \in GraphType /\ b \in Blocks(g)
    BY DEF PlanOf, PlanGraph, SoundGraph
  <1>2. m \in Nat /\ Blocks(g) = 1..m
    BY <1>1, GraphShape
  <1>3. Waiting(list) \subseteq Blocks(g)
    BY DEF PlanOf, PlanGraph
  <1>4. \A i \in DOMAIN list : list[i].kind = "else" => list[i].thenEnd \in Blocks(g)
    BY DEF PlanOf, OpenFine, FrameFine
  <1> QED BY <1>1, <1>2, <1>3, <1>4

(* A conditional begins: three blocks are added, and the first is next.    *)
LEMMA IfBegins ==
    ASSUME NEW g, NEW names, NEW b, NEW list, NEW n, PlanOf(g, names, b, list, n),
           NEW s \in StatementType, s.definitions = {}, NEW m, m = Len(g.blocks),
           NEW f \in IfFrame, f.before = names, f.else = m + 2, f.join = m + 3
    PROVE  PlanOf(Linked(Grown(Appended(g, b, s)), b, {m + 1, m + 2}), Append(names, NoScope),
                  m + 1, Append(list, f), n + 1)
  <1>1. /\ g \in GraphType /\ m \in Nat /\ Blocks(g) = 1..m
        /\ b \in 1..m /\ Waiting(list) \subseteq 1..m
        /\ \A i \in DOMAIN list : list[i].kind = "else" => list[i].thenEnd \in 1..m
    BY WaitingExist
  <1>2. PICK g1 : g1 = Appended(g, b, s)
    OBVIOUS
  <1>3. PICK g2 : g2 = Grown(g1)
    OBVIOUS
  <1>4. PICK to : to = {m + 1, m + 2}
    OBVIOUS
  <1>5. PICK g3 : g3 = Linked(g2, b, to)
    OBVIOUS
  <1>6. PICK new : new = {m + 1, m + 2, m + 3}
    OBVIOUS
  <1>7. PICK w : w = Waiting(list) \cup {m + 2, m + 3}
    OBVIOUS
  <1>8. /\ g1 \in GraphType /\ Len(g1.blocks) = m
        /\ Values(g1) = Values(g) /\ Blocks(g1) = Blocks(g)
    <2>1. b \in Blocks(g)
      BY <1>1
    <2>2. /\ g1 \in GraphType /\ Len(g1.blocks) = Len(g.blocks)
          /\ Values(g1) = Values(g) /\ Blocks(g1) = Blocks(g)
      BY <1>1, <1>2, <2>1, AppendedShape
    <2> QED BY <2>2
  <1>9. PlanGraph(g1, Headers(list), b, Waiting(list))
    BY <1>1, <1>2, UseAdded DEF PlanOf
  <1>10. PlanGraph(g2, Headers(list), b, Waiting(list) \cup new)
    BY <1>3, <1>6, <1>8, <1>9, BlocksAdded
  <1>11. /\ g2 \in GraphType /\ Values(g2) = Values(g) /\ Blocks(g2) = 1..m + 3
    BY <1>3, <1>8, GrownShape
  <1>12. /\ b \in Blocks(g2) /\ to \in SUBSET (Waiting(list) \cup new)
         /\ w \in SUBSET (Waiting(list) \cup new) /\ b \notin w
         /\ m + 1 \in Waiting(list) \cup new /\ m + 1 # b /\ m + 1 \notin w
    <2>1. m \in Nat /\ b \in 1..m /\ Waiting(list) \subseteq 1..m /\ Blocks(g2) = 1..m + 3
      BY <1>1, <1>11
    <2>2. b \in Blocks(g2) /\ b \notin {m + 1, m + 2, m + 3}
      BY <2>1
    <2>3. m + 1 \notin Waiting(list) /\ m + 1 # m + 2 /\ m + 1 # m + 3
      BY <2>1
    <2>4. b \notin Waiting(list)
      BY DEF PlanOf
    <2> QED BY <1>4, <1>6, <1>7, <2>2, <2>3, <2>4
  <1>13. PlanGraph(g3, Headers(list), m + 1, w)
    BY <1>5, <1>10, <1>12, EdgeToWaiting
  <1>14. Values(g3) = Values(g) /\ Blocks(g3) = 1..m + 3
    <2>1. to \in SUBSET Nat
      BY <1>1, <1>4
    <2>2. g2 \in GraphType /\ b \in Blocks(g2)
      BY <1>11, <1>12
    <2>3. Values(g3) = Values(g2) /\ Blocks(g3) = Blocks(g2)
      BY <1>5, <2>1, <2>2, LinkedShape
    <2> QED BY <1>11, <2>3
  <1>15. OpenFine(g3, list) /\ Known(g3, names)
    <2>1. Blocks(g) \subseteq Blocks(g3)
      BY <1>1, <1>14
    <2> QED BY <1>14, <2>1, StillKnown DEF PlanOf
  <1>16. f \in FrameType /\ f.kind = "if"
    BY DEF FrameType, IfFrame
  <1>17. FrameFine(g3, f)
    BY <1>1, <1>15, <1>16 DEF FrameFine
  <1>18. Waits(f) = {m + 2, m + 3}
    BY <1>16 DEF Waits
  <1>19. Waits(f) \cap Waiting(list) = {}
    BY <1>1, <1>18
  <1>20. \A i \in DOMAIN list : list[i].kind = "else" => list[i].thenEnd \notin Waits(f)
    BY <1>1, <1>18
  <1>21. /\ OpenFine(g3, Append(list, f)) /\ Known(g3, Append(names, NoScope))
         /\ Nested(Append(list, f), Append(names, NoScope))
         /\ Waiting(Append(list, f)) = w
         /\ Headers(Append(list, f)) = Headers(list)
    <2>1. /\ OpenFine(g3, Append(list, f)) /\ Known(g3, Append(names, NoScope))
          /\ Nested(Append(list, f), Append(names, NoScope))
          /\ Waiting(Append(list, f)) = Waiting(list) \cup Waits(f)
          /\ Headers(Append(list, f)) = Headers(list)
      BY <1>15, <1>16, <1>17, <1>19, <1>20, NodeBegun DEF PlanOf
    <2> QED BY <1>7, <1>18, <2>1
  <1>22. n + 1 \in Nat
    BY DEF PlanOf
  <1>23. PlanOf(g3, Append(names, NoScope), m + 1, Append(list, f), n + 1)
    BY <1>12, <1>13, <1>21, <1>22 DEF PlanOf
  <1> QED BY <1>2, <1>3, <1>4, <1>5, <1>23

(* Its else-branch begins where the first one is at its end.               *)
LEMMA ElseBegins ==
    ASSUME NEW g, NEW names, NEW b, NEW list, NEW n, PlanOf(g, names, b, list, n),
           list # <<>>, NEW f, f = Last(list), f.kind = "if", NEW reached \in BOOLEAN,
           NEW e \in ElseFrame, e.before = f.before, e.join = f.join, e.thenEnd = b,
           e.then = Front(names)
    PROVE  PlanOf(IF reached THEN Linked(g, b, {f.join}) ELSE g, Append(f.before, NoScope),
                  f.else, Append(Front(list), e), n)
  <1>1. PICK old, names2, w : old = Front(list) /\ names2 = f.before /\ w = Waiting(old) \cup {f.join}
    OBVIOUS
  <1>2. /\ OpenFine(g, old) /\ FrameFine(g, f)
        /\ Waiting(list) = Waiting(old) \cup Waits(f)
        /\ Waits(f) \cap Waiting(old) = {}
        /\ Known(g, Front(names)) /\ SameShape(f.before, Front(names)) /\ Known(g, f.before)
        /\ \A other : SameShape(f.before, other) => Nested(old, other)
    BY <1>1, NodeEnded DEF PlanOf
  <1>3. Waits(f) = {f.else, f.join} /\ f.else # f.join
    BY <1>2 DEF Waits, FrameFine
  <1>4. /\ Headers(old) \subseteq Headers(list)
        /\ \A i \in DOMAIN old : old[i].kind = "else" => old[i].thenEnd \notin Waiting(list)
    BY <1>1, FramePopped DEF PlanOf
  <1>5. PlanGraph(g, Headers(old), b, Waiting(list)) /\ b \in Blocks(g) /\ b \notin Waiting(list)
        /\ g \in GraphType
    <2>1. PlanGraph(g, Headers(old), b, Waiting(list))
      BY <1>4, GoesOn DEF PlanOf
    <2> QED BY <2>1 DEF PlanOf, PlanGraph, SoundGraph
  <1>6. /\ w \in SUBSET Waiting(list) /\ b \notin w /\ f.join \in w /\ f.else \in Waiting(list)
        /\ f.else # b /\ f.else \notin w
    BY <1>1, <1>2, <1>3, <1>5
  <1>7. PICK to : to = {f.join}
    OBVIOUS
  <1>8. PICK g2 : g2 = IF reached THEN Linked(g, b, to) ELSE g
    OBVIOUS
  <1>9. PlanGraph(g2, Headers(old), f.else, w) /\ Values(g2) = Values(g) /\ Blocks(g2) = Blocks(g)
    <2>1. CASE reached
      <3>1. to \in SUBSET Waiting(list)
        BY <1>6, <1>7
      <3>2. PlanGraph(g2, Headers(old), f.else, w)
        BY <1>5, <1>6, <1>8, <2>1, <3>1, EdgeToWaiting
      <3>3. to \in SUBSET Nat
        <4>1. Waiting(list) \subseteq Blocks(g)
          BY <1>5 DEF PlanGraph
        <4> QED BY <1>5, <3>1, <4>1, GraphShape
      <3> QED BY <1>5, <1>8, <2>1, <3>2, <3>3, LinkedShape
    <2>2. CASE ~reached
      BY <1>5, <1>6, <1>8, <2>2, GoesOn
    <2> QED BY <2>1, <2>2
  <1>10. OpenFine(g2, old) /\ Known(g2, names2) /\ Known(g2, e.then)
    BY <1>1, <1>2, <1>9, StillKnown
  <1>11. Nested(old, names2)
    <2>1. SameShape(f.before, names2)
      BY <1>1 DEF SameShape, SameNames
    <2> QED BY <1>2, <2>1
  <1>12. e \in FrameType /\ e.kind = "else"
    BY DEF FrameType, ElseFrame
  <1>13. FrameFine(g2, e)
    BY <1>1, <1>2, <1>5, <1>9, <1>10, <1>12 DEF FrameFine
  <1>14. Waits(e) = {f.join}
    BY <1>12 DEF Waits
  <1>15. /\ Waits(e) \cap Waiting(old) = {}
         /\ e.thenEnd \notin Waiting(old) \cup Waits(e)
         /\ \A i \in DOMAIN old : old[i].kind = "else" => old[i].thenEnd \notin Waits(e)
    BY <1>2, <1>3, <1>4, <1>5, <1>14
  <1>16. e.kind # "block" => e.before = names2
    BY <1>1
  <1>17. /\ OpenFine(g2, Append(old, e)) /\ Known(g2, Append(names2, NoScope))
         /\ Nested(Append(old, e), Append(names2, NoScope))
         /\ Waiting(Append(old, e)) = Waiting(old) \cup Waits(e)
         /\ Headers(Append(old, e)) = Headers(old)
    BY <1>10, <1>11, <1>12, <1>13, <1>15, <1>16, NodeBegun
  <1>18. Waiting(Append(old, e)) = w
    BY <1>1, <1>14, <1>17
  <1>19. PlanOf(g2, Append(names2, NoScope), f.else, Append(old, e), n)
    BY <1>6, <1>9, <1>17, <1>18 DEF PlanOf
  <1> QED BY <1>1, <1>7, <1>8, <1>19

(* It ends: what the planner knows after it is known of the values so far. *)
LEMMA IfEnds ==
    ASSUME NEW g, NEW names, NEW b, NEW list, NEW n, PlanOf(g, names, b, list, n),
           list # <<>>, NEW f, f = Last(list), f.kind = "else", NEW reached \in BOOLEAN,
           NEW names2, Known(g, names2), SameShape(f.before, names2)
    PROVE  PlanOf(IF reached THEN Linked(g, b, {f.join}) ELSE g, names2, f.join, Front(list), n)
  <1>1. PICK old : old = Front(list)
    OBVIOUS
  <1>2. /\ OpenFine(g, old) /\ FrameFine(g, f)
        /\ Waiting(list) = Waiting(old) \cup Waits(f)
        /\ Waits(f) \cap Waiting(old) = {}
        /\ Nested(old, names2)
    BY <1>1, NodeEnded DEF PlanOf
  <1>3. Waits(f) = {f.join}
    BY DEF Waits
  <1>4. Headers(old) \subseteq Headers(list)
    BY <1>1, FramePopped DEF PlanOf
  <1>5. PlanGraph(g, Headers(old), b, Waiting(list)) /\ b \in Blocks(g) /\ b \notin Waiting(list)
        /\ g \in GraphType
    <2>1. PlanGraph(g, Headers(old), b, Waiting(list))
      BY <1>4, GoesOn DEF PlanOf
    <2> QED BY <2>1 DEF PlanOf, PlanGraph, SoundGraph
  <1>6. /\ Waiting(old) \in SUBSET Waiting(list) /\ b \notin Waiting(old) /\ f.join \in Waiting(list)
        /\ f.join # b /\ f.join \notin Waiting(old)
    BY <1>2, <1>3, <1>5
  <1>7. PICK to : to = {f.join}
    OBVIOUS
  <1>8. PICK g2 : g2 = IF reached THEN Linked(g, b, to) ELSE g
    OBVIOUS
  <1>9. PlanGraph(g2, Headers(old), f.join, Waiting(old)) /\ Values(g2) = Values(g) /\ Blocks(g2) = Blocks(g)
    <2>1. CASE reached
      <3>1. to \in SUBSET Waiting(list)
        BY <1>6, <1>7
      <3>2. PlanGraph(g2, Headers(old), f.join, Waiting(old))
        BY <1>5, <1>6, <1>8, <2>1, <3>1, EdgeToWaiting
      <3>3. to \in SUBSET Nat
        <4>1. Waiting(list) \subseteq Blocks(g)
          BY <1>5 DEF PlanGraph
        <4> QED BY <1>5, <3>1, <4>1, GraphShape
      <3> QED BY <1>5, <1>8, <2>1, <3>2, <3>3, LinkedShape
    <2>2. CASE ~reached
      BY <1>5, <1>6, <1>8, <2>2, GoesOn
    <2> QED BY <2>1, <2>2
  <1>10. OpenFine(g2, old) /\ Known(g2, names2)
    BY <1>2, <1>9, StillKnown
  <1>11. PlanOf(g2, names2, f.join, old, n)
    BY <1>2, <1>6, <1>9, <1>10 DEF PlanOf
  <1> QED BY <1>1, <1>7, <1>8, <1>11

(* A loop ends.                                                            *)
LEMMA LoopEnds ==
    ASSUME NEW g, NEW names, NEW b, NEW list, NEW n, PlanOf(g, names, b, list, n),
           list # <<>>, NEW f, f = Last(list), f.kind = "for", NEW reached \in BOOLEAN
    PROVE  PlanOf(IF reached THEN Linked(g, b, {f.header}) ELSE g, f.before, f.exit, Front(list), n)
  <1>1. PICK old, names2 : old = Front(list) /\ names2 = f.before
    OBVIOUS
  <1>2. /\ OpenFine(g, old) /\ FrameFine(g, f)
        /\ Waiting(list) = Waiting(old) \cup Waits(f)
        /\ Waits(f) \cap Waiting(old) = {}
        /\ Known(g, names2) /\ Nested(old, names2)
    <2>1. SameShape(f.before, names2)
      BY <1>1 DEF SameShape, SameNames
    <2> QED BY <1>1, <2>1, NodeEnded DEF PlanOf
  <1>3. Waits(f) = {f.exit}
    BY DEF Waits
  <1>4. Headers(old) \subseteq Headers(list) /\ f.header \in Headers(list)
    BY <1>1, FramePopped DEF PlanOf
  <1>5. PlanGraph(g, Headers(list), b, Waiting(list)) /\ b \in Blocks(g) /\ b \notin Waiting(list)
        /\ g \in GraphType
    BY DEF PlanOf, PlanGraph, SoundGraph
  <1>6. /\ Waiting(old) \in SUBSET Waiting(list) /\ b \notin Waiting(old) /\ f.exit \in Waiting(list)
        /\ f.exit # b /\ f.exit \notin Waiting(old)
    BY <1>2, <1>3, <1>5
  <1>7. PICK to : to = {f.header}
    OBVIOUS
  <1>8. PICK g2 : g2 = IF reached THEN Linked(g, b, to) ELSE g
    OBVIOUS
  <1>9. PlanGraph(g2, Headers(list), f.exit, Waiting(old)) /\ Values(g2) = Values(g) /\ Blocks(g2) = Blocks(g)
    <2>1. CASE reached
      <3>1. PlanGraph(g2, Headers(list), f.exit, Waiting(old))
        BY <1>4, <1>5, <1>6, <1>7, <1>8, <2>1, LoopEnded
      <3>2. to \in SUBSET Nat
        <4>1. LoopEscapes(g, f.header)
          BY <1>4, <1>5 DEF PlanGraph
        <4>2. f.header \in Blocks(g)
          BY <4>1 DEF LoopEscapes
        <4> QED BY <1>5, <1>7, <4>2, GraphShape
      <3> QED BY <1>5, <1>8, <2>1, <3>1, <3>2, LinkedShape
    <2>2. CASE ~reached
      BY <1>5, <1>6, <1>8, <2>2, GoesOn
    <2> QED BY <2>1, <2>2
  <1>10. OpenFine(g2, old) /\ Known(g2, names2)
    BY <1>2, <1>9, StillKnown
  <1>11. PlanGraph(g2, Headers(old), f.exit, Waiting(old))
    BY <1>4, <1>9, GoesOn
  <1>12. PlanOf(g2, names2, f.exit, old, n)
    BY <1>2, <1>6, <1>10, <1>11 DEF PlanOf
  <1> QED BY <1>1, <1>7, <1>8, <1>12

-----------------------------------------------------------------------------
(* A table gets another entry.                                             *)
LEMMA EntryAdded ==
    ASSUME NEW g \in GraphType, NEW v, v = Len(g.table) + 1,
           NEW entry \in EntryType, IsPlaced(entry, g, v), NEW t, HasEntry(t, g, entry)
    PROVE  Extends(t, g) /\ v \in 1..Len(t) /\ t[v] = entry /\ v \in Nat
  <1>1. g.table \in Seq(EntryType) /\ Len(g.table) \in Nat /\ Values(g) = 1..Len(g.table)
    BY GraphShape DEF GraphType
  <1>2. /\ t \in Seq(EntryType) /\ Len(t) = Len(g.table) + 1
        /\ \A i \in 1..Len(g.table) : t[i] = g.table[i]
        /\ t[v] = entry
    BY <1>1, AppendProperties DEF HasEntry
  <1>3. /\ \A u \in (Len(g.table) + 1)..Len(t) : u = v
        /\ Len(t) >= Len(g.table) /\ v \in 1..Len(t) /\ v \in Nat
    BY <1>1, <1>2
  <1>4. Extends(t, g)
    BY <1>1, <1>2, <1>3 DEF Extends, IsPlaced
  <1> QED BY <1>2, <1>3, <1>4

(* The shapes, once more: what the graphs have in common.                  *)
LEMMA AppendedKeeps ==
    ASSUME NEW g \in GraphType, NEW b \in Blocks(g), NEW s \in StatementType,
           NEW g2, g2 = Appended(g, b, s)
    PROVE  /\ g2 \in GraphType /\ Len(g2.blocks) = Len(g.blocks) /\ g2.table = g.table
           /\ Values(g2) = Values(g) /\ Blocks(g2) = Blocks(g)
  BY AppendedShape

(* An edge changes neither the table nor which blocks there are.         *)
LEMMA LinkedKeeps ==
    ASSUME NEW g \in GraphType, NEW b \in Blocks(g), NEW to \in SUBSET Nat,
           NEW g2, g2 = Linked(g, b, to)
    PROVE  /\ g2 \in GraphType /\ g2.table = g.table
           /\ Values(g2) = Values(g) /\ Blocks(g2) = Blocks(g)
  BY LinkedShape

(* Nor does what is recorded of a statement in a loop.                   *)
LEMMA RecordedKeeps ==
    ASSUME NEW g \in GraphType, NEW b \in Blocks(g), NEW s \in StatementType,
           IsFiniteSet(s.definitions), NEW g2, g2 = Recorded(g, b, s, TRUE)
    PROVE  Values(g2) = Values(g) /\ Blocks(g2) = Blocks(g)
  BY RecordedShape

(* The variable of a loop gets a scope, and so does its body.              *)
LEMMA TwoScopes ==
    ASSUME NEW g, NEW list, Known(g, list), NEW x \in Names, NEW v \in Values(g), v \in Nat,
           NEW s, s = Bound(NoScope, x, v)
    PROVE  LET both == Append(Append(list, s), NoScope)
           IN  Known(g, both) /\ Len(both) = Len(list) + 2 /\ SameNames(list, both) /\ Len(list) \in Nat
  <1>1. s \in ScopeType /\ \A y \in DOMAIN s : s[y] \in Values(g)
    <2>1. DOMAIN s = {x} /\ s[x] = v /\ s = [y \in {x} |-> v]
      BY DEF Bound, NoScope
    <2>2. s \in [{x} -> Nat] /\ {x} \in SUBSET Names
      BY <2>1
    <2>3. s \in ScopeType
      BY <2>2 DEF ScopeType
    <2> QED BY <2>1, <2>3
  <1>2. PICK one : one = Append(list, s)
    OBVIOUS
  <1>3. /\ Known(g, one) /\ Len(list) \in Nat
        /\ Len(one) = Len(list) + 1 /\ SameNames(list, one)
    BY <1>1, <1>2, ScopePushed
  <1>4. /\ Known(g, Append(one, NoScope))
        /\ Len(Append(one, NoScope)) = Len(one) + 1 /\ SameNames(one, Append(one, NoScope))
    BY <1>3, ScopePushed, EmptyScope
  <1>7. SameNames(list, Append(one, NoScope))
    <2>1. \A i \in 1..Len(list) : i \in 1..Len(one)
      BY <1>3
    <2> QED BY <1>3, <1>4, <2>1 DEF SameNames
  <1>8. Len(Append(one, NoScope)) = Len(list) + 2
    BY <1>3, <1>4
  <1> QED BY <1>2, <1>3, <1>4, <1>7, <1>8

(* A loop begins: what its blocks lead to, and the value of its variable.  *)
LEMMA LoopBegins ==
    ASSUME NEW g, NEW names, NEW b, NEW list, NEW n, PlanOf(g, names, b, list, n),
           NEW s \in StatementType, s.definitions = {}, NEW m, m = Len(g.blocks),
           NEW v, v = Len(g.table) + 1, NEW entry \in EntryType, IsPlaced(entry, g, v),
           NEW t, HasEntry(t, g, entry),
           NEW g2, HasTable(g2, Grown(Appended(g, b, s)), t),
           NEW r \in StatementType, r.definitions = {v}, NEW x \in Names,
           NEW f \in ForFrame, f.before = names, f.header = m + 1, f.exit = m + 3
    PROVE  PlanOf(Recorded(Linked(Linked(g2, b, {m + 1}), m + 1, {m + 2, m + 3}), m + 2, r, TRUE),
                  Append(Append(names, Bound(NoScope, x, v)), NoScope), m + 2, Append(list, f), n + 1)
  <1>1. /\ g \in GraphType /\ m \in Nat /\ Blocks(g) = 1..m
        /\ b \in 1..m /\ Waiting(list) \subseteq 1..m
        /\ \A i \in DOMAIN list : list[i].kind = "else" => list[i].thenEnd \in 1..m
    BY WaitingExist
  <1>2. PICK g0 : g0 = Appended(g, b, s)
    OBVIOUS
  <1>3. PICK g1 : g1 = Grown(g0)
    OBVIOUS
  <1>4. PICK new, w1, w2 : /\ new = {m + 1, m + 2, m + 3}
                           /\ w1 = Waiting(list) \cup new /\ w2 = Waiting(list) \cup {m + 3}
    OBVIOUS
  <1>5. /\ m \in Nat /\ b \in 1..m /\ b \notin w1 /\ m + 1 \notin Waiting(list)
        /\ m + 2 \notin Waiting(list) /\ m + 3 \notin Waiting(list)
        /\ m + 1 # m + 2 /\ m + 1 # m + 3 /\ m + 2 # m + 3
        /\ \A i \in DOMAIN list : list[i].kind = "else" => list[i].thenEnd # m + 3
    <2>1. b \notin Waiting(list)
      BY DEF PlanOf
    <2>2. b \notin new
      BY <1>1, <1>4
    <2> QED BY <1>1, <1>4, <2>1, <2>2
  <1>6. /\ g0 \in GraphType /\ Len(g0.blocks) = m /\ g0.table = g.table
        /\ Values(g0) = Values(g) /\ Blocks(g0) = Blocks(g)
    <2>1. b \in Blocks(g)
      BY <1>1
    <2>2. /\ g0 \in GraphType /\ Len(g0.blocks) = Len(g.blocks) /\ g0.table = g.table
          /\ Values(g0) = Values(g) /\ Blocks(g0) = Blocks(g)
      BY <1>1, <1>2, <2>1, AppendedKeeps
    <2> QED BY <2>2
  <1>7. PlanGraph(g0, Headers(list), b, Waiting(list))
    BY <1>1, <1>2, UseAdded DEF PlanOf
  <1>8. PlanGraph(g1, Headers(list), b, w1)
    BY <1>3, <1>4, <1>6, <1>7, BlocksAdded
  <1>9. /\ g1 \in GraphType /\ g1.table = g.table /\ Values(g1) = Values(g) /\ Blocks(g1) = 1..m + 3
    BY <1>3, <1>6, GrownShape
  <1>10. Extends(t, g1) /\ v \in 1..Len(t) /\ t[v] = entry /\ v \in Nat
    <2>1. IsPlaced(entry, g1, v)
      BY <1>9 DEF IsPlaced
    <2>2. HasEntry(t, g1, entry) /\ v = Len(g1.table) + 1
      BY <1>9 DEF HasEntry
    <2> QED BY <1>9, <2>1, <2>2, EntryAdded
  <1>11. PlanGraph(g2, Headers(list), b, w1) /\ g2.table = t /\ g2.blocks = g1.blocks
    <2>1. HasTable(g2, g1, t)
      BY <1>2, <1>3
    <2>2. \A headers, waiting : PlanGraph(g1, headers, b, waiting) /\ Extends(t, g1) =>
             PlanGraph(g2, headers, b, waiting) /\ g2.table = t /\ g2.blocks = g1.blocks
      BY <2>1, ValuesAdded
    <2> QED BY <1>8, <1>10, <2>2
  <1>12. /\ g2 \in GraphType /\ Blocks(g2) = 1..m + 3 /\ Values(g2) = 1..Len(t)
         /\ Values(g) \subseteq Values(g2) /\ v \in Values(g2)
    <2>1. g2 \in GraphType
      BY <1>11 DEF PlanGraph, SoundGraph
    <2>2. Blocks(g2) = Blocks(g1)
      BY <1>11 DEF Blocks
    <2>3. Values(g2) = 1..Len(t) /\ Values(g1) = 1..Len(g1.table)
      BY <1>9, <1>11, <2>1, GraphShape
    <2>4. Len(t) \in Nat /\ Len(g1.table) \in Nat /\ Len(t) >= Len(g1.table)
      BY <1>9, <1>10, GraphShape, LenProperties DEF Extends
    <2> QED BY <1>9, <1>10, <2>1, <2>2, <2>3, <2>4
  <1>13. PICK to, both : to = {m + 1} /\ both = {m + 2, m + 3}
    OBVIOUS
  <1>14. PICK g3 : g3 = Linked(g2, b, to)
    OBVIOUS
  <1>15. PlanGraph(g3, Headers(list), m + 1, w1)
    <2>1. b \in Blocks(g2)
      BY <1>1, <1>12
    <2>2. to \in SUBSET w1 /\ m + 1 \in w1 /\ m + 1 # b /\ b \notin w1
      BY <1>4, <1>5, <1>13
    <2> QED BY <1>11, <1>14, <2>1, <2>2, EdgeToWaiting
  <1>16. PICK g4 : g4 = Linked(g3, m + 1, both)
    OBVIOUS
  <1>17. PlanGraph(g4, Headers(list) \cup {m + 1}, m + 2, w2)
    <2>1. /\ m + 2 \in w1 /\ m + 3 \in w1 /\ m + 1 \in w1 /\ m + 2 # m + 1 /\ m + 3 # m + 1
          /\ w2 \in SUBSET w1 /\ m + 1 \notin w2
      BY <1>4, <1>5
    <2> QED BY <1>13, <1>15, <1>16, <2>1, LoopBegun
  <1>18. /\ g4 \in GraphType /\ g4.table = t /\ Values(g4) = Values(g2) /\ Blocks(g4) = 1..m + 3
    <2>0. g2 \in GraphType
      BY <1>12
    <2>1. b \in Blocks(g2) /\ to \in SUBSET Nat /\ both \in SUBSET Nat /\ m + 1 \in Blocks(g2)
      BY <1>1, <1>12, <1>13
    <2>2. g3 \in GraphType /\ g3.table = g2.table /\ Values(g3) = Values(g2) /\ Blocks(g3) = Blocks(g2)
      BY <1>14, <2>0, <2>1, LinkedKeeps
    <2>3. m + 1 \in Blocks(g3)
      BY <2>1, <2>2
    <2>4. g4 \in GraphType /\ g4.table = g3.table /\ Values(g4) = Values(g3) /\ Blocks(g4) = Blocks(g3)
      BY <1>16, <2>1, <2>2, <2>3, LinkedKeeps
    <2> QED BY <1>11, <1>12, <2>2, <2>4
  <1>19. MayDefine(g4, r.definitions) /\ IsFiniteSet(r.definitions)
    <2>1. entry.sources \cap {v} = {}
      <3>1. v \notin Values(g)
        BY <1>1, GraphShape
      <3> QED BY <3>1 DEF IsPlaced
    <2>2. IsFiniteSet({v})
      BY FS_Singleton
    <2>3. v \in Values(g4) /\ g4.table[v] = entry
      BY <1>10, <1>12, <1>18
    <2> QED BY <2>1, <2>2, <2>3 DEF MayDefine
  <1>20. PICK g5 : g5 = Recorded(g4, m + 2, r, TRUE)
    OBVIOUS
  <1>21. PlanGraph(g5, Headers(list) \cup {m + 1}, m + 2, w2)
    <2>1. m + 2 \notin w2
      BY <1>4, <1>5
    <2> QED BY <1>17, <1>19, <1>20, <2>1, StatementRecorded
  <1>22. Values(g5) = Values(g2) /\ Blocks(g5) = 1..m + 3
    <2>1. m + 2 \in Blocks(g4)
      BY <1>1, <1>18
    <2>2. Values(g5) = Values(g4) /\ Blocks(g5) = Blocks(g4)
      <3>1. g4 \in GraphType /\ IsFiniteSet(r.definitions)
        BY <1>18, <1>19
      <3> QED BY <1>20, <2>1, <3>1, RecordedKeeps
    <2> QED BY <1>18, <2>2
  <1>23. OpenFine(g5, list) /\ Known(g5, names)
    <2>1. Blocks(g) \subseteq Blocks(g5)
      BY <1>1, <1>22
    <2> QED BY <1>12, <1>22, <2>1, StillKnown DEF PlanOf
  <1>24. f \in FrameType /\ f.kind = "for"
    BY DEF FrameType, ForFrame
  <1>25. FrameFine(g5, f) /\ Waits(f) = {m + 3} /\ Opened(f) = 2
    BY <1>23, <1>24 DEF FrameFine, Waits, Opened
  <1>26. /\ Waits(f) \cap Waiting(list) = {}
         /\ \A i \in DOMAIN list : list[i].kind = "else" => list[i].thenEnd \notin Waits(f)
    BY <1>5, <1>25
  <1>27. /\ OpenFine(g5, Append(list, f))
         /\ Waiting(Append(list, f)) = Waiting(list) \cup Waits(f)
         /\ Headers(Append(list, f)) = Headers(list) \cup {f.header}
         /\ list \in Seq(FrameType)
    BY <1>23, <1>24, <1>25, <1>26, FramePushed
  <1>28. PICK names2 : names2 = Append(Append(names, Bound(NoScope, x, v)), NoScope)
    OBVIOUS
  <1>29. Known(g5, names2) /\ Len(names2) = Len(names) + 2 /\ SameNames(names, names2)
    <2>1. v \in Values(g5)
      BY <1>12, <1>22
    <2>2. PICK one : one = Bound(NoScope, x, v)
      OBVIOUS
    <2> QED BY <1>10, <1>23, <1>28, <2>1, <2>2, TwoScopes
  <1>30. Nested(Append(list, f), names2)
    <2>1. Len(names2) = Len(names) + Opened(f)
      BY <1>25, <1>29
    <2>2. Len(f.before) = Len(names) /\ SameNames(f.before, names)
      BY DEF SameNames
    <2>3. Nested(list, names)
      BY DEF PlanOf
    <2> QED BY <1>24, <1>27, <1>29, <2>1, <2>2, <2>3, NestedPushed
  <1>31. PlanGraph(g5, Headers(Append(list, f)), m + 2, Waiting(Append(list, f)))
    BY <1>4, <1>21, <1>25, <1>27
  <1>32. m + 2 \notin Waiting(Append(list, f)) /\ n + 1 \in Nat
    BY <1>5, <1>25, <1>27 DEF PlanOf
  <1>33. PlanOf(g5, names2, m + 2, Append(list, f), n + 1)
    BY <1>27, <1>29, <1>30, <1>31, <1>32 DEF PlanOf
  <1> QED BY <1>13, <1>14, <1>16, <1>20, <1>28, <1>33

(* Values joined after a conditional: the names get them, and what may be  *)
(* in the same place escapes at the end of either branch and after them.   *)
IsJoin(g, g0, t, list, c1, c2, s1, s2, s3, s4) ==
    /\ Extends(t, g) /\ HasTable(g0, g, t)
    /\ \A v \in (Len(g.table) + 1)..Len(t) : t[v].sources = {}
    /\ c1 \in Blocks(g) /\ c1 \notin Waiting(list) /\ c2 \in Blocks(g) /\ c2 \notin Waiting(list)
    /\ s1 \in StatementType /\ s1.definitions = {} /\ s2 \in StatementType /\ s2.definitions = {}
    /\ s3 \in StatementType /\ s3.definitions = (Len(g.table) + 1)..Len(t)
    /\ s4 \in StatementType /\ s4.definitions = {} /\ s3.definitions \subseteq UsedFor(s4, "Escape")
(* The names after a conditional: the same, each with a value of the     *)
(* table.                                                                *)
HasNames(names, names2, t) ==
    /\ names2 \in Seq(ScopeType) /\ SameShape(names, names2)
    /\ \A i \in DOMAIN names2 : \A x \in DOMAIN names2[i] : names2[i][x] \in 1..Len(t)

(* With these statements the plan is one still, and knows the names.     *)
LEMMA JoinRecorded ==
    ASSUME NEW g, NEW names, NEW b, NEW list, NEW n, PlanOf(g, names, b, list, n),
           NEW g0, NEW t, NEW c1, NEW c2, NEW s1, NEW s2, NEW s3, NEW s4,
           IsJoin(g, g0, t, list, c1, c2, s1, s2, s3, s4),
           NEW names2, HasNames(names, names2, t)
    PROVE  PlanOf(Appended(Appended(Appended(Appended(g0, c1, s1), c2, s2), b, s3), b, s4),
                  names2, b, list, n)
  <1>0. PICK V : V = (Len(g.table) + 1)..Len(t)
    OBVIOUS
  <1>0a. Extends(t, g) /\ HasTable(g0, g, t) /\ \A v \in V : t[v].sources = {}
    BY <1>0 DEF IsJoin
  <1>0b. c1 \in Blocks(g) /\ c1 \notin Waiting(list) /\ c2 \in Blocks(g) /\ c2 \notin Waiting(list)
    BY DEF IsJoin
  <1>0c. /\ s1 \in StatementType /\ s1.definitions = {} /\ s2 \in StatementType /\ s2.definitions = {}
        /\ s3 \in StatementType /\ s3.definitions = V
        /\ s4 \in StatementType /\ s4.definitions = {} /\ s3.definitions \subseteq UsedFor(s4, "Escape")
    BY <1>0 DEF IsJoin
  <1>0d. /\ names2 \in Seq(ScopeType) /\ SameShape(names, names2)
        /\ \A i \in DOMAIN names2 : \A x \in DOMAIN names2[i] : names2[i][x] \in 1..Len(t)
    BY DEF HasNames
  <1>1. g \in GraphType /\ b \in Blocks(g) /\ PlanGraph(g, Headers(list), b, Waiting(list))
    BY DEF PlanOf, PlanGraph, SoundGraph
  <1>2. PlanGraph(g0, Headers(list), b, Waiting(list)) /\ g0.table = t /\ g0.blocks = g.blocks
    <2>1. \A headers, waiting : PlanGraph(g, headers, b, waiting) /\ Extends(t, g) =>
             PlanGraph(g0, headers, b, waiting) /\ g0.table = t /\ g0.blocks = g.blocks
      BY <1>0a, ValuesAdded
    <2> QED BY <1>1, <1>0a, <2>1
  <1>3. g0 \in GraphType /\ Blocks(g0) = Blocks(g) /\ Values(g0) = 1..Len(t)
    <2>1. g0 \in GraphType
      BY <1>2 DEF PlanGraph, SoundGraph
    <2>2. Blocks(g0) = Blocks(g)
      BY <1>2 DEF Blocks
    <2> QED BY <1>2, <2>1, <2>2, GraphShape
  <1>4. PICK g1 : g1 = Appended(g0, c1, s1)
    OBVIOUS
  <1>5. PlanGraph(g1, Headers(list), b, Waiting(list))
    BY <1>2, <1>3, <1>4, <1>0b, <1>0c, UseAdded
  <1>6. /\ g1 \in GraphType /\ g1.table = t
        /\ Values(g1) = 1..Len(t) /\ Blocks(g1) = Blocks(g)
    <2>1. c1 \in Blocks(g0) /\ g0 \in GraphType /\ s1 \in StatementType
      BY <1>3, <1>0b, <1>0c
    <2>2. g1.table = g0.table /\ Values(g1) = Values(g0) /\ Blocks(g1) = Blocks(g0) /\ g1 \in GraphType
      BY <1>4, <2>1, AppendedKeeps
    <2> QED BY <1>2, <1>3, <2>2
  <1>7. PICK g2 : g2 = Appended(g1, c2, s2)
    OBVIOUS
  <1>8. PlanGraph(g2, Headers(list), b, Waiting(list))
    BY <1>5, <1>6, <1>7, <1>0b, <1>0c, UseAdded
  <1>9. /\ g2 \in GraphType /\ g2.table = t
        /\ Values(g2) = 1..Len(t) /\ Blocks(g2) = Blocks(g)
    <2>1. c2 \in Blocks(g1) /\ g1 \in GraphType /\ s2 \in StatementType
      BY <1>6, <1>0b, <1>0c
    <2>2. g2.table = g1.table /\ Values(g2) = Values(g1) /\ Blocks(g2) = Blocks(g1) /\ g2 \in GraphType
      BY <1>7, <2>1, AppendedKeeps
    <2> QED BY <1>6, <2>2
  <1>10. MayDefine(g2, s3.definitions)
    <2>1. V \subseteq 1..Len(t)
      <3>1. Len(g.table) \in Nat /\ Len(t) \in Nat
        BY <1>1, <1>0a, GraphShape, LenProperties DEF Extends
      <3> QED BY <1>0, <3>1
    <2> QED BY <1>9, <1>0a, <1>0c, <2>1 DEF MayDefine
  <1>11. PICK g3 : g3 = Appended(g2, b, s3)
    OBVIOUS
  <1>12. PICK g4 : g4 = Appended(g3, b, s4)
    OBVIOUS
  <1>13. PlanGraph(g4, Headers(list), b, Waiting(list))
    <2>1. b \notin Waiting(list)
      BY DEF PlanOf
    <2>2. s3.definitions \subseteq UsedFor(s4, "Escape") /\ s4.definitions = {}
      BY <1>0c
    <2>3. s3 \in StatementType /\ s4 \in StatementType
      BY <1>0c
    <2> QED BY <1>8, <1>10, <1>11, <1>12, <2>1, <2>2, <2>3, EscapingAdded
  <1>14. Values(g4) = 1..Len(t) /\ Blocks(g4) = Blocks(g)
    <2>1. b \in Blocks(g2) /\ g2 \in GraphType /\ s3 \in StatementType /\ s4 \in StatementType
      BY <1>1, <1>9, <1>0c
    <2>2. Values(g3) = Values(g2) /\ Blocks(g3) = Blocks(g2) /\ g3 \in GraphType
      BY <1>11, <2>1, AppendedKeeps
    <2>3. b \in Blocks(g3)
      BY <2>1, <2>2
    <2>4. Values(g4) = Values(g3) /\ Blocks(g4) = Blocks(g3)
      BY <1>12, <2>1, <2>2, <2>3, AppendedKeeps
    <2> QED BY <1>9, <2>2, <2>4
  <1>15. Values(g) \subseteq Values(g4)
    <2>1. Values(g) = 1..Len(g.table) /\ Len(g.table) \in Nat
      BY <1>1, GraphShape
    <2>2. Len(t) \in Nat /\ Len(t) >= Len(g.table)
      BY <1>0a, LenProperties DEF Extends
    <2> QED BY <1>14, <2>1, <2>2
  <1>16. OpenFine(g4, list)
    <2>1. Blocks(g) \subseteq Blocks(g4)
      BY <1>14
    <2> QED BY <1>15, <2>1, StillKnown DEF PlanOf
  <1>17. Known(g4, names2)
    BY <1>14, <1>0d DEF Known
  <1>18. Nested(list, names2)
    <2>1. Len(list) \in Nat /\ Nested(list, names)
      BY LenProperties DEF PlanOf, OpenFine
    <2>2. Len(names) \in Nat
      BY LenProperties DEF PlanOf, Known
    <2>3. \A i \in 1..Len(names) - 1 : i \in 1..Len(names)
      BY <2>2
    <2>4. \A i \in 1..Len(names) - 1 : DOMAIN names2[i] = DOMAIN names[i]
      BY <1>0d, <2>3 DEF SameShape, SameNames
    <2>5. Len(names2) = Len(names)
      BY <1>0d DEF SameShape
    <2> QED BY <2>1, <2>4, <2>5, NestedKept
  <1>19. PlanOf(g4, names2, b, list, n)
    BY <1>13, <1>16, <1>17, <1>18 DEF PlanOf
  <1> QED BY <1>4, <1>7, <1>11, <1>12, <1>19

(* The same names may have other values that are there.                    *)
LEMMA NamesChanged ==
    ASSUME NEW g, NEW names, NEW b, NEW list, NEW n, PlanOf(g, names, b, list, n),
           NEW names2, Known(g, names2), SameShape(names, names2)
    PROVE  PlanOf(g, names2, b, list, n)
  <1>1. Nested(list, names2)
    <2>1. Len(list) \in Nat /\ Nested(list, names)
      BY LenProperties DEF PlanOf, OpenFine
    <2>2. Len(names) \in Nat
      BY LenProperties DEF PlanOf, Known
    <2>3. \A i \in 1..Len(names) - 1 : i \in 1..Len(names)
      BY <2>2
    <2>4. \A i \in 1..Len(names) - 1 : DOMAIN names2[i] = DOMAIN names[i]
      BY <2>3 DEF SameShape, SameNames
    <2>5. Len(names2) = Len(names)
      BY DEF SameShape
    <2> QED BY <2>1, <2>4, <2>5, NestedKept
  <1> QED BY <1>1 DEF PlanOf

(* The names whose value differs are finitely many, and have values.       *)
LEMMA DifferingNames ==
    ASSUME NEW f, f.before \in Seq(ScopeType), NEW after
    PROVE  /\ IsFiniteSet(Differing(f, after))
           /\ \A at \in Differing(f, after) :
                 at[1] \in DOMAIN f.before /\ at[2] \in DOMAIN f.before[at[1]] /\ at[2] \in Names
  <1>1. DOMAIN f.before = 1..Len(f.before) /\ Len(f.before) \in Nat
    BY LenProperties
  <1>2. \A i \in DOMAIN f.before : f.before[i] \in ScopeType
    BY <1>1, ElementOfSeq
  <1>3. \A i \in DOMAIN f.before : DOMAIN f.before[i] \subseteq Names
    BY <1>2 DEF ScopeType
  <1>4. ASSUME NEW at \in Differing(f, after)
        PROVE  /\ at[1] \in DOMAIN f.before /\ at[2] \in DOMAIN f.before[at[1]] /\ at[2] \in Names
               /\ at \in (1..Len(f.before)) \X Names
    <2>1. PICK i \in DOMAIN f.before : at \in {i} \X DOMAIN f.before[i]
      BY <1>4 DEF Differing
    <2>2. at[1] = i /\ at[2] \in DOMAIN f.before[i] /\ at = <<at[1], at[2]>>
      BY <2>1
    <2> QED BY <1>1, <1>3, <2>2
  <1>5. IsFiniteSet((1..Len(f.before)) \X Names)
    <2>1. IsFiniteSet(1..Len(f.before))
      BY <1>1, FS_Interval
    <2>2. IsFiniteSet(Names)
      BY NamesAssumption
    <2> QED BY <2>1, <2>2, FS_Product
  <1>6. Differing(f, after) \in SUBSET ((1..Len(f.before)) \X Names)
    BY <1>4
  <1>7. IsFiniteSet(Differing(f, after))
    BY <1>5, <1>6, FS_Subset
  <1> QED BY <1>4, <1>7

(* What is said of values after a conditional, as statements.              *)
IsSaid(s, definitions, values, id, o) ==
    s = [definitions |-> definitions, uses |-> EscapesOf(values), anchor |-> id, top |-> o]
(* Such a statement defines what it is to define, and what is to escape  *)
(* does.                                                                 *)
LEMMA JoinStatement ==
    ASSUME NEW definitions \in SUBSET Nat, NEW values \in SUBSET Nat, IsFiniteSet(values),
           NEW id \in Nat, NEW o \in Nat,
           NEW s, IsSaid(s, definitions, values, id, o)
    PROVE  s \in StatementType /\ s.definitions = definitions /\ UsedFor(s, "Escape") = values
  <1>1. s.uses = EscapesOf(values) /\ s.definitions = definitions
    BY DEF IsSaid
  <1>2. EscapesOf(values) \in Seq(UseType) /\ UsedFor(s, "Escape") = values
    BY <1>1, AllEscape
  <1>3. s \in StatementType
    BY <1>2 DEF StatementType, IsSaid
  <1> QED BY <1>1, <1>2, <1>3

(* A table gets several entries for values in places of their own.         *)
HasEntries(t, g, entries) == t = g.table \o entries
(* Each of them lives in a place of its own.                             *)
OwnPlaces(g, entries) ==
    \A i \in 1..Len(entries) :
        entries[i].sources = {} /\ entries[i].atoms = {Len(g.table) + i}
(* Such entries extend the table.                                        *)
LEMMA EntriesAdded ==
    ASSUME NEW g \in GraphType, NEW entries \in Seq(EntryType), OwnPlaces(g, entries),
           NEW t, HasEntries(t, g, entries)
    PROVE  /\ Extends(t, g) /\ Len(t) = Len(g.table) + Len(entries)
           /\ \A v \in (Len(g.table) + 1)..Len(t) : t[v].sources = {}
  <1>1. /\ g.table \in Seq(EntryType) /\ Len(g.table) \in Nat /\ Values(g) = 1..Len(g.table)
        /\ Len(entries) \in Nat
    BY GraphShape, LenProperties DEF GraphType
  <1>2. /\ t \in Seq(EntryType) /\ Len(t) = Len(g.table) + Len(entries)
        /\ \A i \in 1..Len(t) : t[i] = IF i <= Len(g.table) THEN g.table[i]
                                       ELSE entries[i - Len(g.table)]
    BY <1>1, ConcatProperties DEF HasEntries
  <1>3. \A v \in Values(g) : t[v] = g.table[v]
    BY <1>1, <1>2
  <1>4. ASSUME NEW v \in (Len(g.table) + 1)..Len(t)
        PROVE  t[v].sources = {} /\ t[v].atoms = {v}
    <2>1. /\ v \in 1..Len(t) /\ ~(v <= Len(g.table)) /\ v - Len(g.table) \in 1..Len(entries)
          /\ Len(g.table) + (v - Len(g.table)) = v
      BY <1>1, <1>2
    <2>2. PICK i : i = v - Len(g.table)
      OBVIOUS
    <2>3. t[v] = entries[i] /\ i \in 1..Len(entries) /\ Len(g.table) + i = v
      BY <1>2, <2>1, <2>2
    <2> QED BY <2>3 DEF OwnPlaces
  <1>5. Len(t) >= Len(g.table)
    BY <1>1, <1>2
  <1>6. Extends(t, g)
    BY <1>2, <1>3, <1>4, <1>5 DEF Extends
  <1> QED BY <1>2, <1>4, <1>6

(* After a conditional both of whose branches reach their end.             *)
LEMMA MergedPlans ==
    ASSUME PlanOf(graph, scopes, block, open, planned), open # <<>>,
           NEW f, f = Last(open), f.kind = "else", NEW after, after = Front(scopes),
           NEW joined, joined.table = graph.table, Blocks(joined) = Blocks(graph),
           PlanOf(joined, f.then, f.join, Front(open), planned)
    PROVE  PlanOf(Merged(f, after, joined).graph, Merged(f, after, joined).scopes,
                  f.join, Front(open), planned)
  <1> DEFINE D == Differing(f, after)
             differing == SetToSeq(D)
             New(i) == Len(graph.table) + i
             entries == [i \in DOMAIN differing |->
                 LET at == differing[i]
                 IN  Fresh(at[2], graph.table[f.before[at[1]][at[2]]].binding, New(i))]
             Of(sc) == {sc[at[1]][at[2]] : at \in ToSet(differing)}
             new == {New(i) : i \in DOMAIN differing}
             At(definitions, values) ==
                 [definitions |-> definitions, uses |-> EscapesOf(values), anchor |-> f.id,
                  top |-> Outermost(Conditionals \ {Len(open)}, f.id)]
             t == joined.table \o entries
             table == [joined EXCEPT !.table = @ \o entries]
             arms == Appended(Appended(table, f.thenEnd, At({}, Of(f.then))), block, At({}, Of(after)))
             merged == Appended(Appended(arms, f.join, At(new, {})), f.join, At({}, new))
             names == [i \in DOMAIN f.before |-> [x \in DOMAIN f.before[i] |->
                           IF <<i, x>> \in D
                           THEN New(CHOOSE k \in DOMAIN differing : differing[k] = <<i, x>>)
                           ELSE f.then[i][x]]]
  <1>1. /\ Merged(f, after, joined).graph = IF differing = <<>> THEN joined ELSE merged
        /\ Merged(f, after, joined).scopes = names
    BY DEF Merged
  <1>2. /\ FrameFine(graph, f) /\ f \in FrameType /\ f \in ElseFrame
        /\ Known(graph, f.before) /\ Known(graph, f.then) /\ Known(graph, after)
        /\ SameShape(f.before, f.then) /\ SameShape(f.before, after)
        /\ f.thenEnd \in Blocks(graph) /\ f.id \in Nat
    <2>1. FrameFine(graph, f) /\ Known(graph, f.before) /\ Known(graph, after) /\ SameShape(f.before, after)
      BY NodeEnded DEF PlanOf
    <2>2. f \in FrameType /\ Known(graph, f.then) /\ SameShape(f.before, f.then) /\ f.thenEnd \in Blocks(graph)
      BY <2>1 DEF FrameFine
    <2> QED BY <2>1, <2>2, FrameFacts
  <1>3. /\ f.thenEnd \notin Waiting(Front(open)) /\ block \notin Waiting(Front(open))
        /\ block \in Blocks(graph)
    <2>0. OpenFine(graph, open)
      BY DEF PlanOf
    <2>1. Waiting(Front(open)) \subseteq Waiting(open) /\ f.thenEnd \notin Waiting(open)
      <3>1. Waiting(open) = Waiting(Front(open)) \cup Waits(f) /\ f.thenEnd \notin Waiting(open)
        BY <2>0, FramePopped
      <3> QED BY <3>1
    <2> QED BY <2>1 DEF PlanOf, PlanGraph
  <1>4. joined \in GraphType /\ graph \in GraphType
    BY DEF PlanOf, PlanGraph, SoundGraph
  <1>5. PICK N : N = Len(graph.table)
    OBVIOUS
  <1>6. /\ N \in Nat /\ Values(graph) = 1..N /\ Values(joined) = 1..N /\ Len(joined.table) = N
        /\ IsFiniteSet(1..N) /\ \A v \in 1..N : v \in Nat /\ graph.table[v] \in EntryType
    <2>1. N \in Nat /\ Values(graph) = 1..N /\ Values(joined) = 1..N
      BY <1>4, <1>5, GraphShape
    <2>2. \A v \in 1..N : graph.table[v] \in EntryType
      BY <1>4, <1>5, ElementOfSeq DEF GraphType
    <2>3. IsFiniteSet(1..N)
      BY <2>1, FS_Interval
    <2> QED BY <1>5, <2>1, <2>2, <2>3
  <1>7. /\ IsFiniteSet(D)
        /\ \A at \in D : at[1] \in DOMAIN f.before /\ at[2] \in DOMAIN f.before[at[1]] /\ at[2] \in Names
    BY <1>2, DifferingNames DEF Known
  <1>8. /\ differing \in Seq(D) /\ DOMAIN differing = 1..Len(differing) /\ Len(differing) \in Nat
        /\ {differing[i] : i \in DOMAIN differing} = D /\ (differing = <<>> => D = {})
    BY <1>7, Ordered
  <1>9. ToSet(differing) = D /\ \A i \in DOMAIN differing : differing[i] \in D
    BY <1>8 DEF ToSet
  <1> HIDE DEF D, differing
  <1>10. \A at \in D : /\ f.before[at[1]][at[2]] \in 1..N /\ f.then[at[1]][at[2]] \in 1..N
                       /\ after[at[1]][at[2]] \in 1..N
    <2>1. ASSUME NEW at \in D
          PROVE  /\ f.before[at[1]][at[2]] \in 1..N /\ f.then[at[1]][at[2]] \in 1..N
                 /\ after[at[1]][at[2]] \in 1..N
      <3>1. at[1] \in DOMAIN f.before /\ at[2] \in DOMAIN f.before[at[1]]
        BY <1>7, <2>1
      <3>0a. /\ f.before \in Seq(ScopeType) /\ f.then \in Seq(ScopeType) /\ after \in Seq(ScopeType)
            /\ Len(f.before) = Len(f.then) /\ Len(f.before) = Len(after)
        BY <1>2 DEF Known, SameShape
      <3>0b. /\ DOMAIN f.before = 1..Len(f.before) /\ DOMAIN f.then = 1..Len(f.before)
            /\ DOMAIN after = 1..Len(f.before)
        BY <3>0a, LenProperties
      <3>2. at[1] \in DOMAIN f.then /\ at[2] \in DOMAIN f.then[at[1]]
        BY <1>2, <3>1, <3>0b DEF SameShape, SameNames
      <3>3. at[1] \in DOMAIN after /\ at[2] \in DOMAIN after[at[1]]
        BY <1>2, <3>1, <3>0b DEF SameShape, SameNames
      <3> QED BY <1>2, <1>6, <3>1, <3>2, <3>3 DEF Known
    <2> QED BY <2>1
  <1>11. /\ entries \in Seq(EntryType) /\ Len(entries) = Len(differing)
         /\ \A i \in 1..Len(entries) :
               entries[i].sources = {} /\ entries[i].atoms = {Len(joined.table) + i}
    <2>1. ASSUME NEW i \in DOMAIN differing
          PROVE  /\ entries[i] \in EntryType
                 /\ entries[i].sources = {} /\ entries[i].atoms = {N + i}
      <3>1. PICK at : at = differing[i]
        OBVIOUS
      <3>2. at \in D /\ at[2] \in Names /\ f.before[at[1]][at[2]] \in 1..N
        BY <1>7, <1>9, <1>10, <3>1
      <3>3. PICK k : k = graph.table[f.before[at[1]][at[2]]].binding
        OBVIOUS
      <3>4. k \in Nat
        BY <1>6, <3>2, <3>3 DEF EntryType
      <3>5. entries[i] = [name |-> at[2], binding |-> k, atoms |-> {N + i}, sources |-> {}]
        BY <1>5, <3>1, <3>3 DEF Fresh
      <3>6. N + i \in Nat
        BY <1>6, <1>8
      <3>7. PICK e, one : e = entries[i] /\ one = {N + i}
        OBVIOUS
      <3> HIDE DEF entries
      <3>8. e = [name |-> at[2], binding |-> k, atoms |-> one, sources |-> {}] /\ one \in SUBSET Nat
        BY <3>5, <3>6, <3>7
      <3>9. e \in EntryType /\ e.sources = {} /\ e.atoms = one
        BY <3>2, <3>4, <3>8 DEF EntryType
      <3> QED BY <3>7, <3>9
    <2>2. DOMAIN entries = 1..Len(differing) /\ \A i \in 1..Len(differing) : entries[i] \in EntryType
      BY <1>8, <2>1
    <2> HIDE DEF entries
    <2>3. entries \in Seq(EntryType) /\ Len(entries) = Len(differing)
      <3>1. entries = [i \in 1..Len(differing) |-> entries[i]]
        BY <1>8 DEF entries
      <3>2. entries \in [1..Len(differing) -> EntryType]
        BY <2>2, <3>1
      <3> QED BY <1>8, <2>2, <3>2
    <2> QED BY <1>6, <1>8, <2>1, <2>3
  <1> HIDE DEF entries
  <1>12. PICK u : u = t
    OBVIOUS
  <1>13. /\ Extends(u, joined) /\ Len(u) = N + Len(differing)
         /\ \A v \in (Len(joined.table) + 1)..Len(u) : u[v].sources = {}
    <2>1. OwnPlaces(joined, entries) /\ HasEntries(u, joined, entries) /\ entries \in Seq(EntryType)
      BY <1>11, <1>12 DEF OwnPlaces, HasEntries
    <2>2. /\ Extends(u, joined) /\ Len(u) = Len(joined.table) + Len(entries)
          /\ \A v \in (Len(joined.table) + 1)..Len(u) : u[v].sources = {}
      BY <1>4, <2>1, EntriesAdded
    <2> QED BY <1>6, <1>11, <2>2
  <1>14. HasTable(table, joined, u)
    BY <1>12 DEF HasTable
  <1>15. new = (Len(joined.table) + 1)..Len(u) /\ new \in SUBSET Nat /\ IsFiniteSet(new)
    <2>1. new = {N + i : i \in 1..Len(differing)}
      BY <1>5, <1>8
    <2>2. \A v \in (N + 1)..(N + Len(differing)) : v - N \in 1..Len(differing) /\ v = N + (v - N)
      BY <1>6, <1>8
    <2>3. \A i \in 1..Len(differing) : N + i \in (N + 1)..(N + Len(differing))
      BY <1>6, <1>8
    <2>4. new = (N + 1)..(N + Len(differing))
      BY <2>1, <2>2, <2>3
    <2>5. IsFiniteSet((N + 1)..(N + Len(differing))) /\ (N + 1)..(N + Len(differing)) \in SUBSET Nat
      <3>1. PICK low, high : low = N + 1 /\ high = N + Len(differing)
        OBVIOUS
      <3>2. low \in Nat /\ high \in Nat
        BY <1>6, <1>8, <3>1
      <3>3. IsFiniteSet(low..high) /\ low..high \in SUBSET Nat
        BY <3>2, FS_Interval
      <3> QED BY <3>1, <3>3
    <2> QED BY <1>6, <1>13, <2>4, <2>5
  <1>16. /\ Of(f.then) \in SUBSET (1..N) /\ Of(after) \in SUBSET (1..N)
    BY <1>9, <1>10
  <1>17. /\ Of(f.then) \in SUBSET Nat /\ IsFiniteSet(Of(f.then))
         /\ Of(after) \in SUBSET Nat /\ IsFiniteSet(Of(after))
    <2>1. \A S \in SUBSET (1..N) : S \in SUBSET Nat /\ IsFiniteSet(S)
      <3>1. ASSUME NEW S \in SUBSET (1..N) PROVE S \in SUBSET Nat /\ IsFiniteSet(S)
        BY <1>6, FS_Subset
      <3> QED BY <3>1
    <2> QED BY <1>16, <2>1
  <1>18. PICK o : o = Outermost(Conditionals \ {Len(open)}, f.id)
    OBVIOUS
  <1>19. o \in Nat
    <2>1. PICK frames : frames = Conditionals \ {Len(open)}
      OBVIOUS
    <2>2. frames \in SUBSET DOMAIN open
      BY <2>1 DEF Conditionals
    <2>3. open \in Seq(FrameType)
      BY DEF PlanOf, OpenFine
    <2> QED BY <1>2, <1>18, <2>1, <2>2, <2>3, OutermostType
  <1>20. PICK V, P, A : V = new /\ P = Of(f.then) /\ A = Of(after)
    OBVIOUS
  <1>21. PICK s1, s2, s3, s4 : s1 = At({}, P) /\ s2 = At({}, A) /\ s3 = At(V, {}) /\ s4 = At({}, V)
    OBVIOUS
  <1>22. /\ IsSaid(s1, {}, P, f.id, o) /\ IsSaid(s2, {}, A, f.id, o)
         /\ IsSaid(s3, V, {}, f.id, o) /\ IsSaid(s4, {}, V, f.id, o)
    BY <1>18, <1>21 DEF IsSaid
  <1> HIDE DEF new, Of, At
  <1>23. /\ s1 \in StatementType /\ s1.definitions = {}
         /\ s2 \in StatementType /\ s2.definitions = {}
         /\ s3 \in StatementType /\ s3.definitions = V
         /\ s4 \in StatementType /\ s4.definitions = {} /\ UsedFor(s4, "Escape") = V
    <2>1. /\ IsFiniteSet({}) /\ {} \in SUBSET Nat
          /\ V \in SUBSET Nat /\ IsFiniteSet(V)
          /\ P \in SUBSET Nat /\ IsFiniteSet(P) /\ A \in SUBSET Nat /\ IsFiniteSet(A)
      BY <1>15, <1>17, <1>20, FS_EmptySet
    <2>2. s1 \in StatementType /\ s1.definitions = {}
      BY <1>2, <1>19, <1>22, <2>1, JoinStatement
    <2>3. s2 \in StatementType /\ s2.definitions = {}
      BY <1>2, <1>19, <1>22, <2>1, JoinStatement
    <2>4. s3 \in StatementType /\ s3.definitions = V
      BY <1>2, <1>19, <1>22, <2>1, JoinStatement
    <2>5. s4 \in StatementType /\ s4.definitions = {} /\ UsedFor(s4, "Escape") = V
      BY <1>2, <1>19, <1>22, <2>1, JoinStatement
    <2> QED BY <2>2, <2>3, <2>4, <2>5
  <1>24. PICK names2 : names2 = names
    OBVIOUS
  <1>25. /\ DOMAIN names2 = 1..Len(f.before) /\ Len(f.before) \in Nat
         /\ \A i \in 1..Len(f.before) :
                /\ DOMAIN names2[i] = DOMAIN f.before[i] /\ names2[i] \in ScopeType
                /\ \A x \in DOMAIN f.before[i] :
                      \/ names2[i][x] \in 1..N
                      \/ D # {} /\ names2[i][x] \in 1..Len(u)
    <2>1. DOMAIN f.before = 1..Len(f.before) /\ Len(f.before) \in Nat
      BY <1>2, LenProperties DEF Known
    <2>2. DOMAIN names2 = 1..Len(f.before)
      BY <1>24, <2>1
    <2>3. ASSUME NEW i \in 1..Len(f.before)
          PROVE  /\ DOMAIN names2[i] = DOMAIN f.before[i] /\ names2[i] \in ScopeType
                 /\ \A x \in DOMAIN f.before[i] :
                      \/ names2[i][x] \in 1..N
                      \/ D # {} /\ names2[i][x] \in 1..Len(u)
      <3>1. names2[i] = [x \in DOMAIN f.before[i] |->
                           IF <<i, x>> \in D
                           THEN New(CHOOSE k \in DOMAIN differing : differing[k] = <<i, x>>)
                           ELSE f.then[i][x]]
        BY <1>24, <2>1, <2>3
      <3>2. ASSUME NEW x \in DOMAIN f.before[i], <<i, x>> \in D
            PROVE  names2[i][x] \in Nat /\ names2[i][x] \in 1..Len(u)
        <4>1. PICK k : k = CHOOSE j \in DOMAIN differing : differing[j] = <<i, x>>
          OBVIOUS
        <4>2. \E j \in DOMAIN differing : differing[j] = <<i, x>>
          BY <1>8, <3>2
        <4>3. k \in DOMAIN differing
          BY <4>1, <4>2
        <4>4. names2[i][x] = N + k
          BY <1>5, <3>1, <3>2, <4>1
        <4>5. N + k \in Nat /\ N + k \in 1..(N + Len(differing))
          BY <1>6, <1>8, <4>3
        <4> QED BY <1>13, <4>4, <4>5
      <3>3. ASSUME NEW x \in DOMAIN f.before[i], <<i, x>> \notin D
            PROVE  names2[i][x] \in Nat /\ names2[i][x] \in 1..N
        <4>1. i \in DOMAIN f.then /\ x \in DOMAIN f.then[i]
          BY <1>2, LenProperties DEF SameShape, SameNames, Known
        <4>2. names2[i][x] = f.then[i][x]
          BY <3>1, <3>3
        <4> QED BY <1>2, <1>6, <4>1, <4>2 DEF Known
      <3>4. DOMAIN names2[i] = DOMAIN f.before[i]
        BY <3>1
      <3>5. f.before[i] \in ScopeType
        BY <1>2, ElementOfSeq DEF Known
      <3>6. DOMAIN f.before[i] \in SUBSET Names
        BY <3>5 DEF ScopeType
      <3>7. names2[i] \in [DOMAIN f.before[i] -> Nat]
        <4>1. \A x \in DOMAIN f.before[i] : names2[i][x] \in Nat
          BY <3>2, <3>3
        <4>2. PICK scope : scope = names2[i]
          OBVIOUS
        <4>3. scope = [x \in DOMAIN f.before[i] |-> scope[x]]
          BY <3>1, <4>2
        <4> QED BY <4>1, <4>2, <4>3
      <3>8. names2[i] \in ScopeType
        BY <3>6, <3>7 DEF ScopeType
      <3> QED BY <3>2, <3>3, <3>4, <3>8
    <2> QED BY <2>1, <2>2, <2>3
  <1>26. names2 \in Seq(ScopeType) /\ Len(names2) = Len(f.before) /\ SameShape(f.then, names2)
    <2>1. names2 \in [1..Len(f.before) -> ScopeType]
      <3>1. \A i \in 1..Len(f.before) : names2[i] \in ScopeType
        BY <1>25
      <3>2. names2 = [i \in 1..Len(f.before) |-> names2[i]]
        BY <1>24, <1>25
      <3> QED BY <3>1, <3>2
    <2>2. names2 \in Seq(ScopeType) /\ Len(names2) = Len(f.before)
      BY <1>25, <2>1
    <2> QED BY <1>2, <1>25, <2>2 DEF SameShape, SameNames
  <1> HIDE DEF names
  <1>27. CASE differing = <<>>
    <2>1. Known(joined, names2)
      <3>1. DOMAIN names2 = 1..Len(f.before) /\ \A i \in DOMAIN names2 : \A x \in DOMAIN names2[i] :
               names2[i][x] \in Values(joined)
        BY <1>6, <1>8, <1>25, <1>27
      <3> QED BY <1>26, <3>1 DEF Known
    <2>2. PlanOf(joined, names2, f.join, Front(open), planned)
      BY <1>26, <2>1, NamesChanged
    <2> QED BY <1>1, <1>24, <1>27, <2>2
  <1>28. CASE differing # <<>>
    <2>1. PICK g0 : g0 = table
      OBVIOUS
    <2>2. merged = Appended(Appended(Appended(Appended(g0, f.thenEnd, s1), block, s2), f.join, s3),
                            f.join, s4)
      BY <1>20, <1>21, <2>1
    <2>3. HasNames(f.then, names2, u)
      <3>1. \A v \in 1..N : v \in 1..Len(u)
        BY <1>6, <1>8, <1>13
      <3> QED BY <1>25, <1>26, <3>1 DEF HasNames
    <2>4. PICK list, c : list = Front(open) /\ c = f.thenEnd
      OBVIOUS
    <2>5. /\ c \in Blocks(joined) /\ c \notin Waiting(list)
          /\ block \in Blocks(joined) /\ block \notin Waiting(list)
          /\ PlanOf(joined, f.then, f.join, list, planned)
      BY <1>2, <1>3, <2>4
    <2>6. HasTable(g0, joined, u) /\ Extends(u, joined) /\ V = (Len(joined.table) + 1)..Len(u)
      BY <1>13, <1>14, <1>15, <1>20, <2>1
    <2>7. IsJoin(joined, g0, u, list, c, block, s1, s2, s3, s4)
      BY <1>13, <1>23, <2>5, <2>6 DEF IsJoin
    <2>8. PlanOf(Appended(Appended(Appended(Appended(g0, c, s1), block, s2), f.join, s3), f.join, s4),
                 names2, f.join, list, planned)
      BY <2>3, <2>5, <2>7, JoinRecorded
    <2> QED BY <1>1, <1>24, <1>28, <2>2, <2>4, <2>8
  <1> QED BY <1>27, <1>28

-----------------------------------------------------------------------------
(* The planner's actions keep the plan. What they know of the state.       *)
LEMMA PlanFacts ==
    ASSUME PlanInv
    PROVE  /\ graph \in GraphType /\ block \in Blocks(graph)
           /\ open \in Seq(FrameType) /\ Known(graph, scopes)
           /\ planned \in Nat /\ Id \in Nat
           /\ Len(scopes) \in Nat /\ Len(scopes) >= 2 /\ Len(scopes) \in DOMAIN scopes
           /\ NewValue \in Nat /\ NewValue \notin Values(graph)
           /\ \A v \in Values(graph) : v \in Nat /\ graph.table[v] \in EntryType
           /\ IsFiniteSet(Values(graph)) /\ Values(graph) \in SUBSET Nat
           /\ InLoop \/ Headers(open) = {}
  <1>1. /\ PlanGraph(graph, Headers(open), block, Waiting(open)) /\ OpenFine(graph, open)
        /\ Known(graph, scopes) /\ Nested(open, scopes) /\ planned \in Nat
    BY DEF PlanInv, PlanOf
  <1>2. graph \in GraphType /\ block \in Blocks(graph)
    BY <1>1 DEF PlanGraph, SoundGraph
  <1>3. open \in Seq(FrameType) /\ Len(open) \in Nat
    BY <1>1, LenProperties DEF OpenFine
  <1>4. Id \in Nat
    BY <1>1 DEF Id
  <1>5. Len(scopes) \in Nat /\ Len(scopes) >= 2
    BY <1>1, <1>3, AtLeastTwo
  <1>6. Len(scopes) \in DOMAIN scopes
    <2>1. DOMAIN scopes = 1..Len(scopes)
      BY <1>1, LenProperties DEF Known
    <2> QED BY <1>5, <2>1
  <1>7. Values(graph) = 1..Len(graph.table) /\ Len(graph.table) \in Nat
    BY <1>2, GraphShape
  <1>8. NewValue \in Nat /\ NewValue \notin Values(graph)
    BY <1>7 DEF NewValue
  <1>9. \A v \in Values(graph) : v \in Nat /\ graph.table[v] \in EntryType
    BY <1>2, <1>7, ElementOfSeq DEF GraphType
  <1>10. IsFiniteSet(Values(graph))
    BY <1>7, FS_Interval
  <1>11. InLoop \/ Headers(open) = {}
    BY DEF InLoop, Headers
  <1> QED BY <1>1, <1>2, <1>3, <1>4, <1>5, <1>6, <1>8, <1>9, <1>10, <1>11

(* What a statement is anchored at is known.                               *)
LEMMA StatementMade ==
    ASSUME PlanInv, NEW definitions \in SUBSET Nat, NEW uses \in Seq(UseType),
           NEW s, s = Anchored(definitions, uses, Id)
    PROVE  s \in StatementType /\ s.definitions = definitions
  BY PlanFacts, AnchoredType

(* A statement that defines nothing.                                       *)
LEMMA PlainStep ==
    ASSUME PlanInv, NEW uses \in Seq(UseType), Plain(Anchored({}, uses, Id)), reaches' \in BOOLEAN
    PROVE  PlanInv'
  <1>1. PICK s : s = Anchored({}, uses, Id)
    OBVIOUS
  <1>2. s \in StatementType /\ s.definitions = {}
    BY <1>1, StatementMade
  <1>3. PlanOf(Appended(graph, block, s), scopes, block, open, planned + 1)
    BY <1>2, PlainPlan DEF PlanInv
  <1>4. /\ graph' = Appended(graph, block, s) /\ scopes' = scopes /\ block' = block /\ open' = open
        /\ planned' = planned + 1
    BY <1>1 DEF Plain, Counted
  <1> QED BY <1>3, <1>4 DEF PlanInv

(* Values: a declaration, and an assignment.                               *)
LEMMA ValueStep ==
    ASSUME PlanInv, NEW x \in Names, NEW uses \in Seq(UseType),
           NEW entry \in EntryType, IsPlaced(entry, graph, NewValue),
           NEW k \in DOMAIN scopes, k = Len(scopes) \/ x \in DOMAIN scopes[k],
           graph' = Recorded([graph EXCEPT !.table = Append(@, entry)], block,
                             Anchored({NewValue}, uses, Id), InLoop),
           scopes' = [scopes EXCEPT ![k] = Bound(@, x, NewValue)],
           block' = block, open' = open, reaches' = reaches, planned' = planned + 1
    PROVE  PlanInv'
  <1>1. PICK v : v = NewValue
    OBVIOUS
  <1>2. PICK s : s = Anchored({v}, uses, Id)
    OBVIOUS
  <1>3. PICK t : t = Append(graph.table, entry)
    OBVIOUS
  <1>4. PICK g1 : g1 = [graph EXCEPT !.table = Append(@, entry)]
    OBVIOUS
  <1>5. PICK inLoop : inLoop = InLoop
    OBVIOUS
  <1>6. PICK names2 : names2 = scopes'
    OBVIOUS
  <1>7. v \in Nat /\ v = Len(graph.table) + 1 /\ (inLoop \/ Headers(open) = {})
    BY <1>1, <1>5, PlanFacts DEF NewValue
  <1>8. s \in StatementType /\ s.definitions = {v}
    <2>1. {v} \in SUBSET Nat
      BY <1>7
    <2>2. PICK one : one = {v}
      OBVIOUS
    <2> QED BY <1>2, <2>1, <2>2, StatementMade
  <1>9. HasEntry(t, graph, entry) /\ HasTable(g1, graph, t)
    BY <1>3, <1>4 DEF HasEntry, HasTable
  <1>10. HasName(names2, scopes, k, x, v)
    BY <1>1, <1>6 DEF HasName
  <1>11. graph' = Recorded(g1, block, s, inLoop)
    BY <1>1, <1>2, <1>4, <1>5
  <1>12. PlanOf(graph, scopes, block, open, planned)
    BY DEF PlanInv
  <1>13. IsPlaced(entry, graph, v)
    BY <1>1
  <1>14. PlanOf(Recorded(g1, block, s, inLoop), names2, block, open, planned + 1)
    BY <1>7, <1>8, <1>9, <1>10, <1>12, <1>13, ValuePlan
  <1> QED BY <1>6, <1>11, <1>14 DEF PlanInv

(* A declaration: the new value has a place of its own, or that of its   *)
(* source.                                                               *)
LEMMA VarDeclStep ==
    ASSUME PlanInv, NEW x \in Names, NEW uses \in Seq(UseType), NEW sources,
           sources = {} \/ \E u \in Values(graph) : sources = {u},
           VarDecl(x, uses, sources)
    PROVE  PlanInv'
  <1>1. PICK v : v = NewValue
    OBVIOUS
  <1>2. PICK entry : entry = IF sources = {} THEN Fresh(x, v, v)
                             ELSE Alias(x, v, CHOOSE source \in sources : TRUE)
    OBVIOUS
  <1>3. v \in Nat
    BY <1>1, PlanFacts
  <1>4. entry \in EntryType /\ IsPlaced(entry, graph, v)
    <2>1. CASE sources = {}
      <3>1. entry = [name |-> x, binding |-> v, atoms |-> {v}, sources |-> {}]
        BY <1>2, <2>1 DEF Fresh
      <3>2. entry \in EntryType
        BY <1>3, <3>1 DEF EntryType
      <3> QED BY <3>1, <3>2 DEF IsPlaced
    <2>2. CASE sources # {}
      <3>1. PICK u \in Values(graph) : sources = {u}
        BY <2>2
      <3>2. (CHOOSE source \in sources : TRUE) = u
        BY <3>1
      <3>3. entry = [name |-> x, binding |-> v, atoms |-> graph.table[u].atoms, sources |-> {u}]
        BY <1>2, <2>2, <3>2 DEF Alias
      <3>4. u \in Nat /\ graph.table[u].atoms \in SUBSET Nat
        BY PlanFacts DEF EntryType
      <3>5. entry \in EntryType
        BY <1>3, <3>3, <3>4 DEF EntryType
      <3> QED BY <3>1, <3>3, <3>5 DEF IsPlaced
    <2> QED BY <2>1, <2>2
  <1>5. /\ graph' = Recorded([graph EXCEPT !.table = Append(@, entry)], block,
                             Anchored({v}, uses, Id), InLoop)
        /\ scopes' = [scopes EXCEPT ![Len(scopes)] = Bound(@, x, v)]
        /\ block' = block /\ open' = open /\ reaches' = reaches /\ planned' = planned + 1
    BY <1>1, <1>2 DEF VarDecl, Counted
  <1>6. PICK k : k = Len(scopes)
    OBVIOUS
  <1>7. k \in DOMAIN scopes
    BY <1>6, PlanFacts
  <1> QED BY <1>1, <1>4, <1>5, <1>6, <1>7, ValueStep

(* An assignment: the binding gets a value in a place of its own.        *)
LEMMA AssignStep ==
    ASSUME PlanInv, NEW x \in Names, Assign(x, <<>>)
    PROVE  PlanInv'
  <1>1. PICK v : v = NewValue
    OBVIOUS
  <1>2. PICK entry : entry = Fresh(x, graph.table[Current(x)].binding, v)
    OBVIOUS
  <1>3. PICK uses : uses = <<>> \o <<Use(Current(x), "None")>>
    OBVIOUS
  <1>4. x \in Visible /\ Known(graph, scopes)
    BY PlanFacts DEF Assign
  <1>5. Owner(x) \in DOMAIN scopes /\ x \in DOMAIN scopes[Owner(x)] /\ Current(x) \in Values(graph)
    BY <1>4, NamesHaveValues
  <1>6. PICK c : c = Current(x)
    OBVIOUS
  <1>7. v \in Nat /\ c \in Nat /\ graph.table[c].binding \in Nat
    BY <1>1, <1>5, <1>6, PlanFacts DEF EntryType
  <1>8. entry \in EntryType /\ IsPlaced(entry, graph, v)
    <2>1. PICK binding : binding = graph.table[c].binding
      OBVIOUS
    <2>2. entry = [name |-> x, binding |-> binding, atoms |-> {v}, sources |-> {}]
      BY <1>2, <1>6, <2>1 DEF Fresh
    <2>3. entry \in EntryType
      BY <1>7, <2>1, <2>2 DEF EntryType
    <2> QED BY <2>2, <2>3 DEF IsPlaced
  <1>9. uses \in Seq(UseType)
    <2>1. PICK use : use = Use(c, "None")
      OBVIOUS
    <2>2. use \in UseType
      BY <1>7, <2>1 DEF Use, UseType, Effects
    <2>3. <<use>> \in Seq(UseType) /\ <<>> \in Seq(UseType)
      BY <2>2
    <2> QED BY <1>3, <1>6, <2>1, <2>3, ConcatProperties
  <1>10. /\ graph' = Recorded([graph EXCEPT !.table = Append(@, entry)], block,
                              Anchored({v}, uses, Id), InLoop)
         /\ scopes' = [scopes EXCEPT ![Owner(x)] = Bound(@, x, v)]
         /\ block' = block /\ open' = open /\ reaches' = reaches /\ planned' = planned + 1
    BY <1>1, <1>2, <1>3 DEF Assign, Counted
  <1>11. PICK k : k = Owner(x)
    OBVIOUS
  <1> QED BY <1>1, <1>5, <1>8, <1>9, <1>10, <1>11, ValueStep

(* Nodes: blocks, conditionals and loops.                                  *)
LEMMA BeginBlockStep ==
    ASSUME PlanInv, BeginBlock PROVE PlanInv'
  <1>1. PICK f : f = [kind |-> "block", id |-> Id]
    OBVIOUS
  <1>2. f \in BlockFrame
    BY <1>1, PlanFacts DEF BlockFrame
  <1>3. PlanOf(graph, Append(scopes, NoScope), block, Append(open, f), planned + 1)
    BY <1>2, BlockBegins DEF PlanInv
  <1>4. /\ graph' = graph /\ scopes' = Append(scopes, NoScope) /\ block' = block
        /\ open' = Append(open, f) /\ planned' = planned + 1 /\ reaches' = reaches
    BY <1>1 DEF BeginBlock, Counted
  <1> QED BY <1>3, <1>4 DEF PlanInv

(* It ends.                                                              *)
LEMMA EndBlockStep ==
    ASSUME PlanInv, EndBlock PROVE PlanInv'
  <1>1. open # <<>> /\ Last(open).kind = "block"
    BY DEF EndBlock
  <1>2. PlanOf(graph, Front(scopes), block, Front(open), planned)
    BY <1>1, BlockEnds DEF PlanInv
  <1>3. /\ graph' = graph /\ scopes' = Front(scopes) /\ block' = block
        /\ open' = Front(open) /\ planned' = planned /\ reaches' = reaches
    BY DEF EndBlock
  <1> QED BY <1>2, <1>3 DEF PlanInv

(* A conditional begins, whose two branches follow the block the plan is *)
(* at.                                                                   *)
LEMMA BeginIfStep ==
    ASSUME PlanInv, NEW uses \in Seq(UseType), BeginIf(uses) PROVE PlanInv'
  <1>1. PICK m : m = Len(graph.blocks)
    OBVIOUS
  <1>2. PICK s : s = Anchored({}, uses, Id)
    OBVIOUS
  <1>3. PICK f : f = [kind |-> "if", id |-> Id, before |-> scopes, else |-> m + 2, join |-> m + 3]
    OBVIOUS
  <1>4. s \in StatementType /\ s.definitions = {}
    BY <1>2, StatementMade
  <1>5. f \in IfFrame /\ f.before = scopes /\ f.else = m + 2 /\ f.join = m + 3
    <2>1. m \in Nat
      BY <1>1, PlanFacts, GraphShape
    <2>2. scopes \in Seq(ScopeType) /\ Id \in Nat
      BY PlanFacts DEF Known
    <2> QED BY <1>3, <2>1, <2>2 DEF IfFrame
  <1>6. PlanOf(Linked(Grown(Appended(graph, block, s)), block, {m + 1, m + 2}),
               Append(scopes, NoScope), m + 1, Append(open, f), planned + 1)
    <2>1. PlanOf(graph, scopes, block, open, planned)
      BY DEF PlanInv
    <2> QED BY <1>1, <1>4, <1>5, <2>1, IfBegins
  <1>7. /\ graph' = Linked(Grown(Appended(graph, block, s)), block, {m + 1, m + 2})
        /\ scopes' = Append(scopes, NoScope) /\ block' = m + 1
        /\ open' = Append(open, f) /\ planned' = planned + 1 /\ reaches' = reaches
    BY <1>1, <1>2, <1>3 DEF BeginIf, Counted, Grown
  <1> QED BY <1>6, <1>7 DEF PlanInv

(* Its else-branch begins, with the scopes there were before it.         *)
LEMMA ElseStep ==
    ASSUME PlanInv, Else PROVE PlanInv'
  <1>1. PICK f : f = Last(open)
    OBVIOUS
  <1>2. open # <<>> /\ f.kind = "if" /\ reaches \in BOOLEAN
    BY <1>1 DEF Else, PlanInv
  <1>3. PlanOf(graph, scopes, block, open, planned)
    BY DEF PlanInv
  <1>4. FrameFine(graph, f) /\ Known(graph, Front(scopes)) /\ Known(graph, f.before)
    <2>1. OpenFine(graph, open) /\ Known(graph, scopes) /\ Nested(open, scopes)
      BY <1>3 DEF PlanOf
    <2> QED BY <1>1, <1>2, <2>1, NodeEnded
  <1>5. PICK e : e = [kind |-> "else", id |-> f.id, before |-> f.before, join |-> f.join,
                      thenEnd |-> block, thenReaches |-> reaches, then |-> Front(scopes)]
    OBVIOUS
  <1>6. e \in ElseFrame
    <2>1. f \in IfFrame
      BY <1>2, <1>4, FrameFacts DEF FrameFine
    <2>2. f.id \in Nat /\ f.join \in Nat
      BY <2>1 DEF IfFrame
    <2>3. f.before \in Seq(ScopeType) /\ Front(scopes) \in Seq(ScopeType)
      BY <1>4 DEF Known
    <2>4. block \in Nat
      <3>1. graph \in GraphType /\ block \in Blocks(graph)
        BY PlanFacts
      <3> QED BY <3>1, GraphShape
    <2>5. PICK r, names : r = reaches /\ names = Front(scopes)
      OBVIOUS
    <2>6. r \in BOOLEAN /\ names \in Seq(ScopeType)
      BY <1>2, <2>3, <2>5
    <2>7. e = [kind |-> "else", id |-> f.id, before |-> f.before, join |-> f.join,
               thenEnd |-> block, thenReaches |-> r, then |-> names]
      BY <1>5, <2>5
    <2> QED BY <2>2, <2>3, <2>4, <2>6, <2>7, Zenon DEF ElseFrame
  <1>7. e.before = f.before /\ e.join = f.join /\ e.thenEnd = block /\ e.then = Front(scopes)
    BY <1>5
  <1>8. PICK r : r = reaches
    OBVIOUS
  <1>9. PlanOf(IF r THEN Linked(graph, block, {f.join}) ELSE graph, Append(f.before, NoScope),
               f.else, Append(Front(open), e), planned)
    <2>1. r \in BOOLEAN
      BY <1>2, <1>8
    <2> QED BY <1>1, <1>2, <1>3, <1>6, <1>7, <2>1, ElseBegins
  <1>10. /\ graph' = (IF r THEN Linked(graph, block, {f.join}) ELSE graph)
         /\ scopes' = Append(f.before, NoScope) /\ block' = f.else
         /\ open' = Append(Front(open), e) /\ planned' = planned /\ reaches' = TRUE
    BY <1>1, <1>5, <1>8 DEF Else
  <1> QED BY <1>9, <1>10 DEF PlanInv

(* It ends, and the names are joined where both branches reach its end.  *)
LEMMA EndIfStep ==
    ASSUME PlanInv, EndIf PROVE PlanInv'
  <1>1. PICK f, after : f = Last(open) /\ after = Front(scopes)
    OBVIOUS
  <1>2. PICK r : r = reaches
    OBVIOUS
  <1>3. PICK joined : joined = IF r THEN Linked(graph, block, {f.join}) ELSE graph
    OBVIOUS
  <1>4. open # <<>> /\ f.kind = "else" /\ r \in BOOLEAN /\ PlanOf(graph, scopes, block, open, planned)
    BY <1>1, <1>2 DEF EndIf, PlanInv
  <1>5. /\ FrameFine(graph, f) /\ Known(graph, after) /\ Known(graph, f.before)
        /\ SameShape(f.before, after)
    <2>1. OpenFine(graph, open) /\ Known(graph, scopes) /\ Nested(open, scopes)
      BY <1>4 DEF PlanOf
    <2> QED BY <1>1, <1>4, <2>1, NodeEnded
  <1>6. f \in ElseFrame /\ Known(graph, f.then) /\ SameShape(f.before, f.then)
    BY <1>4, <1>5, FrameFacts DEF FrameFine
  <1>7. SameShape(f.before, f.before)
    BY DEF SameShape, SameNames
  <1>8. \A names2 : Known(graph, names2) /\ SameShape(f.before, names2) =>
            PlanOf(joined, names2, f.join, Front(open), planned)
    BY <1>1, <1>3, <1>4, IfEnds
  <1>9. joined.table = graph.table /\ Blocks(joined) = Blocks(graph)
    <2>1. graph \in GraphType /\ block \in Blocks(graph)
      BY PlanFacts
    <2>2. PICK to : to = {f.join}
      OBVIOUS
    <2>3. to \in SUBSET Nat
      BY <1>6, <2>2 DEF ElseFrame
    <2> QED BY <1>3, <2>1, <2>2, <2>3, LinkedShape
  <1>10. /\ graph' = (IF f.thenReaches /\ r THEN Merged(f, after, joined).graph ELSE joined)
         /\ scopes' = (IF f.thenReaches /\ r THEN Merged(f, after, joined).scopes
                       ELSE IF f.thenReaches THEN f.then
                       ELSE IF r THEN after
                       ELSE f.before)
         /\ block' = f.join /\ open' = Front(open) /\ planned' = planned
         /\ reaches' = (f.thenReaches \/ r)
    BY <1>1, <1>2, <1>3 DEF EndIf
  <1>11. reaches' \in BOOLEAN
    BY <1>10
  <1>12. PlanOf(graph', scopes', f.join, Front(open), planned)
    <2>1. CASE f.thenReaches /\ r
      <3>1. PlanOf(Merged(f, after, joined).graph, Merged(f, after, joined).scopes,
                   f.join, Front(open), planned)
        BY <1>1, <1>4, <1>6, <1>8, <1>9, MergedPlans
      <3> QED BY <1>10, <2>1, <3>1
    <2>2. CASE ~(f.thenReaches /\ r)
      <3>1. Known(graph, scopes') /\ SameShape(f.before, scopes')
        BY <1>5, <1>6, <1>7, <1>10, <2>2
      <3>2. PICK names2 : names2 = scopes'
        OBVIOUS
      <3>3. PlanOf(joined, names2, f.join, Front(open), planned)
        BY <1>8, <3>1, <3>2
      <3> QED BY <1>10, <2>2, <3>2, <3>3
    <2> QED BY <2>1, <2>2
  <1> QED BY <1>10, <1>11, <1>12 DEF PlanInv

(* A loop ends: the plan goes on behind it.                              *)
LEMMA EndForStep ==
    ASSUME PlanInv, EndFor PROVE PlanInv'
  <1>1. PICK f : f = Last(open)
    OBVIOUS
  <1>2. PICK r : r = reaches
    OBVIOUS
  <1>3. open # <<>> /\ f.kind = "for" /\ r \in BOOLEAN /\ PlanOf(graph, scopes, block, open, planned)
    BY <1>1, <1>2 DEF EndFor, PlanInv
  <1>4. PlanOf(IF r THEN Linked(graph, block, {f.header}) ELSE graph, f.before, f.exit,
               Front(open), planned)
    BY <1>1, <1>3, LoopEnds
  <1>5. /\ graph' = (IF r THEN Linked(graph, block, {f.header}) ELSE graph)
        /\ scopes' = f.before /\ block' = f.exit
        /\ open' = Front(open) /\ planned' = planned /\ reaches' = TRUE
    BY <1>1, <1>2 DEF EndFor
  <1> QED BY <1>4, <1>5 DEF PlanInv

(* A loop begins: what can be seen escapes, and its variable is defined  *)
(* in its body.                                                          *)
LEMMA BeginForStep ==
    ASSUME PlanInv, NEW x \in Names, BeginFor(x) PROVE PlanInv'
  <1>1. PICK m, v : m = Len(graph.blocks) /\ v = NewValue
    OBVIOUS
  <1>2. PICK visible : visible = UNION {{scopes[i][y] : y \in DOMAIN scopes[i]} : i \in DOMAIN scopes}
    OBVIOUS
  <1>3. PICK uses : uses = EscapesOf(visible)
    OBVIOUS
  <1>4. PICK s : s = Anchored({}, uses, Id)
    OBVIOUS
  <1>5. PICK r : r = Anchored({v}, <<>>, Id)
    OBVIOUS
  <1>6. PICK entry : entry = Fresh(x, v, v)
    OBVIOUS
  <1>7. PICK setup : setup = Appended(graph, block, s)
    OBVIOUS
  <1>8. PICK grown : grown = [setup EXCEPT !.blocks = @ \o <<EmptyBlock, EmptyBlock, EmptyBlock>>,
                                           !.table = Append(@, entry)]
    OBVIOUS
  <1>9. PICK f : f = [kind |-> "for", id |-> Id, before |-> scopes, header |-> m + 1, exit |-> m + 3]
    OBVIOUS
  <1>10. m \in Nat /\ v \in Nat /\ v = Len(graph.table) + 1 /\ Id \in Nat
    BY <1>1, PlanFacts, GraphShape DEF NewValue
  <1>11. uses \in Seq(UseType)
    <2>1. visible \in SUBSET Values(graph)
      <3>1. Known(graph, scopes)
        BY PlanFacts
      <3> QED BY <1>2, <3>1 DEF Known
    <2>2. visible \in SUBSET Nat /\ IsFiniteSet(visible)
      BY <2>1, PlanFacts, FS_Subset
    <2> QED BY <1>3, <2>2, AllEscape
  <1>12. s \in StatementType /\ s.definitions = {}
    BY <1>4, <1>11, StatementMade
  <1>13. r \in StatementType /\ r.definitions = {v}
    <2>1. PICK one, none : one = {v} /\ none = <<>>
      OBVIOUS
    <2>2. one \in SUBSET Nat /\ none \in Seq(UseType)
      BY <1>10, <2>1
    <2> QED BY <1>5, <2>1, <2>2, StatementMade
  <1>14. entry \in EntryType /\ IsPlaced(entry, graph, v)
    <2>1. entry = [name |-> x, binding |-> v, atoms |-> {v}, sources |-> {}]
      BY <1>6 DEF Fresh
    <2>2. entry \in EntryType
      BY <1>10, <2>1 DEF EntryType
    <2> QED BY <2>1, <2>2 DEF IsPlaced
  <1>15. f \in ForFrame /\ f.before = scopes /\ f.header = m + 1 /\ f.exit = m + 3
    <2>1. scopes \in Seq(ScopeType)
      BY PlanFacts DEF Known
    <2> QED BY <1>9, <1>10, <2>1 DEF ForFrame
  <1>16. PICK t : t = Append(graph.table, entry)
    OBVIOUS
  <1>17. HasEntry(t, graph, entry) /\ HasTable(grown, Grown(Appended(graph, block, s)), t)
    <2>1. setup \in GraphType /\ setup.table = graph.table
      <3>1. graph \in GraphType /\ block \in Blocks(graph)
        BY PlanFacts
      <3> QED BY <1>7, <1>12, <3>1, AppendedKeeps
    <2>2. grown = [Grown(setup) EXCEPT !.table = t]
      BY <1>8, <1>16, <2>1 DEF GraphType, Grown
    <2> QED BY <1>7, <1>16, <2>2 DEF HasEntry, HasTable
  <1>18. PlanOf(Recorded(Linked(Linked(grown, block, {m + 1}), m + 1, {m + 2, m + 3}), m + 2, r, TRUE),
                Append(Append(scopes, Bound(NoScope, x, v)), NoScope), m + 2, Append(open, f), planned + 1)
    <2>1. PlanOf(graph, scopes, block, open, planned)
      BY DEF PlanInv
    <2> QED BY <1>1, <1>10, <1>12, <1>13, <1>14, <1>15, <1>17, <2>1, LoopBegins
  <1>19. /\ graph' = Recorded(Linked(Linked(grown, block, {m + 1}), m + 1, {m + 2, m + 3}), m + 2, r, TRUE)
         /\ scopes' = Append(Append(scopes, Bound(NoScope, x, v)), NoScope)
         /\ block' = m + 2 /\ open' = Append(open, f) /\ planned' = planned + 1 /\ reaches' = reaches
    BY <1>1, <1>2, <1>3, <1>4, <1>5, <1>6, <1>7, <1>8, <1>9 DEF BeginFor, Counted
  <1> QED BY <1>18, <1>19 DEF PlanInv

(* The uses the planner makes of a name.                                   *)
LEMMA UsesMade ==
    ASSUME PlanInv, NEW x \in Visible, NEW effect \in Effects
    PROVE  Uses(x, effect) \in Seq(UseType) /\ Current(x) \in Values(graph)
  <1>1. PICK c : c = Current(x)
    OBVIOUS
  <1>2. c \in Values(graph) /\ c \in Nat
    BY <1>1, PlanFacts, NamesHaveValues
  <1>3. PICK use : use = Use(c, effect)
    OBVIOUS
  <1>4. use \in UseType
    BY <1>2, <1>3 DEF Use, UseType
  <1>5. <<use>> \in Seq(UseType)
    BY <1>4
  <1> QED BY <1>1, <1>2, <1>3, <1>5 DEF Uses

(* A statement need not use anything.                                    *)
LEMMA NoUses == <<>> \in Seq(UseType)
  OBVIOUS

(* Every step of the planner keeps the plan.                               *)
LEMMA PlanStep ==
    ASSUME PlanInv, Plan PROVE PlanInv'
  <1>1. ASSUME NEW x \in Names, VarDecl(x, <<>>, {}) PROVE PlanInv'
    <2>1. PICK none, uses : none = {} /\ uses = <<>>
      OBVIOUS
    <2> QED BY <1>1, <2>1, NoUses, VarDeclStep
  <1>2. ASSUME NEW x \in Names, Assign(x, <<>>) PROVE PlanInv'
    BY <1>2, AssignStep
  <1>3. ASSUME NEW x \in Names \ Visible, NEW y \in Visible, VarDecl(x, Uses(y, "None"), {Current(y)})
        PROVE  PlanInv'
    <2>1. PICK uses, one, u : uses = Uses(y, "None") /\ u = Current(y) /\ one = {u}
      OBVIOUS
    <2>2. uses \in Seq(UseType) /\ u \in Values(graph)
      <3>1. "None" \in Effects
        BY DEF Effects
      <3> QED BY <2>1, <3>1, UsesMade
    <2>3. VarDecl(x, uses, one)
      BY <1>3, <2>1
    <2>4. x \in Names
      OBVIOUS
    <2> QED BY <2>1, <2>2, <2>3, <2>4, VarDeclStep
  <1>4. ASSUME NEW x \in Names \ Visible, BeginFor(x) PROVE PlanInv'
    BY <1>4, BeginForStep
  <1>5. ASSUME NEW x \in Visible, BeginIf(Uses(x, "None")) PROVE PlanInv'
    <2>1. PICK uses : uses = Uses(x, "None")
      OBVIOUS
    <2>2. uses \in Seq(UseType)
      <3>1. "None" \in Effects
        BY DEF Effects
      <3> QED BY <2>1, <3>1, UsesMade
    <2>3. BeginIf(uses)
      BY <1>5, <2>1
    <2> QED BY <2>2, <2>3, BeginIfStep
  <1>6. ASSUME NEW uses \in Seq(UseType), ExprStmt(uses) PROVE PlanInv'
    <2>1. Plain(Anchored({}, uses, Id)) /\ reaches' = reaches /\ reaches \in BOOLEAN
      BY <1>6 DEF ExprStmt, PlanInv
    <2> QED BY <2>1, PlainStep
  <1>7. ASSUME NEW x \in Visible, NEW effect \in Effects, ExprStmt(Uses(x, effect)) PROVE PlanInv'
    <2>1. PICK uses : uses = Uses(x, effect)
      OBVIOUS
    <2>2. uses \in Seq(UseType)
      BY <2>1, UsesMade
    <2> QED BY <1>6, <1>7, <2>1, <2>2
  <1>8. ASSUME NEW x \in Visible, NEW y \in Visible,
               ExprStmt(Uses(x, "Consume") \o Uses(y, "Consume"))
        PROVE  PlanInv'
    <2>1. PICK one, two : one = Uses(x, "Consume") /\ two = Uses(y, "Consume")
      OBVIOUS
    <2>2. one \in Seq(UseType) /\ two \in Seq(UseType)
      <3>1. "Consume" \in Effects
        BY DEF Effects
      <3> QED BY <2>1, <3>1, UsesMade
    <2>3. PICK uses : uses = one \o two
      OBVIOUS
    <2>4. uses \in Seq(UseType)
      BY <2>2, <2>3, ConcatProperties
    <2> QED BY <1>6, <1>8, <2>1, <2>3, <2>4
  <1>9. ASSUME Return(<<>>) PROVE PlanInv'
    <2>1. PICK uses : uses = <<>>
      OBVIOUS
    <2>2. uses \in Seq(UseType)
      BY <2>1, NoUses
    <2>3. Plain(Anchored({}, uses, Id)) /\ reaches' = FALSE
      BY <1>9, <2>1 DEF Return
    <2> QED BY <2>2, <2>3, PlainStep
  <1>10. Visible \subseteq Names
    BY PlanFacts, NamesHaveValues
  <1> QED BY <1>1, <1>2, <1>3, <1>4, <1>5, <1>7, <1>8, <1>9,
             BeginBlockStep, EndBlockStep, ElseStep, EndIfStep, EndForStep DEF Plan

-----------------------------------------------------------------------------
(* What the analysis has found out, phase by phase.                        *)
SoFar(at, g, d, l) ==
    /\ at \in {"dominators", "liveness", "reaching", "running"} =>
           DefinitionIssues(g) = {} /\ d \in DominatorType(g)
    /\ at \in {"liveness", "reaching", "running"} =>
           FixedDominators(g, d) /\ AvailabilityIssues(g, d) = {} /\ SoundLiveness(g, d, l)
    /\ at \in {"reaching", "running"} => FixedLiveness(g, l)

(* Before it runs a function has dropped nothing and lent nothing.         *)
Resting(p, due, borrowed) == p = <<Entry, 0>> /\ due = {} /\ borrowed = {}

(* The function: as the planner leaves it, analysed, and then running.     *)
LifeInv ==
    /\ phase \in Phases /\ SoundGraph(graph)
    /\ phase = "planning" => PlanInv
    /\ phase # "running" => Resting(place, pending, lent)
    /\ SoFar(phase, graph, dominators, live)
    /\ phase = "running" =>
           /\ Analysed(graph, dominators, live, result)
           /\ SoundRun(graph, live, result, place, present, slots, pending, lent)

(* The plan begins: a block without statements, and the parameters.        *)
LEMMA FirstGraph ==
    ASSUME NEW g, NEW m \in Nat, g.blocks = <<EmptyBlock>>, g.parameters = 1..m,
           g = [blocks |-> g.blocks, parameters |-> g.parameters, table |-> g.table],
           g.table \in [1..m -> EntryType], \A i \in 1..m : IsRoot(g, i)
    PROVE  PlanGraph(g, {}, Entry, {}) /\ Values(g) = 1..m
  <1>1. EmptyBlock \in BlockType /\ EmptyBlock.statements = <<>> /\ EmptyBlock.successors = {}
    BY DEF EmptyBlock, BlockType
  <1>2. g.blocks \in Seq(BlockType) /\ DOMAIN g.blocks = {1} /\ g.blocks[1] = EmptyBlock
    BY <1>1
  <1>3. g \in GraphType
    <2>1. PICK b, p, t : b = g.blocks /\ p = g.parameters /\ t = g.table
      OBVIOUS
    <2>2. b \in Seq(BlockType)
      BY <1>2, <2>1
    <2>3. p \in SUBSET Nat
      BY <2>1
    <2>4. t \in Seq(EntryType)
      BY <2>1
    <2>5. g = [blocks |-> b, parameters |-> p, table |-> t]
      BY <2>1
    <2> QED BY <2>2, <2>3, <2>4, <2>5 DEF GraphType
  <1>4. Blocks(g) = {Entry} /\ Entry \in Blocks(g) /\ g.blocks[Entry] = EmptyBlock
    BY <1>2 DEF Blocks, Entry
  <1>5. Values(g) = 1..m
    BY DEF Values
  <1>6. HasItsBlocks(g)
    BY <1>1, <1>4 DEF HasItsBlocks
  <1>7. SoundTable(g)
    <2>1. \A v \in Values(g) : IsRoot(g, v)
      BY <1>5
    <2>2. \A v \in Values(g) : g.table[v].atoms = {v}
      BY <2>1 DEF IsRoot
    <2> QED BY <1>5, <2>1, <2>2 DEF SoundTable
  <1>8. Sites(g) = {}
    BY <1>1, <1>4 DEF Sites
  <1>9. SoundDefinitions(g)
    BY <1>8 DEF SoundDefinitions
  <1>10. EscapesAll(g, Entry)
    BY <1>1, <1>4 DEF EscapesAll
  <1>11. SoundGraph(g)
    BY <1>3, <1>4, <1>6, <1>7, <1>9, <1>10 DEF SoundGraph
  <1> QED BY <1>1, <1>4, <1>5, <1>11 DEF PlanGraph

(* The planner begins with a plan.                                       *)
LEMMA FirstPlan ==
    ASSUME Init PROVE PlanInv
  <1> DEFINE order == SetToSeq(Parameters)
             index == [x \in Parameters |-> CHOOSE i \in DOMAIN order : order[i] = x]
  <1>1. IsFiniteSet(Parameters)
    BY NamesAssumption, FS_Subset
  <1>2. /\ order \in Seq(Parameters) /\ DOMAIN order = 1..Len(order) /\ Len(order) \in Nat
        /\ {order[i] : i \in DOMAIN order} = Parameters
    BY <1>1, Ordered
  <1>3. /\ graph = [blocks |-> <<EmptyBlock>>, parameters |-> DOMAIN order,
                    table |-> [i \in DOMAIN order |-> Fresh(order[i], i, i)]]
        /\ scopes = <<index, NoScope>>
        /\ block = Entry /\ open = <<>> /\ reaches = TRUE /\ planned = 0
    BY DEF Init
  <1> HIDE DEF order
  <1>4. PICK m : m = Len(order)
    OBVIOUS
  <1>5. \A i \in 1..m : order[i] \in Names /\ i \in Nat
    BY <1>2, <1>4, NamesAssumption
  <1>6. /\ graph.blocks = <<EmptyBlock>> /\ graph.parameters = 1..m
        /\ graph = [blocks |-> graph.blocks, parameters |-> graph.parameters, table |-> graph.table]
        /\ graph.table = [i \in 1..m |-> Fresh(order[i], i, i)]
    BY <1>2, <1>3, <1>4
  <1>7. graph.table \in [1..m -> EntryType] /\ \A i \in 1..m : IsRoot(graph, i)
    <2>1. ASSUME NEW i \in 1..m PROVE Fresh(order[i], i, i) \in EntryType /\ IsRoot(graph, i)
      <3>1. PICK one, x : one = {i} /\ x = order[i]
        OBVIOUS
      <3>2. i \in Nat /\ one \in SUBSET Nat /\ x \in Names
        BY <1>2, <1>4, <1>5, <3>1
      <3>3. Fresh(order[i], i, i) = [name |-> x, binding |-> i, atoms |-> one, sources |-> {}]
        BY <3>1 DEF Fresh
      <3>4. Fresh(order[i], i, i) \in EntryType
        BY <3>2, <3>3 DEF EntryType
      <3>5. graph.table[i] = [name |-> x, binding |-> i, atoms |-> one, sources |-> {}]
        BY <1>6, <3>3
      <3>6. IsRoot(graph, i)
        BY <3>1, <3>5 DEF IsRoot
      <3> QED BY <3>4, <3>6
    <2> QED BY <1>6, <2>1
  <1>8. PlanGraph(graph, {}, Entry, {}) /\ Values(graph) = 1..m
    <2>1. m \in Nat
      BY <1>2, <1>4
    <2> QED BY <1>6, <1>7, <2>1, FirstGraph
  <1>9. Headers(open) = {} /\ Waiting(open) = {} /\ OpenFine(graph, open)
    <2>1. open \in Seq(FrameType) /\ DOMAIN open = {}
      BY <1>3
    <2> QED BY <2>1 DEF Headers, Waiting, OpenFine
  <1>10. \A x \in Parameters : index[x] \in 1..m
    BY <1>2, <1>4
  <1>11. Known(graph, scopes) /\ Len(scopes) = 2
    <2>1. index \in [Parameters -> Nat]
      BY <1>2, <1>4, <1>10
    <2>2. PICK i : i = index
      OBVIOUS
    <2>3. i \in ScopeType /\ DOMAIN i = Parameters
      BY <2>1, <2>2, NamesAssumption DEF ScopeType
    <2>4. PICK none : none = NoScope
      OBVIOUS
    <2>5. none \in ScopeType /\ DOMAIN none = {}
      BY <2>4, EmptyScope
    <2>6. scopes = <<i, none>>
      BY <1>3, <2>2, <2>4
    <2> HIDE DEF index
    <2>7. scopes \in Seq(ScopeType) /\ DOMAIN scopes = {1, 2} /\ Len(scopes) = 2
      BY <2>3, <2>5, <2>6
    <2>8. scopes[1] = i /\ scopes[2] = none
      BY <2>6
    <2>9. \A x \in DOMAIN i : i[x] \in 1..m
      BY <1>10, <2>2, <2>3
    <2>10. \A j \in DOMAIN scopes : \A x \in DOMAIN scopes[j] : scopes[j][x] \in Values(graph)
      BY <1>8, <2>5, <2>7, <2>8, <2>9
    <2> QED BY <2>7, <2>10 DEF Known
  <1>12. Nested(open, scopes)
    <2>1. Len(open) = 0 /\ 1..Len(open) = {} /\ 0..Len(open) = {0}
      BY <1>3
    <2>2. PICK level : level = [i \in 0..Len(open) |-> 2]
      OBVIOUS
    <2>3. level \in [0..Len(open) -> Nat] /\ level[0] = 2
      BY <2>1, <2>2
    <2>4. Levels(level, open)
      BY <2>1, <2>3 DEF Levels
    <2>5. Enclosed(level, open, scopes)
      BY <2>1 DEF Enclosed
    <2> QED BY <1>11, <2>1, <2>3, <2>4, <2>5 DEF Nested
  <1> QED BY <1>3, <1>8, <1>9, <1>11, <1>12 DEF PlanInv, PlanOf

(* The function begins with a plan, and a plan is a sound graph.           *)
LEMMA LifeBegins ==
    ASSUME Init PROVE LifeInv
  <1>1. PlanInv
    BY FirstPlan
  <1>2. SoundGraph(graph)
    BY <1>1 DEF PlanInv, PlanOf, PlanGraph
  <1>3. phase = "planning" /\ place = <<Entry, 0>> /\ pending = {} /\ lent = {}
    BY DEF Init
  <1>4. Resting(place, pending, lent)
    BY <1>3 DEF Resting
  <1>5. SoFar(phase, graph, dominators, live)
    BY <1>3 DEF SoFar
  <1> QED BY <1>1, <1>2, <1>3, <1>4, <1>5 DEF LifeInv, Phases

-----------------------------------------------------------------------------
(* The analysis, phase by phase. It begins with all the blocks that can be *)
(* reached as the dominators of each of them.                              *)
LEMMA AnalysisBegins ==
    ASSUME NEW g, SoundGraph(g), DefinitionIssues(g) = {}, NEW l
    PROVE  SoFar("dominators", g, InitialDominators(g), l)
  <1>1. g \in GraphType /\ HasItsBlocks(g)
    BY DEF SoundGraph
  <1>2. Entry \in Blocks(g) /\ Blocks(g) \subseteq Nat
    BY <1>1, GraphShape DEF HasItsBlocks
  <1>3. PICK all : all = Reachable(g)
    OBVIOUS
  <1>4. all \in SUBSET Nat /\ Entry \in Nat
    BY <1>1, <1>2, <1>3, ReachableIsClosed
  <1>5. PICK d : d = InitialDominators(g)
    OBVIOUS
  <1>6. d = [b \in Blocks(g) |-> IF b = Entry THEN {Entry} ELSE IF b \in all THEN all ELSE {}]
    BY <1>3, <1>5 DEF InitialDominators
  <1>7. d \in DominatorType(g)
    <2>1. {Entry} \in SUBSET Nat /\ {} \in SUBSET Nat
      BY <1>4
    <2>2. d \in [Blocks(g) -> SUBSET Nat]
      BY <1>4, <1>6, <2>1
    <2>3. d[Entry] = {Entry}
      BY <1>2, <1>6
    <2> QED BY <2>2, <2>3 DEF DominatorType
  <1> QED BY <1>5, <1>7 DEF SoFar

(* A round keeps what is known.                                            *)
LEMMA DominatorsSwept ==
    ASSUME NEW g, SoundGraph(g), NEW d, NEW l, SoFar("dominators", g, d, l)
    PROVE  SoFar("dominators", g, SweepDominators(g, d), l)
  <1>1. g \in GraphType /\ HasItsBlocks(g)
    BY DEF SoundGraph
  <1>2. DefinitionIssues(g) = {} /\ d \in DominatorType(g)
    BY DEF SoFar
  <1>3. SweepDominators(g, d) \in DominatorType(g)
    BY <1>1, <1>2, SweepDominatorsKeepsTheType
  <1> QED BY <1>2, <1>3 DEF SoFar

(* Where it changes nothing the dominators are found, and liveness begins  *)
(* with nothing that is needed.                                            *)
LEMMA DominatorsFound ==
    ASSUME NEW g, SoundGraph(g), NEW d, NEW l, SoFar("dominators", g, d, l),
           SweepDominators(g, d) = d, AvailabilityIssues(g, d) = {}
    PROVE  SoFar("liveness", g, d, InitialLiveness(g))
  <1>1. g \in GraphType /\ HasItsBlocks(g)
    BY DEF SoundGraph
  <1>2. DefinitionIssues(g) = {} /\ d \in DominatorType(g)
    BY DEF SoFar
  <1>3. FixedDominators(g, d)
    BY <1>1, <1>2, DominatorsAreFixed DEF FixedDominators
  <1>4. PICK none : none = [b \in Blocks(g) |-> {}]
    OBVIOUS
  <1>5. none \in [Blocks(g) -> SUBSET Nat] /\ \A b \in Blocks(g) : none[b] = {}
    BY <1>4
  <1>6. PICK first : first = InitialLiveness(g)
    OBVIOUS
  <1>7. first = [in |-> none, out |-> none]
    BY <1>4, <1>6 DEF InitialLiveness, Nowhere
  <1>8. first \in LivenessType(g) /\ first.in = none
    BY <1>5, <1>7 DEF LivenessType
  <1>9. \A b \in Reachable(g) : OnlyAvailable(g, d, first.in[b], b, 1)
    BY <1>1, <1>5, <1>8, ReachableIsClosed DEF OnlyAvailable
  <1>10. SoundLiveness(g, d, first)
    BY <1>8, <1>9 DEF SoundLiveness
  <1> QED BY <1>2, <1>3, <1>6, <1>10 DEF SoFar

(* The same for liveness.                                                  *)
LEMMA LivenessSwept ==
    ASSUME NEW g, SoundGraph(g), NEW d, NEW l, SoFar("liveness", g, d, l)
    PROVE  /\ SoFar("liveness", g, d, SweepLiveness(g, l))
           /\ SweepLiveness(g, l) = l => SoFar("reaching", g, d, l)
  <1>1. g \in GraphType /\ HasItsBlocks(g)
    BY DEF SoundGraph
  <1>2. /\ DefinitionIssues(g) = {} /\ d \in DominatorType(g)
        /\ FixedDominators(g, d) /\ AvailabilityIssues(g, d) = {} /\ SoundLiveness(g, d, l)
    BY DEF SoFar
  <1>3. SoundLiveness(g, d, SweepLiveness(g, l))
    BY <1>1, <1>2, SweepLivenessIsSound
  <1>4. SweepLiveness(g, l) = l => FixedLiveness(g, l)
    BY <1>1, <1>2, LivenessIsFixed
  <1> QED BY <1>2, <1>3, <1>4 DEF SoFar

(* What is found in the end is what the run relies on.                     *)
LEMMA AnalysisEnds ==
    ASSUME NEW g, SoundGraph(g), NEW d, NEW l, SoFar("reaching", g, d, l),
           ConsumeIssues(g, l) = {}, NEW m, NEW r, r.kills = Kills(g, l, m),
           r.edgeKills = EdgeKills(g, l, m), r.escaped = Escaped(g),
           \A kill \in r.schedule : kill \in r.kills /\ kill.cleanup
    PROVE  SoFar("running", g, d, l) /\ Analysed(g, d, l, r)
  <1>1. g \in GraphType /\ HasItsBlocks(g)
    BY DEF SoundGraph
  <1>2. /\ DefinitionIssues(g) = {} /\ d \in DominatorType(g)
        /\ FixedDominators(g, d) /\ AvailabilityIssues(g, d) = {} /\ SoundLiveness(g, d, l)
        /\ FixedLiveness(g, l)
    BY DEF SoFar
  <1>3. SoFar("running", g, d, l)
    BY <1>2 DEF SoFar
  <1>4. /\ \A kill \in r.kills : SoundKill(g, l, kill)
        /\ \A k1, k2 \in r.kills : k1.at = k2.at /\ k1.atom = k2.atom => k1 = k2
    BY <1>1, KillsAreSound
  <1>5. \A kill \in r.edgeKills : SoundEdgeKill(g, l, kill)
    BY EdgeKillsAreSound
  <1> QED BY <1>2, <1>3, <1>4, <1>5 DEF Analysed

-----------------------------------------------------------------------------
(* A step of the planner.                                                  *)
LEMMA PlanLives ==
    ASSUME LifeInv, Plan PROVE LifeInv'
  <1>1. /\ phase = "planning" /\ phase' = phase /\ place' = place
        /\ pending' = pending /\ lent' = lent
    BY DEF Plan, VarDecl, Assign, BeginFor, BeginIf, ExprStmt, Return, Plain, BeginBlock, EndBlock,
           Else, EndIf, EndFor, Planning, Nesting, Elsewhere, machine
  <1>2. PlanInv'
    BY <1>1, PlanStep DEF LifeInv
  <1>3. SoundGraph(graph')
    BY <1>2 DEF PlanInv, PlanOf, PlanGraph
  <1>4. Resting(place', pending', lent')
    BY <1>1 DEF LifeInv, Resting
  <1>5. SoFar(phase', graph', dominators', live')
    BY <1>1 DEF SoFar
  <1> QED BY <1>1, <1>2, <1>3, <1>4, <1>5 DEF LifeInv, Phases

(* The analysis leaves the graph and the run as they are.                  *)
LEMMA AnalysisLives ==
    ASSUME LifeInv, graph' = graph, phase # "running",
           phase' \in Phases \ {"planning", "running"},
           place' = place /\ pending' = pending /\ lent' = lent,
           SoFar(phase', graph, dominators', live')
    PROVE  LifeInv'
  <1>1. SoundGraph(graph') /\ SoFar(phase', graph', dominators', live')
    BY DEF LifeInv
  <1>2. Resting(place', pending', lent')
    BY DEF LifeInv, Resting
  <1> QED BY <1>1, <1>2 DEF LifeInv

(* Of a graph that is given up nothing is known.                           *)
LEMMA GivenUp ==
    ASSUME NEW g, NEW d, NEW l PROVE SoFar("rejected", g, d, l)
  BY DEF SoFar

(* The analysis begins.                                                  *)
LEMMA AnalyseLives ==
    ASSUME LifeInv, Analyse PROVE LifeInv'
  <1>1. /\ phase = "planning" /\ graph' = graph /\ live' = live
        /\ place' = place /\ pending' = pending /\ lent' = lent
        /\ dominators' = InitialDominators(graph)
        /\ phase' = IF DefinitionIssues(graph) = {} THEN "dominators" ELSE "rejected"
    BY DEF Analyse, Judged, Unplanned, planner, machine
  <1>2. SoFar(phase', graph, dominators', live')
    <2>1. CASE DefinitionIssues(graph) = {}
      <3>1. SoundGraph(graph)
        BY DEF LifeInv
      <3> QED BY <1>1, <2>1, <3>1, AnalysisBegins
    <2>2. CASE DefinitionIssues(graph) # {}
      BY <1>1, <2>2, GivenUp
    <2> QED BY <2>1, <2>2
  <1> QED BY <1>1, <1>2, AnalysisLives DEF Phases

(* A round of the dominators, or the last.                               *)
LEMMA FindDominatorsLives ==
    ASSUME LifeInv, FindDominators PROVE LifeInv'
  <1>1. /\ phase = "dominators" /\ graph' = graph
        /\ place' = place /\ pending' = pending /\ lent' = lent
        /\ dominators' = SweepDominators(graph, dominators)
    BY DEF FindDominators, Unplanned, planner, machine
  <1>2. SoundGraph(graph) /\ SoFar("dominators", graph, dominators, live)
    BY <1>1 DEF LifeInv
  <1>3. CASE dominators' # dominators
    <2>1. phase' = "dominators" /\ live' = live
      BY <1>1, <1>3 DEF FindDominators
    <2>2. SoFar(phase', graph, dominators', live')
      BY <1>1, <1>2, <2>1, DominatorsSwept
    <2> QED BY <1>1, <2>1, <2>2, AnalysisLives DEF Phases
  <1>4. CASE dominators' = dominators
    <2>1. /\ phase' = IF AvailabilityIssues(graph, dominators) = {} THEN "liveness" ELSE "rejected"
          /\ live' = InitialLiveness(graph)
      BY <1>4 DEF FindDominators, Judged
    <2>2. SoFar(phase', graph, dominators', live')
      <3>1. CASE AvailabilityIssues(graph, dominators) = {}
        BY <1>1, <1>2, <1>4, <2>1, <3>1, DominatorsFound
      <3>2. CASE AvailabilityIssues(graph, dominators) # {}
        BY <2>1, <3>2, GivenUp
      <3> QED BY <3>1, <3>2
    <2> QED BY <1>1, <2>1, <2>2, AnalysisLives DEF Phases
  <1> QED BY <1>3, <1>4

(* A round of liveness, or the last.                                     *)
LEMMA FindLiveLives ==
    ASSUME LifeInv, FindLive PROVE LifeInv'
  <1>1. /\ phase = "liveness" /\ graph' = graph /\ dominators' = dominators
        /\ place' = place /\ pending' = pending /\ lent' = lent
        /\ live' = SweepLiveness(graph, live)
        /\ phase' = IF live' # live THEN "liveness" ELSE "reaching"
    BY DEF FindLive, Unplanned, planner, machine
  <1>2. SoundGraph(graph) /\ SoFar("liveness", graph, dominators, live)
    BY <1>1 DEF LifeInv
  <1>3. /\ SoFar("liveness", graph, dominators', live')
        /\ live' = live => SoFar("reaching", graph, dominators', live')
    BY <1>1, <1>2, LivenessSwept
  <1>4. SoFar(phase', graph, dominators', live')
    BY <1>1, <1>3
  <1> QED BY <1>1, <1>4, AnalysisLives DEF Phases

(* The analysis ends, and the function is called with its parameters.      *)
LEMMA FindReachingLives ==
    ASSUME LifeInv, FindReaching PROVE LifeInv'
  <1>1. /\ phase = "reaching" /\ graph' = graph /\ dominators' = dominators /\ live' = live
    BY DEF FindReaching, planner
  <1>2. SoundGraph(graph) /\ SoFar("reaching", graph, dominators, live)
        /\ Resting(place, pending, lent)
    BY <1>1 DEF LifeInv
  <1>3. CASE reaching' # reaching
    <2>1. phase' = phase /\ place' = place /\ pending' = pending /\ lent' = lent
      BY <1>3 DEF FindReaching, machine
    <2>2. SoFar(phase', graph, dominators', live')
      BY <1>1, <1>2, <2>1
    <2> QED BY <1>1, <2>1, <2>2, AnalysisLives DEF Phases
  <1>4. CASE reaching' = reaching
    <2>1. PICK kills, escaped, edges, schedule :
              /\ kills = Kills(graph, live, reaching) /\ escaped = Escaped(graph)
              /\ edges = EdgeKills(graph, live, reaching) /\ schedule = Scheduled(kills, escaped)
      OBVIOUS
    <2>2. /\ phase' = IF ConsumeIssues(graph, live) = {} THEN "running" ELSE "rejected"
          /\ result'.kills = kills /\ result'.edgeKills = edges /\ result'.schedule = schedule
          /\ result'.escaped = escaped
          /\ present' = AtomsOf(graph, graph.parameters) /\ slots' = present'
          /\ place' = place /\ pending' = pending /\ lent' = lent
      BY <1>4, <2>1 DEF FindReaching
    <2>3. CASE ConsumeIssues(graph, live) = {}
      <3>1. \A kill \in schedule : kill \in kills /\ kill.cleanup
        BY <2>1 DEF Scheduled
      <3>2. PICK g, d, l, r : g = graph /\ d = dominators /\ l = live /\ r = result'
        OBVIOUS
      <3>3. SoFar("running", g, d, l) /\ Analysed(g, d, l, r)
        <4>1. /\ r.kills = Kills(g, l, reaching) /\ r.edgeKills = EdgeKills(g, l, reaching)
              /\ r.escaped = Escaped(g)
          BY <2>1, <2>2, <3>2
        <4>2. \A kill \in r.schedule : kill \in r.kills /\ kill.cleanup
          BY <2>2, <3>1, <3>2
        <4>3. SoundGraph(g) /\ SoFar("reaching", g, d, l) /\ ConsumeIssues(g, l) = {}
          BY <1>2, <2>3, <3>2
        <4> QED BY <4>1, <4>2, <4>3, AnalysisEnds
      <3>4. PICK p, there : p = <<Entry, 0>> /\ there = AtomsOf(g, g.parameters)
        OBVIOUS
      <3>5. SoundRun(g, l, r, p, there, there, {}, {})
        BY <3>3, <3>4, RunBegins
      <3>6. place' = p /\ pending' = {} /\ lent' = {} /\ present' = there /\ slots' = there
        BY <1>2, <2>2, <3>2, <3>4 DEF Resting
      <3>7. phase' = "running" /\ graph' = g /\ dominators' = d /\ live' = l /\ result' = r
        BY <1>1, <2>2, <2>3, <3>2
      <3>8. SoundGraph(graph') /\ SoFar(phase', graph', dominators', live')
        BY <1>2, <3>2, <3>3, <3>7
      <3>9. Analysed(graph', dominators', live', result')
        BY <3>3, <3>7
      <3>10. SoundRun(graph', live', result', place', present', slots', pending', lent')
        BY <3>5, <3>6, <3>7
      <3> QED BY <3>7, <3>8, <3>9, <3>10 DEF LifeInv, Phases
    <2>4. CASE ConsumeIssues(graph, live) # {}
      <3>1. phase' = "rejected" /\ SoFar(phase', graph, dominators', live')
        BY <2>2, <2>4, GivenUp
      <3> QED BY <1>1, <2>2, <3>1, AnalysisLives DEF Phases
    <2> QED BY <2>3, <2>4
  <1> QED BY <1>3, <1>4

-----------------------------------------------------------------------------
(* A step of the run: the graph and what is known of it stay.              *)
LEMMA RunLives ==
    ASSUME LifeInv, phase = "running", UNCHANGED <<planner, phase, analysis>>,
           SoundRun(graph, live, result, place', present', slots', pending', lent')
    PROVE  LifeInv'
  <1>1. /\ phase' = "running" /\ graph' = graph /\ dominators' = dominators
        /\ live' = live /\ result' = result
    BY DEF planner, analysis
  <1>2. SoundGraph(graph') /\ SoFar(phase', graph', dominators', live')
        /\ Analysed(graph', dominators', live', result')
    BY <1>1 DEF LifeInv
  <1>3. SoundRun(graph', live', result', place', present', slots', pending', lent')
    BY <1>1
  <1> QED BY <1>1, <1>2, <1>3 DEF LifeInv, Phases

(* A statement runs.                                                     *)
LEMMA RunStatementLives ==
    ASSUME LifeInv, RunStatement PROVE LifeInv'
  <1>1. PICK g, d, l, r, p, kept, there, due, borrowed :
            /\ g = graph /\ d = dominators /\ l = live /\ r = result /\ p = place
            /\ kept = present /\ there = slots /\ due = pending /\ borrowed = lent
    OBVIOUS
  <1>2. PICK s, next, defined, consumed, killed, over :
            /\ s = Statement(g, p[1], p[2] + 1)
            /\ next = <<p[1], p[2] + 1>>
            /\ defined = AtomsOf(g, s.definitions)
            /\ consumed = AtomsOf(g, UsedFor(s, "Consume"))
            /\ killed = {kill \in r.kills : kill.at = next}
            /\ over = Due(s)
    OBVIOUS
  <1>3. /\ phase = "running" /\ p[2] < Len(g.blocks[p[1]].statements)
        /\ UNCHANGED <<planner, phase, analysis>>
        /\ place' = next
        /\ present' = (kept \cup defined) \ (consumed \cup AtomsKilledBy(killed))
        /\ slots' = ((there \ AtomsKilledBy(over)) \cup defined) \ consumed
        /\ pending' = (due \ over) \cup (killed \cap r.schedule)
        /\ lent' = borrowed \cup AtomsOf(g, UsedFor(s, "Escape"))
    BY <1>1, <1>2 DEF RunStatement, NextStatement, HasNext
  <1>4. over \in SUBSET due
    BY <1>1, <1>2 DEF Due
  <1>5. Analysed(g, d, l, r) /\ SoundRun(g, l, r, p, kept, there, due, borrowed)
    BY <1>1, <1>3 DEF LifeInv
  <1>6. BeforeStatement(g, r, p, due, over, s, next, defined, consumed, killed)
    BY <1>2, <1>3, <1>4 DEF BeforeStatement
  <1>7. SoundRun(g, l, r, next,
                 (kept \cup defined) \ (consumed \cup AtomsKilledBy(killed)),
                 ((there \ AtomsKilledBy(over)) \cup defined) \ consumed,
                 (due \ over) \cup (killed \cap r.schedule),
                 borrowed \cup AtomsOf(g, UsedFor(s, "Escape")))
    BY <1>5, <1>6, StatementRuns
  <1>8. SoundRun(graph, live, result, place', present', slots', pending', lent')
    BY <1>1, <1>3, <1>7
  <1> QED BY <1>3, <1>8, RunLives

(* The run goes on at another block.                                     *)
LEMMA TakeEdgeLives ==
    ASSUME LifeInv, NEW t, TakeEdge(t) PROVE LifeInv'
  <1>1. PICK killed : killed = {kill \in result.edgeKills : kill.from = place[1] /\ kill.to = t}
    OBVIOUS
  <1>2. /\ phase = "running" /\ ~(place[2] < Len(graph.blocks[place[1]].statements))
        /\ t \in graph.blocks[place[1]].successors
        /\ UNCHANGED <<planner, phase, analysis>>
        /\ place' = <<t, 0>> /\ present' = present \ AtomsKilledBy(killed)
        /\ slots' = slots /\ pending' = pending /\ lent' = lent
    BY <1>1 DEF TakeEdge, HasNext
  <1>3. /\ Analysed(graph, dominators, live, result)
        /\ SoundRun(graph, live, result, place, present, slots, pending, lent)
    BY <1>2 DEF LifeInv
  <1>4. SoundRun(graph, live, result, <<t, 0>>, present \ AtomsKilledBy(killed), slots, pending, lent)
    BY <1>1, <1>2, <1>3, EdgeRuns
  <1>5. SoundRun(graph, live, result, place', present', slots', pending', lent')
    BY <1>2, <1>4
  <1> QED BY <1>2, <1>5, RunLives

(* A step that changes nothing.                                            *)
LEMMA StillLives ==
    ASSUME LifeInv, UNCHANGED vars PROVE LifeInv'
  <1>1. /\ graph' = graph /\ scopes' = scopes /\ block' = block /\ open' = open
        /\ reaches' = reaches /\ planned' = planned /\ phase' = phase
        /\ dominators' = dominators /\ live' = live /\ result' = result
        /\ place' = place /\ present' = present /\ slots' = slots
        /\ pending' = pending /\ lent' = lent
    BY DEF vars, planner, analysis, machine
  <1>2. phase = "planning" => PlanInv'
    BY <1>1 DEF LifeInv, PlanInv
  <1>3. /\ SoundGraph(graph') /\ SoFar(phase', graph', dominators', live')
        /\ phase' # "running" => Resting(place', pending', lent')
        /\ phase' = "running" =>
               /\ Analysed(graph', dominators', live', result')
               /\ SoundRun(graph', live', result', place', present', slots', pending', lent')
    BY <1>1 DEF LifeInv
  <1> QED BY <1>1, <1>2, <1>3 DEF LifeInv

(* The invariant is inductive: every step, of the planner, of the analysis *)
(* and of the function that runs, keeps it.                                *)
LEMMA LifeStep ==
    ASSUME LifeInv, [Next]_vars PROVE LifeInv'
  <1>1. CASE Next
    <2>1. \A t : TakeEdge(t) => LifeInv'
      BY TakeEdgeLives
    <2> QED BY <1>1, <2>1, PlanLives, AnalyseLives, FindDominatorsLives, FindLiveLives,
               FindReachingLives, RunStatementLives DEF Next
  <1>2. CASE UNCHANGED vars
    BY <1>2, StillLives
  <1> QED BY <1>1, <1>2

(* While a function is planned, its graph is one the analysis can take;    *)
(* when it runs, the analysis has come to an end without issues, and what  *)
(* is needed from where it stands is there.                                *)
THEOREM Inductive == Spec => []LifeInv
  <1>1. Init => LifeInv
    BY LifeBegins
  <1>2. LifeInv /\ [Next]_vars => LifeInv'
    BY LifeStep
  <1> QED BY <1>1, <1>2, PTL DEF Spec

(* What the invariant says of the place where the function stands.         *)
LEMMA LivesAreKept ==
    ASSUME LifeInv PROVE NothingLiveIsKilled
  <1> SUFFICES ASSUME phase = "running" PROVE
          /\ lent \subseteq present \cap slots
          /\ HasNext =>
                /\ AtomsOf(graph, UsedIn(NextStatement) \cup SourcesIn(graph, NextStatement))
                     \subseteq present \cap (slots \ AtomsKilledBy(Due(NextStatement)))
                /\ AtomsKilledBy({kill \in result.kills :
                                     kill.cleanup /\ kill.at = <<place[1], place[2] + 1>>})
                     \subseteq present \cup AtomsOf(graph, NextStatement.definitions)
                /\ AtomsKilledBy(Due(NextStatement)) \subseteq slots
          /\ ~HasNext =>
                AtomsKilledBy({kill \in result.edgeKills : kill.from = place[1]}) \subseteq present
    BY DEF NothingLiveIsKilled
  <1>1. PICK g, d, l, r, p, kept, there, due, borrowed :
            /\ g = graph /\ d = dominators /\ l = live /\ r = result /\ p = place
            /\ kept = present /\ there = slots /\ due = pending /\ borrowed = lent
    OBVIOUS
  <1>2. PICK s, over, dying, leaving :
            /\ s = NextStatement /\ over = Due(s)
            /\ dying = {kill \in r.kills : kill.cleanup /\ kill.at = <<p[1], p[2] + 1>>}
            /\ leaving = {kill \in r.edgeKills : kill.from = p[1]}
    OBVIOUS
  <1>3. Analysed(g, d, l, r) /\ SoundRun(g, l, r, p, kept, there, due, borrowed)
    BY <1>1 DEF LifeInv
  <1>4. over \in SUBSET due /\ s = Statement(g, p[1], p[2] + 1)
    BY <1>1, <1>2 DEF Due, NextStatement
  <1>5. AboutTo(g, r, p, due, over, s, dying, leaving)
    BY <1>2, <1>4 DEF AboutTo
  <1>6. Safe(g, p, kept, there, borrowed, over, s, dying, leaving)
    BY <1>3, <1>5, RunIsSafe
  <1>7. HasNext <=> p[2] < Len(g.blocks[p[1]].statements)
    BY <1>1 DEF HasNext
  <1> QED BY <1>1, <1>2, <1>6, <1>7 DEF Safe

(* No statement finds a place given up that it uses, on whatever path the  *)
(* graph has; what has escaped stays, and nothing is dropped twice: for    *)
(* any names and parameters, and functions of any size.                    *)
THEOREM LivesKept == Spec => []NothingLiveIsKilled
  BY Inductive, LivesAreKept, PTL
=============================================================================
