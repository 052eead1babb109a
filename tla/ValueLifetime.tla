---------------------------- MODULE ValueLifetime ----------------------------
(***************************************************************************)
(* The analysis of src/src/compiler/value_lifetime_analysis.cpp: from a    *)
(* control flow graph of definitions and uses it computes where a value is *)
(* needed for the last time. A graph is a record of                        *)
(*                                                                         *)
(*   blocks      of each block its statements and its successors; block 1  *)
(*               is the entry                                              *)
(*   parameters  the values there are on entry                             *)
(*   table       of each value its binding, its name, the atoms (places in *)
(*               storage) it lives in and the values it was made from      *)
(*                                                                         *)
(* Values are numbered in the order of their registration. The loops of    *)
(* the code that go on until nothing changes are given here as one round   *)
(* each; LifetimePlanner repeats them.                                     *)
(***************************************************************************)
EXTENDS Naturals, Sequences, FiniteSets

Effects == {"None", "Consume", "Escape"}

Use(v, effect) == [value |-> v, effect |-> effect]
Entry == 1
Blocks(g) == DOMAIN g.blocks
Values(g) == DOMAIN g.table
Statement(g, b, k) == g.blocks[b].statements[k]
Sites(g) == UNION {{b} \X DOMAIN g.blocks[b].statements : b \in Blocks(g)}

AtomsOf(g, values) == UNION {g.table[v].atoms : v \in values}
UsedIn(s) == {s.uses[i].value : i \in DOMAIN s.uses}
UsedFor(s, effect) ==
    {s.uses[i].value : i \in {j \in DOMAIN s.uses : s.uses[j].effect = effect}}
SourcesIn(g, s) == (UNION {g.table[v].sources : v \in s.definitions}) \ s.definitions
-----------------------------------------------------------------------------
(* What a statement does to the values needed after it, and to those that  *)
(* are certain to be there before it.                                      *)
LiveBefore(g, s, after) == (after \ s.definitions) \cup SourcesIn(g, s) \cup UsedIn(s)

ReachingAfter(g, s, before) ==
    LET consumed == AtomsOf(g, UsedFor(s, "Consume"))
    IN  {v \in before : g.table[v].atoms \cap consumed = {}} \cup s.definitions

(* The same for a block, boundary by boundary: boundary k lies behind its  *)
(* first k statements.                                                     *)
LiveAt(g, b, liveOut) ==
    LET n == Len(g.blocks[b].statements)
        back[k \in 0..n] ==
            IF k = 0 THEN liveOut
            ELSE LiveBefore(g, Statement(g, b, n - k + 1), back[k - 1])
    IN  [k \in 0..n |-> back[n - k]]

ReachingAt(g, b, reachingIn) ==
    LET at[k \in DOMAIN g.blocks[b].statements \cup {0}] ==
            IF k = 0 THEN reachingIn ELSE ReachingAfter(g, Statement(g, b, k), at[k - 1])
    IN  at
-----------------------------------------------------------------------------
Reachable(g) ==
    LET within[n \in 0..Len(g.blocks)] ==
            IF n = 0 THEN {Entry}
            ELSE within[n - 1] \cup UNION {g.blocks[b].successors : b \in within[n - 1]}
    IN  within[Len(g.blocks)]

Predecessors(g, reachable, b) == {a \in reachable : b \in g.blocks[a].successors}

DefinedAt(g, v) == {at \in Sites(g) : v \in Statement(g, at[1], at[2]).definitions}
Defined(g) == UNION {Statement(g, at[1], at[2]).definitions : at \in Sites(g)}
Referenced(g) ==
    UNION {UsedIn(Statement(g, at[1], at[2])) \cup
           UNION {g.table[v].sources : v \in Statement(g, at[1], at[2]).definitions}
             : at \in Sites(g)}

(* A value has one definition: as a parameter or by a statement.           *)
DefinitionIssues(g) ==
    {i \in {"ParameterDefined", "DuplicateDefinition", "MissingDefinition"} :
        \/ i = "ParameterDefined" /\ g.parameters \cap Defined(g) # {}
        \/ i = "DuplicateDefinition" /\ \E v \in Values(g) : Cardinality(DefinedAt(g, v)) > 1
        \/ i = "MissingDefinition" /\ ~(Referenced(g) \subseteq g.parameters \cup Defined(g))}

(* A round of the computation of the dominators, in the order of blocks.   *)
InitialDominators(g) ==
    LET reachable == Reachable(g)
    IN  [b \in Blocks(g) |-> IF b = Entry THEN {Entry}
                             ELSE IF b \in reachable THEN reachable ELSE {}]

SweepDominators(g, dominators) ==
    LET reachable == Reachable(g)
        Refined(d, b) ==
            IF b = Entry \/ b \notin reachable THEN d
            ELSE [d EXCEPT ![b] = {b} \cup {a \in reachable :
                     \A p \in Predecessors(g, reachable, b) : a \in d[p]}]
        upTo[b \in 0..Len(g.blocks)] ==
            IF b = 0 THEN dominators ELSE Refined(upTo[b - 1], b)
    IN  upTo[Len(g.blocks)]

AvailableBefore(g, dominators, v, b, k) ==
    \/ v \in g.parameters
    \/ \E at \in DefinedAt(g, v) : IF at[1] = b THEN at[2] < k ELSE at[1] \in dominators[b]

ReachableSites(g) ==
    LET reachable == Reachable(g) IN {at \in Sites(g) : at[1] \in reachable}

AvailabilityIssues(g, dominators) ==
    LET Unavailable(values, at) ==
            \E v \in values : ~AvailableBefore(g, dominators, v, at[1], at[2])
    IN  {i \in {"UseBeforeDefinition", "AliasSourceUnavailable"} :
            \E at \in ReachableSites(g) :
                LET s == Statement(g, at[1], at[2])
                IN  Unavailable(IF i = "UseBeforeDefinition" THEN UsedIn(s) ELSE SourcesIn(g, s), at)}
-----------------------------------------------------------------------------
(* A round of the liveness computation takes the blocks from the last to   *)
(* the first, one of the reaching values from the first to the last.       *)
Nowhere(g) == [b \in Blocks(g) |-> {}]
InitialLiveness(g) == [in |-> Nowhere(g), out |-> Nowhere(g)]

SweepLiveness(g, live) ==
    LET reachable == Reachable(g)
        Refined(l, b) ==
            IF b \notin reachable THEN l
            ELSE LET out == UNION {l.in[t] : t \in g.blocks[b].successors}
                 IN  [in  |-> [l.in EXCEPT ![b] = LiveAt(g, b, out)[0]],
                      out |-> [l.out EXCEPT ![b] = out]]
        downBy[k \in 0..Len(g.blocks)] ==
            IF k = 0 THEN live ELSE Refined(downBy[k - 1], Len(g.blocks) - k + 1)
    IN  downBy[Len(g.blocks)]

ReachingOut(g, b, reachingIn) == ReachingAt(g, b, reachingIn)[Len(g.blocks[b].statements)]

InitialReaching(g) ==
    LET reachable == Reachable(g)
        universe == g.parameters \cup Defined(g)
        in == [b \in Blocks(g) |-> IF b = Entry THEN g.parameters
                                   ELSE IF b \in reachable THEN universe ELSE {}]
    IN  [in |-> in, out |-> [b \in Blocks(g) |-> ReachingOut(g, b, in[b])]]

SweepReaching(g, reaching) ==
    LET reachable == Reachable(g)
        universe == g.parameters \cup Defined(g)
        Refined(r, b) ==
            IF b \notin reachable THEN r
            ELSE LET in == IF b = Entry THEN g.parameters
                           ELSE {v \in universe : \A p \in Predecessors(g, reachable, b) :
                                     v \in r.out[p]}
                 IN  [in  |-> [r.in EXCEPT ![b] = in],
                      out |-> [r.out EXCEPT ![b] = ReachingOut(g, b, in)]]
        upTo[b \in 0..Len(g.blocks)] ==
            IF b = 0 THEN reaching ELSE Refined(upTo[b - 1], b)
    IN  upTo[Len(g.blocks)]
-----------------------------------------------------------------------------
(* Only what escapes before the first branch counts.                       *)
MutEscaped(g) ==
    UNION {AtomsOf(g, UsedFor(Statement(g, at[1], at[2]), "Escape")) :
               at \in {x \in ReachableSites(g) : x[1] = Entry}}

(* The atoms nothing may be concluded of, wherever it is that they escape. *)
Escaped(g) ==
    UNION {AtomsOf(g, UsedFor(Statement(g, at[1], at[2]), "Escape")) : at \in ReachableSites(g)}

(* How often a statement consumes an atom.                                 *)
Consumptions(g, s, a) ==
    Cardinality({i \in DOMAIN s.uses :
        s.uses[i].effect = "Consume" /\ a \in g.table[s.uses[i].value].atoms})

AtomsIn(g, s) == AtomsOf(g, s.definitions \cup UsedIn(s))

(* What is needed, of which nothing is said in an issue and no kill is made.*)
Kept(g, live) ==
    LET escaped == Escaped(g)
        at == [b \in Blocks(g) |-> <<>> \o [k \in DOMAIN g.blocks[b].statements |->
                  AtomsOf(g, LiveAt(g, b, live.out[b])[k])]]
    IN  [escaped |-> escaped, live |-> at]

ConsumeIssues(g, live) ==
    LET kept == Kept(g, live)
        At(i, at, s, a) ==
            /\ Consumptions(g, s, a) > 0
            /\ CASE i = "MultipleConsume" -> Consumptions(g, s, a) > 1
                 [] i = "ConsumeWithDefinition" -> a \in AtomsOf(g, s.definitions)
                 [] i = "ConsumedEscapedAtom" -> a \in kept.escaped
                 [] i = "ConsumedAtomStillLive" -> a \in kept.live[at[1]][at[2]]
    IN  {i \in {"MultipleConsume", "ConsumeWithDefinition", "ConsumedEscapedAtom",
                "ConsumedAtomStillLive"} :
            \E at \in ReachableSites(g) :
                \E s \in {Statement(g, at[1], at[2])} :
                    \E a \in AtomsIn(g, s) : At(i, at, s, a)}

(* The values that lose their place when an atom goes.                     *)
Retired(g, values, a) == {v \in values : a \in g.table[v].atoms}

(* Where an atom is needed for the last time in a block. The conditions on *)
(* unsafe consumptions are those of ConsumeIssues: where there are such    *)
(* issues nothing is done with the kills.                                  *)
Kills(g, live, reaching) ==
    LET kept == Kept(g, live)
        KillsAt(at, s, there) ==
            {LET consumed == Consumptions(g, s, a) > 0
             IN  [at      |-> at,
                  atom    |-> a,
                  retired |-> Retired(g, there[IF consumed THEN at[2] - 1 ELSE at[2]], a),
                  cleanup |-> ~consumed]
                : a \in AtomsIn(g, s) \ (kept.live[at[1]][at[2]] \cup kept.escaped)}
    IN  {kill \in UNION {KillsAt(at, Statement(g, at[1], at[2]),
                                 ReachingAt(g, at[1], reaching.in[at[1]]))
                           : at \in ReachableSites(g)} :
            kill.retired # {}}

(* What only one branch needs is left to that branch.                      *)
MutEdgeKills(g, live, reaching) == {}

(* An atom one branch needs and the other does not dies on the way to the  *)
(* other.                                                                  *)
EdgeKills(g, live, reaching) ==
    LET escaped == Escaped(g)
    IN  UNION {UNION {{[from |-> b, to |-> t, atom |-> a]
                         : a \in (AtomsOf(g, live.out[b]) \cap AtomsOf(g, reaching.out[b]))
                                 \ (AtomsOf(g, live.in[t]) \cup escaped)}
                        : t \in g.blocks[b].successors}
                 : b \in Reachable(g)}
=============================================================================
