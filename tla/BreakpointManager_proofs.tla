----------------------- MODULE BreakpointManager_proofs -----------------------
(***************************************************************************)
(* Proofs about BreakpointManager: the table, the pc index and the live    *)
(* server's records agree for every program, every sequence of commands    *)
(* and any number of breakpoints.                                          *)
(***************************************************************************)
EXTENDS BreakpointManager, WellFoundedInduction, TLAPS

USE DEF Ids

(* A set of numbers that is not empty has a least one.                     *)
LEMMA LeastMember ==
    ASSUME NEW S \in SUBSET Nat, S # {}
    PROVE  Least(S) \in S /\ \A j \in S : Least(S) <= j
<1> DEFINE Below == {ss \in Nat \X Nat : ss[1] < ss[2]}
<1>0. IsWellFoundedOn(Below, Nat)
  BY NatLessThanWellFounded DEF OpToRel
<1>1. \E x \in S : \A y \in S : ~(<<y, x>> \in Below)
  <2> HIDE DEF Below
  <2> QED BY <1>0, WFMin
<1>2. PICK x \in S : \A y \in S : ~(<<y, x>> \in Below)
  BY <1>1
<1>3. \A y \in S : x <= y
  <2> SUFFICES ASSUME NEW y \in S PROVE x <= y
    OBVIOUS
  <2>1. ~(y < x)
    BY <1>2
  <2> QED BY <2>1
<1> QED BY <1>2, <1>3 DEF Least

(* The positions of a line are positions.                                  *)
LEMMA PositionsOfLine ==
    ASSUME NEW s \in Sources, NEW l \in Lines
    PROVE  PCsOf[<<s, l>>] \in SUBSET PCs
BY PCsOfAssumption

(* The entries the manager makes are breakpoints.                          *)
LEMMA NewEntries ==
    /\ \A kind \in {"line", "conditional"}, s \in Sources, l \in Lines :
           /\ NewLine(kind, s, l) \in Breakpoint
           /\ IsLine(NewLine(kind, s, l))
    /\ \A f \in Functions :
           NewFunction(f) \in Breakpoint /\ ~IsLine(NewFunction(f))
<1>1. ASSUME NEW kind \in {"line", "conditional"}, NEW s \in Sources, NEW l \in Lines
      PROVE  NewLine(kind, s, l) \in Breakpoint /\ IsLine(NewLine(kind, s, l))
  BY PositionsOfLine DEF NewLine, Breakpoint, Kinds, IsLine
<1>2. ASSUME NEW f \in Functions
      PROVE  NewFunction(f) \in Breakpoint /\ ~IsLine(NewFunction(f))
  BY SourcesAssumption DEF NewFunction, Breakpoint, Kinds, IsLine
<1> QED BY <1>1, <1>2

(* Resolving again keeps an entry a breakpoint of its kind and place.      *)
LEMMA ResolvedEntry ==
    ASSUME NEW b \in Breakpoint, IsLine(b) => b.line \in Lines
    PROVE  /\ Resolved(b) \in Breakpoint
           /\ Resolved(b).source = b.source /\ Resolved(b).line = b.line
           /\ Resolved(b).kind = b.kind
           /\ IsLine(Resolved(b)) <=> IsLine(b)
           /\ IsLine(b) => Resolved(b).pcs = PCsOf[<<b.source, b.line>>]
BY PositionsOfLine DEF Resolved, Breakpoint, IsLine
-----------------------------------------------------------------------------
(***************************************************************************)
(* The inductive invariant.                                                *)
(***************************************************************************)

(* What every entry tells, without the sets of the table.                  *)
LEMMA Entries ==
    ASSUME TablesTypeOK
    PROVE  /\ nextId \in Nat /\ nextId >= 1 /\ nextId \notin Ids
           /\ \A i \in Ids : /\ i \in Nat /\ i >= 1 /\ i < nextId
                             /\ breakpoints[i] \in Breakpoint
                             /\ IsLine(breakpoints[i]) => breakpoints[i].line \in Lines
<1>1. nextId \in Nat /\ nextId >= 1
  BY DEF TablesTypeOK
<1>2. \A i \in Ids : i \in Nat /\ i >= 1 /\ i < nextId
  BY <1>1 DEF TablesTypeOK
<1>3. nextId \notin Ids
  BY <1>1, <1>2
<1>4. \A i \in Ids : /\ breakpoints[i] \in Breakpoint
                     /\ IsLine(breakpoints[i]) => breakpoints[i].line \in Lines
  BY DEF TablesTypeOK
<1> QED BY <1>1, <1>2, <1>3, <1>4

LEMMA InitAgrees == Init => AgreeInv
<1> SUFFICES ASSUME Init PROVE AgreeInv
  OBVIOUS
<1> USE DEF Init
<1>1. Ids = {}
  <2>1. DOMAIN [i \in {} |-> NoRequest] = {}
    OBVIOUS
  <2> QED BY <2>1
<1>2. TablesTypeOK
  <2>1. todo \in [source : Sources, items : Seq(Requests),
                    ids : SUBSET (1..nextId - 1), lines : SUBSET Lines,
                    active : BOOLEAN]
    BY SourcesAssumption DEF NoRequest
  <2>2. breakpoints \in [Ids -> Breakpoint]
    BY <1>1
  <2> QED BY <1>1, <2>1, <2>2 DEF TablesTypeOK
<1>3. IndexMatches /\ Located
  BY <1>1 DEF IndexMatches, Located
<1>4. RecordsInv
  <2>1. ~todo.active
    BY DEF NoRequest
  <2> QED BY <1>1, <2>1 DEF RecordsInv, Idle, Handles, IdsOf, LinesOf
<1> QED BY <1>2, <1>3, <1>4 DEF AgreeInv

(* Entries that differ in their state or their hits only.                  *)
Alike(b, c) == /\ c \in Breakpoint
               /\ c.kind = b.kind /\ c.source = b.source /\ c.line = b.line
               /\ c.pcs = b.pcs

LEMMA AlikeEntries ==
    ASSUME NEW b \in Breakpoint
    PROVE  /\ Alike(b, b) /\ Alike(b, Counted(b))
           /\ \A e \in BOOLEAN : Alike(b, Switched(b, e))
<1>1. Alike(b, b)
  BY DEF Alike
<1>2. Alike(b, Counted(b))
  BY DEF Alike, Counted, Breakpoint, IsLine
<1>3. ASSUME NEW e \in BOOLEAN PROVE Alike(b, Switched(b, e))
  BY DEF Alike, Switched, Breakpoint, IsLine
<1> QED BY <1>1, <1>2, <1>3

(* Switching a breakpoint and counting a hit change nothing else.          *)
LEMMA AlikeStep ==
    ASSUME AgreeInv, DOMAIN breakpoints' = Ids,
           \A i \in Ids : Alike(breakpoints[i], breakpoints'[i]),
           breakpoints' = [i \in Ids |-> breakpoints'[i]],
           UNCHANGED <<client, pcToBreakpoints, nextId, sourceIds, todo, asked,
                       failed>>
    PROVE  AgreeInv'
<1>1. \A i \in Ids : /\ breakpoints'[i] \in Breakpoint
                     /\ IsLine(breakpoints'[i]) <=> IsLine(breakpoints[i])
                     /\ breakpoints'[i].source = breakpoints[i].source
                     /\ breakpoints'[i].line = breakpoints[i].line
                     /\ breakpoints'[i].pcs = breakpoints[i].pcs
  BY DEF Alike, IsLine
<1>2. TablesTypeOK'
  <2>1. breakpoints' \in [Ids -> Breakpoint]
    BY <1>1
  <2> QED BY <1>1, <2>1 DEF AgreeInv, TablesTypeOK
<1>3. IndexMatches'
  BY <1>1 DEF AgreeInv, IndexMatches
<1>4. Located'
  BY <1>1 DEF AgreeInv, Located
<1>5. RecordsInv'
  <2>1. \A s \in Sources : IdsOf(s)' = IdsOf(s)
    BY <1>1 DEF IdsOf
  <2>2. \A s \in Sources : LinesOf(s)' = LinesOf(s)
    BY <1>1, <2>1 DEF LinesOf, IdsOf
  <2>3. \A s \in Sources : Handles(s)' = Handles(s)
    BY DEF Handles
  <2>4. Idle' = Idle
    BY DEF Idle
  <2> QED BY <1>1, <2>1, <2>2, <2>3, <2>4 DEF AgreeInv, RecordsInv
<1> QED BY <1>2, <1>3, <1>4, <1>5 DEF AgreeInv

(* What the table and the index promise together.                          *)
TableInv ==
    /\ nextId \in Nat /\ nextId >= 1
    /\ \A i \in Ids : i \in Nat /\ i >= 1 /\ i < nextId
    /\ breakpoints \in [Ids -> Breakpoint]
    /\ \A i \in Ids : IsLine(breakpoints[i]) => breakpoints[i].line \in Lines
    /\ pcToBreakpoints \in [PCs -> SUBSET (1..nextId - 1)]
    /\ IndexMatches /\ Located

RestTypeOK ==
    /\ client \in {"cli", "live"}
    /\ sourceIds \in [Sources -> SUBSET (1..nextId - 1)]
    /\ todo \in [source : Sources, items : Seq(Requests),
                ids : SUBSET (1..nextId - 1), lines : SUBSET Lines,
                active : BOOLEAN]
    /\ asked \in [Sources -> SUBSET Lines] /\ failed \subseteq Sources

LEMMA Split == AgreeInv <=> TableInv /\ RestTypeOK /\ RecordsInv
<1>1. AgreeInv => TableInv /\ RestTypeOK /\ RecordsInv
  BY Entries DEF AgreeInv, TablesTypeOK, TableInv, RestTypeOK
<1>2. TableInv /\ RestTypeOK /\ RecordsInv => AgreeInv
  BY DEF AgreeInv, TablesTypeOK, TableInv, RestTypeOK
<1> QED BY <1>1, <1>2

(* A line breakpoint is added under a new id, with its positions.          *)
LEMMA AddLineStep ==
    ASSUME TableInv, NEW kind \in {"line", "conditional"},
           NEW s \in Sources, NEW l \in Lines, AddLine(kind, s, l)
    PROVE  /\ TableInv'
           /\ nextId' = nextId + 1
           /\ Ids' = Ids \cup {nextId}
           /\ breakpoints'[nextId] = NewLine(kind, s, l)
           /\ \A i \in Ids : breakpoints'[i] = breakpoints[i]
<1> DEFINE b == NewLine(kind, s, l)
<1>1. /\ nextId' = nextId + 1
      /\ DOMAIN breakpoints' = Ids \cup {nextId}
      /\ breakpoints'[nextId] = b
      /\ \A i \in Ids \ {nextId} : breakpoints'[i] = breakpoints[i]
  <2>1. breakpoints' = With(breakpoints, nextId, b) /\ nextId' = nextId + 1
    BY DEF AddLine
  <2> HIDE DEF b
  <2> QED BY <2>1 DEF With
<1>2. nextId \notin Ids /\ nextId \in Nat /\ nextId >= 1
  BY DEF TableInv
<1>3. /\ b \in Breakpoint /\ IsLine(b) /\ b.source = s /\ b.line = l
      /\ b.pcs = PCsOf[<<s, l>>] /\ b.pcs \in SUBSET PCs
  BY NewEntries, PositionsOfLine DEF NewLine
<1>4. pcToBreakpoints' = [pc \in PCs |-> IF pc \in b.pcs
                              THEN pcToBreakpoints[pc] \cup {nextId}
                              ELSE pcToBreakpoints[pc]]
  BY <1>3 DEF AddLine, updatePCToBreakpointMapping
<1> HIDE DEF b
<1>5. \A i \in Ids : breakpoints'[i] = breakpoints[i]
  BY <1>1, <1>2
<1>6. /\ nextId' \in Nat /\ nextId' >= 1
      /\ \A i \in Ids' : i \in Nat /\ i >= 1 /\ i < nextId'
  BY <1>1, <1>2 DEF TableInv
<1>7. breakpoints' \in [Ids' -> Breakpoint]
  <2>1. breakpoints' = [i \in Ids' |-> breakpoints'[i]]
    BY DEF AddLine, With
  <2>2. \A i \in Ids' : breakpoints'[i] \in Breakpoint
    BY <1>1, <1>3, <1>5 DEF TableInv
  <2> QED BY <2>1, <2>2
<1>8. \A i \in Ids' : IsLine(breakpoints'[i]) => breakpoints'[i].line \in Lines
  BY <1>1, <1>3, <1>5 DEF TableInv
<1>9. pcToBreakpoints' \in [PCs -> SUBSET (1..nextId' - 1)]
  BY <1>1, <1>2, <1>4 DEF TableInv
<1>10. IndexMatches'
  <2> SUFFICES ASSUME NEW pc \in PCs
               PROVE  pcToBreakpoints'[pc] =
                         {i \in Ids' : IsLine(breakpoints'[i]) /\ pc \in breakpoints'[i].pcs}
    BY DEF IndexMatches
  <2>1. pcToBreakpoints[pc] = {i \in Ids : IsLine(breakpoints[i])
                                           /\ pc \in breakpoints[i].pcs}
    BY DEF TableInv, IndexMatches
  <2>2. pcToBreakpoints'[pc] = IF pc \in b.pcs THEN pcToBreakpoints[pc] \cup {nextId}
                                              ELSE pcToBreakpoints[pc]
    BY <1>4
  <2> QED BY <1>1, <1>2, <1>3, <1>5, <2>1, <2>2
<1>11. Located'
  BY <1>1, <1>3, <1>5 DEF TableInv, Located
<1> QED BY <1>1, <1>5, <1>6, <1>7, <1>8, <1>9, <1>10, <1>11 DEF TableInv, b

(* A function breakpoint has no entry in the index.                        *)
LEMMA AddFunctionStep ==
    ASSUME TableInv, NEW f \in Functions,
           breakpoints' = With(breakpoints, nextId, NewFunction(f)),
           nextId' = nextId + 1, UNCHANGED pcToBreakpoints
    PROVE  TableInv'
<1> DEFINE b == NewFunction(f)
<1>1. /\ DOMAIN breakpoints' = Ids \cup {nextId}
      /\ breakpoints'[nextId] = b
      /\ \A i \in Ids \ {nextId} : breakpoints'[i] = breakpoints[i]
  <2>1. breakpoints' = With(breakpoints, nextId, b)
    OBVIOUS
  <2> HIDE DEF b
  <2> QED BY <2>1 DEF With
<1>2. nextId \notin Ids /\ nextId \in Nat /\ nextId >= 1
  BY DEF TableInv
<1>3. b \in Breakpoint /\ ~IsLine(b)
  BY NewEntries
<1> HIDE DEF b
<1>5. \A i \in Ids : breakpoints'[i] = breakpoints[i]
  BY <1>1, <1>2
<1>6. /\ nextId' \in Nat /\ nextId' >= 1
      /\ \A i \in Ids' : i \in Nat /\ i >= 1 /\ i < nextId'
  BY <1>1, <1>2 DEF TableInv
<1>7. breakpoints' \in [Ids' -> Breakpoint]
  <2>1. breakpoints' = [i \in Ids' |-> breakpoints'[i]]
    BY DEF With
  <2>2. \A i \in Ids' : breakpoints'[i] \in Breakpoint
    BY <1>1, <1>3, <1>5 DEF TableInv
  <2> QED BY <2>1, <2>2
<1>8. \A i \in Ids' : IsLine(breakpoints'[i]) => breakpoints'[i].line \in Lines
  BY <1>1, <1>3, <1>5 DEF TableInv
<1>9. pcToBreakpoints' \in [PCs -> SUBSET (1..nextId' - 1)]
  BY <1>2 DEF TableInv
<1>10. IndexMatches'
  BY <1>1, <1>2, <1>3, <1>5 DEF TableInv, IndexMatches
<1>11. Located'
  BY <1>1, <1>3, <1>5 DEF TableInv, Located
<1> QED BY <1>6, <1>7, <1>8, <1>9, <1>10, <1>11 DEF TableInv

(* "break <line>" adds a breakpoint and resolves every breakpoint again.   *)
LEMMA AddAndResolveStep ==
    ASSUME TableInv, NEW s \in Sources, NEW l \in Lines,
           AddLineAndResolveAll(s, l)
    PROVE  /\ TableInv'
           /\ nextId' = nextId + 1
           /\ \A i \in Ids : i \in Ids' /\ breakpoints'[i].source = breakpoints[i].source
<1> DEFINE b == NewLine("line", s, l)
           table == With(breakpoints, nextId, b)
           index == updatePCToBreakpointMapping(pcToBreakpoints, nextId, b)
<1>1. /\ breakpoints' = ResolveAll(table)
      /\ pcToBreakpoints' = ReindexAll(index, table)
      /\ nextId' = nextId + 1
  BY DEF AddLineAndResolveAll
<1>2. nextId \notin Ids /\ nextId \in Nat /\ nextId >= 1
  BY DEF TableInv
<1>3. b \in Breakpoint /\ IsLine(b) /\ b.line = l
  BY NewEntries DEF NewLine
<1>4. /\ DOMAIN table = Ids \cup {nextId}
      /\ table[nextId] = b
      /\ \A i \in Ids : table[i] = breakpoints[i]
  <2> HIDE DEF b
  <2> QED BY <1>2 DEF With
<1>5. index = [pc \in PCs |-> IF pc \in b.pcs THEN pcToBreakpoints[pc] \cup {nextId}
                                             ELSE pcToBreakpoints[pc]]
  BY <1>3 DEF updatePCToBreakpointMapping
<1> HIDE DEF b, table, index
<1>6. \A i \in DOMAIN table : /\ table[i] \in Breakpoint
                              /\ IsLine(table[i]) => table[i].line \in Lines
  BY <1>3, <1>4 DEF TableInv
<1>7. /\ DOMAIN breakpoints' = DOMAIN table
      /\ \A i \in DOMAIN table : breakpoints'[i] = Resolved(table[i])
      /\ breakpoints' = [i \in DOMAIN table |-> breakpoints'[i]]
  BY <1>1 DEF ResolveAll
<1>8. \A i \in DOMAIN table :
          /\ breakpoints'[i] \in Breakpoint
          /\ breakpoints'[i].source = table[i].source
          /\ breakpoints'[i].line = table[i].line
          /\ IsLine(breakpoints'[i]) <=> IsLine(table[i])
          /\ IsLine(table[i]) =>
                 breakpoints'[i].pcs = PCsOf[<<table[i].source, table[i].line>>]
  BY <1>6, <1>7, ResolvedEntry
<1>9. /\ nextId' \in Nat /\ nextId' >= 1
      /\ \A i \in Ids' : i \in Nat /\ i >= 1 /\ i < nextId'
  BY <1>1, <1>2, <1>4, <1>7 DEF TableInv
<1>10. breakpoints' \in [Ids' -> Breakpoint]
  BY <1>7, <1>8
<1>11. \A i \in Ids' : IsLine(breakpoints'[i]) => breakpoints'[i].line \in Lines
  BY <1>6, <1>7, <1>8
<1>12. \A pc \in PCs : index[pc] =
           {i \in DOMAIN table : IsLine(table[i]) /\ pc \in table[i].pcs}
  <2> SUFFICES ASSUME NEW pc \in PCs
               PROVE  index[pc] = {i \in DOMAIN table : IsLine(table[i])
                                                        /\ pc \in table[i].pcs}
    OBVIOUS
  <2>1. pcToBreakpoints[pc] = {i \in Ids : IsLine(breakpoints[i])
                                           /\ pc \in breakpoints[i].pcs}
    BY DEF TableInv, IndexMatches
  <2>2. index[pc] = IF pc \in b.pcs THEN pcToBreakpoints[pc] \cup {nextId}
                                    ELSE pcToBreakpoints[pc]
    BY <1>5
  <2> QED BY <1>2, <1>3, <1>4, <2>1, <2>2
<1>13. \A pc \in PCs : pcToBreakpoints'[pc] =
           {i \in DOMAIN table : IsLine(table[i])
                                 /\ pc \in PCsOf[<<table[i].source, table[i].line>>]}
  <2> SUFFICES ASSUME NEW pc \in PCs
               PROVE  pcToBreakpoints'[pc] =
                          {i \in DOMAIN table : IsLine(table[i])
                             /\ pc \in PCsOf[<<table[i].source, table[i].line>>]}
    OBVIOUS
  <2>1. pcToBreakpoints'[pc] =
            (index[pc] \ {i \in DOMAIN table : IsLine(table[i]) /\ pc \in table[i].pcs})
            \cup {i \in DOMAIN table : IsLine(table[i])
                     /\ pc \in PCsOf[<<table[i].source, table[i].line>>]}
    BY <1>1 DEF ReindexAll
  <2> QED BY <1>12, <2>1
<1>14. IndexMatches'
  BY <1>7, <1>8, <1>13 DEF IndexMatches
<1>15. pcToBreakpoints' \in [PCs -> SUBSET (1..nextId' - 1)]
  <2>1. pcToBreakpoints' = [pc \in PCs |-> pcToBreakpoints'[pc]]
    BY <1>1 DEF ReindexAll
  <2>2. \A pc \in PCs : pcToBreakpoints'[pc] \subseteq Ids'
    BY <1>7, <1>13
  <2>3. Ids' \subseteq 1..nextId' - 1
    BY <1>9
  <2> QED BY <2>1, <2>2, <2>3
<1>16. Located'
  BY <1>7, <1>8 DEF Located
<1>17. \A i \in Ids : i \in Ids' /\ breakpoints'[i].source = breakpoints[i].source
  BY <1>4, <1>7, <1>8
<1> QED BY <1>1, <1>9, <1>10, <1>11, <1>14, <1>15, <1>16, <1>17 DEF TableInv

(* Removal takes the entries out of the table and out of the index.        *)
LEMMA RemoveStep ==
    ASSUME TableInv, NEW ids, removeBreakpoints(ids), UNCHANGED nextId
    PROVE  /\ TableInv'
           /\ Ids' = Ids \ ids
           /\ \A i \in Ids' : breakpoints'[i] = breakpoints[i]
<1>1. /\ breakpoints' = [i \in Ids \ ids |-> breakpoints[i]]
      /\ pcToBreakpoints' =
             [pc \in PCs |-> pcToBreakpoints[pc] \
                 {i \in ids \cap Ids : IsLine(breakpoints[i])
                                       /\ pc \in breakpoints[i].pcs}]
  BY DEF removeBreakpoints
<1>2. Ids' = Ids \ ids /\ \A i \in Ids' : breakpoints'[i] = breakpoints[i]
  BY <1>1
<1>3. breakpoints' \in [Ids' -> Breakpoint]
  BY <1>1, <1>2 DEF TableInv
<1>4. pcToBreakpoints' \in [PCs -> SUBSET (1..nextId' - 1)]
  BY <1>1 DEF TableInv
<1>5. IndexMatches'
  <2> SUFFICES ASSUME NEW pc \in PCs
               PROVE  pcToBreakpoints'[pc] =
                         {i \in Ids' : IsLine(breakpoints'[i]) /\ pc \in breakpoints'[i].pcs}
    BY DEF IndexMatches
  <2>1. pcToBreakpoints[pc] = {i \in Ids : IsLine(breakpoints[i])
                                           /\ pc \in breakpoints[i].pcs}
    BY DEF TableInv, IndexMatches
  <2>2. pcToBreakpoints'[pc] = pcToBreakpoints[pc] \
            {i \in ids \cap Ids : IsLine(breakpoints[i]) /\ pc \in breakpoints[i].pcs}
    BY <1>1
  <2> QED BY <1>2, <2>1, <2>2
<1>6. Located'
  BY <1>2 DEF TableInv, Located
<1> QED BY <1>2, <1>3, <1>4, <1>5, <1>6 DEF TableInv
-----------------------------------------------------------------------------
(* A command of the command line debugger keeps the live server's empty    *)
(* records consistent with whatever table it leaves.                       *)
LEMMA CliStep ==
    ASSUME AgreeInv, client = "cli", TableInv', OnlyManager,
           nextId' = nextId \/ nextId' = nextId + 1,
           \A i \in Ids' \cap (1..nextId - 1) :
               i \in Ids /\ breakpoints'[i].source = breakpoints[i].source
    PROVE  AgreeInv'
<1>1. TableInv /\ RestTypeOK /\ RecordsInv
  BY Split
<1>2. nextId \in Nat /\ nextId >= 1 /\ 1..nextId - 1 \subseteq 1..nextId' - 1
  BY <1>1 DEF TableInv
<1>3. RestTypeOK'
  <2>1. todo \in [source : Sources, items : Seq(Requests),
                  ids : SUBSET (1..nextId' - 1), lines : SUBSET Lines,
                  active : BOOLEAN]
    BY <1>1, <1>2 DEF RestTypeOK
  <2> QED BY <1>1, <1>2, <2>1 DEF RestTypeOK, OnlyManager
<1>4. RecordsInv'
  <2>1. client' = "cli" /\ Idle'
    BY <1>1 DEF OnlyManager, RecordsInv, Idle
  <2>2. ASSUME NEW s \in Sources, NEW i \in sourceIds[s]
        PROVE  i \in 1..nextId' - 1 /\ (i \in Ids' => breakpoints'[i].source = s)
    <3>1. i \in 1..nextId - 1 /\ (i \in Ids => breakpoints[i].source = s)
      BY <1>1, <2>2 DEF RestTypeOK, RecordsInv
    <3> QED BY <1>2, <3>1
  <2>3. sourceIds' = sourceIds
    BY DEF OnlyManager
  <2>4. \A i \in todo'.ids : i \in Ids' => breakpoints'[i].source = todo'.source
    <3>1. todo' = todo
      BY DEF OnlyManager
    <3> QED BY <1>1, <3>1 DEF RestTypeOK, RecordsInv
  <2> QED BY <2>1, <2>2, <2>3, <2>4 DEF RecordsInv
<1> QED BY <1>3, <1>4, Split, PTL

(* setBreakpoints begins: what is recorded for its source is removed.      *)
LEMMA BeginStep ==
    ASSUME AgreeInv, NEW src \in Sources, NEW n \in Nat,
           NEW items \in [1..n -> Requests], Begin(src, items)
    PROVE  AgreeInv'
<1>1. TableInv /\ RestTypeOK /\ RecordsInv
  BY Split
<1>2. /\ removeBreakpoints(sourceIds[src]) /\ UNCHANGED nextId
      /\ sourceIds' = [sourceIds EXCEPT ![src] = {}]
      /\ client = "live" /\ Idle
      /\ UNCHANGED <<client, asked, failed>>
  BY DEF Begin
<1>3. /\ TableInv' /\ Ids' = Ids \ sourceIds[src]
      /\ \A i \in Ids' : breakpoints'[i] = breakpoints[i]
  BY <1>1, <1>2, RemoveStep
<1>4. todo' = [source |-> src, items |-> items, ids |-> {}, lines |-> {},
               active |-> TRUE]
  BY DEF Begin
<1>5. RestTypeOK'
  <2>1. items \in Seq(Requests)
    BY DEF Requests
  <2> QED BY <1>1, <1>2, <1>4, <2>1 DEF RestTypeOK
<1>6. RecordsInv'
  <2>1. \A s \in Sources \ failed : IdsOf(s) = sourceIds[s] /\ LinesOf(s) = asked[s]
    BY <1>1, <1>2 DEF RecordsInv, Idle, Handles
  <2>2. \A s \in Sources : sourceIds'[s] = IF s = src THEN {} ELSE sourceIds[s]
    BY <1>1, <1>2 DEF RestTypeOK
  <2>3. \A i \in Ids' : i \in Ids /\ IsLine(breakpoints'[i])
    BY <1>1, <1>2, <1>3 DEF RecordsInv
  <2>4. \A s \in Sources : sourceIds'[s] \subseteq
            {i \in 1..nextId' - 1 : i \in Ids' => breakpoints'[i].source = s}
    BY <1>1, <1>2, <1>3, <2>2 DEF RecordsInv
  <2>5. ASSUME NEW s \in Sources \ failed
        PROVE  IF s = src THEN IdsOf(s)' = {} /\ LinesOf(s)' = {}
                          ELSE IdsOf(s)' = IdsOf(s) /\ LinesOf(s)' = LinesOf(s)
    <3>1. CASE s = src
      <4>1. IdsOf(s)' = {}
        BY <1>3, <2>1, <3>1 DEF IdsOf
      <4> QED BY <3>1, <4>1 DEF LinesOf
    <3>2. CASE s # src
      <4>1. \A i \in IdsOf(s) : i \notin sourceIds[src]
        BY <1>1, <3>2 DEF RecordsInv, IdsOf
      <4>2. IdsOf(s)' = IdsOf(s)
        BY <1>3, <4>1 DEF IdsOf
      <4>3. LinesOf(s)' = LinesOf(s)
        BY <1>3, <4>2 DEF LinesOf, IdsOf
      <4> QED BY <3>2, <4>2, <4>3
    <3> QED BY <3>1, <3>2
  <2>6. \A s \in Sources : Handles(s)' <=> s = src
    BY <1>4 DEF Handles
  <2>7. client' # "cli"
    BY <1>2
  <2> QED BY <1>2, <1>4, <2>1, <2>2, <2>3, <2>4, <2>5, <2>6, <2>7 DEF RecordsInv
<1> QED BY <1>3, <1>5, <1>6, Split, PTL

(* One item: its breakpoint is added to the table and to the ids to record.*)
LEMMA HandleItemStep ==
    ASSUME AgreeInv, HandleItem
    PROVE  AgreeInv'
<1>1. TableInv /\ RestTypeOK /\ RecordsInv
  BY Split
<1> DEFINE src == todo.source
           l   == Head(todo.items)
<1>2. /\ todo.active /\ l \in Lines /\ src \in Sources
      /\ UNCHANGED <<client, sourceIds, asked, failed>>
  BY <1>1 DEF HandleItem, RestTypeOK
<1>3. todo.items \in Seq(Requests) /\ Tail(todo.items) \in Seq(Requests)
  BY <1>1 DEF HandleItem, RestTypeOK
<1>4. client = "live" /\ Handles(src)
  BY <1>1, <1>2 DEF RecordsInv, RestTypeOK, Idle, Handles
<1>5. CASE Executable(src, l)
  <2>1. PICK kind \in {"line", "conditional"} : AddLine(kind, src, l)
    BY <1>5 DEF HandleItem
  <2>2. /\ TableInv' /\ nextId' = nextId + 1 /\ Ids' = Ids \cup {nextId}
        /\ breakpoints'[nextId] = NewLine(kind, src, l)
        /\ \A i \in Ids : breakpoints'[i] = breakpoints[i]
    BY <1>1, <1>2, <2>1, AddLineStep
  <2>3. todo' = [todo EXCEPT !.items = Tail(@), !.ids = @ \cup {nextId},
                             !.lines = @ \cup {l}]
    BY <1>5 DEF HandleItem
  <2>4. /\ todo'.source = src /\ todo'.active
        /\ todo'.items = Tail(todo.items)
        /\ todo'.ids = todo.ids \cup {nextId} /\ todo'.lines = todo.lines \cup {l}
    BY <1>1, <1>2, <2>3 DEF RestTypeOK
  <2>5. RestTypeOK'
    <3>1. nextId \in Nat /\ nextId >= 1 /\ 1..nextId - 1 \subseteq 1..nextId' - 1
          /\ nextId \in 1..nextId' - 1
      BY <1>1, <2>2 DEF TableInv
    <3>2. todo' \in [source : Sources, items : Seq(Requests),
                     ids : SUBSET (1..nextId' - 1), lines : SUBSET Lines,
                     active : BOOLEAN]
      BY <1>1, <1>2, <1>3, <2>3, <3>1 DEF RestTypeOK
    <3> QED BY <1>1, <1>2, <3>1, <3>2 DEF RestTypeOK
  <2>6. RecordsInv'
    <3>1. nextId \in Nat /\ nextId >= 1 /\ nextId \notin Ids
          /\ 1..nextId - 1 \subseteq 1..nextId' - 1 /\ nextId \notin 1..nextId - 1
      BY <1>1, <2>2 DEF TableInv
    <3>2. /\ breakpoints'[nextId].source = src /\ breakpoints'[nextId].line = l
          /\ IsLine(breakpoints'[nextId])
      BY <2>2 DEF NewLine, IsLine
    <3>3. \A i \in Ids' : IsLine(breakpoints'[i])
      BY <1>1, <1>4, <2>2, <3>2 DEF RecordsInv
    <3>4. \A s \in Sources : sourceIds'[s] \subseteq
              {i \in 1..nextId' - 1 : i \in Ids' => breakpoints'[i].source = s}
      <4> SUFFICES ASSUME NEW s \in Sources, NEW i \in sourceIds[s]
                   PROVE  i \in 1..nextId' - 1
                          /\ (i \in Ids' => breakpoints'[i].source = s)
        BY <1>2
      <4>1. i \in 1..nextId - 1 /\ (i \in Ids => breakpoints[i].source = s)
        BY <1>1 DEF RestTypeOK, RecordsInv
      <4> QED BY <2>2, <3>1, <4>1
    <3>5. ASSUME NEW s \in Sources
          PROVE  IF s = src THEN /\ IdsOf(s)' = IdsOf(s) \cup {nextId}
                                 /\ LinesOf(s)' = LinesOf(s) \cup {l}
                            ELSE IdsOf(s)' = IdsOf(s) /\ LinesOf(s)' = LinesOf(s)
      <4>1. CASE s = src
        <5>1. IdsOf(s)' = IdsOf(s) \cup {nextId}
          BY <2>2, <3>2, <4>1 DEF IdsOf
        <5>2. LinesOf(s)' = LinesOf(s) \cup {l}
          BY <2>2, <3>1, <3>2, <5>1 DEF LinesOf, IdsOf
        <5> QED BY <4>1, <5>1, <5>2
      <4>2. CASE s # src
        <5>1. IdsOf(s)' = IdsOf(s)
          BY <2>2, <3>2, <4>2 DEF IdsOf
        <5>2. LinesOf(s)' = LinesOf(s)
          BY <2>2, <5>1 DEF LinesOf, IdsOf
        <5> QED BY <4>2, <5>1, <5>2
      <4> QED BY <4>1, <4>2
    <3>6. \A s \in Sources : (Handles(s)' <=> s = src) /\ (Handles(s) <=> s = src)
      <4>1. todo.active = TRUE /\ todo'.active = TRUE
        BY <1>1, <1>2, <2>3 DEF RestTypeOK
      <4> QED BY <2>4, <4>1 DEF Handles
    <3>7. client' = "live"
      BY <1>2, <1>4
    <3> HIDE DEF src, l
    <3>8. \A s \in Sources \ failed' :
              /\ Handles(s)' => IdsOf(s)' = todo'.ids /\ LinesOf(s)' = todo'.lines
              /\ ~Handles(s)' => IdsOf(s)' = sourceIds'[s] /\ LinesOf(s)' = asked'[s]
      <4> SUFFICES ASSUME NEW s \in Sources \ failed
                   PROVE  IF s = src
                          THEN IdsOf(s)' = todo'.ids /\ LinesOf(s)' = todo'.lines
                          ELSE IdsOf(s)' = sourceIds[s] /\ LinesOf(s)' = asked[s]
        BY <1>2, <3>6
      <4>1. /\ s = src => IdsOf(s) = todo.ids /\ LinesOf(s) = todo.lines
            /\ s # src => IdsOf(s) = sourceIds[s] /\ LinesOf(s) = asked[s]
        BY <1>1, <1>4, <3>6 DEF RecordsInv
      <4> QED BY <2>4, <3>5, <4>1
    <3>9. \A i \in todo'.ids : i \in Ids' => breakpoints'[i].source = todo'.source
      <4>1. \A i \in todo.ids : i \in Ids => breakpoints[i].source = src
        BY <1>1 DEF RecordsInv, src
      <4> QED BY <2>2, <2>4, <3>2, <4>1
    <3> QED BY <3>3, <3>4, <3>7, <3>8, <3>9 DEF RecordsInv
  <2> QED BY <2>2, <2>5, <2>6, Split, PTL
<1>6. CASE ~Executable(src, l)
  <2>1. /\ UNCHANGED <<breakpoints, pcToBreakpoints, nextId>>
        /\ todo' = [todo EXCEPT !.items = Tail(@)]
    BY <1>6 DEF HandleItem
  <2>2. /\ todo'.source = src /\ todo'.active = todo.active
        /\ todo'.ids = todo.ids /\ todo'.lines = todo.lines
    BY <1>1, <2>1 DEF RestTypeOK
  <2>3. TableInv'
    BY <1>1, <2>1 DEF TableInv, IndexMatches, Located
  <2>4. RestTypeOK'
    BY <1>1, <1>2, <1>3, <2>1 DEF RestTypeOK
  <2>5. RecordsInv'
    BY <1>1, <1>2, <2>1, <2>2 DEF RecordsInv, Idle, Handles, IdsOf, LinesOf
  <2> QED BY <2>3, <2>4, <2>5, Split, PTL
<1> QED BY <1>5, <1>6

(* Steps that leave the table and the index as they are.                   *)
LEMMA SameTable ==
    ASSUME TableInv, UNCHANGED <<breakpoints, pcToBreakpoints, nextId>>
    PROVE  /\ TableInv'
           /\ \A s \in Sources : IdsOf(s)' = IdsOf(s) /\ LinesOf(s)' = LinesOf(s)
BY DEF TableInv, IndexMatches, Located, IdsOf, LinesOf

(* An item that throws ends the request; its source counts as failed.      *)
LEMMA ItemThrowsStep ==
    ASSUME AgreeInv, ItemThrows
    PROVE  AgreeInv'
<1>1. TableInv /\ RestTypeOK /\ RecordsInv
  BY Split
<1>2. /\ UNCHANGED <<client, breakpoints, pcToBreakpoints, nextId, sourceIds, asked>>
      /\ todo' = NoRequest /\ failed' = failed \cup {todo.source}
      /\ todo.active
  BY DEF ItemThrows
<1>3. /\ TableInv'
      /\ \A s \in Sources : IdsOf(s)' = IdsOf(s) /\ LinesOf(s)' = LinesOf(s)
  BY <1>1, <1>2, SameTable
<1>4. todo' \in [source : Sources, items : Seq(Requests),
                 ids : SUBSET (1..nextId' - 1), lines : SUBSET Lines,
                 active : BOOLEAN]
  BY <1>2, SourcesAssumption DEF NoRequest
<1>5. RestTypeOK'
  BY <1>1, <1>2, <1>4 DEF RestTypeOK
<1>6. RecordsInv'
  <2>1. /\ ~(todo.active)' /\ \A s \in Sources : ~Handles(s)'
        /\ \A s \in Sources \ failed' : s \in Sources \ failed /\ ~Handles(s)
    BY <1>2 DEF NoRequest, Handles
  <2>2. todo'.ids = {}
    BY <1>2 DEF NoRequest
  <2> QED BY <1>1, <1>2, <1>3, <2>1, <2>2 DEF RecordsInv, Idle
<1> QED BY <1>3, <1>5, <1>6, Split, PTL

(* The end of a request: what has been added is recorded for its source.   *)
LEMMA FinishStep ==
    ASSUME AgreeInv, Finish
    PROVE  AgreeInv'
<1>1. TableInv /\ RestTypeOK /\ RecordsInv
  BY Split
<1>2. /\ UNCHANGED <<client, breakpoints, pcToBreakpoints, nextId, failed>>
      /\ sourceIds' = [sourceIds EXCEPT ![todo.source] = todo.ids]
      /\ asked' = [asked EXCEPT ![todo.source] = todo.lines]
      /\ todo' = NoRequest /\ todo.active
  BY DEF Finish
<1>3. /\ TableInv'
      /\ \A s \in Sources : IdsOf(s)' = IdsOf(s) /\ LinesOf(s)' = LinesOf(s)
  BY <1>1, <1>2, SameTable
<1>4. todo' \in [source : Sources, items : Seq(Requests),
                 ids : SUBSET (1..nextId' - 1), lines : SUBSET Lines,
                 active : BOOLEAN]
  BY <1>2, SourcesAssumption DEF NoRequest
<1>5. RestTypeOK'
  BY <1>1, <1>2, <1>4 DEF RestTypeOK
<1>6. \A s \in Sources :
          /\ sourceIds'[s] = IF s = todo.source THEN todo.ids ELSE sourceIds[s]
          /\ asked'[s] = IF s = todo.source THEN todo.lines ELSE asked[s]
  BY <1>1, <1>2 DEF RestTypeOK
<1>7. RecordsInv'
  <2>1. ~(todo.active)' /\ \A s \in Sources : ~Handles(s)'
    BY <1>2 DEF NoRequest, Handles
  <2>2. \A s \in Sources : Handles(s) <=> s = todo.source
    BY <1>2 DEF Handles
  <2>3. client = "live"
    BY <1>1, <1>2 DEF RecordsInv, RestTypeOK, Idle
  <2>4. ASSUME NEW s \in Sources \ failed
        PROVE  IdsOf(s)' = sourceIds'[s] /\ LinesOf(s)' = asked'[s]
    BY <1>1, <1>3, <1>6, <2>2, <2>3, <2>4 DEF RecordsInv
  <2>5. todo.ids \subseteq {i \in 1..nextId - 1 : i \in Ids =>
                                breakpoints[i].source = todo.source}
    BY <1>1 DEF RecordsInv, RestTypeOK
  <2>6. \A s \in Sources : sourceIds'[s] \subseteq
            {i \in 1..nextId' - 1 : i \in Ids' => breakpoints'[i].source = s}
    BY <1>1, <1>2, <1>6, <2>5 DEF RecordsInv
  <2>7. todo'.ids = {}
    BY <1>2 DEF NoRequest
  <2> QED BY <1>1, <1>2, <2>1, <2>3, <2>4, <2>6, <2>7 DEF RecordsInv, Idle
<1> QED BY <1>3, <1>5, <1>7, Split, PTL

(* What stops the VM is an enabled breakpoint of the table.                *)
LEMMA StopIsABreakpoint ==
    ASSUME AgreeInv, NEW pc \in PCs, NEW executing \in BOOLEAN,
           NEW active \in SUBSET LinesAt(pc)
    PROVE  /\ StopAt(pc, executing, active) # 0 =>
                  StopAt(pc, executing, active) \in Ids
           /\ StopAt(pc, executing, active) # 0 <=>
                  /\ executing
                  /\ LineStops(pc, active) # {} \/ FunctionStops(pc) # {}
<1>1. /\ LineStops(pc, active) \subseteq Ids /\ FunctionStops(pc) \subseteq Ids
      /\ Ids \subseteq Nat \ {0}
  BY DEF LineStops, FunctionStops, AgreeInv, TablesTypeOK
<1>2. /\ LineStops(pc, active) # {} =>
             Least(LineStops(pc, active)) \in LineStops(pc, active)
      /\ FunctionStops(pc) # {} => Least(FunctionStops(pc)) \in FunctionStops(pc)
  BY <1>1, LeastMember
<1> QED BY <1>1, <1>2 DEF StopAt

(* The index and the branch trace find exactly the active lines.           *)
LEMMA LineStopsExactly ==
    ASSUME AgreeInv, NEW pc \in PCs, NEW active \in SUBSET LinesAt(pc)
    PROVE  LineStops(pc, active) =
               {i \in Ids : /\ breakpoints[i].enabled /\ IsLine(breakpoints[i])
                            /\ <<breakpoints[i].source, breakpoints[i].line>> \in active}
<1>1. \A i \in Ids : IsLine(breakpoints[i])
                     /\ <<breakpoints[i].source, breakpoints[i].line>> \in active
                     => pc \in breakpoints[i].pcs
  BY DEF LinesAt, AgreeInv, Located
<1>2. pcToBreakpoints[pc] = {i \in Ids : IsLine(breakpoints[i])
                                         /\ pc \in breakpoints[i].pcs}
  BY DEF AgreeInv, IndexMatches
<1> QED BY <1>1, <1>2 DEF LineStops

(* A question of the VM counts a hit of the breakpoint that stops it.      *)
LEMMA CheckStep ==
    ASSUME AgreeInv, NEW pc \in PCs, NEW executing \in BOOLEAN,
           NEW active \in SUBSET LinesAt(pc), shouldBreakAtPC(pc, executing, active)
    PROVE  AgreeInv'
<1> DEFINE id == StopAt(pc, executing, active)
<1>1. /\ id = 0 => UNCHANGED breakpoints
      /\ id # 0 => Becomes(id, Counted(breakpoints[id]))
      /\ UNCHANGED <<client, pcToBreakpoints, nextId, sourceIds, todo, asked, failed>>
  BY DEF shouldBreakAtPC
<1>2. id # 0 => id \in Ids
  BY StopIsABreakpoint
<1> HIDE DEF id
<1>3. \A i \in Ids : breakpoints[i] \in Breakpoint
  BY DEF AgreeInv, TablesTypeOK
<1>4. /\ DOMAIN breakpoints' = Ids
      /\ \A i \in Ids : breakpoints'[i] = breakpoints[i]
                        \/ breakpoints'[i] = Counted(breakpoints[i])
      /\ breakpoints' = [i \in Ids |-> breakpoints'[i]]
  <2>1. breakpoints = [i \in Ids |-> breakpoints[i]]
    BY DEF AgreeInv, TablesTypeOK
  <2> QED BY <1>1, <1>2, <2>1 DEF Becomes
<1>5. \A i \in Ids : Alike(breakpoints[i], breakpoints'[i])
  BY <1>3, <1>4, AlikeEntries
<1> QED BY <1>1, <1>4, <1>5, AlikeStep

(* disable and enable.                                                     *)
LEMMA SwitchStep ==
    ASSUME AgreeInv, NEW id, NEW e \in BOOLEAN, SetEnabled(id, e),
           UNCHANGED <<client, pcToBreakpoints, nextId, sourceIds, todo, asked,
                       failed>>
    PROVE  AgreeInv'
<1>1. \A i \in Ids : breakpoints[i] \in Breakpoint
  BY DEF AgreeInv, TablesTypeOK
<1>2. /\ DOMAIN breakpoints' = Ids
      /\ \A i \in Ids : breakpoints'[i] = breakpoints[i]
                        \/ breakpoints'[i] = Switched(breakpoints[i], e)
      /\ breakpoints' = [i \in Ids |-> breakpoints'[i]]
  <2>1. breakpoints = [i \in Ids |-> breakpoints[i]]
    BY DEF AgreeInv, TablesTypeOK
  <2> QED BY <2>1 DEF SetEnabled, Becomes
<1>3. \A i \in Ids : Alike(breakpoints[i], breakpoints'[i])
  BY <1>1, <1>2, AlikeEntries
<1> QED BY <1>2, <1>3, AlikeStep
-----------------------------------------------------------------------------
(* Every step keeps what the tables promise.                                         *)
LEMMA CliNext ==
    ASSUME AgreeInv, Cli
    PROVE  AgreeInv'
<1>0. TableInv
  BY Split
<1>1. ASSUME NEW l \in Lines, cmdBreakLine(l)
      PROVE  AgreeInv'
  <2>1. PICK k \in Lines : AddLineAndResolveAll(MainSource, k)
    BY <1>1 DEF cmdBreakLine
  <2>2. client = "cli" /\ OnlyManager
    BY <1>1 DEF cmdBreakLine, AtPrompt
  <2>3. /\ TableInv' /\ nextId' = nextId + 1
        /\ \A i \in Ids : i \in Ids' /\ breakpoints'[i].source = breakpoints[i].source
    BY <1>0, <2>1, AddAndResolveStep, SourcesAssumption
  <2>4. Ids' = Ids \cup {nextId}
    <3>1. DOMAIN With(breakpoints, nextId, NewLine("line", MainSource, k)) =
              Ids \cup {nextId}
      BY DEF With
    <3>2. breakpoints' =
              ResolveAll(With(breakpoints, nextId, NewLine("line", MainSource, k)))
      BY <2>1 DEF AddLineAndResolveAll
    <3> QED BY <3>1, <3>2 DEF ResolveAll
  <2>5. nextId \in Nat
    BY <1>0 DEF TableInv
  <2>6. nextId \notin 1..nextId - 1
    BY <2>5
  <2> QED BY <2>2, <2>3, <2>4, <2>6, CliStep
<1>2. ASSUME NEW f \in Functions, cmdBreakFunction(f)
      PROVE  AgreeInv'
  <2>1. /\ breakpoints' = With(breakpoints, nextId, NewFunction(f))
        /\ nextId' = nextId + 1 /\ UNCHANGED pcToBreakpoints
        /\ client = "cli" /\ OnlyManager
    BY <1>2 DEF cmdBreakFunction, AtPrompt
  <2>2. TableInv'
    BY <1>0, <2>1, AddFunctionStep
  <2>3. /\ Ids' = Ids \cup {nextId}
        /\ \A i \in Ids \ {nextId} : breakpoints'[i] = breakpoints[i]
    BY <2>1 DEF With
  <2>4. nextId \in Nat
    BY <1>0 DEF TableInv
  <2>5. nextId \notin 1..nextId - 1
    BY <2>4
  <2> QED BY <2>1, <2>2, <2>3, <2>5, CliStep
<1>3. ASSUME NEW id \in 1..MaxId, cmdDelete(id)
      PROVE  AgreeInv'
  <2>1. removeBreakpoints({id}) /\ UNCHANGED nextId /\ client = "cli" /\ OnlyManager
    BY <1>3 DEF cmdDelete
  <2>2. TableInv' /\ Ids' = Ids \ {id}
        /\ \A i \in Ids' : breakpoints'[i] = breakpoints[i]
    BY <1>0, <2>1, RemoveStep
  <2> QED BY <2>1, <2>2, CliStep
<1>4. ASSUME NEW id \in 1..MaxId, cmdDisable(id) \/ cmdEnable(id)
      PROVE  AgreeInv'
  <2>1. PICK e \in BOOLEAN : SetEnabled(id, e)
    BY <1>4 DEF cmdDisable, cmdEnable
  <2>2. UNCHANGED <<client, pcToBreakpoints, nextId, sourceIds, todo, asked, failed>>
    BY <1>4 DEF cmdDisable, cmdEnable, OnlyManager
  <2> QED BY <2>1, <2>2, SwitchStep
<1> QED BY <1>1, <1>2, <1>3, <1>4 DEF Cli

LEMMA NextAgrees == AgreeInv /\ [Next]_vars => AgreeInv'
<1> SUFFICES ASSUME AgreeInv, [Next]_vars PROVE AgreeInv'
  OBVIOUS
<1>1. CASE Cli
  BY <1>1, CliNext
<1>2. CASE Live
  <2>1. ASSUME NEW s \in Sources, NEW n \in 0..MaxItems,
               NEW items \in [1..n -> Requests], Begin(s, items)
        PROVE  AgreeInv'
    <3>1. n \in Nat
      BY BoundsAssumption
    <3> QED BY <2>1, <3>1, BeginStep
  <2> QED BY <1>2, <2>1, HandleItemStep, ItemThrowsStep, FinishStep DEF Live
<1>3. CASE VM
  BY <1>3, CheckStep DEF VM
<1>4. CASE UNCHANGED vars
  <2>1. TableInv'
    BY <1>4, Split, SameTable DEF vars
  <2>2. RestTypeOK'
    BY <1>4, Split DEF vars, RestTypeOK
  <2>3. RecordsInv'
    BY <1>4, Split DEF vars, RecordsInv, Idle, Handles, IdsOf, LinesOf
  <2> QED BY <2>1, <2>2, <2>3, Split, PTL
<1> QED BY <1>1, <1>2, <1>3, <1>4 DEF Next, Rest
-----------------------------------------------------------------------------
(***************************************************************************)
(* What the user asked for.                                                *)
(***************************************************************************)

(* A table of which every breakpoint keeps its entry agrees with the same  *)
(* wishes as before, and so does one that has a new breakpoint, enabled.   *)
LEMMA SameWishes ==
    ASSUME AgreeInv, WishInv, UNCHANGED <<client, wishes>>,
           \/ /\ Ids' = Ids
              /\ \A i \in Ids : breakpoints'[i].enabled = breakpoints[i].enabled
           \/ /\ Ids' = Ids \cup {nextId}
              /\ breakpoints'[nextId].enabled = TRUE
              /\ \A i \in Ids : breakpoints'[i] = breakpoints[i]
    PROVE  WishInv'
<1>1. disabled' = disabled /\ revived' = revived /\ client' = client
  BY DEF wishes
<1>2. nextId \notin disabled
  <2>1. nextId \notin Ids
    BY Split DEF TableInv
  <2> QED BY <2>1 DEF WishInv
<1>3. disabled' \subseteq Ids' /\ revived' \subseteq disabled'
      /\ (client' = "live" => disabled' = {})
  BY <1>1 DEF WishInv
<1>4. ASSUME NEW i \in Ids'
      PROVE  breakpoints'[i].enabled <=> (i \notin disabled' \/ i \in revived')
  <2>1. CASE i \in Ids
    <3>1. breakpoints'[i].enabled = breakpoints[i].enabled
      BY <2>1
    <3>2. breakpoints[i].enabled <=> (i \notin disabled \/ i \in revived)
      BY <2>1 DEF WishInv
    <3> QED BY <1>1, <3>1, <3>2, Zenon
  <2>2. CASE i = nextId /\ i \notin Ids
    <3>1. breakpoints'[i].enabled = TRUE
      BY <1>4, <2>2
    <3> QED BY <1>1, <1>2, <2>2, <3>1, Zenon
  <2> QED BY <1>4, <2>1, <2>2
<1> QED BY <1>3, <1>4 DEF WishInv

(* "break <line>" adds a breakpoint and enables all of them: those that    *)
(* the user had disabled are revived.                                      *)
LEMMA BreakLineWishes ==
    ASSUME AgreeInv, WishInv, NEW l \in Lines, cmdBreakLine(l)
    PROVE  WishInv'
<1>1. PICK k \in Lines : AddLineAndResolveAll(MainSource, k)
  BY DEF cmdBreakLine
<1>2. client = "cli" /\ client' = client /\ revived' = disabled /\ disabled' = disabled
  BY DEF cmdBreakLine, AtPrompt, OnlyManager
<1> DEFINE table == With(breakpoints, nextId, NewLine("line", MainSource, k))
<1>3. DOMAIN table = Ids \cup {nextId} /\ breakpoints' = ResolveAll(table)
  BY <1>1 DEF AddLineAndResolveAll, With
<1> HIDE DEF table
<1>4. Ids' = Ids \cup {nextId} /\ \A i \in Ids' : breakpoints'[i] = Resolved(table[i])
  BY <1>3 DEF ResolveAll
<1>5. ASSUME NEW i \in Ids' PROVE breakpoints'[i].enabled = TRUE
  <2>1. i \in Ids \/ i = nextId
    BY <1>4
  <2>2. table[i] \in Breakpoint
    <3>1. breakpoints \in [Ids -> Breakpoint]
      BY DEF AgreeInv, TablesTypeOK
    <3>2. NewLine("line", MainSource, k) \in Breakpoint
      BY NewEntries, SourcesAssumption
    <3> QED BY <2>1, <3>1, <3>2 DEF With, table
  <2> QED BY <1>4, <2>2 DEF Resolved, Breakpoint
<1> QED BY <1>2, <1>4, <1>5, Zenon DEF WishInv

(* delete forgets what was wished for the breakpoint.                      *)
LEMMA DeleteWishes ==
    ASSUME AgreeInv, WishInv, NEW id \in 1..MaxId, cmdDelete(id)
    PROVE  WishInv'
<1>1. /\ disabled' = disabled \ {id} /\ revived' = revived \ {id}
      /\ removeBreakpoints({id}) /\ UNCHANGED nextId /\ client' = client
  BY DEF cmdDelete, OnlyManager
<1>2. Ids' = Ids \ {id} /\ \A i \in Ids' : breakpoints'[i] = breakpoints[i]
  BY <1>1, Split, RemoveStep
<1> QED BY <1>1, <1>2 DEF WishInv

(* disable and enable do to the table what the user wishes.                *)
LEMMA SwitchWishes ==
    ASSUME AgreeInv, WishInv, NEW id \in 1..MaxId, cmdDisable(id) \/ cmdEnable(id)
    PROVE  WishInv'
<1>1. client = "cli" /\ client' = client
  BY DEF cmdDisable, cmdEnable, OnlyManager
<1>2. breakpoints \in [Ids -> Breakpoint]
  BY DEF AgreeInv, TablesTypeOK
<1>3. CASE cmdDisable(id)
  <2>1. /\ SetEnabled(id, FALSE) /\ revived' = revived \ {id}
        /\ disabled' = disabled \cup ({id} \cap Ids)
    BY <1>3 DEF cmdDisable
  <2>2. /\ Ids' = Ids /\ \A i \in Ids \ {id} : breakpoints'[i] = breakpoints[i]
        /\ id \in Ids => breakpoints'[id].enabled = FALSE
    BY <1>2, <2>1 DEF SetEnabled, Becomes, Switched, Breakpoint
  <2> QED BY <1>1, <2>1, <2>2, Zenon DEF WishInv
<1>4. CASE cmdEnable(id)
  <2>1. /\ SetEnabled(id, TRUE) /\ revived' = revived \ {id}
        /\ disabled' = disabled \ {id}
    BY <1>4 DEF cmdEnable
  <2>2. /\ Ids' = Ids /\ \A i \in Ids \ {id} : breakpoints'[i] = breakpoints[i]
        /\ id \in Ids => breakpoints'[id].enabled = TRUE
    BY <1>2, <2>1 DEF SetEnabled, Becomes, Switched, Breakpoint
  <2> QED BY <1>1, <2>1, <2>2, Zenon DEF WishInv
<1> QED BY <1>3, <1>4

(* The live server's requests: it disables nothing.                        *)
LEMMA LiveWishes ==
    ASSUME AgreeInv, WishInv, Live
    PROVE  WishInv'
<1>1. CASE HandleItem \/ ItemThrows \/ Finish
  <2>1. UNCHANGED <<client, wishes>>
    BY <1>1 DEF HandleItem, ItemThrows, Finish
  <2>2. CASE UNCHANGED breakpoints
    BY <2>1, <2>2, SameWishes
  <2>3. CASE HandleItem /\ \E kind \in {"line", "conditional"} :
                               AddLine(kind, todo.source, Head(todo.items))
    <3>1. PICK kind \in {"line", "conditional"} :
              AddLine(kind, todo.source, Head(todo.items))
      BY <2>3
    <3>2. todo.source \in Sources /\ Head(todo.items) \in Lines /\ TableInv
      BY <2>3, Split DEF HandleItem, RestTypeOK
    <3>3. /\ Ids' = Ids \cup {nextId} /\ \A i \in Ids : breakpoints'[i] = breakpoints[i]
          /\ breakpoints'[nextId] = NewLine(kind, todo.source, Head(todo.items))
      BY <3>1, <3>2, AddLineStep
    <3>4. breakpoints'[nextId].enabled = TRUE
      BY <3>3 DEF NewLine
    <3> QED BY <2>1, <3>3, <3>4, SameWishes
  <2> QED BY <1>1, <2>2, <2>3 DEF HandleItem, ItemThrows, Finish
<1>2. ASSUME NEW s \in Sources, NEW n \in 0..MaxItems,
             NEW items \in [1..n -> Requests], Begin(s, items)
      PROVE  WishInv'
  <2>1. /\ client = "live" /\ UNCHANGED <<client, wishes, nextId>>
        /\ removeBreakpoints(sourceIds[s])
    BY <1>2 DEF Begin
  <2>2. \A i \in Ids' : i \in Ids /\ breakpoints'[i] = breakpoints[i]
    BY <2>1, Split, RemoveStep
  <2>3. disabled = {} /\ revived = {} /\ disabled' = disabled /\ revived' = revived
    BY <2>1 DEF WishInv, wishes
  <2> QED BY <2>1, <2>2, <2>3 DEF WishInv
<1> QED BY <1>1, <1>2 DEF Live

(* A question of the VM counts a hit and enables or disables nothing.      *)
LEMMA CheckWishes ==
    ASSUME AgreeInv, WishInv, NEW pc \in PCs, NEW executing \in BOOLEAN,
           NEW active \in SUBSET LinesAt(pc), shouldBreakAtPC(pc, executing, active)
    PROVE  WishInv'
<1>1. UNCHANGED <<client, wishes>>
  BY DEF shouldBreakAtPC
<1>2. PICK id : \/ UNCHANGED breakpoints
                \/ id \in Ids /\ Becomes(id, Counted(breakpoints[id]))
  <2>1. StopAt(pc, executing, active) # 0 => StopAt(pc, executing, active) \in Ids
    BY StopIsABreakpoint
  <2> QED BY <2>1 DEF shouldBreakAtPC
<1>3. breakpoints \in [Ids -> Breakpoint]
  BY DEF AgreeInv, TablesTypeOK
<1>4. Ids' = Ids /\ \A i \in Ids : breakpoints'[i].enabled = breakpoints[i].enabled
  BY <1>2, <1>3 DEF Becomes, Counted, Breakpoint
<1> QED BY <1>1, <1>4, SameWishes

LEMMA NextWishes == AgreeInv /\ WishInv /\ [Next]_vars => WishInv'
<1> SUFFICES ASSUME AgreeInv, WishInv, [Next]_vars PROVE WishInv'
  OBVIOUS
<1>1. ASSUME NEW f \in Functions, cmdBreakFunction(f)
      PROVE  WishInv'
  <2>1. /\ breakpoints' = With(breakpoints, nextId, NewFunction(f))
        /\ UNCHANGED <<client, wishes>>
    BY <1>1 DEF cmdBreakFunction, OnlyManager
  <2>2. nextId \notin Ids
    BY Split DEF TableInv
  <2>3. /\ Ids' = Ids \cup {nextId} /\ breakpoints'[nextId] = NewFunction(f)
        /\ \A i \in Ids : breakpoints'[i] = breakpoints[i]
    BY <2>1, <2>2 DEF With
  <2>4. breakpoints'[nextId].enabled = TRUE
    BY <2>3 DEF NewFunction
  <2> QED BY <2>1, <2>3, <2>4, SameWishes
<1>2. CASE Cli
  BY <1>1, <1>2, BreakLineWishes, DeleteWishes, SwitchWishes DEF Cli
<1>3. CASE Live
  BY <1>3, LiveWishes
<1>4. CASE VM
  BY <1>4, CheckWishes DEF VM
<1>5. CASE UNCHANGED vars
  <2>1. UNCHANGED <<client, wishes, breakpoints>>
    BY <1>5 DEF vars
  <2> QED BY <2>1, SameWishes
<1> QED BY <1>2, <1>3, <1>4, <1>5 DEF Next, Rest
-----------------------------------------------------------------------------
(***************************************************************************)
(* What holds of every behaviour.                                          *)
(***************************************************************************)

(* The conjunction the others follow from: besides the types and the       *)
(* index, every line breakpoint has the positions of its line, the         *)
(* server's records name what it has set for each source, and a breakpoint *)
(* is enabled unless the user has disabled it and no "break" revived it.   *)
THEOREM Inductive == Spec => []IndInv
<1>1. Init => IndInv
  <2> SUFFICES ASSUME Init PROVE WishInv
    BY InitAgrees DEF IndInv
  <2>1. Ids = {}
    <3>1. DOMAIN [i \in {} |-> NoRequest] = {}
      OBVIOUS
    <3> QED BY <3>1 DEF Init
  <2> QED BY <2>1 DEF Init, WishInv
<1>2. IndInv /\ [Next]_vars => IndInv'
  BY NextAgrees, NextWishes DEF IndInv
<1> QED BY <1>1, <1>2, PTL DEF Spec

(* The table, the index and the records keep their types, and an id that   *)
(* addLineBreakpoint or cmdBreak gives is never given again.               *)
THEOREM TypeCorrect == Spec => []TypeOK
<1>1. IndInv => TypeOK
  BY DEF IndInv, AgreeInv, WishInv, TypeOK
<1> QED BY <1>1, Inductive, PTL

(* updatePCToBreakpointMapping and its inverse keep the pc index exact,    *)
(* through adding, deleting, replacing and resolving again.                *)
THEOREM IndexCorrect == Spec => []IndexMatches
<1>1. IndInv => IndexMatches
  BY DEF IndInv, AgreeInv
<1> QED BY <1>1, Inductive, PTL

(* handleSetBreakpoints leaves the breakpoints of the source's last        *)
(* request, recorded, for every source none of whose requests has failed.  *)
THEOREM LastRequest == Spec => []LastRequestCounts
<1>1. ASSUME IndInv PROVE LastRequestCounts
  <2>1. ASSUME NEW s \in Sources, Idle PROVE ~Handles(s)
    BY <2>1 DEF Idle, Handles
  <2>2. client = "live" /\ Idle =>
            \A s \in Sources \ failed : LinesOf(s) = asked[s] /\ IdsOf(s) = sourceIds[s]
    BY <1>1, <2>1, Zenon DEF IndInv, AgreeInv, RecordsInv
  <2> QED BY <2>2, Zenon DEF LastRequestCounts
<1> QED BY <1>1, Inductive, PTL

(* The index of positions, the table of breakpoints and the server's       *)
(* records tell one story, whatever is added, replaced or removed.         *)
THEOREM TablesCorrect == Spec => []TablesAgree
<1>1. IndexMatches /\ LastRequestCounts => TablesAgree
  BY DEF TablesAgree
<1> QED BY <1>1, IndexCorrect, LastRequest, PTL

(* A function whose entry no function before it covers is found there.     *)
LEMMA FoundAtEntry ==
    ASSUME NEW pc \in Nat, NEW g \in Functions, Start[g] = pc,
           \A f \in Functions : f < g => ~(Start[f] <= pc /\ pc < End[f])
    PROVE  getFunctionAtPC(pc) = g /\ g # 0
<1> DEFINE around == {f \in Functions : Start[f] <= pc /\ pc < End[f]}
<1>1. /\ g \in Nat /\ g # 0 /\ g \in around
      /\ around \in SUBSET Nat
  <2>1. Functions \subseteq Nat \ {0} /\ Start[g] < End[g] /\ Start[g] <= pc
    BY FunctionsAssumption
  <2> QED BY <2>1
<1>2. \A f \in around : ~(f < g)
  OBVIOUS
<1> HIDE DEF around
<1>3. Least(around) \in around /\ \A f \in around : Least(around) <= f
  BY <1>1, LeastMember
<1>4. Least(around) = g
  <2>1. PICK m \in around : m = Least(around)
    BY <1>3
  <2>2. m \in Nat /\ m <= g /\ ~(m < g)
    BY <1>1, <1>2, <1>3, <2>1
  <2> QED BY <1>1, <2>1, <2>2
<1>5. getFunctionAtPC(pc) = IF around = {} THEN 0 ELSE Least(around)
  BY DEF getFunctionAtPC, around
<1> QED BY <1>1, <1>4, <1>5

(* What an answer is made of, and what it means to the user.               *)
LEMMA AnswerIsWished ==
    ASSUME IndInv, NEW pc \in PCs, NEW executing \in BOOLEAN,
           NEW active \in SUBSET LinesAt(pc), NEW q,
           q = [pc |-> pc, executing |-> executing, active |-> active,
                id |-> StopAt(pc, executing, active)]
    PROVE  MissesNone(q) /\ StopsAtWished(q)
<1> DEFINE id == StopAt(pc, executing, active)
<1>1. /\ AgreeInv /\ WishInv
      /\ \A i \in Ids : breakpoints[i] \in Breakpoint /\ i \in Nat \ {0}
  BY Entries DEF IndInv, AgreeInv
<1>2. q.pc = pc /\ q.executing = executing /\ q.active = active /\ q.id = id
  OBVIOUS
<1>3. /\ id # 0 => id \in Ids
      /\ id # 0 <=> executing /\ (LineStops(pc, active) # {} \/ FunctionStops(pc) # {})
  BY <1>1, StopIsABreakpoint
<1>4. LineStops(pc, active) =
          {i \in Ids : /\ breakpoints[i].enabled /\ IsLine(breakpoints[i])
                       /\ <<breakpoints[i].source, breakpoints[i].line>> \in active}
  BY <1>1, LineStopsExactly
<1>5. \A i \in Ids : breakpoints[i].enabled <=> (i \notin disabled \/ i \in revived)
  BY <1>1 DEF WishInv
<1>6. pc \in Nat
  BY PCsAssumption
<1>7. ASSUME NEW i \in Ids, ~IsLine(breakpoints[i])
      PROVE  breakpoints[i].kind = "function"
  BY <1>1, <1>7 DEF Breakpoint, Kinds, IsLine
<1> HIDE DEF id
<1>8. MissesNone(q)
  <2> SUFFICES ASSUME executing, NEW i \in Ids \ disabled,
                      Covers(breakpoints[i], q), ~Hidden(breakpoints[i])
               PROVE  id # 0
    BY <1>2 DEF MissesNone
  <2>1. breakpoints[i].enabled
    BY <1>5
  <2>2. CASE IsLine(breakpoints[i])
    <3>1. <<breakpoints[i].source, breakpoints[i].line>> \in active
      BY <1>2, <2>2 DEF Covers
    <3>2. i \in LineStops(pc, active)
      BY <1>4, <2>1, <2>2, <3>1
    <3> QED BY <1>3, <3>2
  <2>3. CASE ~IsLine(breakpoints[i])
    <3> DEFINE g == breakpoints[i].name
    <3>1. pc = Start[g] /\ breakpoints[i].kind = "function"
      BY <1>2, <1>7, <2>3 DEF Covers
    <3>2. g \in Functions
      BY <1>1, <2>3 DEF Breakpoint
    <3>3. \A f \in Functions : f < g => ~(Start[f] <= pc /\ pc < End[f])
      BY <2>3, <3>1 DEF Hidden
    <3>4. getFunctionAtPC(pc) = g /\ g # 0
      BY <1>6, <3>1, <3>2, <3>3, FoundAtEntry
    <3>5. i \in FunctionStops(pc)
      BY <2>1, <3>1, <3>4 DEF FunctionStops
    <3> QED BY <1>3, <3>5
  <2> QED BY <2>2, <2>3
<1>9. StopsAtWished(q)
  <2> SUFFICES ASSUME id # 0
               PROVE  /\ executing /\ id \in Ids /\ Covers(breakpoints[id], q)
                      /\ id \in disabled => id \in revived
    BY <1>2 DEF StopsAtWished
  <2>1. executing /\ id \in Ids
    BY <1>3
  <2>2. id \in LineStops(pc, active) \/ id \in FunctionStops(pc)
    <3>1. LineStops(pc, active) \in SUBSET Nat /\ FunctionStops(pc) \in SUBSET Nat
      BY <1>1 DEF LineStops, FunctionStops
    <3> QED BY <2>1, <3>1, LeastMember DEF StopAt, id
  <2>3. Covers(breakpoints[id], q) /\ breakpoints[id].enabled
    <3>1. CASE id \in LineStops(pc, active)
      BY <1>2, <1>4, <3>1 DEF Covers
    <3>2. CASE id \in FunctionStops(pc)
      <4>1. /\ breakpoints[id].kind = "function" /\ breakpoints[id].enabled
            /\ Start[breakpoints[id].name] = pc
        BY <3>2 DEF FunctionStops
      <4> QED BY <1>2, <4>1 DEF Covers, IsLine
    <3> QED BY <2>2, <3>1, <3>2
  <2> QED BY <1>5, <2>1, <2>3
<1> QED BY <1>8, <1>9

(* The VM stops wherever a breakpoint the user wants stands, except at the *)
(* entry of a function that another one's range hides; and where it stops  *)
(* is a breakpoint the user wants, or one revived by a later "break".      *)
THEOREM StopsCorrect == Spec => StopsWhereAsked
<1> DEFINE A == check' # check => MissesNone(check') /\ StopsAtWished(check')
<1>1. ASSUME IndInv, NEW pc \in PCs, NEW executing \in BOOLEAN,
             NEW active \in SUBSET LinesAt(pc), shouldBreakAtPC(pc, executing, active)
      PROVE  A
  <2>1. check' = [pc |-> pc, executing |-> executing, active |-> active,
                  id |-> StopAt(pc, executing, active)]
    BY <1>1 DEF shouldBreakAtPC
  <2> QED BY <1>1, <2>1, AnswerIsWished
<1>2. ASSUME [Next]_vars, ~VM
      PROVE  check' = check
  BY <1>2 DEF Next, Cli, Live, Rest, vars, cmdBreakLine, cmdBreakFunction, cmdDelete,
              cmdDisable, cmdEnable, OnlyManager, Begin, HandleItem, ItemThrows, Finish
<1>3. IndInv /\ [Next]_vars => [A]_vars
  BY <1>1, <1>2 DEF VM
<1> QED BY <1>3, Inductive, PTL DEF Spec, StopsWhereAsked
=============================================================================
