----------------------------- MODULE StackPlanner -----------------------------
(***************************************************************************)
(* The compiler's search for the shortest sequence of stack opcodes,       *)
(* src/src/bytecode/stack_permutation_planner.cpp. Two requests are served *)
(* by the same kind of search, from the stack as it is (slot d at depth d): *)
(*                                                                         *)
(*   move   the cheapest moves to every permutation of a window            *)
(*   copy   the cheapest way to replace the slot at targetDepth by a copy  *)
(*          of the one at sourceDepth, no longer than the sequence the     *)
(*          compiler emitted before there was a planner                    *)
(*                                                                         *)
(* A step of this module is one iteration of the search's loop. Which of   *)
(* two items of equal cost the queue yields first is left to CHOOSE.       *)
(***************************************************************************)
EXTENDS StackOpcodes, FiniteSetsExt

CONSTANTS
    MaxMoveWindow,  \* bound: windows considered (MAX_MOVE_WINDOW is 8)
    MaxCopyDepth    \* bound: depths considered (MAX_COPY_DEPTH is 6)

ASSUME MaxMoveWindowAssumption == MaxMoveWindow \in 1..8
ASSUME MaxCopyDepthAssumption == MaxCopyDepth \in 0..6

VARIABLES
    search,   \* the request being served
    records,  \* the states found: cost, predecessor, step from it
    queue,    \* the priority queue: costs and states
    outcome   \* "searching", "found" (a copy's goal) or "exhausted"

plannerVars == <<search, records, queue, outcome>>
-----------------------------------------------------------------------------
(* Steps, the instructions they are emitted as, and what they cost.        *)
Step(op, depth) == [op |-> op, depth |-> depth]

Opcodes == [Swap |-> "SWAP", Rot |-> "ROT", TwoSwap |-> "2SWAP", TwoRot |-> "2ROT",
            Dup |-> "DUP", Over |-> "OVER", Drop |-> "DROP", Nip |-> "NIP",
            Tuck |-> "TUCK", ToAltStack |-> "TOALTSTACK",
            FromAltStack |-> "FROMALTSTACK"]

encodedInstructions(st) ==
    CASE st.op = "Roll" ->
             (CASE st.depth = 0 -> <<>>
                [] st.depth = 1 -> <<Instruction("SWAP")>>
                [] st.depth = 2 -> <<Instruction("ROT")>>
                [] OTHER -> <<Push(st.depth), Instruction("ROLL")>>)
      [] st.op = "Pick" ->
             (CASE st.depth = 0 -> <<Instruction("DUP")>>
                [] st.depth = 1 -> <<Instruction("OVER")>>
                [] OTHER -> <<Push(st.depth), Instruction("PICK")>>)
      [] OTHER -> <<Instruction(Opcodes[st.op])>>

(* Numbers up to 16 have an opcode of their own.                           *)
NumberBytes(n) == IF n <= 16 THEN 1 ELSE 2
InstructionBytes(i) == IF i.op = "PUSH" THEN NumberBytes(i.n) ELSE 1
ByteSize(instructions) ==
    MapThenSumSet(LAMBDA k : InstructionBytes(instructions[k]), DOMAIN instructions)

serializedByteSize(st) == ByteSize(encodedInstructions(st))

emittedInstructionCount(st) ==
    CASE st.op = "Roll" -> (IF st.depth = 0 THEN 0 ELSE IF st.depth <= 2 THEN 1 ELSE 2)
      [] st.op = "Pick" -> (IF st.depth <= 1 THEN 1 ELSE 2)
      [] OTHER -> 1

touchedDepth(st) ==
    CASE st.op \in {"Swap", "Over", "Nip", "Tuck"} -> 1
      [] st.op = "Rot" -> 2
      [] st.op = "TwoSwap" -> 3
      [] st.op = "TwoRot" -> 5
      [] st.op \in {"Roll", "Pick"} -> st.depth
      [] OTHER -> 0

ZeroCost == <<0, 0, 0>>    \* bytes, instructions, maximum depth

extendCost(cost, st) ==
    <<cost[1] + serializedByteSize(st), cost[2] + emittedInstructionCount(st),
      IF touchedDepth(st) > cost[3] THEN touchedDepth(st) ELSE cost[3]>>

Less(c, d) ==
    \/ c[1] < d[1]
    \/ c[1] = d[1] /\ c[2] < d[2]
    \/ c[1] = d[1] /\ c[2] = d[2] /\ c[3] < d[3]

Encoded(steps) == FlattenSeq([k \in DOMAIN steps |-> encodedInstructions(steps[k])])
PlanBytes(steps) == ByteSize(Encoded(steps))
-----------------------------------------------------------------------------
(* What the planner takes a step to do.                                    *)
Erased(s, d)      == SubSeq(s, 1, d) \o SubSeq(s, d + 2, Len(s))
Inserted(s, d, e) == SubSeq(s, 1, d) \o <<e>> \o SubSeq(s, d + 1, Len(s))

(* std::rotate of the first n elements, with element k first afterwards.   *)
Rotated(s, n, k) == SubSeq(s, k + 1, n) \o SubSeq(s, 1, k) \o SubSeq(s, n + 1, Len(s))

applyMoveOnly(s, st) ==
    CASE st.op = "Swap"    -> Rotated(s, 2, 1)
      [] st.op = "Rot"     -> Rotated(s, 3, 2)
      [] st.op = "TwoSwap" -> Rotated(s, 4, 2)
      [] st.op = "TwoRot"  -> Rotated(s, 6, 4)
      [] st.op = "Roll"    -> Rotated(s, st.depth + 1, st.depth)

moveOnlyOperations(size) ==
    {st \in {Step("Swap", 1), Step("Rot", 2), Step("TwoSwap", 3), Step("TwoRot", 5)}
            \cup {Step("Roll", d) : d \in 3..size - 1} : st.depth < size}

(* A state of the search, with the element each step copies or deletes.    *)
Copies == {"Dup", "Tuck", "Over", "Pick"}
Deletions == {"Drop", "Nip"}
CopiedDepth(st) == IF st.op \in {"Dup", "Tuck"} THEN 0 ELSE st.depth

Applied(s, st) ==
    CASE st.op \in Copies ->
             [s EXCEPT !.copied = TRUE,
                       !.main = Inserted(@, IF st.op = "Tuck" THEN 2 ELSE 0,
                                         @[CopiedDepth(st) + 1])]
      [] st.op \in Deletions ->
             [s EXCEPT !.deleted = TRUE, !.main = Erased(@, st.depth)]
      [] st.op = "ToAltStack" ->
             [s EXCEPT !.main = Tail(@), !.alt = <<s.main[1]>> \o @]
      [] st.op = "FromAltStack" ->
             [s EXCEPT !.main = <<s.alt[1]>> \o @, !.alt = Tail(@)]
      [] OTHER -> [s EXCEPT !.main = applyMoveOnly(@, st)]

(* copyNeighbours: only the source is copied and only the target deleted.  *)
CopySteps(s) ==
    {st \in {Step("Dup", 0), Step("Tuck", 1), Step("Over", 1)}
            \cup {Step("Pick", d) : d \in 2..Len(s.main) - 1} :
        /\ ~s.copied /\ st.depth < Len(s.main)
        /\ s.main[CopiedDepth(st) + 1] = search.source}

DeleteSteps(s) ==
    {st \in {Step("Drop", 0), Step("Nip", 1)} :
        /\ ~s.deleted /\ st.depth < Len(s.main)
        /\ s.main[st.depth + 1] = search.target}

AltSteps(s) ==
    {st \in {Step("ToAltStack", 0)} : s.main # <<>>}
    \cup {st \in {Step("FromAltStack", 0)} : s.alt # <<>>}

copyNeighbours(s) == CopySteps(s) \cup DeleteSteps(s)
                     \cup moveOnlyOperations(Len(s.main)) \cup AltSteps(s)

StepsFrom(s) == IF search.kind = "move" THEN moveOnlyOperations(search.window)
                                        ELSE copyNeighbours(s)
-----------------------------------------------------------------------------
(* The sequence emitted before there was a planner, and its cost.          *)
pickByteCost(d) == IF d <= 1 THEN 1 ELSE NumberBytes(d) + 1

legacyCopyAssignmentByteCost(source, target) ==
    CASE target < source -> 2 * target + 1 + pickByteCost(source - target - 1)
      [] source = 0 /\ target = 1 -> 2
      [] OTHER -> pickByteCost(source) + 3 * target + 3

Repeat(n, steps) == FlattenSeq([k \in 1..n |-> steps])

buildLegacyCopyAssignmentPlan(source, target) ==
    CASE target < source ->
             Repeat(target, <<Step("ToAltStack", 0)>>)
             \o <<Step("Drop", 0), Step("Pick", source - target - 1)>>
             \o Repeat(target, <<Step("FromAltStack", 0)>>)
      [] source = 0 /\ target = 1 -> <<Step("Nip", 0), Step("Dup", 0)>>
      [] OTHER ->
             <<Step("Pick", source)>>
             \o Repeat(target, <<Step("Swap", 1), Step("ToAltStack", 0)>>)
             \o <<Step("ToAltStack", 0), Step("Drop", 0)>>
             \o Repeat(target + 1, <<Step("FromAltStack", 0)>>)
-----------------------------------------------------------------------------
(* The search.                                                             *)
Depths(n) == <<>> \o [k \in 1..n |-> k - 1]

Request(kind, window, source, target) ==
    [kind |-> kind, window |-> window, source |-> source, target |-> target]

Requests ==
    {Request("move", w, 0, 0) : w \in 1..MaxMoveWindow}
    \cup {Request("copy", (IF s > t THEN s ELSE t) + 1, s, t) :
             <<s, t>> \in {d \in (0..MaxCopyDepth) \X (0..MaxCopyDepth) : d[1] # d[2]}}

Start == [main |-> Depths(search.window), alt |-> <<>>, copied |-> FALSE,
          deleted |-> FALSE]

Goal == [main |-> Inserted(Erased(Depths(search.window), search.target),
                           search.target, search.source),
         alt |-> <<>>, copied |-> TRUE, deleted |-> TRUE]

Item(cost, s) == [cost |-> cost, state |-> s]

PlannerInit ==
    /\ search \in Requests
    /\ records = [s \in {Start} |-> [cost |-> ZeroCost, from |-> Start,
                                     incoming |-> Step("Roll", 0)]]
    /\ queue = {Item(ZeroCost, Start)}
    /\ outcome = "searching"

WithinLimit(cost) ==
    search.kind = "copy" =>
        cost[1] < legacyCopyAssignmentByteCost(search.source, search.target) + 1

Cheapest == CHOOSE q \in queue : \A r \in queue : ~Less(r.cost, q.cost)

(* The neighbours a state leads to more cheaply than they were reached. The *)
(* code tries one step after the other and queues a neighbour again when a  *)
(* later one is cheaper; the earlier item is stale at once.                 *)
BestStep(q, t) ==
    CHOOSE st \in StepsFrom(q.state) :
        /\ Applied(q.state, st) = t
        /\ \A st2 \in StepsFrom(q.state) :
              Applied(q.state, st2) = t =>
                  ~Less(extendCost(q.cost, st2), extendCost(q.cost, st))

MutImproves(cost, t) == t \notin DOMAIN records
Improves(cost, t) == t \in DOMAIN records => Less(cost, records[t].cost)

(* What a state's neighbours are recorded as, of those to be recorded.     *)
Neighbours(q) ==
    LET steps == [t \in {Applied(q.state, st) : st \in StepsFrom(q.state)} |->
                     BestStep(q, t)]
        cost(t) == extendCost(q.cost, steps[t])
    IN  [t \in {t \in DOMAIN steps : WithinLimit(cost(t)) /\ Improves(cost(t), t)} |->
            [cost |-> cost(t), from |-> q.state, incoming |-> steps[t]]]

Searching == outcome = "searching" /\ queue # {}
(* A cheaper way to the state was found after the item was queued.         *)
Stale(q) == records[q.state].cost # q.cost

SkipStale ==
    /\ Searching
    /\ \E q \in {Cheapest} : Stale(q) /\ queue' = queue \ {q}
    /\ UNCHANGED <<search, records, outcome>>

AtGoal(q) == search.kind = "copy" /\ q.state = Goal

ReachGoal ==
    /\ Searching
    /\ \E q \in {Cheapest} : ~Stale(q) /\ AtGoal(q) /\ queue' = queue \ {q}
    /\ outcome' = "found"
    /\ UNCHANGED <<search, records>>

Relax ==
    /\ Searching
    /\ \E q \in {Cheapest} :
          /\ ~Stale(q) /\ ~AtGoal(q)
          /\ \E found \in {Neighbours(q)} :
                /\ records' = found @@ records
                /\ queue' = (queue \ {q})
                             \cup {Item(found[t].cost, t) : t \in DOMAIN found}
    /\ UNCHANGED <<search, outcome>>

Exhaust ==
    /\ outcome = "searching" /\ queue = {}
    /\ outcome' = "exhausted"
    /\ UNCHANGED <<search, records, queue>>

PlannerNext == SkipStale \/ ReachGoal \/ Relax \/ Exhaust

(* The steps recorded on the way to a state.                               *)
PlanTo(t) ==
    LET chain[s \in DOMAIN records] ==
            IF s = Start THEN <<>>
            ELSE Append(chain[records[s].from], records[s].incoming)
    IN  chain[t]

MoveState(main) == [Start EXCEPT !.main = main]

(* planCopyAssignment: a plan, if there is one under the caller's limit.   *)
HasCopyPlan(limit) == outcome = "found" /\ PlanBytes(PlanTo(Goal)) < limit
=============================================================================
