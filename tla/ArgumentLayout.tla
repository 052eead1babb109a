---------------------------- MODULE ArgumentLayout ----------------------------
(***************************************************************************)
(* Where code generation uses the planner, in                              *)
(* src/src/compiler/ast_to_bytecode_visitor.cpp: the arguments of an       *)
(* opcode function are brought to the top of the stack, and a variable is  *)
(* assigned a copy of another. The compiler keeps a scope, a mirror of the *)
(* machine's main stack; from it an argument is removed as soon as it has  *)
(* been brought to the top. "vm" is the machine after the instructions     *)
(* emitted so far.                                                         *)
(*                                                                         *)
(* The table of the argument's window is built first (StackPlanner), then  *)
(* one statement is compiled: the stack it starts from is any stack of     *)
(* distinct slots, so that longer programs show nothing new.               *)
(***************************************************************************)
EXTENDS StackPlanner

CONSTANTS
    ScopeSize,  \* bound: slots on the stack
    MaxArgs     \* bound: arguments of a call

ASSUME ScopeSizeAssumption == ScopeSize \in Nat /\ ScopeSize > MaxMoveWindow
                              /\ ScopeSize > MaxCopyDepth + 1
ASSUME MaxArgsAssumption == MaxArgs \in Nat

VARIABLES
    scope,      \* m_scopePtr: the slots, top first
    vm,         \* the machine's stacks
    args,       \* the arguments of the call, in the order chosen
    passed,     \* how many of them are on top already ("i" in the code)
    stage,      \* how far the statement is
    emitted,    \* bytes emitted
    assigned,   \* auxiliary: the <<source, target>> of a copy assignment
    promised,   \* auxiliary: <<bytes>> the arguments were estimated at, or <<>>
    pairMoved   \* auxiliary: has one of the two pair shortcuts been taken?

layoutVars == <<scope, vm, args, passed, stage, emitted, assigned, promised, pairMoved>>
vars == <<plannerVars, layoutVars>>

(* Things on a stack that are no slots of it.                              *)
Script == ScopeSize        \* an argument that is a constant's encoding
Absent == ScopeSize + 1    \* an argument that is not on the stack
Result == ScopeSize + 2    \* a placeholder for what an opcode leaves
Frozen == ScopeSize + 3    \* an older entry of the alt stack

Init ==
    /\ PlannerInit
    /\ scope = Depths(ScopeSize)
    /\ vm = [main |-> Depths(ScopeSize), alt |-> <<Frozen>>, ok |-> TRUE]
    /\ args = <<>> /\ passed = 0 /\ stage = "idle" /\ emitted = 0
    /\ assigned = <<0, 0>> /\ promised = <<>> /\ pairMoved = FALSE
-----------------------------------------------------------------------------
isScript(a) == a = Script
OnStack(a)  == \E k \in DOMAIN scope : scope[k] = a
getPos(a)   == (CHOOSE k \in DOMAIN scope : scope[k] = a) - 1

Emit(instructions) ==
    /\ vm' = ExecuteAll(vm, instructions)
    /\ emitted' = emitted + ByteSize(instructions)

(* emitRoll: depth 1 and 2 have opcodes of their own.                      *)
rollByteCost(d) == IF d = 0 THEN 0 ELSE IF d <= 2 THEN 1 ELSE NumberBytes(d) + 1

(* analyzeArgumentLayout, which gives up on constants and on aliases.      *)
Analyzed(as) ==
    /\ \A k \in DOMAIN as : ~isScript(as[k]) /\ OnStack(as[k])
    /\ \A j, k \in DOMAIN as : as[j] = as[k] => j = k

InOrder(as) == \A k \in DOMAIN as : OnStack(as[k]) /\ getPos(as[k]) = Len(as) - k

Slots(as) == [k \in DOMAIN as |-> getPos(as[k])]

PositionWhenReached(as, k) ==
    getPos(as[k]) - Cardinality({j \in 1..k - 1 : getPos(as[j]) < getPos(as[k])})

legacyBytes(as) ==
    CASE InOrder(as) -> 0
      [] ~InOrder(as) /\ Slots(as) \in {<<3, 1>>, <<5, 3>>} -> 1
      [] OTHER -> MapThenSumSet(LAMBDA k : rollByteCost(PositionWhenReached(as, k) + k - 1),
                                DOMAIN as)

WindowOf(as) == IF as = <<>> THEN 0 ELSE Max({getPos(as[k]) : k \in DOMAIN as}) + 1

TargetTopFirst(as) ==
    Reverse(Slots(as))
    \o SelectSeq(Depths(WindowOf(as)), LAMBDA d : \A k \in DOMAIN as : getPos(as[k]) # d)

ArgumentPlan(as) == PlanTo(MoveState(TargetTopFirst(as)))

(* A plan is used if it is strictly shorter.                               *)
StrictPlan(as) ==
    /\ Analyzed(as) /\ WindowOf(as) \in 1..MaxMoveWindow
    /\ legacyBytes(as) # 0
    /\ PlanBytes(ArgumentPlan(as)) < legacyBytes(as)

selectedBytes(as) == IF StrictPlan(as) THEN PlanBytes(ArgumentPlan(as)) ELSE legacyBytes(as)

(* A commutative opcode takes the cheaper order.                           *)
ChosenOrder(as, orderSensitive) ==
    IF /\ Len(as) = 2 /\ ~orderSensitive
       /\ Analyzed(as) /\ selectedBytes(Reverse(as)) < selectedBytes(as)
    THEN Reverse(as) ELSE as

(* The table a call needs has been built; without one, any search will do. *)
TableBuilt(as) ==
    /\ search.kind = "move" /\ outcome = "exhausted"
    /\ search.window = IF Analyzed(as) /\ WindowOf(as) \in 1..MaxMoveWindow
                       THEN WindowOf(as) ELSE MaxMoveWindow

CallFunction(as, orderSensitive) ==
    /\ stage = "idle" /\ TableBuilt(as)
    /\ args' = ChosenOrder(as, orderSensitive)
    /\ promised' = IF Analyzed(as) THEN <<selectedBytes(args')>> ELSE <<>>
    /\ stage' = "adjust"
    /\ UNCHANGED <<plannerVars, scope, vm, passed, emitted, assigned, pairMoved>>
-----------------------------------------------------------------------------
(* adjustStackToMatch. First a plan, if it is shorter: the scope follows   *)
(* it step by step, and gives up the arguments at its end.                 *)
ScopeMoved(s, st) ==
    CASE st.op = "Swap"    -> Rolled(s, 1)
      [] st.op = "Rot"     -> Rolled(s, 2)
      [] st.op = "TwoSwap" -> Rolled(Rolled(s, 3), 3)
      [] st.op = "TwoRot"  -> Rolled(Rolled(s, 5), 5)
      [] st.op = "Roll"    -> Rolled(s, st.depth)

FollowPlan ==
    /\ stage = "adjust" /\ StrictPlan(args)
    /\ Emit(Encoded(ArgumentPlan(args)))
    /\ scope' = Below(FoldLeft(ScopeMoved, scope, ArgumentPlan(args)), Len(args))
    /\ passed' = Len(args) /\ stage' = "emit"
    /\ UNCHANGED <<plannerVars, args, assigned, promised, pairMoved>>

(* Then nothing, if the arguments lie where the opcode wants them.         *)
AllInCorrectPosition ==
    /\ stage = "adjust" /\ ~StrictPlan(args) /\ InOrder(args)
    /\ scope' = Below(scope, Len(args))
    /\ passed' = Len(args) /\ stage' = "emit"
    /\ UNCHANGED <<plannerVars, vm, args, emitted, assigned, promised, pairMoved>>

StartLoop ==
    /\ stage = "adjust" /\ ~StrictPlan(args) /\ ~InOrder(args)
    /\ stage' = "loop"
    /\ UNCHANGED <<plannerVars, scope, vm, args, passed, emitted, assigned, promised, pairMoved>>

(* Else one argument after the other, or two at once.                      *)
Looping == stage = "loop" /\ passed < Len(args)
Argument(k) == args[passed + k]
MutVmElementPos(k) == getPos(Argument(k))
vmElementPos(k) == getPos(Argument(k)) + passed + k - 1

EmitScript ==
    /\ Looping /\ isScript(Argument(1))
    /\ Emit(<<Push(Script)>>)
    /\ passed' = passed + 1
    /\ UNCHANGED <<plannerVars, scope, args, stage, assigned, promised, pairMoved>>

NotFound ==
    /\ Looping /\ ~isScript(Argument(1)) /\ ~OnStack(Argument(1))
    /\ stage' = "error"
    /\ UNCHANGED <<plannerVars, scope, vm, args, passed, emitted, assigned, promised, pairMoved>>

PairAt(first, second) ==
    /\ passed + 2 <= Len(args)
    /\ ~isScript(Argument(2)) /\ OnStack(Argument(2))
    /\ vmElementPos(1) = first /\ vmElementPos(2) = second

MovePair(op) ==
    /\ Emit(<<Instruction(op)>>)
    /\ LET popped == Below(Rolled(scope, getPos(Argument(1))), 1)
       IN  scope' = Below(Rolled(popped, getPos(Argument(2))), 1)
    /\ passed' = passed + 2 /\ pairMoved' = TRUE

PairShortcut ==
    /\ Looping /\ ~isScript(Argument(1)) /\ OnStack(Argument(1))
    /\ \/ PairAt(3, 2) /\ MovePair("2SWAP")
       \/ PairAt(5, 4) /\ MovePair("2ROT")
    /\ UNCHANGED <<plannerVars, args, stage, assigned, promised>>

RollToTop(d) ==
    CASE d = 0 -> <<>>
      [] d = 1 -> <<Instruction("SWAP")>>
      [] d = 2 -> <<Instruction("ROT")>>
      [] OTHER -> <<Push(d), Instruction("ROLL")>>

RollArgument ==
    /\ Looping /\ ~isScript(Argument(1)) /\ OnStack(Argument(1))
    /\ ~PairAt(3, 2) /\ ~PairAt(5, 4)
    /\ Emit(RollToTop(vmElementPos(1)))
    /\ scope' = Below(Rolled(scope, getPos(Argument(1))), 1)
    /\ passed' = passed + 1
    /\ UNCHANGED <<plannerVars, args, stage, assigned, promised, pairMoved>>

LoopEnds ==
    /\ stage = "loop" /\ passed = Len(args)
    /\ stage' = "emit"
    /\ UNCHANGED <<plannerVars, scope, vm, args, passed, emitted, assigned, promised, pairMoved>>

(* The opcode takes its arguments and leaves a result; the scope gets a    *)
(* placeholder for it.                                                     *)
EmitOpcode ==
    /\ stage = "emit"
    /\ scope' = <<Result>> \o scope
    /\ vm' = [vm EXCEPT !.main = <<Result>> \o Below(@, Len(args))]
    /\ passed' = 0 /\ stage' = "done"
    /\ UNCHANGED <<plannerVars, args, emitted, assigned, promised, pairMoved>>
-----------------------------------------------------------------------------
(* emitCopyAssignment: the plan if it is shorter, else the sequence of old;*)
(* the compiler stops if that is not of the length it had computed.        *)
PlannedCopy(source, target) ==
    /\ search = Request("copy", search.window, source, target)
    /\ HasCopyPlan(legacyCopyAssignmentByteCost(source, target))

CopySequence(source, target) ==
    IF PlannedCopy(source, target) THEN PlanTo(Goal)
    ELSE buildLegacyCopyAssignmentPlan(source, target)

CopySearched(source, target) ==
    IF source <= MaxCopyDepth /\ target <= MaxCopyDepth
    THEN search.kind = "copy" /\ search.source = source /\ search.target = target
    ELSE search.kind = "move" /\ search.window = MaxMoveWindow

CopyAssignment(source, target) ==
    /\ stage = "idle" /\ outcome # "searching"
    /\ source # target /\ CopySearched(source, target)
    /\ assigned' = <<source, target>>
    /\ IF PlannedCopy(source, target)
          \/ PlanBytes(CopySequence(source, target))
                 = legacyCopyAssignmentByteCost(source, target)
       THEN /\ Emit(Encoded(CopySequence(source, target)))
            /\ stage' = "done"
       ELSE stage' = "error" /\ UNCHANGED <<vm, emitted>>
    /\ UNCHANGED <<plannerVars, scope, args, passed, promised, pairMoved>>
-----------------------------------------------------------------------------
Search == PlannerNext /\ UNCHANGED layoutVars

Arguments == UNION {[1..n -> 0..Absent] : n \in 0..MaxArgs}

Statement ==
    \/ \E as \in Arguments, orderSensitive \in BOOLEAN : CallFunction(as, orderSensitive)
    \/ \E source, target \in 0..ScopeSize - 1 : CopyAssignment(source, target)

Adjust == FollowPlan \/ AllInCorrectPosition \/ StartLoop \/ EmitScript \/ NotFound
          \/ PairShortcut \/ RollArgument \/ LoopEnds \/ EmitOpcode

Next == Search \/ Statement \/ Adjust

Spec == Init /\ [][Next]_vars
-----------------------------------------------------------------------------
(***************************************************************************)
(* Properties. Plans are judged by what the machine makes of them.         *)
(***************************************************************************)
(* Every variable holds the values its declaration names, and a recorded   *)
(* state was reached from a recorded one.                                  *)
TypeOK ==
    /\ search \in Requests /\ outcome \in {"searching", "found", "exhausted"}
    /\ \A t \in DOMAIN records :
          records[t].from \in DOMAIN records /\ records[t].cost \in [1..3 -> Nat]
    /\ \A q \in queue : q.state \in DOMAIN records
    /\ stage \in {"idle", "adjust", "loop", "emit", "done", "error"}
    /\ vm.ok \in BOOLEAN /\ emitted \in Nat /\ passed \in 0..MaxArgs
    /\ args \in UNION {[1..n -> 0..Absent] : n \in 0..MaxArgs}
    /\ {scope[k] : k \in DOMAIN scope} \subseteq 0..Result

Searched(kind) == search.kind = kind /\ stage = "idle" /\ outcome # "searching"
Machine(s) == [main |-> s.main \o <<Frozen>>, alt |-> s.alt \o <<Frozen>>, ok |-> TRUE]

(* planMoveOnly has a plan for every permutation of the window; emitted,   *)
(* it makes the permutation of the machine's stack, leaves what lies       *)
(* deeper and the alt stack alone, and has the size in bytes and           *)
(* instructions that was recorded.                                         *)
PlansReachTheirTargets ==
    Searched("move") =>
        \A target \in [1..search.window -> 0..search.window - 1] :
            LET t == MoveState(<<>> \o target)
                plan == Encoded(PlanTo(t))
            IN  IsInjective(target) =>
                    /\ t \in DOMAIN records
                    /\ ExecuteAll(Machine(Start), plan) = Machine(t)
                    /\ records[t].cost[1] = ByteSize(plan)
                    /\ records[t].cost[2] = Len(plan)

(* One step of any plan, as the machine takes it: its instructions and the *)
(* depth it reaches to, with no regard to which steps the search tries.    *)
Moves == {<<<<Instruction("SWAP")>>, 1>>, <<<<Instruction("ROT")>>, 2>>,
          <<<<Instruction("2SWAP")>>, 3>>, <<<<Instruction("2ROT")>>, 5>>}
Substitutions == {<<<<Instruction("DUP")>>, 0>>, <<<<Instruction("OVER")>>, 1>>,
                  <<<<Instruction("TUCK")>>, 1>>, <<<<Instruction("DROP")>>, 0>>,
                  <<<<Instruction("NIP")>>, 1>>, <<<<Instruction("TOALTSTACK")>>, 0>>,
                  <<<<Instruction("FROMALTSTACK")>>, 0>>}
AtDepth(op) == {<<<<Push(d), Instruction(op)>>, d>> : d \in 2..search.window}

MachineSteps == Moves \cup AtDepth("ROLL")
                \cup IF search.kind = "copy" THEN Substitutions \cup AtDepth("PICK") ELSE {}

Weight(cost) == 10000 * cost[1] + 100 * cost[2] + cost[3]
Extended(cost, step) ==
    <<cost[1] + ByteSize(step[1]), cost[2] + Len(step[1]), Max({cost[3], step[2]})>>

(* States of the machine that one copy and one deletion may still lead to  *)
(* the goal from.                                                          *)
CountIn(m, d) == Cardinality({k \in DOMAIN m.main : m.main[k] = d})
                 + Cardinality({k \in DOMAIN m.alt : m.alt[k] = d})
Supported(m) ==
    /\ m.ok
    /\ \A d \in 0..search.window - 1 :
          CountIn(m, d) \in
              CASE search.kind = "copy" /\ d = search.source -> {1, 2}
                [] search.kind = "copy" /\ d = search.target -> {0, 1}
                [] OTHER -> {1}

StateOf(m) == [main |-> m.main, alt |-> m.alt,
               copied |-> search.kind = "copy" /\ CountIn(m, search.source) = 2,
               deleted |-> search.kind = "copy" /\ CountIn(m, search.target) = 0]

CostWithin(cost) == outcome = "found" => Weight(cost) < Weight(records[Goal].cost)

(* Plans are the cheapest by bytes, then instructions, then depth: from no *)
(* state cheaper than the goal does a step of the machine lead to another  *)
(* more cheaply than the search has recorded; so that no sequence of steps *)
(* undercuts what it found.                                                *)
PlansAreCheapest ==
    stage = "idle" /\ outcome # "searching" =>
        \A t \in DOMAIN records : CostWithin(records[t].cost) =>
            \A step \in MachineSteps :
                LET m == ExecuteAll([main |-> t.main, alt |-> t.alt, ok |-> TRUE], step[1])
                    cost == Extended(records[t].cost, step)
                IN  (Supported(m) /\ WithinLimit(cost) /\ (t.copied => StateOf(m).copied))
                    => /\ StateOf(m) \in DOMAIN records
                       /\ Weight(records[StateOf(m)].cost) <= Weight(cost)

(* A plan does what was asked for, at the recorded cost, and none is       *)
(* cheaper.                                                                *)
PlansAreBest == TypeOK /\ PlansReachTheirTargets /\ PlansAreCheapest

(* emitCopyAssignment replaces the target by the source and nothing else,  *)
(* on either stack, at any depths; it never emits more than the old        *)
(* sequence, and never finds that sequence longer than it had computed.    *)
CopyAssignmentIsExact ==
    assigned # <<0, 0>> =>
        /\ stage = "done"
        /\ vm = [main |-> [scope EXCEPT ![assigned[2] + 1] = assigned[1]],
                 alt |-> <<Frozen>>, ok |-> TRUE]
        /\ emitted <= legacyCopyAssignmentByteCost(assigned[1], assigned[2])

(* The estimate by which the order of a commutative opcode's arguments and *)
(* the use of a plan are decided is what is emitted; only the pair         *)
(* shortcuts, which the estimate knows for two arguments alone, emit less. *)
CallsCostWhatWasPromised ==
    promised # <<>> =>
        /\ stage # "error"
        /\ emitted <= promised[1]
        /\ stage = "done" /\ ~pairMoved => emitted = promised[1]

(* Argument i should be at position n - 1 - i: the arguments passed so far *)
(* and then the scope are, at every instruction, what the machine has.     *)
MirrorAgrees ==
    stage # "error" /\ assigned = <<0, 0>> =>
        vm = [main |-> Reverse(SubSeq(args, 1, passed)) \o scope,
              alt |-> <<Frozen>>, ok |-> TRUE]

(* The mirror is right wherever neither pair shortcut was taken.           *)
MirrorAgreesButForPairs == ~pairMoved => MirrorAgrees

(* What is emitted for a call or a copy moves the machine's slots as the   *)
(* scope says, in as many bytes as were promised.                          *)
EmittedMovesAreExact ==
    CopyAssignmentIsExact /\ MirrorAgreesButForPairs /\ CallsCostWhatWasPromised
=============================================================================
