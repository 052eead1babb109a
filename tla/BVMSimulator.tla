----------------------------- MODULE BVMSimulator -----------------------------
(***************************************************************************)
(* The debugger's virtual machine, src/src/debugger/vm/bvm_simulator.cpp:  *)
(* its run and step loops, its call frames and its breakpoint checks.      *)
(*                                                                         *)
(* A compiled function is a straight line of instructions into which the   *)
(* compiler has expanded every private function it calls, so that a "call" *)
(* is a range of positions. The debug information keeps one range per      *)
(* function name, in a std::map ordered by name; the machine pushes a call *)
(* frame when it reaches the start of a range and pops it at its end.      *)
(*                                                                         *)
(* Values are abstracted away: an instruction either does its work or      *)
(* throws, and a condition is either true or false.                        *)
(***************************************************************************)
EXTENDS Naturals, Sequences, FiniteSets

CONSTANTS
    Programs,           \* the compiled functions considered
    MaxBreakpoints(_)   \* bound: breakpoints set in a program at one time

(* A program: its code, the source position of every instruction, and the  *)
(* ranges of the functions in it, in the order the compiler entered them.  *)
(* expansions[1] is the selected function itself. A name is its rank in    *)
(* the order of std::map<std::string, ...>.                                *)
Ops == {"plain", "if", "else", "endif", "return"}

Size(p) == Len(p.code)

IsProgram(p) ==
    /\ p.code \in Seq(Ops) /\ Size(p) > 0
    /\ p.position \in [0..Size(p) - 1 -> Nat \X Nat]      \* <<line, column>>
    /\ p.expansions \in Seq([name : Nat, start : Nat, end : Nat])
    /\ p.expansions # <<>>
    /\ \A i \in 1..Len(p.expansions) :
           LET e == p.expansions[i] IN e.start < e.end /\ e.end <= Size(p)
    /\ p.expansions[1].start = 0 /\ p.expansions[1].end = Size(p)

ASSUME ProgramsAssumption == \A p \in Programs : IsProgram(p)
ASSUME MaxBreakpointsAssumption == \A p \in Programs : MaxBreakpoints(p) \in Nat

VARIABLES
    prog,               \* the function being debugged
    breakpoints,        \* enabled breakpoints of m_breakpointMgr
    state,              \* m_state
    pc,                 \* m_pc
    callStack,          \* m_callStack: name, entryPC, returnPC
    conditionStack,     \* m_conditionStack
    skipBreakpointOnce, \* m_skipBreakpointOnce
    skipBreakpointLine, \* m_skipBreakpointLine
    stepStartLocation,  \* m_stepStartLocation
    stepStartCallDepth, \* m_stepStartCallDepth
    pauseRequested,     \* m_pauseRequested
    terminateRequested, \* m_terminateRequested
    lastEvent,          \* the last event given to m_eventCallback
    command,            \* the loop being executed; "none": back at the caller
    lastCommand,        \* auxiliary: the command before that
    startPC             \* auxiliary: where it started

machine  == <<state, pc, callStack, conditionStack, lastEvent>>
skip     == <<skipBreakpointOnce, skipBreakpointLine>>
step     == <<stepStartLocation, stepStartCallDepth>>
requests == <<pauseRequested, terminateRequested>>
aux      == <<lastCommand, startPC>>
vars     == <<prog, breakpoints, machine, skip, step, requests, command, aux>>

Commands == {"run", "stepIn", "stepOver", "stepOut"}
States   == {"READY", "RUNNING", "PAUSED", "STEP_MODE", "FINISHED", "ERROR"}
Events   == {"NONE", "STARTED", "RESUMED", "INSTRUCTION_EXECUTED", "STEPPED",
             "BREAKPOINT_HIT", "PAUSED", "FINISHED", "ERROR"}
-----------------------------------------------------------------------------
(***************************************************************************)
(* Debug information.                                                      *)
(***************************************************************************)
Names(p) == {p.expansions[i].name : i \in 1..Len(p.expansions)}

(* addFunction(functions[name] = info): the last expansion of a function   *)
(* replaces the ranges of the earlier ones.                                *)
RangeOf(p, n) ==
    p.expansions[CHOOSE i \in 1..Len(p.expansions) :
                     /\ p.expansions[i].name = n
                     /\ \A j \in 1..Len(p.expansions) :
                            p.expansions[j].name = n => j <= i]

NoFunction == [name |-> 0, start |-> 0, end |-> 0]

(* Active expansions of a position: the calls the source text prescribes.  *)
ActiveIn(p, q) ==
    {i \in 1..Len(p.expansions) :
        p.expansions[i].start <= q /\ q < p.expansions[i].end}

(* What the debug information can represent: ranges that nest or follow    *)
(* one another with distinct boundaries, one expansion per name, a name    *)
(* that sorts before those of the functions around it, no return in a      *)
(* private function, and source positions that tell the functions apart.   *)
Disjoint(e, f) == e.end <= f.start
Nested(e, f)   == e.start <= f.start /\ f.end <= e.end

RangesNest(p) ==
    \A i, j \in 1..Len(p.expansions) : i < j =>
        LET e == p.expansions[i]
            f == p.expansions[j]
        IN  /\ Disjoint(e, f) \/ Nested(e, f)
            /\ e.start # f.start /\ e.end # f.start
            /\ i > 1 => e.end # f.end

NamesTellApart(p) ==
    \A i, j \in 1..Len(p.expansions) : i < j =>
        /\ p.expansions[i].name # p.expansions[j].name
        /\ Nested(p.expansions[i], p.expansions[j]) =>
               p.expansions[j].name < p.expansions[i].name

NoNestedReturn(p) ==
    \A i \in 2..Len(p.expansions), q \in 0..Size(p) - 1 :
        i \in ActiveIn(p, q) => p.code[q + 1] # "return"

PositionsTellApart(p) ==
    \A q, r \in 0..Size(p) - 1 :
        p.position[q] = p.position[r] => ActiveIn(p, q) = ActiveIn(p, r)

Representable(p) ==
    RangesNest(p) /\ NamesTellApart(p) /\ NoNestedReturn(p) /\ PositionsTellApart(p)

(* The first function, by name, whose range contains the position.         *)
MutFunctionAt(p, q) ==
    LET covering == {n \in Names(p) : q \in RangeOf(p, n).start .. RangeOf(p, n).end}
    IN  IF covering = {} THEN NoFunction
        ELSE RangeOf(p, CHOOSE n \in covering : \A m \in covering : n <= m)
getFunctionAtPC(p, q) ==
    LET covering == {n \in Names(p) :
                        RangeOf(p, n).start <= q /\ q < RangeOf(p, n).end}
    IN  IF covering = {} THEN NoFunction
        ELSE RangeOf(p, CHOOSE n \in covering : \A m \in covering : n <= m)

(* The source position of an instruction with one origin, or without a     *)
(* branch trace. Where identical tails of branches have been merged, an    *)
(* instruction has an origin for each, and getCurrentLocation chooses by   *)
(* the branches this run has taken: no program of this module has one.     *)
NoPosition == <<0, 0>>
PositionAt(p, q) == IF q < Size(p) THEN p.position[q] ELSE NoPosition
LineAt(p, q) == PositionAt(p, q)[1]

isCurrentlyExecuting(conds) == \A i \in 1..Len(conds) : conds[i]

Outer(s) == SubSeq(s, 1, Len(s) - 1)
Top(s) == s[Len(s)]
-----------------------------------------------------------------------------
(***************************************************************************)
(* executeInstruction: the machines one instruction may lead to. A machine *)
(* is a record of the variables in "machine".                              *)
(***************************************************************************)
Machine == [state |-> state, pc |-> pc, callStack |-> callStack,
            conditionStack |-> conditionStack, lastEvent |-> lastEvent]

Becomes(m) ==
    /\ state' = m.state /\ pc' = m.pc /\ callStack' = m.callStack
    /\ conditionStack' = m.conditionStack /\ lastEvent' = m.lastEvent

(* setError, from the exception an opcode threw: m_pc stays.               *)
Throws(m) == [m EXCEPT !.state = "ERROR", !.lastEvent = "ERROR"]

Frame(name, entry, return) ==
    [name |-> name, entryPC |-> entry, returnPC |-> return]

popCallFrame(m) ==
    [m EXCEPT !.callStack = Outer(@), !.pc = Top(m.callStack).returnPC]

(* op_return: at top level the script is finished; in a frame, m_pc is left *)
(* on the position before its return position.                             *)
op_return(m) ==
    IF Len(m.callStack) <= 1
    THEN [m EXCEPT !.state = "FINISHED", !.lastEvent = "FINISHED"]
    ELSE LET popped == popCallFrame(m)
         IN  [popped EXCEPT !.pc = IF @ > 0 THEN @ - 1 ELSE @]

MutIf(m) ==
    {[m EXCEPT !.conditionStack = Append(@, cond)] : cond \in BOOLEAN}
op_if(m) ==
    {[m EXCEPT !.conditionStack =
          Append(@, isCurrentlyExecuting(m.conditionStack) /\ cond)] :
        cond \in BOOLEAN}

op_else(m) ==
    IF m.conditionStack = <<>> THEN {Throws(m)}
    ELSE {[m EXCEPT !.conditionStack =
               Append(Outer(@), isCurrentlyExecuting(Outer(@)) /\ ~Top(@))]}

op_endif(m) ==
    IF m.conditionStack = <<>> THEN {Throws(m)}
    ELSE {[m EXCEPT !.conditionStack = Outer(@)]}

(* Only control flow is looked at in a branch that is not taken.           *)
executeOpcode(m) ==
    LET op == prog.code[m.pc + 1]
        executing == isCurrentlyExecuting(m.conditionStack)
    IN  CASE op = "if" -> op_if(m) \cup (IF executing THEN {Throws(m)} ELSE {})
          [] op = "else"  -> op_else(m)
          [] op = "endif" -> op_endif(m)
          [] op = "return" -> IF executing THEN {op_return(m)} ELSE {m}
          [] op = "plain"  -> IF executing THEN {m, Throws(m)} ELSE {m}

(* The start of a function's range has been reached.                       *)
EnterFunction(m) ==
    LET f == getFunctionAtPC(prog, m.pc)
        entered == /\ m.pc < Size(prog)
                   /\ f # NoFunction /\ f.start = m.pc
                   /\ \A i \in 1..Len(m.callStack) :
                          m.callStack[i].name # f.name
                          \/ m.callStack[i].entryPC # m.pc
    IN  IF entered
        THEN [m EXCEPT !.callStack = Append(@, Frame(f.name, m.pc, f.end))]
        ELSE m

(* The instruction at q was the last one of the topmost frame's function.  *)
LeaveFunction(m, q) ==
    LET f == getFunctionAtPC(prog, q)
    IN  IF /\ m.callStack # <<>> /\ f # NoFunction /\ m.pc >= f.end
           /\ Top(m.callStack).name = f.name
           /\ Top(m.callStack).entryPC = f.start
        THEN popCallFrame(m)
        ELSE m

MutAdvance(m) ==
    LET next == EnterFunction([m EXCEPT !.pc = @ + 1])
    IN  IF ~isCurrentlyExecuting(m.conditionStack) /\ prog.code[m.pc + 1] = "plain"
        THEN m
        ELSE [LeaveFunction(next, m.pc) EXCEPT !.lastEvent = "INSTRUCTION_EXECUTED"]
Advance(m) ==
    LET next == EnterFunction([m EXCEPT !.pc = @ + 1])
    IN  [LeaveFunction(next, m.pc) EXCEPT !.lastEvent = "INSTRUCTION_EXECUTED"]

executeInstruction(m) ==
    {IF n.state = "ERROR" THEN n ELSE Advance(n) : n \in executeOpcode(m)}
-----------------------------------------------------------------------------
(***************************************************************************)
(* Breakpoints. shouldBreakAtPC asks the breakpoint manager, which answers *)
(* no in a branch that is not taken.                                       *)
(***************************************************************************)
Breakpoints(p) ==
    {[kind |-> "line", at |-> LineAt(p, q)] : q \in 0..Size(p) - 1}
    \cup {[kind |-> "function", at |-> n] : n \in Names(p)}

shouldBreakAtPC(m) ==
    /\ isCurrentlyExecuting(m.conditionStack)
    /\ \/ [kind |-> "line", at |-> LineAt(prog, m.pc)] \in breakpoints
       \/ LET f == getFunctionAtPC(prog, m.pc)
          IN  /\ f # NoFunction /\ f.start = m.pc
              /\ [kind |-> "function", at |-> f.name] \in breakpoints
-----------------------------------------------------------------------------
(* reset(): the selected function's frame, on an empty machine.            *)
Fresh(p) == [state |-> "READY", pc |-> 0,
             callStack |-> <<Frame(p.expansions[1].name, 0, Size(p))>>,
             conditionStack |-> <<>>, lastEvent |-> "NONE"]

Init ==
    /\ prog \in Programs
    /\ breakpoints = {}
    /\ state = "READY" /\ pc = 0
    /\ callStack = Fresh(prog).callStack
    /\ conditionStack = <<>> /\ lastEvent = "NONE"
    /\ skipBreakpointOnce = FALSE /\ skipBreakpointLine = 0
    /\ stepStartLocation = NoPosition /\ stepStartCallDepth = 0
    /\ pauseRequested = FALSE /\ terminateRequested = FALSE
    /\ command = "none" /\ lastCommand = "none"
    /\ startPC = 0

Idle == command = "none"

(* setBreakpoints, break, delete, enable and disable of the debuggers.     *)
SetBreakpoints ==
    /\ Idle
    /\ \E bs \in SUBSET Breakpoints(prog) :
           Cardinality(bs) <= MaxBreakpoints(prog) /\ breakpoints' = bs
    /\ UNCHANGED <<prog, machine, skip, step, requests, command, aux>>

ResetSkipAndRequests ==
    /\ skipBreakpointOnce' = FALSE /\ skipBreakpointLine' = 0
    /\ pauseRequested' = FALSE /\ terminateRequested' = FALSE

Reset ==
    /\ Idle
    /\ Becomes([Fresh(prog) EXCEPT !.lastEvent = lastEvent])
    /\ ResetSkipAndRequests
    /\ lastCommand' = "none"
    /\ UNCHANGED <<prog, breakpoints, step, command, startPC>>

Begins(c, q) == command' = c /\ lastCommand' = c /\ startPC' = q

(* "continue" and "run": the clients clear stale requests, start() a       *)
(* machine that is not paused, and run() it.                               *)
Run ==
    /\ Idle
    /\ IF state = "PAUSED"
       THEN /\ Becomes([Machine EXCEPT !.state = "RUNNING", !.lastEvent = "RESUMED"])
            /\ pauseRequested' = FALSE /\ terminateRequested' = FALSE
            /\ UNCHANGED skip
            /\ Begins("run", pc)
       ELSE /\ Becomes([Fresh(prog) EXCEPT !.state = "RUNNING", !.lastEvent = "RESUMED"])
            /\ ResetSkipAndRequests
            /\ Begins("run", 0)
    /\ UNCHANGED <<prog, breakpoints, step>>

(* stepIn, stepOver and stepOut up to their loops. The clients offer them  *)
(* for a READY or PAUSED machine only.                                     *)
BeginStep(c) ==
    /\ Idle /\ state \in {"READY", "PAUSED"}
    /\ stepStartCallDepth' = Len(callStack)
    /\ stepStartLocation' = IF c = "stepOut" THEN stepStartLocation
                            ELSE PositionAt(prog, pc)
    /\ IF state = "PAUSED"
       THEN /\ Becomes([Machine EXCEPT !.state = "STEP_MODE"])
            /\ pauseRequested' = FALSE /\ terminateRequested' = FALSE
            /\ UNCHANGED skip
            /\ Begins(c, pc)
       ELSE /\ Becomes([Fresh(prog) EXCEPT !.state = "STEP_MODE", !.lastEvent = "STARTED"])
            /\ ResetSkipAndRequests
            /\ Begins(c, 0)
    /\ UNCHANGED <<prog, breakpoints>>

(* requestPause and requestTerminate of another thread during run().       *)
RequestPause ==
    /\ command = "run" /\ pauseRequested' = TRUE
    /\ UNCHANGED <<prog, breakpoints, machine, skip, step, terminateRequested,
                   command, aux>>

RequestTerminate ==
    /\ command = "run" /\ terminateRequested' = TRUE
    /\ UNCHANGED <<prog, breakpoints, machine, skip, step, pauseRequested,
                   command, aux>>

Returns == command' = "none"
Loops   == UNCHANGED command
Live    == pc < Size(prog)

RunFinishes ==
    /\ command = "run" /\ Returns
    /\ IF state = "RUNNING" /\ ~Live
       THEN Becomes([Machine EXCEPT !.state = "FINISHED", !.lastEvent = "FINISHED"])
       ELSE state # "RUNNING" /\ UNCHANGED machine
    /\ UNCHANGED <<prog, breakpoints, skip, step, requests, aux>>

RunTerminates ==
    /\ command = "run" /\ Returns
    /\ state = "RUNNING" /\ Live /\ terminateRequested
    /\ Becomes([Machine EXCEPT !.state = "FINISHED"])
    /\ UNCHANGED <<prog, breakpoints, skip, step, requests, aux>>

RunPauses ==
    /\ command = "run" /\ Returns
    /\ state = "RUNNING" /\ Live /\ ~terminateRequested /\ pauseRequested
    /\ pauseRequested' = FALSE
    /\ Becomes([Machine EXCEPT !.state = "PAUSED", !.lastEvent = "PAUSED"])
    /\ UNCHANGED <<prog, breakpoints, skip, step, terminateRequested, aux>>

(* Is the line still the one a breakpoint has stopped at?                  *)
MutSkips == skipBreakpointOnce
SkipsLine == skipBreakpointOnce /\ skipBreakpointLine = LineAt(prog, pc)

RunPasses == /\ command = "run" /\ state = "RUNNING" /\ Live
             /\ ~terminateRequested /\ ~pauseRequested

RunBreaks ==
    /\ RunPasses /\ Returns
    /\ ~SkipsLine /\ shouldBreakAtPC(Machine)
    /\ skipBreakpointOnce' = TRUE /\ skipBreakpointLine' = LineAt(prog, pc)
    /\ Becomes([Machine EXCEPT !.state = "PAUSED", !.lastEvent = "BREAKPOINT_HIT"])
    /\ UNCHANGED <<prog, breakpoints, step, requests, aux>>

RunExecutes ==
    /\ RunPasses /\ Loops
    /\ SkipsLine \/ ~shouldBreakAtPC(Machine)
    /\ skipBreakpointOnce' = SkipsLine
    /\ UNCHANGED skipBreakpointLine
    /\ \E m \in executeInstruction(Machine) : Becomes(m)
    /\ UNCHANGED <<prog, breakpoints, step, requests, aux>>

(* What a step loop decides after an instruction.                          *)
SamePosition(m) == PositionAt(prog, m.pc) = stepStartLocation
MutDeeperOrSame(m) == Len(m.callStack) >= stepStartCallDepth
Deeper(m) == Len(m.callStack) > stepStartCallDepth

StepInDecision(m) ==
    CASE SamePosition(m) -> "continue"
      [] ~SamePosition(m) /\ shouldBreakAtPC(m) -> "BREAKPOINT_HIT"
      [] OTHER -> "STEPPED"

StepOverDecision(m) ==
    CASE Deeper(m) \/ SamePosition(m) -> "continue"
      [] ~(Deeper(m) \/ SamePosition(m)) /\ shouldBreakAtPC(m) -> "BREAKPOINT_HIT"
      [] OTHER -> "STEPPED"

StepOutDecision(m) ==
    CASE stepStartCallDepth > 1 /\ Len(m.callStack) < stepStartCallDepth -> "STEPPED"
      [] ~(stepStartCallDepth > 1 /\ Len(m.callStack) < stepStartCallDepth)
             /\ shouldBreakAtPC(m) -> "BREAKPOINT_HIT"
      [] OTHER -> "continue"

Decision(m) ==
    CASE command = "stepIn"   -> StepInDecision(m)
      [] command = "stepOver" -> StepOverDecision(m)
      [] command = "stepOut"  -> StepOutDecision(m)

(* One iteration of a step loop. STEP_MODE holds while the loop goes on.   *)
StepIteration ==
    /\ command \in {"stepIn", "stepOver", "stepOut"}
    /\ \E m \in executeInstruction(Machine) :
          \/ /\ m.state \in {"FINISHED", "ERROR"}
             /\ Becomes(m) /\ Returns
          \/ /\ m.state = "STEP_MODE" /\ m.pc >= Size(prog)
             /\ Becomes([m EXCEPT !.state = "FINISHED", !.lastEvent = "FINISHED"])
             /\ Returns
          \/ /\ m.state = "STEP_MODE" /\ m.pc < Size(prog)
             /\ Decision(m) = "continue"
             /\ Becomes(m) /\ Loops
          \/ /\ m.state = "STEP_MODE" /\ m.pc < Size(prog)
             /\ Decision(m) # "continue"
             /\ Becomes([m EXCEPT !.state = "PAUSED", !.lastEvent = Decision(m)])
             /\ Returns
    /\ UNCHANGED <<prog, breakpoints, skip, step, requests, aux>>

Client == SetBreakpoints \/ Reset \/ Run \/ RequestPause \/ RequestTerminate
          \/ \E c \in Commands \ {"run"} : BeginStep(c)

Loop == RunFinishes \/ RunTerminates \/ RunPauses \/ RunBreaks \/ RunExecutes
        \/ StepIteration

Next == Client \/ Loop

Spec == Init /\ [][Next]_vars

(* The loops run until they return: a thread is never stopped for ever.    *)
FairSpec == Spec /\ WF_vars(Loop)
-----------------------------------------------------------------------------
(***************************************************************************)
(* Properties.                                                             *)
(***************************************************************************)
Active(q) == ActiveIn(prog, q)
Depth(q)  == Cardinality(Active(q))

(* The variables keep their types.                                         *)
TypeOK ==
    /\ IsProgram(prog) /\ breakpoints \subseteq Breakpoints(prog)
    /\ state \in States /\ lastEvent \in Events
    /\ pc \in 0..Size(prog)
    /\ callStack \in Seq([name : Nat, entryPC : Nat, returnPC : Nat])
    /\ conditionStack \in Seq(BOOLEAN)
    /\ skipBreakpointOnce \in BOOLEAN /\ skipBreakpointLine \in Nat
    /\ stepStartLocation \in Nat \X Nat /\ stepStartCallDepth \in Nat
    /\ pauseRequested \in BOOLEAN /\ terminateRequested \in BOOLEAN
    /\ command \in Commands \cup {"none"}
    /\ lastCommand \in Commands \cup {"none"}
    /\ startPC \in 0..Size(prog)

(* Are these the frames of the active expansions, the outer ones first?    *)
FrameOf(e) == Frame(e.name, e.start, e.end)

FramesAre(p, q, frames) ==
    /\ {frames[k] : k \in 1..Len(frames)} =
           {FrameOf(p.expansions[i]) : i \in ActiveIn(p, q)}
    /\ \A j, k \in 1..Len(frames) :
           j < k => frames[j].entryPC < frames[k].entryPC

(* Pushing and popping at range boundaries rebuilds the call stack of the  *)
(* source: wherever the machine is, its frames are the active expansions.  *)
FramesMatchSource ==
    /\ TypeOK
    /\ pc < Size(prog) => FramesAre(prog, pc, callStack)

(* Where "next" may stop: in the frame it started in or in a caller of it, *)
(* on another position.                                                    *)
NextStatement(q) ==
    /\ PositionAt(prog, q) # PositionAt(prog, startPC)
    /\ Active(q) \subseteq Active(startPC)

Stopped(c) == Idle /\ lastCommand = c /\ state = "PAUSED"

(* A step over stops in no function that its statement calls, and a step   *)
(* out, unless for a breakpoint, not in the frame it started in.           *)
StopsTooEarly ==
    \/ Stopped("stepOver") /\ ~NextStatement(pc)
    \/ /\ Stopped("stepOut") /\ lastEvent = "STEPPED"
       /\ Depth(startPC) > 1 /\ Depth(pc) >= Depth(startPC)

(* A step over runs past no next statement of its frame or of a caller, a  *)
(* step in past no position that differs, in whatever frame, and a step    *)
(* out not past the end of its frame.                                      *)
RunsPast(q) ==
    CASE lastCommand = "stepOver" -> NextStatement(q)
      [] lastCommand = "stepIn"   -> PositionAt(prog, q) # PositionAt(prog, startPC)
      [] lastCommand = "stepOut"  -> Depth(startPC) > 1 /\ Depth(q) < Depth(startPC)
      [] OTHER -> FALSE

(* Counting frames and comparing positions, the step commands stop where   *)
(* the user asked, whatever lies between: neither too early nor too late.  *)
StepsStopWhereAsked ==
    state # "ERROR" =>
        ~StopsTooEarly /\ \A q \in startPC + 1 .. pc - 1 : ~RunsPast(q)

(* run() executes no instruction of a line with a breakpoint unless it has *)
(* been on that line since the run began, and so has stopped there before. *)
NoBreakpointMissed ==
    [][ command = "run" /\ pc' > pc /\ shouldBreakAtPC(Machine) =>
            \A q \in startPC..pc : LineAt(prog, q) = LineAt(prog, pc) ]_vars

(* Execution stops for a breakpoint in code that is executed only.         *)
BreakpointsAreExecuted ==
    Idle /\ state = "PAUSED" /\ lastEvent = "BREAKPOINT_HIT" =>
        isCurrentlyExecuting(conditionStack)

(* The inductive invariant of the frames: a step loop is on an instruction *)
(* whenever it goes on, and so is a machine that can be stepped.           *)
StepCommands == {"stepIn", "stepOver", "stepOut"}

FrameInv ==
    /\ prog \in Programs
    /\ FramesMatchSource
    /\ command \in StepCommands => state = "STEP_MODE" /\ pc < Size(prog)
    /\ state = "PAUSED" => pc < Size(prog)

(* What the frames are of a program whose ranges the debug information     *)
(* does not represent, if only no expansion has the name of the selected   *)
(* function: that function's, and above it frames of ranges that have been *)
(* entered, in this order. They may be stale.                              *)
OnlyItself(p) ==
    \A i \in 2..Len(p.expansions) : p.expansions[i].name # p.expansions[1].name

FramesOfRanges(p, q, frames) ==
    /\ frames # <<>> /\ frames[1] = FrameOf(p.expansions[1])
    /\ \A k \in 2..Len(frames) :
           /\ \E i \in 2..Len(p.expansions) :
                  /\ frames[k] = FrameOf(p.expansions[i])
                  /\ RangeOf(p, p.expansions[i].name) = p.expansions[i]
           /\ frames[k].entryPC <= q
    /\ \A j, k \in 1..Len(frames) :
           j < k => frames[j].entryPC < frames[k].entryPC

(* With no return in a private function op_return goes back, if it goes    *)
(* anywhere; with none after the start of one it never does.               *)
NeverJumpsAhead(p) == OnlyItself(p) /\ NoNestedReturn(p)

ReturnsFirst(p) ==
    /\ OnlyItself(p)
    /\ \A i \in 2..Len(p.expansions), q \in 0..Size(p) - 1 :
           p.expansions[i].start <= q => p.code[q + 1] # "return"

(* The frames' invariant for all of these programs.                        *)
Course(p, q, frames) ==
    IF Representable(p) THEN FramesAre(p, q, frames)
                        ELSE FramesOfRanges(p, q, frames)

FramesKeepCourse ==
    /\ TypeOK
    /\ pc < Size(prog) => Course(prog, pc, callStack)

CourseInv ==
    /\ prog \in Programs
    /\ FramesKeepCourse
    /\ command \in StepCommands => state = "STEP_MODE" /\ pc < Size(prog)
    /\ state = "PAUSED" => pc < Size(prog)

(* The skip flag speaks of every instruction since the run began.          *)
SkipInv ==
    command = "run" /\ skipBreakpointOnce =>
        \A q \in startPC .. pc - 1 : LineAt(prog, q) = skipBreakpointLine

(* What a step loop knows while it goes on: it has not run past where it   *)
(* should stop, and a step over is still within the frame it started in.   *)
StepInv ==
    /\ StepsStopWhereAsked
    /\ state = "READY" => pc = 0
    /\ command # "none" => lastCommand = command
    /\ command \in StepCommands =>
           /\ startPC <= pc
           /\ stepStartCallDepth = Depth(startPC)
           /\ command # "stepOut" => stepStartLocation = PositionAt(prog, startPC)
           /\ pc > startPC => ~RunsPast(pc)
           /\ command = "stepOver" => Active(startPC) \subseteq Active(pc)

(* Every command comes back to its caller.                                 *)
CommandsReturn == command # "none" ~> command = "none"

(* What is left of the debugger's states in the script's.                  *)
Status == CASE state = "FINISHED" -> "done"
            [] state = "ERROR"    -> "failed"
            [] OTHER              -> "running"

Script == INSTANCE BVMScript WITH
    code      <- prog.code,
    conds     <- conditionStack,
    status    <- Status,
    terminate <- terminateRequested

(* Debugging is transparent: with any breakpoints and commands the machine *)
(* executes the instructions the script has, in order and once.            *)
ImplementsScript == Script!Spec
=============================================================================
