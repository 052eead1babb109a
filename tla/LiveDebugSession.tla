-------------------------- MODULE LiveDebugSession --------------------------
(***************************************************************************)
(* The live debug server of src/src/debugger/protocol/live_debug_server.cpp: *)
(* a session object shared by two threads.                                 *)
(*                                                                         *)
(*   reader     the thread of runLiveDebugServer: reads one request per    *)
(*              line, handles it, writes the response and the events it    *)
(*              caused, acknowledges it and launches a pending execution   *)
(*   execution  the thread a successful "continue" leads to: runs the VM,  *)
(*              publishes the new session state, writes the stop event     *)
(*                                                                         *)
(* A step is what lies between two accesses to state the other thread can  *)
(* see: the atomics, the state under m_pauseAckMutex, stdout, and the join. *)
(* The VM is abstracted to what the session observes of it: how far it is  *)
(* (vmPC), its state, its two request flags and the last event it reported; *)
(* module BVMSimulator models the machine itself.                          *)
(*                                                                         *)
(* An operator Mut... stands in front of the definition it is a broken     *)
(* version of: PROJECT.json lists which property each of them violates.    *)
(***************************************************************************)
EXTENDS Naturals, Sequences, FiniteSets

CONSTANTS
    MaxRequests,    \* bound: lines the client writes
    EndPC           \* first pc past the selected function's code

ASSUME MaxRequestsAssumption == MaxRequests \in Nat
ASSUME EndPCAssumption == EndPC \in Nat \ {0}

VARIABLES
    sessionState,         \* m_sessionState
    pendingContinue,      \* m_pendingContinue
    disconnectRequested,  \* m_disconnectRequested
    terminatedEventSent,  \* m_terminatedEventSent
    pauseResponsePending, \* m_pauseResponsePending, under m_pauseAckMutex
    vmState,              \* BVMSimulator::m_state
    vmPC,                 \* BVMSimulator::m_pc
    pauseRequested,       \* BVMSimulator::m_pauseRequested
    terminateRequested,   \* BVMSimulator::m_terminateRequested
    lastEvent,            \* m_lastEvent, written by the VM's event callback
    breakpointsSet,       \* does m_breakpoints hold a breakpoint?
    rpc,                  \* where the reader is
    request,              \* the command being handled
    outbox,               \* its response and events, not yet written
    shouldExit,           \* the main loop's flag
    epc,                  \* where the execution thread is; "none": not joinable
    execEvent,            \* the event the execution thread is about to write
    out,                  \* the lines written to stdout
    seq,                  \* auxiliary: number of lines read
    run,                  \* auxiliary: number of accepted continue/step requests
    pauseSeq,             \* auxiliary: the request behind pauseRequested
    stopCause,            \* auxiliary: the pause request that stopped this run
    late                  \* auxiliary: instructions run since a request was set

atomics  == <<sessionState, pendingContinue, disconnectRequested,
              terminatedEventSent, pauseResponsePending>>
vm       == <<vmState, vmPC, lastEvent>>
requests == <<pauseRequested, terminateRequested, pauseSeq, late>>
reader   == <<rpc, request, outbox, shouldExit, seq, run, breakpointsSet>>
exec     == <<epc, execEvent, stopCause>>
vars     == <<atomics, vm, requests, reader, exec, out>>

Inspections == {"inspect"}    \* initialize, snapshot, stackTrace, ...
Steps       == {"step"}
Commands    == Inspections \cup Steps \cup
               {"setBreakpoints", "continue", "pause", "disconnect",
                "unsupported"}
SessionStates == {"Ready", "Running", "Paused", "Finished", "Error",
                  "Terminated"}
VMStates    == {"READY", "RUNNING", "PAUSED", "FINISHED", "ERROR"}
VMEvents    == {"STARTED", "RESUMED", "INSTRUCTION_EXECUTED", "STEPPED",
                "BREAKPOINT_HIT", "PAUSED", "FINISHED", "ERROR"}
Reasons     == {"exception", "breakpoint", "pause", "step", "continue"}

NoEvent == [kind |-> "none", name |-> "none", detail |-> "none",
            seq |-> 0, run |-> 0]

(* One line of stdout. "seq" is the request answered, or for a stop event  *)
(* the pause request that caused it (0: none).                             *)
Response(ok) == [kind |-> "response", name |-> request,
                 detail |-> IF ok THEN "ok" ELSE "failed",
                 seq |-> seq, run |-> run]

EventOf(r, name, detail, cause) ==
    [kind |-> "event", name |-> name, detail |-> detail,
     seq |-> cause, run |-> r]

Event(name, detail, cause) == EventOf(run, name, detail, cause)

Emit(msg) == out' = Append(out, msg)
-----------------------------------------------------------------------------
MutIsRunning == pendingContinue
isRunning  == sessionState = "Running"

MutCanExecute == sessionState # "Running"
canExecute == sessionState \in {"Ready", "Paused"}

(* joinExecutionThread: blocks until the thread's function has returned.   *)
Joined == epc \in {"none", "done"}

MutSyncedRaw(state) == state
SyncedState(state) ==
    CASE state = "READY"    -> "Ready"
      [] state = "RUNNING"  -> "Running"
      [] state = "PAUSED"   -> "Paused"
      [] state = "FINISHED" -> "Finished"
      [] state = "ERROR"    -> "Error"

eventReason(state, event, fallback) ==
    CASE state = "ERROR"            -> "exception"
      [] state # "ERROR" /\ event = "BREAKPOINT_HIT" -> "breakpoint"
      [] state # "ERROR" /\ event = "PAUSED"         -> "pause"
      [] OTHER -> fallback

(* stopOrTerminateEvent for run r and a VM in state s whose last event is  *)
(* e: NoEvent when the other thread has claimed "terminated" already.      *)
StopOrTerminateEvent(r, s, e, fallback, cause) ==
    IF s # "FINISHED"
    THEN EventOf(r, "stopped", eventReason(s, e, fallback), cause)
    ELSE IF terminatedEventSent THEN NoEvent
                                ELSE EventOf(r, "terminated", "none", 0)

(* The compare-exchange of claimTerminatedEvent, for a VM in state s.      *)
MutClaimNever(s) == UNCHANGED terminatedEventSent
ClaimIfFinished(s) ==
    terminatedEventSent' = (terminatedEventSent \/ s = "FINISHED")

WithEvent(response, ev) ==
    IF ev = NoEvent THEN <<response>> ELSE <<response, ev>>
-----------------------------------------------------------------------------
Init ==
    /\ sessionState = "Ready"
    /\ pendingContinue = FALSE
    /\ disconnectRequested = FALSE
    /\ terminatedEventSent = FALSE
    /\ pauseResponsePending = FALSE
    /\ vmState = "READY" /\ vmPC = 0 /\ lastEvent = "STARTED"
    /\ pauseRequested = FALSE /\ terminateRequested = FALSE
    /\ breakpointsSet = FALSE
    /\ rpc = "initialize" /\ request = "inspect" /\ outbox = <<>>
    /\ shouldExit = FALSE
    /\ epc = "none" /\ execEvent = NoEvent
    /\ out = <<>>
    /\ seq = 0 /\ run = 0 /\ pauseSeq = 0 /\ stopCause = 0 /\ late = 0

(***************************************************************************)
(* The reader: runLiveDebugServer and handleRequest.                       *)
(***************************************************************************)
ReaderAt(label) == rpc = label
ReaderTo(label) == rpc' = label

InitializeSession ==
    /\ ReaderAt("initialize") /\ ReaderTo("getline")
    /\ Emit(Event("ready", "none", 0))
    /\ UNCHANGED <<atomics, vm, requests, exec, request, outbox, shouldExit,
                   seq, run, breakpointsSet>>

(* Compilation or argument errors: two events and return code 1.           *)
InitializeFails ==
    /\ ReaderAt("initialize") /\ ReaderTo("destroy")
    /\ out' = Append(Append(out, Event("error", "none", 0)),
                     Event("terminated", "none", 0))
    /\ UNCHANGED <<atomics, vm, requests, exec, request, outbox, shouldExit,
                   seq, run, breakpointsSet>>

(* A JSON object whose "command", if any, is a string and whose "seq", if  *)
(* any, a number. Any other object makes request.value throw outside the   *)
(* try of handleRequest, or in makeResponse: nothing catches it, and the   *)
(* process aborts. No client of this model writes one.                     *)
ReadRequest(c) ==
    /\ ReaderAt("getline") /\ ReaderTo("dispatch")
    /\ seq < MaxRequests
    /\ seq' = seq + 1
    /\ request' = c
    /\ UNCHANGED <<atomics, vm, requests, exec, out, outbox, shouldExit, run,
                   breakpointsSet>>

(* A line that is not a JSON object: reported, and nothing else happens.   *)
ReadMalformed ==
    /\ ReaderAt("getline")
    /\ seq < MaxRequests
    /\ seq' = seq + 1
    /\ Emit(Event("error", "none", 0))
    /\ UNCHANGED <<atomics, vm, requests, exec, rpc, request, outbox,
                   shouldExit, run, breakpointsSet>>

EndOfInput ==
    /\ ReaderAt("getline") /\ ReaderTo("destroy")
    /\ UNCHANGED <<atomics, vm, requests, exec, out, request, outbox,
                   shouldExit, seq, run, breakpointsSet>>

(* A response without a state change: refusals and unsupported commands.   *)
Refuse ==
    /\ ReaderAt("dispatch") /\ ReaderTo("emit")
    /\ \/ request \in Inspections \cup {"setBreakpoints"} /\ isRunning
       \/ request \in Steps \cup {"continue"} /\ ~canExecute
       \/ request = "pause" /\ ~isRunning
       \/ request = "unsupported"
    /\ outbox' = <<Response(FALSE)>>
    /\ UNCHANGED <<atomics, vm, requests, exec, out, request, shouldExit,
                   seq, run, breakpointsSet>>

(* The guard of a command is one atomic load; the command acts after it.   *)
Accept ==
    /\ ReaderAt("dispatch")
    /\ \/ request \in Inspections /\ ~isRunning /\ ReaderTo("inspect")
       \/ request = "setBreakpoints" /\ ~isRunning /\ ReaderTo("setBreakpoints")
       \/ request = "continue" /\ canExecute /\ ReaderTo("joinContinue")
       \/ request \in Steps /\ canExecute /\ ReaderTo("joinStep")
       \/ request = "pause" /\ isRunning /\ ReaderTo("pausePending")
    /\ UNCHANGED <<atomics, vm, requests, exec, out, request, outbox,
                   shouldExit, seq, run, breakpointsSet>>

(* snapshot, stackFrames, variablesForScope and evaluate only read the VM. *)
Inspect ==
    /\ ReaderAt("inspect") /\ ReaderTo("emit")
    /\ \E ok \in BOOLEAN : outbox' = <<Response(ok)>>
    /\ UNCHANGED <<atomics, vm, requests, exec, out, request, shouldExit,
                   seq, run, breakpointsSet>>

(* The breakpoints of a source are replaced, up to an item that throws: the *)
(* request then fails, and the earlier items have been added.              *)
SetBreakpoints ==
    /\ ReaderAt("setBreakpoints") /\ ReaderTo("emit")
    /\ breakpointsSet' \in BOOLEAN
    /\ \E ok \in BOOLEAN : outbox' = <<Response(ok)>>
    /\ UNCHANGED <<atomics, vm, requests, exec, out, request, shouldExit,
                   seq, run>>

ClearExecutionRequests ==
    /\ pauseRequested' = FALSE /\ terminateRequested' = FALSE
    /\ pauseSeq' = 0 /\ late' = 0

(* After the join no other thread exists, so the rest of the handler is    *)
(* one step: clearExecutionRequests, start() of a READY machine, Running.  *)
Continue ==
    /\ ReaderAt("joinContinue") /\ Joined /\ ReaderTo("emit")
    /\ epc' = "none"
    /\ ClearExecutionRequests
    /\ IF vmState = "READY"
       THEN vmState' = "RUNNING" /\ vmPC' = 0 /\ lastEvent' = "STARTED"
       ELSE UNCHANGED vm
    /\ sessionState' = "Running"
    /\ pendingContinue' = TRUE
    /\ run' = run + 1
    /\ outbox' = <<Response(TRUE), EventOf(run + 1, "continued", "none", 0)>>
    /\ UNCHANGED <<disconnectRequested, terminatedEventSent,
                   pauseResponsePending, out, request, shouldExit, seq,
                   breakpointsSet, execEvent, stopCause>>

(* How a step or a run can leave the VM: at the end, at OP_RETURN of the   *)
(* outermost frame, on an error, or in front of a later instruction.       *)
StepOutcome(from, state, pc, event) ==
    \/ /\ state = "FINISHED" /\ pc \in from + 1 .. EndPC
       /\ event \in {"INSTRUCTION_EXECUTED"} \cup
                    (IF pc = EndPC THEN {"FINISHED"} ELSE {})
    \/ /\ state = "ERROR" /\ pc \in from .. EndPC - 1 /\ event = "ERROR"
    \/ /\ state = "PAUSED" /\ pc \in from + 1 .. EndPC - 1
       /\ event \in {"STEPPED"} \cup
                    (IF breakpointsSet THEN {"BREAKPOINT_HIT"} ELSE {})

(* next, stepIn and stepOut run on the reader itself, after the join.      *)
Step ==
    /\ ReaderAt("joinStep") /\ Joined /\ ReaderTo("emit")
    /\ epc' = "none"
    /\ ClearExecutionRequests
    /\ run' = run + 1
    /\ StepOutcome(IF vmState = "READY" THEN 0 ELSE vmPC,
                   vmState', vmPC', lastEvent')
    /\ sessionState' = SyncedState(vmState')
    /\ ClaimIfFinished(vmState')
    /\ outbox' = WithEvent(Response(TRUE),
                           StopOrTerminateEvent(run + 1, vmState', lastEvent',
                                                "step", 0))
    /\ UNCHANGED <<pendingContinue, disconnectRequested, pauseResponsePending,
                   out, request, shouldExit, seq, breakpointsSet, execEvent,
                   stopCause>>

(* pause: the mark under the lock comes before the request to the VM.      *)
PauseMarkPending ==
    /\ ReaderAt("pausePending") /\ ReaderTo("pauseRequest")
    /\ epc # "blocking"
    /\ pauseResponsePending' = TRUE
    /\ UNCHANGED <<sessionState, pendingContinue, disconnectRequested,
                   terminatedEventSent, vm, requests, exec, out, request,
                   outbox, shouldExit, seq, run, breakpointsSet>>

PauseRequest ==
    /\ ReaderAt("pauseRequest") /\ ReaderTo("emit")
    /\ pauseRequested' = TRUE
    /\ pauseSeq' = seq
    /\ late' = 0
    /\ outbox' = <<Response(TRUE)>>
    /\ UNCHANGED <<atomics, vm, terminateRequested, exec, out, request,
                   shouldExit, seq, run, breakpointsSet>>

(* notify_all wakes the execution thread only if it is already asleep.     *)
MutNotifyNobody == UNCHANGED epc
NotifyAll == epc' = IF epc = "sleeping" THEN "waitResponse" ELSE epc

Disconnect ==
    /\ ReaderAt("dispatch") /\ ReaderTo("disconnectNotify")
    /\ request = "disconnect"
    /\ shouldExit' = TRUE
    /\ disconnectRequested' = TRUE
    /\ UNCHANGED <<sessionState, pendingContinue, terminatedEventSent,
                   pauseResponsePending, vm, requests, exec, out, request,
                   outbox, seq, run, breakpointsSet>>

DisconnectNotify ==
    /\ ReaderAt("disconnectNotify")
    /\ NotifyAll
    /\ pendingContinue' = FALSE
    /\ IF isRunning THEN ReaderTo("disconnectStop")
                    ELSE ReaderTo("disconnectJoin")
    /\ UNCHANGED <<sessionState, disconnectRequested, terminatedEventSent,
                   pauseResponsePending, vm, requests, execEvent, stopCause,
                   out, request, outbox, shouldExit, seq, run, breakpointsSet>>

RequestTerminate == terminateRequested' = TRUE /\ late' = 0

DisconnectStop ==
    /\ ReaderAt("disconnectStop") /\ ReaderTo("disconnectJoin")
    /\ RequestTerminate
    /\ UNCHANGED <<atomics, vm, pauseRequested, pauseSeq, exec, out, request,
                   outbox, shouldExit, seq, run, breakpointsSet>>

DisconnectJoin ==
    /\ ReaderAt("disconnectJoin") /\ Joined /\ ReaderTo("emit")
    /\ epc' = "none"
    /\ sessionState' = "Terminated"
    /\ terminatedEventSent' = TRUE
    /\ outbox' = WithEvent(Response(TRUE),
                           IF terminatedEventSent THEN NoEvent
                           ELSE Event("terminated", "none", 0))
    /\ UNCHANGED <<pendingContinue, disconnectRequested, pauseResponsePending,
                   vm, requests, execEvent, stopCause, out, request,
                   shouldExit, seq, run, breakpointsSet>>

(* emit(response), then each event, each line under the output mutex.      *)
EmitNext ==
    /\ ReaderAt("emit") /\ outbox # <<>>
    /\ Emit(Head(outbox))
    /\ outbox' = Tail(outbox)
    /\ IF Len(outbox) = 1 THEN ReaderTo("acknowledge") ELSE UNCHANGED rpc
    /\ UNCHANGED <<atomics, vm, requests, exec, request, shouldExit, seq, run,
                   breakpointsSet>>

Acknowledges == request = "pause"

acknowledgeRequest ==
    /\ ReaderAt("acknowledge")
    /\ IF Acknowledges
       THEN /\ epc # "blocking"
            /\ pauseResponsePending' = FALSE
            /\ ReaderTo("acknowledgeNotify")
       ELSE UNCHANGED pauseResponsePending /\ ReaderTo("launch")
    /\ UNCHANGED <<sessionState, pendingContinue, disconnectRequested,
                   terminatedEventSent, vm, requests, exec, out, request,
                   outbox, shouldExit, seq, run, breakpointsSet>>

AcknowledgeNotify ==
    /\ ReaderAt("acknowledgeNotify") /\ ReaderTo("launch")
    /\ NotifyAll
    /\ UNCHANGED <<atomics, vm, requests, execEvent, stopCause, out, request,
                   outbox, shouldExit, seq, run, breakpointsSet>>

startPendingExecution ==
    /\ ReaderAt("launch")
    /\ pendingContinue' = FALSE
    /\ IF pendingContinue
       THEN Joined /\ epc' = "start" /\ stopCause' = 0
       ELSE UNCHANGED <<epc, stopCause>>
    /\ ReaderTo(IF shouldExit THEN "destroy" ELSE "getline")
    /\ UNCHANGED <<sessionState, disconnectRequested, terminatedEventSent,
                   pauseResponsePending, vm, requests, execEvent, out, request,
                   outbox, shouldExit, seq, run, breakpointsSet>>

(* ~LiveDebugSession.                                                      *)
Destroy ==
    /\ ReaderAt("destroy") /\ ReaderTo("destroyNotify")
    /\ disconnectRequested' = TRUE
    /\ UNCHANGED <<sessionState, pendingContinue, terminatedEventSent,
                   pauseResponsePending, vm, requests, exec, out, request,
                   outbox, shouldExit, seq, run, breakpointsSet>>

DestroyNotify ==
    /\ ReaderAt("destroyNotify")
    /\ NotifyAll
    /\ ReaderTo(IF isRunning THEN "destroyStop" ELSE "destroyJoin")
    /\ UNCHANGED <<atomics, vm, requests, execEvent, stopCause, out, request,
                   outbox, shouldExit, seq, run, breakpointsSet>>

DestroyStop ==
    /\ ReaderAt("destroyStop") /\ ReaderTo("destroyJoin")
    /\ RequestTerminate
    /\ UNCHANGED <<atomics, vm, pauseRequested, pauseSeq, exec, out, request,
                   outbox, shouldExit, seq, run, breakpointsSet>>

DestroyJoin ==
    /\ ReaderAt("destroyJoin") /\ Joined /\ ReaderTo("exited")
    /\ epc' = "none"
    /\ UNCHANGED <<atomics, vm, requests, execEvent, stopCause, out, request,
                   outbox, shouldExit, seq, run, breakpointsSet>>
-----------------------------------------------------------------------------
(***************************************************************************)
(* The execution thread: BVMSimulator::run, then the end of the lambda of  *)
(* startPendingExecution.                                                  *)
(***************************************************************************)
ExecAt(label) == epc = label
ExecTo(label) == epc' = label

(* run() entered with RUNNING or PAUSED.                                   *)
RunStart ==
    /\ ExecAt("start") /\ ExecTo("loop")
    /\ vmState' = "RUNNING" /\ lastEvent' = "RESUMED"
    /\ UNCHANGED <<atomics, vmPC, requests, reader, execEvent, stopCause, out>>

(* The load of m_terminateRequested in every iteration.                    *)
MutTerminateSeen == terminateRequested /\ vmPC = 0
TerminateSeen == terminateRequested

(* The loop's head: its condition, then the terminate request.             *)
RunLoop ==
    /\ ExecAt("loop")
    /\ \/ /\ vmState # "RUNNING" /\ ExecTo("ran")
          /\ UNCHANGED vm
       \/ /\ vmState = "RUNNING" /\ vmPC >= EndPC /\ ExecTo("ran")
          /\ vmState' = "FINISHED" /\ lastEvent' = "FINISHED"
          /\ UNCHANGED vmPC
       \/ /\ vmState = "RUNNING" /\ vmPC < EndPC /\ TerminateSeen
          /\ ExecTo("ran")
          /\ vmState' = "FINISHED" /\ UNCHANGED <<vmPC, lastEvent>>
       \/ /\ vmState = "RUNNING" /\ vmPC < EndPC /\ ~TerminateSeen
          /\ ExecTo("poll")
          /\ UNCHANGED vm
    /\ UNCHANGED <<atomics, requests, reader, execEvent, stopCause, out>>

(* m_pauseRequested.exchange(false).                                       *)
PollPause ==
    /\ ExecAt("poll")
    /\ pauseRequested' = FALSE
    /\ IF pauseRequested
       THEN /\ vmState' = "PAUSED" /\ lastEvent' = "PAUSED"
            /\ ExecTo("ran")
            /\ stopCause' = pauseSeq
       ELSE /\ ExecTo("execute")
            /\ UNCHANGED <<vmState, lastEvent, stopCause>>
    /\ UNCHANGED <<atomics, vmPC, terminateRequested, pauseSeq, late, reader,
                   execEvent, out>>

BreakpointHit ==
    /\ ExecAt("execute") /\ ExecTo("ran")
    /\ breakpointsSet
    /\ vmState' = "PAUSED" /\ lastEvent' = "BREAKPOINT_HIT"
    /\ UNCHANGED <<atomics, vmPC, requests, reader, execEvent, stopCause, out>>

(* executeInstruction: the next instruction, OP_RETURN, or an exception.   *)
ExecuteInstruction ==
    /\ ExecAt("execute")
    /\ \/ /\ vmState' = "ERROR" /\ lastEvent' = "ERROR" /\ UNCHANGED vmPC
          /\ ExecTo("ran")
       \/ /\ vmState' \in {"RUNNING", "FINISHED"}
          /\ lastEvent' = "INSTRUCTION_EXECUTED"
          /\ vmPC' = vmPC + 1
          /\ ExecTo("loop")
    /\ late' = IF pauseRequested \/ terminateRequested THEN late + 1 ELSE 0
    /\ UNCHANGED <<atomics, pauseRequested, terminateRequested, pauseSeq,
                   reader, execEvent, stopCause, out>>

CheckDisconnect ==
    /\ ExecAt("ran")
    /\ IF disconnectRequested
       THEN sessionState' = "Terminated" /\ ExecTo("done")
       ELSE UNCHANGED sessionState /\ ExecTo("sync")
    /\ UNCHANGED <<pendingContinue, disconnectRequested, terminatedEventSent,
                   pauseResponsePending, vm, requests, reader, execEvent,
                   stopCause, out>>

syncSessionStateFromVm ==
    /\ ExecAt("sync") /\ ExecTo("event")
    /\ sessionState' = SyncedState(vmState)
    /\ UNCHANGED <<pendingContinue, disconnectRequested, terminatedEventSent,
                   pauseResponsePending, vm, requests, reader, execEvent,
                   stopCause, out>>

stopOrTerminateEvent ==
    /\ ExecAt("event")
    /\ execEvent' = StopOrTerminateEvent(run, vmState, lastEvent, "continue",
                                         stopCause)
    /\ ExecTo(IF execEvent' = NoEvent THEN "done" ELSE "waitResponse")
    /\ ClaimIfFinished(vmState)
    /\ UNCHANGED <<sessionState, pendingContinue, disconnectRequested,
                   pauseResponsePending, vm, requests, reader, stopCause, out>>

(* waitForPauseResponse. The predicate is evaluated under m_pauseAckMutex; *)
(* "blocking" still holds it, "sleeping" has released it.                  *)
MutNoWait == TRUE
PauseResponseWritten == ~pauseResponsePending \/ disconnectRequested

waitForPauseResponse ==
    /\ ExecAt("waitResponse")
    /\ ExecTo(IF PauseResponseWritten THEN "emit" ELSE "blocking")
    /\ UNCHANGED <<atomics, vm, requests, reader, execEvent, stopCause, out>>

Sleep ==
    /\ ExecAt("blocking") /\ ExecTo("sleeping")
    /\ UNCHANGED <<atomics, vm, requests, reader, execEvent, stopCause, out>>

(* Spurious wake-ups, which a condition variable may have at any time.     *)
SpuriousWakeup ==
    /\ ExecAt("sleeping") /\ ExecTo("waitResponse")
    /\ UNCHANGED <<atomics, vm, requests, reader, execEvent, stopCause, out>>

EmitStop ==
    /\ ExecAt("emit") /\ ExecTo("done")
    /\ Emit(execEvent)
    /\ execEvent' = NoEvent
    /\ UNCHANGED <<atomics, vm, requests, reader, stopCause>>
-----------------------------------------------------------------------------
Client == ReadMalformed \/ EndOfInput \/ \E c \in Commands : ReadRequest(c)

Reader ==
    \/ InitializeSession \/ InitializeFails
    \/ Refuse \/ Accept \/ Inspect \/ SetBreakpoints \/ Continue \/ Step
    \/ PauseMarkPending \/ PauseRequest
    \/ Disconnect \/ DisconnectNotify \/ DisconnectStop \/ DisconnectJoin
    \/ EmitNext \/ acknowledgeRequest \/ AcknowledgeNotify
    \/ startPendingExecution
    \/ Destroy \/ DestroyNotify \/ DestroyStop \/ DestroyJoin

Executor ==
    \/ RunStart \/ RunLoop \/ PollPause \/ BreakpointHit \/ ExecuteInstruction
    \/ CheckDisconnect \/ syncSessionStateFromVm \/ stopOrTerminateEvent
    \/ waitForPauseResponse \/ Sleep \/ EmitStop

(* The process has ended.                                                 *)
Exited == ReaderAt("exited") /\ UNCHANGED vars

Next == Client \/ Reader \/ Executor \/ SpuriousWakeup \/ Exited

Spec == Init /\ [][Next]_vars

(* The operating system schedules both threads and gives a mutex that is   *)
(* free again and again to the thread that waits for it; the client owes   *)
(* nothing.                                                                *)
Fairness == WF_vars(Reader) /\ WF_vars(Executor) /\ SF_vars(acknowledgeRequest)

FairSpec == Spec /\ Fairness
-----------------------------------------------------------------------------
(***************************************************************************)
(* Properties.                                                             *)
(***************************************************************************)
ReaderLabels == {"initialize", "getline", "dispatch", "inspect",
    "setBreakpoints", "joinContinue", "joinStep", "pausePending",
    "pauseRequest", "disconnectNotify", "disconnectStop", "disconnectJoin",
    "emit", "acknowledge", "acknowledgeNotify", "launch", "destroy",
    "destroyNotify", "destroyStop", "destroyJoin", "exited"}
ExecLabels == {"none", "start", "loop", "poll", "execute", "ran", "sync",
    "event", "waitResponse", "blocking", "sleeping", "emit", "done"}

InRun  == {"start", "loop", "poll", "execute"}   \* inside BVMSimulator::run
PauseWindow == {"pauseRequest", "emit", "acknowledge"}

Message == [kind : {"none", "response", "event"},
            name : Commands \cup {"none", "ready", "error", "continued",
                                  "stopped", "terminated"},
            detail : Reasons \cup {"none", "ok", "failed"},
            seq : Nat, run : Nat]

(* The variables keep their types.                                         *)
TypeOK ==
    /\ sessionState \in SessionStates
    /\ pendingContinue \in BOOLEAN /\ disconnectRequested \in BOOLEAN
    /\ terminatedEventSent \in BOOLEAN /\ pauseResponsePending \in BOOLEAN
    /\ vmState \in VMStates /\ vmPC \in Nat /\ lastEvent \in VMEvents
    /\ pauseRequested \in BOOLEAN /\ terminateRequested \in BOOLEAN
    /\ breakpointsSet \in BOOLEAN /\ shouldExit \in BOOLEAN
    /\ rpc \in ReaderLabels /\ request \in Commands
    /\ outbox \in Seq(Message)
    /\ epc \in ExecLabels /\ execEvent \in Message
    /\ out \in Seq(Message)
    /\ seq \in Nat /\ run \in Nat /\ pauseSeq \in Nat /\ stopCause \in Nat
    /\ late \in Nat

IsEvent(m, names) == m.kind = "event" /\ m.name \in names
IsResponse(m)     == m.kind = "response"
LifecycleNames    == {"ready", "continued", "stopped", "terminated"}
LifecycleEvent(m) == IsEvent(m, LifecycleNames)

(* claimTerminatedEvent: however a disconnect, a step and the end of a run *)
(* race, "terminated" is written once, and after it no other event of the  *)
(* program's life.                                                         *)
TerminatedIsFinal ==
    \A i, j \in 1..Len(out) :
        i < j /\ IsEvent(out[i], {"terminated"})
            => ~LifecycleEvent(out[j])

(* A stop reported with reason "pause" goes back to a pause request of the *)
(* same run, and its response has been written before: the mark is set     *)
(* before the VM sees the request, and no request survives into a later run.*)
PauseStopFollowsItsResponse ==
    \A i \in 1..Len(out) :
        IsEvent(out[i], {"stopped"}) /\ out[i].detail = "pause" =>
            \E j \in 1..i - 1 :
                /\ IsResponse(out[j]) /\ out[j].name = "pause"
                /\ out[j].seq = out[i].seq /\ out[j].run = out[i].run

(* The reader inspects the VM or changes the breakpoint table only when    *)
(* the session is not running, and it does not start to run meanwhile.     *)
NoAccessDuringRun ==
    rpc \in {"inspect", "setBreakpoints"} => epc \notin InRun

(* The reader moves the VM (start, stepIn, stepOver, stepOut) only when no *)
(* execution thread is alive.                                              *)
ReaderMovesVMAlone == rpc' # rpc /\ vm' # vm => epc \in {"none", "done"}

(* The VM and the breakpoint table have no lock: they are never used by    *)
(* both threads while run() is going on.                                   *)
VMHasOneUser == [][NoAccessDuringRun' /\ ReaderMovesVMAlone]_vars

(* A session that says Running is running or about to: otherwise every     *)
(* request but disconnect would be refused for ever.                       *)
RunningHasAThread ==
    sessionState = "Running" =>
        pendingContinue \/ epc \in InRun \cup {"ran", "sync"}

(* A pause or terminate request takes effect at the next loop iteration:   *)
(* at most the instruction already started is executed after it.           *)
RequestsAreSeen == late <= 1

(* Nobody waits for a pause response that nobody will write: the mark is   *)
(* only set while the reader is between taking the pause and acknowledging.*)
PendingOnlyDuringPause ==
    pauseResponsePending => rpc \in PauseWindow /\ request = "pause"

(* A flag one thread leaves for the other is never left for nobody: not the*)
(* state that refuses requests, nor the mark that withholds stop events,   *)
(* nor a request to the run.                                               *)
FlagsHaveAnOwner == RunningHasAThread /\ PendingOnlyDuringPause /\ RequestsAreSeen

(***************************************************************************)
(* The inductive invariant behind them: who may be where in which session  *)
(* state, and who holds an event of the program's life.                    *)
(***************************************************************************)
TerminatedWritten == \E i \in 1..Len(out) : IsEvent(out[i], {"terminated"})
Publishing == {"waitResponse", "blocking", "sleeping", "emit"}
DestroyLabels == {"destroy", "destroyNotify", "destroyStop", "destroyJoin",
                  "exited"}

ControlInv ==
    /\ epc \in InRun \cup {"ran", "sync"} => sessionState = "Running"
    /\ epc \in {"loop", "poll", "execute"} => vmState # "READY"
    /\ epc \in {"ran", "sync"} => vmState \in {"PAUSED", "FINISHED", "ERROR"}
    /\ epc = "event" => sessionState = SyncedState(vmState)
    /\ pendingContinue => /\ sessionState = "Running" /\ request = "continue"
                          /\ rpc \in {"emit", "acknowledge", "launch"}
                          /\ epc = "none"
    /\ rpc \in {"inspect", "setBreakpoints"} => sessionState # "Running"
    /\ rpc \in {"joinContinue", "joinStep"} => sessionState \in {"Ready", "Paused"}
    /\ rpc = "initialize" => epc = "none"
    /\ rpc = "joinContinue" => request = "continue"
    /\ rpc \in {"pausePending", "pauseRequest"} => request = "pause"
    /\ RunningHasAThread
    /\ PendingOnlyDuringPause

(* An event of the program's life is held by one thread at a time, and     *)
(* "terminated" only by the one that has claimed it.                       *)
OutboxHolds(names) == \E i \in 1..Len(outbox) : IsEvent(outbox[i], names)

HolderInv ==
    /\ rpc = "emit" <=> outbox # <<>>
    /\ Len(outbox) <= 2
    /\ Len(outbox) = 2 => ~LifecycleEvent(outbox[1])
    /\ OutboxHolds(LifecycleNames) => epc \in {"none", "done"}
    /\ OutboxHolds({"terminated"}) => terminatedEventSent
    /\ epc \notin Publishing => execEvent = NoEvent
    /\ IsEvent(execEvent, {"terminated"}) => terminatedEventSent
    /\ terminatedEventSent => sessionState \in {"Finished", "Terminated"}

(* Once "terminated" is written, nobody holds such an event any more.      *)
WrittenInv ==
    TerminatedWritten =>
        /\ rpc # "initialize"
        /\ execEvent = NoEvent
        /\ ~OutboxHolds(LifecycleNames)
        /\ terminatedEventSent \/ (epc = "none" /\ rpc \in DestroyLabels)

(* Where the run can be after the one instruction that was late.           *)
LateInv ==
    /\ late \in {0, 1}
    /\ pendingContinue => late = 0
    /\ epc \in {"start", "execute"} => late = 0
    /\ late = 1 /\ epc = "loop" => pauseRequested \/ terminateRequested
    /\ late = 1 /\ epc = "poll" => pauseRequested

(* Where the response to pause request c of run r is: written, or in the   *)
(* hands of the reader, who has not taken back the mark.                   *)
PauseStop(m) == IsEvent(m, {"stopped"}) /\ m.detail = "pause"
PauseAnswered(c, r) ==
    \E j \in 1..Len(out) : /\ IsResponse(out[j]) /\ out[j].name = "pause"
                          /\ out[j].seq = c /\ out[j].run = r
AnswerHeld ==
    /\ rpc = "emit" /\ request = "pause" /\ pauseResponsePending
    /\ outbox = <<Response(TRUE)>>
Answering(c, r) == PauseAnswered(c, r) \/ (AnswerHeld /\ c = seq /\ r = run)

(* A disconnect wakes the execution thread without the response it waits   *)
(* for, but then the reader is past every pause.                           *)
Leaving ==
    \/ rpc \in DestroyLabels
    \/ /\ shouldExit /\ request = "disconnect"
       /\ rpc \in {"disconnectNotify", "disconnectStop", "disconnectJoin",
                   "emit", "acknowledge", "launch"}

(* What becomes of a pause request: the run it was made to sees it and     *)
(* stops, and who publishes that stop waits for its response.              *)
PauseInv ==
    /\ rpc = "pauseRequest" => pauseResponsePending
    /\ epc \in {"loop", "poll", "execute"} => lastEvent # "PAUSED"
    /\ disconnectRequested => Leaving
    /\ \A i \in 1..Len(outbox) : ~PauseStop(outbox[i])
    /\ pauseRequested => Answering(pauseSeq, run)
    /\ epc \in {"ran", "sync", "event"} /\ lastEvent = "PAUSED"
           => Answering(stopCause, run)
    /\ PauseStop(execEvent) => Answering(execEvent.seq, execEvent.run)
    /\ PauseStop(execEvent) /\ epc = "emit"
           => PauseAnswered(execEvent.seq, execEvent.run)

(***************************************************************************)
(* The events of the program's life that are written, and the last of them.*)
(***************************************************************************)
LifecycleAt   == {i \in 1..Len(out) : LifecycleEvent(out[i])}
LastLifecycle == out[CHOOSE i \in LifecycleAt : \A j \in LifecycleAt : j <= i]
Phase == IF LifecycleAt = {} THEN "none" ELSE LastLifecycle.name
Round == IF LifecycleAt = {} THEN 0 ELSE LastLifecycle.run

(* An event of the program's life that the reader holds fits the client's  *)
(* view of the run, which is behind the server's by this event.            *)
Announceable(m) ==
    /\ m.run = run /\ m.name # "ready"
    /\ m.name = "continued" <=> pendingContinue
    /\ IF m.name = "terminated"
       THEN run \in {Round, Round + 1}
       ELSE Phase \in {"ready", "stopped"} /\ Round + 1 = run

InRound == pendingContinue \/ epc \in InRun \cup {"ran", "sync", "event"}
Idle    == sessionState \in {"Ready", "Paused"} /\ epc \in {"none", "done"}

(* Between the events of a run the client sees where the run is.           *)
LifeInv ==
    /\ rpc = "initialize" => LifecycleAt = {} /\ run = 0
    /\ rpc # "initialize" /\ ~TerminatedWritten =>
           /\ Phase \in {"ready", "continued", "stopped"}
           /\ OutboxHolds(LifecycleNames) \/ Round = run
    /\ \A i \in 1..Len(outbox) :
           LifecycleEvent(outbox[i]) => Announceable(outbox[i])
    /\ InRound => OutboxHolds(LifecycleNames) \/ Phase = "continued"
    /\ epc \in Publishing =>
           /\ IsEvent(execEvent, {"stopped", "terminated"})
           /\ execEvent.run = run /\ Phase = "continued"
    /\ Idle /\ rpc # "initialize" /\ ~TerminatedWritten
           => OutboxHolds(LifecycleNames) \/ Phase \in {"ready", "stopped"}

IndInv == TypeOK /\ ControlInv /\ HolderInv /\ WrittenInv /\ TerminatedIsFinal
          /\ LateInv /\ PauseInv /\ LifeInv

Answered(n) == \E i \in 1..Len(out) : IsResponse(out[i]) /\ out[i].seq = n
Stopped(r)  == \E i \in 1..Len(out) :
                   IsEvent(out[i], {"stopped", "terminated"}) /\ out[i].run = r

(* Every request the reader takes is answered: no join, lock or condition  *)
(* wait of the two threads blocks the other for ever.                      *)
RequestsAnswered ==
    \A n \in 1..MaxRequests : (rpc = "dispatch" /\ seq = n) ~> Answered(n)

(* Every run a client was told of ends in an event it is told of, unless   *)
(* the client closes the input first.                                      *)
RunsEndInAnEvent ==
    \A r \in 1..MaxRequests :
        (run = r) ~> (Stopped(r) \/ rpc = "exited")

(* A client that disconnects sees "terminated", and the server exits.      *)
DisconnectTerminates ==
    (rpc = "dispatch" /\ request = "disconnect") ~>
        (rpc = "exited" /\ \E i \in 1..Len(out) : IsEvent(out[i], {"terminated"}))

(* Whatever the two threads wait for comes: responses, the ends of runs,   *)
(* and the end of the session.                                             *)
NobodyWaitsForEver == RequestsAnswered /\ RunsEndInAnEvent /\ DisconnectTerminates
-----------------------------------------------------------------------------
(***************************************************************************)
(* What a client may rely on: the abstract protocol, as seen in the events *)
(* of the program's life written so far.                                   *)
(***************************************************************************)
Protocol == INSTANCE LiveDebugProtocol WITH
    phase  <- Phase,
    round  <- Round,
    events <- Cardinality(LifecycleAt)

(* The server implements the protocol its clients are written against.     *)
ImplementsProtocol == Protocol!Spec
=============================================================================
