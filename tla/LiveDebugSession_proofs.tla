---------------------- MODULE LiveDebugSession_proofs ----------------------
(***************************************************************************)
(* Proofs about LiveDebugSession, for every number of requests and every   *)
(* length of the debugged function.                                        *)
(***************************************************************************)
EXTENDS LiveDebugSession, SequenceTheorems, FiniteSetTheorems,
        WellFoundedInduction, TLAPS

USE MaxRequestsAssumption, EndPCAssumption

LEMMA NoEventType == NoEvent \in Message
  BY DEF Message, NoEvent

(* Every message the server builds is a message.                           *)
LEMMA MessageTypes ==
    ASSUME TypeOK
    PROVE  /\ \A ok \in BOOLEAN : Response(ok) \in Message
           /\ \A r \in Nat, c \in Nat, d \in Reasons \cup {"none"},
                 n \in {"ready", "error", "continued", "stopped",
                        "terminated"} : EventOf(r, n, d, c) \in Message
  BY DEF TypeOK, Message, Response, EventOf

LEMMA ReasonType ==
    ASSUME NEW s \in VMStates, NEW e \in VMEvents, NEW f \in Reasons
    PROVE  eventReason(s, e, f) \in Reasons
  BY DEF VMStates, VMEvents, Reasons, eventReason

LEMMA StopEventType ==
    ASSUME TypeOK, NEW r \in Nat, NEW s \in VMStates, NEW e \in VMEvents,
           NEW f \in Reasons, NEW c \in Nat
    PROVE  StopOrTerminateEvent(r, s, e, f, c) \in Message
  BY NoEventType, MessageTypes, ReasonType DEF StopOrTerminateEvent

LEMMA SyncedType ==
    ASSUME NEW s \in VMStates
    PROVE  SyncedState(s) \in SessionStates
  BY DEF VMStates, SessionStates, SyncedState

LEMMA InitType == Init => TypeOK
  <1> SUFFICES ASSUME Init PROVE TypeOK
    OBVIOUS
  <1>1. execEvent \in Message
    BY NoEventType DEF Init
  <1>2. outbox \in Seq(Message) /\ out \in Seq(Message)
    BY DEF Init
  <1>3. QED
    BY <1>1, <1>2
       DEF Init, TypeOK, SessionStates, VMStates, VMEvents, ReaderLabels,
           ExecLabels, Commands, Inspections, Steps

LEMMA EventType ==
    ASSUME NEW r \in Nat,
           NEW n \in {"ready", "error", "continued", "terminated"}
    PROVE  EventOf(r, n, "none", 0) \in Message
  BY DEF EventOf, Message

(* What the handlers put into the outbox.                                  *)
LEMMA ResponseType ==
    ASSUME TypeOK, NEW ok \in BOOLEAN, NEW ev \in Message
    PROVE  /\ <<Response(ok)>> \in Seq(Message)
           /\ <<Response(ok), ev>> \in Seq(Message)
           /\ WithEvent(Response(ok), ev) \in Seq(Message)
  <1>1. Response(ok) \in Message
    BY MessageTypes
  <1> QED BY <1>1 DEF WithEvent

LEMMA ClientType == TypeOK /\ (Client \/ Exited) => TypeOK'
  <1> SUFFICES ASSUME TypeOK, Client \/ Exited PROVE TypeOK'
    OBVIOUS
  <1> USE DEF TypeOK, atomics, vm, requests, exec, ReaderTo, ReaderLabels
  <1>1. CASE ReadMalformed
    BY <1>1, EventType DEF ReadMalformed, Emit, Event
  <1>2. CASE EndOfInput
    BY <1>2 DEF EndOfInput
  <1>3. ASSUME NEW c \in Commands, ReadRequest(c) PROVE TypeOK'
    BY <1>3 DEF ReadRequest
  <1>4. CASE Exited
    BY <1>4 DEF Exited, vars, reader
  <1> QED BY <1>1, <1>2, <1>3, <1>4 DEF Client

LEMMA ReaderType == TypeOK /\ Reader => TypeOK'
  <1> SUFFICES ASSUME TypeOK, Reader PROVE TypeOK'
    OBVIOUS
  <1> USE DEF TypeOK, atomics, vm, requests, exec, ReaderTo, ReaderLabels
  <1>1. CASE InitializeSession
    BY <1>1, EventType DEF InitializeSession, Emit, Event
  <1>2. CASE InitializeFails
    BY <1>2, EventType DEF InitializeFails, Event
  <1>3. CASE Refuse
    <2>1. outbox' \in Seq(Message)
      BY <1>3, ResponseType, NoEventType, Zenon DEF Refuse
    <2> QED BY <1>3, <2>1, Zenon DEF Refuse
  <1>4. CASE Accept
    BY <1>4 DEF Accept
  <1>5. CASE Inspect
    BY <1>5, MessageTypes DEF Inspect
  <1>6. CASE SetBreakpoints
    <2>1. outbox' \in Seq(Message)
      BY <1>6, ResponseType, NoEventType, Zenon DEF SetBreakpoints
    <2> QED BY <1>6, <2>1, Zenon DEF SetBreakpoints
  <1>7. CASE Continue
    <2>1. run' \in Nat /\ vmPC' \in Nat /\ pauseSeq' \in Nat /\ late' \in Nat
      BY <1>7 DEF Continue, ClearExecutionRequests
    <2>2. EventOf(run + 1, "continued", "none", 0) \in Message
      BY EventType
    <2>3. outbox' \in Seq(Message)
      BY <1>7, <2>2, ResponseType, Zenon DEF Continue
    <2>4. vmState' \in VMStates /\ lastEvent' \in VMEvents
      BY <1>7, Zenon DEF Continue, VMStates, VMEvents
    <2> QED
      BY <1>7, <2>1, <2>3, <2>4, Zenon
         DEF Continue, ClearExecutionRequests, SessionStates, ExecLabels
  <1>8. CASE Step
    <2>1. vmState' \in VMStates /\ lastEvent' \in VMEvents /\ vmPC' \in Nat
      BY <1>8 DEF Step, StepOutcome, VMStates, VMEvents
    <2>2. run' \in Nat /\ run' = run + 1 /\ pauseSeq' \in Nat /\ late' \in Nat
      BY <1>8 DEF Step, ClearExecutionRequests
    <2>3. StopOrTerminateEvent(run', vmState', lastEvent', "step", 0) \in Message
      BY <2>1, <2>2, StopEventType DEF Reasons
    <2>4. outbox' \in Seq(Message)
      BY <1>8, <2>2, <2>3, ResponseType, Zenon DEF Step
    <2>5. sessionState' \in SessionStates
      BY <1>8, <2>1, SyncedType DEF Step
    <2>6. terminatedEventSent' \in BOOLEAN
      BY <1>8, Zenon DEF Step, ClaimIfFinished
    <2> QED
      BY <1>8, <2>1, <2>2, <2>4, <2>5, <2>6, Zenon
         DEF Step, ClearExecutionRequests, ExecLabels
  <1>9. CASE PauseMarkPending
    BY <1>9 DEF PauseMarkPending
  <1>10. CASE PauseRequest
    <2>1. outbox' \in Seq(Message)
      BY <1>10, ResponseType, NoEventType, Zenon DEF PauseRequest
    <2> QED BY <1>10, <2>1, Zenon DEF PauseRequest
  <1>11. CASE Disconnect
    BY <1>11 DEF Disconnect
  <1>12. CASE DisconnectNotify
    BY <1>12 DEF DisconnectNotify, NotifyAll, ExecLabels
  <1>13. CASE DisconnectStop
    BY <1>13 DEF DisconnectStop, RequestTerminate
  <1>14. CASE DisconnectJoin
    <2>1. Event("terminated", "none", 0) \in Message
      BY EventType DEF Event
    <2>2. outbox' \in Seq(Message)
      BY <1>14, <2>1, ResponseType, NoEventType DEF DisconnectJoin
    <2> QED
      BY <1>14, <2>2, Zenon DEF DisconnectJoin, SessionStates, ExecLabels
  <1>15. CASE EmitNext
    <2>1. outbox # <<>>
      BY <1>15 DEF EmitNext
    <2>2. out' \in Seq(Message) /\ outbox' \in Seq(Message)
      BY <1>15, <2>1 DEF EmitNext, Emit
    <2>3. rpc' \in ReaderLabels
      BY <1>15 DEF EmitNext
    <2> QED BY <1>15, <2>2, <2>3, Zenon DEF EmitNext
  <1>16. CASE acknowledgeRequest
    BY <1>16 DEF acknowledgeRequest
  <1>17. CASE AcknowledgeNotify
    BY <1>17 DEF AcknowledgeNotify, NotifyAll, ExecLabels
  <1>18. CASE startPendingExecution
    <2>1. rpc' \in ReaderLabels
      BY <1>18 DEF startPendingExecution
    <2>2. epc' \in ExecLabels /\ stopCause' \in Nat
      BY <1>18 DEF startPendingExecution, ExecLabels
    <2>3. CASE pendingContinue
      BY <1>18, <2>1, <2>2, <2>3 DEF startPendingExecution
    <2>4. CASE ~pendingContinue
      BY <1>18, <2>1, <2>2, <2>4 DEF startPendingExecution
    <2> QED BY <2>3, <2>4
  <1>19. CASE Destroy
    BY <1>19 DEF Destroy
  <1>20. CASE DestroyNotify
    BY <1>20 DEF DestroyNotify, NotifyAll, ExecLabels
  <1>21. CASE DestroyStop
    BY <1>21 DEF DestroyStop, RequestTerminate
  <1>22. CASE DestroyJoin
    BY <1>22 DEF DestroyJoin, ExecLabels
  <1> QED
    BY <1>1, <1>2, <1>3, <1>4, <1>5, <1>6, <1>7, <1>8, <1>9, <1>10, <1>11,
       <1>12, <1>13, <1>14, <1>15, <1>16, <1>17, <1>18, <1>19, <1>20,
       <1>21, <1>22 DEF Reader

LEMMA ExecutorType == TypeOK /\ (Executor \/ SpuriousWakeup) => TypeOK'
  <1> SUFFICES ASSUME TypeOK, Executor \/ SpuriousWakeup PROVE TypeOK'
    OBVIOUS
  <1> USE DEF TypeOK, atomics, vm, requests, reader, ExecTo, ExecLabels
  <1>1. CASE RunStart
    BY <1>1 DEF RunStart, VMStates, VMEvents
  <1>2. CASE RunLoop
    BY <1>2 DEF RunLoop, VMStates, VMEvents
  <1>3. CASE PollPause
    <2>1. CASE pauseRequested
      BY <1>3, <2>1 DEF PollPause, VMStates, VMEvents
    <2>2. CASE ~pauseRequested
      BY <1>3, <2>2, Zenon DEF PollPause
    <2> QED BY <2>1, <2>2
  <1>4. CASE BreakpointHit
    BY <1>4 DEF BreakpointHit, VMStates, VMEvents
  <1>5. CASE ExecuteInstruction
    BY <1>5 DEF ExecuteInstruction, VMStates, VMEvents
  <1>6. CASE CheckDisconnect
    BY <1>6 DEF CheckDisconnect, SessionStates
  <1>7. CASE syncSessionStateFromVm
    BY <1>7, SyncedType DEF syncSessionStateFromVm
  <1>8. CASE stopOrTerminateEvent
    BY <1>8, StopEventType DEF stopOrTerminateEvent, ClaimIfFinished, Reasons
  <1>9. CASE waitForPauseResponse
    BY <1>9 DEF waitForPauseResponse
  <1>10. CASE Sleep
    BY <1>10 DEF Sleep
  <1>11. CASE EmitStop
    BY <1>11, NoEventType DEF EmitStop, Emit
  <1>12. CASE SpuriousWakeup
    BY <1>12 DEF SpuriousWakeup
  <1> QED
    BY <1>1, <1>2, <1>3, <1>4, <1>5, <1>6, <1>7, <1>8, <1>9, <1>10, <1>11,
       <1>12 DEF Executor

(* Every variable of the server keeps its type, whatever the client sends. *)
THEOREM TypeCorrect == Spec => []TypeOK
  <1>1. Init => TypeOK
    BY InitType
  <1>2. TypeOK /\ [Next]_vars => TypeOK'
    <2> SUFFICES ASSUME TypeOK, [Next]_vars PROVE TypeOK'
      OBVIOUS
    <2>1. CASE Next
      BY <2>1, ClientType, ReaderType, ExecutorType DEF Next
    <2>2. CASE UNCHANGED vars
      BY <2>2 DEF TypeOK, vars, atomics, vm, requests, reader, exec
    <2> QED BY <2>1, <2>2
  <1> QED BY <1>1, <1>2, PTL DEF Spec
-----------------------------------------------------------------------------
(***************************************************************************)
(* ControlInv is inductive: only the thread that is alone changes the      *)
(* session state, except that a run publishes how it ended.                *)
(***************************************************************************)
LEMMA SyncedStopped ==
    ASSUME NEW s \in {"PAUSED", "FINISHED", "ERROR"}
    PROVE  /\ SyncedState(s) \in SessionStates \ {"Running"}
           /\ SyncedState(s) = "Finished" <=> s = "FINISHED"
  BY DEF SyncedState, SessionStates

LEMMA InitControl == Init => ControlInv
  BY DEF Init, ControlInv, RunningHasAThread, PendingOnlyDuringPause, InRun

LEMMA ClientControl ==
    TypeOK /\ ControlInv /\ (Client \/ Exited) => ControlInv'
  <1> SUFFICES ASSUME ControlInv, Client \/ Exited PROVE ControlInv'
    OBVIOUS
  <1> USE DEF ControlInv, RunningHasAThread, PendingOnlyDuringPause,
              PauseWindow, atomics, vm, requests, exec, ReaderAt, ReaderTo
  <1>1. CASE ReadMalformed
    BY <1>1 DEF ReadMalformed
  <1>2. CASE EndOfInput
    BY <1>2 DEF EndOfInput
  <1>3. ASSUME NEW c \in Commands, ReadRequest(c) PROVE ControlInv'
    BY <1>3 DEF ReadRequest
  <1>4. CASE Exited
    BY <1>4 DEF Exited, vars, reader
  <1> QED BY <1>1, <1>2, <1>3, <1>4 DEF Client

LEMMA ReaderControl == TypeOK /\ ControlInv /\ Reader => ControlInv'
  <1> SUFFICES ASSUME TypeOK, ControlInv, Reader PROVE ControlInv'
    OBVIOUS
  <1> USE DEF ControlInv, RunningHasAThread, PendingOnlyDuringPause,
              PauseWindow, InRun, atomics, vm, requests, exec, ReaderAt,
              ReaderTo, Joined, isRunning, canExecute
  <1>1. CASE InitializeSession
    BY <1>1 DEF InitializeSession
  <1>2. CASE InitializeFails
    BY <1>2 DEF InitializeFails
  <1>3. CASE Refuse
    BY <1>3 DEF Refuse
  <1>4. CASE Accept
    BY <1>4 DEF Accept, Steps, Inspections
  <1>5. CASE Inspect
    BY <1>5 DEF Inspect
  <1>6. CASE SetBreakpoints
    BY <1>6 DEF SetBreakpoints
  <1>7. CASE Continue
    BY <1>7 DEF Continue
  <1>8. CASE Step
    <2>1. vmState' \in {"PAUSED", "FINISHED", "ERROR"}
      BY <1>8 DEF Step, StepOutcome
    <2>2. sessionState' # "Running"
      BY <1>8, <2>1, SyncedStopped DEF Step
    <2> QED BY <1>8, <2>2 DEF Step
  <1>9. CASE PauseMarkPending
    BY <1>9 DEF PauseMarkPending
  <1>10. CASE PauseRequest
    BY <1>10 DEF PauseRequest
  <1>11. CASE Disconnect
    BY <1>11 DEF Disconnect
  <1>12. CASE DisconnectNotify
    BY <1>12 DEF DisconnectNotify, NotifyAll
  <1>13. CASE DisconnectStop
    BY <1>13 DEF DisconnectStop
  <1>14. CASE DisconnectJoin
    BY <1>14 DEF DisconnectJoin
  <1>15. CASE EmitNext
    BY <1>15 DEF EmitNext
  <1>16. CASE acknowledgeRequest
    BY <1>16 DEF acknowledgeRequest, Acknowledges
  <1>17. CASE AcknowledgeNotify
    BY <1>17 DEF AcknowledgeNotify, NotifyAll
  <1>18. CASE startPendingExecution
    BY <1>18 DEF startPendingExecution
  <1>19. CASE Destroy
    BY <1>19 DEF Destroy
  <1>20. CASE DestroyNotify
    BY <1>20 DEF DestroyNotify, NotifyAll
  <1>21. CASE DestroyStop
    BY <1>21 DEF DestroyStop
  <1>22. CASE DestroyJoin
    BY <1>22 DEF DestroyJoin
  <1> QED
    BY <1>1, <1>2, <1>3, <1>4, <1>5, <1>6, <1>7, <1>8, <1>9, <1>10, <1>11,
       <1>12, <1>13, <1>14, <1>15, <1>16, <1>17, <1>18, <1>19, <1>20,
       <1>21, <1>22 DEF Reader

LEMMA ExecutorControl ==
    TypeOK /\ ControlInv /\ (Executor \/ SpuriousWakeup) => ControlInv'
  <1> SUFFICES ASSUME TypeOK, ControlInv, Executor \/ SpuriousWakeup
               PROVE ControlInv'
    OBVIOUS
  <1> USE DEF ControlInv, RunningHasAThread, PendingOnlyDuringPause,
              PauseWindow, InRun, atomics, vm, requests, reader, ExecAt, ExecTo
  <1>1. CASE RunStart
    BY <1>1 DEF RunStart
  <1>2. CASE RunLoop
    BY <1>2 DEF RunLoop, TypeOK, VMStates
  <1>3. CASE PollPause
    BY <1>3 DEF PollPause
  <1>4. CASE BreakpointHit
    BY <1>4 DEF BreakpointHit
  <1>5. CASE ExecuteInstruction
    BY <1>5 DEF ExecuteInstruction
  <1>6. CASE CheckDisconnect
    BY <1>6 DEF CheckDisconnect
  <1>7. CASE syncSessionStateFromVm
    <2>1. sessionState' # "Running"
      BY <1>7, SyncedStopped DEF syncSessionStateFromVm
    <2> QED BY <1>7, <2>1 DEF syncSessionStateFromVm
  <1>8. CASE stopOrTerminateEvent
    BY <1>8 DEF stopOrTerminateEvent
  <1>9. CASE waitForPauseResponse
    BY <1>9 DEF waitForPauseResponse
  <1>10. CASE Sleep
    BY <1>10 DEF Sleep
  <1>11. CASE EmitStop
    BY <1>11 DEF EmitStop
  <1>12. CASE SpuriousWakeup
    BY <1>12 DEF SpuriousWakeup
  <1> QED
    BY <1>1, <1>2, <1>3, <1>4, <1>5, <1>6, <1>7, <1>8, <1>9, <1>10, <1>11,
       <1>12 DEF Executor

(* The control structure of both threads holds in every reachable state.   *)
THEOREM ControlCorrect == Spec => []ControlInv
  <1>1. Init => ControlInv
    BY InitControl
  <1>2. TypeOK /\ ControlInv /\ [Next]_vars => ControlInv'
    <2> SUFFICES ASSUME TypeOK, ControlInv, [Next]_vars PROVE ControlInv'
      OBVIOUS
    <2>1. CASE Next
      BY <2>1, ClientControl, ReaderControl, ExecutorControl DEF Next
    <2>2. CASE UNCHANGED vars
      BY <2>2 DEF ControlInv, RunningHasAThread, PendingOnlyDuringPause, vars,
                  atomics, vm, requests, reader, exec
    <2> QED BY <2>1, <2>2
  <1> QED BY <1>1, <1>2, TypeCorrect, PTL DEF Spec

(* The reader inspects or reconfigures the VM only outside its runs.       *)
THEOREM NoAccess == Spec => []NoAccessDuringRun
  <1>1. ControlInv => NoAccessDuringRun
    BY DEF ControlInv, NoAccessDuringRun
  <1> QED BY <1>1, ControlCorrect, PTL
-----------------------------------------------------------------------------
(***************************************************************************)
(* HolderInv: who holds an event that is not written yet.                  *)
(***************************************************************************)
LEMMA OutboxKept ==
    UNCHANGED outbox =>
        /\ OutboxHolds(LifecycleNames)' <=> OutboxHolds(LifecycleNames)
        /\ OutboxHolds({"terminated"})' <=> OutboxHolds({"terminated"})
  BY DEF OutboxHolds, IsEvent, LifecycleNames

LEMMA OutboxEmpty ==
    outbox = <<>> => /\ ~OutboxHolds(LifecycleNames)
                     /\ ~OutboxHolds({"terminated"})
  BY DEF OutboxHolds

(* A response alone, or a response and one event.                          *)
LEMMA OutboxResponse ==
    ASSUME NEW ok, outbox' = <<Response(ok)>>
    PROVE  /\ outbox' # <<>> /\ Len(outbox') = 1
           /\ ~OutboxHolds(LifecycleNames)' /\ ~OutboxHolds({"terminated"})'
  BY DEF OutboxHolds, IsEvent, Response

LEMMA OutboxWithEvent ==
    ASSUME NEW ok, NEW ev, outbox' = <<Response(ok), ev>>
    PROVE  /\ outbox' # <<>> /\ Len(outbox') = 2
           /\ ~LifecycleEvent(outbox[1])'
           /\ OutboxHolds({"terminated"})' => IsEvent(ev, {"terminated"})
  BY DEF OutboxHolds, IsEvent, Response, LifecycleEvent

LEMMA ShortSequence ==
    ASSUME NEW S, NEW s \in Seq(S), s # <<>>, Len(s) <= 2
    PROVE  Len(s) \in {1, 2}
  <1>1. Len(s) \in Nat \ {0}
    BY EmptySeq, Zenon
  <1>2. \A n \in Nat \ {0} : n <= 2 => n \in {1, 2}
    OBVIOUS
  <1> QED BY <1>1, <1>2, Zenon

LEMMA ShortTail ==
    ASSUME NEW S, NEW s \in Seq(S), Len(s) \in {1, 2}
    PROVE  /\ Len(Tail(s)) = Len(s) - 1
           /\ Tail(s) = <<>> <=> Len(s) = 1
           /\ \A i \in 1..Len(Tail(s)) : Tail(s)[i] = s[i + 1]
  <1>1. s # <<>>
    <2> SUFFICES ASSUME s = <<>> PROVE FALSE
      OBVIOUS
    <2>1. Len(s) = 0
      BY EmptySeq, Zenon
    <2> QED BY <2>1
  <1>2. /\ Tail(s) \in Seq(S) /\ Len(Tail(s)) = Len(s) - 1
        /\ \A i \in 1..Len(Tail(s)) : Tail(s)[i] = s[i + 1]
    BY <1>1, HeadTailProperties
  <1>3. Tail(s) = <<>> <=> Len(Tail(s)) = 0
    BY <1>2, EmptySeq
  <1> QED BY <1>2, <1>3

(* Writing the head of the outbox.                                         *)
LEMMA OutboxTail ==
    ASSUME TypeOK, HolderInv, outbox # <<>>, outbox' = Tail(outbox)
    PROVE  /\ Len(outbox') = Len(outbox) - 1
           /\ outbox' = <<>> <=> Len(outbox) = 1
           /\ OutboxHolds(LifecycleNames)' => OutboxHolds(LifecycleNames)
           /\ OutboxHolds({"terminated"})' => OutboxHolds({"terminated"})
           /\ LifecycleEvent(Head(outbox)) => outbox' = <<>>
           /\ LifecycleEvent(Head(outbox)) => OutboxHolds(LifecycleNames)
           /\ IsEvent(Head(outbox), {"terminated"}) => OutboxHolds({"terminated"})
  <1>1. outbox \in Seq(Message) /\ Len(outbox) \in {1, 2}
    BY ShortSequence, Zenon DEF TypeOK, HolderInv
  <1>2. /\ Len(outbox') = Len(outbox) - 1
        /\ outbox' = <<>> <=> Len(outbox) = 1
        /\ \A i \in 1..Len(outbox') : outbox'[i] = outbox[i + 1]
    BY <1>1, ShortTail
  <1>3. Head(outbox) = outbox[1] /\ 1 \in 1..Len(outbox)
    BY <1>1
  <1>4. /\ OutboxHolds(LifecycleNames)' => OutboxHolds(LifecycleNames)
        /\ OutboxHolds({"terminated"})' => OutboxHolds({"terminated"})
    BY <1>1, <1>2 DEF OutboxHolds, IsEvent, LifecycleNames
  <1>5. LifecycleEvent(Head(outbox)) => outbox' = <<>>
    BY <1>1, <1>2, <1>3 DEF HolderInv
  <1>6. /\ LifecycleEvent(Head(outbox)) => OutboxHolds(LifecycleNames)
        /\ IsEvent(Head(outbox), {"terminated"}) => OutboxHolds({"terminated"})
    BY <1>3 DEF OutboxHolds, LifecycleEvent
  <1> QED BY <1>2, <1>4, <1>5, <1>6

LEMMA NoEventIsNoEvent ==
    ~IsEvent(NoEvent, {"terminated"}) /\ ~LifecycleEvent(NoEvent)
  BY DEF NoEvent, IsEvent, LifecycleEvent

LEMMA InitHolder == Init => HolderInv
  <1> SUFFICES ASSUME Init PROVE HolderInv
    OBVIOUS
  <1>1. outbox = <<>> /\ Len(outbox) = 0 /\ execEvent = NoEvent
    BY DEF Init
  <1> QED BY <1>1, OutboxEmpty, NoEventIsNoEvent DEF Init, HolderInv

LEMMA ClientHolder ==
    TypeOK /\ HolderInv /\ (Client \/ Exited) => HolderInv'
  <1> SUFFICES ASSUME HolderInv, Client \/ Exited PROVE HolderInv'
    OBVIOUS
  <1> USE OutboxKept
      DEF HolderInv, atomics, vm, requests, exec, ReaderAt, ReaderTo
  <1>1. CASE ReadMalformed
    BY <1>1 DEF ReadMalformed, IsEvent, LifecycleEvent
  <1>2. CASE EndOfInput
    BY <1>2 DEF EndOfInput, IsEvent, LifecycleEvent
  <1>3. ASSUME NEW c \in Commands, ReadRequest(c) PROVE HolderInv'
    BY <1>3 DEF ReadRequest, IsEvent, LifecycleEvent
  <1>4. CASE Exited
    BY <1>4 DEF Exited, vars, reader, IsEvent, LifecycleEvent
  <1> QED BY <1>1, <1>2, <1>3, <1>4 DEF Client

LEMMA ReaderHolder ==
    TypeOK /\ ControlInv /\ HolderInv /\ Reader => HolderInv'
  <1> SUFFICES ASSUME TypeOK, ControlInv, HolderInv, Reader PROVE HolderInv'
    OBVIOUS
  <1> USE OutboxKept
      DEF HolderInv, atomics, vm, requests, exec, ReaderAt, ReaderTo,
          IsEvent, LifecycleEvent, Publishing
  <1>1. CASE InitializeSession
    BY <1>1 DEF InitializeSession
  <1>2. CASE InitializeFails
    BY <1>2 DEF InitializeFails
  <1>3. CASE Refuse
    <2>1. outbox' # <<>> /\ Len(outbox') = 1
          /\ ~OutboxHolds(LifecycleNames)' /\ ~OutboxHolds({"terminated"})'
      BY <1>3, OutboxResponse, Zenon DEF Refuse
    <2> QED BY <1>3, <2>1 DEF Refuse
  <1>4. CASE Accept
    BY <1>4 DEF Accept
  <1>5. CASE Inspect
    <2>1. outbox' # <<>> /\ Len(outbox') = 1
          /\ ~OutboxHolds(LifecycleNames)' /\ ~OutboxHolds({"terminated"})'
      BY <1>5, OutboxResponse, Zenon DEF Inspect
    <2> QED BY <1>5, <2>1 DEF Inspect
  <1>6. CASE SetBreakpoints
    <2>1. outbox' # <<>> /\ Len(outbox') = 1
          /\ ~OutboxHolds(LifecycleNames)' /\ ~OutboxHolds({"terminated"})'
      BY <1>6, OutboxResponse, Zenon DEF SetBreakpoints
    <2> QED BY <1>6, <2>1 DEF SetBreakpoints
  <1>7. CASE Continue
    <2> DEFINE ev == EventOf(run + 1, "continued", "none", 0)
    <2>1. ~IsEvent(ev, {"terminated"})
      BY DEF EventOf
    <2>2. outbox' # <<>> /\ Len(outbox') = 2
          /\ ~LifecycleEvent(outbox[1])' /\ ~OutboxHolds({"terminated"})'
      BY <1>7, <2>1, OutboxWithEvent, Zenon DEF Continue
    <2>3. ~terminatedEventSent
      BY <1>7 DEF Continue, ControlInv
    <2>4. execEvent = NoEvent
      BY <1>7 DEF Continue, Joined
    <2>5. /\ rpc' = "emit" /\ epc' = "none"
          /\ UNCHANGED <<terminatedEventSent, execEvent>>
      BY <1>7, Zenon DEF Continue
    <2> QED BY <2>2, <2>3, <2>4, <2>5, NoEventIsNoEvent
  <1>8. CASE Step
    <2> DEFINE ev == StopOrTerminateEvent(run + 1, vmState', lastEvent', "step", 0)
    <2>1. ~terminatedEventSent
      BY <1>8 DEF Step, ControlInv
    <2>2. vmState' \in {"PAUSED", "FINISHED", "ERROR"}
      BY <1>8 DEF Step, StepOutcome
    <2>3. IsEvent(ev, {"terminated"}) => vmState' = "FINISHED"
      BY DEF StopOrTerminateEvent, EventOf
    <2>4. /\ terminatedEventSent' <=> vmState' = "FINISHED"
          /\ terminatedEventSent' => sessionState' = "Finished"
      BY <1>8, <2>1, <2>2, SyncedStopped DEF Step, ClaimIfFinished
    <2>5. execEvent = NoEvent
      BY <1>8 DEF Step, Joined
    <2>8. rpc' = "emit" /\ epc' = "none" /\ UNCHANGED execEvent
      BY <1>8, Zenon DEF Step
    <2>6. CASE ev = NoEvent
      <3>1. outbox' # <<>> /\ Len(outbox') = 1
            /\ ~OutboxHolds(LifecycleNames)' /\ ~OutboxHolds({"terminated"})'
        BY <1>8, <2>6, OutboxResponse, Zenon DEF Step, WithEvent
      <3> QED BY <2>4, <2>5, <2>8, <3>1, NoEventIsNoEvent
    <2>7. CASE ev # NoEvent
      <3>1. outbox' # <<>> /\ Len(outbox') = 2 /\ ~LifecycleEvent(outbox[1])'
            /\ (OutboxHolds({"terminated"})' => IsEvent(ev, {"terminated"}))
        BY <1>8, <2>7, OutboxWithEvent, Zenon DEF Step, WithEvent
      <3> QED BY <2>3, <2>4, <2>5, <2>8, <3>1, NoEventIsNoEvent
    <2> QED BY <2>6, <2>7
  <1>9. CASE PauseMarkPending
    BY <1>9 DEF PauseMarkPending
  <1>10. CASE PauseRequest
    <2>1. outbox' # <<>> /\ Len(outbox') = 1
          /\ ~OutboxHolds(LifecycleNames)' /\ ~OutboxHolds({"terminated"})'
      BY <1>10, OutboxResponse, Zenon DEF PauseRequest
    <2> QED BY <1>10, <2>1 DEF PauseRequest
  <1>11. CASE Disconnect
    BY <1>11 DEF Disconnect
  <1>12. CASE DisconnectNotify
    BY <1>12 DEF DisconnectNotify, NotifyAll
  <1>13. CASE DisconnectStop
    BY <1>13 DEF DisconnectStop
  <1>14. CASE DisconnectJoin
    <2> DEFINE ev == IF terminatedEventSent THEN NoEvent
                     ELSE Event("terminated", "none", 0)
    <2>1. execEvent = NoEvent
      BY <1>14 DEF DisconnectJoin, Joined
    <2>4. /\ rpc' = "emit" /\ epc' = "none" /\ UNCHANGED execEvent
          /\ sessionState' = "Terminated" /\ terminatedEventSent'
      BY <1>14, Zenon DEF DisconnectJoin
    <2>2. CASE ev = NoEvent
      <3>1. outbox' # <<>> /\ Len(outbox') = 1
            /\ ~OutboxHolds(LifecycleNames)' /\ ~OutboxHolds({"terminated"})'
        BY <1>14, <2>2, OutboxResponse, Zenon DEF DisconnectJoin, WithEvent
      <3> QED BY <2>1, <2>4, <3>1, NoEventIsNoEvent
    <2>3. CASE ev # NoEvent
      <3>1. outbox' # <<>> /\ Len(outbox') = 2 /\ ~LifecycleEvent(outbox[1])'
        BY <1>14, <2>3, OutboxWithEvent, Zenon DEF DisconnectJoin, WithEvent
      <3> QED BY <2>1, <2>4, <3>1, NoEventIsNoEvent
    <2> QED BY <2>2, <2>3
  <1>15. CASE EmitNext
    <2>1. Len(outbox') = Len(outbox) - 1 /\ (outbox' = <<>> <=> Len(outbox) = 1)
          /\ (OutboxHolds(LifecycleNames)' => OutboxHolds(LifecycleNames))
          /\ (OutboxHolds({"terminated"})' => OutboxHolds({"terminated"}))
      BY <1>15, OutboxTail DEF EmitNext
    <2>2. Len(outbox) \in Nat /\ Len(outbox') <= 1
      BY <2>1 DEF TypeOK
    <2>3. /\ rpc' = "emit" <=> Len(outbox) # 1
          /\ UNCHANGED <<terminatedEventSent, epc, execEvent, sessionState>>
      BY <1>15 DEF EmitNext
    <2>4. rpc' = "emit" <=> outbox' # <<>>
      BY <2>1, <2>3
    <2>5. Len(outbox') <= 2 /\ Len(outbox') # 2
      BY <2>1, <2>2
    <2> QED BY <2>1, <2>3, <2>4, <2>5, Zenon
  <1>16. CASE acknowledgeRequest
    BY <1>16 DEF acknowledgeRequest
  <1>17. CASE AcknowledgeNotify
    BY <1>17 DEF AcknowledgeNotify, NotifyAll
  <1>18. CASE startPendingExecution
    <2>1. outbox = <<>>
      BY <1>18 DEF startPendingExecution
    <2> QED BY <1>18, <2>1, OutboxEmpty DEF startPendingExecution, Joined
  <1>19. CASE Destroy
    BY <1>19 DEF Destroy
  <1>20. CASE DestroyNotify
    BY <1>20 DEF DestroyNotify, NotifyAll
  <1>21. CASE DestroyStop
    BY <1>21 DEF DestroyStop
  <1>22. CASE DestroyJoin
    BY <1>22 DEF DestroyJoin, Joined
  <1> QED
    BY <1>1, <1>2, <1>3, <1>4, <1>5, <1>6, <1>7, <1>8, <1>9, <1>10, <1>11,
       <1>12, <1>13, <1>14, <1>15, <1>16, <1>17, <1>18, <1>19, <1>20,
       <1>21, <1>22 DEF Reader

LEMMA ExecutorHolder ==
    TypeOK /\ ControlInv /\ HolderInv /\ (Executor \/ SpuriousWakeup)
        => HolderInv'
  <1> SUFFICES ASSUME TypeOK, ControlInv, HolderInv, Executor \/ SpuriousWakeup
               PROVE HolderInv'
    OBVIOUS
  <1> USE OutboxKept
      DEF HolderInv, atomics, vm, requests, reader, ExecAt, ExecTo,
          IsEvent, LifecycleEvent, Publishing
  <1>1. CASE RunStart
    BY <1>1 DEF RunStart
  <1>2. CASE RunLoop
    BY <1>2 DEF RunLoop
  <1>3. CASE PollPause
    BY <1>3 DEF PollPause
  <1>4. CASE BreakpointHit
    BY <1>4 DEF BreakpointHit
  <1>5. CASE ExecuteInstruction
    BY <1>5 DEF ExecuteInstruction
  <1>6. CASE CheckDisconnect
    BY <1>6 DEF CheckDisconnect
  <1>7. CASE syncSessionStateFromVm
    <2>1. ~terminatedEventSent
      BY <1>7 DEF syncSessionStateFromVm, ControlInv
    <2> QED BY <1>7, <2>1 DEF syncSessionStateFromVm
  <1>8. CASE stopOrTerminateEvent
    <2>1. IsEvent(execEvent', {"terminated"}) => vmState = "FINISHED"
      BY <1>8 DEF stopOrTerminateEvent, StopOrTerminateEvent, EventOf, NoEvent
    <2>2. vmState = "FINISHED" => sessionState = "Finished"
      BY <1>8 DEF stopOrTerminateEvent, ControlInv, SyncedState
    <2>3. ~OutboxHolds(LifecycleNames)
      BY <1>8 DEF stopOrTerminateEvent
    <2>4. execEvent' = NoEvent \/ epc' = "waitResponse"
      BY <1>8 DEF stopOrTerminateEvent
    <2>5. terminatedEventSent' <=> terminatedEventSent \/ vmState = "FINISHED"
      BY <1>8 DEF stopOrTerminateEvent, ClaimIfFinished
    <2> QED
      BY <1>8, <2>1, <2>2, <2>3, <2>4, <2>5 DEF stopOrTerminateEvent
  <1>9. CASE waitForPauseResponse
    BY <1>9 DEF waitForPauseResponse
  <1>10. CASE Sleep
    BY <1>10 DEF Sleep
  <1>11. CASE EmitStop
    BY <1>11, NoEventIsNoEvent DEF EmitStop
  <1>12. CASE SpuriousWakeup
    BY <1>12 DEF SpuriousWakeup
  <1> QED
    BY <1>1, <1>2, <1>3, <1>4, <1>5, <1>6, <1>7, <1>8, <1>9, <1>10, <1>11,
       <1>12 DEF Executor

LEMMA HolderStep ==
    TypeOK /\ ControlInv /\ HolderInv /\ [Next]_vars => HolderInv'
  <1> SUFFICES ASSUME TypeOK, ControlInv, HolderInv, [Next]_vars
               PROVE HolderInv'
    OBVIOUS
  <1>1. CASE Next
    BY <1>1, ClientHolder, ReaderHolder, ExecutorHolder DEF Next
  <1>2. CASE UNCHANGED vars
    BY <1>2, OutboxKept DEF HolderInv, IsEvent, LifecycleEvent, vars, atomics,
       vm, requests, reader, exec
  <1> QED BY <1>1, <1>2
-----------------------------------------------------------------------------
(***************************************************************************)
(* WrittenInv and TerminatedIsFinal: what follows once "terminated" is out.*)
(***************************************************************************)
LEMMA OutKept ==
    UNCHANGED out => /\ TerminatedWritten' <=> TerminatedWritten
                     /\ TerminatedIsFinal => TerminatedIsFinal'
  BY DEF TerminatedWritten, TerminatedIsFinal, IsEvent, LifecycleEvent

LEMMA AppendElements ==
    ASSUME NEW S, NEW s \in Seq(S), NEW m \in S
    PROVE  /\ Len(Append(s, m)) = Len(s) + 1 /\ Len(s) \in Nat
           /\ \A i \in 1..Len(s) : Append(s, m)[i] = s[i]
           /\ Append(s, m)[Len(s) + 1] = m
  BY AppendProperties, LenProperties

LEMMA OutAppended ==
    ASSUME out \in Seq(Message), NEW m \in Message, out' = Append(out, m)
    PROVE  /\ TerminatedWritten'
                  <=> TerminatedWritten \/ IsEvent(m, {"terminated"})
           /\ TerminatedIsFinal /\ (LifecycleEvent(m) => ~TerminatedWritten)
                  => TerminatedIsFinal'
  <1>1. /\ Len(out') = Len(out) + 1 /\ Len(out) \in Nat
        /\ \A i \in 1..Len(out) : out'[i] = out[i]
        /\ out'[Len(out) + 1] = m
    BY AppendElements, Zenon
  <1>2. TerminatedWritten' <=> TerminatedWritten \/ IsEvent(m, {"terminated"})
    BY <1>1 DEF TerminatedWritten, IsEvent
  <1>3. ASSUME TerminatedIsFinal, LifecycleEvent(m) => ~TerminatedWritten
        PROVE  TerminatedIsFinal'
    <2> SUFFICES ASSUME NEW i \in 1..Len(out'), NEW j \in 1..Len(out'), i < j,
                        IsEvent(out'[i], {"terminated"})
                 PROVE  ~LifecycleEvent(out'[j])
      BY DEF TerminatedIsFinal, IsEvent, LifecycleEvent
    <2>1. i \in 1..Len(out) /\ out'[i] = out[i]
      BY <1>1
    <2>2. TerminatedWritten
      BY <2>1 DEF TerminatedWritten
    <2>3. CASE j \in 1..Len(out)
      BY <1>1, <1>3, <2>1, <2>3 DEF TerminatedIsFinal
    <2>4. CASE j = Len(out) + 1
      BY <1>1, <1>3, <2>2, <2>4
    <2> QED BY <1>1, <2>3, <2>4
  <1> QED BY <1>2, <1>3

LEMMA InitWritten == Init => WrittenInv /\ TerminatedIsFinal
  BY DEF Init, WrittenInv, TerminatedIsFinal, TerminatedWritten

(* The steps that write to stdout.                                         *)
LEMMA WritersOfOut ==
    [Next]_vars => \/ UNCHANGED out \/ InitializeSession \/ InitializeFails
                   \/ ReadMalformed \/ EmitNext \/ EmitStop
  <1>1. Client => ReadMalformed \/ UNCHANGED out
    BY Zenon DEF Client, EndOfInput, ReadRequest
  <1>2. Reader => \/ InitializeSession \/ InitializeFails \/ EmitNext
                  \/ UNCHANGED out
    BY Zenon DEF Reader, Refuse, Accept, Inspect, SetBreakpoints, Continue,
       Step, PauseMarkPending, PauseRequest, Disconnect, DisconnectNotify,
       DisconnectStop, DisconnectJoin, acknowledgeRequest, AcknowledgeNotify,
       startPendingExecution, Destroy, DestroyNotify, DestroyStop, DestroyJoin
  <1>3. Executor \/ SpuriousWakeup => EmitStop \/ UNCHANGED out
    BY Zenon DEF Executor, SpuriousWakeup, RunStart, RunLoop, PollPause,
       BreakpointHit, ExecuteInstruction, CheckDisconnect,
       syncSessionStateFromVm, stopOrTerminateEvent, waitForPauseResponse,
       Sleep
  <1> QED BY <1>1, <1>2, <1>3, Zenon DEF Next, Exited, vars

(* No step writes a second "terminated", or another such event after it.   *)
LEMMA FinalStep ==
    TypeOK /\ HolderInv /\ WrittenInv /\ TerminatedIsFinal /\ [Next]_vars
        => TerminatedIsFinal'
  <1> SUFFICES ASSUME TypeOK, HolderInv, WrittenInv, TerminatedIsFinal,
                      [Next]_vars
               PROVE  TerminatedIsFinal'
    OBVIOUS
  <1>1. out \in Seq(Message)
    BY DEF TypeOK
  <1>2. CASE UNCHANGED out
    BY <1>2, OutKept
  <1>3. CASE InitializeSession
    <2>1. ~TerminatedWritten
      BY <1>3 DEF InitializeSession, ReaderAt, WrittenInv
    <2>2. /\ Event("ready", "none", 0) \in Message
          /\ out' = Append(out, Event("ready", "none", 0))
      BY <1>3, EventType DEF InitializeSession, Emit, Event, TypeOK
    <2> QED BY <1>1, <2>1, <2>2, OutAppended
  <1>4. CASE InitializeFails
    <2> DEFINE e1 == Event("error", "none", 0)
               e2 == Event("terminated", "none", 0)
    <2>1. ~TerminatedWritten
      BY <1>4 DEF InitializeFails, ReaderAt, WrittenInv
    <2>2. e1 \in Message /\ e2 \in Message /\ out' = Append(Append(out, e1), e2)
      BY <1>4, EventType DEF InitializeFails, Event, TypeOK
    <2>3. ~IsEvent(e1, {"terminated"})
      BY DEF IsEvent, Event, EventOf
    <2> HIDE DEF e1, e2
    <2>4. /\ Len(Append(out, e1)) = Len(out) + 1 /\ Len(out) \in Nat
          /\ \A i \in 1..Len(out) : Append(out, e1)[i] = out[i]
          /\ Append(out, e1)[Len(out) + 1] = e1
      BY <1>1, <2>2, AppendElements, Zenon
    <2>8. Append(out, e1) \in Seq(Message)
      BY <1>1, <2>2
    <2>5. /\ Len(out') = Len(Append(out, e1)) + 1
          /\ \A i \in 1..Len(Append(out, e1)) : out'[i] = Append(out, e1)[i]
      BY <2>2, <2>8, AppendElements, Zenon
    <2>6. \A i \in 1..Len(out) + 1 : ~IsEvent(out'[i], {"terminated"})
      <3>1. \A i \in 1..Len(out) : ~IsEvent(out'[i], {"terminated"})
        BY <2>1, <2>4, <2>5 DEF TerminatedWritten
      <3>2. out'[Len(out) + 1] = e1
        BY <2>4, <2>5
      <3> QED BY <2>3, <2>4, <3>1, <3>2
    <2>7. Len(out') = Len(out) + 2
      BY <2>4, <2>5
    <2> QED BY <2>4, <2>6, <2>7 DEF TerminatedIsFinal, IsEvent, LifecycleEvent
  <1>5. CASE ReadMalformed
    <2>1. ~LifecycleEvent(Event("error", "none", 0))
      BY DEF LifecycleEvent, LifecycleNames, IsEvent, Event, EventOf
    <2>2. /\ Event("error", "none", 0) \in Message
          /\ out' = Append(out, Event("error", "none", 0))
      BY <1>5, EventType DEF ReadMalformed, Emit, Event, TypeOK
    <2> QED BY <1>1, <2>1, <2>2, OutAppended
  <1>6. CASE EmitNext
    <2>1. outbox # <<>> /\ outbox' = Tail(outbox) /\ out' = Append(out, Head(outbox))
      BY <1>6 DEF EmitNext, Emit
    <2>2. Head(outbox) \in Message
      BY <2>1, HeadTailProperties, Zenon DEF TypeOK
    <2>3. LifecycleEvent(Head(outbox)) => ~TerminatedWritten
      BY <2>1, OutboxTail DEF WrittenInv
    <2> QED BY <1>1, <2>1, <2>2, <2>3, OutAppended
  <1>7. CASE EmitStop
    <2>1. execEvent \in Message /\ out' = Append(out, execEvent)
      BY <1>7 DEF EmitStop, Emit, TypeOK
    <2>2. LifecycleEvent(execEvent) => ~TerminatedWritten
      BY NoEventIsNoEvent DEF WrittenInv
    <2> QED BY <1>1, <2>1, <2>2, OutAppended
  <1> QED BY <1>2, <1>3, <1>4, <1>5, <1>6, <1>7, WritersOfOut

(* The steps that put "terminated" on stdout.                              *)
LEMMA WhoWrites ==
    TypeOK /\ [Next]_vars /\ TerminatedWritten' /\ ~TerminatedWritten =>
        \/ InitializeFails
        \/ EmitNext /\ IsEvent(Head(outbox), {"terminated"})
        \/ EmitStop /\ IsEvent(execEvent, {"terminated"})
  <1> SUFFICES ASSUME TypeOK, [Next]_vars, TerminatedWritten',
                      ~TerminatedWritten, ~InitializeFails
               PROVE  \/ EmitNext /\ IsEvent(Head(outbox), {"terminated"})
                      \/ EmitStop /\ IsEvent(execEvent, {"terminated"})
    OBVIOUS
  <1>1. out \in Seq(Message)
    BY DEF TypeOK
  <1>2. ~UNCHANGED out
    BY OutKept
  <1>3. ~InitializeSession
    <2> SUFFICES ASSUME InitializeSession PROVE FALSE
      OBVIOUS
    <2>1. /\ Event("ready", "none", 0) \in Message
          /\ out' = Append(out, Event("ready", "none", 0))
      BY EventType DEF InitializeSession, Emit, Event, TypeOK
    <2>2. ~IsEvent(Event("ready", "none", 0), {"terminated"})
      BY DEF IsEvent, Event, EventOf
    <2> QED BY <1>1, <2>1, <2>2, OutAppended
  <1>4. ~ReadMalformed
    <2> SUFFICES ASSUME ReadMalformed PROVE FALSE
      OBVIOUS
    <2>1. /\ Event("error", "none", 0) \in Message
          /\ out' = Append(out, Event("error", "none", 0))
      BY EventType DEF ReadMalformed, Emit, Event, TypeOK
    <2>2. ~IsEvent(Event("error", "none", 0), {"terminated"})
      BY DEF IsEvent, Event, EventOf
    <2> QED BY <1>1, <2>1, <2>2, OutAppended
  <1>5. EmitNext => IsEvent(Head(outbox), {"terminated"})
    <2> SUFFICES ASSUME EmitNext PROVE IsEvent(Head(outbox), {"terminated"})
      OBVIOUS
    <2>1. outbox # <<>> /\ out' = Append(out, Head(outbox))
      BY DEF EmitNext, Emit
    <2>2. Head(outbox) \in Message
      BY <2>1, HeadTailProperties, Zenon DEF TypeOK
    <2> QED BY <1>1, <2>1, <2>2, OutAppended
  <1>6. EmitStop => IsEvent(execEvent, {"terminated"})
    BY <1>1, OutAppended DEF EmitStop, Emit, TypeOK
  <1> QED BY <1>2, <1>3, <1>4, <1>5, <1>6, WritersOfOut

(* The step that writes it leaves nobody with such an event.               *)
LEMMA WrittenFirst ==
    TypeOK /\ ControlInv /\ HolderInv /\ ~TerminatedWritten /\ [Next]_vars
        => WrittenInv'
  <1> SUFFICES ASSUME TypeOK, ControlInv, HolderInv, ~TerminatedWritten,
                      [Next]_vars, TerminatedWritten'
               PROVE  WrittenInv'
    BY DEF WrittenInv
  <1>1. CASE InitializeFails
    <2>1. epc = "none" /\ rpc = "initialize"
      BY <1>1 DEF InitializeFails, ReaderAt, ControlInv
    <2>2. outbox = <<>> /\ execEvent = NoEvent
      BY <2>1 DEF HolderInv, Publishing
    <2>3. rpc' = "destroy" /\ UNCHANGED <<epc, outbox, execEvent>>
      BY <1>1 DEF InitializeFails, ReaderTo, exec
    <2>4. ~OutboxHolds(LifecycleNames)'
      BY <2>2, <2>3, OutboxEmpty, OutboxKept
    <2> QED BY <2>1, <2>2, <2>3, <2>4 DEF WrittenInv, DestroyLabels
  <1>2. CASE EmitNext /\ IsEvent(Head(outbox), {"terminated"})
    <2>1. rpc = "emit" /\ outbox # <<>> /\ outbox' = Tail(outbox)
      BY <1>2 DEF EmitNext, ReaderAt
    <2>2. LifecycleEvent(Head(outbox))
      BY <1>2 DEF LifecycleEvent, LifecycleNames, IsEvent
    <2>3. /\ outbox' = <<>> /\ OutboxHolds(LifecycleNames)
          /\ OutboxHolds({"terminated"}) /\ Len(outbox) = 1
      BY <1>2, <2>1, <2>2, OutboxTail
    <2>4. terminatedEventSent /\ execEvent = NoEvent
      BY <2>3 DEF HolderInv, Publishing
    <2>5. rpc' = "acknowledge" /\ UNCHANGED <<terminatedEventSent, execEvent>>
      BY <1>2, <2>3, Zenon DEF EmitNext, ReaderTo, atomics, exec
    <2>6. ~OutboxHolds(LifecycleNames)'
      BY <2>3 DEF OutboxHolds
    <2> QED BY <2>4, <2>5, <2>6 DEF WrittenInv
  <1>3. CASE EmitStop /\ IsEvent(execEvent, {"terminated"})
    <2>1. epc = "emit" /\ execEvent' = NoEvent
          /\ UNCHANGED <<rpc, outbox, terminatedEventSent>>
      BY <1>3 DEF EmitStop, ExecAt, reader, atomics
    <2>2. terminatedEventSent /\ ~OutboxHolds(LifecycleNames)
      BY <1>3, <2>1 DEF HolderInv
    <2>3. rpc # "initialize"
      BY <2>1 DEF ControlInv
    <2> QED BY <2>1, <2>2, <2>3, OutboxKept DEF WrittenInv
  <1> QED BY <1>1, <1>2, <1>3, WhoWrites

(* Afterwards nobody takes hold of such an event again.                    *)
LEMMA WrittenOnReader ==
    TypeOK /\ ControlInv /\ HolderInv /\ WrittenInv /\ TerminatedWritten
        /\ (Client \/ Exited \/ Reader) => WrittenInv'
  <1> SUFFICES ASSUME TypeOK, ControlInv, HolderInv, WrittenInv,
                      TerminatedWritten, Client \/ Exited \/ Reader
               PROVE  WrittenInv'
    OBVIOUS
  <1>1. /\ rpc # "initialize" /\ execEvent = NoEvent
        /\ ~OutboxHolds(LifecycleNames)
        /\ terminatedEventSent \/ (epc = "none" /\ rpc \in DestroyLabels)
    BY DEF WrittenInv
  <1> USE OutboxKept
      DEF DestroyLabels, atomics, vm, requests, exec, ReaderAt, ReaderTo
  <1>2. CASE InitializeSession \/ InitializeFails
    BY <1>1, <1>2 DEF InitializeSession, InitializeFails
  <1>3. CASE Refuse
    <2>1. ~OutboxHolds(LifecycleNames)'
      BY <1>3, OutboxResponse, Zenon DEF Refuse
    <2> QED BY <1>1, <1>3, <2>1 DEF Refuse, WrittenInv
  <1>4. CASE Accept
    BY <1>1, <1>4 DEF Accept, WrittenInv
  <1>5. CASE Inspect
    <2>1. ~OutboxHolds(LifecycleNames)'
      BY <1>5, OutboxResponse, Zenon DEF Inspect
    <2> QED BY <1>1, <1>5, <2>1 DEF Inspect, WrittenInv
  <1>6. CASE SetBreakpoints
    <2>1. ~OutboxHolds(LifecycleNames)'
      BY <1>6, OutboxResponse, Zenon DEF SetBreakpoints
    <2> QED BY <1>1, <1>6, <2>1 DEF SetBreakpoints, WrittenInv
  <1>7. CASE Continue \/ Step
    BY <1>1, <1>7 DEF Continue, Step, ControlInv, HolderInv
  <1>9. CASE PauseMarkPending
    BY <1>1, <1>9 DEF PauseMarkPending, WrittenInv
  <1>10. CASE PauseRequest
    <2>1. ~OutboxHolds(LifecycleNames)'
      BY <1>10, OutboxResponse, Zenon DEF PauseRequest
    <2> QED BY <1>1, <1>10, <2>1 DEF PauseRequest, WrittenInv
  <1>11. CASE Disconnect
    BY <1>1, <1>11 DEF Disconnect, WrittenInv
  <1>12. CASE DisconnectNotify
    BY <1>1, <1>12 DEF DisconnectNotify, NotifyAll, WrittenInv
  <1>13. CASE DisconnectStop
    BY <1>1, <1>13 DEF DisconnectStop, WrittenInv
  <1>14. CASE DisconnectJoin
    <2>1. terminatedEventSent
      BY <1>1, <1>14 DEF DisconnectJoin
    <2>2. outbox' = <<Response(TRUE)>>
      BY <1>14, <2>1, Zenon DEF DisconnectJoin, WithEvent
    <2>3. ~OutboxHolds(LifecycleNames)'
      BY <2>2, OutboxResponse, Zenon
    <2>4. rpc' = "emit" /\ UNCHANGED execEvent /\ terminatedEventSent'
      BY <1>14, Zenon DEF DisconnectJoin
    <2> QED BY <1>1, <2>3, <2>4 DEF WrittenInv
  <1>15. CASE EmitNext
    <2>1. /\ rpc = "emit" /\ outbox # <<>> /\ outbox' = Tail(outbox)
          /\ rpc' \in {"emit", "acknowledge"}
          /\ UNCHANGED <<terminatedEventSent, execEvent>>
      BY <1>15 DEF EmitNext
    <2>2. ~OutboxHolds(LifecycleNames)'
      BY <1>1, <2>1, OutboxTail, Zenon
    <2> QED BY <1>1, <2>1, <2>2 DEF WrittenInv
  <1>16. CASE acknowledgeRequest
    BY <1>1, <1>16 DEF acknowledgeRequest, WrittenInv
  <1>17. CASE AcknowledgeNotify
    BY <1>1, <1>17 DEF AcknowledgeNotify, WrittenInv
  <1>18. CASE startPendingExecution
    BY <1>1, <1>18 DEF startPendingExecution, WrittenInv
  <1>19. CASE Destroy
    BY <1>1, <1>19 DEF Destroy, WrittenInv
  <1>20. CASE DestroyNotify
    BY <1>1, <1>20 DEF DestroyNotify, NotifyAll, WrittenInv
  <1>21. CASE DestroyStop
    BY <1>1, <1>21 DEF DestroyStop, WrittenInv
  <1>22. CASE DestroyJoin
    BY <1>1, <1>22 DEF DestroyJoin, WrittenInv
  <1>23. CASE Client
    <2>1. CASE ReadMalformed
      BY <1>1, <2>1 DEF ReadMalformed, WrittenInv
    <2>2. CASE EndOfInput
      BY <1>1, <2>2 DEF EndOfInput, WrittenInv
    <2>3. ASSUME NEW c \in Commands, ReadRequest(c) PROVE WrittenInv'
      BY <1>1, <2>3 DEF ReadRequest, WrittenInv
    <2> QED BY <1>23, <2>1, <2>2, <2>3 DEF Client
  <1>24. CASE Exited
    BY <1>1, <1>24 DEF Exited, vars, reader, WrittenInv
  <1> QED
    BY <1>2, <1>3, <1>4, <1>5, <1>6, <1>7, <1>9, <1>10, <1>11,
       <1>12, <1>13, <1>14, <1>15, <1>16, <1>17, <1>18, <1>19, <1>20,
       <1>21, <1>22, <1>23, <1>24 DEF Reader

LEMMA WrittenOnExecutor ==
    TypeOK /\ ControlInv /\ HolderInv /\ WrittenInv /\ TerminatedWritten
        /\ (Executor \/ SpuriousWakeup) => WrittenInv'
  <1> SUFFICES ASSUME TypeOK, ControlInv, HolderInv, WrittenInv,
                      TerminatedWritten, Executor \/ SpuriousWakeup
               PROVE  WrittenInv'
    OBVIOUS
  <1>1. epc # "none"
    BY Zenon DEF Executor, SpuriousWakeup, RunStart, RunLoop, PollPause,
       BreakpointHit, ExecuteInstruction, CheckDisconnect,
       syncSessionStateFromVm, stopOrTerminateEvent, waitForPauseResponse,
       Sleep, EmitStop, ExecAt
  <1>2. /\ rpc # "initialize" /\ execEvent = NoEvent
        /\ ~OutboxHolds(LifecycleNames) /\ terminatedEventSent
    BY <1>1 DEF WrittenInv
  <1>3. UNCHANGED <<rpc, outbox>>
    BY Zenon DEF Executor, SpuriousWakeup, RunStart, RunLoop, PollPause,
       BreakpointHit, ExecuteInstruction, CheckDisconnect,
       syncSessionStateFromVm, stopOrTerminateEvent, waitForPauseResponse,
       Sleep, EmitStop, reader
  <1>4. CASE stopOrTerminateEvent
    <2>1. vmState = "FINISHED"
      BY <1>2, <1>4 DEF stopOrTerminateEvent, ExecAt, ControlInv, HolderInv,
         SyncedState, TypeOK, VMStates
    <2>2. execEvent' = NoEvent
      BY <1>2, <1>4, <2>1, Zenon DEF stopOrTerminateEvent, StopOrTerminateEvent
    <2>3. terminatedEventSent'
      BY <1>2, <1>4, Zenon DEF stopOrTerminateEvent, ClaimIfFinished
    <2> QED BY <1>2, <1>3, <2>2, <2>3, OutboxKept DEF WrittenInv
  <1>5. CASE EmitStop
    BY <1>2, <1>3, <1>5, OutboxKept DEF EmitStop, atomics, WrittenInv
  <1>6. CASE ~stopOrTerminateEvent /\ ~EmitStop
    <2>1. UNCHANGED <<terminatedEventSent, execEvent>>
      BY <1>6, Zenon DEF Executor, SpuriousWakeup, RunStart, RunLoop, PollPause,
         BreakpointHit, ExecuteInstruction, CheckDisconnect,
         syncSessionStateFromVm, waitForPauseResponse, Sleep, atomics
    <2> QED BY <1>2, <1>3, <2>1, OutboxKept DEF WrittenInv
  <1> QED BY <1>4, <1>5, <1>6

LEMMA WrittenStep ==
    TypeOK /\ ControlInv /\ HolderInv /\ WrittenInv /\ [Next]_vars
        => WrittenInv'
  <1> SUFFICES ASSUME TypeOK, ControlInv, HolderInv, WrittenInv, [Next]_vars
               PROVE  WrittenInv'
    OBVIOUS
  <1>1. CASE ~TerminatedWritten
    BY <1>1, WrittenFirst
  <1>2. CASE TerminatedWritten /\ Next
    BY <1>2, WrittenOnReader, WrittenOnExecutor, Zenon DEF Next
  <1>3. CASE UNCHANGED vars
    BY <1>3, OutboxKept, OutKept
       DEF WrittenInv, vars, atomics, vm, requests, reader, exec
  <1> QED BY <1>1, <1>2, <1>3

(* However a disconnect, a step, the end of a run and the end of the input *)
(* race: "terminated" is written once and is the last event of its kind.   *)
THEOREM TerminatedOnce == Spec => []TerminatedIsFinal
  <1>1. Init => HolderInv /\ WrittenInv /\ TerminatedIsFinal
    BY InitHolder, InitWritten
  <1>2. /\ TypeOK /\ ControlInv
        /\ HolderInv /\ WrittenInv /\ TerminatedIsFinal /\ [Next]_vars
        => HolderInv' /\ WrittenInv' /\ TerminatedIsFinal'
    BY HolderStep, WrittenStep, FinalStep
  <1> QED BY <1>1, <1>2, TypeCorrect, ControlCorrect, PTL DEF Spec

LEMMA LateFrame ==
    /\ LateInv
    /\ UNCHANGED <<pauseRequested, terminateRequested, late>>
    /\ pendingContinue' => pendingContinue
    /\ epc' = epc \/ epc' \notin InRun
    => LateInv'
  BY DEF LateInv, InRun

(* LateInv: a request is seen before a second instruction is started.      *)
LEMMA LateStep ==
    TypeOK /\ ControlInv /\ LateInv /\ [Next]_vars => LateInv'
  <1> SUFFICES ASSUME TypeOK, ControlInv, LateInv, [Next]_vars PROVE LateInv'
    OBVIOUS
  <1> USE DEF LateInv, atomics, vm, requests, reader, exec, ReaderAt, ExecAt,
              ReaderTo, ExecTo
  <1>1. CASE Client \/ Exited \/ UNCHANGED vars
    BY <1>1 DEF Client, ReadMalformed, EndOfInput, ReadRequest, Exited, vars
  <1>2. CASE Continue \/ Step
    BY <1>2 DEF Continue, Step, ClearExecutionRequests
  <1>3. CASE PauseRequest \/ DisconnectStop \/ DestroyStop
    BY <1>3 DEF PauseRequest, DisconnectStop, DestroyStop, RequestTerminate
  <1>4. CASE startPendingExecution
    BY <1>4 DEF startPendingExecution
  <1>5. CASE DisconnectNotify
    <2>1. epc' = epc \/ epc' \notin InRun
      BY <1>5 DEF DisconnectNotify, NotifyAll, InRun
    <2>2. /\ UNCHANGED <<pauseRequested, terminateRequested, late>>
          /\ ~pendingContinue'
      BY <1>5, Zenon DEF DisconnectNotify
    <2> QED BY <2>1, <2>2, LateFrame
  <1>6. CASE AcknowledgeNotify \/ DestroyNotify
    <2>1. epc' = epc \/ epc' \notin InRun
      BY <1>6 DEF AcknowledgeNotify, DestroyNotify, NotifyAll, InRun
    <2>2. UNCHANGED <<pauseRequested, terminateRequested, late, pendingContinue>>
      BY <1>6, Zenon DEF AcknowledgeNotify, DestroyNotify
    <2> QED BY <2>1, <2>2, LateFrame
  <1>14. CASE DisconnectJoin \/ DestroyJoin
    <2>1. epc' \notin InRun
      BY <1>14 DEF DisconnectJoin, DestroyJoin, InRun
    <2>2. UNCHANGED <<pauseRequested, terminateRequested, late, pendingContinue>>
      BY <1>14, Zenon DEF DisconnectJoin, DestroyJoin
    <2> QED BY <2>1, <2>2, LateFrame
  <1>7. CASE Refuse \/ Accept \/ Inspect \/ SetBreakpoints
    <2>1. UNCHANGED <<pauseRequested, terminateRequested, late, epc,
                      pendingContinue>>
      BY <1>7, Zenon DEF Refuse, Accept, Inspect, SetBreakpoints
    <2> QED BY <2>1, LateFrame
  <1>8. CASE InitializeSession \/ InitializeFails \/ PauseMarkPending
             \/ Disconnect \/ EmitNext \/ acknowledgeRequest \/ Destroy
    <2>1. UNCHANGED <<pauseRequested, terminateRequested, late, epc,
                      pendingContinue>>
      BY <1>8, Zenon DEF InitializeSession, InitializeFails, PauseMarkPending,
         Disconnect, EmitNext, acknowledgeRequest, Destroy
    <2> QED BY <2>1, LateFrame
  <1>9. CASE RunStart
    BY <1>9 DEF RunStart
  <1>10. CASE RunLoop
    BY <1>10 DEF RunLoop, TerminateSeen
  <1>11. CASE PollPause
    BY <1>11 DEF PollPause
  <1>12. CASE ExecuteInstruction
    <2>1. late = 0 /\ epc' \in {"ran", "loop"} /\ UNCHANGED pendingContinue
      BY <1>12 DEF ExecuteInstruction
    <2>2. CASE pauseRequested \/ terminateRequested
      <3>1. late' = 1
        BY <1>12, <2>1, <2>2 DEF ExecuteInstruction
      <3>2. UNCHANGED <<pauseRequested, terminateRequested>>
        BY <1>12, Zenon DEF ExecuteInstruction
      <3>3. ~pendingContinue'
        BY <1>12, <2>1 DEF ExecuteInstruction, ControlInv
      <3> QED BY <2>1, <2>2, <3>1, <3>2, <3>3
    <2>3. CASE ~(pauseRequested \/ terminateRequested)
      <3>1. late' = 0
        BY <1>12, <2>3, Zenon DEF ExecuteInstruction
      <3> QED BY <2>1, <3>1
    <2> QED BY <2>2, <2>3
  <1>13. CASE BreakpointHit \/ CheckDisconnect \/ syncSessionStateFromVm
              \/ stopOrTerminateEvent \/ waitForPauseResponse \/ Sleep
              \/ EmitStop \/ SpuriousWakeup
    BY <1>13 DEF BreakpointHit, CheckDisconnect, syncSessionStateFromVm,
       stopOrTerminateEvent, waitForPauseResponse, Sleep, EmitStop,
       SpuriousWakeup
  <1> QED
    BY <1>1, <1>2, <1>3, <1>4, <1>5, <1>6, <1>7, <1>8, <1>9, <1>10, <1>11,
       <1>12, <1>13, <1>14, Zenon DEF Next, Reader, Executor

(* A pause or a disconnect lets at most the current instruction finish.    *)
THEOREM RequestsSeen == Spec => []RequestsAreSeen
  <1>1. Init => LateInv
    BY DEF Init, LateInv
  <1>2. LateInv => RequestsAreSeen
    BY DEF LateInv, RequestsAreSeen
  <1> QED BY <1>1, <1>2, LateStep, TypeCorrect, ControlCorrect, PTL
         DEF Spec

(* Neither the session state that refuses requests, nor the mark that a    *)
(* stopped run waits on, nor a request to the run is left behind: somebody *)
(* takes it back, or sees it.                                              *)
THEOREM FlagsOwned == Spec => []FlagsHaveAnOwner
  <1>1. ControlInv /\ RequestsAreSeen => FlagsHaveAnOwner
    BY DEF ControlInv, FlagsHaveAnOwner
  <1> QED BY <1>1, ControlCorrect, RequestsSeen, PTL

-----------------------------------------------------------------------------
(***************************************************************************)
(* PauseInv and PauseStopFollowsItsResponse: what becomes of a pause.      *)
(***************************************************************************)

(* stdout only grows, and every new line is one of these.                  *)
LEMMA NewLines ==
    ASSUME TypeOK, [Next]_vars
    PROVE  /\ Len(out) \in Nat /\ Len(out') \in Nat /\ Len(out) <= Len(out')
           /\ \A i \in 1..Len(out) : out'[i] = out[i]
           /\ \A i \in 1..Len(out') : i > Len(out) =>
                 \/ out'[i].name \in {"ready", "error", "terminated"}
                 \/ EmitNext /\ out'[i] = Head(outbox)
                 \/ EmitStop /\ out'[i] = execEvent
  <1>0. out \in Seq(Message)
    BY DEF TypeOK
  <1>a. ASSUME NEW m \in Message, out' = Append(out, m)
        PROVE  /\ Len(out) \in Nat /\ Len(out') = Len(out) + 1
               /\ \A i \in 1..Len(out) : out'[i] = out[i]
               /\ \A i \in 1..Len(out') : i > Len(out) => out'[i] = m
    <2>1. /\ Len(out') = Len(out) + 1 /\ Len(out) \in Nat
          /\ \A i \in 1..Len(out) : out'[i] = out[i]
          /\ out'[Len(out) + 1] = m
      BY <1>0, <1>a, AppendElements, Zenon
    <2> QED BY <2>1
  <1>1. CASE UNCHANGED out
    BY <1>0, <1>1, LenProperties
  <1>2. CASE InitializeSession
    <2>1. /\ Event("ready", "none", 0) \in Message
          /\ out' = Append(out, Event("ready", "none", 0))
      BY <1>2, EventType DEF InitializeSession, Emit, Event, TypeOK
    <2>2. Event("ready", "none", 0).name = "ready"
      BY DEF Event, EventOf
    <2> QED BY <1>a, <2>1, <2>2
  <1>3. CASE InitializeFails
    <2> DEFINE e1 == Event("error", "none", 0)
               e2 == Event("terminated", "none", 0)
               one == Append(out, e1)
    <2>1. e1 \in Message /\ e2 \in Message /\ out' = Append(one, e2)
      BY <1>3, EventType DEF InitializeFails, Event, TypeOK
    <2>2. e1.name = "error" /\ e2.name = "terminated"
      BY DEF Event, EventOf
    <2> HIDE DEF e1, e2
    <2>3. /\ Len(one) = Len(out) + 1 /\ Len(out) \in Nat
          /\ \A i \in 1..Len(out) : one[i] = out[i]
          /\ one[Len(out) + 1] = e1 /\ one \in Seq(Message)
      BY <1>0, <2>1, AppendElements
    <2> HIDE DEF one
    <2>4. /\ Len(out') = Len(one) + 1
          /\ \A i \in 1..Len(one) : out'[i] = one[i]
          /\ out'[Len(one) + 1] = e2
      BY <2>1, <2>3, AppendElements, Zenon
    <2> QED BY <2>2, <2>3, <2>4
  <1>4. CASE ReadMalformed
    <2>1. /\ Event("error", "none", 0) \in Message
          /\ out' = Append(out, Event("error", "none", 0))
      BY <1>4, EventType DEF ReadMalformed, Emit, Event, TypeOK
    <2>2. Event("error", "none", 0).name = "error"
      BY DEF Event, EventOf
    <2> QED BY <1>a, <2>1, <2>2
  <1>5. CASE EmitNext
    <2>1. outbox # <<>> /\ out' = Append(out, Head(outbox))
      BY <1>5 DEF EmitNext, Emit
    <2>2. Head(outbox) \in Message
      BY <2>1, HeadTailProperties, Zenon DEF TypeOK
    <2> QED BY <1>5, <1>a, <2>1, <2>2
  <1>6. CASE EmitStop
    <2>1. execEvent \in Message /\ out' = Append(out, execEvent)
      BY <1>6 DEF EmitStop, Emit, TypeOK
    <2> QED BY <1>6, <1>a, <2>1
  <1> QED BY <1>1, <1>2, <1>3, <1>4, <1>5, <1>6, WritersOfOut, Zenon

(* Only EmitNext moves a reader that is writing.                           *)
LEMMA WhileEmitting ==
    ASSUME rpc = "emit", [Next]_vars
    PROVE  \/ EmitNext
           \/ UNCHANGED <<rpc, request, outbox, pauseResponsePending, seq, run>>
  <1>1. ~Client /\ (Reader => EmitNext)
    BY DEF Client, ReadMalformed, EndOfInput, ReadRequest, Reader,
       InitializeSession, InitializeFails, Refuse, Accept, Inspect,
       SetBreakpoints, Continue, Step, PauseMarkPending, PauseRequest,
       Disconnect, DisconnectNotify, DisconnectStop, DisconnectJoin,
       acknowledgeRequest, AcknowledgeNotify, startPendingExecution, Destroy,
       DestroyNotify, DestroyStop, DestroyJoin, ReaderAt
  <1>2. Executor \/ SpuriousWakeup =>
            UNCHANGED <<rpc, request, outbox, pauseResponsePending, seq, run>>
    BY Zenon DEF Executor, SpuriousWakeup, RunStart, RunLoop, PollPause,
       BreakpointHit, ExecuteInstruction, CheckDisconnect,
       syncSessionStateFromVm, stopOrTerminateEvent, waitForPauseResponse,
       Sleep, EmitStop, reader, atomics
  <1> QED BY <1>1, <1>2, Zenon DEF Next, Exited, vars, reader, atomics

LEMMA AnsweredStays ==
    ASSUME TypeOK, [Next]_vars, NEW c, NEW r, PauseAnswered(c, r)
    PROVE  PauseAnswered(c, r)'
  BY NewLines DEF PauseAnswered, IsResponse

(* A response the reader holds is kept or written.                         *)
LEMMA AnsweringStays ==
    ASSUME TypeOK, [Next]_vars, NEW c, NEW r, Answering(c, r)
    PROVE  Answering(c, r)'
  <1>1. CASE PauseAnswered(c, r)
    BY <1>1, AnsweredStays DEF Answering
  <1>2. CASE AnswerHeld /\ c = seq /\ r = run
    <2>1. CASE EmitNext
      <3>a. \A x : Head(<<x>>) = x
        OBVIOUS
      <3>1. out' = Append(out, Response(TRUE))
        BY <1>2, <2>1, <3>a, Zenon DEF EmitNext, Emit, AnswerHeld
      <3>2. Response(TRUE) \in Message /\ out \in Seq(Message)
        BY MessageTypes DEF TypeOK
      <3>3. /\ Len(out') = Len(out) + 1 /\ Len(out) \in Nat
            /\ out'[Len(out) + 1] = Response(TRUE)
        BY <3>1, <3>2, AppendElements, Zenon
      <3>4. /\ Response(TRUE).kind = "response" /\ Response(TRUE).name = "pause"
            /\ Response(TRUE).seq = c /\ Response(TRUE).run = r
        BY <1>2 DEF Response, AnswerHeld
      <3>5. \E j \in 1..Len(out') :
                /\ out'[j].kind = "response" /\ out'[j].name = "pause"
                /\ out'[j].seq = c /\ out'[j].run = r
        <4>1. Len(out) + 1 \in 1..Len(out')
          BY <3>3
        <4> QED BY <3>3, <3>4, <4>1, Zenon
      <3> QED BY <3>5, Zenon DEF Answering, PauseAnswered, IsResponse
    <2>2. CASE UNCHANGED <<rpc, request, outbox, pauseResponsePending, seq, run>>
      BY <1>2, <2>2 DEF Answering, AnswerHeld, Response
    <2> QED BY <1>2, <2>1, <2>2, WhileEmitting DEF AnswerHeld
  <1> QED BY <1>1, <1>2 DEF Answering

(* Only a pause that is about to be answered is asked for.                 *)
LEMMA AskedIsHeld ==
    ASSUME PauseInv, PauseRequest, request = "pause"
    PROVE  AnswerHeld' /\ pauseSeq' = seq' /\ run' = run
  BY DEF PauseInv, PauseRequest, AnswerHeld, Response, ReaderAt, ReaderTo,
     atomics

LEMMA NoPauseStop ==
    /\ ~PauseStop(NoEvent)
    /\ \A ok : ~PauseStop(Response(ok))
    /\ \A r, c : ~PauseStop(EventOf(r, "continued", "none", c))
    /\ \A r, c : ~PauseStop(EventOf(r, "terminated", "none", c))
    /\ \A r, s, e, f, c :
          f \in {"step", "continue"} /\ PauseStop(StopOrTerminateEvent(r, s, e, f, c))
             => /\ e = "PAUSED"
                /\ StopOrTerminateEvent(r, s, e, f, c).seq = c
                /\ StopOrTerminateEvent(r, s, e, f, c).run = r
  BY DEF PauseStop, IsEvent, NoEvent, Response, EventOf, StopOrTerminateEvent,
     eventReason

(* What the reader is about to write is never such a stop.                 *)
OutboxClean == \A i \in 1..Len(outbox) : ~PauseStop(outbox[i])

LEMMA OutboxStaysClean ==
    TypeOK /\ HolderInv /\ OutboxClean /\ [Next]_vars => OutboxClean'
  <1> SUFFICES ASSUME TypeOK, HolderInv, OutboxClean, [Next]_vars
               PROVE  OutboxClean'
    OBVIOUS
  <1>a. ASSUME NEW ok, outbox' = <<Response(ok)>> PROVE OutboxClean'
    BY <1>a, NoPauseStop DEF OutboxClean
  <1>b. ASSUME NEW ok, NEW ev, outbox' = <<Response(ok), ev>>, ~PauseStop(ev)
        PROVE  OutboxClean'
    BY <1>b, NoPauseStop DEF OutboxClean
  <1>c. ASSUME NEW ok, NEW ev, outbox' = WithEvent(Response(ok), ev),
               ~PauseStop(ev)
        PROVE  OutboxClean'
    BY <1>a, <1>b, <1>c, Zenon DEF WithEvent
  <1>1. CASE UNCHANGED outbox
    BY <1>1 DEF OutboxClean
  <1>2. CASE Refuse \/ Inspect \/ SetBreakpoints \/ PauseRequest
    BY <1>2, <1>a, Zenon DEF Refuse, Inspect, SetBreakpoints, PauseRequest
  <1>3. CASE Continue
    BY <1>3, <1>b, NoPauseStop, Zenon DEF Continue
  <1>4. CASE Step
    <2>1. lastEvent' # "PAUSED"
      BY <1>4 DEF Step, StepOutcome
    <2>2. ~PauseStop(StopOrTerminateEvent(run + 1, vmState', lastEvent', "step", 0))
      BY <2>1, NoPauseStop
    <2> QED BY <1>4, <1>c, <2>2, Zenon DEF Step
  <1>5. CASE DisconnectJoin
    BY <1>5, <1>c, NoPauseStop, Zenon DEF DisconnectJoin, Event
  <1>6. CASE EmitNext
    <2>1. outbox # <<>> /\ outbox' = Tail(outbox)
      BY <1>6 DEF EmitNext
    <2>2. outbox \in Seq(Message) /\ Len(outbox) \in {1, 2}
      BY <2>1, ShortSequence, Zenon DEF TypeOK, HolderInv
    <2>3. /\ Len(outbox') = Len(outbox) - 1
          /\ \A i \in 1..Len(outbox') : outbox'[i] = outbox[i + 1]
      BY <2>1, <2>2, ShortTail
    <2> QED BY <2>2, <2>3 DEF OutboxClean
  <1>7. \/ UNCHANGED outbox \/ Refuse \/ Inspect \/ SetBreakpoints
        \/ PauseRequest \/ Continue \/ Step \/ DisconnectJoin \/ EmitNext
    <2>1. Client \/ Exited \/ Executor \/ SpuriousWakeup => UNCHANGED outbox
      BY Zenon DEF Client, ReadMalformed, EndOfInput, ReadRequest, Exited,
         Executor, SpuriousWakeup, RunStart, RunLoop, PollPause,
         BreakpointHit, ExecuteInstruction, CheckDisconnect,
         syncSessionStateFromVm, stopOrTerminateEvent, waitForPauseResponse,
         Sleep, EmitStop, reader, vars
    <2>2. Reader => \/ UNCHANGED outbox \/ Refuse \/ Inspect \/ SetBreakpoints
                    \/ PauseRequest \/ Continue \/ Step \/ DisconnectJoin
                    \/ EmitNext
      BY Zenon DEF Reader, InitializeSession, InitializeFails, Accept,
         PauseMarkPending, Disconnect, DisconnectNotify, DisconnectStop,
         acknowledgeRequest, AcknowledgeNotify, startPendingExecution, Destroy,
         DestroyNotify, DestroyStop, DestroyJoin
    <2> QED BY <2>1, <2>2, Zenon DEF Next, vars, reader
  <1> QED BY <1>1, <1>2, <1>3, <1>4, <1>5, <1>6, <1>7, Zenon

(* The labels of a pause and of the end of the session.                    *)
LEMMA PauseLabels ==
    ASSUME TypeOK, PauseInv, [Next]_vars
    PROVE  /\ rpc' = "pauseRequest" => pauseResponsePending'
           /\ disconnectRequested' => Leaving'
  <1>0. /\ rpc = "pauseRequest" => pauseResponsePending
        /\ disconnectRequested => Leaving
    BY DEF PauseInv
  <1> USE <1>0 DEF Leaving, DestroyLabels, atomics, reader, ReaderAt, ReaderTo
  <1>1. CASE UNCHANGED vars \/ Exited
    BY <1>1 DEF Exited, vars
  <1>2. CASE Client
    BY <1>2 DEF Client, ReadMalformed, EndOfInput, ReadRequest
  <1>3. CASE Executor \/ SpuriousWakeup
    <2>1. UNCHANGED <<reader, pauseResponsePending, disconnectRequested>>
      BY <1>3, Zenon DEF Executor, SpuriousWakeup, RunStart, RunLoop,
         PollPause, BreakpointHit, ExecuteInstruction, CheckDisconnect,
         syncSessionStateFromVm, stopOrTerminateEvent, waitForPauseResponse,
         Sleep, EmitStop
    <2> QED BY <2>1
  <1>4. CASE PauseMarkPending \/ PauseRequest
    <2>1. CASE PauseMarkPending
      BY <2>1 DEF PauseMarkPending
    <2>2. CASE PauseRequest
      BY <2>2 DEF PauseRequest
    <2> QED BY <1>4, <2>1, <2>2
  <1>5. CASE Disconnect \/ DisconnectNotify \/ DisconnectStop
             \/ DisconnectJoin
    <2>1. CASE Disconnect
      BY <2>1 DEF Disconnect
    <2>2. CASE DisconnectNotify
      BY <2>2 DEF DisconnectNotify
    <2>3. CASE DisconnectStop
      BY <2>3 DEF DisconnectStop
    <2>4. CASE DisconnectJoin
      BY <2>4 DEF DisconnectJoin
    <2> QED BY <1>5, <2>1, <2>2, <2>3, <2>4
  <1>6. CASE EmitNext \/ acknowledgeRequest \/ AcknowledgeNotify
             \/ startPendingExecution
    BY <1>6 DEF EmitNext, acknowledgeRequest, Acknowledges, AcknowledgeNotify,
       startPendingExecution
  <1>7. CASE Destroy \/ DestroyNotify \/ DestroyStop \/ DestroyJoin
    BY <1>7 DEF Destroy, DestroyNotify, DestroyStop, DestroyJoin
  <1>8. CASE \/ InitializeSession \/ InitializeFails \/ Refuse \/ Accept
             \/ Inspect \/ SetBreakpoints \/ Continue \/ Step
    <2>1. rpc' # "pauseRequest" /\ ~Leaving
      BY <1>8 DEF InitializeSession, InitializeFails, Refuse, Accept, Inspect,
       SetBreakpoints, Continue, Step
    <2>2. UNCHANGED disconnectRequested
      BY <1>8, Zenon DEF InitializeSession, InitializeFails, Refuse, Accept,
         Inspect, SetBreakpoints, Continue, Step
    <2> QED BY <2>1, <2>2
  <1> QED
    BY <1>1, <1>2, <1>3, <1>4, <1>5, <1>6, <1>7, <1>8, Zenon DEF Next, Reader

(* What a step other than Continue and Step does to a pause on its way     *)
(* from the request over the run to the stop.                              *)
PauseKept ==
    /\ run' = run
    /\ PauseRequest \/ (pauseRequested' => pauseRequested /\ pauseSeq' = pauseSeq)
    /\ epc' \in {"loop", "poll", "execute"} =>
          \/ RunStart
          \/ /\ epc \in {"loop", "poll", "execute"}
             /\ lastEvent' = lastEvent \/ lastEvent' = "INSTRUCTION_EXECUTED"
    /\ epc' \in {"ran", "sync", "event"} /\ lastEvent' = "PAUSED" =>
          \/ PollPause /\ pauseRequested /\ stopCause' = pauseSeq
          \/ /\ epc \in {"loop", "ran", "sync"}
             /\ lastEvent' = lastEvent /\ stopCause' = stopCause
          \/ UNCHANGED <<epc, lastEvent, stopCause>>
    /\ execEvent' = execEvent \/ stopOrTerminateEvent \/ EmitStop
    /\ epc' = "emit" =>
          waitForPauseResponse \/ (epc = "emit" /\ execEvent' = execEvent)

LEMMA PauseFrame ==
    ASSUME [Next]_vars, ~Continue, ~Step
    PROVE  PauseKept
  <1>a. ASSUME UNCHANGED <<run, lastEvent, execEvent>>,
               PauseRequest \/ UNCHANGED <<pauseRequested, pauseSeq>>,
               \/ UNCHANGED <<epc, stopCause>>
               \/ epc' \in {"none", "start", "waitResponse"}
        PROVE  PauseKept
    BY <1>a DEF PauseKept
  <1> USE DEF atomics, vm, requests, exec, reader, ReaderAt, ReaderTo, ExecAt,
              ExecTo
  <1>1. CASE UNCHANGED vars \/ Exited \/ Client
    <2>1. UNCHANGED <<run, lastEvent, execEvent, pauseRequested, pauseSeq, epc,
                      stopCause>>
      BY <1>1, Zenon DEF Exited, vars, Client, ReadMalformed, EndOfInput,
         ReadRequest
    <2> QED BY <1>a, <2>1
  <1>2. CASE \/ InitializeSession \/ InitializeFails \/ Refuse \/ Accept
             \/ Inspect \/ SetBreakpoints \/ PauseMarkPending \/ PauseRequest
    <2>1. /\ UNCHANGED <<run, lastEvent, execEvent, epc, stopCause>>
          /\ PauseRequest \/ UNCHANGED <<pauseRequested, pauseSeq>>
      BY <1>2, Zenon DEF InitializeSession, InitializeFails, Refuse, Accept,
         Inspect, SetBreakpoints, PauseMarkPending, PauseRequest
    <2> QED BY <1>a, <2>1
  <1>3. CASE Disconnect \/ DisconnectStop \/ EmitNext \/ acknowledgeRequest
             \/ Destroy \/ DestroyStop
    <2>1. UNCHANGED <<run, lastEvent, execEvent, pauseRequested, pauseSeq, epc,
                      stopCause>>
      BY <1>3, Zenon DEF Disconnect, DisconnectStop, EmitNext,
         acknowledgeRequest, Destroy, DestroyStop
    <2> QED BY <1>a, <2>1
  <1>4. CASE DisconnectNotify \/ AcknowledgeNotify \/ DestroyNotify
             \/ DisconnectJoin \/ DestroyJoin \/ startPendingExecution
    <2>1. UNCHANGED <<run, lastEvent, execEvent, pauseRequested, pauseSeq>>
      BY <1>4, Zenon DEF DisconnectNotify, AcknowledgeNotify, DestroyNotify,
         DisconnectJoin, DestroyJoin, startPendingExecution
    <2>2. \/ UNCHANGED <<epc, stopCause>>
          \/ epc' \in {"none", "start", "waitResponse"}
      BY <1>4 DEF DisconnectNotify, AcknowledgeNotify, DestroyNotify,
         NotifyAll, DisconnectJoin, DestroyJoin, startPendingExecution
    <2> QED BY <1>a, <2>1, <2>2
  <1>5. CASE RunStart \/ RunLoop \/ PollPause \/ BreakpointHit
             \/ ExecuteInstruction
    BY <1>5 DEF PauseKept, RunStart, RunLoop, PollPause, BreakpointHit,
       ExecuteInstruction
  <1>6. CASE CheckDisconnect \/ syncSessionStateFromVm \/ stopOrTerminateEvent
             \/ waitForPauseResponse \/ Sleep \/ EmitStop \/ SpuriousWakeup
    BY <1>6 DEF PauseKept, CheckDisconnect, syncSessionStateFromVm,
       stopOrTerminateEvent, waitForPauseResponse, Sleep, EmitStop,
       SpuriousWakeup
  <1> QED
    BY <1>1, <1>2, <1>3, <1>4, <1>5, <1>6, Zenon DEF Next, Reader, Executor

LEMMA PauseStep ==
    TypeOK /\ ControlInv /\ HolderInv /\ PauseInv /\ [Next]_vars => PauseInv'
  <1> SUFFICES ASSUME TypeOK, ControlInv, HolderInv, PauseInv, [Next]_vars
               PROVE  PauseInv'
    OBVIOUS
  <1>1. OutboxClean'
    BY OutboxStaysClean DEF OutboxClean, PauseInv
  <1>2. CASE Continue \/ Step
    <2>1. /\ ~pauseRequested' /\ epc' = "none" /\ execEvent' = execEvent
          /\ epc \in {"none", "done"}
      BY <1>2, Zenon DEF Continue, Step, ClearExecutionRequests, Joined
    <2>2. ~PauseStop(execEvent')
      BY <2>1, NoPauseStop DEF HolderInv, Publishing
    <2> QED BY <1>1, <2>1, <2>2, PauseLabels DEF PauseInv, OutboxClean, PauseStop, IsEvent
  <1>3. CASE ~Continue /\ ~Step
    <2>1. /\ epc' \in {"loop", "poll", "execute"} => lastEvent' # "PAUSED"
      BY <1>3, PauseFrame DEF PauseKept, RunStart, PauseInv
    <2>2. pauseRequested' => Answering(pauseSeq, run)'
      <3>1. CASE PauseRequest
        BY <3>1, AskedIsHeld DEF Answering, ControlInv, PauseRequest, ReaderAt
      <3>2. CASE ~PauseRequest
        <4> SUFFICES ASSUME pauseRequested' PROVE Answering(pauseSeq, run)'
          OBVIOUS
        <4>1. pauseRequested /\ pauseSeq' = pauseSeq /\ run' = run
          BY <1>3, <3>2, PauseFrame DEF PauseKept
        <4>2. PICK c, r : c = pauseSeq /\ r = run
          OBVIOUS
        <4>3. Answering(c, r)'
          BY <4>1, <4>2, AnsweringStays DEF PauseInv
        <4> QED BY <4>1, <4>2, <4>3
      <3> QED BY <3>1, <3>2
    <2>3. epc' \in {"ran", "sync", "event"} /\ lastEvent' = "PAUSED"
              => Answering(stopCause, run)'
      <3> SUFFICES ASSUME epc' \in {"ran", "sync", "event"}, lastEvent' = "PAUSED"
                   PROVE  Answering(stopCause, run)'
        OBVIOUS
      <3>1. Answering(stopCause', run)
        BY <1>3, PauseFrame DEF PauseKept, PauseInv
      <3>2. PICK c, r : c = stopCause' /\ r = run
        OBVIOUS
      <3>3. run' = run
        BY <1>3, PauseFrame DEF PauseKept
      <3>4. Answering(c, r)'
        BY <3>1, <3>2, AnsweringStays
      <3> QED BY <3>2, <3>3, <3>4
    <2>4. PauseStop(execEvent') => Answering(execEvent.seq, execEvent.run)'
      <3> SUFFICES ASSUME PauseStop(execEvent')
                   PROVE  Answering(execEvent.seq, execEvent.run)'
        OBVIOUS
      <3>1. ~EmitStop
        BY NoPauseStop DEF EmitStop
      <3>2. Answering(execEvent'.seq, execEvent'.run)
        <4>1. CASE stopOrTerminateEvent
          <5>1. /\ execEvent' = StopOrTerminateEvent(run, vmState, lastEvent,
                                                     "continue", stopCause)
                /\ epc = "event"
            BY <4>1 DEF stopOrTerminateEvent, ExecAt
          <5>2. /\ lastEvent = "PAUSED" /\ execEvent'.seq = stopCause
                /\ execEvent'.run = run
            BY <5>1, NoPauseStop
          <5> QED BY <5>1, <5>2 DEF PauseInv
        <4>2. CASE execEvent' = execEvent
          BY <4>2 DEF PauseInv, PauseStop
        <4> QED BY <1>3, <3>1, <4>1, <4>2, PauseFrame DEF PauseKept
      <3>3. PICK c, r : c = execEvent'.seq /\ r = execEvent'.run
        OBVIOUS
      <3>4. Answering(c, r)'
        BY <3>2, <3>3, AnsweringStays
      <3> QED BY <3>3, <3>4
    <2>5. PauseStop(execEvent') /\ epc' = "emit"
              => PauseAnswered(execEvent.seq, execEvent.run)'
      <3> SUFFICES ASSUME PauseStop(execEvent'), epc' = "emit"
                   PROVE  PauseAnswered(execEvent.seq, execEvent.run)'
        OBVIOUS
      <3>1. execEvent' = execEvent /\ PauseAnswered(execEvent.seq, execEvent.run)
        <4>1. CASE waitForPauseResponse
          <5>1. execEvent' = execEvent /\ PauseResponseWritten
            BY <4>1 DEF waitForPauseResponse, ExecTo
          <5>2. ~AnswerHeld
            BY <5>1 DEF PauseResponseWritten, AnswerHeld, PauseInv, Leaving,
               DestroyLabels
          <5> QED BY <5>1, <5>2 DEF PauseInv, Answering
        <4>2. CASE epc = "emit" /\ execEvent' = execEvent
          BY <4>2 DEF PauseInv
        <4> QED BY <1>3, <4>1, <4>2, PauseFrame DEF PauseKept
      <3>2. PICK c, r : c = execEvent.seq /\ r = execEvent.run
        OBVIOUS
      <3>3. PauseAnswered(c, r)'
        BY <3>1, <3>2, AnsweredStays
      <3> QED BY <3>1, <3>2, <3>3
    <2> QED
      BY <1>1, <2>1, <2>2, <2>3, <2>4, <2>5, PauseLabels
      DEF PauseInv, OutboxClean, PauseStop, IsEvent
  <1> QED BY <1>2, <1>3

LEMMA PauseOrderStep ==
    TypeOK /\ PauseInv /\ PauseStopFollowsItsResponse /\ [Next]_vars
        => PauseStopFollowsItsResponse'
  <1> SUFFICES ASSUME TypeOK, PauseInv, PauseStopFollowsItsResponse,
                      [Next]_vars, NEW i \in 1..Len(out'), PauseStop(out'[i])
               PROVE  \E j \in 1..i - 1 :
                          /\ IsResponse(out'[j]) /\ out'[j].name = "pause"
                          /\ out'[j].seq = out'[i].seq
                          /\ out'[j].run = out'[i].run
    BY DEF PauseStopFollowsItsResponse, PauseStop, IsEvent, IsResponse
  <1>1. /\ Len(out) \in Nat /\ Len(out') \in Nat /\ Len(out) <= Len(out')
        /\ \A k \in 1..Len(out) : out'[k] = out[k]
    BY NewLines
  <1>2. CASE i <= Len(out)
    BY <1>1, <1>2 DEF PauseStopFollowsItsResponse, PauseStop
  <1>3. CASE i > Len(out)
    <2>1. \/ EmitNext /\ out'[i] = Head(outbox)
          \/ EmitStop /\ out'[i] = execEvent
      <3>1. out'[i].name \notin {"ready", "error", "terminated"}
        BY DEF PauseStop, IsEvent
      <3>2. \/ out'[i].name \in {"ready", "error", "terminated"}
            \/ EmitNext /\ out'[i] = Head(outbox)
            \/ EmitStop /\ out'[i] = execEvent
        BY <1>3, NewLines
      <3> QED BY <3>1, <3>2
    <2>2. ~(EmitNext /\ out'[i] = Head(outbox))
      <3> SUFFICES ASSUME EmitNext, out'[i] = Head(outbox) PROVE FALSE
        OBVIOUS
      <3>1. outbox # <<>> /\ outbox \in Seq(Message)
        BY DEF EmitNext, TypeOK
      <3>2. Head(outbox) = outbox[1] /\ 1 \in 1..Len(outbox)
        BY <3>1
      <3> QED BY <3>2 DEF PauseInv
    <2>3. PauseAnswered(out'[i].seq, out'[i].run)
      BY <2>1, <2>2 DEF EmitStop, ExecAt, PauseInv
    <2> QED BY <1>1, <1>3, <2>3 DEF PauseAnswered
  <1> QED BY <1>1, <1>2, <1>3

LEMMA InitPause == Init => PauseInv /\ PauseStopFollowsItsResponse
  BY NoPauseStop
     DEF Init, PauseInv, PauseStopFollowsItsResponse

(* A stop with reason "pause" answers a pause request of the same run, and *)
(* comes after that request's response, for every interleaving.            *)
THEOREM PausesAnswered == Spec => []PauseStopFollowsItsResponse
  <1>1. TypeOK /\ ControlInv /\ HolderInv /\ PauseInv
        /\ PauseStopFollowsItsResponse /\ [Next]_vars
        => HolderInv' /\ PauseInv' /\ PauseStopFollowsItsResponse'
    BY HolderStep, PauseStep, PauseOrderStep
  <1> QED BY <1>1, InitHolder, InitPause, TypeCorrect, ControlCorrect, PTL
         DEF Spec
-----------------------------------------------------------------------------
(***************************************************************************)
(* LifeInv and the refinement of LiveDebugProtocol.                        *)
(***************************************************************************)
LEMMA LastIndex ==
    ASSUME NEW n \in Nat, NEW S \in SUBSET (1..n), S # {}
    PROVE  \E i \in S : \A j \in S : j <= i
  <1> DEFINE T == {n - i : i \in S}
             R == OpToRel(<, Nat)
  <1>1. T \subseteq Nat /\ T # {}
    <2>1. \A i \in S : n - i \in Nat
      OBVIOUS
    <2> QED BY <2>1, Zenon
  <1>2. IsWellFoundedOn(R, Nat)
    BY NatLessThanWellFounded
  <1> HIDE DEF T, R
  <1>3. PICK x \in T : \A y \in T : ~(<<y, x>> \in R)
    BY <1>1, <1>2, WFMin
  <1> USE DEF T
  <1>4. PICK i \in S : x = n - i
    BY <1>3
  <1>5. ASSUME NEW j \in S PROVE j <= i
    <2>1. n - j \in T /\ n - j \in Nat /\ n - i \in Nat /\ i \in Int /\ j \in Int
      OBVIOUS
    <2>2. ~(n - j < n - i)
      <3>1. ~(<<n - j, n - i>> \in R)
        BY <1>3, <1>4, <2>1
      <3> QED BY <2>1, <3>1 DEF R, OpToRel
    <2> QED BY <2>1, <2>2
  <1> QED BY <1>5

(* The client's view is that of the last event written.                    *)
LEMMA LifeNothingNew ==
    ASSUME TypeOK, [Next]_vars,
           \A i \in 1..Len(out') : i > Len(out) => ~LifecycleEvent(out'[i])
    PROVE  LifecycleAt' = LifecycleAt /\ Phase' = Phase /\ Round' = Round
  <1>1. /\ Len(out) \in Nat /\ Len(out') \in Nat /\ Len(out) <= Len(out')
        /\ \A i \in 1..Len(out) : out'[i] = out[i]
    BY NewLines
  <1>2. LifecycleAt' = LifecycleAt
    BY <1>1 DEF LifecycleAt, LifecycleEvent, IsEvent
  <1>3. CASE LifecycleAt = {}
    BY <1>2, <1>3 DEF Phase, Round
  <1>4. CASE LifecycleAt # {}
    <2> DEFINE last == CHOOSE i \in LifecycleAt : \A j \in LifecycleAt : j <= i
    <2>1. last \in LifecycleAt
      <3>1. LifecycleAt \in SUBSET (1..Len(out))
        BY DEF LifecycleAt
      <3>2. \E i \in LifecycleAt : \A j \in LifecycleAt : j <= i
        BY <1>1, <1>4, <3>1, LastIndex
      <3> QED BY <3>2, Zenon
    <2>2. out'[last] = out[last]
      BY <1>1, <2>1 DEF LifecycleAt
    <2>3. LastLifecycle = out[last] /\ LastLifecycle' = out'[last]
      BY <1>2, Zenon DEF LastLifecycle
    <2> QED BY <1>2, <1>4, <2>2, <2>3 DEF Phase, Round
  <1> QED BY <1>2, <1>3, <1>4

LEMMA LifeOneNew ==
    ASSUME TypeOK, [Next]_vars, Len(out) < Len(out'),
           LifecycleEvent(out'[Len(out')]),
           \A i \in 1..Len(out') : i > Len(out) /\ i < Len(out')
                => ~LifecycleEvent(out'[i])
    PROVE  /\ Phase' = out'[Len(out')].name /\ Round' = out'[Len(out')].run
           /\ Cardinality(LifecycleAt)' = Cardinality(LifecycleAt) + 1
           /\ LifecycleAt' # {}
  <1> DEFINE n == Len(out')
  <1>1. /\ Len(out) \in Nat /\ n \in Nat /\ Len(out) < n
        /\ \A i \in 1..Len(out) : out'[i] = out[i]
    BY NewLines
  <1>2. LifecycleAt' = LifecycleAt \cup {n} /\ n \notin LifecycleAt
    BY <1>1 DEF LifecycleAt, LifecycleEvent, IsEvent
  <1>3. Cardinality(LifecycleAt)' = Cardinality(LifecycleAt) + 1
    <2>1. IsFiniteSet(LifecycleAt)
      <3>1. LifecycleAt \in SUBSET (1..Len(out))
        BY DEF LifecycleAt
      <3>2. IsFiniteSet(1..Len(out))
        BY <1>1, FS_Interval
      <3> QED BY <3>1, <3>2, FS_Subset
    <2> QED BY <1>2, <2>1, FS_AddElement
  <1>4. \A i \in LifecycleAt' : (\A j \in LifecycleAt' : j <= i) <=> i = n
    BY <1>1, <1>2 DEF LifecycleAt
  <1>5. (CHOOSE i \in LifecycleAt' : \A j \in LifecycleAt' : j <= i) = n
    BY <1>2, <1>4
  <1>6. LastLifecycle' = out'[n]
    BY <1>5, Zenon DEF LastLifecycle
  <1> QED BY <1>2, <1>3, <1>6 DEF Phase, Round

View(p, r) == /\ Phase' = p /\ Round' = r
              /\ Cardinality(LifecycleAt)' = Cardinality(LifecycleAt) + 1
              /\ LifecycleAt' # {}
SameView   == LifecycleAt' = LifecycleAt /\ Phase' = Phase /\ Round' = Round

(* Writing one line.                                                       *)
LEMMA ViewOfLine ==
    ASSUME TypeOK, [Next]_vars, NEW m \in Message, out' = Append(out, m)
    PROVE  IF LifecycleEvent(m) THEN View(m.name, m.run) ELSE SameView
  <1>1. /\ Len(out') = Len(out) + 1 /\ Len(out) \in Nat
        /\ \A i \in 1..Len(out) : out'[i] = out[i]
        /\ out'[Len(out) + 1] = m
    BY AppendElements, Zenon DEF TypeOK
  <1>2. \A i \in 1..Len(out') : i > Len(out) => i = Len(out') /\ out'[i] = m
    BY <1>1
  <1>3. CASE LifecycleEvent(m)
    <2>1. out'[Len(out')] = m /\ Len(out) < Len(out')
      BY <1>1
    <2>2. \A i \in 1..Len(out') : ~(i > Len(out) /\ i < Len(out'))
      BY <1>1
    <2> QED BY <1>3, <2>1, <2>2, LifeOneNew, Zenon DEF View
  <1>4. CASE ~LifecycleEvent(m)
    BY <1>2, <1>4, LifeNothingNew, Zenon DEF SameView
  <1> QED BY <1>3, <1>4

(* What each step shows the client.                                        *)
LEMMA ViewStep ==
    ASSUME TypeOK, [Next]_vars
    PROVE  /\ InitializeSession => View("ready", run)
           /\ InitializeFails => View("terminated", run)
           /\ EmitNext => IF LifecycleEvent(Head(outbox))
                          THEN View(Head(outbox).name, Head(outbox).run)
                          ELSE SameView
           /\ EmitStop => IF LifecycleEvent(execEvent)
                          THEN View(execEvent.name, execEvent.run)
                          ELSE SameView
           /\ ~InitializeSession /\ ~InitializeFails /\ ~EmitNext /\ ~EmitStop
                => SameView
  <1>1. ASSUME InitializeSession PROVE View("ready", run)
    <2> DEFINE e == Event("ready", "none", 0)
    <2>1. e \in Message /\ out' = Append(out, e)
      BY <1>1, EventType DEF InitializeSession, Emit, Event, TypeOK
    <2>2. LifecycleEvent(e) /\ e.name = "ready" /\ e.run = run
      BY DEF LifecycleEvent, LifecycleNames, IsEvent, Event, EventOf
    <2> HIDE DEF e
    <2> QED BY <2>1, <2>2, ViewOfLine
  <1>2. ASSUME InitializeFails PROVE View("terminated", run)
    <2> DEFINE e1 == Event("error", "none", 0)
               e2 == Event("terminated", "none", 0)
               one == Append(out, e1)
    <2>1. e1 \in Message /\ e2 \in Message /\ out' = Append(one, e2)
      BY <1>2, EventType DEF InitializeFails, Event, TypeOK
    <2>2. /\ ~LifecycleEvent(e1)
          /\ LifecycleEvent(e2) /\ e2.name = "terminated" /\ e2.run = run
      BY DEF LifecycleEvent, LifecycleNames, IsEvent, Event, EventOf
    <2> HIDE DEF e1, e2
    <2>3. /\ Len(one) = Len(out) + 1 /\ Len(out) \in Nat
          /\ one[Len(out) + 1] = e1 /\ one \in Seq(Message)
      BY <2>1, AppendElements DEF TypeOK
    <2> HIDE DEF one
    <2>4. /\ Len(out') = Len(one) + 1
          /\ \A i \in 1..Len(one) : out'[i] = one[i]
          /\ out'[Len(one) + 1] = e2
      BY <2>1, <2>3, AppendElements, Zenon
    <2>5. /\ Len(out) < Len(out') /\ out'[Len(out')] = e2
          /\ \A i \in 1..Len(out') : i > Len(out) /\ i < Len(out') => out'[i] = e1
      BY <2>3, <2>4
    <2> QED BY <2>2, <2>5, LifeOneNew, Zenon DEF View
  <1>3. ASSUME EmitNext
        PROVE  IF LifecycleEvent(Head(outbox))
               THEN View(Head(outbox).name, Head(outbox).run) ELSE SameView
    <2>1. outbox # <<>> /\ out' = Append(out, Head(outbox))
      BY <1>3 DEF EmitNext, Emit
    <2>2. Head(outbox) \in Message
      BY <2>1, HeadTailProperties, Zenon DEF TypeOK
    <2> QED BY <2>1, <2>2, ViewOfLine
  <1>4. ASSUME EmitStop
        PROVE  IF LifecycleEvent(execEvent)
               THEN View(execEvent.name, execEvent.run) ELSE SameView
    <2>1. execEvent \in Message /\ out' = Append(out, execEvent)
      BY <1>4 DEF EmitStop, Emit, TypeOK
    <2> QED BY <2>1, ViewOfLine
  <1>5. ASSUME ReadMalformed PROVE SameView
    <2> DEFINE e == Event("error", "none", 0)
    <2>1. e \in Message /\ out' = Append(out, e)
      BY <1>5, EventType DEF ReadMalformed, Emit, Event, TypeOK
    <2>2. ~LifecycleEvent(e)
      BY DEF LifecycleEvent, LifecycleNames, IsEvent, Event, EventOf
    <2> HIDE DEF e
    <2> QED BY <2>1, <2>2, ViewOfLine
  <1>6. ASSUME UNCHANGED out PROVE SameView
    <2>1. Len(out) \in Nat
      BY LenProperties DEF TypeOK
    <2>2. \A i \in 1..Len(out') : ~(i > Len(out))
      BY <1>6, <2>1
    <2> QED BY <2>2, LifeNothingNew, Zenon DEF SameView
  <1> QED BY <1>1, <1>2, <1>3, <1>4, <1>5, <1>6, WritersOfOut, Zenon

(* A step that changes nothing of what the client will be told.            *)
Quiet ==
    /\ run' = run
    /\ rpc' = "initialize" <=> rpc = "initialize"
    /\ \/ UNCHANGED outbox
       \/ outbox = <<>> /\ \E ok \in BOOLEAN : outbox' = <<Response(ok)>>
    /\ UNCHANGED pendingContinue \/ (~pendingContinue' /\ outbox = <<>>)
    /\ InRound' => InRound
    /\ epc' \in Publishing => epc \in Publishing /\ execEvent' = execEvent
    /\ Idle' => Idle

Loud == \/ InitializeSession \/ InitializeFails \/ Continue \/ Step
        \/ DisconnectJoin \/ EmitNext \/ stopOrTerminateEvent \/ EmitStop

LEMMA QuietSteps ==
    ASSUME TypeOK, HolderInv, [Next]_vars, ~Loud
    PROVE  Quiet
  <1>0. outbox # <<>> => rpc = "emit"
    BY DEF HolderInv
  <1>a. ASSUME UNCHANGED <<run, outbox, pendingContinue, epc, execEvent,
                           sessionState>>,
               rpc' = "initialize" <=> rpc = "initialize"
        PROVE  Quiet
    BY <1>a DEF Quiet, InRound, Idle
  <1>b. ASSUME UNCHANGED <<run, rpc, outbox, pendingContinue, execEvent>>,
               InRound' => InRound, epc' \in Publishing => epc \in Publishing,
               Idle' => Idle
        PROVE  Quiet
    BY <1>b DEF Quiet
  <1> USE DEF atomics, vm, requests, exec, reader, ReaderAt, ReaderTo, ExecAt,
              ExecTo
  <1>1. CASE UNCHANGED vars \/ Exited \/ Client
    <2>1. /\ UNCHANGED <<run, outbox, pendingContinue, epc, execEvent,
                         sessionState>>
          /\ UNCHANGED rpc \/ ReadMalformed \/ EndOfInput
             \/ \E c \in Commands : ReadRequest(c)
      BY <1>1, Zenon DEF Exited, vars, Client, ReadMalformed, EndOfInput,
         ReadRequest
    <2>2. rpc' = "initialize" <=> rpc = "initialize"
      BY <2>1 DEF ReadMalformed, EndOfInput, ReadRequest
    <2> QED BY <1>a, <2>1, <2>2
  <1>2. CASE Refuse \/ Inspect \/ SetBreakpoints \/ PauseRequest
    <2>1. /\ UNCHANGED <<run, pendingContinue, epc, execEvent, sessionState>>
          /\ \E ok \in BOOLEAN : outbox' = <<Response(ok)>>
      BY <1>2, Zenon DEF Refuse, Inspect, SetBreakpoints, PauseRequest
    <2>2. /\ rpc \in {"dispatch", "inspect", "setBreakpoints", "pauseRequest"}
          /\ rpc' = "emit"
      BY <1>2 DEF Refuse, Inspect, SetBreakpoints, PauseRequest
    <2> QED BY <1>0, <2>1, <2>2 DEF Quiet, InRound, Idle
  <1>3. CASE Accept \/ PauseMarkPending \/ Disconnect \/ DisconnectStop
             \/ acknowledgeRequest \/ Destroy \/ DestroyStop
    <2>1. UNCHANGED <<run, outbox, pendingContinue, epc, execEvent,
                      sessionState>>
      BY <1>3, Zenon DEF Accept, PauseMarkPending, Disconnect, DisconnectStop,
         acknowledgeRequest, Destroy, DestroyStop
    <2>2. rpc' # "initialize" /\ rpc # "initialize"
      BY <1>3 DEF Accept, PauseMarkPending, Disconnect, DisconnectStop,
         acknowledgeRequest, Destroy, DestroyStop
    <2> QED BY <1>a, <2>1, <2>2
  <1>4. CASE DisconnectNotify \/ AcknowledgeNotify \/ DestroyNotify
             \/ DestroyJoin
    <2>1. /\ UNCHANGED <<run, outbox, execEvent, sessionState>>
          /\ UNCHANGED pendingContinue \/ ~pendingContinue'
      BY <1>4, Zenon DEF DisconnectNotify, AcknowledgeNotify, DestroyNotify,
         DestroyJoin
    <2>2. /\ rpc' # "initialize" /\ rpc # "initialize" /\ rpc # "emit"
          /\ \/ epc' = epc
             \/ epc = "sleeping" /\ epc' = "waitResponse"
             \/ epc = "done" /\ epc' = "none"
      BY <1>4 DEF DisconnectNotify, AcknowledgeNotify, DestroyNotify,
         NotifyAll, DestroyJoin, Joined
    <2>3. /\ InRound' => InRound
          /\ epc' \in Publishing => epc \in Publishing
          /\ Idle' => Idle
      BY <2>1, <2>2 DEF InRound, InRun, Publishing, Idle
    <2>4. outbox = <<>>
      BY <1>0, <2>2
    <2> QED BY <2>1, <2>2, <2>3, <2>4, Zenon DEF Quiet
  <1>5. CASE startPendingExecution
    <2>1. /\ UNCHANGED <<run, outbox, execEvent, sessionState>>
          /\ ~pendingContinue'
      BY <1>5, Zenon DEF startPendingExecution
    <2>2. /\ rpc' # "initialize" /\ rpc = "launch"
          /\ epc' = epc \/ (pendingContinue /\ epc' = "start")
      BY <1>5 DEF startPendingExecution
    <2> QED BY <1>0, <2>1, <2>2 DEF Quiet, InRound, InRun, Publishing, Idle
  <1>6. CASE RunStart \/ RunLoop \/ PollPause \/ BreakpointHit
             \/ ExecuteInstruction
    <2>1. UNCHANGED <<run, rpc, outbox, pendingContinue, execEvent>>
      BY <1>6, Zenon DEF RunStart, RunLoop, PollPause, BreakpointHit,
         ExecuteInstruction
    <2>2. epc \in InRun /\ epc' \in InRun \cup {"ran"}
      BY <1>6 DEF RunStart, RunLoop, PollPause, BreakpointHit,
         ExecuteInstruction, InRun
    <2> QED BY <1>b, <2>1, <2>2 DEF InRound, InRun, Publishing, Idle
  <1>7. CASE CheckDisconnect \/ syncSessionStateFromVm
    <2>1. UNCHANGED <<run, rpc, outbox, pendingContinue, execEvent>>
      BY <1>7, Zenon DEF CheckDisconnect, syncSessionStateFromVm
    <2>2. /\ epc \in {"ran", "sync"}
          /\ epc' \in {"sync", "event"}
             \/ (epc' = "done" /\ sessionState' = "Terminated")
      BY <1>7 DEF CheckDisconnect, syncSessionStateFromVm
    <2> QED BY <1>b, <2>1, <2>2 DEF InRound, InRun, Publishing, Idle
  <1>8. CASE waitForPauseResponse \/ Sleep \/ SpuriousWakeup
    <2>1. UNCHANGED <<run, rpc, outbox, pendingContinue, execEvent>>
      BY <1>8, Zenon DEF waitForPauseResponse, Sleep, SpuriousWakeup
    <2>2. epc \in Publishing /\ epc' \in Publishing
      BY <1>8 DEF waitForPauseResponse, Sleep, SpuriousWakeup, Publishing
    <2> QED BY <1>b, <2>1, <2>2 DEF InRound, InRun, Publishing, Idle
  <1> QED
    BY <1>1, <1>2, <1>3, <1>4, <1>5, <1>6, <1>7, <1>8, Zenon
       DEF Loud, Next, Reader, Executor

(* No line is taken back.                                                  *)
LEMMA WrittenStays ==
    ASSUME TypeOK, [Next]_vars, TerminatedWritten PROVE TerminatedWritten'
  BY NewLines DEF TerminatedWritten, IsEvent

LEMMA HoldsLifecycle ==
    OutboxHolds(LifecycleNames)
        <=> \E i \in 1..Len(outbox) : LifecycleEvent(outbox[i])
  BY DEF OutboxHolds, LifecycleEvent

LEMMA QuietLife ==
    ASSUME TypeOK, LifeInv, [Next]_vars, Quiet, SameView
    PROVE  LifeInv'
  <1>1. OutboxHolds(LifecycleNames)' <=> OutboxHolds(LifecycleNames)
    BY OutboxKept, OutboxEmpty, OutboxResponse, Zenon DEF Quiet
  <1>2. \A i \in 1..Len(outbox') : LifecycleEvent(outbox'[i]) =>
            /\ outbox' = outbox /\ pendingContinue' = pendingContinue
    <2>1. CASE outbox = <<>> /\ \E ok \in BOOLEAN : outbox' = <<Response(ok)>>
      BY <2>1 DEF Response, LifecycleEvent, IsEvent
    <2>2. CASE UNCHANGED outbox
      BY <2>2 DEF Quiet
    <2> QED BY <2>1, <2>2 DEF Quiet
  <1>3. \A i \in 1..Len(outbox') :
            LifecycleEvent(outbox'[i]) => Announceable(outbox[i])'
    BY <1>2 DEF LifeInv, Quiet, SameView, Announceable
  <1>4. ~TerminatedWritten' => ~TerminatedWritten
    BY WrittenStays
  <1>5. \A i \in 1..Len(outbox') : LifecycleEvent(outbox[i])' <=> LifecycleEvent(outbox'[i])
    BY DEF LifecycleEvent, IsEvent
  <1> QED
    BY <1>1, <1>3, <1>4, <1>5 DEF LifeInv, Quiet, SameView, IsEvent

LEMMA NotFinal ==
    ASSUME TypeOK, HolderInv, WrittenInv, rpc \notin DestroyLabels,
           ~terminatedEventSent
    PROVE  ~TerminatedWritten
  BY DEF WrittenInv

LEMMA NothingHeld ==
    ASSUME HolderInv, rpc # "emit" PROVE ~OutboxHolds(LifecycleNames)
  BY OutboxEmpty DEF HolderInv

(* An event that is handed to the reader to announce.                      *)
LEMMA HandedOver ==
    ASSUME NEW ok, NEW ev, outbox' = <<Response(ok), ev>>, LifecycleEvent(ev)
    PROVE  /\ OutboxHolds(LifecycleNames)'
           /\ \A i \in 1..Len(outbox') : LifecycleEvent(outbox'[i]) => outbox'[i] = ev
  <1>1. /\ 2 \in 1..Len(outbox') /\ outbox'[2] = ev /\ outbox'[1] = Response(ok)
        /\ \A i \in 1..Len(outbox') : i \in {1, 2}
    OBVIOUS
  <1>2. ~LifecycleEvent(Response(ok))
    BY DEF LifecycleEvent, IsEvent, Response
  <1>3. OutboxHolds(LifecycleNames)'
    <2>1. IsEvent(outbox'[2], LifecycleNames)
      BY <1>1 DEF LifecycleEvent
    <2> QED BY <1>1, <2>1 DEF OutboxHolds, IsEvent, LifecycleNames
  <1> QED BY <1>1, <1>2, <1>3, Zenon

(* The continue and step commands: the session is idle, and the client has *)
(* been told of everything.                                                *)
LEMMA UpToDate ==
    ASSUME TypeOK, ControlInv, HolderInv, WrittenInv, LifeInv, Joined,
           rpc \in {"joinContinue", "joinStep", "disconnectJoin"},
           ~terminatedEventSent
    PROVE  /\ ~TerminatedWritten /\ Round = run /\ ~pendingContinue
           /\ Phase \in {"ready", "continued", "stopped"}
           /\ rpc # "disconnectJoin" => Phase \in {"ready", "stopped"}
  <1>1. /\ rpc # "emit" /\ rpc # "initialize" /\ rpc \notin DestroyLabels
        /\ rpc \notin {"acknowledge", "launch"}
    BY DEF DestroyLabels
  <1>2. ~OutboxHolds(LifecycleNames) /\ ~TerminatedWritten
    BY <1>1, NothingHeld, NotFinal
  <1>3. rpc # "disconnectJoin" => Idle
    BY DEF Idle, Joined, ControlInv
  <1>4. ~pendingContinue
    BY <1>1 DEF ControlInv
  <1> QED BY <1>1, <1>2, <1>3, <1>4 DEF LifeInv

LEMMA ContinueLife ==
    ASSUME TypeOK, ControlInv, HolderInv, WrittenInv, LifeInv, Continue, SameView
    PROVE  LifeInv'
  <1> DEFINE ev == EventOf(run + 1, "continued", "none", 0)
  <1>1. /\ rpc = "joinContinue" /\ Joined /\ rpc' = "emit" /\ epc' = "none"
        /\ outbox' = <<Response(TRUE), ev>> /\ run' = run + 1
        /\ pendingContinue' = TRUE /\ sessionState' = "Running"
    BY Zenon DEF Continue, ReaderAt, ReaderTo
  <1>2. ~terminatedEventSent
    BY <1>1 DEF ControlInv, HolderInv
  <1>3. /\ Round = run /\ ~TerminatedWritten /\ Phase \in {"ready", "stopped"}
    BY <1>1, <1>2, UpToDate
  <1>4. LifecycleEvent(ev) /\ ev.run = run' /\ ev.name = "continued"
    BY <1>1 DEF LifecycleEvent, LifecycleNames, IsEvent, EventOf
  <1> HIDE DEF ev
  <1>5. /\ OutboxHolds(LifecycleNames)'
        /\ \A i \in 1..Len(outbox') : LifecycleEvent(outbox'[i]) => outbox'[i] = ev
    BY <1>1, <1>4, HandedOver, Zenon
  <1>6. \A i \in 1..Len(outbox') : LifecycleEvent(outbox[i])' => Announceable(outbox[i])'
    BY <1>1, <1>3, <1>4, <1>5 DEF Announceable, SameView, LifecycleEvent, IsEvent
  <1>7. Phase' \in {"ready", "stopped"}
    BY <1>3 DEF SameView
  <1> QED BY <1>1, <1>5, <1>6, <1>7 DEF LifeInv, Publishing, Idle

LEMMA StepLife ==
    ASSUME TypeOK, ControlInv, HolderInv, WrittenInv, LifeInv, Step, SameView
    PROVE  LifeInv'
  <1> DEFINE ev == StopOrTerminateEvent(run + 1, vmState', lastEvent', "step", 0)
  <1>1. /\ rpc = "joinStep" /\ Joined /\ rpc' = "emit" /\ epc' = "none"
        /\ outbox' = WithEvent(Response(TRUE), ev) /\ run' = run + 1
        /\ pendingContinue' = pendingContinue
    BY Zenon DEF Step, ReaderAt, ReaderTo
  <1>2. ~terminatedEventSent
    BY <1>1 DEF ControlInv, HolderInv
  <1>3. /\ Round = run /\ ~TerminatedWritten /\ Phase \in {"ready", "stopped"}
        /\ ~pendingContinue
    BY <1>1, <1>2, UpToDate
  <1>4. /\ LifecycleEvent(ev) /\ ev.run = run' /\ ev # NoEvent
        /\ ev.name \in {"stopped", "terminated"}
    BY <1>1, <1>2 DEF LifecycleEvent, LifecycleNames, IsEvent, EventOf,
       StopOrTerminateEvent, NoEvent
  <1> HIDE DEF ev
  <1>8. outbox' = <<Response(TRUE), ev>>
    BY <1>1, <1>4, Zenon DEF WithEvent
  <1>5. /\ OutboxHolds(LifecycleNames)'
        /\ \A i \in 1..Len(outbox') : LifecycleEvent(outbox'[i]) => outbox'[i] = ev
    BY <1>8, <1>4, HandedOver, Zenon
  <1>6. \A i \in 1..Len(outbox') : LifecycleEvent(outbox[i])' => Announceable(outbox[i])'
    BY <1>1, <1>3, <1>4, <1>5 DEF Announceable, SameView, LifecycleEvent, IsEvent
  <1>7. Phase' \in {"ready", "stopped"}
    BY <1>3 DEF SameView
  <1> QED BY <1>1, <1>5, <1>6, <1>7 DEF LifeInv, Publishing, Idle

LEMMA DisconnectLife ==
    ASSUME TypeOK, ControlInv, HolderInv, WrittenInv, LifeInv, DisconnectJoin,
           [Next]_vars, SameView
    PROVE  LifeInv'
  <1> DEFINE ev == Event("terminated", "none", 0)
  <1>1. /\ rpc = "disconnectJoin" /\ Joined /\ rpc' = "emit" /\ epc' = "none"
        /\ run' = run /\ pendingContinue' = pendingContinue
        /\ sessionState' = "Terminated"
        /\ outbox' = WithEvent(Response(TRUE),
                               IF terminatedEventSent THEN NoEvent ELSE ev)
    BY Zenon DEF DisconnectJoin, ReaderAt, ReaderTo, atomics
  <1>2. ~pendingContinue /\ ~OutboxHolds(LifecycleNames)
    BY <1>1, NothingHeld DEF ControlInv
  <1>3. ~TerminatedWritten' => ~TerminatedWritten
    BY WrittenStays
  <1>4. /\ LifecycleEvent(ev) /\ ev.run = run /\ ev # NoEvent
        /\ ev.name = "terminated"
    BY DEF LifecycleEvent, LifecycleNames, IsEvent, Event, EventOf, NoEvent
  <1> HIDE DEF ev
  <1>5. CASE terminatedEventSent
    <2>1. outbox' = <<Response(TRUE)>>
      BY <1>1, <1>5, Zenon DEF WithEvent
    <2>2. \A i \in 1..Len(outbox') : ~LifecycleEvent(outbox[i])'
      BY <2>1 DEF LifecycleEvent, IsEvent, Response
    <2> QED
      BY <1>1, <1>2, <1>3, <2>2
         DEF LifeInv, SameView, InRound, InRun, Publishing, Idle
  <1>6. CASE ~terminatedEventSent
    <2>1. outbox' = <<Response(TRUE), ev>>
      BY <1>1, <1>4, <1>6, Zenon DEF WithEvent
    <2>2. /\ OutboxHolds(LifecycleNames)'
          /\ \A i \in 1..Len(outbox') : LifecycleEvent(outbox'[i]) => outbox'[i] = ev
      BY <2>1, <1>4, HandedOver, Zenon
    <2>3. Round = run /\ Phase \in {"ready", "continued", "stopped"}
      BY <1>1, <1>6, UpToDate
    <2>4. \A i \in 1..Len(outbox') : LifecycleEvent(outbox[i])' => Announceable(outbox[i])'
      BY <1>1, <1>2, <1>4, <2>2, <2>3
         DEF Announceable, SameView, LifecycleEvent, IsEvent
    <2> QED
      BY <1>1, <2>2, <2>3, <2>4 DEF LifeInv, SameView, Publishing, Idle
  <1> QED BY <1>5, <1>6

(* The end of a run takes its event over.                                  *)
LEMMA EndLife ==
    ASSUME TypeOK, ControlInv, HolderInv, LifeInv, stopOrTerminateEvent,
           [Next]_vars, SameView
    PROVE  LifeInv'
  <1>1. /\ epc = "event" /\ UNCHANGED <<rpc, run, outbox, pendingContinue,
                                        sessionState>>
        /\ execEvent' = StopOrTerminateEvent(run, vmState, lastEvent,
                                             "continue", stopCause)
        /\ epc' = IF execEvent' = NoEvent THEN "done" ELSE "waitResponse"
    BY Zenon DEF stopOrTerminateEvent, ExecAt, ExecTo, reader
  <1>2. ~OutboxHolds(LifecycleNames) /\ ~pendingContinue
    BY <1>1 DEF HolderInv, ControlInv
  <1>3. Phase = "continued"
    BY <1>1, <1>2 DEF LifeInv, InRound
  <1>4. ~OutboxHolds(LifecycleNames)'
    BY <1>1, <1>2, OutboxKept
  <1>5. \A i \in 1..Len(outbox') : ~LifecycleEvent(outbox[i])'
    BY <1>4 DEF OutboxHolds, LifecycleEvent
  <1>6. ~TerminatedWritten' => ~TerminatedWritten
    BY WrittenStays
  <1>7. CASE execEvent' = NoEvent
    <2>1. vmState = "FINISHED"
      BY <1>1, <1>7 DEF StopOrTerminateEvent, EventOf, NoEvent
    <2>2. sessionState = "Finished" /\ epc' = "done"
      BY <1>1, <1>7, <2>1 DEF ControlInv, SyncedState
    <2> QED
      BY <1>1, <1>2, <1>3, <1>4, <1>5, <1>6, <2>2
         DEF LifeInv, SameView, InRound, InRun, Publishing, Idle
  <1>8. CASE execEvent' # NoEvent
    <2>1. /\ IsEvent(execEvent', {"stopped", "terminated"})
          /\ execEvent'.run = run
      BY <1>1, <1>8 DEF StopOrTerminateEvent, EventOf, IsEvent
    <2>2. epc' = "waitResponse"
      BY <1>1, <1>8
    <2> QED
      BY <1>1, <1>2, <1>3, <1>4, <1>5, <1>6, <2>1, <2>2
         DEF LifeInv, SameView, InRound, InRun, Publishing, Idle, IsEvent
  <1> QED BY <1>7, <1>8

(* What an event the reader writes says.                                   *)
LEMMA HeadFits ==
    ASSUME TypeOK, HolderInv, WrittenInv, LifeInv, EmitNext,
           LifecycleEvent(Head(outbox))
    PROVE  /\ Announceable(Head(outbox)) /\ outbox' = <<>>
           /\ ~OutboxHolds(LifecycleNames)' /\ ~TerminatedWritten
           /\ epc \in {"none", "done"} /\ rpc' = "acknowledge"
           /\ Head(outbox).name \in LifecycleNames
  <1>1. /\ rpc = "emit" /\ outbox # <<>> /\ outbox' = Tail(outbox)
        /\ Len(outbox) = 1 => rpc' = "acknowledge"
    BY DEF EmitNext, ReaderAt, ReaderTo
  <1>2. outbox' = <<>> /\ Len(outbox) = 1 /\ OutboxHolds(LifecycleNames)
    BY <1>1, OutboxTail
  <1>3. Head(outbox) = outbox[1] /\ 1 \in 1..Len(outbox)
    BY <1>1, <1>2 DEF TypeOK
  <1>4. Announceable(Head(outbox))
    BY <1>3 DEF LifeInv
  <1>5. ~OutboxHolds(LifecycleNames)'
    BY <1>2 DEF OutboxHolds
  <1>6. epc \in {"none", "done"} /\ ~TerminatedWritten
    BY <1>2 DEF HolderInv, WrittenInv
  <1> QED BY <1>1, <1>2, <1>4, <1>5, <1>6 DEF LifecycleEvent, IsEvent

LEMMA EmitNextLife ==
    ASSUME TypeOK, ControlInv, HolderInv, WrittenInv, LifeInv, EmitNext,
           [Next]_vars
    PROVE  LifeInv'
  <1>1. /\ rpc = "emit" /\ outbox # <<>> /\ outbox' = Tail(outbox)
        /\ rpc' \in {"emit", "acknowledge"}
        /\ UNCHANGED <<run, pendingContinue, sessionState, epc, execEvent>>
    BY DEF EmitNext, ReaderAt, ReaderTo, atomics, exec
  <1>2. ~TerminatedWritten' => ~TerminatedWritten
    BY WrittenStays
  <1>3. CASE LifecycleEvent(Head(outbox))
    <2>1. /\ Announceable(Head(outbox)) /\ outbox' = <<>>
          /\ ~OutboxHolds(LifecycleNames)' /\ ~TerminatedWritten
          /\ epc \in {"none", "done"}
          /\ Head(outbox).name \in LifecycleNames
      BY <1>3, HeadFits
    <2>2. Phase' = Head(outbox).name /\ Round' = run
      BY <1>3, <2>1, ViewStep DEF View, Announceable
    <2>3. pendingContinue <=> Phase' = "continued"
      BY <2>1, <2>2 DEF Announceable
    <2>4. Phase' \in LifecycleNames /\ Phase' # "ready"
      BY <2>1, <2>2 DEF Announceable
    <2>5. Phase' = "terminated" => TerminatedWritten'
      <3> SUFFICES ASSUME Phase' = "terminated" PROVE TerminatedWritten'
        OBVIOUS
      <3>1. /\ out' = Append(out, Head(outbox)) /\ Head(outbox) \in Message
            /\ out \in Seq(Message)
        BY <1>1, HeadTailProperties, Zenon DEF TypeOK, EmitNext, Emit
      <3>2. IsEvent(Head(outbox), {"terminated"})
        BY <1>3, <2>2 DEF LifecycleEvent, IsEvent
      <3> QED BY <3>1, <3>2, OutAppended
    <2>6. Idle' /\ ~pendingContinue => Phase' # "continued"
      BY <2>3
    <2>7. pendingContinue => ~Idle'
      BY <1>1 DEF ControlInv, Idle
    <2>8. \A i \in 1..Len(outbox') : ~LifecycleEvent(outbox[i])'
      BY <2>1
    <2> QED
      BY <1>1, <2>1, <2>2, <2>3, <2>4, <2>5, <2>6, <2>7, <2>8
         DEF LifeInv, LifecycleNames, InRound, InRun, Publishing
  <1>4. CASE ~LifecycleEvent(Head(outbox))
    <2>1. SameView
      BY <1>4, ViewStep
    <2>2. outbox \in Seq(Message) /\ Len(outbox) \in {1, 2}
      BY <1>1, ShortSequence, Zenon DEF TypeOK, HolderInv
    <2>3. /\ Len(outbox') = Len(outbox) - 1
          /\ \A i \in 1..Len(outbox') : outbox'[i] = outbox[i + 1]
      BY <1>1, <2>2, ShortTail
    <2>4. Head(outbox) = outbox[1]
      BY <1>1, <2>2
    <2>5. OutboxHolds(LifecycleNames)' <=> OutboxHolds(LifecycleNames)
      <3>1. ASSUME NEW i \in 1..Len(outbox), LifecycleEvent(outbox[i])
            PROVE  i = 2 /\ Len(outbox) = 2
        BY <1>4, <2>2, <2>4, <3>1
      <3>2. OutboxHolds(LifecycleNames) => OutboxHolds(LifecycleNames)'
        <4> SUFFICES ASSUME OutboxHolds(LifecycleNames)
                     PROVE  OutboxHolds(LifecycleNames)'
          OBVIOUS
        <4>1. Len(outbox) = 2 /\ LifecycleEvent(outbox[2])
          BY <3>1, HoldsLifecycle
        <4>2. 1 \in 1..Len(outbox') /\ outbox'[1] = outbox[2]
          BY <2>3, <4>1
        <4> QED BY <4>1, <4>2 DEF OutboxHolds, LifecycleEvent, IsEvent, LifecycleNames
      <3> QED BY <1>1, <3>2, OutboxTail
    <2>6. \A i \in 1..Len(outbox') :
              LifecycleEvent(outbox[i])' => Announceable(outbox[i])'
      BY <1>1, <2>1, <2>2, <2>3
         DEF LifeInv, SameView, Announceable, LifecycleEvent, IsEvent
    <2> QED
      BY <1>1, <1>2, <2>1, <2>5, <2>6 DEF LifeInv, SameView, InRound, Idle, IsEvent
  <1> QED BY <1>3, <1>4

LEMMA EmitStopFits ==
    ASSUME ControlInv, HolderInv, WrittenInv, LifeInv, EmitStop
    PROVE  /\ LifecycleEvent(execEvent) /\ execEvent.run = run
           /\ execEvent.name \in {"stopped", "terminated"}
           /\ Phase = "continued" /\ Round = run /\ ~TerminatedWritten
           /\ rpc # "initialize" /\ ~OutboxHolds(LifecycleNames)
  <1>1. epc = "emit"
    BY DEF EmitStop, ExecAt
  <1>2. /\ IsEvent(execEvent, {"stopped", "terminated"})
        /\ execEvent.run = run /\ Phase = "continued"
    BY <1>1 DEF LifeInv, Publishing
  <1>3. LifecycleEvent(execEvent) /\ execEvent # NoEvent
    BY <1>2 DEF LifecycleEvent, LifecycleNames, IsEvent, NoEvent
  <1>4. ~TerminatedWritten /\ ~OutboxHolds(LifecycleNames) /\ rpc # "initialize"
    BY <1>1, <1>3 DEF WrittenInv, HolderInv, ControlInv
  <1>5. Round = run
    BY <1>4 DEF LifeInv
  <1> QED BY <1>2, <1>3, <1>4, <1>5 DEF IsEvent

LEMMA EmitStopLife ==
    ASSUME TypeOK, ControlInv, HolderInv, WrittenInv, LifeInv, EmitStop,
           [Next]_vars
    PROVE  LifeInv'
  <1>1. /\ epc = "emit" /\ epc' = "done"
        /\ UNCHANGED <<run, rpc, pendingContinue, sessionState, outbox>>
    BY Zenon DEF EmitStop, ExecAt, ExecTo, reader, atomics
  <1>2. /\ LifecycleEvent(execEvent) /\ execEvent.run = run
        /\ execEvent.name \in {"stopped", "terminated"}
        /\ rpc # "initialize" /\ ~OutboxHolds(LifecycleNames)
    BY EmitStopFits
  <1>3. Phase' = execEvent.name /\ Round' = run
    BY <1>2, ViewStep DEF View
  <1>4. Phase' = "terminated" => TerminatedWritten'
    <2> SUFFICES ASSUME Phase' = "terminated" PROVE TerminatedWritten'
      OBVIOUS
    <2>1. /\ out' = Append(out, execEvent) /\ execEvent \in Message
          /\ out \in Seq(Message)
      BY Zenon DEF TypeOK, EmitStop, Emit
    <2>2. IsEvent(execEvent, {"terminated"})
      BY <1>2, <1>3 DEF LifecycleEvent, IsEvent
    <2> QED BY <2>1, <2>2, OutAppended
  <1>5. ~OutboxHolds(LifecycleNames)' /\ ~pendingContinue
    BY <1>1, <1>2, OutboxKept DEF ControlInv
  <1>6. \A i \in 1..Len(outbox') : ~LifecycleEvent(outbox[i])'
    BY <1>5 DEF OutboxHolds, LifecycleEvent
  <1> QED
    BY <1>1, <1>2, <1>3, <1>4, <1>5, <1>6
       DEF LifeInv, InRound, InRun, Publishing

LEMMA InitializeLife ==
    ASSUME TypeOK, ControlInv, HolderInv, LifeInv, [Next]_vars,
           InitializeSession \/ InitializeFails
    PROVE  LifeInv'
  <1>1. /\ rpc = "initialize" /\ rpc' # "initialize" /\ epc = "none"
        /\ ~pendingContinue
        /\ UNCHANGED <<run, epc, pendingContinue, outbox, execEvent>>
    BY DEF InitializeSession, InitializeFails, ReaderAt, ReaderTo, ControlInv,
       atomics, exec
  <1>2. outbox = <<>> /\ run = 0
    BY <1>1 DEF HolderInv, LifeInv
  <1>3. \A i \in 1..Len(outbox') : ~LifecycleEvent(outbox[i])'
    BY <1>1, <1>2
  <1>4. CASE InitializeSession
    <2>1. Phase' = "ready" /\ Round' = run
      BY <1>4, ViewStep DEF View
    <2> QED BY <1>1, <1>3, <2>1 DEF LifeInv, InRound, InRun, Publishing
  <1>5. CASE InitializeFails
    <2>1. TerminatedWritten'
      <3> DEFINE e1 == Event("error", "none", 0)
                 e2 == Event("terminated", "none", 0)
      <3>1. e1 \in Message /\ e2 \in Message /\ out' = Append(Append(out, e1), e2)
        BY <1>5, EventType DEF InitializeFails, Event, TypeOK
      <3>2. IsEvent(e2, {"terminated"})
        BY DEF IsEvent, Event, EventOf
      <3> HIDE DEF e1, e2
      <3>3. Append(out, e1) \in Seq(Message)
        BY <3>1 DEF TypeOK
      <3>4. /\ Len(out') = Len(Append(out, e1)) + 1
            /\ Len(Append(out, e1)) \in Nat
            /\ out'[Len(Append(out, e1)) + 1] = e2
        BY <3>1, <3>3, AppendElements, Zenon
      <3>5. IsEvent(out'[Len(out')], {"terminated"}) /\ Len(out') \in 1..Len(out')
        BY <3>2, <3>4
      <3> QED BY <3>5, Zenon DEF TerminatedWritten, IsEvent
    <2> QED BY <1>1, <1>3, <2>1 DEF LifeInv, InRound, InRun, Publishing
  <1> QED BY <1>4, <1>5

LEMMA LifeStep ==
    TypeOK /\ ControlInv /\ HolderInv /\ WrittenInv /\ LifeInv /\ [Next]_vars
        => LifeInv'
  <1> SUFFICES ASSUME TypeOK, ControlInv, HolderInv, WrittenInv, LifeInv,
                      [Next]_vars
               PROVE  LifeInv'
    OBVIOUS
  <1>1. CASE InitializeSession \/ InitializeFails
    BY <1>1, InitializeLife
  <1>2. CASE EmitNext
    BY <1>2, EmitNextLife
  <1>3. CASE EmitStop
    BY <1>3, EmitStopLife
  <1>4. CASE ~InitializeSession /\ ~InitializeFails /\ ~EmitNext /\ ~EmitStop
    <2>1. SameView
      BY <1>4, ViewStep
    <2>2. CASE Loud
      BY <1>4, <2>1, <2>2, ContinueLife, StepLife, DisconnectLife, EndLife DEF Loud
    <2>3. CASE ~Loud
      BY <2>1, <2>3, QuietSteps, QuietLife
    <2> QED BY <2>2, <2>3
  <1> QED BY <1>1, <1>2, <1>3, <1>4

LEMMA InitLife == Init => LifeInv
  <1> SUFFICES ASSUME Init PROVE LifeInv
    OBVIOUS
  <1>1. LifecycleAt = {} /\ outbox = <<>>
    BY DEF Init, LifecycleAt
  <1> QED BY <1>1 DEF Init, LifeInv, InRound, InRun, Publishing

(* IndInv as a whole is an invariant of the server.                        *)
THEOREM Inductive == Spec => []IndInv
  <1>1. Init => HolderInv /\ WrittenInv /\ LateInv /\ PauseInv /\ LifeInv
    BY InitHolder, InitWritten, InitPause, InitLife DEF Init, LateInv
  <1>2. TypeOK /\ ControlInv /\ HolderInv /\ WrittenInv /\ LateInv /\ PauseInv
        /\ LifeInv /\ [Next]_vars
        => HolderInv' /\ WrittenInv' /\ LateInv' /\ PauseInv' /\ LifeInv'
    BY HolderStep, WrittenStep, LateStep, PauseStep, LifeStep
  <1>3. TypeOK /\ ControlInv /\ HolderInv /\ WrittenInv /\ TerminatedIsFinal
        /\ LateInv /\ PauseInv /\ LifeInv => IndInv
    BY DEF IndInv
  <1> QED
    BY <1>1, <1>2, <1>3, TypeCorrect, ControlCorrect, TerminatedOnce,
       PTL DEF Spec

(* Every step of the server is a step of the protocol, or stutters.        *)
LEMMA ProtocolStep ==
    IndInv /\ [Next]_vars => [Protocol!Next]_(Protocol!vars)
  <1> SUFFICES ASSUME IndInv, [Next]_vars
               PROVE  [Protocol!Next]_(Protocol!vars)
    OBVIOUS
  <1>0. TypeOK /\ ControlInv /\ HolderInv /\ WrittenInv /\ LifeInv
    BY DEF IndInv
  <1>a. ASSUME SameView PROVE UNCHANGED Protocol!vars
    BY <1>a DEF SameView, Protocol!vars
  <1>b. ASSUME NEW p, NEW r, View(p, r) PROVE Protocol!Announce(p, r)
    BY <1>b DEF View, Protocol!Announce
  <1>1. CASE InitializeSession
    <2>1. View("ready", 0) /\ Phase = "none"
      BY <1>0, <1>1, ViewStep DEF LifeInv, InitializeSession, ReaderAt, Phase
    <2> QED BY <1>b, <2>1 DEF Protocol!Next, Protocol!Ready
  <1>2. CASE InitializeFails
    <2>1. View("terminated", 0) /\ Phase = "none" /\ Round = 0
      BY <1>0, <1>2, ViewStep
         DEF LifeInv, InitializeFails, ReaderAt, Phase, Round
    <2>2. Protocol!Announce("terminated", Round)
      BY <1>b, <2>1
    <2> QED BY <2>1, <2>2 DEF Protocol!Next, Protocol!Terminate
  <1>3. CASE EmitNext
    <2>1. CASE LifecycleEvent(Head(outbox))
      <3>1. /\ Announceable(Head(outbox)) /\ ~TerminatedWritten
            /\ Head(outbox).name \in LifecycleNames
            /\ rpc # "initialize"
        BY <1>0, <1>3, <2>1, HeadFits DEF EmitNext, ReaderAt
      <3>2. View(Head(outbox).name, run)
        BY <1>0, <1>3, <2>1, <3>1, ViewStep DEF Announceable
      <3>3. Phase # "terminated"
        BY <1>0, <3>1 DEF LifeInv
      <3>4. Protocol!Announce(Head(outbox).name, run)
        BY <1>b, <3>2
      <3> QED
        BY <3>1, <3>3, <3>4
           DEF Announceable, LifecycleNames, Protocol!Next, Protocol!Continue,
               Protocol!StepStop, Protocol!Terminate, Protocol!Halted
    <2>2. CASE ~LifecycleEvent(Head(outbox))
      BY <1>0, <1>3, <1>a, <2>2, ViewStep
    <2> QED BY <2>1, <2>2
  <1>4. CASE EmitStop
    <2>1. /\ LifecycleEvent(execEvent) /\ execEvent.run = run
          /\ execEvent.name \in {"stopped", "terminated"}
          /\ Phase = "continued" /\ Round = run
      BY <1>0, <1>4, EmitStopFits
    <2>2. Protocol!Announce(execEvent.name, Round)
      BY <1>0, <1>4, <1>b, <2>1, ViewStep
    <2> QED
      BY <2>1, <2>2 DEF Protocol!Next, Protocol!Stop, Protocol!Terminate
  <1>5. CASE ~InitializeSession /\ ~InitializeFails /\ ~EmitNext /\ ~EmitStop
    BY <1>0, <1>5, <1>a, ViewStep
  <1> QED BY <1>1, <1>2, <1>3, <1>4, <1>5

(* The server implements the protocol its clients are written against: a   *)
(* round is announced when the one before has ended, each ends once, and   *)
(* "terminated" ends all.                                                  *)
THEOREM Refinement == Spec => ImplementsProtocol
  <1>1. Init => Protocol!Init
    <2> SUFFICES ASSUME Init PROVE Protocol!Init
      OBVIOUS
    <2>1. LifecycleAt = {}
      BY DEF Init, LifecycleAt
    <2> QED BY <2>1, FS_EmptySet DEF Protocol!Init, Phase, Round
  <1> QED
    BY <1>1, Inductive, ProtocolStep, PTL
       DEF Spec, ImplementsProtocol, Protocol!Spec
-----------------------------------------------------------------------------
(* Only a reader without an execution thread starts or steps the VM.       *)
THEOREM MovesAlone == Spec => [][ReaderMovesVMAlone]_vars
  <1>1. [Next]_vars => ReaderMovesVMAlone
    <2> SUFFICES ASSUME [Next]_vars, rpc' # rpc, vm' # vm
                 PROVE  epc \in {"none", "done"}
      BY DEF ReaderMovesVMAlone
    <2>1. ~(Executor \/ SpuriousWakeup \/ Exited \/ UNCHANGED vars)
      BY Zenon DEF Executor, SpuriousWakeup, RunStart, RunLoop, PollPause,
         BreakpointHit, ExecuteInstruction, CheckDisconnect,
         syncSessionStateFromVm, stopOrTerminateEvent, waitForPauseResponse,
         Sleep, EmitStop, Exited, reader, vars
    <2>2. ~Client
      BY Zenon DEF Client, ReadMalformed, EndOfInput, ReadRequest
    <2>3. Continue \/ Step
      BY <2>1, <2>2, Zenon DEF Next, Reader, InitializeSession,
         InitializeFails, Refuse, Accept, Inspect, SetBreakpoints,
         PauseMarkPending, PauseRequest, Disconnect, DisconnectNotify,
         DisconnectStop, DisconnectJoin, EmitNext, acknowledgeRequest,
         AcknowledgeNotify, startPendingExecution, Destroy, DestroyNotify,
         DestroyStop, DestroyJoin
    <2> QED BY <2>3 DEF Continue, Step, Joined
  <1> QED BY <1>1, PTL DEF Spec

(* Reader and execution thread never use the VM or the breakpoints at once.*)
THEOREM OneUser == Spec => VMHasOneUser
  BY NoAccess, MovesAlone, PTL DEF VMHasOneUser
=============================================================================
