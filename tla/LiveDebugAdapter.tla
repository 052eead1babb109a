--------------------------- MODULE LiveDebugAdapter ---------------------------
(***************************************************************************)
(* The Live VM debug adapter of the VS Code extension,                     *)
(* tools/vscode_stack_visualizer/extension.js, between three parties:      *)
(*                                                                         *)
(*   the DAP client   sends requests, expects one response to each, and    *)
(*                    events in an order it can follow                     *)
(*   the adapter      one JavaScript thread: a callback runs to its end,   *)
(*                    then the continuations of settled promises, then the *)
(*                    next callback                                        *)
(*   the server       a child process behind two pipes, which may crash,   *)
(*                    hang or be killed at any time                        *)
(*                                                                         *)
(* The server is the one of LiveDebugSession, reduced to its session state *)
(* and to what it writes; the stop event of a run and the response to a    *)
(* pause may be written in either order.                                   *)
(***************************************************************************)
EXTENDS Naturals, Sequences, FiniteSets

CONSTANT MaxRequests   \* bound: DAP requests after the launch
ASSUME MaxRequestsAssumption == MaxRequests \in Nat

VARIABLES
    adapter,    \* the fields of AtomicProofLiveDebugAdapter
    handlers,   \* the handler of each DAP request, in the order of the requests
    process,    \* the child process
    stdout,     \* lines it has written that the adapter has not read
    session,    \* LiveDebugSession::m_sessionState
    stopEvent,  \* the event the server's execution thread is about to write
    answering,  \* a pause the server has accepted and not yet answered: its seq
    dap         \* the responses and events the client has been sent

vars == <<adapter, handlers, process, stdout, session, stopEvent, answering, dap>>
server == <<session, stopEvent, answering>>

Steps      == {"step"}                        \* next, stepIn, stepOut
Executions == Steps \cup {"continue", "pause"}
Commands   == Executions \cup
              {"configurationDone", "inspect", "disconnect", "terminate"}
ExecutionStates == {"created", "starting", "paused", "running", "error",
                    "terminated"}

Event(name) == [type |-> "event", name |-> name, request |-> 0, ok |-> TRUE]

(* Lines of the server: a response to protocol request seq, or an event.   *)
Answer(seq, ok) == [type |-> "response", name |-> "none", seq |-> seq, ok |-> ok]
Line(event) == [type |-> "event", name |-> event, seq |-> 0, ok |-> TRUE]
NoLine == Line("none")
-----------------------------------------------------------------------------
(***************************************************************************)
(* The adapter's methods, as functions of its state. A state is the record *)
(* "adapter" together with the handlers and the output: a.h and a.dap.     *)
(***************************************************************************)
State == [f |-> adapter, h |-> handlers, dap |-> dap, kill |-> FALSE]

Becomes(a) ==
    /\ adapter' = a.f /\ handlers' = a.h /\ dap' = a.dap

(* A kill takes effect when the system delivers it: see Exit.              *)
MayKill(a) == process' = IF a.kill /\ process \in {"starting", "up"}
                         THEN "killed" ELSE process

(* Nothing reaches the client of an adapter that has been disposed of.     *)
Send(a, messages) ==
    IF a.f.disposed THEN a ELSE [a EXCEPT !.dap = @ \o messages]
sendEvent(a, name) == Send(a, <<Event(name)>>)

(* A handler that has nothing left to do has answered its request.         *)
Response(a, r, ok) ==
    [type |-> "response", name |-> a.h[r].command, request |-> r, ok |-> ok]
Reply(a, r, ok) ==
    [Send(a, <<Response(a, r, ok)>>)
        EXCEPT !.h[r].stage = "done", !.h[r].ok = ok]

(* The promise that handler r waits for is settled: its continuation is    *)
(* queued.                                                                 *)
Task(r, ok) == [request |-> r, ok |-> ok]
Settle(a, r, ok) == [a EXCEPT !.f.microtasks = Append(@, Task(r, ok))]

settleReady(a, ok) ==
    IF a.f.ready
    THEN [Settle(a, 1, ok) EXCEPT !.f.ready = FALSE]
    ELSE a

Rejections(pending) ==
    [i \in 1..Len(pending) |-> Task(pending[i].request, FALSE)]
rejectPending(a) ==
    [a EXCEPT !.f.microtasks = @ \o Rejections(a.f.pending), !.f.pending = <<>>]

MutStopForgets(a) ==
    [rejectPending(settleReady(a, FALSE)) EXCEPT !.f.child = FALSE]
stopChild(a) ==
    LET b == rejectPending(settleReady(a, FALSE))
    IN  [b EXCEPT !.f.child = FALSE, !.kill = b.f.child \/ @]

(* A response names the request it answers; one that is no longer pending  *)
(* is dropped.                                                             *)
Without(s, i) == SubSeq(s, 1, i - 1) \o SubSeq(s, i + 1, Len(s))
SettlePending(a, i, ok) ==
    [Settle(a, a.f.pending[i].request, ok) EXCEPT !.f.pending = Without(@, i)]

HandleAnswer(a, line) ==
    LET matching == {i \in 1..Len(a.f.pending) : a.f.pending[i].seq = line.seq}
    IN  IF matching = {} THEN a
        ELSE SettlePending(a, CHOOSE i \in matching : TRUE, line.ok)

MutTerminates(a) ==
    [sendEvent(a, "terminated") EXCEPT !.f.executionState = "terminated"]
Terminates(a) ==
    IF a.f.terminated THEN a
    ELSE [sendEvent(a, "terminated")
             EXCEPT !.f.terminated = TRUE, !.f.executionState = "terminated"]

(* Events that say where the session is. After "terminated" the client     *)
(* hears of none.                                                          *)
Deferrable == {"continued", "stopped", "exception", "terminated"}

Shown(name) == IF name = "exception" THEN "stopped" ELSE name
StateAfter(name) == CASE name = "stopped"    -> "paused"
                      [] name = "exception"  -> "error"
                      [] name = "continued"  -> "running"
                      [] name = "terminated" -> "terminated"

Ends(names) == {i \in 1..Len(names) : names[i] = "terminated"}
Heard(names) ==
    IF Ends(names) = {} THEN names
    ELSE SubSeq(names, 1, CHOOSE i \in Ends(names) : \A j \in Ends(names) : i <= j)

(* handleProtocolEvent, after the deferral, of each event in turn.         *)
Tell(a, names) ==
    [Send(a, [i \in 1..Len(names) |-> Event(Shown(names[i]))])
        EXCEPT !.f.executionState = StateAfter(names[Len(names)]),
               !.f.terminated = (names[Len(names)] = "terminated")]
ApplyEvents(a, names) ==
    IF a.f.terminated \/ names = <<>> THEN a ELSE Tell(a, Heard(names))

ApplyEvent(a, name) ==
    CASE name \in Deferrable -> ApplyEvents(a, <<name>>)
      [] name = "ready" -> settleReady(a, TRUE)
      [] name = "error" -> IF a.f.terminated THEN a ELSE settleReady(a, FALSE)

Defer(a, name) == [a EXCEPT !.f.deferred = Append(@, name)]

MutNoDeferral(a, line) == ApplyEvent(a, line.name)
handleProtocolEvent(a, line) ==
    IF a.f.deferrals > 0 /\ line.name \in Deferrable
    THEN Defer(a, line.name)
    ELSE ApplyEvent(a, line.name)

handleProtocolLine(a, line) ==
    IF line.type = "response" THEN HandleAnswer(a, line)
                              ELSE handleProtocolEvent(a, line)

beginDeferral(a) == [a EXCEPT !.f.deferrals = @ + 1]

endDeferral(a) ==
    LET b == [a EXCEPT !.f.deferrals = IF @ > 0 THEN @ - 1 ELSE 0]
    IN  IF b.f.deferrals > 0 THEN b
        ELSE ApplyEvents([b EXCEPT !.f.deferred = <<>>], a.f.deferred)

(* A request to the server on behalf of handler r, or a rejected promise   *)
(* when there is no server to write to: the input of a process is closed   *)
(* as soon as its exit has been seen.                                      *)
sendProtocolRequest(a, r, command) ==
    IF ~a.f.child \/ process \in {"reaped", "closed"}
    THEN [Settle(a, r, FALSE) EXCEPT !.h[r].stage = "reply"]
    ELSE [a EXCEPT !.f.protocolSeq = @ + 1,
                   !.f.pending = Append(@, [seq |-> a.f.protocolSeq, request |-> r]),
                   !.f.stdin = Append(@, [seq |-> a.f.protocolSeq, command |-> command]),
                   !.h[r].stage = "reply"]
-----------------------------------------------------------------------------
(***************************************************************************)
(* DAP requests: the handlers up to their first await.                     *)
(***************************************************************************)
NewHandler(command) == [command |-> command, stage |-> "new", ok |-> TRUE,
                        previous |-> adapter.executionState]

(* The request becomes the last handler, which "begin" then starts.        *)
Received(command) == [State EXCEPT !.h = Append(@, NewHandler(command))]

(* No callback is running and no continuation is queued.                   *)
Idle == adapter.microtasks = <<>> /\ ~adapter.reading

Init ==
    /\ adapter = [child |-> TRUE, ready |-> TRUE, executionState |-> "starting",
                  terminated |-> FALSE, entryStoppedSent |-> FALSE,
                  deferrals |-> 0, deferred |-> <<>>, pending |-> <<>>,
                  protocolSeq |-> 1, stdin |-> <<>>, microtasks |-> <<>>,
                  waiting |-> <<>>, reading |-> FALSE, disposed |-> FALSE]
    /\ handlers = <<[command |-> "launch", stage |-> "ready", ok |-> TRUE,
                     previous |-> "created"]>>
    /\ process = "starting"
    /\ stdout = <<>> /\ dap = <<>>
    /\ session = "Ready" /\ stopEvent = NoLine /\ answering = 0

(* The client sends what its user asks for once the session is set up.     *)
SetUp == handlers[1].stage = "done" /\ handlers[1].ok
MayRequest ==
    /\ Idle /\ ~adapter.disposed
    /\ SetUp /\ Len(handlers) <= MaxRequests

(* It does so once, before it executes or ends anything.                   *)
ConfigurationDone ==
    /\ MayRequest
    /\ \A r \in 1..Len(handlers) : handlers[r].command \in {"launch", "inspect"}
    /\ LET a == Received("configurationDone")
           b == Reply(a, Len(a.h), TRUE)
       IN  Becomes(IF b.f.entryStoppedSent \/ b.f.terminated THEN b
                   ELSE [sendEvent(b, "stopped")
                            EXCEPT !.f.entryStoppedSent = TRUE,
                                   !.f.executionState = "paused"])
    /\ UNCHANGED <<process, stdout, server>>

(* stackTrace, variables, evaluate and setBreakpoints: without a server    *)
(* the first, third and last answer from what the adapter has.             *)
Inspect ==
    /\ MayRequest
    /\ LET a == Received("inspect")
           r == Len(a.h)
       IN  \/ ~a.f.child /\ Becomes(Reply(a, r, TRUE))
           \/ Becomes(sendProtocolRequest(a, r, "inspect"))
    /\ UNCHANGED <<process, stdout, server>>

Refused(command) ==
    IF command = "pause" THEN adapter.executionState # "running"
    ELSE adapter.executionState \in {"running", "error"} \/ adapter.terminated

(* The user steps, continues or pauses a session that has been entered.    *)
handleExecutionCommand(command) ==
    /\ MayRequest /\ adapter.entryStoppedSent
    /\ LET a == Received(command)
           r == Len(a.h)
           b == IF command = "pause" THEN a
                ELSE [a EXCEPT !.f.executionState = "running"]
       IN  Becomes(IF Refused(command) THEN Reply(a, r, FALSE)
                   ELSE sendProtocolRequest(beginDeferral(b), r, command))
    /\ UNCHANGED <<process, stdout, server>>

handleDisconnect(command) ==
    /\ MayRequest
    /\ LET a == beginDeferral(Received(command))
           r == Len(a.h)
       IN  Becomes(IF a.f.child THEN sendProtocolRequest(a, r, command)
                   ELSE IF command = "disconnect"
                   THEN endDeferral(Reply(a, r, TRUE))
                   ELSE Terminates(endDeferral(Reply(a, r, TRUE))))
    /\ UNCHANGED <<process, stdout, server>>

Dispose ==
    /\ Idle /\ ~adapter.disposed
    /\ LET a == stopChild(State)
       IN  Becomes([a EXCEPT !.f.disposed = TRUE]) /\ MayKill(a)
    /\ UNCHANGED <<stdout, server>>
-----------------------------------------------------------------------------
(***************************************************************************)
(* Continuations: what the handler of request r does once its promise is   *)
(* settled.                                                                *)
(***************************************************************************)
LaunchContinues(a, r, ok) ==
    IF ~ok THEN Reply(stopChild(a), r, FALSE)
    ELSE IF a.h[r].stage = "ready"
    THEN sendProtocolRequest(a, r, "initialize")
    ELSE sendEvent(Reply([a EXCEPT !.f.executionState = "paused"], r, TRUE),
                   "initialized")

MutExecutionForgets(a, r, ok) ==
    IF ok THEN endDeferral(Reply(a, r, TRUE))
    ELSE Reply([a EXCEPT !.f.executionState = a.h[r].previous], r, FALSE)
ExecutionContinues(a, r, ok) ==
    IF ok THEN endDeferral(Reply(a, r, TRUE))
    ELSE Reply(endDeferral([a EXCEPT !.f.executionState = a.h[r].previous]),
               r, FALSE)

DisconnectContinues(a, r, ok) ==
    IF ok THEN endDeferral(Reply(a, r, TRUE))
    ELSE Reply(endDeferral(stopChild(a)), r, FALSE)

(* terminate also waits for the child to exit, and then makes sure of it.  *)
TerminateContinues(a, r, ok) ==
    IF ~ok THEN Reply(endDeferral(stopChild(a)), r, FALSE)
    ELSE IF a.h[r].stage = "reply" /\ a.f.child
    THEN IF process \in {"starting", "up", "killed", "exited"}
         THEN [a EXCEPT !.h[r].stage = "exit", !.f.waiting = Append(@, Task(r, TRUE))]
         ELSE [Settle(a, r, TRUE) EXCEPT !.h[r].stage = "exit"]
    ELSE LET b == endDeferral(Reply(a, r, TRUE))
         IN  IF b.f.terminated THEN b
             ELSE Terminates(rejectPending(b))

Continue ==
    /\ adapter.microtasks # <<>> /\ ~adapter.reading
    /\ LET r == Head(adapter.microtasks).request
           ok == Head(adapter.microtasks).ok
           a == [State EXCEPT !.f.microtasks = Tail(@)]
           b == CASE a.h[r].command = "launch"      -> LaunchContinues(a, r, ok)
                  [] a.h[r].command = "inspect"     -> Reply(a, r, ok)
                  [] a.h[r].command \in Executions  -> ExecutionContinues(a, r, ok)
                  [] a.h[r].command = "disconnect"  -> DisconnectContinues(a, r, ok)
                  [] a.h[r].command = "terminate"   -> TerminateContinues(a, r, ok)
       IN  Becomes(b) /\ MayKill(b)
    /\ UNCHANGED <<stdout, server>>
-----------------------------------------------------------------------------
(***************************************************************************)
(* Callbacks of the child process and of timers.                           *)
(***************************************************************************)
(* A chunk of output is handled line by line without interruption.         *)
handleStdout ==
    /\ Idle \/ adapter.reading
    /\ stdout # <<>>
    /\ \E more \in {FALSE, Len(stdout) > 1} :
           Becomes([handleProtocolLine(State, Head(stdout)) EXCEPT !.f.reading = more])
    /\ stdout' = Tail(stdout)
    /\ UNCHANGED <<process, server>>

(* An unanswered request times out: the server is stopped.                 *)
TimesOut(a, i) == stopChild(SettlePending(a, i, FALSE))

RequestTimeout ==
    /\ Idle
    /\ \E i \in 1..Len(adapter.pending) :
           LET a == TimesOut(State, i)
           IN  Becomes(a) /\ MayKill(a)
    /\ UNCHANGED <<stdout, server>>

ReadyTimeout ==
    /\ Idle /\ adapter.ready
    /\ LET a == stopChild(State) IN Becomes(a) /\ MayKill(a)
    /\ UNCHANGED <<stdout, server>>

(* waitForChildExit gives up after a second.                               *)
Resumes(a, i) ==
    [a EXCEPT !.f.microtasks = Append(@, a.f.waiting[i]), !.f.waiting = Without(@, i)]

ExitTimeout ==
    /\ Idle
    /\ \E i \in 1..Len(adapter.waiting) :
           LET a == IF adapter.child THEN stopChild(State) ELSE State
           IN  Becomes(Resumes(a, i)) /\ MayKill(a)
    /\ UNCHANGED <<stdout, server>>

(* A line could not be written to a process that is gone.                  *)
WriteFails ==
    /\ Idle /\ process \in {"exited", "reaped"}
    /\ \E i \in 1..Len(adapter.pending) :
           LET a == TimesOut(State, i)
           IN  Becomes(a) /\ MayKill(a)
    /\ UNCHANGED <<stdout, server>>

(* The child's "error" event: it could not be started.                     *)
SpawnFails ==
    /\ Idle /\ process = "starting"
    /\ Becomes(settleReady(rejectPending(State), FALSE))
    /\ process' = "reaped"
    /\ UNCHANGED <<stdout, server>>

(* Node notices that the child has exited.                                 *)
ExitSeen ==
    /\ Idle /\ process = "exited"
    /\ process' = "reaped"
    /\ UNCHANGED <<adapter, handlers, stdout, server, dap>>

(* The child's "close" event, after all of its output.                     *)
Closes(a) ==
    LET b == settleReady(rejectPending([a EXCEPT !.f.child = FALSE]), FALSE)
    IN  IF b.f.terminated THEN b
        ELSE IF b.f.deferrals > 0
        THEN Defer(b, "terminated")
        ELSE Terminates(b)

(* Handlers that wait for the exit resume, in the order they registered.   *)
AllResume(a) == [a EXCEPT !.f.microtasks = @ \o a.f.waiting, !.f.waiting = <<>>]

Close ==
    /\ Idle /\ process = "reaped" /\ stdout = <<>>
    /\ process' = "closed"
    /\ Becomes(AllResume(Closes(State)))
    /\ UNCHANGED <<stdout, server>>
-----------------------------------------------------------------------------
(***************************************************************************)
(* The server, as LiveDebugSession has it.                                 *)
(***************************************************************************)
Alive == process \in {"up", "killed"}
Write(lines) == stdout' = stdout \o lines
Take == adapter' = [adapter EXCEPT !.stdin = Tail(@)]
Asked(command) ==
    /\ Alive /\ answering = 0
    /\ adapter.stdin # <<>> /\ Head(adapter.stdin).command = command
Seq1 == Head(adapter.stdin).seq
Joined == stopEvent = NoLine

ServerStarts ==
    /\ process = "starting"
    /\ \/ process' = "up" /\ Write(<<Line("ready")>>)
       \/ process' = "exited" /\ Write(<<Line("error"), Line("terminated")>>)
    /\ UNCHANGED <<adapter, handlers, server, dap>>

ServerInspects ==
    /\ Asked("inspect") \/ Asked("initialize")
    /\ Take /\ Write(<<Answer(Seq1, session # "Running")>>)
    /\ UNCHANGED <<handlers, process, server, dap>>

CanExecute == session \in {"Ready", "Paused"}

ServerRefuses ==
    /\ \/ \E c \in Steps \cup {"continue"} : Asked(c) /\ ~CanExecute
       \/ Asked("pause") /\ session # "Running"
    /\ Take /\ Write(<<Answer(Seq1, FALSE)>>)
    /\ UNCHANGED <<handlers, process, server, dap>>

ServerContinues ==
    /\ Asked("continue") /\ CanExecute /\ Joined
    /\ session' = "Running"
    /\ Take /\ Write(<<Answer(Seq1, TRUE), Line("continued")>>)
    /\ UNCHANGED <<handlers, process, stopEvent, answering, dap>>

(* How a step or a run ends, and the event that says so.                   *)
Outcomes == {<<"Paused", "stopped">>, <<"Error", "exception">>,
             <<"Finished", "terminated">>}

ServerSteps ==
    /\ \E c \in Steps : Asked(c)
    /\ CanExecute /\ Joined
    /\ \E o \in Outcomes :
           session' = o[1] /\ Write(<<Answer(Seq1, TRUE), Line(o[2])>>)
    /\ Take
    /\ UNCHANGED <<handlers, process, stopEvent, answering, dap>>

ServerTakesPause ==
    /\ Asked("pause") /\ session = "Running"
    /\ answering' = Seq1 /\ Take
    /\ UNCHANGED <<handlers, process, stdout, session, stopEvent, dap>>

ServerAnswersPause ==
    /\ Alive /\ answering # 0
    /\ Write(<<Answer(answering, TRUE)>>) /\ answering' = 0
    /\ UNCHANGED <<adapter, handlers, process, session, stopEvent, dap>>

RunEnds ==
    /\ Alive /\ session = "Running"
    /\ \E o \in Outcomes : session' = o[1] /\ stopEvent' = Line(o[2])
    /\ UNCHANGED <<adapter, handlers, process, stdout, answering, dap>>

RunReports ==
    /\ Alive /\ stopEvent # NoLine
    /\ Write(<<stopEvent>>) /\ stopEvent' = NoLine
    /\ UNCHANGED <<adapter, handlers, process, session, answering, dap>>

(* disconnect and terminate: "terminated" unless it has been written.      *)
ServerDisconnects ==
    /\ Asked("disconnect") \/ Asked("terminate")
    /\ Joined
    /\ Take
    /\ Write(<<Answer(Seq1, TRUE)>> \o
             (IF session = "Finished" THEN <<>> ELSE <<Line("terminated")>>))
    /\ session' = "Terminated"
    /\ process' = "exited"
    /\ UNCHANGED <<handlers, stopEvent, answering, dap>>

(* The process crashes, or a kill is delivered.                            *)
Exit ==
    /\ process \in {"starting", "up", "killed"}
    /\ process' = "exited"
    /\ UNCHANGED <<adapter, handlers, stdout, server, dap>>
-----------------------------------------------------------------------------
Client ==
    \/ ConfigurationDone \/ Inspect
    \/ \E c \in Executions : handleExecutionCommand(c)
    \/ \E c \in {"disconnect", "terminate"} : handleDisconnect(c)
    \/ Dispose

Timers == RequestTimeout \/ ReadyTimeout \/ ExitTimeout

Callbacks == handleStdout \/ ExitSeen \/ Close \/ SpawnFails \/ WriteFails

Server ==
    \/ ServerStarts \/ ServerInspects \/ ServerRefuses \/ ServerContinues
    \/ ServerSteps \/ ServerTakesPause \/ ServerAnswersPause
    \/ RunEnds \/ RunReports \/ ServerDisconnects

Next == Client \/ Continue \/ Timers \/ Callbacks \/ Server \/ Exit

Spec == Init /\ [][Next]_vars

(* The JavaScript thread runs what is ready to run, timers fire, and a     *)
(* killed process exits (SIGKILL follows SIGTERM). The server owes nothing:*)
(* it may hang.                                                            *)
Fairness ==
    /\ WF_vars(Continue)
    /\ WF_vars(handleStdout) /\ WF_vars(ExitSeen) /\ WF_vars(Close)
    /\ WF_vars(RequestTimeout) /\ WF_vars(ReadyTimeout) /\ WF_vars(ExitTimeout)
    /\ WF_vars(process = "killed" /\ Exit)

FairSpec == Spec /\ Fairness
-----------------------------------------------------------------------------
(***************************************************************************)
(* Properties.                                                             *)
(***************************************************************************)
Lines == [type : {"response"}, name : {"none"}, seq : Nat, ok : BOOLEAN] \cup
         [type : {"event"}, name : {"ready", "error"} \cup Deferrable,
          seq : {0}, ok : {TRUE}]
Tasks   == [request : Nat, ok : BOOLEAN]
Entries == [seq : Nat, request : Nat]
Fields ==
    [child : BOOLEAN, ready : BOOLEAN, executionState : ExecutionStates,
     terminated : BOOLEAN, entryStoppedSent : BOOLEAN,
     deferrals : Nat, deferred : Seq(Deferrable),
     pending : Seq(Entries), protocolSeq : Nat,
     stdin : Seq([seq : Nat, command : Commands \cup {"initialize"}]),
     microtasks : Seq(Tasks), waiting : Seq(Tasks),
     reading : BOOLEAN, disposed : BOOLEAN]
Handlers ==
    [command : Commands \cup {"launch"}, stage : {"new", "ready", "reply", "exit", "done"},
     ok : BOOLEAN, previous : ExecutionStates]
Messages ==
    [type : {"response", "event"},
     name : Commands \cup Deferrable \cup {"launch", "initialized"},
     request : Nat, ok : BOOLEAN]

(* The variables keep their types.                                         *)
TypeOK ==
    /\ adapter \in Fields /\ handlers \in Seq(Handlers) /\ dap \in Seq(Messages)
    /\ process \in {"starting", "up", "killed", "exited", "reaped", "closed"}
    /\ stdout \in Seq(Lines) /\ stopEvent \in Lines \cup {NoLine}
    /\ session \in {"Ready", "Running", "Paused", "Finished", "Error", "Terminated"}
    /\ answering \in Nat

IsEvent(m, names) == m.type = "event" /\ m.name \in names
Events == {"initialized", "continued", "stopped", "terminated"}

(* The server, its exit and a terminate request each announce the end: the *)
(* client hears of it once, and of nothing after it.                       *)
EndsOnce(messages) ==
    \A i, j \in 1..Len(messages) :
        i < j /\ IsEvent(messages[i], {"terminated"}) => ~IsEvent(messages[j], Events)
TerminatedIsLast == EndsOnce(dap)

(* Every request has one response, however its server answers, times out,  *)
(* crashes or is killed.                                                   *)
Answers(m, r) == m.type = "response" /\ m.request = r
ResponsesOf(r) == {i \in 1..Len(dap) : Answers(dap[i], r)}
AnsweredOnce ==
    \A r \in 1..Len(handlers) :
        /\ \A i, j \in ResponsesOf(r) : i = j
        /\ ~adapter.disposed => (ResponsesOf(r) # {} <=> handlers[r].stage = "done")

(* What several parties could say is said once: by the handler, a timer, a *)
(* write error or the close of the child; by the server, its exit or a     *)
(* terminate request.                                                      *)
ClientHearsOnce == TypeOK /\ TerminatedIsLast /\ AnsweredOnce

(* While a command that moves or ends the session is unanswered, the client*)
(* is not told that the session moved: such events follow its response, or *)
(* come together with the error that it has failed.                        *)
Awaiting(r) ==
    /\ handlers[r].command \in Executions \cup {"disconnect", "terminate"}
    /\ handlers[r].stage \in {"reply", "exit"}
EventsFollowResponses ==
    [][ \A r \in 1..Len(handlers), i \in Len(dap) + 1 .. Len(dap') :
            Awaiting(r) /\ IsEvent(dap'[i], {"continued", "stopped"})
            => \E j \in ResponsesOf(r)' : j < i \/ ~dap'[j].ok ]_vars

(* When nothing is on its way any more, the state the adapter decides by   *)
(* is the one the server is in: no command is refused for ever or sent in  *)
(* vain.                                                                   *)
Quiet ==
    /\ Idle /\ SetUp /\ process = "up" /\ adapter.child
    /\ adapter.pending = <<>> /\ adapter.stdin = <<>>
    /\ stdout = <<>> /\ Joined /\ answering = 0
StatesAgree ==
    Quiet => adapter.executionState =
                 CASE session \in {"Ready", "Paused"} -> "paused"
                   [] session = "Running"  -> "running"
                   [] session = "Error"    -> "error"
                   [] session = "Finished" -> "terminated"

(* The inductive invariant. A request that has not been answered waits for *)
(* one promise: its continuation is queued, or the promise is held by an   *)
(* entry of the pending requests, by the exit of the child or, for the     *)
(* launch, by its readiness.                                               *)
Members(queue) == {queue[i].request : i \in 1..Len(queue)}
Queued(f)    == Members(f.microtasks)
Pending(f)   == Members(f.pending)
Exiting(f)   == Members(f.waiting)
Launching(f) == IF f.ready THEN {1} ELSE {}

Once(queue) ==
    \A i, j \in 1..Len(queue) : queue[i].request = queue[j].request => i = j
OneQueue(f) ==
    /\ Once(f.microtasks) /\ Once(f.pending) /\ Once(f.waiting)
    /\ Queued(f) \cap (Pending(f) \cup Exiting(f) \cup Launching(f)) = {}
    /\ Pending(f) \cap (Exiting(f) \cup Launching(f)) = {}
    /\ Exiting(f) \cap Launching(f) = {}

Promised(f) == Queued(f) \cup Pending(f) \cup Exiting(f) \cup Launching(f)
Undone(h)   == {r \in 1..Len(h) : h[r].stage # "done"}

PromiseInv ==
    /\ OneQueue(adapter)
    /\ Undone(handlers) = Promised(adapter)
    /\ 1 \notin Exiting(adapter)
    /\ \A r \in Undone(handlers) \ {1} :
           handlers[r].stage \in {"reply", "exit"} /\ handlers[r].command # "configurationDone"

(* What the client has been sent.                                          *)
AnswersDone(messages, h) ==
    \A i \in 1..Len(messages) : messages[i].type = "response" =>
        messages[i].request \in (1..Len(h)) \ Undone(h)
AnswersOnce(messages) ==
    \A i, j \in 1..Len(messages) :
        /\ messages[i].type = "response" /\ messages[j].type = "response"
        /\ messages[i].request = messages[j].request
        => i = j
DoneAnswered(messages, h) ==
    \A r \in (1..Len(h)) \ Undone(h) : \E i \in 1..Len(messages) : Answers(messages[i], r)
EndKnown(messages, f) ==
    f.terminated \/ \A i \in 1..Len(messages) : ~IsEvent(messages[i], {"terminated"})

ClientInv ==
    /\ AnswersDone(dap, handlers) /\ AnswersOnce(dap)
    /\ adapter.disposed \/ DoneAnswered(dap, handlers)
    /\ EndsOnce(dap) /\ EndKnown(dap, adapter)

(* Events are held back as long as one of the commands they belong to is   *)
(* unanswered.                                                             *)
DeferralInv ==
    adapter.deferrals = Cardinality({r \in 1..Len(handlers) : Awaiting(r)})

(* Until the launch is answered nothing else is asked for, and it can only *)
(* succeed while nobody has announced the end of the session.              *)
Says(lines, name) == \E i \in 1..Len(lines) : lines[i].name = name
Granted(queue) == {queue[i].request : i \in {j \in 1..Len(queue) : queue[j].ok}}
MaySucceed ==
    \/ 1 \in Pending(adapter) \/ 1 \in Granted(adapter.microtasks)
    \/ adapter.ready /\ Says(stdout, "ready")

LaunchInv ==
    /\ Len(handlers) > 0 /\ handlers[1].command = "launch"
    /\ \A r \in 2..Len(handlers) : handlers[r].command # "launch"
    /\ ~SetUp => Len(handlers) = 1
    /\ handlers[1].stage \in {"ready", "reply", "done"}
    /\ adapter.ready => handlers[1].stage = "ready" /\ ~adapter.terminated
    /\ handlers[1].stage # "done" =>
           /\ session = "Ready" /\ Joined /\ answering = 0
           /\ adapter.deferrals = 0 /\ adapter.deferred = <<>>
           /\ \A i \in 1..Len(adapter.stdin) : adapter.stdin[i].command = "initialize"
           /\ process = "starting" =>
                  stdout = <<>> /\ handlers[1].stage = "ready" /\ ~MaySucceed
           /\ MaySucceed => ~adapter.terminated /\ ~Says(stdout, "terminated")
           /\ adapter.ready /\ Says(stdout, "terminated") => stdout[1].name = "error"

AdapterInv == TypeOK /\ PromiseInv /\ ClientInv /\ DeferralInv /\ LaunchInv

(* Why the states agree. As long as client and server are connected, an    *)
(* answer is to a request of the kind it was read as, and only an         *)
(* inspection, a pause or the launch can fail.                            *)
Moves   == Steps \cup {"continue"}
Leaving == {"disconnect", "terminate"}
Elements(queue) == {queue[i] : i \in 1..Len(queue)}

Reachable == process \in {"starting", "up"} /\ adapter.child
Connected ==
    Reachable /\ \A r \in 1..Len(handlers) : handlers[r].command \notin Leaving
LeavingInv ==
    Reachable => Connected \/ \E s \in Elements(adapter.stdin) : s.command \in Leaving

LaunchDone == handlers[1].stage = "done"
SentAs(command) == IF command = "launch" THEN "initialize" ELSE command
NumberInv ==
    /\ answering < adapter.protocolSeq
    /\ \A l \in Elements(stdout) : l.seq < adapter.protocolSeq
    /\ \A p \in Elements(adapter.pending) : p.seq < adapter.protocolSeq
    /\ \A s \in Elements(adapter.stdin) : s.seq < adapter.protocolSeq
    /\ \A s \in Elements(adapter.stdin), p \in Elements(adapter.pending) :
           s.seq = p.seq => s.command = SentAs(handlers[p.request].command)

MayFail(r) == handlers[r].command \notin Moves
FailureInv ==
    /\ \A t \in Elements(adapter.microtasks) : t.ok \/ MayFail(t.request)
    /\ \A l \in Elements(stdout), p \in Elements(adapter.pending) :
           l.seq = p.seq => l.ok \/ MayFail(p.request)
    /\ LaunchDone => handlers[1].ok
    /\ \A r \in Undone(handlers) :
           handlers[r].command = "pause" => handlers[r].previous = "running"

(* News of the session is deferred, unread or not yet written, in this     *)
(* order; what ends a run is the last of it and says where the session is. *)
Final   == {"stopped", "exception", "terminated"}
SessionAfter(name) == CASE name = "stopped"    -> "Paused"
                        [] name = "exception"  -> "Error"
                        [] name = "terminated" -> "Finished"
IsFinal(name) == name \in Final /\ session = SessionAfter(name)
Unread == \E l \in Elements(stdout) : l.name \in Deferrable
NewsInv ==
    /\ \A i \in 1..Len(adapter.deferred) : adapter.deferred[i] \in Final =>
          IsFinal(adapter.deferred[i]) /\ i = Len(adapter.deferred) /\ ~Unread /\ Joined
    /\ \A i \in 1..Len(stdout) : stdout[i].name \in Final =>
          /\ IsFinal(stdout[i].name) /\ Joined
          /\ \A j \in 1..Len(stdout) : stdout[j].name \in Deferrable => j <= i
    /\ ~Joined => IsFinal(stopEvent.name)
NoNews == adapter.deferred = <<>> /\ ~Unread /\ Joined
Over == \/ \E name \in Elements(adapter.deferred) : name \in Final
        \/ \E l \in Elements(stdout) : l.name \in Final
        \/ ~Joined

(* A move the server has not read is the only one, and finds the session   *)
(* as the adapter left it.                                                 *)
Asks(i) == adapter.stdin[i].command \in Moves
MoveAsked == \E i \in 1..Len(adapter.stdin) : Asks(i)
OneMove == \A i, j \in 1..Len(adapter.stdin) : Asks(i) /\ Asks(j) => i = j
Agrees == CASE adapter.executionState = "paused" -> session \in {"Ready", "Paused"}
            [] adapter.executionState = "error"  -> session = "Error"
            [] adapter.executionState = "terminated" -> session = "Finished"
            [] OTHER -> FALSE
Running ==
    IF MoveAsked THEN NoNews /\ session \in {"Ready", "Paused"}
                 ELSE Over \/ session = "Running"
Resting ==
    NoNews /\ ~MoveAsked /\ Agrees /\ \A r \in 1..Len(handlers) : ~Awaiting(r)
StateInv ==
    /\ adapter.terminated <=> adapter.executionState = "terminated"
    /\ adapter.deferrals = 0 => adapter.deferred = <<>>
    /\ ~adapter.entryStoppedSent => adapter.executionState = "paused"
    /\ NewsInv /\ OneMove
    /\ IF adapter.executionState = "running" THEN Running ELSE Resting

Working ==
    /\ adapter.waiting = <<>>
    /\ NumberInv /\ FailureInv
    /\ IF LaunchDone THEN StateInv ELSE ~Unread
AgreementInv == LeavingInv /\ (Connected => Working)

(* No request waits for ever, even of a server that hangs.                 *)
RequestsAnswered ==
    \A r \in 1..MaxRequests + 1 :
        r <= Len(handlers) ~> r <= Len(handlers) /\ handlers[r].stage = "done"

(* A client that ends the session has no server left behind.               *)
NoServerIsLeft ==
    (\E r \in 1..Len(handlers) : handlers[r].command = "terminate")
        ~> process \in {"exited", "reaped", "closed"}

(* A client is told that its server is gone.                               *)
SessionEnds ==
    process = "closed" ~> adapter.disposed
        \/ \E i \in 1..Len(dap) : IsEvent(dap[i], {"terminated"})

(* Client and server end together, and until then every request is         *)
(* answered.                                                               *)
BothSidesEnd == RequestsAnswered /\ NoServerIsLeft /\ SessionEnds
=============================================================================
