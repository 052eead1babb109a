------------------ MODULE LiveDebugAdapterAgreement_proofs ------------------
(***************************************************************************)
(* The adapter says where the session is: AgreementInv, the invariant that *)
(* carries StatesAgree, for any number of requests. An action is taken     *)
(* through what it does to each queue: the messages on their way are       *)
(* compared with the news the adapter has not told yet, and with the one   *)
(* move the server has not read.                                           *)
(***************************************************************************)
EXTENDS LiveDebugAdapter_proofs

(* Taking the first entry of a queue, and adding one at its end.           *)
LEMMA TailFacts ==
    ASSUME NEW S, NEW q \in Seq(S), q # <<>>
    PROVE  /\ Tail(q) \in Seq(S) /\ Len(Tail(q)) = Len(q) - 1
           /\ Len(q) \in Nat /\ 1 \in 1..Len(q) /\ Head(q) = q[1] /\ q[1] \in S
           /\ \A i \in 1..Len(Tail(q)) : i + 1 \in 1..Len(q) /\ Tail(q)[i] = q[i + 1]
           /\ \A i \in 1..Len(q) : i = 1 \/ (i - 1 \in 1..Len(Tail(q)) /\ q[i] = Tail(q)[i - 1])
           /\ Elements(q) = Elements(Tail(q)) \cup {Head(q)}
<1> DEFINE t == Tail(q)
<1>1. /\ t \in Seq(S) /\ Len(t) = Len(q) - 1
      /\ Len(q) \in Nat /\ 1 \in 1..Len(q) /\ Head(q) = q[1] /\ q[1] \in S
      /\ \A i \in 1..Len(t) : i + 1 \in 1..Len(q) /\ t[i] = q[i + 1]
  OBVIOUS
<1> HIDE DEF t
<1>2. \A i \in 1..Len(q) : i = 1 \/ (i - 1 \in 1..Len(t) /\ q[i] = t[i - 1])
  BY <1>1
<1>3. Elements(q) = Elements(t) \cup {Head(q)}
  <2>1. ASSUME NEW x \in Elements(q) PROVE x \in Elements(t) \cup {Head(q)}
    <3>1. PICK i \in 1..Len(q) : x = q[i]
      BY DEF Elements
    <3>2. CASE i = 1
      BY <1>1, <3>1, <3>2
    <3>3. CASE i # 1
      <4>1. i - 1 \in 1..Len(t) /\ x = t[i - 1]
        BY <1>2, <3>1, <3>3
      <4> QED BY <4>1 DEF Elements
    <3> QED BY <3>2, <3>3
  <2>2. ASSUME NEW x \in Elements(t) PROVE x \in Elements(q)
    BY <1>1 DEF Elements
  <2>3. Head(q) \in Elements(q)
    BY <1>1 DEF Elements
  <2> QED BY <2>1, <2>2, <2>3
<1> QED BY <1>1, <1>2, <1>3 DEF t

(* The entries of a queue with one added at its end.                       *)
LEMMA AppendFacts ==
    ASSUME NEW S, NEW q \in Seq(S), NEW e \in S
    PROVE  LET t == Append(q, e) IN
           /\ t \in Seq(S) /\ Len(t) = Len(q) + 1 /\ Len(q) \in Nat
           /\ t[Len(q) + 1] = e /\ t # <<>>
           /\ \A i \in 1..Len(q) : i \in 1..Len(t) /\ t[i] = q[i]
           /\ \A i \in 1..Len(t) : (i \in 1..Len(q) /\ t[i] = q[i])
                                  \/ (i = Len(q) + 1 /\ t[i] = e)
           /\ Elements(t) = Elements(q) \cup {e}
<1> DEFINE t == Append(q, e)
<1>1. /\ t \in Seq(S) /\ Len(t) = Len(q) + 1 /\ Len(q) \in Nat
      /\ t[Len(q) + 1] = e /\ t # <<>>
      /\ \A i \in 1..Len(q) : t[i] = q[i]
  OBVIOUS
<1> HIDE DEF t
<1>2. /\ \A i \in 1..Len(q) : i \in 1..Len(t) /\ t[i] = q[i]
      /\ \A i \in 1..Len(t) : (i \in 1..Len(q) /\ t[i] = q[i])
                             \/ (i = Len(q) + 1 /\ t[i] = e)
  BY <1>1
<1>3. Elements(t) = Elements(q) \cup {e}
  <2>1. ASSUME NEW x \in Elements(t) PROVE x \in Elements(q) \cup {e}
    BY <1>2 DEF Elements
  <2>2. ASSUME NEW x \in Elements(q) PROVE x \in Elements(t)
    BY <1>2 DEF Elements
  <2>3. e \in Elements(t)
    <3>1. Len(q) + 1 \in 1..Len(t)
      BY <1>1
    <3> QED BY <1>1, <3>1 DEF Elements
  <2> QED BY <2>1, <2>2, <2>3
<1> QED BY <1>1, <1>2, <1>3 DEF t

(* Two queues joined.                                                      *)
LEMMA ConcatFacts ==
    ASSUME NEW S, NEW p \in Seq(S), NEW q \in Seq(S)
    PROVE  LET t == p \o q IN
           /\ t \in Seq(S) /\ Len(t) = Len(p) + Len(q) /\ Len(p) \in Nat /\ Len(q) \in Nat
           /\ \A i \in 1..Len(p) : i \in 1..Len(t) /\ t[i] = p[i]
           /\ \A i \in 1..Len(q) : Len(p) + i \in 1..Len(t) /\ t[Len(p) + i] = q[i]
           /\ \A i \in 1..Len(t) : (i \in 1..Len(p) /\ t[i] = p[i])
                                  \/ (i - Len(p) \in 1..Len(q) /\ t[i] = q[i - Len(p)])
           /\ Elements(t) = Elements(p) \cup Elements(q)
<1> DEFINE t == p \o q
<1>1. /\ t \in Seq(S) /\ Len(t) = Len(p) + Len(q)
      /\ \A i \in 1..Len(p) + Len(q) : t[i] = IF i <= Len(p) THEN p[i] ELSE q[i - Len(p)]
  BY ConcatProperties
<1>2. Len(p) \in Nat /\ Len(q) \in Nat
  OBVIOUS
<1> HIDE DEF t
<1>3. \A i \in 1..Len(p) : i \in 1..Len(t) /\ t[i] = p[i]
  BY <1>1, <1>2
<1>4. \A i \in 1..Len(q) : Len(p) + i \in 1..Len(t) /\ t[Len(p) + i] = q[i]
  <2> TAKE i \in 1..Len(q)
  <2>1. Len(p) + i \in 1..Len(p) + Len(q) /\ ~(Len(p) + i <= Len(p)) /\ Len(p) + i - Len(p) = i
    BY <1>2
  <2> QED BY <1>1, <2>1
<1>5. \A i \in 1..Len(t) : (i \in 1..Len(p) /\ t[i] = p[i])
                           \/ (i - Len(p) \in 1..Len(q) /\ t[i] = q[i - Len(p)])
  BY <1>1, <1>2
<1>6. Elements(t) = Elements(p) \cup Elements(q)
  <2>1. ASSUME NEW x \in Elements(t) PROVE x \in Elements(p) \cup Elements(q)
    BY <1>5 DEF Elements
  <2>2. ASSUME NEW x \in Elements(p) PROVE x \in Elements(t)
    BY <1>3 DEF Elements
  <2>3. ASSUME NEW x \in Elements(q) PROVE x \in Elements(t)
    BY <1>4 DEF Elements
  <2> QED BY <2>1, <2>2, <2>3
<1> QED BY <1>1, <1>2, <1>3, <1>4, <1>5, <1>6 DEF t

(* An entry taken out of a queue leaves entries that were in it.           *)
LEMMA WithoutFacts ==
    ASSUME NEW S, NEW q \in Seq(S), NEW k \in 1..Len(q)
    PROVE  Elements(Without(q, k)) \subseteq Elements(q)
<1> DEFINE a == SubSeq(q, 1, k - 1)
           b == SubSeq(q, k + 1, Len(q))
           t == Without(q, k)
<1>1. Len(q) \in Nat /\ k \in 1..Len(q)
  OBVIOUS
<1>2. a \in Seq(S) /\ b \in Seq(S) /\ Elements(a) \subseteq Elements(q) /\ Elements(b) \subseteq Elements(q)
  <2>1. /\ a \in Seq(S) /\ Len(a) = k - 1 /\ \A i \in 1..k - 1 : a[i] = q[i]
    OBVIOUS
  <2>2. /\ b \in Seq(S) /\ Len(b) = Len(q) - k
        /\ \A i \in 1..Len(q) - k : b[i] = q[k + i]
    <3>1. k + 1 \in Int /\ Len(q) \in Int /\ \A i \in k + 1 .. Len(q) : q[i] \in S
      BY <1>1
    <3>2. /\ b \in Seq(S) /\ Len(b) = IF k + 1 <= Len(q) THEN Len(q) - (k + 1) + 1 ELSE 0
          /\ \A i \in 1..Len(q) - (k + 1) + 1 : b[i] = q[k + 1 + i - 1]
      BY <3>1, SubSeqProperties
    <3> HIDE DEF b
    <3> QED BY <1>1, <3>2
  <2> HIDE DEF a, b
  <2>3. \A i \in 1..Len(a) : i \in 1..Len(q) /\ a[i] = q[i]
    BY <1>1, <2>1
  <2>4. \A i \in 1..Len(b) : k + i \in 1..Len(q) /\ b[i] = q[k + i]
    BY <1>1, <2>2
  <2> QED BY <2>1, <2>2, <2>3, <2>4 DEF Elements
<1>3. t = a \o b
  BY DEF Without
<1> HIDE DEF a, b, t
<1>4. Elements(t) = Elements(a) \cup Elements(b)
  BY <1>2, <1>3, ConcatFacts
<1> QED BY <1>2, <1>4 DEF t

(* The sequences of nothing, of one and of two.                            *)
LEMMA FewElements ==
    /\ Elements(<<>>) = {}
    /\ \A x : Elements(<<x>>) = {x}
    /\ \A x, y : Elements(<<x, y>>) = {x, y}
<1>1. Elements(<<>>) = {}
  BY DEF Elements
<1>2. ASSUME NEW x PROVE Elements(<<x>>) = {x}
  <2> DEFINE q == <<x>>
  <2>1. Len(q) = 1 /\ q[1] = x
    OBVIOUS
  <2> HIDE DEF q
  <2>2. Elements(q) = {x}
    BY <2>1 DEF Elements
  <2> QED BY <2>2 DEF q
<1>3. ASSUME NEW x, NEW y PROVE Elements(<<x, y>>) = {x, y}
  <2> DEFINE q == <<x, y>>
  <2>1. Len(q) = 2 /\ q[1] = x /\ q[2] = y
    OBVIOUS
  <2> HIDE DEF q
  <2>2. Elements(q) = {x, y}
    BY <2>1 DEF Elements
  <2> QED BY <2>2 DEF q
<1> QED BY <1>1, <1>2, <1>3

(* Handlers keep their command, and what the adapter was doing before it.  *)
HandlersKept ==
    /\ Len(handlers) <= Len(handlers')
    /\ \A r \in 1..Len(handlers) : /\ handlers'[r].command = handlers[r].command
                                   /\ handlers'[r].previous = handlers[r].previous
Requested(queue) == \A x \in Elements(queue) : x.request \in 1..Len(handlers)

(* Whoever waits for a promise is a handler.                               *)
LEMMA RequestsKnown ==
    ASSUME AdapterInv PROVE Requested(adapter.pending) /\ Requested(adapter.microtasks)
<1>1. Undone(handlers) = Promised(adapter)
  BY DEF AdapterInv, PromiseInv
<1>2. ASSUME NEW x \in Elements(adapter.pending) PROVE x.request \in Promised(adapter)
  BY DEF Elements, Promised, Pending, Members
<1>3. ASSUME NEW x \in Elements(adapter.microtasks) PROVE x.request \in Promised(adapter)
  BY DEF Elements, Promised, Queued, Members
<1> QED BY <1>1, <1>2, <1>3 DEF Undone, Requested

(* Out of reach there is nothing to agree on.                              *)
LEMMA OutOfReach == ASSUME ~Reachable' PROVE AgreementInv'
BY DEF AgreementInv, LeavingInv, Connected

(* Once a client has asked to leave, it stays so; before it does, what its *)
(* requests and answers need is kept.                                      *)
LEMMA InReach ==
    ASSUME AdapterInv, AgreementInv, Reachable' => Reachable, HandlersKept,
           AdapterInv',
           \A s \in Elements(adapter.stdin) :
               s.command \in Leaving => s \in Elements(adapter'.stdin),
           \A r \in 1..Len(handlers') :
               r \in 1..Len(handlers) \/ handlers'[r].command \notin Leaving,
           Connected /\ Reachable' => Working'
    PROVE  AgreementInv'
<1>1. CASE ~Reachable'
  BY <1>1, OutOfReach
<1>2. CASE Reachable' /\ ~Connected
  <2>1. PICK s \in Elements(adapter.stdin) : s.command \in Leaving
    BY <1>2 DEF AgreementInv, LeavingInv
  <2>2. s \in Elements(adapter'.stdin) /\ s.command \in Leaving
    BY <2>1
  <2>3. ~Connected'
    <3>1. PICK r \in 1..Len(handlers) : handlers[r].command \in Leaving
      BY <1>2 DEF Connected
    <3>2. Len(handlers) \in Nat /\ Len(handlers') \in Nat
      BY DEF AdapterInv, TypeOK
    <3>3. r \in 1..Len(handlers') /\ handlers'[r].command \in Leaving
      BY <3>1, <3>2 DEF HandlersKept
    <3> QED BY <3>3 DEF Connected
  <2> QED BY <2>2, <2>3 DEF AgreementInv, LeavingInv
<1>3. CASE Reachable' /\ Connected
  <2>1. \A r \in 1..Len(handlers') : handlers'[r].command \notin Leaving
    BY <1>3 DEF HandlersKept, Connected
  <2>2. Connected'
    BY <1>3, <2>1 DEF Connected
  <2> QED BY <1>3, <2>2 DEF AgreementInv, LeavingInv
<1> QED BY <1>1, <1>2, <1>3

(* Numbers name requests: when nothing is asked for.                       *)
LEMMA NumberKept ==
    ASSUME NumberInv, Requested(adapter.pending), HandlersKept,
           adapter'.protocolSeq = adapter.protocolSeq,
           Elements(adapter'.pending) \subseteq Elements(adapter.pending),
           Elements(adapter'.stdin) \subseteq Elements(adapter.stdin),
           answering' < adapter.protocolSeq,
           \A l \in Elements(stdout') : l.seq < adapter.protocolSeq
    PROVE  NumberInv'
BY DEF NumberInv, Requested, HandlersKept

(* A line of the server is an answer or an event.                          *)
LEMMA LineFacts ==
    ASSUME NEW l \in Lines
    PROVE  /\ l.seq \in Nat /\ l.ok \in BOOLEAN
           /\ l.type # "response" => l.seq = 0 /\ l.ok /\ l.name # "none"
           /\ l.type = "response" => l.name = "none"
<1>1. CASE l \in [type : {"response"}, name : {"none"}, seq : Nat, ok : BOOLEAN]
  BY <1>1
<1>2. CASE l \in [type : {"event"}, name : {"ready", "error"} \cup Deferrable,
                 seq : {0}, ok : {TRUE}]
  <2>1. l.type = "event" /\ l.name \in {"ready", "error"} \cup Deferrable
    BY <1>2
  <2>2. l.seq = 0 /\ l.ok = TRUE
    BY <1>2
  <2>3. l.ok \in BOOLEAN /\ l.ok
    BY <2>2, Zenon
  <2> QED BY <2>1, <2>2, <2>3 DEF Deferrable
<1> QED BY <1>1, <1>2 DEF Lines

(* And when something is.                                                  *)
LEMMA NumberAsked ==
    ASSUME AdapterInv, NumberInv, Requested(adapter.pending), HandlersKept,
           UNCHANGED <<stdout, answering>>,
           NEW r, NEW command, command = SentAs(handlers'[r].command),
           adapter'.protocolSeq = adapter.protocolSeq + 1,
           Elements(adapter'.pending) =
               Elements(adapter.pending) \cup {[seq |-> adapter.protocolSeq, request |-> r]},
           Elements(adapter'.stdin) =
               Elements(adapter.stdin) \cup {[seq |-> adapter.protocolSeq, command |-> command]}
    PROVE  NumberInv'
<1> DEFINE n == adapter.protocolSeq
           p0 == [seq |-> n, request |-> r]
           s0 == [seq |-> n, command |-> command]
<1>0. /\ n \in Nat /\ answering \in Nat
      /\ \A l \in Elements(stdout) : l.seq \in Nat
      /\ \A p \in Elements(adapter.pending) : p.seq \in Nat
      /\ \A s \in Elements(adapter.stdin) : s.seq \in Nat
  <2>1. TypeOK /\ adapter \in Fields
    BY DEF AdapterInv, TypeOK
  <2>2. /\ stdout \in Seq(Lines) /\ adapter.pending \in Seq(Entries)
        /\ adapter.stdin \in Seq([seq : Nat, command : Commands \cup {"initialize"}])
        /\ n \in Nat /\ answering \in Nat
    BY <2>1 DEF TypeOK, Fields
  <2>3. \A l \in Lines : l.seq \in Nat
    BY LineFacts
  <2>4. \A l \in Elements(stdout) : l.seq \in Nat
    BY <2>2, <2>3 DEF Elements
  <2>5. \A p \in Elements(adapter.pending) : p.seq \in Nat
    <3> DEFINE q == adapter.pending
    <3>1. q \in Seq(Entries)
      BY <2>2
    <3> HIDE DEF q
    <3>2. \A p \in Elements(q) : p \in Entries
      BY <3>1 DEF Elements
    <3> QED BY <3>2 DEF q, Entries
  <2>6. \A s \in Elements(adapter.stdin) : s.seq \in Nat
    <3> DEFINE q == adapter.stdin
               S == [seq : Nat, command : Commands \cup {"initialize"}]
    <3>1. q \in Seq(S)
      BY <2>2
    <3>3. \A s \in S : s.seq \in Nat
      OBVIOUS
    <3> HIDE DEF q, S
    <3>2. \A s \in Elements(q) : s \in S
      BY <3>1 DEF Elements
    <3> QED BY <3>2, <3>3 DEF q
  <2> QED BY <2>2, <2>4, <2>5, <2>6
<1>1. p0.seq = n /\ p0.request = r /\ s0.seq = n /\ s0.command = command
  OBVIOUS
<1>2. /\ Elements(adapter'.pending) = Elements(adapter.pending) \cup {p0}
      /\ Elements(adapter'.stdin) = Elements(adapter.stdin) \cup {s0}
      /\ adapter'.protocolSeq = n + 1 /\ stdout' = stdout /\ answering' = answering
  OBVIOUS
<1> HIDE DEF p0, s0
<1>3. /\ \A l \in Elements(stdout) : l.seq < n
      /\ \A p \in Elements(adapter.pending) : p.seq < n
      /\ \A s \in Elements(adapter.stdin) : s.seq < n
      /\ answering < n
  BY DEF NumberInv
<1>4. /\ \A l \in Elements(stdout') : l.seq < n + 1
      /\ \A p \in Elements(adapter'.pending) : p.seq < n + 1
      /\ \A s \in Elements(adapter'.stdin) : s.seq < n + 1
      /\ answering' < n + 1
  BY <1>0, <1>1, <1>2, <1>3
<1>5. ASSUME NEW s \in Elements(adapter'.stdin), NEW p \in Elements(adapter'.pending),
             s.seq = p.seq
      PROVE  s.command = SentAs(handlers'[p.request].command)
  <2>1. CASE s = s0 /\ p = p0
    BY <1>1, <2>1
  <2>2. CASE s \in Elements(adapter.stdin) /\ p \in Elements(adapter.pending)
    <3>1. s.command = SentAs(handlers[p.request].command)
      BY <1>5, <2>2 DEF NumberInv
    <3> QED BY <2>2, <3>1 DEF Requested, HandlersKept
  <2>3. CASE s = s0 /\ p \in Elements(adapter.pending)
    BY <1>0, <1>1, <1>3, <1>5, <2>3
  <2>4. CASE s \in Elements(adapter.stdin) /\ p = p0
    BY <1>0, <1>1, <1>3, <1>5, <2>4
  <2> QED BY <1>2, <2>1, <2>2, <2>3, <2>4
<1> QED BY <1>2, <1>4, <1>5 DEF NumberInv, n

(* Failures: what is new succeeds, or may fail.                            *)
LEMMA FailureKept ==
    ASSUME FailureInv, Requested(adapter.pending), Requested(adapter.microtasks),
           HandlersKept,
           \A t \in Elements(adapter'.microtasks) :
               t \in Elements(adapter.microtasks) \/ t.ok \/ MayFail(t.request)',
           \A l \in Elements(stdout'), p \in Elements(adapter'.pending) :
               l.seq = p.seq => \/ l \in Elements(stdout) /\ p \in Elements(adapter.pending)
                                \/ l.ok \/ MayFail(p.request)',
           LaunchDone' => handlers'[1].ok,
           \A r \in Undone(handlers') : r \in Undone(handlers)
               \/ (handlers'[r].command = "pause" => handlers'[r].previous = "running")
    PROVE  FailureInv'
<1>1. \A r \in 1..Len(handlers) : MayFail(r) => MayFail(r)'
  BY DEF HandlersKept, MayFail
<1>2. \A t \in Elements(adapter'.microtasks) : t.ok \/ MayFail(t.request)'
  BY <1>1 DEF FailureInv, Requested
<1>3. \A l \in Elements(stdout'), p \in Elements(adapter'.pending) :
          l.seq = p.seq => l.ok \/ MayFail(p.request)'
  BY <1>1 DEF FailureInv, Requested
<1>4. \A r \in Undone(handlers') :
          handlers'[r].command = "pause" => handlers'[r].previous = "running"
  BY DEF FailureInv, HandlersKept, Undone
<1> QED BY <1>2, <1>3, <1>4 DEF FailureInv

(* The adapter's state of the session, and the server's.                   *)
SameState ==
    /\ adapter'.executionState = adapter.executionState
    /\ adapter'.terminated = adapter.terminated
    /\ adapter.entryStoppedSent => adapter'.entryStoppedSent
    /\ adapter'.deferred = adapter.deferred
    /\ session' = session /\ stopEvent' = stopEvent
SameNews == (Unread' <=> Unread) /\ NewsInv' /\ (Over' <=> Over)
SameMoves == (MoveAsked' <=> MoveAsked) /\ OneMove'

(* Nothing has been heard of the session, and no move asked for or read.   *)
LEMMA StateKept ==
    ASSUME StateInv, SameState, SameNews, SameMoves,
           adapter'.deferrals = 0 => adapter.deferrals = 0 \/ adapter.deferred = <<>>,
           adapter.executionState # "running" =>
               \A r \in 1..Len(handlers') : ~Awaiting(r)'
    PROVE  StateInv'
<1>1. (Joined' <=> Joined) /\ (NoNews' <=> NoNews) /\ (Agrees' <=> Agrees)
  BY DEF SameState, SameNews, Joined, NoNews, Agrees
<1>2. /\ adapter'.terminated <=> adapter'.executionState = "terminated"
      /\ adapter'.deferrals = 0 => adapter'.deferred = <<>>
      /\ ~adapter'.entryStoppedSent => adapter'.executionState = "paused"
  BY DEF StateInv, SameState
<1>3. CASE adapter.executionState = "running"
  <2>1. Running'
    BY <1>1, <1>3 DEF StateInv, Running, SameState, SameNews, SameMoves
  <2> QED BY <1>2, <1>3, <2>1 DEF StateInv, SameState, SameNews, SameMoves
<1>4. CASE adapter.executionState # "running"
  <2>1. Resting'
    BY <1>1, <1>4 DEF StateInv, Resting, SameMoves
  <2> QED BY <1>2, <1>4, <2>1 DEF StateInv, SameState, SameNews, SameMoves
<1> QED BY <1>3, <1>4

(* Lines that say nothing of the session come and go.                      *)
Unimportant ==
    \/ stdout' = stdout
    \/ stdout # <<>> /\ stdout' = Tail(stdout) /\ Head(stdout).name \notin Deferrable
    \/ \E x \in Lines : stdout' = Append(stdout, x) /\ x.name \notin Deferrable

(* What ends a run is news.                                                *)
LEMMA FinalNews == Final \subseteq Deferrable
BY DEF Final, Deferrable

(* What is not news leaves the news as it was, in its order.               *)
LEMMA NewsKept ==
    ASSUME TypeOK, NewsInv, SameState, Unimportant PROVE SameNews
<1> DEFINE q == stdout
<1>1. /\ \A name : IsFinal(name)' <=> IsFinal(name)
      /\ Joined' <=> Joined
  BY DEF SameState, IsFinal, SessionAfter, Joined
<1>2. CASE stdout' = stdout
  BY <1>1, <1>2 DEF SameState, SameNews, NewsInv, Unread, Over
<1>3. q \in Seq(Lines)
  BY DEF TypeOK
<1>4. ASSUME \A l : l.name \in Deferrable => (l \in Elements(stdout') <=> l \in Elements(stdout)),
             \A i \in 1..Len(stdout') : stdout'[i].name \in Final =>
                 /\ IsFinal(stdout'[i].name) /\ Joined
                 /\ \A j \in 1..Len(stdout') : stdout'[j].name \in Deferrable => j <= i
      PROVE  SameNews
  <2>1. Unread' <=> Unread
    BY <1>4 DEF Unread
  <2>2. Over' <=> Over
    BY <1>1, <1>4, FinalNews DEF Over, SameState
  <2>3. NewsInv'
    BY <1>1, <1>4, <2>1 DEF NewsInv, SameState
  <2> QED BY <2>1, <2>2, <2>3 DEF SameNews
<1>5. CASE stdout # <<>> /\ stdout' = Tail(stdout) /\ Head(stdout).name \notin Deferrable
  <2> DEFINE t == Tail(q)
  <2>1. /\ Len(t) = Len(q) - 1 /\ Len(q) \in Nat
        /\ \A i \in 1..Len(t) : i + 1 \in 1..Len(q) /\ t[i] = q[i + 1]
        /\ Elements(q) = Elements(t) \cup {Head(q)}
    BY <1>3, <1>5, TailFacts
  <2> HIDE DEF t, q
  <2>2. stdout' = t /\ stdout = q /\ Head(q).name \notin Deferrable
    BY <1>5 DEF t, q
  <2>3. \A l : l.name \in Deferrable => (l \in Elements(stdout') <=> l \in Elements(stdout))
    BY <2>1, <2>2
  <2>4. ASSUME NEW i \in 1..Len(t), t[i].name \in Final
        PROVE  /\ IsFinal(t[i].name) /\ Joined
               /\ \A j \in 1..Len(t) : t[j].name \in Deferrable => j <= i
    <3>1. /\ IsFinal(q[i + 1].name) /\ Joined
          /\ \A j \in 1..Len(q) : q[j].name \in Deferrable => j <= i + 1
      BY <2>1, <2>2, <2>4 DEF NewsInv
    <3>2. ASSUME NEW j \in 1..Len(t), t[j].name \in Deferrable PROVE j <= i
      <4>1. j + 1 \in 1..Len(q) /\ q[j + 1].name \in Deferrable
        BY <2>1, <3>2
      <4> QED BY <2>1, <3>1, <4>1
    <3> QED BY <2>1, <3>1, <3>2
  <2> QED BY <1>4, <2>2, <2>3, <2>4
<1>6. ASSUME NEW x \in Lines, stdout' = Append(stdout, x), x.name \notin Deferrable
      PROVE  SameNews
  <2> DEFINE t == Append(q, x)
  <2>1. /\ Len(t) = Len(q) + 1 /\ Len(q) \in Nat
        /\ \A i \in 1..Len(t) : (i \in 1..Len(q) /\ t[i] = q[i])
                                \/ (i = Len(q) + 1 /\ t[i] = x)
        /\ Elements(t) = Elements(q) \cup {x}
    BY <1>3, AppendFacts
  <2> HIDE DEF t, q
  <2>2. stdout' = t /\ stdout = q
    BY <1>6 DEF t, q
  <2>3. \A l : l.name \in Deferrable => (l \in Elements(stdout') <=> l \in Elements(stdout))
    BY <1>6, <2>1, <2>2
  <2>4. ASSUME NEW i \in 1..Len(t), t[i].name \in Final
        PROVE  /\ IsFinal(t[i].name) /\ Joined
               /\ \A j \in 1..Len(t) : t[j].name \in Deferrable => j <= i
    <3>1. i \in 1..Len(q) /\ t[i] = q[i]
      BY <1>6, <2>1, <2>4, FinalNews
    <3>2. /\ IsFinal(q[i].name) /\ Joined
          /\ \A j \in 1..Len(q) : q[j].name \in Deferrable => j <= i
      BY <2>2, <2>4, <3>1 DEF NewsInv
    <3>3. ASSUME NEW j \in 1..Len(t), t[j].name \in Deferrable PROVE j <= i
      <4>1. j \in 1..Len(q) /\ q[j].name \in Deferrable
        BY <1>6, <2>1, <3>3
      <4> QED BY <3>2, <4>1
    <3> QED BY <3>1, <3>2, <3>3
  <2> QED BY <1>4, <2>2, <2>3, <2>4
<1> QED BY <1>2, <1>5, <1>6 DEF Unimportant

(* Requests that do not move the session come and go.                      *)
Requests == [seq : Nat, command : Commands \cup {"initialize"}]
Unmoving ==
    \/ adapter'.stdin = adapter.stdin
    \/ /\ adapter.stdin # <<>> /\ adapter'.stdin = Tail(adapter.stdin)
       /\ Head(adapter.stdin).command \notin Moves
    \/ \E x \in Requests : adapter'.stdin = Append(adapter.stdin, x) /\ x.command \notin Moves

(* What is not a move leaves the one move there may be.                    *)
LEMMA MovesKept ==
    ASSUME TypeOK, OneMove, Unmoving PROVE SameMoves
<1> DEFINE q == adapter.stdin
<1>1. q \in Seq(Requests)
  BY DEF TypeOK, Fields, Requests
<1>2. CASE adapter'.stdin = adapter.stdin
  BY <1>2 DEF SameMoves, MoveAsked, OneMove, Asks
<1>3. CASE /\ adapter.stdin # <<>> /\ adapter'.stdin = Tail(adapter.stdin)
           /\ Head(adapter.stdin).command \notin Moves
  <2> DEFINE t == Tail(q)
  <2>1. /\ Len(t) = Len(q) - 1 /\ Len(q) \in Nat /\ Head(q) = q[1]
        /\ \A i \in 1..Len(t) : i + 1 \in 1..Len(q) /\ t[i] = q[i + 1]
        /\ \A i \in 1..Len(q) : i = 1 \/ (i - 1 \in 1..Len(t) /\ q[i] = t[i - 1])
    BY <1>1, <1>3, TailFacts
  <2> HIDE DEF t, q
  <2>2. adapter'.stdin = t /\ adapter.stdin = q /\ q[1].command \notin Moves
    BY <1>3, <2>1 DEF t, q
  <2>3. MoveAsked' <=> MoveAsked
    <3>1. ASSUME NEW i \in 1..Len(t), t[i].command \in Moves
          PROVE  \E j \in 1..Len(q) : q[j].command \in Moves
      BY <2>1, <3>1
    <3>2. ASSUME NEW i \in 1..Len(q), q[i].command \in Moves
          PROVE  \E j \in 1..Len(t) : t[j].command \in Moves
      BY <2>1, <2>2, <3>2
    <3> QED BY <2>2, <3>1, <3>2 DEF MoveAsked, Asks
  <2>4. ASSUME NEW i \in 1..Len(t), NEW j \in 1..Len(t),
               t[i].command \in Moves, t[j].command \in Moves
        PROVE  i = j
    <3>1. i + 1 \in 1..Len(q) /\ j + 1 \in 1..Len(q) /\ Asks(i + 1) /\ Asks(j + 1)
      BY <2>1, <2>2, <2>4 DEF Asks
    <3>2. i + 1 = j + 1
      BY <2>2, <3>1 DEF OneMove
    <3> QED BY <2>1, <3>2
  <2> QED BY <2>2, <2>3, <2>4 DEF SameMoves, OneMove, Asks
<1>4. ASSUME NEW x \in Requests, adapter'.stdin = Append(adapter.stdin, x), x.command \notin Moves
      PROVE  SameMoves
  <2> DEFINE t == Append(q, x)
  <2>1. /\ Len(t) = Len(q) + 1 /\ Len(q) \in Nat
        /\ \A i \in 1..Len(q) : i \in 1..Len(t) /\ t[i] = q[i]
        /\ \A i \in 1..Len(t) : (i \in 1..Len(q) /\ t[i] = q[i])
                                \/ (i = Len(q) + 1 /\ t[i] = x)
    BY <1>1, AppendFacts
  <2> HIDE DEF t, q
  <2>2. adapter'.stdin = t /\ adapter.stdin = q
    BY <1>4 DEF t, q
  <2>3. \A i \in 1..Len(t) : t[i].command \in Moves => i \in 1..Len(q) /\ t[i] = q[i]
    BY <1>4, <2>1
  <2>4. MoveAsked' <=> MoveAsked
    BY <2>1, <2>2, <2>3 DEF MoveAsked, Asks
  <2>5. OneMove'
    BY <2>2, <2>3 DEF OneMove, Asks
  <2> QED BY <2>4, <2>5 DEF SameMoves
<1> QED BY <1>2, <1>3, <1>4 DEF Unmoving

(* What was promised to whom, as it was.                                   *)
SameCalls(f, g) ==
    /\ g.child = f.child /\ g.waiting = f.waiting
    /\ g.protocolSeq = f.protocolSeq /\ g.stdin = f.stdin

(* A message to the client changes nothing but what was sent.              *)
LEMMA SendKeeps ==
    ASSUME NEW a \in States, NEW messages
    PROVE  LET b == Send(a, messages) IN
           /\ b.f = a.f /\ b.h = a.h
           /\ b = [f |-> a.f, h |-> a.h, dap |-> b.dap, kill |-> a.kill]
<1>1. a = [f |-> a.f, h |-> a.h, dap |-> a.dap, kill |-> a.kill]
  BY DEF States
<1>2. CASE a.f.disposed
  BY <1>1, <1>2 DEF Send
<1>3. CASE ~a.f.disposed
  <2> DEFINE d == a.dap \o messages
  <2>1. Send(a, messages) = [a EXCEPT !.dap = d]
    BY <1>3 DEF Send, States
  <2> HIDE DEF d
  <2>2. [a EXCEPT !.dap = d] = [f |-> a.f, h |-> a.h, dap |-> d, kill |-> a.kill]
    BY DEF States
  <2> QED BY <2>1, <2>2
<1> QED BY <1>2, <1>3

(* handleProtocolEvent of the last of several events decides the state.    *)
LEMMA TellIs ==
    ASSUME NEW a \in States, NEW names
    PROVE  LET f == Tell(a, names).f
               last == names[Len(names)] IN
           f.executionState = StateAfter(last) /\ f.terminated = (last = "terminated")
<1> DEFINE m == [i \in 1..Len(names) |-> Event(Shown(names[i]))]
           s == Send(a, m)
           x == StateAfter(names[Len(names)])
           y == (names[Len(names)] = "terminated")
           b == Tell(a, names)
<1>1. /\ s.f = a.f /\ s = [f |-> a.f, h |-> a.h, dap |-> s.dap, kill |-> a.kill]
  <2> HIDE DEF m
  <2> QED BY SendKeeps
<1>2. b = [s EXCEPT !.f.executionState = x, !.f.terminated = y]
  BY DEF Tell
<1>3. a.f \in Fields
  BY DEF States
<1>4. b.f.executionState = x /\ b.f.terminated = y
  <2> HIDE DEF b, s, x, y
  <2>1. b.f = [s.f EXCEPT !.executionState = x, !.terminated = y]
    BY <1>1, <1>2
  <2>2. b.f = [a.f EXCEPT !.executionState = x, !.terminated = y]
    BY <1>1, <2>1
  <2> QED BY <1>3, <2>2 DEF Fields
<1> QED BY <1>4, Zenon DEF b, x, y

(* Events are heard to the last if the end is the last of them.            *)
LEMMA HeardWhole ==
    ASSUME NEW names \in Seq(Deferrable), names # <<>>,
           \A i \in 1..Len(names) : names[i] = "terminated" => i = Len(names)
    PROVE  Heard(names) = names
<1> DEFINE E == Ends(names)
           k == CHOOSE i \in E : \A j \in E : i <= j
<1>1. Len(names) \in Nat \ {0}
  OBVIOUS
<1>2. CASE E = {}
  BY <1>2 DEF Heard
<1>3. CASE E # {}
  <2>1. E = {Len(names)}
    BY <1>3 DEF Ends
  <2> HIDE DEF E
  <2>2. k = Len(names)
    BY <1>1, <2>1
  <2>3. Heard(names) = SubSeq(names, 1, k)
    BY <1>3 DEF Heard, E
  <2> HIDE DEF k
  <2>4. SubSeq(names, 1, Len(names)) = names
    BY <1>1
  <2> QED BY <2>2, <2>3, <2>4
<1> QED BY <1>2, <1>3

(* Events in turn, unless the end is known.                                *)
ToldAll(a, b, names) ==
    IF a.f.terminated \/ names = <<>>
    THEN b.f.executionState = a.f.executionState /\ b.f.terminated = a.f.terminated
    ELSE LET last == names[Len(names)] IN
         b.f.executionState = StateAfter(last) /\ b.f.terminated = (last = "terminated")

EndsLast(names) == \A i \in 1..Len(names) : names[i] = "terminated" => i = Len(names)

(* Events told in turn: the last of them says the state.                   *)
LEMMA ApplyIs ==
    ASSUME NEW a \in States, NEW names \in Seq(Deferrable), EndsLast(names)
    PROVE  ToldAll(a, ApplyEvents(a, names), names)
<1>1. CASE a.f.terminated \/ names = <<>>
  <2>1. ApplyEvents(a, names) = a
    BY <1>1 DEF ApplyEvents
  <2> QED BY <1>1, <2>1, Zenon DEF ToldAll
<1>2. CASE ~(a.f.terminated \/ names = <<>>)
  <2>1. Heard(names) = names
    BY <1>2, HeardWhole DEF EndsLast
  <2>2. ApplyEvents(a, names) = Tell(a, names)
    BY <1>2, <2>1 DEF ApplyEvents
  <2> DEFINE b == Tell(a, names)
             last == names[Len(names)]
  <2>3. b.f.executionState = StateAfter(last) /\ b.f.terminated = (last = "terminated")
    BY TellIs
  <2> HIDE DEF b, last
  <2>4. ToldAll(a, b, names)
    BY <1>2, <2>3, Zenon DEF ToldAll, last
  <2> QED BY <2>2, <2>4 DEF b
<1> QED BY <1>1, <1>2

(* endDeferral: the last to end it tells what was deferred.                *)
EndedAll(a, b) ==
    IF a.f.deferrals > 1
    THEN /\ b.f.executionState = a.f.executionState
         /\ b.f.terminated = a.f.terminated /\ b.f.deferred = a.f.deferred
    ELSE b.f.deferred = <<>> /\ ToldAll(a, b, a.f.deferred)

(* The end of a deferral tells what was deferred, if it is the last.       *)
LEMMA EndIs ==
    ASSUME NEW a \in States, NEW H \in SUBSET Nat, Sound(a, H), EndsLast(a.f.deferred)
    PROVE  EndedAll(a, endDeferral(a))
<1> DEFINE n == IF a.f.deferrals > 0 THEN a.f.deferrals - 1 ELSE 0
           b == [a EXCEPT !.f.deferrals = IF @ > 0 THEN @ - 1 ELSE 0]
           c == [b EXCEPT !.f.deferred = <<>>]
           names == a.f.deferred
<1>1. a.f \in Fields /\ a.f.deferrals \in Nat /\ names \in Seq(Deferrable)
  BY DEF States, Fields
<1>2. n \in Nat /\ (n > 0 <=> a.f.deferrals > 1)
  BY <1>1
<1>3. /\ b = [a EXCEPT !.f = [a.f EXCEPT !.deferrals = n]]
      /\ c = [a EXCEPT !.f = [a.f EXCEPT !.deferrals = n, !.deferred = <<>>]]
  BY <1>1 DEF States, Fields
<1>4. endDeferral(a) = IF b.f.deferrals > 0 THEN b ELSE ApplyEvents(c, names)
  BY DEF endDeferral
<1> HIDE DEF n, b, c
<1>5. /\ b.f = [a.f EXCEPT !.deferrals = n]
      /\ c.f = [a.f EXCEPT !.deferrals = n, !.deferred = <<>>]
      /\ c.h = a.h /\ c.dap = a.dap /\ c.kill = a.kill
  BY <1>3 DEF States
<1>6. /\ b.f.deferrals = n /\ b.f.executionState = a.f.executionState
      /\ b.f.terminated = a.f.terminated /\ b.f.deferred = names
      /\ c.f.deferrals = n /\ c.f.executionState = a.f.executionState
      /\ c.f.terminated = a.f.terminated /\ c.f.deferred = <<>>
      /\ SamePromises(a, c)
  BY <1>1, <1>5 DEF Fields, SamePromises
<1>7. CASE a.f.deferrals > 1
  BY <1>2, <1>4, <1>6, <1>7, Zenon DEF EndedAll
<1>8. CASE ~(a.f.deferrals > 1)
  <2> DEFINE d == ApplyEvents(c, names)
  <2>1. endDeferral(a) = d
    BY <1>2, <1>4, <1>6, <1>8
  <2>2. c \in States
    <3>1. <<>> \in Seq(Deferrable)
      BY EmptySeq
    <3>2. c.f \in Fields
      BY <1>1, <1>2, <1>5, <3>1 DEF Fields
    <3> QED BY <1>3, <1>5, <3>2 DEF States
  <2>3. ToldAll(c, d, names)
    BY <1>1, <2>2, ApplyIs
  <2>4. Owned(c, H)
    BY <1>5, <1>6, SamePromised DEF Sound, Owned
  <2>5. Told(c)
    BY <1>5, <1>6 DEF Sound, Told, EndKnown, SamePromises
  <2>6. d.f.deferred = c.f.deferred
    BY <1>1, <2>2, <2>4, <2>5, ApplyFacts DEF Sound
  <2> HIDE DEF d, names
  <2>7. ToldAll(a, d, names)
    BY <1>6, <2>3 DEF ToldAll
  <2> QED BY <1>6, <1>8, <2>1, <2>6, <2>7 DEF EndedAll, names
<1> QED BY <1>7, <1>8

(* A response settles the promise of a request with its number.            *)
Settled(a, b, line) ==
    /\ Elements(b.f.pending) \subseteq Elements(a.f.pending)
    /\ b.f.protocolSeq = a.f.protocolSeq
    /\ \A t \in Elements(b.f.microtasks) :
           \/ t \in Elements(a.f.microtasks)
           \/ \E p \in Elements(a.f.pending) :
                  p.seq = line.seq /\ t.request = p.request /\ t.ok = line.ok

(* An answer settles the promises with its number, and no other.           *)
LEMMA AnswerIs ==
    ASSUME NEW a \in States, NEW line \in Lines
    PROVE  Settled(a, HandleAnswer(a, line), line)
<1> DEFINE p == a.f.pending
           q == a.f.microtasks
           matching == {i \in 1..Len(a.f.pending) : a.f.pending[i].seq = line.seq}
           k == CHOOSE i \in matching : TRUE
           b == HandleAnswer(a, line)
<1>1. CASE matching = {}
  <2>1. b = a
    BY <1>1 DEF HandleAnswer
  <2> QED BY <2>1 DEF Settled
<1>2. CASE matching # {}
  <2>1. k \in 1..Len(p) /\ p[k].seq = line.seq
    BY <1>2
  <2>2. b = SettlePending(a, k, line.ok)
    BY <1>2 DEF HandleAnswer
  <2>3. a.f \in Fields /\ p \in Seq(Entries) /\ q \in Seq(Tasks)
    BY DEF States, Fields
  <2> HIDE DEF k, b, matching
  <2> DEFINE e == Task(p[k].request, line.ok)
             t == Append(q, e)
             w == Without(p, k)
  <2>4. e \in Tasks /\ e.request = p[k].request /\ e.ok = line.ok
    <3>1. p[k] \in Entries /\ line.ok \in BOOLEAN
      BY <2>1, <2>3, LineFacts
    <3> QED BY <3>1 DEF Task, Tasks, Entries
  <2>5. b = [a EXCEPT !.f = [a.f EXCEPT !.microtasks = t, !.pending = w]]
    BY <2>2, <2>3 DEF SettlePending, Settle, States, Fields
  <2>6. Elements(t) = Elements(q) \cup {e}
    <3> HIDE DEF q, e
    <3> QED BY <2>3, <2>4, AppendFacts
  <2>7. Elements(w) \subseteq Elements(p)
    <3> HIDE DEF p
    <3> QED BY <2>1, <2>3, WithoutFacts
  <2>8. p[k] \in Elements(p)
    BY <2>1 DEF Elements
  <2> HIDE DEF t, w, e
  <2>9. /\ b.f.microtasks = t /\ b.f.pending = w /\ b.f.protocolSeq = a.f.protocolSeq
    <3>1. b.f = [a.f EXCEPT !.microtasks = t, !.pending = w]
      BY <2>5 DEF States
    <3> QED BY <2>3, <3>1 DEF Fields
  <2>10. ASSUME NEW x \in Elements(b.f.microtasks)
         PROVE  \/ x \in Elements(q)
                \/ \E y \in Elements(p) :
                       y.seq = line.seq /\ x.request = y.request /\ x.ok = line.ok
    <3>1. x \in Elements(q) \/ x = e
      BY <2>6, <2>9, <2>10
    <3>2. ASSUME x = e PROVE x.request = p[k].request /\ x.ok = line.ok
      BY <2>4, <3>2, Zenon
    <3> QED BY <2>1, <2>8, <3>1, <3>2, Zenon
  <2>11. Settled(a, b, line)
    BY <2>7, <2>9, <2>10, Zenon DEF Settled
  <2> QED BY <2>11 DEF b
<1> QED BY <1>1, <1>2

(* The child is ready, or will not be: the promise of the launch.          *)
Readied(a, b) ==
    /\ b.f.pending = a.f.pending /\ b.f.protocolSeq = a.f.protocolSeq
    /\ \A t \in Elements(b.f.microtasks) : t \in Elements(a.f.microtasks) \/ t.request = 1

(* The server is ready: the launch goes on, and nothing else.              *)
LEMMA ReadyIs ==
    ASSUME NEW a \in States, NEW ok \in BOOLEAN PROVE Readied(a, settleReady(a, ok))
<1> DEFINE q == a.f.microtasks
           b == settleReady(a, ok)
           e == Task(1, ok)
           t == Append(q, e)
<1>1. CASE ~a.f.ready
  BY <1>1 DEF settleReady, Readied
<1>2. CASE a.f.ready
  <2>1. a.f \in Fields /\ q \in Seq(Tasks)
    BY DEF States, Fields
  <2>2. b = [a EXCEPT !.f = [a.f EXCEPT !.microtasks = t, !.ready = FALSE]]
    BY <1>2, <2>1 DEF settleReady, Settle, States
  <2>3. e \in Tasks /\ e.request = 1
    BY DEF Task, Tasks
  <2>4. Elements(t) = Elements(q) \cup {e}
    <3> HIDE DEF q, e
    <3> QED BY <2>1, <2>3, AppendFacts
  <2> HIDE DEF t, b, e
  <2>5. b.f.microtasks = t /\ b.f.pending = a.f.pending /\ b.f.protocolSeq = a.f.protocolSeq
    <3>1. b.f = [a.f EXCEPT !.microtasks = t, !.ready = FALSE]
      BY <2>2 DEF States
    <3> QED BY <2>1, <3>1 DEF Fields
  <2>6. Readied(a, b)
    BY <2>3, <2>4, <2>5 DEF Readied
  <2> QED BY <2>6 DEF b
<1> QED BY <1>1, <1>2

(* A request written to the child.                                         *)
AskedOf(a, b, r, command) ==
    /\ b.h = Staged(a.h, r, "reply")
    /\ b.f.protocolSeq = a.f.protocolSeq + 1
    /\ b.f.pending = Append(a.f.pending, [seq |-> a.f.protocolSeq, request |-> r])
    /\ b.f.stdin = Append(a.f.stdin, [seq |-> a.f.protocolSeq, command |-> command])
    /\ b.f.child = a.f.child /\ b.f.waiting = a.f.waiting
    /\ b.f.microtasks = a.f.microtasks
    /\ b.f.executionState = a.f.executionState /\ b.f.terminated = a.f.terminated
    /\ b.f.entryStoppedSent = a.f.entryStoppedSent
    /\ b.f.deferrals = a.f.deferrals /\ b.f.deferred = a.f.deferred

(* What a request to a child that runs leaves in every queue.              *)
LEMMA AskIs ==
    ASSUME NEW a \in States, NEW r \in 1..Len(a.h), NEW command,
           a.f.child, process \notin {"reaped", "closed"}
    PROVE  AskedOf(a, sendProtocolRequest(a, r, command), r, command)
<1> DEFINE p == Append(a.f.pending, [seq |-> a.f.protocolSeq, request |-> r])
           q == Append(a.f.stdin, [seq |-> a.f.protocolSeq, command |-> command])
           n == a.f.protocolSeq + 1
           g == Staged(a.h, r, "reply")
           b == sendProtocolRequest(a, r, command)
<1>1. a.f \in Fields
  BY DEF States
<1> DEFINE f == [a.f EXCEPT !.protocolSeq = n, !.pending = p, !.stdin = q]
<1>2. b = [a EXCEPT !.f = f, !.h = g]
  BY <1>1 DEF sendProtocolRequest, States, Fields, Staged
<1> HIDE DEF p, q, n, g, b
<1>3. /\ f.protocolSeq = n /\ f.pending = p /\ f.stdin = q
      /\ f.child = a.f.child /\ f.waiting = a.f.waiting
      /\ f.microtasks = a.f.microtasks
      /\ f.executionState = a.f.executionState /\ f.terminated = a.f.terminated
      /\ f.entryStoppedSent = a.f.entryStoppedSent
      /\ f.deferrals = a.f.deferrals /\ f.deferred = a.f.deferred
  BY <1>1 DEF Fields
<1> HIDE DEF f
<1>4. b.f = f /\ b.h = g
  BY <1>2 DEF States
<1>5. AskedOf(a, b, r, command)
  BY <1>3, <1>4, Zenon DEF AskedOf, p, q, n, g
<1> QED BY <1>5 DEF b

(* What becomes of one handler, and of a new one.                          *)
LEMMA RepliedIs ==
    ASSUME NEW h \in Seq(Handlers), NEW r \in 1..Len(h), NEW ok \in BOOLEAN
    PROVE  LET g == Replied(h, r, ok) IN
           /\ g \in Seq(Handlers) /\ Len(g) = Len(h)
           /\ g[r].stage = "done" /\ g[r].ok = ok
           /\ g[r].command = h[r].command /\ g[r].previous = h[r].previous
           /\ \A i \in 1..Len(h) : i # r => g[i] = h[i]
<1> DEFINE e == [h[r] EXCEPT !.stage = "done", !.ok = ok]
           g == Replied(h, r, ok)
<1>1. h[r] \in Handlers /\ r \in DOMAIN h
  OBVIOUS
<1>2. /\ e \in Handlers /\ e.stage = "done" /\ e.ok = ok
      /\ e.command = h[r].command /\ e.previous = h[r].previous
  BY <1>1 DEF Handlers
<1>3. g = [h EXCEPT ![r] = e]
  BY <1>1 DEF Replied
<1> HIDE DEF e, g
<1>4. /\ g \in Seq(Handlers) /\ Len(g) = Len(h) /\ g[r] = e
      /\ \A i \in 1..Len(h) : i # r => g[i] = h[i]
  BY <1>1, <1>2, <1>3
<1> QED BY <1>2, <1>4 DEF g

(* A handler in another stage is the same handler.                         *)
LEMMA StagedIs ==
    ASSUME NEW h \in Seq(Handlers), NEW r \in 1..Len(h), NEW stage \in Stages
    PROVE  LET g == Staged(h, r, stage) IN
           /\ g \in Seq(Handlers) /\ Len(g) = Len(h) /\ g[r].stage = stage
           /\ g[r].command = h[r].command /\ g[r].previous = h[r].previous
           /\ g[r].ok = h[r].ok
           /\ \A i \in 1..Len(h) : i # r => g[i] = h[i]
<1> DEFINE e == [h[r] EXCEPT !.stage = stage]
           g == Staged(h, r, stage)
<1>1. h[r] \in Handlers /\ r \in DOMAIN h
  OBVIOUS
<1>2. /\ e \in Handlers /\ e.stage = stage /\ e.ok = h[r].ok
      /\ e.command = h[r].command /\ e.previous = h[r].previous
  BY <1>1 DEF Handlers, Stages
<1>3. g = [h EXCEPT ![r] = e]
  BY <1>1 DEF Staged
<1> HIDE DEF e, g
<1>4. /\ g \in Seq(Handlers) /\ Len(g) = Len(h) /\ g[r] = e
      /\ \A i \in 1..Len(h) : i # r => g[i] = h[i]
  BY <1>1, <1>2, <1>3
<1> QED BY <1>2, <1>4 DEF g

(* A new request, whose handler remembers what the adapter was doing.      *)
LEMMA ReceivedIs ==
    ASSUME TypeOK, NEW command \in Commands
    PROVE  LET h == Received(command).h
               r == Len(handlers) + 1 IN
           /\ h \in Seq(Handlers) /\ Len(h) = r /\ r \in Nat
           /\ h[r].command = command /\ h[r].previous = adapter.executionState
           /\ \A i \in 1..Len(handlers) : h[i] = handlers[i]
<1> DEFINE n == NewHandler(command)
           h == Append(handlers, n)
<1>1. handlers \in Seq(Handlers) /\ adapter.executionState \in ExecutionStates
  BY DEF TypeOK, Fields
<1>2. n \in Handlers /\ n.command = command /\ n.previous = adapter.executionState
  BY <1>1 DEF NewHandler, Handlers
<1>3. Received(command).h = h
  BY DEF Received, State
<1> HIDE DEF n
<1>4. /\ h \in Seq(Handlers) /\ Len(h) = Len(handlers) + 1 /\ Len(handlers) \in Nat
      /\ h[Len(handlers) + 1] = n
      /\ \A i \in 1..Len(handlers) : h[i] = handlers[i]
  BY <1>1, <1>2
<1> HIDE DEF h
<1> QED BY <1>2, <1>3, <1>4

(* A request without a child to send it to.                                *)
LEMMA AskedNobody ==
    ASSUME NEW a \in States, NEW r, NEW command, ~a.f.child
    PROVE  ~sendProtocolRequest(a, r, command).f.child
<1> DEFINE q == Append(a.f.microtasks, Task(r, FALSE))
           g == Staged(a.h, r, "reply")
           f == [a.f EXCEPT !.microtasks = q]
           b == sendProtocolRequest(a, r, command)
<1>1. a.f \in Fields
  BY DEF States
<1>2. b = [a EXCEPT !.f = f, !.h = g]
  BY <1>1 DEF sendProtocolRequest, Settle, States, Fields, Staged
<1> HIDE DEF q, g, b
<1>3. ~f.child
  BY <1>1 DEF Fields
<1> HIDE DEF f
<1>4. ~b.f.child
  BY <1>2, <1>3 DEF States
<1> QED BY <1>4 DEF b

(* Whatever stops the server takes the child out of reach.                 *)
LEMMA StopsAgree ==
    ASSUME AdapterInv, Dispose \/ Timers \/ WriteFails PROVE AgreementInv'
<1>0. TypeOK /\ LocalInv
  BY DEF AdapterInv, LocalInv
<1>1. /\ State \in States /\ Owned(State, {}) /\ {} \in SUBSET Nat /\ State.f = adapter
  BY <1>0, StateFine DEF Sound
<1>2. stopChild(State) \in States /\ ~stopChild(State).f.child
  BY <1>1, StopFacts
<1>3. ASSUME ~adapter'.child PROVE AgreementInv'
  BY <1>3, OutOfReach DEF Reachable
<1>4. CASE Dispose
  <2> DEFINE a == stopChild(State)
             b == [a EXCEPT !.f.disposed = TRUE]
  <2>1. Becomes(b)
    BY <1>4 DEF Dispose
  <2> HIDE DEF a
  <2>2. ~b.f.child
    <3>1. a \in States /\ ~a.f.child /\ a.f \in Fields
      BY <1>2 DEF States, a
    <3>2. b.f = [a.f EXCEPT !.disposed = TRUE]
      BY <3>1 DEF States
    <3> QED BY <3>1, <3>2 DEF Fields
  <2> QED BY <1>3, <2>1, <2>2 DEF Becomes
<1>5. CASE RequestTimeout \/ WriteFails
  <2>1. PICK i \in 1..Len(adapter.pending) : Becomes(TimesOut(State, i))
    BY <1>5 DEF RequestTimeout, WriteFails
  <2> DEFINE ok == FALSE
             b == SettlePending(State, i, ok)
  <2>2. ok \in BOOLEAN /\ i \in 1..Len(State.f.pending)
    BY <1>1
  <2>3. b \in States /\ Owned(b, {})
    BY <1>1, <2>2, PendingFacts
  <2>4. TimesOut(State, i) = stopChild(b)
    BY DEF TimesOut
  <2> HIDE DEF b
  <2>5. ~stopChild(b).f.child
    BY <1>1, <2>3, StopFacts
  <2> QED BY <1>3, <2>1, <2>4, <2>5 DEF Becomes
<1>6. CASE ReadyTimeout
  <2>1. Becomes(stopChild(State))
    BY <1>6 DEF ReadyTimeout
  <2> QED BY <1>2, <1>3, <2>1 DEF Becomes
<1>7. CASE ExitTimeout
  <2> DEFINE a == IF adapter.child THEN stopChild(State) ELSE State
  <2>1. PICK i \in 1..Len(adapter.waiting) : Becomes(Resumes(a, i))
    BY <1>7 DEF ExitTimeout
  <2>2. a \in States /\ ~a.f.child
    BY <1>1, <1>2
  <2> HIDE DEF a
  <2> DEFINE q == Append(a.f.microtasks, a.f.waiting[i])
             w == Without(a.f.waiting, i)
             b == Resumes(a, i)
  <2>3. a.f \in Fields
    BY <2>2 DEF States
  <2>4. b = [a EXCEPT !.f = [a.f EXCEPT !.microtasks = q, !.waiting = w]]
    BY <2>2, <2>3 DEF Resumes, States, Fields
  <2> HIDE DEF q, w, b
  <2>5. b.f = [a.f EXCEPT !.microtasks = q, !.waiting = w]
    BY <2>2, <2>4 DEF States
  <2>6. ~b.f.child
    BY <2>2, <2>3, <2>5 DEF Fields
  <2> QED BY <1>3, <2>1, <2>6 DEF Becomes, b
<1> QED BY <1>4, <1>5, <1>6, <1>7 DEF Timers

(* So does the end of the process, as far as anybody can tell.             *)
LEMMA EndsAgree ==
    ASSUME AdapterInv, Exit \/ ExitSeen \/ Close \/ SpawnFails \/ ServerDisconnects
    PROVE  AgreementInv'
<1>1. process' \in {"exited", "reaped", "closed"}
  BY DEF Exit, ExitSeen, Close, SpawnFails, ServerDisconnects
<1> QED BY <1>1, OutOfReach DEF Reachable

(* A request joins the handlers.                                           *)
Newcomer(command) ==
    /\ Len(handlers') = Len(handlers) + 1
    /\ handlers'[Len(handlers')].command = command
    /\ handlers'[Len(handlers')].previous = adapter.executionState
    /\ \A i \in 1..Len(handlers) : handlers'[i] = handlers[i]

(* A new request is behind all others and changes none of them.            *)
LEMMA NewcomerFacts ==
    ASSUME AdapterInv, NEW command, Newcomer(command)
    PROVE  /\ HandlersKept /\ (LaunchDone' <=> LaunchDone) /\ handlers'[1].ok = handlers[1].ok
           /\ Len(handlers') \notin 1..Len(handlers) /\ Len(handlers') \in 1..Len(handlers')
           /\ \A i \in 1..Len(handlers') : i \in 1..Len(handlers) \/ i = Len(handlers')
           /\ \A r \in Undone(handlers') : r \in Undone(handlers) \/ r = Len(handlers')
           /\ \A r \in 1..Len(handlers) : Awaiting(r)' <=> Awaiting(r)
<1>1. Len(handlers) \in Nat \ {0}
  BY DEF AdapterInv, TypeOK, LaunchInv
<1>2. \A i \in 1..Len(handlers') : i \in 1..Len(handlers) \/ i = Len(handlers')
  BY <1>1 DEF Newcomer
<1>3. Len(handlers') \notin 1..Len(handlers) /\ Len(handlers') \in 1..Len(handlers')
  BY <1>1 DEF Newcomer
<1>4. HandlersKept
  BY <1>1 DEF Newcomer, HandlersKept
<1>5. handlers'[1] = handlers[1]
  BY <1>1 DEF Newcomer
<1>6. \A r \in Undone(handlers') : r \in Undone(handlers) \/ r = Len(handlers')
  BY <1>2 DEF Newcomer, Undone
<1>7. \A r \in 1..Len(handlers) : Awaiting(r)' <=> Awaiting(r)
  BY DEF Newcomer, Awaiting
<1> QED BY <1>2, <1>3, <1>4, <1>5, <1>6, <1>7 DEF LaunchDone

(* A request that has been answered at once changes nothing else.          *)
LEMMA AnsweredAtOnce ==
    ASSUME AdapterInv, Working, NEW command, Newcomer(command),
           handlers'[Len(handlers')].stage = "done",
           adapter'.pending = adapter.pending, adapter'.microtasks = adapter.microtasks,
           SameCalls(adapter, adapter'), UNCHANGED <<stdout, server>>
    PROVE  /\ adapter'.waiting = <<>> /\ NumberInv' /\ FailureInv'
           /\ \A r \in 1..Len(handlers') :
                  Awaiting(r)' => r \in 1..Len(handlers) /\ Awaiting(r)
<1>0. PICK n : n = Len(handlers')
  OBVIOUS
<1>1. /\ HandlersKept /\ (LaunchDone' <=> LaunchDone) /\ handlers'[1].ok = handlers[1].ok
      /\ \A i \in 1..Len(handlers') : i \in 1..Len(handlers) \/ i = n
      /\ \A r \in Undone(handlers') : r \in Undone(handlers) \/ r = n
      /\ \A r \in 1..Len(handlers) : Awaiting(r)' <=> Awaiting(r)
  BY <1>0, NewcomerFacts
<1>2. n \notin Undone(handlers') /\ ~Awaiting(n)'
  BY <1>0 DEF Undone, Awaiting
<1>3. NumberInv'
  <2>1. /\ answering' < adapter.protocolSeq
        /\ \A l \in Elements(stdout') : l.seq < adapter.protocolSeq
    BY DEF Working, NumberInv, server
  <2> QED BY <1>1, <2>1, RequestsKnown, NumberKept DEF Working, SameCalls
<1>4. FailureInv'
  <2>1. LaunchDone' => handlers'[1].ok
    BY <1>1 DEF Working, FailureInv
  <2> QED BY <1>1, <1>2, <2>1, RequestsKnown, FailureKept DEF Working
<1>5. ASSUME NEW r \in 1..Len(handlers'), Awaiting(r)'
      PROVE  r \in 1..Len(handlers) /\ Awaiting(r)
  <2>1. r # n
    BY <1>2, <1>5
  <2> QED BY <1>1, <1>5, <2>1
<1> QED BY <1>3, <1>4, <1>5 DEF Working, SameCalls

(* A request has been written for handler r.                               *)
AsksFor(r, command) ==
    /\ adapter'.protocolSeq = adapter.protocolSeq + 1
    /\ adapter'.pending = Append(adapter.pending, [seq |-> adapter.protocolSeq, request |-> r])
    /\ adapter'.stdin = Append(adapter.stdin, [seq |-> adapter.protocolSeq, command |-> command])
    /\ adapter'.waiting = adapter.waiting
    /\ Elements(adapter'.microtasks) \subseteq Elements(adapter.microtasks)
    /\ UNCHANGED <<stdout, server>>

(* A request adds one entry to two queues, with one number.                *)
LEMMA AsksForFacts ==
    ASSUME AdapterInv, NEW r \in Nat, NEW command \in Commands \cup {"initialize"},
           AsksFor(r, command)
    PROVE  /\ Elements(adapter'.pending) =
                  Elements(adapter.pending) \cup {[seq |-> adapter.protocolSeq, request |-> r]}
           /\ Elements(adapter'.stdin) =
                  Elements(adapter.stdin) \cup {[seq |-> adapter.protocolSeq, command |-> command]}
           /\ [seq |-> adapter.protocolSeq, command |-> command] \in Requests
<1>1. /\ adapter.protocolSeq \in Nat /\ adapter.pending \in Seq(Entries)
      /\ adapter.stdin \in Seq(Requests)
  BY DEF AdapterInv, TypeOK, Fields, Requests
<1> DEFINE p == adapter.pending
           s == adapter.stdin
           e == [seq |-> adapter.protocolSeq, request |-> r]
           l == [seq |-> adapter.protocolSeq, command |-> command]
<1>2. e \in Entries /\ l \in Requests
  BY <1>1 DEF Entries, Requests
<1> HIDE DEF p, s, e, l
<1>3. adapter'.pending = Append(p, e) /\ adapter'.stdin = Append(s, l)
  BY DEF AsksFor, p, s, e, l
<1>4. p \in Seq(Entries) /\ s \in Seq(Requests)
  BY <1>1 DEF p, s
<1>5. Elements(Append(p, e)) = Elements(p) \cup {e}
  BY <1>2, <1>4, AppendFacts
<1>6. Elements(Append(s, l)) = Elements(s) \cup {l}
  BY <1>2, <1>4, AppendFacts
<1> QED BY <1>2, <1>3, <1>5, <1>6 DEF p, s, e, l

(* The new number is nobody else's, so the answers still fit.              *)
LEMMA AskedWorks ==
    ASSUME AdapterInv, Working, HandlersKept,
           NEW r \in 1..Len(handlers'), NEW command \in Commands \cup {"initialize"},
           command = SentAs(handlers'[r].command), AsksFor(r, command),
           LaunchDone' => handlers'[1].ok,
           \A x \in Undone(handlers') : x \in Undone(handlers)
               \/ (handlers'[x].command = "pause" => handlers'[x].previous = "running")
    PROVE  /\ adapter'.waiting = <<>> /\ NumberInv' /\ FailureInv'
           /\ Elements(adapter.stdin) \subseteq Elements(adapter'.stdin)
<1>0. r \in Nat
  OBVIOUS
<1>1. /\ Elements(adapter'.pending) =
             Elements(adapter.pending) \cup {[seq |-> adapter.protocolSeq, request |-> r]}
      /\ Elements(adapter'.stdin) =
             Elements(adapter.stdin) \cup {[seq |-> adapter.protocolSeq, command |-> command]}
  BY <1>0, AsksForFacts
<1>2. NumberInv'
  <2>1. UNCHANGED <<stdout, answering>> /\ adapter'.protocolSeq = adapter.protocolSeq + 1
    BY DEF AsksFor, server
  <2> QED BY <1>1, <2>1, RequestsKnown, NumberAsked DEF Working
<1>3. FailureInv'
  <2>1. ASSUME NEW l \in Elements(stdout'), NEW p \in Elements(adapter'.pending), l.seq = p.seq
        PROVE  l \in Elements(stdout) /\ p \in Elements(adapter.pending)
    <3>1. l \in Elements(stdout) /\ l.seq < adapter.protocolSeq
      BY <2>1 DEF AsksFor, Working, NumberInv
    <3>2. adapter.protocolSeq \in Nat
      BY DEF AdapterInv, TypeOK, Fields
    <3>3. p.seq # adapter.protocolSeq
      BY <2>1, <3>1, <3>2
    <3>4. p # [seq |-> adapter.protocolSeq, request |-> r]
      BY <3>3
    <3> QED BY <1>1, <3>1, <3>4
  <2>2. \A t \in Elements(adapter'.microtasks) : t \in Elements(adapter.microtasks)
    BY DEF AsksFor
  <2> QED BY <2>1, <2>2, RequestsKnown, FailureKept DEF Working
<1> QED BY <1>1, <1>2, <1>3 DEF AsksFor, Working

(* The same with the state, when what is asked for moves nothing.          *)
LEMMA AskedCalmly ==
    ASSUME AdapterInv, Working, HandlersKept,
           NEW r \in 1..Len(handlers'), NEW command \in Commands \cup {"initialize"},
           command \notin Moves, AsksFor(r, command), LaunchDone, SameState,
           adapter'.deferrals = 0 => adapter.deferrals = 0,
           adapter.executionState # "running" =>
               \A x \in 1..Len(handlers') : Awaiting(x)' => x \in 1..Len(handlers) /\ Awaiting(x)
    PROVE  StateInv'
<1>1. StateInv
  BY DEF Working
<1>2. SameNews
  <2>1. Unimportant
    BY DEF AsksFor, Unimportant
  <2> QED BY <1>1, <2>1, NewsKept DEF AdapterInv, StateInv
<1>3. SameMoves
  <2>1. [seq |-> adapter.protocolSeq, command |-> command] \in Requests /\ r \in Nat
    BY AsksForFacts
  <2>2. Unmoving
    BY <2>1 DEF AsksFor, Unmoving
  <2> QED BY <1>1, <2>2, MovesKept DEF AdapterInv, StateInv
<1>4. adapter.executionState # "running" => \A x \in 1..Len(handlers') : ~Awaiting(x)'
  BY <1>1 DEF StateInv, Resting
<1> QED BY <1>1, <1>2, <1>3, <1>4, StateKept

(* A request that has been answered, or sent on, in the step that brought  *)
(* it.                                                                     *)
LEMMA NewReply ==
    ASSUME TypeOK, NEW command \in Commands, NEW ok \in BOOLEAN,
           handlers' = Replied(Received(command).h, Len(handlers) + 1, ok)
    PROVE  Newcomer(command) /\ handlers'[Len(handlers')].stage = "done"
<1> DEFINE h == Received(command).h
           r == Len(handlers) + 1
           g == Replied(h, r, ok)
<1>1. /\ h \in Seq(Handlers) /\ Len(h) = r /\ r \in Nat
      /\ h[r].command = command /\ h[r].previous = adapter.executionState
      /\ \A i \in 1..Len(handlers) : h[i] = handlers[i]
  BY ReceivedIs
<1>2. Len(handlers) \in Nat
  BY DEF TypeOK
<1>3. r \in 1..Len(h) /\ \A i \in 1..Len(handlers) : i \in 1..Len(h) /\ i # r
  BY <1>1, <1>2
<1> HIDE DEF h
<1>4. /\ g \in Seq(Handlers) /\ Len(g) = Len(h)
      /\ g[r].stage = "done"
      /\ g[r].command = h[r].command /\ g[r].previous = h[r].previous
      /\ \A i \in 1..Len(h) : i # r => g[i] = h[i]
  <2> HIDE DEF r
  <2>1. h \in Seq(Handlers) /\ r \in 1..Len(h)
    BY <1>1, <1>3
  <2> QED BY <2>1, RepliedIs, SMTT(60)
<1>5. handlers' = g
  BY DEF h
<1> HIDE DEF g
<1> QED BY <1>1, <1>3, <1>4, <1>5 DEF Newcomer

(* A new request that waits for its answer is a newcomer.                  *)
LEMMA NewStaged ==
    ASSUME TypeOK, NEW command \in Commands,
           handlers' = Staged(Received(command).h, Len(handlers) + 1, "reply")
    PROVE  Newcomer(command) /\ handlers'[Len(handlers')].stage = "reply"
<1> DEFINE h == Received(command).h
           r == Len(handlers) + 1
           stage == "reply"
           g == Staged(h, r, stage)
<1>1. /\ h \in Seq(Handlers) /\ Len(h) = r /\ r \in Nat
      /\ h[r].command = command /\ h[r].previous = adapter.executionState
      /\ \A i \in 1..Len(handlers) : h[i] = handlers[i]
  BY ReceivedIs
<1>2. Len(handlers) \in Nat
  BY DEF TypeOK
<1>3. r \in 1..Len(h) /\ \A i \in 1..Len(handlers) : i \in 1..Len(h) /\ i # r
  BY <1>1, <1>2
<1> HIDE DEF h
<1>4. /\ g \in Seq(Handlers) /\ Len(g) = Len(h)
      /\ g[r].stage = "reply"
      /\ g[r].command = h[r].command /\ g[r].previous = h[r].previous
      /\ \A i \in 1..Len(h) : i # r => g[i] = h[i]
  <2>1. stage \in Stages
    BY DEF Stages
  <2> HIDE DEF r
  <2> QED BY <1>1, <1>3, <2>1, StagedIs
<1>5. handlers' = g
  BY DEF h
<1> HIDE DEF g
<1> QED BY <1>1, <1>3, <1>4, <1>5 DEF Newcomer

(* A request the adapter answers by itself.                                *)
LEMMA AnsweredAgrees ==
    ASSUME AdapterInv, AgreementInv, AdapterInv', LaunchDone,
           NEW command \in Commands \ Leaving, Newcomer(command),
           handlers'[Len(handlers')].stage = "done",
           adapter'.pending = adapter.pending, adapter'.microtasks = adapter.microtasks,
           SameCalls(adapter, adapter'), UNCHANGED <<process, stdout, server>>,
           Connected => SameState /\ adapter'.deferrals = adapter.deferrals
    PROVE  AgreementInv'
<1>0. PICK n : n = Len(handlers')
  OBVIOUS
<1>1. /\ HandlersKept /\ (LaunchDone' <=> LaunchDone)
      /\ \A i \in 1..Len(handlers') : i \in 1..Len(handlers) \/ i = n
  BY <1>0, NewcomerFacts
<1>2. \A r \in 1..Len(handlers') :
          r \in 1..Len(handlers) \/ handlers'[r].command \notin Leaving
  BY <1>0, <1>1 DEF Newcomer
<1>3. /\ \A s \in Elements(adapter.stdin) : s.command \in Leaving => s \in Elements(adapter'.stdin)
      /\ Reachable' => Reachable
  BY DEF SameCalls, Reachable
<1>4. ASSUME Connected PROVE Working'
  <2>1. Working /\ StateInv
    BY <1>4 DEF AgreementInv, Working
  <2>2. /\ adapter'.waiting = <<>> /\ NumberInv' /\ FailureInv'
        /\ \A r \in 1..Len(handlers') : Awaiting(r)' => r \in 1..Len(handlers) /\ Awaiting(r)
    BY <2>1, AnsweredAtOnce
  <2>3. SameNews
    <3>1. Unimportant
      BY DEF Unimportant
    <3> QED BY <1>4, <2>1, <3>1, NewsKept DEF AdapterInv, StateInv
  <2>4. SameMoves
    <3>1. Unmoving
      BY DEF Unmoving, SameCalls
    <3> QED BY <2>1, <3>1, MovesKept DEF AdapterInv, StateInv
  <2>5. adapter.executionState # "running" => \A r \in 1..Len(handlers') : ~Awaiting(r)'
    BY <2>1, <2>2 DEF StateInv, Resting
  <2>6. StateInv'
    BY <1>4, <2>1, <2>3, <2>4, <2>5, StateKept
  <2> QED BY <1>1, <2>2, <2>6 DEF Working
<1> QED BY <1>1, <1>2, <1>3, <1>4, InReach

(* The reply to a new request.                                             *)
LEMMA ReplyAtOnce ==
    ASSUME TypeOK, LocalInv, NEW command \in Commands, NEW ok \in BOOLEAN
    PROVE  LET a == Received(command)
               b == Reply(a, Len(a.h), ok) IN
           /\ b \in States /\ b.f = adapter
           /\ b.h = Replied(a.h, Len(handlers) + 1, ok)
<1> DEFINE a == Received(command)
           r == Len(a.h)
           b == Reply(a, r, ok)
           H == {r}
<1>1. Fresh(a, r, command) /\ a \in States /\ a.f = adapter
  BY ReceivedFresh
<1> HIDE DEF a
<1>2. /\ H \in SUBSET Nat /\ Owned(a, H) /\ Told(a) /\ r \in H /\ r = Len(handlers) + 1
  BY <1>1 DEF Fresh, Sound
<1> HIDE DEF H, r
<1>3. b \in States /\ b.f = a.f /\ b.h = Replied(a.h, r, ok)
  BY <1>1, <1>2, ReplyFacts
<1> HIDE DEF b
<1>4. b \in States /\ b.f = adapter /\ b.h = Replied(a.h, Len(handlers) + 1, ok)
  BY <1>1, <1>2, <1>3
<1> QED BY <1>4 DEF a, b, r

(* handleConfigurationDone reports the entry of a session that has not     *)
(* moved.                                                                  *)
LEMMA ConfigurationAgrees ==
    ASSUME AdapterInv, AgreementInv, AdapterInv', ConfigurationDone PROVE AgreementInv'
<1> DEFINE a == Received("configurationDone")
           ok == TRUE
           b == Reply(a, Len(a.h), ok)
           s == sendEvent(b, "stopped")
           c == [s EXCEPT !.f.entryStoppedSent = TRUE, !.f.executionState = "paused"]
<1>1. TypeOK /\ LocalInv /\ "configurationDone" \in Commands \ Leaving /\ LaunchDone
      /\ ok \in BOOLEAN
  BY DEF AdapterInv, LocalInv, Commands, Leaving, ConfigurationDone, MayRequest, SetUp, LaunchDone
<1>2. /\ b \in States /\ b.f = adapter /\ b.h = Replied(a.h, Len(handlers) + 1, ok)
  BY <1>1, ReplyAtOnce
<1>3. /\ Becomes(IF b.f.entryStoppedSent \/ b.f.terminated THEN b ELSE c)
      /\ UNCHANGED <<process, stdout, server>>
  BY DEF ConfigurationDone
<1>4. handlers' = Replied(a.h, Len(handlers) + 1, ok)
      /\ (adapter' = adapter
          \/ (~adapter.entryStoppedSent
              /\ adapter' = [adapter EXCEPT !.entryStoppedSent = TRUE,
                                            !.executionState = "paused"]))
  <2> HIDE DEF a, b
  <2>1. CASE b.f.entryStoppedSent \/ b.f.terminated
    BY <1>2, <1>3, <2>1 DEF Becomes
  <2>2. CASE ~(b.f.entryStoppedSent \/ b.f.terminated)
    <3>1. s.f = b.f /\ s.h = b.h /\ s = [f |-> b.f, h |-> b.h, dap |-> s.dap, kill |-> b.kill]
      BY <1>2, SendKeeps DEF sendEvent
    <3> HIDE DEF s
    <3>2. c.h = b.h /\ c.f = [b.f EXCEPT !.entryStoppedSent = TRUE, !.executionState = "paused"]
      BY <3>1
    <3> HIDE DEF c
    <3> QED BY <1>2, <1>3, <2>2, <3>2 DEF Becomes
  <2> QED BY <2>1, <2>2
<1>5. Newcomer("configurationDone") /\ handlers'[Len(handlers')].stage = "done"
  BY <1>1, <1>4, NewReply
<1>6. /\ adapter'.pending = adapter.pending /\ adapter'.microtasks = adapter.microtasks
      /\ SameCalls(adapter, adapter') /\ adapter'.deferrals = adapter.deferrals
      /\ adapter'.terminated = adapter.terminated /\ adapter'.deferred = adapter.deferred
      /\ (adapter.entryStoppedSent => adapter'.entryStoppedSent)
      /\ (adapter'.executionState = adapter.executionState
          \/ (~adapter.entryStoppedSent /\ adapter'.executionState = "paused"))
  <2>1. CASE adapter' = adapter
    BY <2>1 DEF SameCalls
  <2>2. CASE ~adapter.entryStoppedSent
              /\ adapter' = [adapter EXCEPT !.entryStoppedSent = TRUE,
                                            !.executionState = "paused"]
    <3>1. adapter \in Fields
      BY <1>1 DEF TypeOK
    <3> DEFINE f == adapter
    <3> QED BY <2>2, <3>1 DEF SameCalls, Fields
  <2> QED BY <1>4, <2>1, <2>2
<1>7. Connected => SameState /\ adapter'.deferrals = adapter.deferrals
  <2>1. ASSUME Connected PROVE ~adapter.entryStoppedSent => adapter.executionState = "paused"
    BY <1>1, <2>1 DEF AgreementInv, Working, StateInv
  <2> QED BY <1>3, <1>6, <2>1 DEF SameState, server
<1> QED BY <1>1, <1>3, <1>5, <1>6, <1>7, AnsweredAgrees

(* A new request that is sent on to the server.                            *)
SentOn(a, command) ==
    /\ Newcomer(command) /\ handlers'[Len(handlers')].stage = "reply"
    /\ AsksFor(Len(handlers'), command) /\ adapter'.child = adapter.child
    /\ adapter'.executionState = a.f.executionState
    /\ adapter'.terminated = a.f.terminated
    /\ adapter'.entryStoppedSent = a.f.entryStoppedSent
    /\ adapter'.deferrals = a.f.deferrals /\ adapter'.deferred = a.f.deferred

(* A new request that was sent on is a newcomer that was asked for.        *)
LEMMA NewAsk ==
    ASSUME TypeOK, Reachable, NEW command \in Commands,
           NEW a \in States, SamePromises(Received(command), a), a.h = Received(command).h,
           Becomes(sendProtocolRequest(a, Len(a.h), command)), UNCHANGED <<stdout, server>>
    PROVE  SentOn(a, command)
<1> DEFINE x == Received(command)
           r == Len(handlers) + 1
           b == sendProtocolRequest(a, r, command)
<1>1. /\ Len(x.h) = r /\ r \in Nat /\ Len(handlers) \in Nat
  BY ReceivedIs DEF TypeOK
<1>2. x.f = adapter
  BY DEF Received, State
<1>3. /\ a.f.microtasks = adapter.microtasks /\ a.f.pending = adapter.pending
      /\ a.f.waiting = adapter.waiting /\ a.f.stdin = adapter.stdin
      /\ a.f.child = adapter.child /\ a.f.protocolSeq = adapter.protocolSeq
  BY <1>2 DEF SamePromises
<1>4. r \in 1..Len(a.h) /\ Len(a.h) = r
  BY <1>1
<1>5. a.f.child /\ process \notin {"reaped", "closed"}
  BY <1>3 DEF Reachable
<1>6. AskedOf(a, b, r, command)
  <2> HIDE DEF r
  <2> QED BY <1>4, <1>5, AskIs
<1>7. adapter' = b.f /\ handlers' = b.h
  BY <1>4 DEF Becomes
<1>8. handlers' = Staged(Received(command).h, Len(handlers) + 1, "reply")
  BY <1>6, <1>7 DEF AskedOf
<1>9. Newcomer(command) /\ handlers'[Len(handlers')].stage = "reply"
  BY <1>8, NewStaged
<1>10. Len(handlers') = r
  BY <1>9 DEF Newcomer
<1> HIDE DEF b, r
<1>11. AsksFor(r, command) /\ adapter'.child = adapter.child
  BY <1>3, <1>6, <1>7 DEF AsksFor, AskedOf
<1>12. /\ adapter'.executionState = a.f.executionState
       /\ adapter'.terminated = a.f.terminated
       /\ adapter'.entryStoppedSent = a.f.entryStoppedSent
       /\ adapter'.deferrals = a.f.deferrals /\ adapter'.deferred = a.f.deferred
  BY <1>6, <1>7 DEF AskedOf
<1> QED BY <1>9, <1>10, <1>11, <1>12 DEF SentOn

(* Before the client leaves, it agrees with the server if the state does.  *)
LEMMA SentAgrees ==
    ASSUME AdapterInv, AgreementInv, AdapterInv', LaunchDone,
           NEW command \in Commands \ Leaving, NEW a, SentOn(a, command),
           UNCHANGED process, command = "pause" => adapter.executionState = "running",
           Connected => StateInv'
    PROVE  AgreementInv'
<1>0. PICK n : n = Len(handlers')
  OBVIOUS
<1>1. /\ HandlersKept /\ (LaunchDone' <=> LaunchDone) /\ handlers'[1].ok = handlers[1].ok
      /\ n \in 1..Len(handlers')
      /\ \A i \in 1..Len(handlers') : i \in 1..Len(handlers) \/ i = n
      /\ \A r \in Undone(handlers') : r \in Undone(handlers) \/ r = n
  BY <1>0, NewcomerFacts DEF SentOn
<1>2. /\ handlers'[n].command = command /\ handlers'[n].previous = adapter.executionState
      /\ AsksFor(n, command) /\ adapter'.child = adapter.child
  BY <1>0 DEF SentOn, Newcomer
<1>3. \A r \in 1..Len(handlers') :
          r \in 1..Len(handlers) \/ handlers'[r].command \notin Leaving
  BY <1>1, <1>2
<1>4. n \in Nat /\ command # "launch" /\ command \in Commands
  <2>1. handlers' \in Seq(Handlers)
    BY DEF AdapterInv, TypeOK
  <2> QED BY <1>1, <2>1 DEF Commands, Executions, Steps
<1>5. \A s \in Elements(adapter.stdin) : s \in Elements(adapter'.stdin)
  BY <1>2, <1>4, AsksForFacts
<1>6. Reachable' => Reachable
  BY <1>2 DEF Reachable
<1>7. ASSUME Connected PROVE Working'
  <2>1. Working
    BY <1>7 DEF AgreementInv
  <2>2. handlers'[1].ok
    BY <1>1, <2>1 DEF Working, FailureInv
  <2>3. command = SentAs(handlers'[n].command)
    BY <1>2, <1>4 DEF SentAs
  <2>4. \A x \in Undone(handlers') : x \in Undone(handlers)
            \/ (handlers'[x].command = "pause" => handlers'[x].previous = "running")
    BY <1>1, <1>2
  <2>5. adapter'.waiting = <<>> /\ NumberInv' /\ FailureInv'
    BY <1>1, <1>2, <1>4, <2>1, <2>2, <2>3, <2>4, AskedWorks
  <2> QED BY <1>1, <1>7, <2>5 DEF Working
<1> QED BY <1>1, <1>3, <1>5, <1>6, <1>7, InReach

(* stackTrace, variables, evaluate and setBreakpoints.                     *)
LEMMA InspectAgrees ==
    ASSUME AdapterInv, AgreementInv, AdapterInv', Inspect PROVE AgreementInv'
<1> DEFINE a == Received("inspect")
           ok == TRUE
           command == "inspect"
           b == Reply(a, Len(a.h), ok)
<1>1. /\ TypeOK /\ LocalInv /\ command \in Commands \ Leaving /\ LaunchDone
      /\ ok \in BOOLEAN /\ command \notin Moves /\ command # "pause"
      /\ command \notin Moving
  BY DEF AdapterInv, LocalInv, Commands, Leaving, Inspect, MayRequest, SetUp, LaunchDone,
         Moves, Steps, Moving, Executions
<1>2. a \in States /\ a.f = adapter /\ UNCHANGED <<process, stdout, server>>
  BY <1>1, ReceivedFresh DEF Inspect
<1>3. CASE ~Reachable
  <2>1. process' = process /\ (process \notin {"starting", "up"} \/ ~adapter.child)
    BY <1>2, <1>3 DEF Reachable
  <2>2. CASE ~adapter.child
    <3>1. b.f = adapter
      BY <1>1, ReplyAtOnce
    <3>2. ~sendProtocolRequest(a, Len(a.h), command).f.child
      BY <1>2, <2>2, AskedNobody
    <3>3. ~adapter'.child
      BY <2>2, <3>1, <3>2 DEF Inspect, Becomes
    <3> QED BY <3>3, OutOfReach DEF Reachable
  <2> QED BY <2>1, <2>2, OutOfReach DEF Reachable
<1>4. CASE Reachable
  <2>1. Becomes(sendProtocolRequest(a, Len(a.h), command))
    BY <1>2, <1>4 DEF Inspect, Reachable
  <2>2. SamePromises(a, a)
    BY DEF SamePromises
  <2>3. SentOn(a, command)
    <3> HIDE DEF command
    <3>1. SamePromises(Received(command), a) /\ a.h = Received(command).h
      BY <2>2 DEF command
    <3> QED BY <1>1, <1>2, <1>4, <2>1, <3>1, NewAsk
  <2>4. ASSUME Connected PROVE StateInv'
    <3>0. PICK n : n = Len(handlers')
      OBVIOUS
    <3>1. /\ HandlersKept /\ n \in 1..Len(handlers')
          /\ \A i \in 1..Len(handlers') : i \in 1..Len(handlers) \/ i = n
          /\ \A r \in 1..Len(handlers) : Awaiting(r)' <=> Awaiting(r)
      BY <2>3, <3>0, NewcomerFacts DEF SentOn
    <3>2. SameState /\ adapter'.deferrals = adapter.deferrals
      BY <1>2, <2>3 DEF SentOn, SameState, server
    <3>3. \A x \in 1..Len(handlers') : Awaiting(x)' => x \in 1..Len(handlers) /\ Awaiting(x)
      <4>1. handlers'[n].command = command
        BY <2>3, <3>0 DEF SentOn, Newcomer
      <4>2. ~Awaiting(n)'
        BY <1>1, <4>1 DEF Awaiting, Moving
      <4> QED BY <3>1, <4>2
    <3>4. AsksFor(n, command)
      BY <2>3, <3>0 DEF SentOn
    <3> HIDE DEF command
    <3> QED BY <1>1, <2>4, <3>1, <3>2, <3>3, <3>4, AskedCalmly DEF AgreementInv
  <2> HIDE DEF a, command
  <2> QED BY <1>1, <1>2, <2>3, <2>4, SentAgrees
<1> QED BY <1>3, <1>4

(* What handleExecutionCommand does before it asks the server.             *)
Begun(a, c, s) ==
    /\ c \in States /\ SamePromises(a, c) /\ c.h = a.h
    /\ c.f.executionState = s /\ c.f.terminated = a.f.terminated
    /\ c.f.deferred = a.f.deferred /\ c.f.deferrals = a.f.deferrals + 1

(* What beginDeferral leaves, whether or not the state was set first.      *)
LEMMA BegunIs ==
    ASSUME NEW a \in States, NEW s \in ExecutionStates, NEW b,
           (b = a /\ s = a.f.executionState) \/ b = [a EXCEPT !.f.executionState = s]
    PROVE  Begun(a, beginDeferral(b), s)
<1> DEFINE n == a.f.deferrals + 1
           f == [a.f EXCEPT !.executionState = s, !.deferrals = n]
           c == beginDeferral(b)
<1>1. a.f \in Fields /\ a.f.deferrals \in Nat /\ n \in Nat
  BY DEF States, Fields
<1>2. c = [a EXCEPT !.f = f]
  <2>1. CASE b = a /\ s = a.f.executionState
    BY <1>1, <2>1 DEF beginDeferral, States, Fields
  <2>2. CASE b = [a EXCEPT !.f.executionState = s]
    <3> DEFINE e == [a.f EXCEPT !.executionState = s]
    <3>1. e \in Fields /\ e.deferrals = a.f.deferrals
      BY <1>1 DEF Fields
    <3>2. b = [a EXCEPT !.f = e]
      BY <1>1, <2>2 DEF States
    <3>3. f = [e EXCEPT !.deferrals = n]
      BY <1>1 DEF Fields
    <3> HIDE DEF e, f
    <3>4. b \in States /\ b.f = e
      BY <3>1, <3>2 DEF States
    <3>5. c = [b EXCEPT !.f = [e EXCEPT !.deferrals = n]]
      BY <3>1, <3>4 DEF beginDeferral, States, Fields
    <3>6. c = [b EXCEPT !.f = f]
      BY <3>3, <3>5
    <3> HIDE DEF c
    <3> QED BY <3>2, <3>6 DEF States
  <2> QED BY <2>1, <2>2
<1>3. n = a.f.deferrals + 1
  OBVIOUS
<1> HIDE DEF n, c
<1>4. /\ f \in Fields /\ f.microtasks = a.f.microtasks /\ f.pending = a.f.pending
      /\ f.waiting = a.f.waiting /\ f.ready = a.f.ready
      /\ f.stdin = a.f.stdin /\ f.child = a.f.child
      /\ f.disposed = a.f.disposed /\ f.reading = a.f.reading
      /\ f.protocolSeq = a.f.protocolSeq
      /\ f.entryStoppedSent = a.f.entryStoppedSent
      /\ f.executionState = s /\ f.deferred = a.f.deferred
      /\ f.deferrals = n /\ f.terminated = a.f.terminated
  BY <1>1 DEF Fields
<1> HIDE DEF f
<1>5. c.f = f /\ c.h = a.h /\ c.kill = a.kill /\ c \in States
  BY <1>2, <1>4 DEF States
<1>6. SamePromises(a, c)
  BY <1>4, <1>5 DEF SamePromises
<1>7. Begun(a, c, s)
  BY <1>3, <1>4, <1>5, <1>6 DEF Begun
<1> QED BY <1>7 DEF c

(* A move finds the states agreed, and nothing of the session unheard.     *)
LEMMA MoveFound ==
    ASSUME StateInv, NEW command \in Moves, ~Refused(command)
    PROVE  NoNews /\ ~MoveAsked /\ session \in {"Ready", "Paused"} /\ ~adapter.terminated
<1>1. command # "pause"
  BY DEF Moves, Steps
<1>2. adapter.executionState \notin {"running", "error"} /\ ~adapter.terminated
  BY <1>1 DEF Refused
<1>3. Resting /\ adapter.executionState # "terminated"
  BY <1>2 DEF StateInv
<1> QED BY <1>2, <1>3 DEF Resting, Agrees

(* A move leaves a paused session: it is the only one on its way.          *)
LEMMA MoveBegins ==
    ASSUME AdapterInv, StateInv, NEW command \in Moves, ~Refused(command),
           NEW a, SentOn(a, command), a.f.executionState = "running",
           a.f.terminated = adapter.terminated, a.f.deferred = adapter.deferred,
           a.f.deferrals = adapter.deferrals + 1,
           a.f.entryStoppedSent, UNCHANGED <<stdout, server>>
    PROVE  StateInv'
<1>1. NoNews /\ ~MoveAsked /\ session \in {"Ready", "Paused"} /\ ~adapter.terminated
  BY MoveFound
<1>2. /\ adapter'.executionState = "running" /\ adapter'.terminated = adapter.terminated
      /\ adapter'.deferred = adapter.deferred /\ adapter'.deferrals = adapter.deferrals + 1
      /\ adapter'.entryStoppedSent
      /\ session' = session /\ stopEvent' = stopEvent /\ stdout' = stdout
  BY DEF SentOn, server
<1>3. adapter'.deferrals # 0
  BY <1>2 DEF AdapterInv, TypeOK, Fields
<1>4. (Unread' <=> Unread) /\ (Joined' <=> Joined)
  BY <1>2 DEF Unread, Joined
<1>5. NewsInv'
  <2>1. \A name : IsFinal(name)' <=> IsFinal(name)
    BY <1>2 DEF IsFinal, SessionAfter
  <2> QED BY <1>2, <1>4, <2>1 DEF NewsInv, StateInv
<1>6. NoNews'
  BY <1>1, <1>2, <1>4 DEF NoNews
<1>7. MoveAsked' /\ OneMove'
  <2> DEFINE q == adapter.stdin
             e == [seq |-> adapter.protocolSeq, command |-> command]
             t == Append(q, e)
  <2>1. q \in Seq(Requests) /\ e \in Requests /\ e.command = command
    BY DEF AdapterInv, TypeOK, Fields, Requests, Moves, Steps, Commands, Executions
  <2>2. adapter'.stdin = t
    BY DEF SentOn, AsksFor
  <2>3. \A i \in 1..Len(q) : q[i].command \notin Moves
    BY <1>1 DEF MoveAsked, Asks
  <2> HIDE DEF q, e
  <2>4. /\ Len(t) = Len(q) + 1 /\ Len(q) \in Nat /\ t[Len(q) + 1] = e
        /\ \A i \in 1..Len(t) : (i \in 1..Len(q) /\ t[i] = q[i])
                                \/ (i = Len(q) + 1 /\ t[i] = e)
    BY <2>1, AppendFacts
  <2> HIDE DEF t
  <2>5. \A i \in 1..Len(t) : t[i].command \in Moves => i = Len(q) + 1
    BY <2>3, <2>4
  <2>6. Len(q) + 1 \in 1..Len(t) /\ t[Len(q) + 1].command \in Moves
    BY <2>1, <2>4
  <2>7. MoveAsked'
    BY <2>2, <2>6 DEF MoveAsked, Asks
  <2>8. OneMove'
    BY <2>2, <2>5 DEF OneMove, Asks
  <2> QED BY <2>7, <2>8
<1>8. Running'
  BY <1>1, <1>2, <1>6, <1>7 DEF Running
<1> QED BY <1>1, <1>2, <1>3, <1>5, <1>7, <1>8 DEF StateInv

(* next, stepIn, stepOut, continue and pause.                              *)
LEMMA ExecutionAgrees ==
    ASSUME AdapterInv, AgreementInv, AdapterInv',
           NEW command \in Executions, handleExecutionCommand(command)
    PROVE  AgreementInv'
<1> DEFINE a == Received(command)
           ok == FALSE
           b == IF command = "pause" THEN a ELSE [a EXCEPT !.f.executionState = "running"]
           s == IF command = "pause" THEN adapter.executionState ELSE "running"
           c == beginDeferral(b)
           d == sendProtocolRequest(c, Len(a.h), command)
           e == Reply(a, Len(a.h), ok)
<1>1. /\ TypeOK /\ LocalInv /\ command \in Commands \ Leaving /\ LaunchDone
      /\ ok \in BOOLEAN /\ adapter.entryStoppedSent
  BY DEF AdapterInv, LocalInv, Commands, Leaving, handleExecutionCommand, MayRequest, SetUp,
         LaunchDone, Steps, Executions
<1>2. a \in States /\ a.f = adapter /\ UNCHANGED <<process, stdout, server>>
  BY <1>1, ReceivedFresh DEF handleExecutionCommand
<1>3. Becomes(IF Refused(command) THEN e ELSE d)
  BY DEF handleExecutionCommand
<1>4. CASE Refused(command)
  <2>1. e.f = adapter /\ e.h = Replied(a.h, Len(handlers) + 1, ok)
    BY <1>1, ReplyAtOnce
  <2>2. adapter' = adapter /\ handlers' = Replied(a.h, Len(handlers) + 1, ok)
    BY <1>3, <1>4, <2>1 DEF Becomes
  <2>3. Newcomer(command) /\ handlers'[Len(handlers')].stage = "done"
    BY <1>1, <2>2, NewReply
  <2>4. SameCalls(adapter, adapter') /\ SameState
    BY <1>2, <2>2 DEF SameCalls, SameState, server
  <2> QED BY <1>1, <1>2, <2>2, <2>3, <2>4, AnsweredAgrees
<1>5. CASE ~Refused(command)
  <2>1. s \in ExecutionStates
    BY <1>1 DEF TypeOK, Fields, ExecutionStates
  <2>2. Begun(a, c, s)
    <3>1. (b = a /\ s = a.f.executionState) \/ b = [a EXCEPT !.f.executionState = s]
      BY <1>2
    <3> HIDE DEF a, b, s
    <3> QED BY <1>2, <2>1, <3>1, BegunIs
  <2>3. command = "pause" => adapter.executionState = "running"
    BY <1>5 DEF Refused
  <2>4. s = "running"
    BY <2>3
  <2> HIDE DEF b, c, s
  <2>5. Becomes(d)
    BY <1>3, <1>5
  <2>6. CASE ~Reachable
    <3>1. CASE ~adapter.child
      <4>1. ~c.f.child /\ c \in States
        BY <1>2, <2>2, <3>1 DEF Begun, SamePromises
      <4>2. ~d.f.child
        <5> HIDE DEF a
        <5> QED BY <4>1, AskedNobody
      <4> QED BY <2>5, <4>2, OutOfReach DEF Becomes, Reachable
    <3> QED BY <1>2, <2>6, <3>1, OutOfReach DEF Reachable
  <2>7. CASE Reachable
    <3>1. SentOn(c, command)
      <4>1. c \in States /\ SamePromises(a, c) /\ c.h = a.h
        BY <2>2 DEF Begun
      <4>2. Becomes(sendProtocolRequest(c, Len(c.h), command))
        BY <2>5, <4>1
      <4> QED BY <1>1, <1>2, <2>7, <4>1, <4>2, NewAsk
    <3>2. /\ c.f.executionState = "running" /\ c.f.terminated = adapter.terminated
          /\ c.f.deferred = adapter.deferred /\ c.f.deferrals = adapter.deferrals + 1
          /\ c.f.entryStoppedSent = adapter.entryStoppedSent
      BY <1>2, <2>2, <2>4 DEF Begun, SamePromises
    <3> HIDE DEF a, d
    <3>3. ASSUME Connected, command \in Moves PROVE StateInv'
      BY <1>1, <1>2, <1>5, <3>1, <3>2, <3>3, MoveBegins DEF AgreementInv, Working
    <3>4. ASSUME Connected, command \notin Moves PROVE StateInv'
      <4>0. PICK n : n = Len(handlers')
        OBVIOUS
      <4>1. HandlersKept /\ n \in 1..Len(handlers')
        BY <3>1, <4>0, NewcomerFacts DEF SentOn
      <4>2. command = "pause"
        BY <3>4 DEF Moves, Executions
      <4>3. SameState /\ adapter'.deferrals = adapter.deferrals + 1
        BY <1>2, <2>3, <3>1, <3>2, <4>2 DEF SentOn, SameState, server
      <4>4. adapter'.deferrals # 0
        BY <1>1, <4>3 DEF TypeOK, Fields
      <4>5. AsksFor(n, command)
        BY <3>1, <4>0 DEF SentOn
      <4> QED BY <1>1, <2>3, <3>4, <4>1, <4>2, <4>3, <4>4, <4>5, AskedCalmly DEF AgreementInv
    <3> QED BY <1>1, <1>2, <2>3, <3>1, <3>3, <3>4, SentAgrees
  <2> QED BY <2>6, <2>7
<1> QED BY <1>4, <1>5

(* disconnect and terminate: the client leaves.                            *)
LEMMA LeavingAsked ==
    ASSUME AdapterInv, AdapterInv', NEW command \in Leaving, NEW a, SentOn(a, command)
    PROVE  AgreementInv'
<1>0. PICK n : n = Len(handlers')
  OBVIOUS
<1>1. n \in 1..Len(handlers') /\ handlers'[n].command = command /\ AsksFor(n, command)
  BY <1>0, NewcomerFacts DEF SentOn, Newcomer
<1>2. ~Connected'
  BY <1>1 DEF Connected
<1>3. n \in Nat /\ command \in Commands
  <2>1. handlers' \in Seq(Handlers)
    BY DEF AdapterInv, TypeOK
  <2> QED BY <1>1, <2>1 DEF Leaving, Commands
<1> DEFINE e == [seq |-> adapter.protocolSeq, command |-> command]
<1>4. e \in Elements(adapter'.stdin)
  BY <1>1, <1>3, AsksForFacts
<1>5. e.command = command
  OBVIOUS
<1> HIDE DEF e
<1> QED BY <1>2, <1>4, <1>5 DEF AgreementInv, LeavingInv

(* A client that leaves says so to its server, if it has one.              *)
LEMMA DisconnectAgrees ==
    ASSUME AdapterInv, AgreementInv, AdapterInv',
           NEW command \in Leaving, handleDisconnect(command)
    PROVE  AgreementInv'
<1> DEFINE o == Received(command)
           r == Len(o.h)
           a == beginDeferral(o)
           ok == TRUE
           b == Reply(a, r, ok)
           c == endDeferral(b)
           t == Terminates(c)
           d == sendProtocolRequest(a, r, command)
           H == {r}
<1>1. /\ TypeOK /\ LocalInv /\ command \in Commands /\ ok \in BOOLEAN
  BY DEF AdapterInv, LocalInv, Commands, Leaving
<1>2. Fresh(o, r, command) /\ o \in States /\ o.f = adapter
  BY <1>1, ReceivedFresh
<1>3. Becomes(IF a.f.child THEN d ELSE IF command = "disconnect" THEN c ELSE t)
      /\ UNCHANGED <<process, stdout, server>>
  <2>1. Len(a.h) = r
    <3>1. Sound(o, H)
      BY <1>2 DEF Fresh
    <3> HIDE DEF H, o
    <3> QED BY <1>2, <3>1, BegunFacts
  <2> QED BY <2>1 DEF handleDisconnect
<1>4. Begun(o, a, adapter.executionState)
  <2>1. adapter.executionState \in ExecutionStates
    BY <1>1 DEF TypeOK, Fields
  <2> HIDE DEF o
  <2> QED BY <1>2, <2>1, BegunIs
<1>5. a \in States /\ SamePromises(o, a) /\ a.h = o.h /\ a.f.child = adapter.child
  BY <1>2, <1>4 DEF Begun, SamePromises
<1>6. /\ Sound(a, H) /\ H \in SUBSET Nat /\ r \in H
  <2>1. Sound(o, H) /\ r \in Nat
    BY <1>2 DEF Fresh
  <2> HIDE DEF H, o
  <2>2. Sound(a, H)
    BY <1>2, <2>1, BegunFacts
  <2> QED BY <2>1, <2>2 DEF H
<1>7. CASE a.f.child /\ ~Reachable
  BY <1>3, <1>5, <1>7, OutOfReach DEF Reachable
<1>8. CASE a.f.child /\ Reachable
  <2> HIDE DEF a
  <2>1. Becomes(sendProtocolRequest(a, Len(a.h), command))
    BY <1>3, <1>5, <1>8
  <2>2. SentOn(a, command)
    BY <1>1, <1>3, <1>5, <1>8, <2>1, NewAsk
  <2> QED BY <2>2, LeavingAsked
<1>9. CASE ~a.f.child
  <2> HIDE DEF H, a, r, ok
  <2>1. Sound(b, H \ {r}) /\ b.f = a.f
    BY <1>5, <1>6, <1>1, ReplySound
  <2>2. b \in States /\ H \ {r} \in SUBSET Nat
    BY <1>6, <2>1 DEF Sound
  <2> DEFINE G == H \ {r}
  <2> HIDE DEF b, G
  <2>3. Sound(c, G) /\ c.f.child = b.f.child
    <3>1. Sound(c, G) /\ OnlySays(b, c)
      BY <2>1, <2>2, EndFacts DEF G
    <3> QED BY <3>1 DEF OnlySays, SamePromises
  <2>4. c \in States
    BY <2>3 DEF Sound
  <2> HIDE DEF c
  <2>5. t.f.child = c.f.child
    <3>1. OnlySays(c, t)
      BY <2>2, <2>3, <2>4, TerminatesFacts DEF G
    <3> QED BY <3>1 DEF OnlySays, SamePromises
  <2> HIDE DEF t, d
  <2>6. Becomes(c) \/ Becomes(t)
    BY <1>3, <1>9
  <2>7. ~adapter'.child
    BY <1>9, <2>1, <2>3, <2>5, <2>6 DEF Becomes
  <2> QED BY <2>7, OutOfReach DEF Reachable
<1> QED BY <1>7, <1>8, <1>9

(* The state in which the handler of the first continuation resumes.       *)
InHand(a, r, ok) ==
    /\ a \in States /\ Sound(a, {r}) /\ r \in Nat /\ ok \in BOOLEAN
    /\ r \in Undone(handlers) /\ r \in 1..Len(handlers) /\ a.h = handlers
    /\ a.f.deferrals = Cardinality(Waits(a.h))
    /\ a.f.child = adapter.child /\ a.f.protocolSeq = adapter.protocolSeq
    /\ a.f.pending = adapter.pending /\ a.f.stdin = adapter.stdin
    /\ a.f.waiting = adapter.waiting
    /\ Elements(a.f.microtasks) \subseteq Elements(adapter.microtasks)
    /\ \E t \in Elements(adapter.microtasks) : t.request = r /\ t.ok = ok
SameSession(a) ==
    /\ a.f.executionState = adapter.executionState /\ a.f.terminated = adapter.terminated
    /\ a.f.entryStoppedSent = adapter.entryStoppedSent
    /\ a.f.deferrals = adapter.deferrals /\ a.f.deferred = adapter.deferred

(* A handler that is resumed is taken from the microtasks, no more.        *)
LEMMA ResumingIs ==
    ASSUME AdapterInv, adapter.microtasks # <<>>
    PROVE  /\ SameSession(Resuming)
           /\ InHand(Resuming, Head(adapter.microtasks).request, Head(adapter.microtasks).ok)
<1> DEFINE a  == Resuming
           q  == adapter.microtasks
           e  == Head(q)
           t  == Tail(q)
           f  == [adapter EXCEPT !.microtasks = t]
<1>1. TypeOK /\ LocalInv /\ adapter \in Fields /\ q \in Seq(Tasks)
  BY DEF AdapterInv, LocalInv, TypeOK, Fields
<1>2. /\ a \in States /\ Sound(a, {e.request}) /\ e.request \in Nat /\ e.ok \in BOOLEAN
      /\ e.request \in Undone(handlers) /\ a.h = handlers
  BY <1>1, TaskTaken
<1>3. a = [State EXCEPT !.f = f]
  BY <1>1 DEF Resuming, State, Fields
<1>4. a.f = f
  BY <1>3 DEF State
<1>5. Elements(t) \subseteq Elements(q) /\ e \in Elements(q)
  <2> HIDE DEF q
  <2> QED BY <1>1, TailFacts DEF q
<1> HIDE DEF t
<1>6. /\ f.microtasks = t
      /\ f.child = adapter.child /\ f.protocolSeq = adapter.protocolSeq
      /\ f.pending = adapter.pending /\ f.stdin = adapter.stdin
      /\ f.waiting = adapter.waiting
      /\ f.executionState = adapter.executionState /\ f.terminated = adapter.terminated
      /\ f.entryStoppedSent = adapter.entryStoppedSent
      /\ f.deferrals = adapter.deferrals /\ f.deferred = adapter.deferred
  BY <1>1 DEF Fields
<1> HIDE DEF f, a
<1>7. adapter.deferrals = Cardinality(Waits(handlers))
  BY <1>1, StateFine DEF Fine
<1>8. e.request \in 1..Len(handlers)
  BY <1>2 DEF Undone
<1>9. SameSession(a)
  BY <1>4, <1>6 DEF SameSession
<1>10. \E x \in Elements(adapter.microtasks) : x.request = e.request /\ x.ok = e.ok
  <2> HIDE DEF e
  <2> QED BY <1>5, Zenon DEF q
<1> HIDE DEF e
<1>11. InHand(a, e.request, e.ok)
  BY <1>2, <1>4, <1>5, <1>6, <1>7, <1>8, <1>10 DEF InHand, q
<1> QED BY <1>9, <1>11 DEF a, e, q

(* A client that has left stays away.                                      *)
LEMMA LeftAgrees ==
    ASSUME AdapterInv, AgreementInv, Reachable' => Reachable,
           adapter'.stdin = adapter.stdin,
           NEW r \in 1..Len(handlers), handlers[r].command \in Leaving,
           r \in 1..Len(handlers'), handlers'[r].command \in Leaving
    PROVE  AgreementInv'
<1>1. ~Connected /\ ~Connected'
  BY DEF Connected
<1>2. Reachable' => \E s \in Elements(adapter'.stdin) : s.command \in Leaving
  BY <1>1 DEF AgreementInv, LeavingInv
<1> QED BY <1>1, <1>2 DEF AgreementInv, LeavingInv

(* The end of disconnect and terminate brings nobody back.                 *)
Closer(a, b) == b.f.child => a.f.child /\ b.f.stdin = a.f.stdin

(* A child that was stopped is not there any more.                         *)
LEMMA StoppedCloser ==
    ASSUME NEW a \in States, NEW r \in Nat, Sound(a, {r}), NEW ok \in BOOLEAN
    PROVE  ~Reply(endDeferral(stopChild(a)), r, ok).f.child
<1> DEFINE b == stopChild(a)
           c == endDeferral(b)
           d == Reply(c, r, ok)
           H == {r}
<1>1. H \in SUBSET Nat /\ Sound(a, H) /\ Owned(a, H) /\ r \in H
  BY DEF Sound
<1> HIDE DEF H
<1>2. Sound(b, H) /\ ~b.f.child
  BY <1>1, StopFacts, StopSound
<1> HIDE DEF b
<1>3. b \in States
  BY <1>2 DEF Sound
<1>4. Sound(c, H) /\ ~c.f.child
  <2>1. Sound(c, H) /\ OnlySays(b, c)
    BY <1>1, <1>2, <1>3, EndFacts
  <2> QED BY <1>2, <2>1 DEF OnlySays, SamePromises
<1> HIDE DEF c
<1>5. c \in States
  BY <1>4 DEF Sound
<1>6. Sound(d, H \ {r}) /\ d.f = c.f
  BY <1>1, <1>4, <1>5, ReplySound
<1> HIDE DEF d
<1>7. ~d.f.child
  BY <1>4, <1>6
<1> QED BY <1>7 DEF b, c, d

(* An answer after the last event ends a deferral and no more.             *)
LEMMA FinishedCloser ==
    ASSUME NEW a \in States, NEW r \in Waits(a.h), Sound(a, {r}),
           a.f.deferrals = Cardinality(Waits(a.h)), NEW ok \in BOOLEAN
    PROVE  LET c == endDeferral(Reply(a, r, ok)) IN Closer(a, c) /\ Sound(c, {})
<1> DEFINE c == endDeferral(Reply(a, r, ok))
<1>1. Sound(c, {}) /\ SamePromises(a, c)
  BY FinishFacts
<1> HIDE DEF c
<1>2. Closer(a, c) /\ Sound(c, {})
  BY <1>1 DEF Closer, SamePromises
<1> QED BY <1>2 DEF c

(* What disconnect does after its answer brings no news.                   *)
LEMMA DisconnectCloser ==
    ASSUME NEW a \in States, NEW r \in Waits(a.h), Sound(a, {r}),
           a.f.deferrals = Cardinality(Waits(a.h)), NEW ok \in BOOLEAN
    PROVE  Closer(a, DisconnectContinues(a, r, ok))
<1>1. CASE ok
  BY <1>1, FinishedCloser DEF DisconnectContinues
<1>2. CASE ~ok
  <2>1. r \in Nat
    BY DEF Waits
  <2> QED BY <1>2, <2>1, StoppedCloser DEF DisconnectContinues, Closer
<1> QED BY <1>1, <1>2

(* What terminate does after its answer brings no news.                    *)
LEMMA TerminateCloser ==
    ASSUME NEW a \in States, NEW r \in Waits(a.h), Sound(a, {r}),
           a.f.deferrals = Cardinality(Waits(a.h)), NEW ok \in BOOLEAN
    PROVE  Closer(a, TerminateContinues(a, r, ok))
<1>0. r \in Nat /\ a.f \in Fields
  BY DEF Waits, States
<1>1. CASE ~ok
  BY <1>0, <1>1, StoppedCloser DEF TerminateContinues, Closer
<1>2. CASE ok /\ a.h[r].stage = "reply" /\ a.f.child
  <2> DEFINE q == Append(a.f.waiting, Task(r, TRUE))
             e == Task(r, TRUE)
             m == Append(a.f.microtasks, e)
             g == Staged(a.h, r, "exit")
             f == [a.f EXCEPT !.waiting = q]
             k == [a.f EXCEPT !.microtasks = m]
             b == TerminateContinues(a, r, ok)
  <2>1. b = [a EXCEPT !.f = f, !.h = g] \/ b = [a EXCEPT !.f = k, !.h = g]
    BY <1>0, <1>2 DEF TerminateContinues, Settle, States, Fields, Staged
  <2> HIDE DEF q, m, g, b
  <2>2. f.child = a.f.child /\ f.stdin = a.f.stdin /\ k.child = a.f.child /\ k.stdin = a.f.stdin
    BY <1>0 DEF Fields
  <2> HIDE DEF f, k
  <2>3. b.f = f \/ b.f = k
    BY <2>1 DEF States
  <2>4. Closer(a, b)
    BY <2>2, <2>3 DEF Closer
  <2> QED BY <2>4 DEF b
<1>3. CASE ok /\ ~(a.h[r].stage = "reply" /\ a.f.child)
  <2> DEFINE b == endDeferral(Reply(a, r, ok))
             c == rejectPending(b)
             d == Terminates(c)
  <2>1. TerminateContinues(a, r, ok) = IF b.f.terminated THEN b ELSE d
    BY <1>3 DEF TerminateContinues
  <2>2. Closer(a, b) /\ Sound(b, {})
    BY FinishedCloser
  <2> HIDE DEF b
  <2>3. b \in States /\ {} \in SUBSET Nat /\ Owned(b, {})
    BY <2>2 DEF Sound
  <2>4. Sound(c, {}) /\ Silent(b, c) /\ c.f.child = b.f.child
    BY <2>2, <2>3, RejectFacts, RejectSound
  <2> HIDE DEF c
  <2>5. c \in States
    BY <2>4 DEF Sound
  <2>6. OnlySays(c, d)
    BY <2>3, <2>4, <2>5, TerminatesFacts
  <2> HIDE DEF d
  <2>7. Closer(a, d)
    BY <2>2, <2>4, <2>6 DEF Closer, Silent, OnlySays, SamePromises
  <2> QED BY <2>1, <2>2, <2>7
<1> QED BY <1>1, <1>2, <1>3

(* What has been deferred says where the session is, if nothing is to come.*)
LEMMA DeferredNews ==
    ASSUME AdapterInv, StateInv, adapter.executionState = "running",
           adapter.deferred # <<>>
    PROVE  LET last == adapter.deferred[Len(adapter.deferred)] IN
           /\ last \in Deferrable /\ ~MoveAsked
           /\ last \in Final => ~Unread /\ Joined /\ session = SessionAfter(last)
           /\ last \notin Final =>
                  \A i \in 1..Len(adapter.deferred) : adapter.deferred[i] \notin Final
<1> DEFINE q == adapter.deferred
<1>1. q \in Seq(Deferrable) /\ q # <<>>
  BY DEF AdapterInv, TypeOK, Fields
<1> HIDE DEF q
<1>2. Len(q) \in 1..Len(q) /\ q[Len(q)] \in Deferrable
  BY <1>1
<1>3. ~MoveAsked
  BY DEF StateInv, Running, NoNews
<1>4. \A i \in 1..Len(q) : q[i] \in Final =>
          session = SessionAfter(q[i]) /\ i = Len(q) /\ ~Unread /\ Joined
  BY DEF StateInv, NewsInv, IsFinal, q
<1> QED BY <1>2, <1>3, <1>4 DEF q

(* The end of a deferral.                                                  *)
LEMMA TellsAll ==
    ASSUME AdapterInv, AdapterInv', StateInv, adapter.executionState = "running",
           adapter.deferrals > 0, NEW a, NEW b, SameSession(a), EndedAll(a, b),
           adapter'.executionState = b.f.executionState,
           adapter'.terminated = b.f.terminated, adapter'.deferred = b.f.deferred,
           adapter'.deferrals = adapter.deferrals - 1,
           adapter'.stdin = adapter.stdin,
           adapter'.entryStoppedSent = adapter.entryStoppedSent,
           UNCHANGED <<stdout, server>>
    PROVE  StateInv'
<1>0. adapter.deferrals \in Nat /\ ~adapter.terminated /\ adapter.entryStoppedSent
  BY DEF AdapterInv, TypeOK, Fields, StateInv
<1>1. /\ a.f.executionState = "running" /\ ~a.f.terminated
      /\ a.f.deferrals = adapter.deferrals /\ a.f.deferred = adapter.deferred
  BY <1>0 DEF SameSession
<1>2. session' = session /\ stopEvent' = stopEvent /\ stdout' = stdout
  BY DEF server
<1>3. (Unread' <=> Unread) /\ (Joined' <=> Joined) /\ (MoveAsked' <=> MoveAsked) /\ OneMove'
  <2>1. OneMove
    BY DEF StateInv
  <2> QED BY <1>2, <2>1 DEF Unread, Joined, MoveAsked, OneMove, Asks
<1>4. \A name : IsFinal(name)' <=> IsFinal(name)
  BY <1>2 DEF IsFinal, SessionAfter
<1>5. CASE adapter.deferrals > 1 \/ adapter.deferred = <<>>
  <2>1. /\ adapter'.executionState = adapter.executionState
        /\ adapter'.terminated = adapter.terminated /\ adapter'.deferred = adapter.deferred
    <3>1. CASE adapter.deferrals > 1
      BY <1>0, <1>1, <3>1 DEF EndedAll, SameSession
    <3>2. CASE ~(adapter.deferrals > 1) /\ adapter.deferred = <<>>
      BY <1>0, <1>1, <3>2 DEF EndedAll, ToldAll, SameSession
    <3> QED BY <1>5, <3>1, <3>2
  <2>2. SameState
    BY <1>2, <2>1 DEF SameState
  <2>3. SameNews
    BY <1>2, <2>2, NewsKept DEF AdapterInv, StateInv, Unimportant
  <2>4. SameMoves
    BY <1>3 DEF SameMoves
  <2>5. adapter'.deferrals = 0 => adapter.deferred = <<>>
    BY <1>0, <1>5
  <2> QED BY <2>2, <2>3, <2>4, <2>5, StateKept
<1>6. CASE ~(adapter.deferrals > 1) /\ adapter.deferred # <<>>
  <2> DEFINE last == adapter.deferred[Len(adapter.deferred)]
  <2>1. /\ last \in Deferrable /\ ~MoveAsked
        /\ last \in Final => ~Unread /\ Joined /\ session = SessionAfter(last)
        /\ last \notin Final =>
               \A i \in 1..Len(adapter.deferred) : adapter.deferred[i] \notin Final
    BY <1>6, DeferredNews
  <2>2. /\ adapter'.deferred = <<>> /\ adapter'.executionState = StateAfter(last)
        /\ adapter'.terminated = (last = "terminated")
    <3>1. a.f.deferrals = 1 /\ a.f.deferred # <<>>
      BY <1>0, <1>1, <1>6
    <3>2. b.f.deferred = <<>> /\ ToldAll(a, b, a.f.deferred)
      BY <3>1 DEF EndedAll
    <3>3. b.f.executionState = StateAfter(last) /\ b.f.terminated = (last = "terminated")
      BY <1>1, <3>1, <3>2 DEF ToldAll
    <3> QED BY <3>2, <3>3, Zenon
  <2> HIDE DEF last
  <2>3. adapter'.terminated <=> adapter'.executionState = "terminated"
    BY <2>1, <2>2 DEF StateAfter, Deferrable
  <2>4. Len(adapter'.deferred) = 0 /\ Elements(adapter'.deferred) = {}
    BY <2>2, FewElements
  <2>5. NewsInv'
    BY <1>2, <1>3, <1>4, <2>4 DEF NewsInv, StateInv
  <2>6. adapter'.deferrals = 0
    BY <1>0, <1>6
  <2>7. CASE last \in Final
    <3>1. NoNews' /\ ~MoveAsked'
      BY <1>3, <2>1, <2>2, <2>7 DEF NoNews
    <3>2. /\ adapter'.executionState # "running" /\ Agrees'
      BY <1>2, <2>1, <2>2, <2>7 DEF Agrees, StateAfter, SessionAfter, Final
    <3>3. \A r \in 1..Len(handlers') : ~Awaiting(r)'
      <4> DEFINE S == {r \in 1..Len(handlers') : Awaiting(r)'}
      <4>1. Cardinality(S) = 0
        BY <2>6 DEF AdapterInv, DeferralInv
      <4>2. IsFiniteSet(S)
        <5>1. handlers' \in Seq(Handlers)
          BY DEF AdapterInv, TypeOK
        <5>2. Len(handlers') \in Nat
          BY <5>1
        <5>3. IsFiniteSet(1..Len(handlers'))
          BY <5>2, FS_Interval
        <5> QED BY <5>3, FS_Subset
      <4>3. S = {}
        <5> HIDE DEF S
        <5> QED BY <4>1, <4>2, FS_EmptySet
      <4> QED BY <4>3
    <3>4. Resting'
      BY <3>1, <3>2, <3>3 DEF Resting
    <3> QED BY <1>0, <1>3, <2>2, <2>3, <2>5, <3>2, <3>4 DEF StateInv
  <2>8. CASE last \notin Final
    <3>1. last = "continued"
      BY <2>1, <2>8 DEF Final, Deferrable
    <3>2. adapter'.executionState = "running"
      BY <2>2, <3>1 DEF StateAfter
    <3>3. Over' <=> Over
      <4>1. \A name \in Elements(adapter.deferred) : name \notin Final
        BY <2>1, <2>8 DEF Elements
      <4> QED BY <1>2, <1>3, <2>4, <4>1 DEF Over
    <3>4. Running'
      BY <1>2, <1>3, <2>1, <3>3 DEF Running, StateInv
    <3> QED BY <1>0, <1>3, <2>2, <2>3, <2>5, <3>2, <3>4 DEF StateInv
  <2> QED BY <2>7, <2>8
<1> QED BY <1>5, <1>6

(* The handler of a request is done.                                       *)
LEMMA HandlerDone ==
    ASSUME AdapterInv, NEW r \in 1..Len(handlers), NEW ok \in BOOLEAN,
           handlers' = Replied(handlers, r, ok)
    PROVE  /\ HandlersKept /\ Len(handlers') = Len(handlers)
           /\ r # 1 => handlers'[1] = handlers[1]
           /\ handlers'[r].ok = ok /\ handlers'[r].stage = "done"
           /\ Undone(handlers') \subseteq Undone(handlers)
           /\ \A i \in 1..Len(handlers') : Awaiting(i)' => Awaiting(i)
<1> DEFINE h == handlers
           g == Replied(h, r, ok)
<1>1. h \in Seq(Handlers) /\ Len(h) \in Nat
  BY DEF AdapterInv, TypeOK
<1> HIDE DEF h
<1>2. /\ g \in Seq(Handlers) /\ Len(g) = Len(h)
      /\ g[r].stage = "done" /\ g[r].ok = ok
      /\ g[r].command = h[r].command /\ g[r].previous = h[r].previous
      /\ \A i \in 1..Len(h) : i # r => g[i] = h[i]
  BY <1>1, RepliedIs DEF h
<1> HIDE DEF g
<1>3. handlers' = g /\ handlers = h
  BY DEF g, h
<1>4. 1 \in 1..Len(h) /\ r \in 1..Len(h)
  BY <1>1, <1>3
<1>5. HandlersKept /\ Len(handlers') = Len(handlers)
  BY <1>1, <1>2, <1>3 DEF HandlersKept
<1>6. Undone(handlers') \subseteq Undone(handlers)
  BY <1>2, <1>3 DEF Undone
<1>7. \A i \in 1..Len(handlers') : Awaiting(i)' => Awaiting(i)
  BY <1>2, <1>3 DEF Awaiting
<1>8. handlers'[r].ok = ok /\ handlers'[r].stage = "done"
  BY <1>2, <1>3, Zenon
<1> QED BY <1>2, <1>3, <1>4, <1>5, <1>6, <1>7, <1>8

(* A second handler is there only once the launch has succeeded.           *)
LEMMA Later ==
    ASSUME AdapterInv, NEW r \in 1..Len(handlers), r # 1
    PROVE  LaunchDone /\ SetUp
<1>1. Len(handlers) \in Nat
  <2>1. handlers \in Seq(Handlers)
    BY DEF AdapterInv, TypeOK
  <2> QED BY <2>1
<1>2. Len(handlers) # 1
  <2> DEFINE n == Len(handlers)
  <2>1. n \in Nat /\ r \in 1..n /\ r # 1
    BY <1>1
  <2> HIDE DEF n
  <2>2. n # 1
    BY <2>1
  <2> QED BY <2>2 DEF n
<1>3. SetUp
  BY <1>2 DEF AdapterInv, LaunchInv
<1> QED BY <1>3 DEF SetUp, LaunchDone

(* It leaves alone what the others wait for.                               *)
LEMMA ReturnAgrees ==
    ASSUME AdapterInv, AgreementInv, AdapterInv', Reachable' => Reachable,
           NEW r \in 1..Len(handlers), r # 1, NEW ok \in BOOLEAN,
           handlers' = Replied(handlers, r, ok),
           adapter'.waiting = adapter.waiting, adapter'.pending = adapter.pending,
           adapter'.stdin = adapter.stdin, adapter'.protocolSeq = adapter.protocolSeq,
           Elements(adapter'.microtasks) \subseteq Elements(adapter.microtasks),
           UNCHANGED <<stdout, server>>, Connected => StateInv'
    PROVE  AgreementInv'
<1>1. /\ HandlersKept /\ Len(handlers') = Len(handlers) /\ handlers'[1] = handlers[1]
      /\ Undone(handlers') \subseteq Undone(handlers)
  BY HandlerDone
<1>2. LaunchDone
  BY Later
<1>3. ASSUME Connected PROVE Working'
  <2>1. Working
    BY <1>3 DEF AgreementInv
  <2>2. NumberInv'
    <3>1. /\ answering' < adapter.protocolSeq
          /\ \A l \in Elements(stdout') : l.seq < adapter.protocolSeq
      BY <2>1 DEF Working, NumberInv, server
    <3> QED BY <1>1, <2>1, <3>1, RequestsKnown, NumberKept DEF Working
  <2>3. FailureInv'
    <3>1. LaunchDone' => handlers'[1].ok
      BY <1>1, <1>2, <2>1 DEF Working, FailureInv
    <3>2. \A t \in Elements(adapter'.microtasks) : t \in Elements(adapter.microtasks)
      OBVIOUS
    <3> QED BY <1>1, <2>1, <3>1, <3>2, RequestsKnown, FailureKept DEF Working
  <2>4. LaunchDone'
    BY <1>1, <1>2 DEF LaunchDone
  <2> QED BY <1>3, <2>1, <2>2, <2>3, <2>4 DEF Working
<1>4. \A x \in 1..Len(handlers') :
          x \in 1..Len(handlers) \/ handlers'[x].command \notin Leaving
  BY <1>1
<1> QED BY <1>1, <1>3, <1>4, InReach

(* stackTrace, variables, evaluate and setBreakpoints have their answer.   *)
LEMMA InspectReturns ==
    ASSUME AdapterInv, AgreementInv, AdapterInv', NEW a, NEW r, NEW ok,
           InHand(a, r, ok), SameSession(a), r # 1,
           Becomes(Reply(a, r, ok)), UNCHANGED <<stdout, server>>,
           Reachable' /\ adapter.child => Reachable
    PROVE  AgreementInv'
<1> DEFINE b == Reply(a, r, ok)
           H == {r}
<1>1. /\ H \in SUBSET Nat /\ Owned(a, H) /\ Told(a) /\ r \in H /\ ok \in BOOLEAN /\ a \in States
  BY DEF InHand, Sound
<1> HIDE DEF H
<1>2. b.f = a.f /\ b.h = Replied(a.h, r, ok)
  BY <1>1, ReplyFacts
<1>3. adapter' = a.f /\ handlers' = Replied(handlers, r, ok)
  <2> HIDE DEF b
  <2> QED BY <1>2 DEF Becomes, InHand, b
<1>4. /\ adapter'.waiting = adapter.waiting /\ adapter'.pending = adapter.pending
      /\ adapter'.stdin = adapter.stdin /\ adapter'.protocolSeq = adapter.protocolSeq
      /\ adapter'.child = adapter.child
      /\ Elements(adapter'.microtasks) \subseteq Elements(adapter.microtasks)
      /\ r \in 1..Len(handlers)
  BY <1>3 DEF InHand
<1>5. SameState /\ adapter'.deferrals = adapter.deferrals
  BY <1>3 DEF SameSession, SameState, server
<1>6. ASSUME Connected PROVE StateInv'
  <2>1. StateInv
    <3>1. LaunchDone
      BY <1>4, Later
    <3> QED BY <1>6, <3>1 DEF AgreementInv, Working
  <2>2. SameNews
    <3>1. Unimportant
      BY DEF Unimportant
    <3> QED BY <1>5, <2>1, <3>1, NewsKept DEF AdapterInv, StateInv
  <2>3. SameMoves
    <3>1. Unmoving
      BY <1>4 DEF Unmoving
    <3> QED BY <2>1, <3>1, MovesKept DEF AdapterInv, StateInv
  <2>4. adapter.executionState # "running" => \A i \in 1..Len(handlers') : ~Awaiting(i)'
    <3>1. Len(handlers') = Len(handlers)
          /\ \A i \in 1..Len(handlers') : Awaiting(i)' => Awaiting(i)
      BY <1>1, <1>3, <1>4, HandlerDone
    <3> QED BY <2>1, <3>1 DEF StateInv, Resting
  <2> QED BY <1>5, <2>1, <2>2, <2>3, <2>4, StateKept
<1> HIDE DEF b
<1> QED BY <1>1, <1>3, <1>4, <1>6, ReturnAgrees DEF Reachable

(* What one step of a command's handler does to the adapter: it replies and*)
(* ends its deferral, in one order or the other.                           *)
Returned(a, b, r, ok) ==
    /\ SamePromises(a, b) /\ b.h = Replied(a.h, r, ok)
    /\ b.f.deferrals = IF a.f.deferrals > 0 THEN a.f.deferrals - 1 ELSE 0
    /\ EndsLast(a.f.deferred) => EndedAll(a, b)

(* A handler that answers and then ends its deferral.                      *)
LEMMA RepliesFirst ==
    ASSUME NEW a \in States, NEW r \in Nat, Sound(a, {r}), NEW ok \in BOOLEAN
    PROVE  Returned(a, endDeferral(Reply(a, r, ok)), r, ok)
<1> DEFINE c == Reply(a, r, ok)
           b == endDeferral(c)
           H == {r}
           G == H \ {r}
<1>1. H \in SUBSET Nat /\ Owned(a, H) /\ Told(a) /\ r \in H /\ Sound(a, H)
  BY DEF Sound
<1> HIDE DEF H
<1>2. /\ Sound(c, G) /\ c.f = a.f /\ c.h = Replied(a.h, r, ok) /\ c.kill = a.kill
  BY <1>1, ReplyFacts DEF Sound
<1>3. c \in States /\ G \in SUBSET Nat
  BY <1>1, <1>2 DEF Sound
<1> HIDE DEF c, G
<1>4. /\ OnlySays(c, b)
      /\ b.f.deferrals = IF c.f.deferrals > 0 THEN c.f.deferrals - 1 ELSE 0
  BY <1>2, <1>3, EndFacts
<1>5. EndsLast(c.f.deferred) => EndedAll(c, b)
  BY <1>2, <1>3, EndIs
<1> HIDE DEF b
<1>6. SamePromises(a, b) /\ b.h = Replied(a.h, r, ok)
  BY <1>2, <1>4 DEF OnlySays, SamePromises
<1>7. EndsLast(a.f.deferred) => EndedAll(a, b)
  BY <1>2, <1>5 DEF EndedAll, ToldAll
<1>8. Returned(a, b, r, ok)
  BY <1>2, <1>4, <1>6, <1>7 DEF Returned
<1> QED BY <1>8 DEF b, c

(* A handler that ends its deferral and then answers.                      *)
LEMMA EndsFirst ==
    ASSUME NEW a \in States, NEW r \in Nat, Sound(a, {r}), NEW ok \in BOOLEAN
    PROVE  Returned(a, Reply(endDeferral(a), r, ok), r, ok)
<1> DEFINE c == endDeferral(a)
           b == Reply(c, r, ok)
           H == {r}
<1>1. H \in SUBSET Nat /\ r \in H /\ Sound(a, H)
  OBVIOUS
<1> HIDE DEF H
<1>2. /\ Sound(c, H) /\ OnlySays(a, c)
      /\ c.f.deferrals = IF a.f.deferrals > 0 THEN a.f.deferrals - 1 ELSE 0
  BY <1>1, EndFacts
<1>3. EndsLast(a.f.deferred) => EndedAll(a, c)
  BY <1>1, EndIs
<1> HIDE DEF c
<1>4. c \in States /\ Owned(c, H) /\ Told(c)
  BY <1>2 DEF Sound
<1>5. b.f = c.f /\ b.h = Replied(c.h, r, ok) /\ b.kill = c.kill
  BY <1>1, <1>4, ReplyFacts
<1> HIDE DEF b
<1>6. SamePromises(a, b) /\ b.h = Replied(a.h, r, ok)
  BY <1>2, <1>5 DEF OnlySays, SamePromises
<1>7. EndsLast(a.f.deferred) => EndedAll(a, b)
  BY <1>3, <1>5 DEF EndedAll, ToldAll
<1>8. Returned(a, b, r, ok)
  BY <1>2, <1>5, <1>6, <1>7 DEF Returned
<1> QED BY <1>8 DEF b, c

(* Either way what it leaves behind is in order.                           *)
LEMMA ReturnedAgrees ==
    ASSUME AdapterInv, AgreementInv, AdapterInv', NEW a, NEW b, NEW r, NEW ok,
           InHand(a, r, ok), r # 1, handlers[r].command \in Executions,
           handlers[r].stage \in {"reply", "exit"},
           NEW x \in States, SamePromises(a, x), x.h = a.h, Returned(x, b, r, ok),
           x.f.deferrals = adapter.deferrals,
           Connected /\ adapter.executionState = "running" => SameSession(x),
           Becomes(b), UNCHANGED <<stdout, server>>, Reachable' /\ adapter.child => Reachable
    PROVE  AgreementInv'
<1>1. adapter' = b.f /\ handlers' = Replied(handlers, r, ok) /\ SamePromises(a, b)
      /\ b.f.deferrals = IF adapter.deferrals > 0 THEN adapter.deferrals - 1 ELSE 0
  BY DEF Returned, InHand, Becomes, SamePromises
<1>2. /\ adapter'.waiting = adapter.waiting /\ adapter'.pending = adapter.pending
      /\ adapter'.stdin = adapter.stdin /\ adapter'.protocolSeq = adapter.protocolSeq
      /\ adapter'.child = adapter.child
      /\ Elements(adapter'.microtasks) \subseteq Elements(adapter.microtasks)
      /\ r \in 1..Len(handlers) /\ ok \in BOOLEAN
  BY <1>1 DEF InHand, SamePromises
<1>3. ASSUME Connected PROVE StateInv'
  <2>1. StateInv
    BY <1>2, <1>3, Later DEF AgreementInv, Working
  <2>2. Awaiting(r) /\ adapter.executionState = "running"
    <3>1. Awaiting(r)
      BY DEF Awaiting
    <3> QED BY <1>2, <2>1, <3>1 DEF StateInv, Resting
  <2>3. SameSession(x)
    BY <1>3, <2>2
  <2>4. adapter.deferrals > 0 /\ adapter.deferrals \in Nat
    <3> DEFINE S == {i \in 1..Len(handlers) : Awaiting(i)}
    <3>1. adapter.deferrals = Cardinality(S) /\ r \in S
      BY <1>2, <2>2 DEF AdapterInv, DeferralInv
    <3>2. IsFiniteSet(S)
      <4> DEFINE n == Len(handlers)
      <4>1. handlers \in Seq(Handlers)
        BY DEF AdapterInv, TypeOK
      <4>2. n \in Nat
        BY <4>1
      <4>3. IsFiniteSet(1..n)
        <5> HIDE DEF n
        <5> QED BY <4>2, FS_Interval
      <4>4. S \subseteq 1..n
        OBVIOUS
      <4> HIDE DEF S, n
      <4> QED BY <4>3, <4>4, FS_Subset
    <3> HIDE DEF S
    <3>3. Cardinality(S) \in Nat /\ Cardinality(S) # 0
      BY <3>1, <3>2, FS_CardinalityType, FS_EmptySet
    <3> QED BY <3>1, <3>3
  <2>5. EndsLast(x.f.deferred)
    <3>1. \A i \in 1..Len(adapter.deferred) :
              adapter.deferred[i] = "terminated" => i = Len(adapter.deferred)
      BY <2>1 DEF StateInv, NewsInv, Final
    <3> QED BY <2>3, <3>1 DEF EndsLast, SameSession
  <2>6. EndedAll(x, b)
    BY <2>5 DEF Returned
  <2>7. adapter'.deferrals = adapter.deferrals - 1
    BY <1>1, <2>4
  <2>8. adapter'.entryStoppedSent = adapter.entryStoppedSent
    BY <1>1, <2>3 DEF Returned, SamePromises, SameSession
  <2>9. /\ adapter'.executionState = b.f.executionState
        /\ adapter'.terminated = b.f.terminated /\ adapter'.deferred = b.f.deferred
    BY <1>1
  <2> QED BY <1>2, <2>1, <2>2, <2>3, <2>4, <2>6, <2>7, <2>8, <2>9, TellsAll
<1> QED BY <1>1, <1>2, <1>3, ReturnAgrees DEF Reachable

(* next, stepIn, stepOut, continue and pause have their answer. Only a     *)
(* pause can have been refused.                                            *)
LEMMA ExecutionReturns ==
    ASSUME AdapterInv, AgreementInv, AdapterInv', NEW a, NEW r, NEW ok,
           InHand(a, r, ok), SameSession(a), r # 1, handlers[r].command \in Executions,
           handlers[r].stage \in {"reply", "exit"},
           Becomes(ExecutionContinues(a, r, ok)), UNCHANGED <<stdout, server>>,
           Reachable' /\ adapter.child => Reachable
    PROVE  AgreementInv'
<1>1. /\ a \in States /\ r \in Nat /\ Sound(a, {r}) /\ ok \in BOOLEAN
      /\ a.f.deferrals = adapter.deferrals /\ SamePromises(a, a)
      /\ a.h[r] = handlers[r] /\ r \in 1..Len(handlers) /\ r \in Undone(handlers)
  BY DEF InHand, SameSession, SamePromises
<1>2. CASE ok
  <2> DEFINE b == endDeferral(Reply(a, r, ok))
  <2>1. Becomes(b)
    BY <1>2 DEF ExecutionContinues
  <2>2. Returned(a, b, r, ok)
    BY <1>1, RepliesFirst
  <2> HIDE DEF b
  <2> QED BY <1>1, <2>1, <2>2, ReturnedAgrees
<1>3. CASE ~ok
  <2> DEFINE s == handlers[r].previous
             x == [a EXCEPT !.f.executionState = s]
             b == Reply(endDeferral(x), r, ok)
  <2>1. Becomes(b)
    BY <1>1, <1>3 DEF ExecutionContinues
  <2>2. s \in ExecutionStates
    <3>1. handlers \in Seq(Handlers)
      BY DEF AdapterInv, TypeOK
    <3>2. handlers[r] \in Handlers
      BY <1>1, <3>1
    <3> QED BY <3>2 DEF Handlers
  <2>3. x.f.executionState = s /\ x.f.entryStoppedSent = a.f.entryStoppedSent
    <3> DEFINE f == [a.f EXCEPT !.executionState = s]
    <3>1. a.f \in Fields /\ x.f = f
      BY <1>1 DEF States
    <3> HIDE DEF s, x
    <3>2. f.executionState = s /\ f.entryStoppedSent = a.f.entryStoppedSent
      BY <3>1 DEF Fields
    <3> HIDE DEF f
    <3> QED BY <3>1, <3>2
  <2> HIDE DEF s
  <2>4. /\ Sound(x, {r}) /\ SamePromises(a, x) /\ x.h = a.h
        /\ x.f.deferrals = a.f.deferrals /\ x.f.deferred = a.f.deferred
        /\ x.f.terminated = a.f.terminated
    BY <1>1, <2>2, StateSet
  <2> HIDE DEF x
  <2>5. x \in States
    BY <2>4 DEF Sound
  <2>6. Returned(x, b, r, ok)
    BY <1>1, <2>4, <2>5, EndsFirst
  <2> HIDE DEF b
  <2>7. ASSUME Connected, adapter.executionState = "running" PROVE SameSession(x)
    <3>1. FailureInv
      BY <2>7 DEF AgreementInv, Working
    <3>2. MayFail(r)
      <4>1. PICK t \in Elements(adapter.microtasks) : t.request = r /\ t.ok = ok
        BY DEF InHand
      <4>2. ~t.ok
        BY <1>3, <4>1, Zenon
      <4>3. MayFail(t.request)
        BY <3>1, <4>2, Zenon DEF FailureInv
      <4> QED BY <4>1, <4>3
    <3>3. handlers[r].command = "pause"
      BY <3>2 DEF MayFail, Moves, Executions
    <3>4. s = "running"
      BY <1>1, <3>1, <3>3 DEF FailureInv, s
    <3> QED BY <2>3, <2>4, <2>7, <3>4 DEF SameSession
  <2> QED BY <1>1, <2>1, <2>4, <2>5, <2>6, <2>7, ReturnedAgrees
<1> QED BY <1>1, <1>2, <1>3

(* The server is ready and is asked to initialize.                         *)
LEMMA LaunchGoesOn ==
    ASSUME AdapterInv, AgreementInv, AdapterInv', NEW a, NEW r, NEW ok,
           InHand(a, r, ok), r = 1, handlers[1].stage # "done", handlers[1].command = "launch",
           Becomes(sendProtocolRequest(a, r, "initialize")), UNCHANGED <<stdout, server>>,
           Reachable' => process' = process
    PROVE  AgreementInv'
<1> DEFINE command == "initialize"
           stage == "reply"
           b == sendProtocolRequest(a, r, command)
           g == Staged(handlers, r, stage)
<1>1. /\ a \in States /\ r \in 1..Len(handlers) /\ a.h = handlers /\ ok \in BOOLEAN
      /\ a.f.child = adapter.child
  BY DEF InHand
<1>2. CASE ~adapter.child
  <2>1. ~b.f.child
    <3> HIDE DEF command
    <3> QED BY <1>1, <1>2, AskedNobody
  <2> QED BY <2>1, OutOfReach DEF Becomes, Reachable
<1>3. CASE process \notin {"starting", "up"}
  BY <1>3, OutOfReach DEF Reachable
<1>4. CASE Reachable
  <2>1. a.f.child /\ process \notin {"reaped", "closed"} /\ r \in 1..Len(a.h)
    BY <1>1, <1>4 DEF Reachable
  <2>2. AskedOf(a, b, r, command)
    <3> HIDE DEF command
    <3> QED BY <1>1, <2>1, AskIs
  <2>3. adapter' = b.f /\ handlers' = b.h
    BY DEF Becomes
  <2> HIDE DEF b
  <2>4. handlers' = g
    BY <1>1, <2>2, <2>3 DEF AskedOf
  <2>5. /\ adapter'.protocolSeq = adapter.protocolSeq + 1
        /\ adapter'.pending = Append(adapter.pending, [seq |-> adapter.protocolSeq, request |-> r])
        /\ adapter'.stdin = Append(adapter.stdin, [seq |-> adapter.protocolSeq, command |-> command])
        /\ adapter'.waiting = adapter.waiting /\ adapter'.microtasks = a.f.microtasks
        /\ adapter'.child = adapter.child
    BY <2>2, <2>3 DEF AskedOf, InHand
  <2>6. AsksFor(r, command) /\ adapter'.child = adapter.child
    BY <2>5 DEF AsksFor, InHand
  <2>7. /\ Len(g) = Len(handlers) /\ Len(handlers) \in Nat
        /\ g[r].command = handlers[r].command /\ g[r].previous = handlers[r].previous
        /\ g[r].stage = "reply"
        /\ \A i \in 1..Len(handlers) : i # r => g[i] = handlers[i]
    <3>1. handlers \in Seq(Handlers) /\ stage \in Stages /\ Len(handlers) \in Nat
      BY DEF AdapterInv, TypeOK, Stages
    <3> QED BY <1>1, <3>1, StagedIs
  <2> HIDE DEF g
  <2>8. HandlersKept /\ ~LaunchDone' /\ r \in 1..Len(handlers')
    BY <1>1, <2>4, <2>7 DEF HandlersKept, LaunchDone
  <2>9. \A x \in Undone(handlers') : x \in Undone(handlers)
            \/ (handlers'[x].command = "pause" => handlers'[x].previous = "running")
    BY <2>4, <2>7 DEF Undone
  <2>10. command = SentAs(handlers'[r].command)
    BY <2>4, <2>7 DEF SentAs
  <2>11. r \in Nat /\ command \in Commands \cup {"initialize"}
    OBVIOUS
  <2> HIDE DEF command
  <2>12. \A s \in Elements(adapter.stdin) : s \in Elements(adapter'.stdin)
    BY <2>6, <2>11, AsksForFacts
  <2>13. ASSUME Connected PROVE Working'
    <3>1. Working
      BY <2>13 DEF AgreementInv
    <3>2. adapter'.waiting = <<>> /\ NumberInv' /\ FailureInv'
      BY <2>6, <2>8, <2>9, <2>10, <2>11, <3>1, AskedWorks
    <3>3. ~Unread'
      <4>1. ~Unread
        BY <3>1 DEF Working, LaunchDone
      <4> QED BY <4>1 DEF Unread
    <3> QED BY <2>8, <3>2, <3>3 DEF Working
  <2>14. \A x \in 1..Len(handlers') : x \in 1..Len(handlers)
    BY <2>4, <2>7
  <2> QED BY <1>4, <2>8, <2>12, <2>13, <2>14, InReach
<1> QED BY <1>2, <1>3, <1>4 DEF Reachable

(* A launched session is where the adapter takes it to be.                 *)
LEMMA LaunchedIs ==
    ASSUME NEW a \in States, NEW r \in 1..Len(a.h), NEW ok \in BOOLEAN
    PROVE  LET b == Launched(a, r, ok) IN
           /\ b.f = [a.f EXCEPT !.executionState = "paused"]
           /\ b.h = Replied(a.h, r, ok)
<1> DEFINE s == "paused"
           f == [a.f EXCEPT !.executionState = s]
           c == [a EXCEPT !.f.executionState = s]
           m == <<Response(c, r, ok)>>
           t == Send(c, m)
           d == Reply(c, r, ok)
           n == <<Event("initialized")>>
           b == Send(d, n)
           g == Replied(a.h, r, ok)
<1>1. a.f \in Fields /\ s \in ExecutionStates /\ f \in Fields
  BY DEF States, Fields, ExecutionStates
<1>2. c = [a EXCEPT !.f = f] /\ c \in States /\ c.f = f /\ c.h = a.h
  <2>1. c = [a EXCEPT !.f = f]
    BY <1>1 DEF States
  <2> HIDE DEF c, f
  <2> QED BY <1>1, <2>1 DEF States
<1> HIDE DEF c, m, n, f, s
<1>3. t.f = c.f /\ t.h = c.h /\ t = [f |-> c.f, h |-> c.h, dap |-> t.dap, kill |-> c.kill]
  BY <1>2, SendKeeps
<1>4. d = [t EXCEPT !.h[r].stage = "done", !.h[r].ok = ok]
  BY DEF Reply, m
<1> HIDE DEF t, d
<1>5. d = [t EXCEPT !.h = g]
  BY <1>2, <1>3, <1>4 DEF Replied
<1> HIDE DEF g
<1>6. d.f = f /\ d.h = g
  BY <1>2, <1>3, <1>5
<1>7. b.f = d.f /\ b.h = d.h
  <2>1. CASE d.f.disposed
    BY <2>1 DEF Send
  <2>2. CASE ~d.f.disposed
    <3> DEFINE z == d.dap \o n
    <3>1. b = [d EXCEPT !.dap = z]
      BY <2>2 DEF Send
    <3> HIDE DEF z, b
    <3>2. d = [f |-> d.f, h |-> d.h, dap |-> d.dap, kill |-> d.kill]
      BY <1>3, <1>5
    <3>3. b = [[f |-> d.f, h |-> d.h, dap |-> d.dap, kill |-> d.kill] EXCEPT !.dap = z]
      BY <3>1, <3>2
    <3> QED BY <3>3
  <2> QED BY <2>1, <2>2
<1>8. Launched(a, r, ok) = b
  BY DEF Launched, sendEvent, b, n, d, t, c, m, s
<1> HIDE DEF b
<1> QED BY <1>6, <1>7, <1>8 DEF f, g, s

(* The launch is answered: from now on the states have to agree.           *)
LEMMA LaunchSettles ==
    ASSUME AdapterInv, AgreementInv, AdapterInv', NEW a, NEW r, NEW ok,
           InHand(a, r, ok), SameSession(a), r = 1, handlers[1].stage # "done", ok = TRUE, MaySucceed,
           Becomes(Launched(a, r, ok)), UNCHANGED <<stdout, server>>,
           Reachable' /\ adapter.child => Reachable
    PROVE  AgreementInv'
<1> DEFINE f == [a.f EXCEPT !.executionState = "paused"]
<1>1. /\ a \in States /\ r \in 1..Len(handlers) /\ a.h = handlers /\ ok \in BOOLEAN
  BY DEF InHand
<1>2. adapter' = f /\ handlers' = Replied(handlers, r, ok)
  BY <1>1, LaunchedIs DEF Becomes
<1>3. /\ session = "Ready" /\ Joined
      /\ adapter.deferrals = 0 /\ adapter.deferred = <<>> /\ ~adapter.terminated
      /\ \A i \in 1..Len(adapter.stdin) : adapter.stdin[i].command = "initialize"
  BY DEF AdapterInv, LaunchInv
<1>4. /\ f.executionState = "paused" /\ f.terminated = adapter.terminated
      /\ f.deferrals = adapter.deferrals /\ f.deferred = adapter.deferred
      /\ f.child = adapter.child /\ f.protocolSeq = adapter.protocolSeq
      /\ f.pending = adapter.pending /\ f.stdin = adapter.stdin
      /\ f.waiting = adapter.waiting
      /\ Elements(f.microtasks) \subseteq Elements(adapter.microtasks)
  <2>1. a.f \in Fields
    BY <1>1 DEF States
  <2> DEFINE k == f
  <2>2. /\ k.executionState = "paused" /\ k.terminated = a.f.terminated
        /\ k.deferrals = a.f.deferrals /\ k.deferred = a.f.deferred
        /\ k.child = a.f.child /\ k.protocolSeq = a.f.protocolSeq
        /\ k.pending = a.f.pending /\ k.stdin = a.f.stdin
        /\ k.waiting = a.f.waiting /\ k.microtasks = a.f.microtasks
    BY <2>1 DEF Fields
  <2> HIDE DEF k, f
  <2> QED BY <2>2 DEF k, InHand, SameSession
<1> HIDE DEF f
<1>5. /\ HandlersKept /\ Len(handlers') = Len(handlers)
      /\ handlers'[1].ok = ok /\ handlers'[1].stage = "done"
      /\ Undone(handlers') \subseteq Undone(handlers)
      /\ \A i \in 1..Len(handlers') : Awaiting(i)' => Awaiting(i)
  <2>1. /\ HandlersKept /\ Len(handlers') = Len(handlers)
        /\ handlers'[r].ok = ok /\ handlers'[r].stage = "done"
        /\ Undone(handlers') \subseteq Undone(handlers)
        /\ \A i \in 1..Len(handlers') : Awaiting(i)' => Awaiting(i)
    BY <1>1, <1>2, HandlerDone
  <2> QED BY <2>1
<1>6. LaunchDone' /\ handlers'[1].ok
  BY <1>5, Zenon DEF LaunchDone
<1>7. ASSUME Connected PROVE StateInv'
  <2>1. ~Unread'
    <3>1. ~Unread
      BY <1>7 DEF AgreementInv, Working, LaunchDone
    <3> QED BY <3>1 DEF Unread
  <2>2. /\ session' = "Ready" /\ Joined' /\ adapter'.deferrals = 0 /\ adapter'.deferred = <<>>
        /\ ~adapter'.terminated /\ adapter'.executionState = "paused"
        /\ adapter'.stdin = adapter.stdin
    BY <1>2, <1>3, <1>4 DEF Joined, server
  <2>3. NewsInv'
    <3>1. Len(adapter'.deferred) = 0
      BY <2>2
    <3>2. \A i \in 1..Len(stdout') : stdout'[i].name \notin Deferrable
      BY <2>1 DEF Unread, Elements
    <3> QED BY <2>2, <3>1, <3>2, FinalNews DEF NewsInv
  <2>4. ~MoveAsked' /\ OneMove'
    <3>1. "initialize" \notin Moves
      BY DEF Moves, Steps
    <3>2. \A i \in 1..Len(adapter'.stdin) : adapter'.stdin[i].command \notin Moves
      BY <1>3, <2>2, <3>1
    <3> QED BY <3>2 DEF MoveAsked, OneMove, Asks
  <2>5. \A i \in 1..Len(handlers') : ~Awaiting(i)'
    <3>1. Len(handlers) = 1 /\ handlers[1].command = "launch"
      BY DEF AdapterInv, LaunchInv, SetUp
    <3>2. \A i \in 1..Len(handlers') : ~Awaiting(i)
      BY <1>5, <3>1 DEF Awaiting, Executions, Steps
    <3> QED BY <1>5, <3>2
  <2>6. Resting'
    BY <2>1, <2>2, <2>4, <2>5 DEF Resting, NoNews, Agrees
  <2> QED BY <2>2, <2>3, <2>4, <2>6 DEF StateInv
<1>8. ASSUME Connected PROVE Working'
  <2>1. Working
    BY <1>8 DEF AgreementInv
  <2>2. NumberInv'
    <3>1. /\ answering' < adapter.protocolSeq
          /\ \A l \in Elements(stdout') : l.seq < adapter.protocolSeq
      BY <2>1 DEF Working, NumberInv, server
    <3> QED BY <1>2, <1>4, <1>5, <2>1, <3>1, RequestsKnown, NumberKept DEF Working
  <2>3. FailureInv'
    <3>2. \A t \in Elements(adapter'.microtasks) : t \in Elements(adapter.microtasks)
      BY <1>2, <1>4
    <3> QED BY <1>2, <1>4, <1>5, <1>6, <2>1, <3>2, RequestsKnown, FailureKept DEF Working
  <2> QED BY <1>2, <1>4, <1>6, <1>7, <1>8, <2>1, <2>2, <2>3 DEF Working
<1>9. /\ \A x \in 1..Len(handlers') : x \in 1..Len(handlers)
      /\ Reachable' => Reachable
      /\ \A s \in Elements(adapter.stdin) : s \in Elements(adapter'.stdin)
  BY <1>2, <1>4, <1>5 DEF Reachable
<1> QED BY <1>5, <1>8, <1>9, InReach

(* A step of the continuations.                                            *)
LEMMA ContinueAgrees ==
    ASSUME AdapterInv, AgreementInv, AdapterInv', Continue PROVE AgreementInv'
<1> DEFINE a  == Resuming
           r  == Head(adapter.microtasks).request
           ok == Head(adapter.microtasks).ok
           b  == CASE a.h[r].command = "launch"      -> LaunchContinues(a, r, ok)
                   [] a.h[r].command = "inspect"     -> Reply(a, r, ok)
                   [] a.h[r].command \in Executions  -> ExecutionContinues(a, r, ok)
                   [] a.h[r].command = "disconnect"  -> DisconnectContinues(a, r, ok)
                   [] a.h[r].command = "terminate"   -> TerminateContinues(a, r, ok)
<1>1. /\ Becomes(b) /\ MayKill(b) /\ UNCHANGED <<stdout, server>>
      /\ adapter.microtasks # <<>>
  BY Zenon DEF Continue, Resuming
<1> HIDE DEF b
<1>2. InHand(a, r, ok) /\ SameSession(a)
  BY <1>1, ResumingIs
<1>3. /\ r \in Undone(handlers) /\ r \in Queued(adapter)
      /\ (ok => r \in Granted(adapter.microtasks))
  BY <1>1, TaskTaken DEF AdapterInv, LocalInv
<1>4. Reachable' => process' = process
  BY <1>1 DEF MayKill, Reachable
<1>5. Reachable' /\ adapter.child => Reachable
  BY <1>4 DEF Reachable
<1> HIDE DEF a, r, ok
<1>6. /\ a \in States /\ Sound(a, {r}) /\ ok \in BOOLEAN /\ a.h = handlers
      /\ r \in 1..Len(handlers) /\ a.f.deferrals = Cardinality(Waits(a.h))
      /\ a.f.child = adapter.child /\ a.f.stdin = adapter.stdin
  BY <1>2 DEF InHand
<1>7. CASE r # 1
  <2>1. /\ handlers[r].stage \in {"reply", "exit"} /\ r \in 1..Len(handlers)
        /\ handlers[r].command # "configurationDone"
    BY <1>3, <1>6, <1>7 DEF AdapterInv, PromiseInv
  <2>2. handlers[r].command # "launch"
    <3>1. handlers \in Seq(Handlers)
      BY DEF AdapterInv, TypeOK
    <3>2. r \in 2..Len(handlers)
      BY <1>7, <2>1, <3>1
    <3> QED BY <3>2 DEF AdapterInv, LaunchInv
  <2>3. handlers[r].command \in Commands
    <3>1. handlers \in Seq(Handlers)
      BY DEF AdapterInv, TypeOK
    <3>2. handlers[r] \in Handlers
      BY <2>1, <3>1
    <3> QED BY <2>2, <3>2 DEF Handlers
  <2>4. CASE handlers[r].command = "inspect"
    <3>1. b = Reply(a, r, ok)
      BY <1>6, <2>4 DEF Executions, Steps, b
    <3>2. Becomes(Reply(a, r, ok))
      BY <1>1, <3>1
    <3> QED BY <1>1, <1>2, <1>5, <1>7, <3>2, InspectReturns
  <2>5. CASE handlers[r].command \in Executions
    <3>1. b = ExecutionContinues(a, r, ok)
      BY <1>6, <2>5 DEF Executions, Steps, b
    <3>2. Becomes(ExecutionContinues(a, r, ok))
      BY <1>1, <3>1
    <3> QED BY <1>1, <1>2, <1>5, <1>7, <2>1, <2>5, <3>2, ExecutionReturns
  <2>6. CASE handlers[r].command \in Leaving
    <3>1. r \in Waits(a.h)
      BY <1>6, <2>1, <2>6 DEF Waits, Moving, Leaving
    <3>2. b = DisconnectContinues(a, r, ok) \/ b = TerminateContinues(a, r, ok)
      BY <1>6, <2>6 DEF Executions, Steps, Leaving, b
    <3>3. Progress(a, b, r) /\ Closer(a, b)
      BY <1>6, <3>1, <3>2, DisconnectFacts, TerminateFacts, DisconnectCloser, TerminateCloser
    <3>4. /\ adapter' = b.f /\ handlers' = b.h
      BY <1>1 DEF Becomes
    <3>5. r \in 1..Len(handlers') /\ handlers'[r].command \in Leaving
      BY <1>6, <2>6, <3>3, <3>4 DEF Progress, Advanced
    <3>6. CASE adapter'.child
      <4>1. adapter.child /\ adapter'.stdin = adapter.stdin
        BY <1>6, <3>3, <3>4, <3>6 DEF Closer
      <4> QED BY <1>5, <2>1, <2>6, <3>5, <4>1, LeftAgrees
    <3>7. CASE ~adapter'.child
      BY <3>7, OutOfReach DEF Reachable
    <3> QED BY <3>6, <3>7
  <2> QED BY <2>1, <2>3, <2>4, <2>5, <2>6 DEF Commands, Leaving
<1>8. CASE r = 1
  <2>1. handlers[1].stage # "done" /\ handlers[1].command = "launch"
    BY <1>3, <1>8 DEF Undone, AdapterInv, LaunchInv
  <2>2. b = LaunchContinues(a, r, ok)
    <3>1. a.h[r].command = "launch"
      BY <1>6, <1>8, <2>1
    <3> QED BY <3>1 DEF Executions, Steps, b
  <2>3. ok => MaySucceed
    BY <1>3, <1>8 DEF MaySucceed
  <2>4. CASE ok = FALSE
    <3> DEFINE H == {r}
               c == stopChild(a)
    <3>1. b = Reply(c, r, ok)
      BY <2>2, <2>4 DEF LaunchContinues
    <3>2. H \in SUBSET Nat /\ r \in H /\ Sound(a, H) /\ Owned(a, H)
      BY <1>6, <1>8 DEF Sound
    <3> HIDE DEF H
    <3>3. Sound(c, H) /\ ~c.f.child
      BY <1>6, <3>2, StopSound, StopFacts
    <3> HIDE DEF c
    <3>4. c \in States /\ Owned(c, H) /\ Told(c)
      BY <3>3 DEF Sound
    <3>5. b.f = c.f
      BY <1>6, <3>1, <3>2, <3>4, ReplyFacts
    <3>6. ~adapter'.child
      BY <1>1, <3>3, <3>5 DEF Becomes
    <3> QED BY <3>6, OutOfReach DEF Reachable
  <2>5. CASE ok /\ a.h[r].stage = "ready"
    <3>1. b = sendProtocolRequest(a, r, "initialize")
      BY <2>2, <2>5 DEF LaunchContinues
    <3>2. Becomes(sendProtocolRequest(a, r, "initialize"))
      BY <1>1, <3>1
    <3> QED BY <1>1, <1>2, <1>4, <1>8, <2>1, <3>2, LaunchGoesOn
  <2>6. CASE ok = TRUE /\ a.h[r].stage # "ready"
    <3>1. b = Launched(a, r, ok)
      BY <2>2, <2>6 DEF LaunchContinues, Launched
    <3>2. Becomes(Launched(a, r, ok))
      BY <1>1, <3>1
    <3> QED BY <1>1, <1>2, <1>5, <1>8, <2>1, <2>3, <2>6, <3>2, LaunchSettles
  <2> QED BY <1>6, <2>4, <2>5, <2>6
<1> QED BY <1>7, <1>8

(* The adapter after a line has been read.                                 *)
ReadAs(b) ==
    /\ adapter'.child = b.f.child /\ adapter'.waiting = b.f.waiting
    /\ adapter'.protocolSeq = b.f.protocolSeq /\ adapter'.stdin = b.f.stdin
    /\ adapter'.pending = b.f.pending /\ adapter'.microtasks = b.f.microtasks
    /\ adapter'.executionState = b.f.executionState
    /\ adapter'.terminated = b.f.terminated
    /\ adapter'.entryStoppedSent = b.f.entryStoppedSent
    /\ adapter'.deferrals = b.f.deferrals /\ adapter'.deferred = b.f.deferred

(* A line is read: what its handler leaves comes from the line.            *)
LEMMA ReadFacts ==
    ASSUME AdapterInv, handleStdout
    PROVE  LET b == handleProtocolLine(State, Head(stdout)) IN
           /\ b \in States /\ ReadAs(b) /\ handlers' = handlers
           /\ Head(stdout) \in Lines /\ stdout # <<>> /\ stdout' = Tail(stdout)
           /\ UNCHANGED <<process, server>>
           /\ State \in States /\ Sound(State, {}) /\ State.f = adapter
<1>0. TypeOK /\ LocalInv
  BY DEF AdapterInv, LocalInv
<1> DEFINE line == Head(stdout)
           b == handleProtocolLine(State, line)
<1>1. PICK more : Becomes([b EXCEPT !.f.reading = more])
  BY DEF handleStdout
<1>2. /\ stdout # <<>> /\ stdout' = Tail(stdout) /\ UNCHANGED <<process, server>>
      /\ stdout \in Seq(Lines)
  BY <1>0 DEF handleStdout, TypeOK
<1>3. line \in Lines
  BY <1>2, TailFacts
<1>4. State \in States /\ Sound(State, {}) /\ Fine(State) /\ State.f = adapter
      /\ State.h = handlers
  BY <1>0, StateFine
<1> DEFINE f == [b.f EXCEPT !.reading = more]
           c == [b EXCEPT !.f.reading = more]
<1>5. Becomes(c) /\ c = [b EXCEPT !.f = f]
  BY <1>1
<1> HIDE DEF line, b
<1>6. Handled(State, b, line)
  BY <1>3, <1>4, HandledFacts DEF Fine, b
<1>7. b \in States /\ b.h = handlers /\ b.f \in Fields
  BY <1>4, <1>6 DEF Handled, Sound, States
<1>8. /\ f.child = b.f.child /\ f.waiting = b.f.waiting
      /\ f.protocolSeq = b.f.protocolSeq /\ f.stdin = b.f.stdin
      /\ f.pending = b.f.pending /\ f.microtasks = b.f.microtasks
      /\ f.executionState = b.f.executionState /\ f.terminated = b.f.terminated
      /\ f.entryStoppedSent = b.f.entryStoppedSent
      /\ f.deferrals = b.f.deferrals /\ f.deferred = b.f.deferred
  BY <1>7 DEF Fields
<1>9. c = [b EXCEPT !.f = f]
  BY <1>7 DEF States
<1> HIDE DEF f, c
<1>10. c.f = f /\ c.h = handlers
  BY <1>7, <1>9 DEF States
<1>11. adapter' = f /\ handlers' = handlers
  BY <1>5, <1>10 DEF Becomes
<1>12. ReadAs(b)
  BY <1>8, <1>11, Zenon DEF ReadAs
<1> QED BY <1>2, <1>3, <1>4, <1>7, <1>11, <1>12 DEF line, b

(* What a line that says nothing of the session does: it settles promises. *)
Settles(b, line) ==
    /\ Silent(State, b) /\ b.f.child = adapter.child
    /\ b.f.protocolSeq = adapter.protocolSeq
    /\ Elements(b.f.pending) \subseteq Elements(adapter.pending)
    /\ \A t \in Elements(b.f.microtasks) :
           \/ t \in Elements(adapter.microtasks) \/ t.request = 1
           \/ \E p \in Elements(adapter.pending) :
                  p.seq = line.seq /\ t.request = p.request /\ t.ok = line.ok

(* A line that is no news settles promises and no more.                    *)
LEMMA LineSettles ==
    ASSUME State \in States, Sound(State, {}), State.f = adapter,
           NEW line \in Lines, line.name \notin Deferrable
    PROVE  Settles(handleProtocolLine(State, line), line)
<1> DEFINE b == handleProtocolLine(State, line)
           a == State
<1>1. {} \in SUBSET Nat /\ Owned(a, {}) /\ a \in States /\ a.f = adapter
  BY DEF Sound
<1>2. CASE line.type = "response"
  <2>1. b = HandleAnswer(a, line)
    BY <1>2 DEF handleProtocolLine
  <2> HIDE DEF a, b
  <2>2. Silent(a, b) /\ b.f.child = a.f.child
    BY <1>1, <2>1, AnswerFacts
  <2>3. Settled(a, b, line)
    BY <1>1, <2>1, AnswerIs
  <2>4. Settles(b, line)
    BY <1>1, <2>2, <2>3 DEF Settles, Settled, a
  <2> QED BY <2>4 DEF b
<1>3. CASE line.type # "response"
  <2>1. line.name \in {"ready", "error"}
    BY <1>3 DEF Lines
  <2>2. b = a \/ \E ok \in BOOLEAN : b = settleReady(a, ok)
    BY <1>3, <2>1 DEF handleProtocolLine, handleProtocolEvent, ApplyEvent
  <2> HIDE DEF a, b
  <2>3. CASE b = a
    <3>1. Silent(a, b)
      BY <2>3 DEF Silent
    <3>2. Settles(b, line)
      BY <1>1, <2>3, <3>1 DEF Settles, a
    <3> QED BY <3>2 DEF b
  <2>4. ASSUME NEW ok \in BOOLEAN, b = settleReady(a, ok) PROVE Settles(b, line)
    <3>1. Silent(a, b) /\ b.f.child = a.f.child
      BY <1>1, <2>4, ReadyFacts
    <3>2. Readied(a, b)
      BY <1>1, <2>4, ReadyIs
    <3> QED BY <1>1, <3>1, <3>2 DEF Settles, Readied, a
  <2> QED BY <2>2, <2>3, <2>4 DEF b
<1> QED BY <1>2, <1>3

(* Responses, and the readiness of the child.                              *)
LEMMA SettlesAgree ==
    ASSUME AdapterInv, AgreementInv, AdapterInv', handleStdout,
           Head(stdout).name \notin Deferrable
    PROVE  AgreementInv'
<1> DEFINE line == Head(stdout)
           b == handleProtocolLine(State, line)
<1>1. /\ b \in States /\ ReadAs(b) /\ handlers' = handlers
      /\ line \in Lines /\ stdout # <<>> /\ stdout' = Tail(stdout)
      /\ UNCHANGED <<process, server>>
      /\ State \in States /\ Sound(State, {}) /\ State.f = adapter
  BY ReadFacts
<1>2. Settles(b, line)
  BY <1>1, LineSettles
<1>3. TypeOK /\ stdout \in Seq(Lines)
  BY DEF AdapterInv, TypeOK
<1>4. line \in Elements(stdout) /\ Elements(stdout) = Elements(stdout') \cup {line}
  BY <1>1, <1>3, TailFacts
<1> HIDE DEF b
<1>5. /\ SameState /\ adapter'.deferrals = adapter.deferrals
      /\ adapter'.stdin = adapter.stdin /\ adapter'.waiting = adapter.waiting
      /\ adapter'.child = adapter.child /\ adapter'.protocolSeq = adapter.protocolSeq
  BY <1>1, <1>2 DEF Settles, Silent, ReadAs, SameState, server
<1>6. /\ Elements(adapter'.pending) \subseteq Elements(adapter.pending)
      /\ \A t \in Elements(adapter'.microtasks) :
           \/ t \in Elements(adapter.microtasks) \/ t.request = 1
           \/ \E p \in Elements(adapter.pending) :
                  p.seq = line.seq /\ t.request = p.request /\ t.ok = line.ok
  BY <1>1, <1>2 DEF Settles, ReadAs
<1> HIDE DEF line
<1>7. HandlersKept
  BY <1>1, <1>3 DEF HandlersKept, TypeOK
<1>8. ASSUME Connected PROVE Working'
  <2>1. Working
    BY <1>8 DEF AgreementInv
  <2>2. NumberInv'
    <3>1. /\ answering' < adapter.protocolSeq
          /\ \A l \in Elements(stdout') : l.seq < adapter.protocolSeq
      BY <1>1, <1>4, <2>1 DEF Working, NumberInv, server
    <3> QED BY <1>5, <1>6, <1>7, <2>1, <3>1, RequestsKnown, NumberKept DEF Working
  <2>3. FailureInv'
    <3>1. ASSUME NEW t \in Elements(adapter'.microtasks)
          PROVE  t \in Elements(adapter.microtasks) \/ t.ok \/ MayFail(t.request)'
      <4>1. CASE t.request = 1
        <5>1. handlers[1].command = "launch"
          BY DEF AdapterInv, LaunchInv
        <5> QED BY <1>1, <4>1, <5>1 DEF MayFail, Moves, Steps
      <4>2. ASSUME NEW p \in Elements(adapter.pending),
                   p.seq = line.seq, t.request = p.request, t.ok = line.ok
            PROVE  t.ok \/ MayFail(t.request)'
        <5>1. line.ok \/ MayFail(p.request)
          BY <1>4, <2>1, <4>2 DEF Working, FailureInv
        <5>2. MayFail(p.request)' <=> MayFail(p.request)
          BY <1>1 DEF MayFail
        <5>3. MayFail(t.request)' <=> MayFail(p.request)
          BY <1>1, <4>2 DEF MayFail
        <5> QED BY <4>2, <5>1, <5>3, Zenon
      <4> QED BY <1>6, <4>1, <4>2
    <3>2. \A l \in Elements(stdout'), p \in Elements(adapter'.pending) :
              l \in Elements(stdout) /\ p \in Elements(adapter.pending)
      BY <1>4, <1>6
    <3>3. LaunchDone' => handlers'[1].ok
      BY <1>1, <2>1 DEF Working, FailureInv, LaunchDone
    <3>4. \A r \in Undone(handlers') : r \in Undone(handlers)
      BY <1>1
    <3> QED BY <1>7, <2>1, <3>1, <3>2, <3>3, <3>4, RequestsKnown, FailureKept DEF Working
  <2>4. CASE LaunchDone
    <3>1. StateInv /\ LaunchDone'
      BY <1>1, <2>1, <2>4 DEF Working, LaunchDone
    <3>2. SameNews
      <4>1. Unimportant
        BY <1>1 DEF Unimportant
      <4> QED BY <1>3, <1>5, <3>1, <4>1, NewsKept DEF StateInv
    <3>3. SameMoves
      <4>1. Unmoving
        BY <1>5 DEF Unmoving
      <4> QED BY <1>3, <3>1, <4>1, MovesKept DEF StateInv
    <3>4. adapter.executionState # "running" => \A r \in 1..Len(handlers') : ~Awaiting(r)'
      BY <1>1, <3>1 DEF StateInv, Resting, Awaiting
    <3>5. StateInv'
      BY <1>5, <3>1, <3>2, <3>3, <3>4, StateKept
    <3> QED BY <1>5, <2>1, <2>2, <2>3, <3>1, <3>5 DEF Working
  <2>5. CASE ~LaunchDone
    <3>1. ~LaunchDone' /\ ~Unread'
      BY <1>1, <1>4, <2>1, <2>5 DEF Working, LaunchDone, Unread
    <3> QED BY <1>5, <2>1, <2>2, <2>3, <3>1 DEF Working
  <2> QED BY <2>4, <2>5
<1> QED BY <1>1, <1>5, <1>7, <1>8, InReach DEF Reachable

(* Nobody awaits a move when nothing is deferred.                          *)
LEMMA NobodyAwaits ==
    ASSUME AdapterInv, adapter.deferrals = 0
    PROVE  \A r \in 1..Len(handlers) : ~Awaiting(r)
<1> DEFINE S == {r \in 1..Len(handlers) : Awaiting(r)}
<1>1. Cardinality(S) = 0
  BY DEF AdapterInv, DeferralInv
<1>2. IsFiniteSet(S)
  <2>1. handlers \in Seq(Handlers)
    BY DEF AdapterInv, TypeOK
  <2>2. Len(handlers) \in Nat
    BY <2>1
  <2>3. IsFiniteSet(1..Len(handlers))
    BY <2>2, FS_Interval
  <2> QED BY <2>3, FS_Subset
<1>3. S = {}
  <2> HIDE DEF S
  <2> QED BY <1>1, <1>2, FS_EmptySet
<1> QED BY <1>3

(* News of the session is deferred or told.                                *)
NewsTaken(name) ==
    /\ adapter'.child = adapter.child /\ adapter'.waiting = adapter.waiting
    /\ adapter'.protocolSeq = adapter.protocolSeq /\ adapter'.stdin = adapter.stdin
    /\ adapter'.pending = adapter.pending /\ adapter'.microtasks = adapter.microtasks
    /\ adapter'.entryStoppedSent = adapter.entryStoppedSent
    /\ adapter'.deferrals = adapter.deferrals
    /\ IF adapter.deferrals > 0
       THEN /\ adapter'.executionState = adapter.executionState
            /\ adapter'.terminated = adapter.terminated
            /\ adapter'.deferred = Append(adapter.deferred, name)
       ELSE /\ adapter'.deferred = adapter.deferred
            /\ ~adapter.terminated =>
                   /\ adapter'.executionState = StateAfter(name)
                   /\ adapter'.terminated = (name = "terminated")

(* A line that is news is told at once, or deferred behind the rest.       *)
LEMMA NewsIs ==
    ASSUME AdapterInv, handleStdout, Head(stdout).name \in Deferrable
    PROVE  NewsTaken(Head(stdout).name)
<1> DEFINE line == Head(stdout)
           name == line.name
           b == handleProtocolLine(State, line)
           a == State
<1>1. /\ b \in States /\ ReadAs(b) /\ line \in Lines
      /\ a \in States /\ Sound(a, {}) /\ a.f = adapter /\ name \in Deferrable
  BY ReadFacts
<1>2. {} \in SUBSET Nat /\ adapter \in Fields
  BY DEF AdapterInv, TypeOK
<1>3. line.type = "event"
  BY <1>1 DEF Lines, Deferrable
<1>4. name # "ready" /\ name # "error"
  BY <1>1 DEF Deferrable
<1>5. CASE adapter.deferrals > 0
  <2>1. b = Defer(a, name)
    BY <1>1, <1>3, <1>5 DEF handleProtocolLine, handleProtocolEvent
  <2> DEFINE q == Append(adapter.deferred, name)
             f == [adapter EXCEPT !.deferred = q]
  <2> HIDE DEF name, b, a
  <2>2. SamePromises(a, b) /\ b.f.deferrals = adapter.deferrals
        /\ b.f.terminated = adapter.terminated
    BY <1>1, <2>1, DeferFacts DEF OnlySays
  <2>3. b = [a EXCEPT !.f.deferred = q]
    BY <1>1, <2>1 DEF Defer, States
  <2>4. b.f = f
    BY <1>1, <2>3 DEF States
  <2> HIDE DEF q
  <2>5. f.deferred = q /\ f.executionState = adapter.executionState
    BY <1>2 DEF Fields
  <2> HIDE DEF f
  <2>6. NewsTaken(name)
    BY <1>1, <1>5, <2>2, <2>4, <2>5 DEF NewsTaken, ReadAs, SamePromises, q
  <2> QED BY <2>6 DEF name
<1>6. CASE ~(adapter.deferrals > 0)
  <2> DEFINE names == <<name>>
  <2>1. b = ApplyEvents(a, names)
    BY <1>1, <1>3, <1>4, <1>6 DEF handleProtocolLine, handleProtocolEvent, ApplyEvent
  <2>2. names \in Seq(Deferrable) /\ Len(names) = 1 /\ names[1] = name /\ names # <<>>
    BY <1>1
  <2>3. EndsLast(names)
    <3> HIDE DEF names
    <3> QED BY <2>2 DEF EndsLast
  <2> HIDE DEF names, b, a, name
  <2>4. SamePromises(a, b) /\ b.f.deferrals = adapter.deferrals
        /\ b.f.deferred = adapter.deferred
    BY <1>1, <1>2, <2>1, <2>2, ApplyFacts DEF OnlySays
  <2>5. ToldAll(a, b, names)
    BY <1>1, <2>1, <2>2, <2>3, ApplyIs
  <2>6. ~adapter.terminated =>
            b.f.executionState = StateAfter(name) /\ b.f.terminated = (name = "terminated")
    BY <1>1, <2>2, <2>5, Zenon DEF ToldAll
  <2>7. NewsTaken(name)
    <3>1. ~adapter.terminated => /\ adapter'.executionState = StateAfter(name)
                                 /\ adapter'.terminated = (name = "terminated")
      BY <1>1, <2>6, Zenon DEF ReadAs
    <3>2. /\ adapter'.child = adapter.child /\ adapter'.waiting = adapter.waiting
          /\ adapter'.protocolSeq = adapter.protocolSeq /\ adapter'.stdin = adapter.stdin
          /\ adapter'.pending = adapter.pending /\ adapter'.microtasks = adapter.microtasks
          /\ adapter'.entryStoppedSent = adapter.entryStoppedSent
          /\ adapter'.deferrals = adapter.deferrals
          /\ adapter'.deferred = adapter.deferred
      BY <1>1, <2>4 DEF ReadAs, SamePromises
    <3> QED BY <1>6, <3>1, <3>2, Zenon DEF NewsTaken
  <2> QED BY <2>7 DEF name
<1> QED BY <1>5, <1>6

(* What is read of the news keeps its order.                               *)
LEMMA NewsRead ==
    ASSUME TypeOK, NewsInv, stdout # <<>>, stdout' = Tail(stdout),
           UNCHANGED server, Head(stdout).name \in Deferrable
    PROVE  LET name == Head(stdout).name IN
           /\ Unread /\ (Joined' <=> Joined)
           /\ Elements(stdout) = Elements(stdout') \cup {Head(stdout)}
           /\ name \in Final => IsFinal(name) /\ Joined /\ ~Unread'
           /\ \A i \in 1..Len(stdout') : stdout'[i].name \in Final =>
                 /\ IsFinal(stdout'[i].name) /\ Joined
                 /\ \A j \in 1..Len(stdout') : stdout'[j].name \in Deferrable => j <= i
           /\ ~Joined => IsFinal(stopEvent.name)
           /\ \A i \in 1..Len(adapter.deferred) : adapter.deferred[i] \notin Final
<1> DEFINE q == stdout
           t == Tail(q)
<1>1. q \in Seq(Lines) /\ q # <<>>
  BY DEF TypeOK
<1>2. /\ Len(t) = Len(q) - 1 /\ Len(q) \in Nat /\ 1 \in 1..Len(q) /\ Head(q) = q[1]
      /\ \A i \in 1..Len(t) : i + 1 \in 1..Len(q) /\ t[i] = q[i + 1]
      /\ Elements(q) = Elements(t) \cup {Head(q)}
  BY <1>1, TailFacts
<1> HIDE DEF t, q
<1>3. stdout' = t /\ stdout = q /\ q[1].name \in Deferrable
  BY <1>2 DEF t, q
<1>4. session' = session /\ stopEvent' = stopEvent
  BY DEF server
<1>5. Joined' <=> Joined
  BY <1>4 DEF Joined
<1>6. Unread
  BY <1>2, <1>3 DEF Unread
<1>7. ASSUME NEW i \in 1..Len(t), t[i].name \in Final
      PROVE  /\ IsFinal(t[i].name) /\ Joined
             /\ \A j \in 1..Len(t) : t[j].name \in Deferrable => j <= i
  <2>1. /\ IsFinal(q[i + 1].name) /\ Joined
        /\ \A j \in 1..Len(q) : q[j].name \in Deferrable => j <= i + 1
    BY <1>2, <1>3, <1>7 DEF NewsInv
  <2>2. ASSUME NEW j \in 1..Len(t), t[j].name \in Deferrable PROVE j <= i
    <3>1. j + 1 \in 1..Len(q) /\ q[j + 1].name \in Deferrable
      BY <1>2, <2>2
    <3> QED BY <1>2, <2>1, <3>1
  <2> QED BY <1>2, <2>1, <2>2
<1>8. ASSUME q[1].name \in Final
      PROVE  IsFinal(q[1].name) /\ Joined /\ ~Unread'
  <2>1. /\ IsFinal(q[1].name) /\ Joined
        /\ \A j \in 1..Len(q) : q[j].name \in Deferrable => j <= 1
    BY <1>2, <1>3, <1>8 DEF NewsInv
  <2>2. ASSUME NEW l \in Elements(t), l.name \in Deferrable PROVE FALSE
    <3>1. PICK i \in 1..Len(t) : l = t[i]
      BY <2>2 DEF Elements
    <3>2. i + 1 \in 1..Len(q) /\ q[i + 1].name \in Deferrable
      BY <1>2, <2>2, <3>1
    <3> QED BY <1>2, <2>1, <3>1, <3>2
  <2> QED BY <1>3, <2>1, <2>2 DEF Unread
<1>9. \A i \in 1..Len(adapter.deferred) : adapter.deferred[i] \notin Final
  BY <1>6 DEF NewsInv
<1>10. ~Joined => IsFinal(stopEvent.name)
  BY DEF NewsInv
<1> QED BY <1>2, <1>3, <1>5, <1>6, <1>7, <1>8, <1>9, <1>10

(* The state that follows from a piece of news.                            *)
LEMMA NewsState ==
    ASSUME AdapterInv, AdapterInv', StateInv, stdout # <<>>, stdout' = Tail(stdout),
           UNCHANGED <<handlers, server>>, Head(stdout).name \in Deferrable,
           NewsTaken(Head(stdout).name)
    PROVE  StateInv'
<1> DEFINE name == Head(stdout).name
           q == adapter.deferred
<1>0. TypeOK /\ NewsInv /\ OneMove /\ name \in Deferrable /\ NewsTaken(name)
      /\ UNCHANGED server /\ q \in Seq(Deferrable) /\ adapter.deferrals \in Nat
  BY DEF AdapterInv, TypeOK, StateInv, Fields
<1>1. /\ Unread /\ (Joined' <=> Joined)
      /\ Elements(stdout) = Elements(stdout') \cup {Head(stdout)}
      /\ name \in Final => IsFinal(name) /\ Joined /\ ~Unread'
      /\ \A i \in 1..Len(stdout') : stdout'[i].name \in Final =>
             /\ IsFinal(stdout'[i].name) /\ Joined
             /\ \A j \in 1..Len(stdout') : stdout'[j].name \in Deferrable => j <= i
      /\ ~Joined => IsFinal(stopEvent.name)
      /\ \A i \in 1..Len(q) : q[i] \notin Final
  BY <1>0, NewsRead
<1> DEFINE line == Head(stdout)
<1>2. line.name = name
  OBVIOUS
<1> HIDE DEF name, q, line
<1>3. adapter.executionState = "running"
  <2>1. ~NoNews
    BY <1>1 DEF NoNews
  <2> QED BY <2>1 DEF StateInv, Resting
<1>4. /\ ~MoveAsked /\ (Over \/ session = "Running") /\ ~adapter.terminated
      /\ adapter.entryStoppedSent
  <2>1. ~NoNews
    BY <1>1 DEF NoNews
  <2>2. Running
    BY <1>3 DEF StateInv
  <2>3. adapter.entryStoppedSent /\ ~adapter.terminated
    BY <1>3 DEF StateInv
  <2> QED BY <2>1, <2>2, <2>3 DEF Running
<1>5. /\ adapter'.stdin = adapter.stdin /\ adapter'.deferrals = adapter.deferrals
      /\ adapter'.entryStoppedSent
  BY <1>0, <1>4 DEF NewsTaken
<1>6. ~MoveAsked' /\ OneMove'
  BY <1>0, <1>4, <1>5 DEF MoveAsked, OneMove, Asks
<1>7. session' = session /\ stopEvent' = stopEvent
  BY DEF server
<1>8. CASE adapter.deferrals > 0
  <2> DEFINE t == Append(q, name)
  <2>1. /\ Len(t) = Len(q) + 1 /\ Len(q) \in Nat
        /\ \A i \in 1..Len(t) : (i \in 1..Len(q) /\ t[i] = q[i])
                                \/ (i = Len(q) + 1 /\ t[i] = name)
        /\ Elements(t) = Elements(q) \cup {name}
    BY <1>0, AppendFacts
  <2>2. adapter'.executionState = "running" /\ ~adapter'.terminated
        /\ adapter'.deferred = t /\ adapter.deferred = q
    BY <1>0, <1>3, <1>4, <1>8 DEF NewsTaken, q
  <2> HIDE DEF t
  <2>3. ASSUME NEW i \in 1..Len(t), t[i] \in Final
        PROVE  IsFinal(t[i]) /\ i = Len(t) /\ ~Unread' /\ Joined
    <3>1. i = Len(q) + 1 /\ t[i] = name
      BY <1>1, <2>1, <2>3
    <3>2. IsFinal(name) /\ Joined /\ ~Unread'
      BY <1>1, <2>3, <3>1
    <3> QED BY <2>1, <3>1, <3>2
  <2>4. NewsInv'
    BY <1>1, <1>7, <2>2, <2>3 DEF NewsInv, IsFinal, SessionAfter
  <2>5. Over' <=> Over
    BY <1>1, <1>2, <2>1, <2>2 DEF Over, line
  <2>6. Running'
    BY <1>4, <1>6, <1>7, <2>5 DEF Running
  <2>7. adapter'.deferrals # 0
    BY <1>0, <1>5, <1>8
  <2> QED BY <1>5, <1>6, <2>2, <2>4, <2>6, <2>7 DEF StateInv
<1>9. CASE ~(adapter.deferrals > 0)
  <2>1. adapter.deferrals = 0 /\ adapter.deferred = <<>>
    BY <1>0, <1>9 DEF StateInv
  <2>2. /\ adapter'.deferred = <<>> /\ adapter'.executionState = StateAfter(name)
        /\ adapter'.terminated = (name = "terminated")
    BY <1>0, <1>4, <1>9, <2>1, Zenon DEF NewsTaken
  <2>3. adapter'.terminated <=> adapter'.executionState = "terminated"
    BY <1>0, <2>2 DEF StateAfter, Deferrable
  <2>4. Len(adapter'.deferred) = 0 /\ Elements(adapter'.deferred) = {}
        /\ Elements(adapter.deferred) = {}
    BY <2>1, <2>2, FewElements
  <2>5. NewsInv'
    <3>1. \A i \in 1..Len(adapter'.deferred) : FALSE
      BY <2>4
    <3> QED BY <1>1, <1>7, <3>1 DEF NewsInv, IsFinal
  <2>6. CASE name \in Final
    <3>1. NoNews'
      BY <1>1, <2>2, <2>6 DEF NoNews
    <3>2. session' = SessionAfter(name)
      BY <1>1, <1>7, <2>6 DEF IsFinal
    <3>3. adapter'.executionState # "running" /\ Agrees'
      BY <2>2, <2>6, <3>2 DEF Agrees, StateAfter, SessionAfter, Final
    <3>4. \A r \in 1..Len(handlers') : ~Awaiting(r)'
      <4>1. \A r \in 1..Len(handlers) : ~Awaiting(r)
        BY <2>1, NobodyAwaits
      <4> QED BY <4>1 DEF Awaiting
    <3>5. Resting'
      BY <1>6, <3>1, <3>3, <3>4 DEF Resting
    <3> QED BY <1>5, <1>6, <2>2, <2>3, <2>5, <3>3, <3>5 DEF StateInv
  <2>7. CASE name \notin Final
    <3>1. name = "continued"
      BY <1>0, <2>7 DEF Final, Deferrable
    <3>2. adapter'.executionState = "running"
      BY <2>2, <3>1 DEF StateAfter
    <3>3. Over' <=> Over
      BY <1>1, <1>2, <2>4, <2>7 DEF Over, line
    <3>4. Running'
      BY <1>4, <1>6, <1>7, <3>3 DEF Running
    <3> QED BY <1>5, <1>6, <2>2, <2>3, <2>5, <3>2, <3>4 DEF StateInv
  <2> QED BY <2>6, <2>7
<1> QED BY <1>8, <1>9

(* News that is read leaves the states in agreement.                       *)
LEMMA NewsAgrees ==
    ASSUME AdapterInv, AgreementInv, AdapterInv', handleStdout,
           Head(stdout).name \in Deferrable
    PROVE  AgreementInv'
<1> DEFINE name == Head(stdout).name
<1>1. /\ handlers' = handlers /\ stdout # <<>> /\ stdout' = Tail(stdout)
      /\ UNCHANGED <<process, server>> /\ name \in Deferrable
  BY ReadFacts
<1>2. NewsTaken(name)
  BY NewsIs
<1>3. /\ adapter'.child = adapter.child /\ adapter'.waiting = adapter.waiting
      /\ adapter'.protocolSeq = adapter.protocolSeq /\ adapter'.stdin = adapter.stdin
      /\ adapter'.pending = adapter.pending /\ adapter'.microtasks = adapter.microtasks
  BY <1>2 DEF NewsTaken
<1>4. /\ TypeOK /\ stdout \in Seq(Lines) /\ Len(handlers) \in Nat
  BY DEF AdapterInv, TypeOK
<1>5. Head(stdout) \in Elements(stdout) /\ Elements(stdout') \subseteq Elements(stdout)
  BY <1>1, <1>4, TailFacts
<1>6. HandlersKept
  BY <1>1, <1>4 DEF HandlersKept
<1>7. ASSUME Connected PROVE Working'
  <2>1. Working
    BY <1>7 DEF AgreementInv
  <2>2. NumberInv'
    <3>1. /\ answering' < adapter.protocolSeq
          /\ \A l \in Elements(stdout') : l.seq < adapter.protocolSeq
      BY <1>1, <1>5, <2>1 DEF Working, NumberInv, server
    <3> QED BY <1>3, <1>6, <2>1, <3>1, RequestsKnown, NumberKept DEF Working
  <2>3. FailureInv'
    <3>1. \A t \in Elements(adapter'.microtasks) : t \in Elements(adapter.microtasks)
      BY <1>3
    <3>2. \A l \in Elements(stdout'), p \in Elements(adapter'.pending) :
              l \in Elements(stdout) /\ p \in Elements(adapter.pending)
      BY <1>3, <1>5
    <3>3. LaunchDone' => handlers'[1].ok
      BY <1>1, <2>1 DEF Working, FailureInv, LaunchDone
    <3>4. \A r \in Undone(handlers') : r \in Undone(handlers)
      BY <1>1
    <3> QED BY <1>6, <2>1, <3>1, <3>2, <3>3, <3>4, RequestsKnown, FailureKept DEF Working
  <2>4. LaunchDone /\ LaunchDone'
    <3>1. Unread
      BY <1>1, <1>5 DEF Unread
    <3> QED BY <1>1, <2>1, <3>1 DEF Working, LaunchDone
  <2>5. StateInv'
    <3>1. StateInv
      BY <2>1, <2>4 DEF Working
    <3> QED BY <1>1, <1>2, <3>1, NewsState
  <2> QED BY <1>3, <2>1, <2>2, <2>3, <2>4, <2>5 DEF Working
<1> QED BY <1>1, <1>3, <1>6, <1>7, InReach DEF Reachable

(* handleStdout leaves the states in agreement.                            *)
LEMMA StdoutAgrees ==
    ASSUME AdapterInv, AgreementInv, AdapterInv', handleStdout PROVE AgreementInv'
BY SettlesAgree, NewsAgrees

(* The adapter notices nothing of what the server does.                    *)
Unnoticed ==
    /\ handlers' = handlers
    /\ adapter'.child = adapter.child /\ adapter'.waiting = adapter.waiting
    /\ adapter'.protocolSeq = adapter.protocolSeq
    /\ adapter'.pending = adapter.pending /\ adapter'.microtasks = adapter.microtasks
    /\ adapter'.executionState = adapter.executionState
    /\ adapter'.terminated = adapter.terminated
    /\ adapter'.entryStoppedSent = adapter.entryStoppedSent
    /\ adapter'.deferrals = adapter.deferrals /\ adapter'.deferred = adapter.deferred

(* Taking a request.                                                       *)
LEMMA TakenIs ==
    ASSUME AdapterInv, Taken, handlers' = handlers
    PROVE  /\ Unnoticed /\ adapter'.stdin = Tail(adapter.stdin)
           /\ Head(adapter.stdin) \in Elements(adapter.stdin)
           /\ Head(adapter.stdin) \in Requests
<1> DEFINE q == adapter.stdin
           t == Tail(q)
           f == [adapter EXCEPT !.stdin = t]
<1>1. adapter \in Fields /\ q \in Seq(Requests) /\ q # <<>> /\ adapter' = f
  BY DEF AdapterInv, TypeOK, Fields, Requests, Taken, Take
<1>2. Head(q) \in Elements(q) /\ Head(q) \in Requests
  <2> HIDE DEF q
  <2> QED BY <1>1, TailFacts
<1> HIDE DEF t
<1>3. /\ f.stdin = t
      /\ f.child = adapter.child /\ f.waiting = adapter.waiting
      /\ f.protocolSeq = adapter.protocolSeq
      /\ f.pending = adapter.pending /\ f.microtasks = adapter.microtasks
      /\ f.executionState = adapter.executionState
      /\ f.terminated = adapter.terminated
      /\ f.entryStoppedSent = adapter.entryStoppedSent
      /\ f.deferrals = adapter.deferrals /\ f.deferred = adapter.deferred
  BY <1>1 DEF Fields
<1> HIDE DEF f
<1> QED BY <1>1, <1>2, <1>3, Zenon DEF Unnoticed, t

(* Leaving for ever is not among what it takes.                            *)
KeepsLeaving ==
    \A s \in Elements(adapter.stdin) :
        s.command \in Leaving => s \in Elements(adapter'.stdin)
Staying == adapter'.stdin = adapter.stdin
           \/ (Taken /\ Head(adapter.stdin).command \notin Leaving)

(* What the server does unnoticed need only keep Working.                  *)
LEMMA UnnoticedAgrees ==
    ASSUME AdapterInv, AgreementInv, AdapterInv', Unnoticed, Staying,
           Reachable' => Reachable, Connected => Working'
    PROVE  AgreementInv'
<1>1. HandlersKept
  <2>1. Len(handlers) \in Nat
    BY DEF AdapterInv, TypeOK
  <2> QED BY <2>1 DEF HandlersKept, Unnoticed
<1>2. KeepsLeaving
  <2>1. CASE adapter'.stdin = adapter.stdin
    BY <2>1 DEF KeepsLeaving
  <2>2. CASE Taken /\ Head(adapter.stdin).command \notin Leaving
    <3> DEFINE q == adapter.stdin
    <3>1. q \in Seq(Requests) /\ q # <<>>
      BY <2>2 DEF AdapterInv, TypeOK, Fields, Requests, Taken
    <3>2. adapter'.stdin = Tail(q)
      BY <2>2, TakenIs DEF Unnoticed
    <3> HIDE DEF q
    <3>3. Elements(q) = Elements(Tail(q)) \cup {Head(q)}
      BY <3>1, TailFacts
    <3> QED BY <2>2, <3>2, <3>3 DEF KeepsLeaving, q
  <2> QED BY <2>1, <2>2 DEF Staying
<1>3. \A r \in 1..Len(handlers') : r \in 1..Len(handlers)
  BY DEF Unnoticed
<1> QED BY <1>1, <1>2, <1>3, InReach DEF KeepsLeaving

(* A line the server may write.                                            *)
NewLine(l) ==
    /\ l.seq < adapter.protocolSeq
    /\ \A p \in Elements(adapter.pending) : l.seq = p.seq => l.ok \/ MayFail(p.request)

(* It does if its lines carry numbers that fit their requests.             *)
LEMMA UnnoticedWorks ==
    ASSUME AdapterInv, Working, Unnoticed, Staying,
           answering' < adapter.protocolSeq,
           \A l \in Elements(stdout') : l \in Elements(stdout) \/ NewLine(l),
           LaunchDone => StateInv', ~LaunchDone => ~Unread'
    PROVE  Working'
<1>1. HandlersKept
  <2>1. Len(handlers) \in Nat
    BY DEF AdapterInv, TypeOK
  <2> QED BY <2>1 DEF HandlersKept, Unnoticed
<1>2. Elements(adapter'.stdin) \subseteq Elements(adapter.stdin)
  <2>1. CASE Taken
    <3> DEFINE q == adapter.stdin
    <3>1. q \in Seq(Requests) /\ q # <<>>
      BY <2>1 DEF AdapterInv, TypeOK, Fields, Requests, Taken
    <3>2. adapter'.stdin = Tail(q)
      BY <2>1, TakenIs DEF Unnoticed
    <3> HIDE DEF q
    <3>3. Elements(q) = Elements(Tail(q)) \cup {Head(q)}
      BY <3>1, TailFacts
    <3> QED BY <3>2, <3>3 DEF q
  <2> QED BY <2>1 DEF Staying
<1>3. NumberInv'
  <2>1. \A l \in Elements(stdout') : l.seq < adapter.protocolSeq
    BY DEF Working, NumberInv, NewLine
  <2>2. /\ adapter'.protocolSeq = adapter.protocolSeq
        /\ Elements(adapter'.pending) \subseteq Elements(adapter.pending)
    BY DEF Unnoticed
  <2> QED BY <1>1, <1>2, <2>1, <2>2, RequestsKnown, NumberKept DEF Working
<1>4. FailureInv'
  <2>1. \A t \in Elements(adapter'.microtasks) : t \in Elements(adapter.microtasks)
    BY DEF Unnoticed
  <2>2. \A r : MayFail(r)' <=> MayFail(r)
    BY DEF Unnoticed, MayFail
  <2>3. ASSUME NEW l \in Elements(stdout'), NEW p \in Elements(adapter'.pending), l.seq = p.seq
        PROVE  \/ l \in Elements(stdout) /\ p \in Elements(adapter.pending)
               \/ l.ok \/ MayFail(p.request)'
    <3>1. p \in Elements(adapter.pending)
      BY <2>3 DEF Unnoticed
    <3>2. CASE NewLine(l)
      BY <2>2, <2>3, <3>1, <3>2 DEF NewLine
    <3> QED BY <2>3, <3>1, <3>2
  <2>4. LaunchDone' => handlers'[1].ok
    BY DEF Working, FailureInv, LaunchDone, Unnoticed
  <2>5. \A r \in Undone(handlers') : r \in Undone(handlers)
    BY DEF Unnoticed
  <2> QED BY <1>1, <2>1, <2>3, <2>4, <2>5, RequestsKnown, FailureKept DEF Working
<1>5. (LaunchDone' <=> LaunchDone) /\ adapter'.waiting = <<>>
  BY DEF LaunchDone, Unnoticed, Working
<1> QED BY <1>3, <1>4, <1>5 DEF Working

(* One line written, and none of the session.                              *)
LEMMA OneWritten ==
    ASSUME TypeOK, NEW x \in Lines, Write(<<x>>)
    PROVE  stdout' = Append(stdout, x) /\ Elements(stdout') = Elements(stdout) \cup {x}
<1> DEFINE q == stdout
<1>1. q \in Seq(Lines) /\ stdout' = q \o <<x>>
  BY DEF TypeOK, Write
<1> HIDE DEF q
<1>2. q \o <<x>> = Append(q, x)
  BY <1>1
<1>3. Elements(Append(q, x)) = Elements(q) \cup {x}
  BY <1>1, AppendFacts
<1> QED BY <1>1, <1>2, <1>3 DEF q

(* A line that is no news leaves the states in agreement.                  *)
LEMMA UnsaidAgrees ==
    ASSUME AdapterInv, AgreementInv, AdapterInv', Unnoticed, Staying, Unmoving,
           Reachable' => Reachable, session' = session, stopEvent' = stopEvent,
           Connected => answering' < adapter.protocolSeq,
           Unimportant,
           \A l \in Elements(stdout') : l \in Elements(stdout)
               \/ (l.name \notin Deferrable /\ (Connected => NewLine(l)))
    PROVE  AgreementInv'
<1>1. ASSUME Connected PROVE Working'
  <2>1. Working /\ TypeOK
    BY <1>1 DEF AgreementInv, AdapterInv
  <2>2. \A l \in Elements(stdout') : l \in Elements(stdout) \/ NewLine(l)
    BY <1>1
  <2>3. ASSUME LaunchDone PROVE StateInv'
    <3>1. StateInv
      BY <2>1, <2>3 DEF Working
    <3>2. SameState /\ adapter'.deferrals = adapter.deferrals
      BY DEF SameState, Unnoticed
    <3>3. SameNews
      BY <2>1, <3>1, <3>2, NewsKept DEF StateInv
    <3>4. SameMoves
      BY <2>1, <3>1, MovesKept DEF StateInv
    <3>5. adapter.executionState # "running" => \A r \in 1..Len(handlers') : ~Awaiting(r)'
      BY <3>1 DEF StateInv, Resting, Awaiting, Unnoticed
    <3> QED BY <3>1, <3>2, <3>3, <3>4, <3>5, StateKept
  <2>4. ASSUME ~LaunchDone PROVE ~Unread'
    <3>1. ~Unread
      BY <2>1, <2>4 DEF Working
    <3> QED BY <3>1 DEF Unread
  <2> QED BY <1>1, <2>1, <2>2, <2>3, <2>4, UnnoticedWorks
<1> QED BY <1>1, UnnoticedAgrees

(* What the server reads is a request of the adapter.                      *)
LEMMA ReadsRequest ==
    ASSUME AdapterInv, NEW command, Asked(command), Take, handlers' = handlers
    PROVE  /\ Taken /\ Unnoticed /\ adapter'.stdin = Tail(adapter.stdin)
           /\ Head(adapter.stdin).command = command /\ Seq1 \in Nat
           /\ adapter.stdin # <<>> /\ Head(adapter.stdin) \in Elements(adapter.stdin)
<1>1. Taken /\ Seq1 \in Nat
  BY AskedFacts DEF AdapterInv
<1>2. Unnoticed /\ adapter'.stdin = Tail(adapter.stdin)
      /\ Head(adapter.stdin) \in Elements(adapter.stdin)
  BY <1>1, TakenIs
<1> QED BY <1>1, <1>2 DEF Asked, Taken

(* What it writes.                                                         *)
LEMMA AnswerLine ==
    ASSUME NEW seq \in Nat, NEW ok \in BOOLEAN
    PROVE  /\ Answer(seq, ok) \in Lines /\ Answer(seq, ok).seq = seq
           /\ Answer(seq, ok).ok = ok /\ Answer(seq, ok).name \notin Deferrable
<1>1. Answer(seq, ok) \in Lines /\ Answer(seq, ok).name = "none"
  BY LineTypes
<1>2. Answer(seq, ok).seq = seq /\ Answer(seq, ok).ok = ok
  BY DEF Answer
<1> QED BY <1>1, <1>2, Zenon DEF Deferrable

(* The server grants what it was asked.                                    *)
LEMMA Accepts ==
    ASSUME NEW seq \in Nat, seq < adapter.protocolSeq PROVE NewLine(Answer(seq, TRUE))
<1> DEFINE ok == TRUE
           x == Answer(seq, ok)
<1>1. ok \in BOOLEAN /\ ok
  OBVIOUS
<1> HIDE DEF ok
<1>2. x.seq = seq /\ x.ok = ok
  BY <1>1, AnswerLine
<1> HIDE DEF x
<1>3. NewLine(x)
  BY <1>1, <1>2 DEF NewLine
<1> QED BY <1>3 DEF x, ok

(* An event carries no number, so it answers nothing.                      *)
LEMMA Announces ==
    ASSUME AdapterInv, NumberInv, NEW l \in Lines, l.name # "none" PROVE NewLine(l)
<1>1. answering \in Nat /\ answering < adapter.protocolSeq /\ adapter.protocolSeq \in Nat
  BY DEF AdapterInv, TypeOK, Fields, NumberInv
<1>2. l.seq = 0 /\ l.ok
  BY LineFacts
<1> QED BY <1>1, <1>2 DEF NewLine

(* An answer to the request that has just been read.                       *)
LEMMA AnswersRequest ==
    ASSUME AdapterInv, Working, NEW command, Asked(command), Take, handlers' = handlers,
           NEW ok \in BOOLEAN, ok \/ command \notin Moves
    PROVE  Seq1 < adapter.protocolSeq /\ NewLine(Answer(Seq1, ok))
<1> DEFINE s == Head(adapter.stdin)
           x == Answer(Seq1, ok)
<1>1. s.command = command /\ Seq1 \in Nat /\ s \in Elements(adapter.stdin) /\ Seq1 = s.seq
  BY ReadsRequest DEF Seq1
<1>2. x.seq = Seq1 /\ x.ok = ok
  BY <1>1, AnswerLine
<1> HIDE DEF s, x
<1>3. Seq1 < adapter.protocolSeq
  BY <1>1 DEF Working, NumberInv
<1>4. ASSUME NEW p \in Elements(adapter.pending), x.seq = p.seq
      PROVE  x.ok \/ MayFail(p.request)
  <2>1. s.command = SentAs(handlers[p.request].command)
    BY <1>1, <1>2, <1>4 DEF Working, NumberInv
  <2>2. command \notin Moves => MayFail(p.request)
    BY <1>1, <2>1 DEF SentAs, MayFail, Moves, Steps
  <2> QED BY <1>2, <2>2, Zenon
<1>5. NewLine(x)
  BY <1>2, <1>3, <1>4 DEF NewLine
<1> QED BY <1>3, <1>5 DEF x

(* The server starts, or does not.                                         *)
LEMMA StartsAgree ==
    ASSUME AdapterInv, AgreementInv, AdapterInv', ServerStarts PROVE AgreementInv'
<1>1. CASE process' = "exited"
  BY <1>1, OutOfReach DEF Reachable
<1>2. CASE process' = "up" /\ Write(<<Line("ready")>>)
  <2> DEFINE x == Line("ready")
  <2>1. x \in Lines /\ x.name = "ready"
    BY LineTypes
  <2>2. Write(<<x>>)
    BY <1>2
  <2> HIDE DEF x
  <2>3. stdout' = Append(stdout, x) /\ Elements(stdout') = Elements(stdout) \cup {x}
    BY <2>1, <2>2, OneWritten DEF AdapterInv
  <2>4. adapter' = adapter /\ handlers' = handlers /\ UNCHANGED server /\ process = "starting"
    BY DEF ServerStarts
  <2>5. Unnoticed /\ Staying /\ Unmoving
    BY <2>4 DEF Unnoticed, Staying, Unmoving
  <2>6. session' = session /\ stopEvent' = stopEvent /\ answering' = answering
    BY <2>4 DEF server
  <2>7. x.name \notin Deferrable
    BY <2>1 DEF Deferrable
  <2>8. Unimportant
    BY <2>1, <2>3, <2>7 DEF Unimportant
  <2>9. ASSUME Connected PROVE answering' < adapter.protocolSeq /\ NewLine(x)
    <3>1. NumberInv
      BY <2>9 DEF AgreementInv, Working
    <3> QED BY <2>1, <2>6, <3>1, Announces DEF NumberInv
  <2>10. Reachable' => Reachable
    BY <2>4 DEF Reachable
  <2> QED BY <2>3, <2>5, <2>6, <2>7, <2>8, <2>9, <2>10, UnsaidAgrees
<1> QED BY <1>1, <1>2 DEF ServerStarts

(* A request that moves nothing is answered.                               *)
LEMMA AnswerAgrees ==
    ASSUME AdapterInv, AgreementInv, AdapterInv', NEW command, command \notin Leaving,
           command \notin Moves, NEW ok \in BOOLEAN, Asked(command), Take,
           Write(<<Answer(Seq1, ok)>>), UNCHANGED <<handlers, process, server>>
    PROVE  AgreementInv'
<1> DEFINE x == Answer(Seq1, ok)
<1>1. /\ Taken /\ Unnoticed /\ adapter'.stdin = Tail(adapter.stdin)
      /\ Head(adapter.stdin).command = command /\ Seq1 \in Nat /\ adapter.stdin # <<>>
  BY ReadsRequest
<1>2. x \in Lines /\ x.name \notin Deferrable
  BY <1>1, AnswerLine
<1>3. stdout' = Append(stdout, x) /\ Elements(stdout') = Elements(stdout) \cup {x}
  BY <1>2, OneWritten DEF AdapterInv
<1>4. ASSUME Connected PROVE answering' < adapter.protocolSeq /\ NewLine(x)
  <2>1. Working
    BY <1>4 DEF AgreementInv
  <2>2. NewLine(x)
    BY <2>1, AnswersRequest
  <2> HIDE DEF x
  <2> QED BY <2>1, <2>2 DEF Working, NumberInv, server
<1> HIDE DEF x
<1>5. Staying /\ Unmoving /\ Unimportant
  BY <1>1, <1>2, <1>3 DEF Staying, Unmoving, Unimportant
<1>6. session' = session /\ stopEvent' = stopEvent /\ (Reachable' => Reachable)
  BY <1>1 DEF server, Reachable, Unnoticed
<1> QED BY <1>1, <1>2, <1>3, <1>4, <1>5, <1>6, UnsaidAgrees

(* ServerInspects leaves the states in agreement.                          *)
LEMMA InspectsAgree ==
    ASSUME AdapterInv, AgreementInv, AdapterInv', ServerInspects PROVE AgreementInv'
<1>1. PICK command \in {"inspect", "initialize"} : Asked(command)
  BY DEF ServerInspects
<1> DEFINE ok == (session # "Running")
<1>2. ok \in BOOLEAN
  OBVIOUS
<1>3. Take /\ Write(<<Answer(Seq1, ok)>>) /\ UNCHANGED <<handlers, process, server>>
  BY DEF ServerInspects
<1>4. command \notin Leaving /\ command \notin Moves
  BY DEF Leaving, Moves, Steps
<1> HIDE DEF ok
<1> QED BY <1>1, <1>2, <1>3, <1>4, AnswerAgrees

(* A move asked for finds the session where the adapter left it.           *)
LEMMA MoveFinds ==
    ASSUME AdapterInv, AgreementInv, Connected, NEW command \in Moves, Asked(command)
    PROVE  /\ Working /\ LaunchDone /\ StateInv /\ MoveAsked /\ NoNews
           /\ adapter.executionState = "running" /\ CanExecute /\ Asks(1)
           /\ adapter.stdin # <<>>
<1> DEFINE q == adapter.stdin
<1>1. q \in Seq(Requests) /\ q # <<>> /\ Head(q).command = command
  BY DEF AdapterInv, TypeOK, Fields, Requests, Asked
<1>2. 1 \in 1..Len(q) /\ q[1].command = command
  <2> HIDE DEF q
  <2> QED BY <1>1, TailFacts
<1>3. MoveAsked /\ Asks(1)
  BY <1>2 DEF MoveAsked, Asks
<1>4. LaunchDone
  <2>1. command # "initialize"
    BY DEF Moves, Steps
  <2> QED BY <2>1, AskedFirst DEF AdapterInv, LaunchDone
<1>5. Working /\ StateInv
  BY <1>4 DEF AgreementInv, Working
<1>6. adapter.executionState = "running"
  BY <1>3, <1>5 DEF StateInv, Resting
<1>7. NoNews /\ CanExecute
  BY <1>3, <1>5, <1>6 DEF StateInv, Running, CanExecute
<1> QED BY <1>1, <1>3, <1>4, <1>5, <1>6, <1>7

(* ServerRefuses: a connected client's move is never refused.              *)
LEMMA RefusesAgree ==
    ASSUME AdapterInv, AgreementInv, AdapterInv', ServerRefuses PROVE AgreementInv'
<1> DEFINE ok == FALSE
<1>1. /\ ok \in BOOLEAN /\ Take /\ Write(<<Answer(Seq1, ok)>>)
      /\ UNCHANGED <<handlers, process, server>>
  BY DEF ServerRefuses
<1> HIDE DEF ok
<1>2. CASE Asked("pause")
  <2>1. "pause" \notin Leaving /\ "pause" \notin Moves
    BY DEF Leaving, Moves, Steps
  <2> QED BY <1>1, <1>2, <2>1, AnswerAgrees
<1>3. ASSUME NEW command \in Moves, Asked(command), ~CanExecute PROVE AgreementInv'
  <2>1. ~Connected
    BY <1>3, MoveFinds
  <2>2. /\ Unnoticed /\ Taken /\ Head(adapter.stdin).command = command
    BY <1>1, <1>3, ReadsRequest
  <2>3. Staying
    BY <2>2 DEF Staying, Leaving, Moves, Steps
  <2>4. Reachable' => Reachable
    BY <1>1, <2>2 DEF Reachable, Unnoticed
  <2> QED BY <2>1, <2>2, <2>3, <2>4, UnnoticedAgrees
<1> QED BY <1>2, <1>3 DEF ServerRefuses, Moves

(* A pause is accepted, and answered when the run has seen it.             *)
LEMMA TakesPauseAgrees ==
    ASSUME AdapterInv, AgreementInv, AdapterInv', ServerTakesPause PROVE AgreementInv'
<1>1. /\ Asked("pause") /\ Take /\ answering' = Seq1
      /\ UNCHANGED <<handlers, process, stdout, session, stopEvent>>
  BY DEF ServerTakesPause
<1>2. /\ Taken /\ Unnoticed /\ adapter'.stdin = Tail(adapter.stdin)
      /\ Head(adapter.stdin).command = "pause" /\ Seq1 \in Nat /\ adapter.stdin # <<>>
  BY <1>1, ReadsRequest
<1>3. Staying /\ Unmoving /\ Unimportant
  BY <1>1, <1>2 DEF Staying, Unmoving, Unimportant, Leaving, Moves, Steps
<1>4. ASSUME Connected PROVE answering' < adapter.protocolSeq
  <2> DEFINE ok == TRUE
  <2>1. ok \in BOOLEAN /\ ok
    OBVIOUS
  <2> HIDE DEF ok
  <2>2. Working
    BY <1>4 DEF AgreementInv
  <2> QED BY <1>1, <2>1, <2>2, AnswersRequest
<1>5. session' = session /\ stopEvent' = stopEvent /\ (Reachable' => Reachable)
  BY <1>1, <1>2 DEF Reachable, Unnoticed
<1>6. \A l \in Elements(stdout') : l \in Elements(stdout)
  BY <1>1
<1> QED BY <1>2, <1>3, <1>4, <1>5, <1>6, UnsaidAgrees

(* ServerAnswersPause leaves the states in agreement.                      *)
LEMMA AnswersPauseAgrees ==
    ASSUME AdapterInv, AgreementInv, AdapterInv', ServerAnswersPause PROVE AgreementInv'
<1> DEFINE x == Answer(answering, TRUE)
<1>1. /\ Write(<<x>>) /\ answering' = 0
      /\ UNCHANGED <<adapter, handlers, process, session, stopEvent>>
  BY DEF ServerAnswersPause
<1>2. answering \in Nat /\ adapter.protocolSeq \in Nat
  BY DEF AdapterInv, TypeOK, Fields
<1>3. x \in Lines /\ x.name \notin Deferrable
  BY <1>2, LineTypes DEF Deferrable
<1>4. stdout' = Append(stdout, x) /\ Elements(stdout') = Elements(stdout) \cup {x}
  BY <1>1, <1>3, OneWritten DEF AdapterInv
<1>5. ASSUME Connected PROVE answering' < adapter.protocolSeq /\ NewLine(x)
  <2>1. answering < adapter.protocolSeq
    BY <1>5 DEF AgreementInv, Working, NumberInv
  <2>2. NewLine(x)
    BY <1>2, <2>1, Accepts
  <2> HIDE DEF x
  <2> QED BY <1>1, <1>2, <2>1, <2>2
<1> HIDE DEF x
<1>6. Unnoticed /\ Staying /\ Unmoving /\ Unimportant
  BY <1>1, <1>3, <1>4 DEF Unnoticed, Staying, Unmoving, Unimportant
<1>7. session' = session /\ stopEvent' = stopEvent /\ (Reachable' => Reachable)
  BY <1>1 DEF Reachable
<1> QED BY <1>3, <1>4, <1>5, <1>6, <1>7, UnsaidAgrees

(* The only move is read: no other is asked for.                           *)
LEMMA MoveRead ==
    ASSUME TypeOK, OneMove, adapter.stdin # <<>>, Asks(1),
           adapter'.stdin = Tail(adapter.stdin)
    PROVE  ~MoveAsked' /\ OneMove'
<1> DEFINE q == adapter.stdin
           t == Tail(q)
<1>1. q \in Seq(Requests) /\ q # <<>>
  BY DEF TypeOK, Fields, Requests
<1>2. /\ 1 \in 1..Len(q) /\ Len(q) \in Nat /\ Len(t) \in Nat
      /\ \A i \in 1..Len(t) : i + 1 \in 1..Len(q) /\ t[i] = q[i + 1]
  BY <1>1, TailFacts
<1> HIDE DEF t, q
<1>3. adapter'.stdin = t /\ adapter.stdin = q
  BY DEF t, q
<1>4. ASSUME NEW i \in 1..Len(t), t[i].command \in Moves PROVE FALSE
  <2>1. i + 1 \in 1..Len(adapter.stdin) /\ Asks(i + 1) /\ 1 \in 1..Len(adapter.stdin)
    BY <1>2, <1>3, <1>4 DEF Asks
  <2>2. i + 1 = 1
    BY <2>1 DEF OneMove
  <2> QED BY <1>2, <2>2
<1>5. \A i \in 1..Len(adapter'.stdin) : adapter'.stdin[i].command \notin Moves
  BY <1>3, <1>4
<1> QED BY <1>5 DEF MoveAsked, OneMove, Asks

(* What is written after lines that end no run.                            *)
LEMMA NewsWritten ==
    ASSUME TypeOK, NEW lines \in Seq(Lines), Write(lines), lines # <<>>,
           \A i \in 1..Len(stdout) : stdout[i].name \notin Final,
           \A i \in 1..Len(lines) : lines[i].name \in Final => i = Len(lines)
    PROVE  /\ Elements(stdout') = Elements(stdout) \cup Elements(lines)
           /\ Len(stdout') \in Nat
           /\ \A i \in 1..Len(stdout') : stdout'[i].name \in Final =>
                  i = Len(stdout') /\ stdout'[i] = lines[Len(lines)]
           /\ lines[Len(lines)] \in Elements(stdout')
<1> DEFINE q == stdout
           t == q \o lines
<1>1. q \in Seq(Lines) /\ stdout' = t
  BY DEF TypeOK, Write
<1>2. /\ Len(t) = Len(q) + Len(lines) /\ Len(q) \in Nat /\ Len(lines) \in Nat
      /\ \A i \in 1..Len(t) : (i \in 1..Len(q) /\ t[i] = q[i])
                              \/ (i - Len(q) \in 1..Len(lines) /\ t[i] = lines[i - Len(q)])
      /\ Elements(t) = Elements(q) \cup Elements(lines)
  <2> HIDE DEF q
  <2> QED BY <1>1, ConcatFacts
<1>3. Len(lines) \in 1..Len(lines)
  <2>1. Len(lines) # 0
    OBVIOUS
  <2> QED BY <1>2, <2>1
<1> HIDE DEF t, q
<1>4. stdout' = t /\ stdout = q
  BY <1>1 DEF q
<1>5. ASSUME NEW i \in 1..Len(t), t[i].name \in Final
      PROVE  i = Len(t) /\ t[i] = lines[Len(lines)]
  <2>1. i - Len(q) \in 1..Len(lines) /\ t[i] = lines[i - Len(q)]
    BY <1>2, <1>4, <1>5
  <2>2. i - Len(q) = Len(lines)
    BY <1>5, <2>1
  <2> QED BY <1>2, <2>1, <2>2
<1>6. lines[Len(lines)] \in Elements(lines)
  BY <1>3 DEF Elements
<1> QED BY <1>2, <1>4, <1>5, <1>6

(* continue and step: the answer, and what became of the session.          *)
LEMMA MoveAgrees ==
    ASSUME AdapterInv, AgreementInv, AdapterInv', NEW command \in Moves, Asked(command),
           Take, UNCHANGED <<handlers, process, stopEvent, answering>>, Joined,
           NEW name \in Deferrable, Write(<<Answer(Seq1, TRUE), Line(name)>>),
           IF name \in Final THEN session' = SessionAfter(name) ELSE session' = "Running"
    PROVE  AgreementInv'
<1> DEFINE x == Answer(Seq1, TRUE)
           y == Line(name)
           lines == <<x, y>>
<1>1. /\ Taken /\ Unnoticed /\ adapter'.stdin = Tail(adapter.stdin)
      /\ Head(adapter.stdin).command = command /\ Seq1 \in Nat /\ adapter.stdin # <<>>
  BY ReadsRequest
<1>2. Staying
  BY <1>1 DEF Staying, Leaving, Moves, Steps
<1>3. x \in Lines /\ x.name \notin Deferrable /\ y \in Lines /\ y.name = name
  BY <1>1, LineTypes DEF Deferrable
<1> DEFINE ok == TRUE
<1>4. ok \in BOOLEAN /\ ok
  OBVIOUS
<1>5. Write(lines)
  OBVIOUS
<1> HIDE DEF x, y
<1>6. /\ lines \in Seq(Lines) /\ Len(lines) = 2 /\ lines[1] = x /\ lines[2] = y
      /\ lines # <<>> /\ Elements(lines) = {x, y}
  BY <1>3, FewElements
<1> HIDE DEF lines
<1>7. \A i \in 1..Len(lines) : lines[i].name \in Final => i = Len(lines)
  BY <1>3, <1>6, FinalNews
<1>8. ASSUME Connected PROVE Working'
  <2>1. /\ Working /\ LaunchDone /\ StateInv /\ MoveAsked /\ NoNews
        /\ adapter.executionState = "running" /\ Asks(1)
    BY <1>8, MoveFinds
  <2>2. NewLine(x) /\ NewLine(y)
    <3>1. NewLine(Answer(Seq1, ok))
      <4> HIDE DEF ok
      <4> QED BY <1>4, <2>1, AnswersRequest
    <3>2. NumberInv /\ y.name # "none"
      BY <1>3, <2>1 DEF Working, Deferrable
    <3> QED BY <1>3, <3>1, <3>2, Announces DEF x
  <2>3. \A i \in 1..Len(stdout) : stdout[i].name \notin Deferrable
    BY <2>1 DEF NoNews, Unread, Elements
  <2>4. /\ Elements(stdout') = Elements(stdout) \cup {x, y}
        /\ Len(stdout') \in Nat
        /\ \A i \in 1..Len(stdout') : stdout'[i].name \in Final =>
               i = Len(stdout') /\ stdout'[i] = y
        /\ y \in Elements(stdout')
    <3>1. \A i \in 1..Len(stdout) : stdout[i].name \notin Final
      BY <2>3, FinalNews
    <3>2. TypeOK
      BY DEF AdapterInv
    <3> QED BY <1>5, <1>6, <1>7, <3>1, <3>2, NewsWritten
  <2>5. ~MoveAsked' /\ OneMove'
    BY <1>1, <2>1, MoveRead DEF AdapterInv, StateInv
  <2>6. adapter'.deferred = <<>> /\ Len(adapter'.deferred) = 0 /\ Joined'
    BY <1>1, <2>1 DEF Unnoticed, NoNews, Joined
  <2>7. NewsInv'
    <3>1. \A i \in 1..Len(adapter'.deferred) : FALSE
      BY <2>6
    <3>2. ASSUME NEW i \in 1..Len(stdout'), stdout'[i].name \in Final
          PROVE  /\ session' = SessionAfter(stdout'[i].name)
                 /\ \A j \in 1..Len(stdout') : stdout'[j].name \in Deferrable => j <= i
      <4>1. i = Len(stdout') /\ stdout'[i].name = name
        BY <1>3, <2>4, <3>2
      <4>2. session' = SessionAfter(name)
        BY <3>2, <4>1
      <4> QED BY <2>4, <4>1, <4>2
    <3> QED BY <2>6, <3>1, <3>2 DEF NewsInv, IsFinal
  <2>8. Over' \/ session' = "Running"
    <3>1. CASE name \in Final
      BY <1>3, <2>4, <3>1 DEF Over
    <3> QED BY <3>1
  <2>9. StateInv'
    <3>1. Running'
      BY <2>5, <2>8 DEF Running
    <3> QED BY <1>1, <2>1, <2>5, <2>6, <2>7, <3>1 DEF StateInv, Unnoticed
  <2>10. answering' < adapter.protocolSeq
    BY <2>1 DEF Working, NumberInv
  <2> QED BY <1>1, <1>2, <2>1, <2>2, <2>4, <2>9, <2>10, UnnoticedWorks
<1>9. Reachable' => Reachable
  BY <1>1 DEF Reachable, Unnoticed
<1> QED BY <1>1, <1>2, <1>8, <1>9, UnnoticedAgrees

(* ServerContinues: the move is taken and the session runs.                *)
LEMMA ContinuesAgree ==
    ASSUME AdapterInv, AgreementInv, AdapterInv', ServerContinues PROVE AgreementInv'
<1>1. "continue" \in Moves /\ "continued" \in Deferrable /\ "continued" \notin Final
  BY DEF Moves, Deferrable, Final
<1>2. /\ Asked("continue") /\ Take /\ UNCHANGED <<handlers, process, stopEvent, answering>>
      /\ Joined /\ Write(<<Answer(Seq1, TRUE), Line("continued")>>) /\ session' = "Running"
  BY DEF ServerContinues
<1> QED BY <1>1, <1>2, MoveAgrees

(* How runs and steps end.                                                 *)
LEMMA OutcomeIs ==
    ASSUME NEW o \in Outcomes PROVE o[2] \in Final /\ o[1] = SessionAfter(o[2])
BY DEF Outcomes, Final, SessionAfter

(* ServerSteps: the move is taken, and its outcome is on its way.          *)
LEMMA StepsAgree ==
    ASSUME AdapterInv, AgreementInv, AdapterInv', ServerSteps PROVE AgreementInv'
<1>1. PICK command \in Steps : Asked(command)
  BY DEF ServerSteps
<1>2. PICK o \in Outcomes :
          session' = o[1] /\ Write(<<Answer(Seq1, TRUE), Line(o[2])>>)
  BY DEF ServerSteps
<1>3. /\ Take /\ UNCHANGED <<handlers, process, stopEvent, answering>> /\ Joined
  BY DEF ServerSteps
<1>4. /\ o[2] \in Final /\ o[2] \in Deferrable /\ session' = SessionAfter(o[2])
      /\ command \in Moves
  BY <1>2, OutcomeIs, FinalNews DEF Moves
<1> DEFINE name == o[2]
<1>5. /\ name \in Final /\ name \in Deferrable /\ session' = SessionAfter(name)
      /\ Write(<<Answer(Seq1, TRUE), Line(name)>>)
  BY <1>2, <1>4
<1> HIDE DEF name
<1> QED BY <1>1, <1>3, <1>4, <1>5, MoveAgrees

(* A session that runs is believed to run, and nothing is said of its end. *)
LEMMA Runs ==
    ASSUME AdapterInv, AgreementInv, Connected, session = "Running" \/ ~Joined
    PROVE  /\ Working /\ LaunchDone /\ StateInv /\ adapter.executionState = "running"
           /\ ~MoveAsked
           /\ \A i \in 1..Len(adapter.deferred) : adapter.deferred[i] \notin Final
           /\ \A i \in 1..Len(stdout) : stdout[i].name \notin Final
<1>1. LaunchDone
  BY DEF AdapterInv, LaunchInv, LaunchDone
<1>2. Working /\ StateInv
  BY <1>1 DEF AgreementInv, Working
<1>3. ~(NoNews /\ session \in {"Ready", "Paused", "Error", "Finished"})
  BY DEF NoNews
<1>4. adapter.executionState = "running"
  BY <1>2, <1>3 DEF StateInv, Resting, Agrees
<1>5. ~MoveAsked
  BY <1>2, <1>3, <1>4 DEF StateInv, Running
<1>6. \A name : ~(IsFinal(name) /\ Joined)
  BY DEF IsFinal, Final, SessionAfter
<1> QED BY <1>1, <1>2, <1>4, <1>5, <1>6 DEF StateInv, NewsInv

(* RunEnds: the session stops, and only the stop event knows.              *)
LEMMA EndsRun ==
    ASSUME AdapterInv, AgreementInv, AdapterInv', RunEnds PROVE AgreementInv'
<1>1. PICK o \in Outcomes : session' = o[1] /\ stopEvent' = Line(o[2])
  BY DEF RunEnds
<1>2. session = "Running" /\ UNCHANGED <<adapter, handlers, process, stdout, answering>>
  BY DEF RunEnds
<1> DEFINE name == o[2]
<1>3. /\ name \in Final /\ session' = SessionAfter(name)
      /\ stopEvent'.name = name
  BY <1>1, OutcomeIs, FinalNews, LineTypes
<1> HIDE DEF name
<1>4. Unnoticed /\ Staying
  BY <1>2 DEF Unnoticed, Staying
<1>5. ~Joined'
  <2>1. NoLine.name = "none"
    BY LineTypes
  <2> QED BY <1>3, <2>1 DEF Joined, Final
<1>6. ASSUME Connected PROVE Working'
  <2>1. /\ Working /\ LaunchDone /\ StateInv /\ adapter.executionState = "running"
        /\ ~MoveAsked
        /\ \A i \in 1..Len(adapter.deferred) : adapter.deferred[i] \notin Final
        /\ \A i \in 1..Len(stdout) : stdout[i].name \notin Final
    BY <1>2, <1>6, Runs
  <2>2. NewsInv'
    BY <1>2, <1>3, <2>1 DEF NewsInv, IsFinal
  <2>3. Running'
    BY <1>2, <1>5, <2>1 DEF Running, MoveAsked, Asks, Over
  <2>4. StateInv'
    BY <1>2, <2>1, <2>2, <2>3 DEF StateInv, OneMove, Asks
  <2>5. answering' < adapter.protocolSeq
    BY <1>2, <2>1 DEF Working, NumberInv
  <2> QED BY <1>2, <1>4, <2>1, <2>4, <2>5, UnnoticedWorks
<1>7. Reachable' => Reachable
  BY <1>2 DEF Reachable
<1> QED BY <1>4, <1>6, <1>7, UnnoticedAgrees

(* RunReports: the stop event becomes the last line on its way.            *)
LEMMA ReportsRun ==
    ASSUME AdapterInv, AgreementInv, AdapterInv', RunReports PROVE AgreementInv'
<1>1. /\ ~Joined /\ Write(<<stopEvent>>) /\ stopEvent' = NoLine
      /\ UNCHANGED <<adapter, handlers, process, session, answering>>
  BY DEF RunReports, Joined
<1> DEFINE x == stopEvent
           lines == <<x>>
<1>2. x \in Lines
  BY <1>1 DEF AdapterInv, TypeOK, Joined
<1>3. Write(lines)
  BY <1>1
<1> HIDE DEF x
<1>4. /\ lines \in Seq(Lines) /\ Len(lines) = 1 /\ lines[1] = x
      /\ lines # <<>> /\ Elements(lines) = {x}
  BY <1>2, FewElements
<1> HIDE DEF lines
<1>5. \A i \in 1..Len(lines) : lines[i].name \in Final => i = Len(lines)
  BY <1>4
<1>6. Unnoticed /\ Staying /\ Joined'
  BY <1>1 DEF Unnoticed, Staying, Joined, NoLine, Line
<1>7. ASSUME Connected PROVE Working'
  <2>1. /\ Working /\ LaunchDone /\ StateInv /\ adapter.executionState = "running"
        /\ ~MoveAsked
        /\ \A i \in 1..Len(adapter.deferred) : adapter.deferred[i] \notin Final
        /\ \A i \in 1..Len(stdout) : stdout[i].name \notin Final
    BY <1>1, <1>7, Runs
  <2>2. x.name \in Final /\ session = SessionAfter(x.name)
    BY <1>1, <2>1 DEF StateInv, NewsInv, IsFinal, x
  <2>3. NewLine(x)
    <3>1. NumberInv /\ x.name # "none"
      BY <2>1, <2>2 DEF Working, Final
    <3> QED BY <1>2, <3>1, Announces
  <2>4. /\ Elements(stdout') = Elements(stdout) \cup {x}
        /\ Len(stdout') \in Nat
        /\ \A i \in 1..Len(stdout') : stdout'[i].name \in Final =>
               i = Len(stdout') /\ stdout'[i] = x
        /\ x \in Elements(stdout')
    <3>1. TypeOK
      BY DEF AdapterInv
    <3> QED BY <1>3, <1>4, <1>5, <2>1, <3>1, NewsWritten
  <2>5. NewsInv'
    <3>1. ASSUME NEW i \in 1..Len(stdout'), stdout'[i].name \in Final
          PROVE  /\ session = SessionAfter(stdout'[i].name)
                 /\ \A j \in 1..Len(stdout') : stdout'[j].name \in Deferrable => j <= i
      BY <2>2, <2>4, <3>1
    <3> QED BY <1>1, <1>6, <2>1, <3>1 DEF NewsInv, IsFinal
  <2>6. Running'
    <3>1. Over'
      BY <2>2, <2>4 DEF Over
    <3> QED BY <1>1, <2>1, <3>1 DEF Running, MoveAsked, Asks
  <2>7. StateInv'
    BY <1>1, <2>1, <2>5, <2>6 DEF StateInv, OneMove, Asks
  <2>8. answering' < adapter.protocolSeq
    BY <1>1, <2>1 DEF Working, NumberInv
  <2> QED BY <1>6, <2>1, <2>3, <2>4, <2>7, <2>8, UnnoticedWorks
<1>8. Reachable' => Reachable
  BY <1>1 DEF Reachable
<1> QED BY <1>6, <1>7, <1>8, UnnoticedAgrees

(* Every action of the server leaves the states in agreement.              *)
LEMMA ServerAgrees ==
    ASSUME AdapterInv, AgreementInv, AdapterInv', Server PROVE AgreementInv'
BY StartsAgree, InspectsAgree, RefusesAgree, ContinuesAgree, StepsAgree,
   TakesPauseAgrees, AnswersPauseAgrees, EndsRun, ReportsRun, EndsAgree DEF Server

(* Every step leaves the states in agreement.                              *)
LEMMA StepAgrees ==
    ASSUME AdapterInv, AgreementInv, AdapterInv', Next PROVE AgreementInv'
<1>1. CASE Client
  BY <1>1, ConfigurationAgrees, InspectAgrees, ExecutionAgrees, DisconnectAgrees,
     StopsAgree DEF Client, Leaving
<1>2. CASE Callbacks
  BY <1>2, StdoutAgrees, EndsAgree, StopsAgree DEF Callbacks
<1> QED BY <1>1, <1>2, ContinueAgrees, StopsAgree, ServerAgrees, EndsAgree DEF Next

(* They agree at first.                                                    *)
LEMMA AgreesAtFirst == Init => AgreementInv
<1> SUFFICES ASSUME Init PROVE AgreementInv
  OBVIOUS
<1>1. /\ handlers = <<[command |-> "launch", stage |-> "ready", ok |-> TRUE,
                      previous |-> "created"]>>
      /\ stdout = <<>> /\ answering = 0
      /\ adapter.pending = <<>> /\ adapter.stdin = <<>> /\ adapter.microtasks = <<>>
      /\ adapter.waiting = <<>> /\ adapter.protocolSeq = 1
  BY DEF Init
<1>2. Len(handlers) = 1 /\ handlers[1].command = "launch" /\ handlers[1].stage = "ready"
  BY <1>1
<1>3. /\ Elements(stdout) = {} /\ Elements(adapter.pending) = {}
      /\ Elements(adapter.stdin) = {} /\ Elements(adapter.microtasks) = {}
  BY <1>1, FewElements
<1>4. NumberInv
  BY <1>1, <1>3 DEF NumberInv
<1>5. ~LaunchDone /\ ~Unread
  BY <1>2, <1>3 DEF LaunchDone, Unread
<1>6. FailureInv
  <2>1. \A r \in Undone(handlers) : r = 1
    BY <1>2 DEF Undone
  <2> QED BY <1>2, <1>3, <1>5, <2>1 DEF FailureInv
<1>7. Working
  BY <1>1, <1>4, <1>5, <1>6 DEF Working
<1>8. \A r \in 1..Len(handlers) : handlers[r].command \notin Leaving
  BY <1>2 DEF Leaving
<1> QED BY <1>7, <1>8 DEF AgreementInv, LeavingInv, Connected

(* The invariants say what StatesAgree asks for.                           *)
LEMMA QuietAgrees == ASSUME AdapterInv, AgreementInv PROVE StatesAgree
<1> SUFFICES ASSUME Quiet
             PROVE  adapter.executionState =
                        CASE session \in {"Ready", "Paused"} -> "paused"
                          [] session = "Running"  -> "running"
                          [] session = "Error"    -> "error"
                          [] session = "Finished" -> "terminated"
  BY DEF StatesAgree
<1>1. /\ adapter.microtasks = <<>> /\ adapter.pending = <<>> /\ adapter.stdin = <<>>
      /\ stdout = <<>> /\ Joined /\ process = "up" /\ adapter.child
      /\ handlers[1].stage = "done"
  BY DEF Quiet, Idle, SetUp
<1>2. Elements(adapter.stdin) = {} /\ Elements(stdout) = {} /\ Len(adapter.stdin) = 0
  BY <1>1, FewElements
<1>3. Connected
  BY <1>1, <1>2 DEF AgreementInv, LeavingInv, Reachable
<1>4. Working /\ StateInv
  BY <1>1, <1>3 DEF AgreementInv, Working, LaunchDone
<1>5. Undone(handlers) = {}
  <2>1. Queued(adapter) = {} /\ Pending(adapter) = {} /\ Exiting(adapter) = {}
    BY <1>1, <1>4, NothingQueued DEF Working, Queued, Pending, Exiting
  <2>2. ~adapter.ready
    BY <1>1 DEF AdapterInv, LaunchInv
  <2> QED BY <2>1, <2>2 DEF AdapterInv, PromiseInv, Promised, Launching
<1>6. adapter.deferrals = 0
  <2>1. {r \in 1..Len(handlers) : Awaiting(r)} = {}
    BY <1>5 DEF Undone, Awaiting
  <2> QED BY <2>1, FS_EmptySet DEF AdapterInv, DeferralInv
<1>7. adapter.deferred = <<>>
  BY <1>4, <1>6 DEF StateInv
<1>8. ~Over /\ ~MoveAsked
  BY <1>1, <1>2, <1>7, FewElements DEF Over, MoveAsked
<1>9. CASE adapter.executionState = "running"
  <2>1. session = "Running"
    BY <1>4, <1>8, <1>9 DEF StateInv, Running
  <2> QED BY <1>9, <2>1
<1>10. CASE adapter.executionState # "running"
  <2>1. Agrees
    BY <1>4, <1>10 DEF StateInv, Resting
  <2> QED BY <1>10, <2>1 DEF Agrees
<1> QED BY <1>9, <1>10

(* When nothing is on its way, adapter and server are in the same state:   *)
(* nothing the adapter refuses is refused for ever, and nothing it sends is*)
(* sent in vain.                                                           *)
THEOREM StatesCorrect == Spec => []StatesAgree
<1>1. Init => AgreementInv
  BY AgreesAtFirst
<1>2. ASSUME AdapterInv, AgreementInv, [Next]_vars, AdapterInv' PROVE AgreementInv'
  <2>1. CASE Next
    BY <1>2, <2>1, StepAgrees
  <2>2. CASE UNCHANGED vars
    BY <1>2, <2>2 DEF vars, AgreementInv, LeavingInv, Connected, Reachable, Elements,
       Working, NumberInv, FailureInv, LaunchDone, MayFail, Undone, StateInv, Unread,
       NewsInv, IsFinal, Joined, OneMove, Asks, Running, Resting, MoveAsked, NoNews,
       Over, Agrees, Awaiting
  <2> QED BY <1>2, <2>1, <2>2
<1>3. AdapterInv /\ AgreementInv => StatesAgree
  BY QuietAgrees
<1> QED BY <1>1, <1>2, <1>3, Inductive, PTL DEF Spec
=============================================================================
