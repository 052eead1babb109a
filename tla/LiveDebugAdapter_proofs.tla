----------------------- MODULE LiveDebugAdapter_proofs -----------------------
(***************************************************************************)
(* Proofs about the Live VM debug adapter, for any number of requests.     *)
(***************************************************************************)
EXTENDS LiveDebugAdapter, FiniteSetTheorems, NaturalsInduction,
        SequenceTheorems, WellFoundedInduction, TLAPS

(***************************************************************************)
(* Queues of promises: what is added, and what is taken out.               *)
(***************************************************************************)
LEMMA NothingQueued == Members(<<>>) = {} /\ Once(<<>>)
<1> DEFINE t == <<>>
<1>1. Len(t) = 0
  OBVIOUS
<1>2. 1..Len(t) = {}
  BY <1>1
<1> HIDE DEF t
<1>3. Members(t) = {}
  BY <1>2 DEF Members
<1>4. Once(t)
  BY <1>2 DEF Once
<1> QED BY <1>3, <1>4 DEF t

(* A promise that was not in a queue can be added to its end.              *)
LEMMA QueueAppended ==
    ASSUME NEW E, \A x \in E : x.request \in Nat,
           NEW q \in Seq(E), Once(q), NEW e \in E, e.request \notin Members(q)
    PROVE  /\ Append(q, e) \in Seq(E) /\ Once(Append(q, e))
           /\ Members(Append(q, e)) = Members(q) \cup {e.request}
<1> DEFINE t == Append(q, e)
<1>1. /\ t \in Seq(E) /\ Len(t) = Len(q) + 1 /\ Len(q) \in Nat
      /\ t[Len(q) + 1].request = e.request
      /\ \A i \in 1..Len(q) : t[i] = q[i]
  OBVIOUS
<1> HIDE DEF t
<1>2. \A i \in 1..Len(q) : q[i].request # e.request
  BY DEF Members
<1>3. Once(t)
  BY <1>1, <1>2 DEF Once
<1>4. Members(t) = Members(q) \cup {e.request}
  <2>1. ASSUME NEW x \in Members(t) PROVE x \in Members(q) \cup {e.request}
    BY <1>1 DEF Members
  <2>2. ASSUME NEW x \in Members(q) PROVE x \in Members(t)
    BY <1>1 DEF Members
  <2>3. e.request \in Members(t)
    BY <1>1 DEF Members
  <2> QED BY <2>1, <2>2, <2>3
<1> QED BY <1>1, <1>3, <1>4 DEF t

(* Two queues without a promise in common can be joined.                   *)
LEMMA QueuesJoined ==
    ASSUME NEW E, NEW q \in Seq(E), NEW p \in Seq(E), Once(q), Once(p),
           Members(q) \cap Members(p) = {}
    PROVE  /\ q \o p \in Seq(E) /\ Once(q \o p)
           /\ Members(q \o p) = Members(q) \cup Members(p)
<1> DEFINE t == q \o p
<1>1. /\ t \in Seq(E) /\ Len(t) = Len(q) + Len(p) /\ Len(q) \in Nat /\ Len(p) \in Nat
      /\ \A i \in 1..Len(q) : t[i] = q[i]
      /\ \A i \in 1..Len(t) : i \notin 1..Len(q) =>
             i - Len(q) \in 1..Len(p) /\ t[i] = p[i - Len(q)]
      /\ \A i \in 1..Len(p) : Len(q) + i \in 1..Len(t) /\ t[Len(q) + i] = p[i]
  <2>1. /\ t \in Seq(E) /\ Len(t) = Len(q) + Len(p)
        /\ \A i \in 1..Len(q) + Len(p) :
               t[i] = IF i <= Len(q) THEN q[i] ELSE p[i - Len(q)]
    BY ConcatProperties
  <2>2. Len(q) \in Nat /\ Len(p) \in Nat
    OBVIOUS
  <2> HIDE DEF t
  <2> QED BY <2>1, <2>2
<1> HIDE DEF t
<1>2. \A i \in 1..Len(q), j \in 1..Len(p) : q[i].request # p[j].request
  BY DEF Members
<1>3. Once(t)
  <2> SUFFICES ASSUME NEW i \in 1..Len(t), NEW j \in 1..Len(t),
                      t[i].request = t[j].request
               PROVE  i = j
    BY DEF Once
  <2>1. CASE i \in 1..Len(q) /\ j \in 1..Len(q)
    BY <1>1, <2>1 DEF Once
  <2>2. CASE i \notin 1..Len(q) /\ j \notin 1..Len(q)
    <3> DEFINE k == i - Len(q)
               l == j - Len(q)
    <3>1. k \in 1..Len(p) /\ l \in 1..Len(p) /\ t[i] = p[k] /\ t[j] = p[l]
      BY <1>1, <2>2
    <3>2. k = l
      <4> HIDE DEF k, l
      <4> QED BY <3>1 DEF Once
    <3> QED BY <1>1, <3>2
  <2>3. CASE i \in 1..Len(q) /\ j \notin 1..Len(q)
    BY <1>1, <1>2, <2>3
  <2>4. CASE i \notin 1..Len(q) /\ j \in 1..Len(q)
    BY <1>1, <1>2, <2>4
  <2> QED BY <2>1, <2>2, <2>3, <2>4
<1>4. Members(t) = Members(q) \cup Members(p)
  <2>1. ASSUME NEW x \in Members(t) PROVE x \in Members(q) \cup Members(p)
    <3>1. PICK i \in 1..Len(t) : x = t[i].request
      BY DEF Members
    <3>2. CASE i \in 1..Len(q)
      BY <1>1, <3>1, <3>2 DEF Members
    <3>3. CASE i \notin 1..Len(q)
      BY <1>1, <3>1, <3>3 DEF Members
    <3> QED BY <3>2, <3>3
  <2>2. ASSUME NEW x \in Members(q) PROVE x \in Members(t)
    BY <1>1 DEF Members
  <2>3. ASSUME NEW x \in Members(p) PROVE x \in Members(t)
    BY <1>1 DEF Members
  <2> QED BY <2>1, <2>2, <2>3
<1> QED BY <1>1, <1>3, <1>4 DEF t

(* Taking entry k out of a queue takes out its promise and no other.       *)
LEMMA EntryTaken ==
    ASSUME NEW E, NEW q \in Seq(E), Once(q), NEW k \in 1..Len(q)
    PROVE  /\ Without(q, k) \in Seq(E) /\ Once(Without(q, k))
           /\ Members(Without(q, k)) = Members(q) \ {q[k].request}
<1> DEFINE t == Without(q, k)
           Old(i) == IF i < k THEN i ELSE i + 1
<1>1. /\ t \in Seq(E) /\ Len(t) = Len(q) - 1 /\ Len(q) \in Nat /\ Len(t) \in Nat
      /\ \A i \in 1..Len(t) : t[i] = q[Old(i)]
  <2> DEFINE a == SubSeq(q, 1, k - 1)
             b == SubSeq(q, k + 1, Len(q))
             n == Len(q)
  <2>1. n \in Nat /\ k \in 1..n /\ \A i \in 1..n : q[i] \in E
    OBVIOUS
  <2>2. /\ a \in Seq(E) /\ Len(a) = IF 1 <= k - 1 THEN k - 1 - 1 + 1 ELSE 0
        /\ \A i \in 1..k - 1 - 1 + 1 : a[i] = q[1 + i - 1]
    <3>1. k - 1 \in Int /\ \A i \in 1..k - 1 : q[i] \in E
      BY <2>1
    <3> QED BY <3>1, SubSeqProperties
  <2>3. /\ b \in Seq(E) /\ Len(b) = IF k + 1 <= n THEN n - (k + 1) + 1 ELSE 0
        /\ \A i \in 1..n - (k + 1) + 1 : b[i] = q[k + 1 + i - 1]
    <3> HIDE DEF n
    <3>1. k + 1 \in Int /\ n \in Int /\ \A i \in k + 1 .. n : q[i] \in E
      BY <2>1
    <3>2. b = SubSeq(q, k + 1, n)
      BY DEF n
    <3> HIDE DEF b
    <3> QED BY <3>1, <3>2, SubSeqProperties
  <2>4. /\ t \in Seq(E) /\ Len(t) = Len(a) + Len(b)
        /\ \A i \in 1..Len(a) + Len(b) :
               t[i] = IF i <= Len(a) THEN a[i] ELSE b[i - Len(a)]
    <3>1. t = a \o b
      BY DEF Without
    <3> HIDE DEF t, a, b
    <3> QED BY <2>2, <2>3, <3>1, ConcatProperties
  <2> HIDE DEF t, a, b, n
  <2>5. Len(a) = k - 1 /\ Len(b) = n - k
    BY <2>1, <2>2, <2>3
  <2>6. \A i \in 1..n - 1 : t[i] = q[Old(i)]
    <3> SUFFICES ASSUME NEW i \in 1..n - 1 PROVE t[i] = q[Old(i)]
      OBVIOUS
    <3>1. CASE i < k
      <4>1. t[i] = a[i] /\ a[i] = q[1 + i - 1] /\ 1 + i - 1 = i
        BY <2>1, <2>2, <2>4, <2>5, <3>1
      <4> QED BY <3>1, <4>1
    <3>2. CASE ~(i < k)
      <4>1. /\ i - Len(a) \in 1..n - (k + 1) + 1 /\ ~(i <= Len(a))
            /\ k + 1 + (i - Len(a)) - 1 = i + 1 /\ i \in 1..Len(a) + Len(b)
        BY <2>1, <2>5, <3>2
      <4>2. t[i] = b[i - Len(a)] /\ b[i - Len(a)] = q[k + 1 + (i - Len(a)) - 1]
        BY <2>3, <2>4, <4>1
      <4> QED BY <3>2, <4>1, <4>2
    <3> QED BY <3>1, <3>2
  <2>7. Len(t) = n - 1 /\ n - 1 \in Nat
    BY <2>1, <2>4, <2>5
  <2> HIDE DEF Old
  <2> QED BY <2>1, <2>4, <2>6, <2>7 DEF n
<1> HIDE DEF t
<1>2. /\ \A i \in 1..Len(t) : Old(i) \in 1..Len(q) /\ Old(i) # k
      /\ \A i, j \in 1..Len(t) : Old(i) = Old(j) => i = j
  BY <1>1
<1>3. \A j \in 1..Len(q) : j # k => \E i \in 1..Len(t) : j = Old(i)
  <2> SUFFICES ASSUME NEW j \in 1..Len(q), j # k
               PROVE \E i \in 1..Len(t) : j = Old(i)
    OBVIOUS
  <2>1. CASE j < k
    <3>1. j \in 1..Len(t) /\ j = Old(j)
      BY <1>1, <2>1
    <3> QED BY <3>1
  <2>2. CASE j > k
    <3>1. j - 1 \in 1..Len(t) /\ j = Old(j - 1)
      BY <1>1, <2>2
    <3> QED BY <3>1
  <2> QED BY <2>1, <2>2
<1> HIDE DEF Old
<1>4. Once(t)
  BY <1>1, <1>2 DEF Once
<1>5. Members(t) = Members(q) \ {q[k].request}
  <2>1. ASSUME NEW x \in Members(t) PROVE x \in Members(q) /\ x # q[k].request
    <3>1. PICK i \in 1..Len(t) : x = t[i].request
      BY DEF Members
    <3>2. x = q[Old(i)].request /\ Old(i) \in 1..Len(q) /\ Old(i) # k
      BY <1>1, <1>2, <3>1
    <3> QED BY <3>2 DEF Members, Once
  <2>2. ASSUME NEW x \in Members(q), x # q[k].request PROVE x \in Members(t)
    <3>1. PICK j \in 1..Len(q) : x = q[j].request
      BY DEF Members
    <3>2. PICK i \in 1..Len(t) : j = Old(i)
      BY <1>3, <2>2, <3>1
    <3>3. x = t[i].request
      BY <1>1, <3>1, <3>2
    <3> QED BY <3>3 DEF Members
  <2> QED BY <2>1, <2>2
<1> QED BY <1>1, <1>4, <1>5 DEF t

(* rejectPending settles every pending promise, each with a failure.       *)
LEMMA Rejected ==
    ASSUME NEW p \in Seq(Entries), Once(p)
    PROVE  /\ Rejections(p) \in Seq(Tasks) /\ Once(Rejections(p))
           /\ Members(Rejections(p)) = Members(p)
           /\ Len(Rejections(p)) = Len(p)
           /\ \A i \in 1..Len(p) : Rejections(p)[i].ok = FALSE
<1> DEFINE t == Rejections(p)
<1>1. \A i \in 1..Len(p) :
          /\ Task(p[i].request, FALSE) \in Tasks
          /\ Task(p[i].request, FALSE).request = p[i].request
          /\ Task(p[i].request, FALSE).ok = FALSE
  <2> SUFFICES ASSUME NEW i \in 1..Len(p)
               PROVE  /\ Task(p[i].request, FALSE) \in Tasks
                      /\ Task(p[i].request, FALSE).request = p[i].request
                      /\ Task(p[i].request, FALSE).ok = FALSE
    OBVIOUS
  <2>1. p[i] \in Entries
    OBVIOUS
  <2>2. p[i].request \in Nat
    BY <2>1 DEF Entries
  <2> QED BY <2>2 DEF Task, Tasks
<1>2. /\ t \in Seq(Tasks) /\ Len(t) = Len(p)
      /\ \A i \in 1..Len(p) : t[i] = Task(p[i].request, FALSE)
  <2>1. t = [i \in 1..Len(p) |-> Task(p[i].request, FALSE)] /\ Len(p) \in Nat
    BY DEF Rejections
  <2>2. t \in [1..Len(p) -> Tasks]
    BY <1>1, <2>1
  <2> DEFINE n == Len(p)
  <2>3. n \in Nat /\ t \in [1..n -> Tasks]
    BY <2>1, <2>2
  <2>4. \A i \in 1..Len(p) : t[i] = Task(p[i].request, FALSE)
    BY <2>1, Zenon
  <2> HIDE DEF t, n
  <2>5. t \in Seq(Tasks) /\ Len(t) = n
    BY <2>3
  <2> QED BY <2>4, <2>5 DEF n
<1> HIDE DEF t
<1>3. \A i \in 1..Len(p) : t[i].request = p[i].request /\ t[i].ok = FALSE
  BY <1>1, <1>2
<1>4. Once(t)
  BY <1>2, <1>3 DEF Once
<1>5. Members(t) = Members(p)
  BY <1>2, <1>3 DEF Members
<1> QED BY <1>2, <1>3, <1>4, <1>5 DEF t

(* A settled promise is granted if it was settled with a success.          *)
LEMMA GrantedAppended ==
    ASSUME NEW q \in Seq(Tasks), NEW e \in Tasks
    PROVE  Granted(Append(q, e)) = Granted(q) \cup (IF e.ok THEN {e.request} ELSE {})
<1> DEFINE t == Append(q, e)
<1>1. /\ Len(t) = Len(q) + 1 /\ Len(q) \in Nat /\ t[Len(q) + 1] = e
      /\ \A i \in 1..Len(q) : t[i] = q[i]
  OBVIOUS
<1> HIDE DEF t
<1>2. ASSUME NEW x \in Granted(t)
      PROVE  x \in Granted(q) \cup (IF e.ok THEN {e.request} ELSE {})
  <2>1. PICK i \in 1..Len(t) : t[i].ok /\ x = t[i].request
    BY DEF Granted
  <2>2. CASE i \in 1..Len(q)
    <3>1. q[i].ok /\ x = q[i].request
      BY <1>1, <2>1, <2>2
    <3> QED BY <2>2, <3>1 DEF Granted
  <2>3. CASE i = Len(q) + 1
    BY <1>1, <2>1, <2>3
  <2> QED BY <1>1, <2>2, <2>3
<1>3. ASSUME NEW x \in Granted(q) PROVE x \in Granted(t)
  <2>1. PICK i \in 1..Len(q) : q[i].ok /\ x = q[i].request
    BY DEF Granted
  <2>2. i \in 1..Len(t) /\ t[i] = q[i]
    BY <1>1
  <2> QED BY <2>1, <2>2 DEF Granted
<1>4. ASSUME e.ok PROVE e.request \in Granted(t)
  <2>1. Len(q) + 1 \in 1..Len(t)
    BY <1>1
  <2> QED BY <1>1, <1>4, <2>1 DEF Granted
<1> QED BY <1>2, <1>3, <1>4 DEF t

(* What is granted in two joined queues is granted in one of them.         *)
LEMMA GrantedJoined ==
    ASSUME NEW q \in Seq(Tasks), NEW p \in Seq(Tasks), NEW x \in Granted(q \o p)
    PROVE  x \in Granted(q) \/ \E i \in 1..Len(p) : p[i].ok /\ p[i].request = x
<1> DEFINE t == q \o p
<1>1. /\ Len(t) = Len(q) + Len(p) /\ Len(q) \in Nat /\ Len(p) \in Nat
      /\ \A i \in 1..Len(q) : t[i] = q[i]
      /\ \A i \in 1..Len(t) : i \notin 1..Len(q) =>
             i - Len(q) \in 1..Len(p) /\ t[i] = p[i - Len(q)]
  <2>1. /\ Len(t) = Len(q) + Len(p)
        /\ \A i \in 1..Len(q) + Len(p) :
               t[i] = IF i <= Len(q) THEN q[i] ELSE p[i - Len(q)]
    BY ConcatProperties
  <2>2. Len(q) \in Nat /\ Len(p) \in Nat
    OBVIOUS
  <2> HIDE DEF t
  <2> QED BY <2>1, <2>2
<1>2. PICK i \in 1..Len(t) : t[i].ok /\ x = t[i].request
  BY DEF Granted
<1> HIDE DEF t
<1>3. CASE i \in 1..Len(q)
  <2>1. q[i].ok /\ x = q[i].request
    BY <1>1, <1>2, <1>3
  <2> QED BY <1>3, <2>1 DEF Granted
<1>4. CASE i \notin 1..Len(q)
  BY <1>1, <1>2, <1>4
<1> QED BY <1>3, <1>4
-----------------------------------------------------------------------------
(***************************************************************************)
(* The methods that settle promises. H are the requests whose handlers are *)
(* running, and wait for nothing.                                          *)
(***************************************************************************)
States == [f : Fields, h : Seq(Handlers), dap : Seq(Messages), kill : BOOLEAN]

Owned(a, H) ==
    /\ OneQueue(a.f) /\ H \cap Promised(a.f) = {}
    /\ Undone(a.h) = Promised(a.f) \cup H

(* Nothing is said, and the state of the session is what it was.           *)
Silent(a, b) ==
    /\ b.h = a.h /\ b.dap = a.dap
    /\ b.f.executionState = a.f.executionState
    /\ b.f.terminated = a.f.terminated /\ b.f.disposed = a.f.disposed
    /\ b.f.entryStoppedSent = a.f.entryStoppedSent
    /\ b.f.deferrals = a.f.deferrals /\ b.f.deferred = a.f.deferred
    /\ b.f.stdin = a.f.stdin /\ b.f.waiting = a.f.waiting
    /\ b.f.reading = a.f.reading

(* No promise is made, and none but those of G is kept.                    *)
Fewer(a, b, G) ==
    /\ Granted(b.f.microtasks) \subseteq Granted(a.f.microtasks) \cup G
    /\ Pending(b.f) \subseteq Pending(a.f)
    /\ b.f.ready => a.f.ready

(* Settling the promise of a handler in hand queues its continuation.      *)
LEMMA SettleFacts ==
    ASSUME NEW a \in States, NEW H \in SUBSET Nat, Owned(a, H),
           NEW r \in H, NEW ok \in BOOLEAN
    PROVE  LET b == Settle(a, r, ok) IN
           /\ b \in States /\ Owned(b, H \ {r}) /\ Silent(a, b)
           /\ Fewer(a, b, IF ok THEN {r} ELSE {})
           /\ b.kill = a.kill /\ b.f.child = a.f.child
           /\ b.f.pending = a.f.pending /\ b.f.ready = a.f.ready
<1> DEFINE b == Settle(a, r, ok)
           q == a.f.microtasks
           t == Append(q, Task(r, ok))
<1>1. a.f \in Fields /\ q \in Seq(Tasks)
  BY DEF States, Fields
<1>2. Task(r, ok) \in Tasks /\ Task(r, ok).request = r /\ Task(r, ok).ok = ok
  BY DEF Task, Tasks
<1>3. \A x \in Tasks : x.request \in Nat
  BY DEF Tasks
<1>4. Once(q) /\ r \notin Members(q) /\ r \notin Promised(a.f)
  BY DEF Owned, OneQueue, Promised, Queued
<1>5. t \in Seq(Tasks) /\ Once(t) /\ Members(t) = Members(q) \cup {r}
  <2> DEFINE e == Task(r, ok)
  <2>1. e \in Tasks /\ e.request = r
    BY <1>2
  <2> HIDE DEF e
  <2>2. e.request \notin Members(q)
    BY <1>4, <2>1
  <2>3. /\ Append(q, e) \in Seq(Tasks) /\ Once(Append(q, e))
        /\ Members(Append(q, e)) = Members(q) \cup {e.request}
    BY <1>1, <1>3, <1>4, <2>1, <2>2, QueueAppended, Zenon
  <2> QED BY <2>1, <2>3 DEF e
<1>6. Granted(t) = Granted(q) \cup (IF ok THEN {r} ELSE {})
  BY <1>1, <1>2, GrantedAppended
<1> HIDE DEF t
<1>7. /\ b.f = [a.f EXCEPT !.microtasks = t]
      /\ b.h = a.h /\ b.dap = a.dap /\ b.kill = a.kill
      /\ b = [a EXCEPT !.f = b.f]
  BY DEF Settle, States, t
<1>8. b.f \in Fields
  BY <1>1, <1>5, <1>7 DEF Fields
<1>9. b \in States
  BY <1>7, <1>8 DEF States
<1> HIDE DEF b
<1>10. /\ b.f.microtasks = t /\ b.f.pending = a.f.pending
       /\ b.f.waiting = a.f.waiting /\ b.f.ready = a.f.ready
       /\ b.f.child = a.f.child
       /\ Silent(a, b)
  BY <1>1, <1>7 DEF Fields, Silent
<1>11. /\ Queued(b.f) = Queued(a.f) \cup {r} /\ Pending(b.f) = Pending(a.f)
       /\ Exiting(b.f) = Exiting(a.f) /\ Launching(b.f) = Launching(a.f)
  BY <1>5, <1>10 DEF Queued, Pending, Exiting, Launching
<1>12. Owned(b, H \ {r})
  <2>1. OneQueue(b.f)
    BY <1>4, <1>5, <1>10, <1>11 DEF Owned, OneQueue, Promised
  <2>2. Promised(b.f) = Promised(a.f) \cup {r}
    BY <1>11 DEF Promised
  <2> QED BY <1>4, <1>7, <2>1, <2>2 DEF Owned
<1>13. Fewer(a, b, IF ok THEN {r} ELSE {})
  BY <1>6, <1>10, <1>11 DEF Fewer
<1> QED BY <1>7, <1>9, <1>10, <1>12, <1>13 DEF b

(* settleReady: the launch no longer waits for readiness, but for its      *)
(* continuation.                                                           *)
LEMMA ReadyFacts ==
    ASSUME NEW a \in States, NEW H \in SUBSET Nat, Owned(a, H), NEW ok \in BOOLEAN
    PROVE  LET b == settleReady(a, ok) IN
           /\ b \in States /\ Owned(b, H) /\ Silent(a, b)
           /\ Fewer(a, b, IF ok /\ a.f.ready THEN {1} ELSE {})
           /\ b.kill = a.kill /\ b.f.child = a.f.child /\ ~b.f.ready
           /\ b.f.pending = a.f.pending
<1>1. CASE ~a.f.ready
  BY <1>1 DEF settleReady, Silent, Fewer
<1>2. CASE a.f.ready
  <2> DEFINE b == settleReady(a, ok)
             q == a.f.microtasks
             e == Task(1, ok)
             t == Append(q, e)
  <2>1. a.f \in Fields /\ q \in Seq(Tasks)
    BY DEF States, Fields
  <2>2. e \in Tasks /\ e.request = 1 /\ e.ok = ok
    BY DEF Task, Tasks
  <2>3. \A x \in Tasks : x.request \in Nat
    BY DEF Tasks
  <2>4. Once(q) /\ 1 \notin Members(q) /\ 1 \in Promised(a.f) /\ Launching(a.f) = {1}
    BY <1>2 DEF Owned, OneQueue, Promised, Queued, Launching
  <2>5. b = [a EXCEPT !.f = [a.f EXCEPT !.microtasks = t, !.ready = FALSE]]
    BY <1>2, <2>1 DEF settleReady, Settle, States
  <2> HIDE DEF e
  <2>6. t \in Seq(Tasks) /\ Once(t) /\ Members(t) = Members(q) \cup {1}
    <3>1. e.request \notin Members(q)
      BY <2>2, <2>4
    <3>2. /\ t \in Seq(Tasks) /\ Once(t)
          /\ Members(t) = Members(q) \cup {e.request}
      <4> HIDE DEF q
      <4> QED BY <2>1, <2>2, <2>3, <2>4, <3>1, QueueAppended
    <3> QED BY <2>2, <3>2
  <2>7. Granted(t) = Granted(q) \cup (IF ok THEN {1} ELSE {})
    BY <2>1, <2>2, GrantedAppended
  <2> HIDE DEF t, b
  <2>8. /\ b.f = [a.f EXCEPT !.microtasks = t, !.ready = FALSE]
        /\ b.h = a.h /\ b.dap = a.dap /\ b.kill = a.kill
    BY <2>5 DEF States
  <2>9. b.f \in Fields
    BY <2>1, <2>6, <2>8 DEF Fields
  <2>10. b \in States
    BY <2>5, <2>8, <2>9 DEF States
  <2>11. /\ b.f.microtasks = t /\ b.f.pending = a.f.pending
         /\ b.f.waiting = a.f.waiting /\ b.f.ready = FALSE
         /\ b.f.child = a.f.child
         /\ Silent(a, b)
    BY <2>1, <2>8 DEF Fields, Silent
  <2>12. /\ Queued(b.f) = Queued(a.f) \cup {1} /\ Pending(b.f) = Pending(a.f)
         /\ Exiting(b.f) = Exiting(a.f) /\ Launching(b.f) = {}
    BY <2>6, <2>11 DEF Queued, Pending, Exiting, Launching
  <2>13. Owned(b, H)
    <3>1. OneQueue(b.f)
      BY <2>4, <2>6, <2>11, <2>12 DEF Owned, OneQueue, Promised
    <3>2. Promised(b.f) = Promised(a.f)
      BY <2>4, <2>12 DEF Promised
    <3> QED BY <2>8, <3>1, <3>2 DEF Owned
  <2>14. Fewer(a, b, IF ok /\ a.f.ready THEN {1} ELSE {})
    BY <1>2, <2>7, <2>11, <2>12 DEF Fewer
  <2> QED BY <2>8, <2>10, <2>11, <2>13, <2>14 DEF b
<1> QED BY <1>1, <1>2

(* rejectPending: what was pending is queued, and nothing is pending.      *)
LEMMA RejectFacts ==
    ASSUME NEW a \in States, NEW H \in SUBSET Nat, Owned(a, H)
    PROVE  LET b == rejectPending(a) IN
           /\ b \in States /\ Owned(b, H) /\ Silent(a, b) /\ Fewer(a, b, {})
           /\ b.kill = a.kill /\ b.f.child = a.f.child /\ b.f.ready = a.f.ready
           /\ b.f.pending = <<>>
<1> DEFINE b == rejectPending(a)
           q == a.f.microtasks
           p == Rejections(a.f.pending)
           t == q \o p
<1>1. a.f \in Fields /\ q \in Seq(Tasks) /\ a.f.pending \in Seq(Entries)
  BY DEF States, Fields
<1>2. /\ Once(q) /\ Once(a.f.pending)
      /\ Members(q) \cap Members(a.f.pending) = {}
  BY DEF Owned, OneQueue, Queued, Pending
<1>3. /\ p \in Seq(Tasks) /\ Once(p) /\ Members(p) = Members(a.f.pending)
      /\ \A i \in 1..Len(p) : p[i].ok = FALSE
  BY <1>1, <1>2, Rejected
<1> HIDE DEF p
<1>4. t \in Seq(Tasks) /\ Once(t) /\ Members(t) = Members(q) \cup Members(a.f.pending)
  BY <1>1, <1>2, <1>3, QueuesJoined
<1>5. Granted(t) \subseteq Granted(q)
  BY <1>1, <1>3, GrantedJoined
<1> HIDE DEF t
<1>6. b = [a EXCEPT !.f = [a.f EXCEPT !.microtasks = t, !.pending = <<>>]]
  BY <1>1 DEF rejectPending, States, t, p
<1> HIDE DEF b
<1>7. /\ b.f = [a.f EXCEPT !.microtasks = t, !.pending = <<>>]
      /\ b.h = a.h /\ b.dap = a.dap /\ b.kill = a.kill
  BY <1>6 DEF States
<1>8. b.f \in Fields
  <2>1. <<>> \in Seq(Entries)
    BY EmptySeq
  <2> QED BY <1>1, <1>4, <1>7, <2>1 DEF Fields
<1>9. b \in States
  BY <1>6, <1>7, <1>8 DEF States
<1>10. /\ b.f.microtasks = t /\ b.f.pending = <<>>
       /\ b.f.waiting = a.f.waiting /\ b.f.ready = a.f.ready
       /\ b.f.child = a.f.child
       /\ Silent(a, b)
  BY <1>1, <1>7 DEF Fields, Silent
<1>11. /\ Queued(b.f) = Queued(a.f) \cup Pending(a.f) /\ Pending(b.f) = {}
       /\ Exiting(b.f) = Exiting(a.f) /\ Launching(b.f) = Launching(a.f)
       /\ Once(b.f.pending)
  <2>1. Members(<<>>) = {} /\ Once(<<>>)
    BY NothingQueued
  <2> QED BY <1>4, <1>10, <2>1 DEF Queued, Pending, Exiting, Launching
<1>12. Owned(b, H)
  <2>1. OneQueue(b.f)
    BY <1>4, <1>10, <1>11 DEF Owned, OneQueue
  <2>2. Promised(b.f) = Promised(a.f)
    BY <1>11 DEF Promised
  <2> QED BY <1>7, <2>1, <2>2 DEF Owned
<1>13. Fewer(a, b, {})
  BY <1>5, <1>10, <1>11 DEF Fewer
<1> QED BY <1>7, <1>9, <1>10, <1>12, <1>13 DEF b

(* stopChild settles the launch and every pending request, all with a      *)
(* failure.                                                                *)
LEMMA StopFacts ==
    ASSUME NEW a \in States, NEW H \in SUBSET Nat, Owned(a, H)
    PROVE  LET b == stopChild(a) IN
           /\ b \in States /\ Owned(b, H) /\ Silent(a, b) /\ Fewer(a, b, {})
           /\ ~b.f.child /\ ~b.f.ready /\ b.f.pending = <<>>
<1> DEFINE s == settleReady(a, FALSE)
           r == rejectPending(s)
           b == stopChild(a)
<1>1. /\ s \in States /\ Owned(s, H) /\ Silent(a, s) /\ Fewer(a, s, {}) /\ ~s.f.ready
  BY ReadyFacts
<1> HIDE DEF s
<1>2. /\ r \in States /\ Owned(r, H) /\ Silent(s, r) /\ Fewer(s, r, {})
      /\ r.f.ready = s.f.ready /\ r.f.pending = <<>>
  BY <1>1, RejectFacts
<1>3. b = [r EXCEPT !.f.child = FALSE, !.kill = r.f.child \/ @]
  BY DEF stopChild, s
<1> HIDE DEF r, b
<1>4. r.f \in Fields /\ r.f.child \in BOOLEAN /\ r.kill \in BOOLEAN
  BY <1>2 DEF States, Fields
<1>5. b.f = [r.f EXCEPT !.child = FALSE] /\ b.h = r.h /\ b.dap = r.dap
  BY <1>2, <1>3 DEF States
<1>6. b.f \in Fields
  BY <1>4, <1>5 DEF Fields
<1>7. b = [r EXCEPT !.f = b.f, !.kill = r.f.child \/ r.kill]
  BY <1>2, <1>3, <1>5 DEF States
<1>8. b \in States
  BY <1>2, <1>4, <1>6, <1>7 DEF States
<1>9. /\ b.f.microtasks = r.f.microtasks /\ b.f.pending = r.f.pending
      /\ b.f.waiting = r.f.waiting /\ b.f.ready = r.f.ready
      /\ ~b.f.child /\ Silent(r, b)
  BY <1>4, <1>5 DEF Fields, Silent
<1>10. Owned(b, H)
  BY <1>2, <1>5, <1>9
     DEF Owned, OneQueue, Promised, Queued, Pending, Exiting, Launching
<1>11. Fewer(a, b, {})
  BY <1>1, <1>2, <1>9 DEF Fewer, Pending
<1>12. Silent(a, b)
  BY <1>1, <1>2, <1>9 DEF Silent
<1> QED BY <1>1, <1>2, <1>8, <1>9, <1>10, <1>11, <1>12 DEF b

(* Settling one pending entry queues its continuation.                     *)
LEMMA PendingFacts ==
    ASSUME NEW a \in States, NEW H \in SUBSET Nat, Owned(a, H),
           NEW k \in 1..Len(a.f.pending), NEW ok \in BOOLEAN
    PROVE  LET b == SettlePending(a, k, ok) IN
           /\ b \in States /\ Owned(b, H) /\ Silent(a, b)
           /\ Fewer(a, b, IF ok THEN {a.f.pending[k].request} ELSE {})
           /\ b.kill = a.kill /\ b.f.child = a.f.child /\ b.f.ready = a.f.ready
<1> DEFINE b == SettlePending(a, k, ok)
           q == a.f.microtasks
           p == a.f.pending
           r == p[k].request
           e == Task(r, ok)
           t == Append(q, e)
           w == Without(p, k)
<1>1. a.f \in Fields /\ q \in Seq(Tasks) /\ p \in Seq(Entries)
  BY DEF States, Fields
<1>2. r \in Nat /\ r \in Members(p)
  <2>1. p[k] \in Entries
    BY <1>1, ElementOfSeq
  <2> QED BY <2>1 DEF Entries, Members
<1>3. e \in Tasks /\ e.request = r /\ e.ok = ok
  BY <1>2 DEF Task, Tasks
<1>4. \A x \in Tasks : x.request \in Nat
  BY DEF Tasks
<1>5. Once(q) /\ Once(p) /\ r \notin Members(q)
  BY <1>2 DEF Owned, OneQueue, Queued, Pending
<1>6. b = [a EXCEPT !.f = [a.f EXCEPT !.microtasks = t, !.pending = w]]
  BY <1>1 DEF SettlePending, Settle, States
<1>7. w \in Seq(Entries) /\ Once(w) /\ Members(w) = Members(p) \ {r}
  BY <1>1, <1>5, EntryTaken
<1> HIDE DEF e, w
<1>8. t \in Seq(Tasks) /\ Once(t) /\ Members(t) = Members(q) \cup {r}
  <2>1. e.request \notin Members(q)
    BY <1>3, <1>5
  <2>2. /\ t \in Seq(Tasks) /\ Once(t)
        /\ Members(t) = Members(q) \cup {e.request}
    <3> HIDE DEF q, p, r
    <3> QED BY <1>1, <1>3, <1>4, <1>5, <2>1, QueueAppended
  <2> QED BY <1>3, <2>2
<1>9. Granted(t) = Granted(q) \cup (IF ok THEN {r} ELSE {})
  BY <1>1, <1>3, GrantedAppended
<1> HIDE DEF t, b
<1>10. /\ b.f = [a.f EXCEPT !.microtasks = t, !.pending = w]
       /\ b.h = a.h /\ b.dap = a.dap /\ b.kill = a.kill
  BY <1>6 DEF States
<1>11. b.f \in Fields
  BY <1>1, <1>7, <1>8, <1>10 DEF Fields
<1>12. b \in States
  BY <1>6, <1>10, <1>11 DEF States
<1>13. /\ b.f.microtasks = t /\ b.f.pending = w
       /\ b.f.waiting = a.f.waiting /\ b.f.ready = a.f.ready
       /\ b.f.child = a.f.child
       /\ Silent(a, b)
  BY <1>1, <1>10 DEF Fields, Silent
<1>14. /\ Queued(b.f) = Queued(a.f) \cup {r} /\ Pending(b.f) = Pending(a.f) \ {r}
       /\ Exiting(b.f) = Exiting(a.f) /\ Launching(b.f) = Launching(a.f)
       /\ r \in Pending(a.f)
  BY <1>2, <1>7, <1>8, <1>13 DEF Queued, Pending, Exiting, Launching
<1>15. Owned(b, H)
  <2>1. OneQueue(b.f)
    BY <1>7, <1>8, <1>13, <1>14 DEF Owned, OneQueue
  <2>2. Promised(b.f) = Promised(a.f)
    BY <1>14 DEF Promised
  <2> QED BY <1>10, <2>1, <2>2 DEF Owned
<1>16. Fewer(a, b, IF ok THEN {r} ELSE {})
  BY <1>9, <1>13, <1>14 DEF Fewer
<1> QED BY <1>10, <1>12, <1>13, <1>15, <1>16 DEF b

(* A response settles the entry it names, and none if there is none.       *)
LEMMA AnswerFacts ==
    ASSUME NEW a \in States, NEW H \in SUBSET Nat, Owned(a, H), NEW line \in Lines
    PROVE  LET b == HandleAnswer(a, line) IN
           /\ b \in States /\ Owned(b, H) /\ Silent(a, b)
           /\ Fewer(a, b, Pending(a.f))
           /\ b.kill = a.kill /\ b.f.child = a.f.child /\ b.f.ready = a.f.ready
<1> DEFINE matching == {i \in 1..Len(a.f.pending) : a.f.pending[i].seq = line.seq}
           k == CHOOSE i \in matching : TRUE
<1>1. CASE matching = {}
  BY <1>1 DEF HandleAnswer, Silent, Fewer
<1>2. CASE matching # {}
  <2> DEFINE b == SettlePending(a, k, line.ok)
  <2>1. k \in 1..Len(a.f.pending)
    BY <1>2
  <2>2. HandleAnswer(a, line) = b
    BY <1>2 DEF HandleAnswer
  <2>3. line.ok \in BOOLEAN
    BY DEF Lines
  <2> HIDE DEF k
  <2>4. /\ b \in States /\ Owned(b, H) /\ Silent(a, b)
        /\ Fewer(a, b, IF line.ok THEN {a.f.pending[k].request} ELSE {})
        /\ b.kill = a.kill /\ b.f.child = a.f.child /\ b.f.ready = a.f.ready
    BY <2>1, <2>3, PendingFacts, Zenon
  <2>5. (IF line.ok THEN {a.f.pending[k].request} ELSE {}) \subseteq Pending(a.f)
    BY <2>1 DEF Pending, Members
  <2> HIDE DEF b
  <2>6. Fewer(a, b, Pending(a.f))
    BY <2>4, <2>5 DEF Fewer
  <2> QED BY <2>2, <2>4, <2>6
<1> QED BY <1>1, <1>2
-----------------------------------------------------------------------------
(***************************************************************************)
(* The methods that speak to the client.                                   *)
(***************************************************************************)
Told(a) ==
    /\ AnswersDone(a.dap, a.h) /\ AnswersOnce(a.dap)
    /\ a.f.disposed \/ DoneAnswered(a.dap, a.h)
    /\ EndsOnce(a.dap) /\ EndKnown(a.dap, a.f)

(* Promises, pending work and the server's side stay as they are.          *)
SamePromises(a, b) ==
    /\ b.f.microtasks = a.f.microtasks /\ b.f.pending = a.f.pending
    /\ b.f.waiting = a.f.waiting /\ b.f.ready = a.f.ready
    /\ b.f.stdin = a.f.stdin /\ b.f.child = a.f.child
    /\ b.f.disposed = a.f.disposed /\ b.f.reading = a.f.reading
    /\ b.f.protocolSeq = a.f.protocolSeq
    /\ b.f.entryStoppedSent = a.f.entryStoppedSent /\ b.kill = a.kill

(* Equal queues hold the same promises.                                    *)
LEMMA SamePromised ==
    ASSUME NEW a, NEW b, SamePromises(a, b)
    PROVE  /\ Promised(b.f) = Promised(a.f) /\ OneQueue(b.f) <=> OneQueue(a.f)
           /\ Fewer(a, b, {})
BY DEF SamePromises, OneQueue, Promised, Queued, Pending, Exiting, Launching, Fewer

Replied(h, r, ok) == [h EXCEPT ![r].stage = "done", ![r].ok = ok]

(* A reply ends the request in hand and tells a client that still listens. *)
LEMMA ReplyFacts ==
    ASSUME NEW a \in States, NEW H \in SUBSET Nat, Owned(a, H), Told(a),
           NEW r \in H, NEW ok \in BOOLEAN
    PROVE  LET b == Reply(a, r, ok) IN
           /\ b \in States /\ Owned(b, H \ {r}) /\ Told(b)
           /\ b.f = a.f /\ b.kill = a.kill
           /\ b.h = Replied(a.h, r, ok)
           /\ Len(b.h) = Len(a.h)
           /\ b.dap = IF a.f.disposed THEN a.dap ELSE Append(a.dap, Response(a, r, ok))
<1> DEFINE b == Reply(a, r, ok)
           m == Response(a, r, ok)
           s == Send(a, <<m>>)
<1>1. a.f \in Fields /\ a.h \in Seq(Handlers) /\ a.dap \in Seq(Messages) /\ a.kill \in BOOLEAN
  BY DEF States
<1>2. r \in 1..Len(a.h) /\ a.h[r].stage # "done" /\ r \in Nat
  BY DEF Owned, Undone
<1>3. a.h[r] \in Handlers
  BY <1>1, <1>2, ElementOfSeq
<1>4. m \in Messages /\ m.type = "response" /\ m.request = r
  BY <1>2, <1>3 DEF Response, Messages, Handlers
<1>5. s = [a EXCEPT !.dap = IF a.f.disposed THEN a.dap ELSE Append(a.dap, m)]
  <2>1. a.dap \o <<m>> = Append(a.dap, m)
    BY <1>1, <1>4
  <2> HIDE DEF m
  <2>2. CASE a.f.disposed
    BY <2>2 DEF Send, States
  <2>3. CASE ~a.f.disposed
    BY <2>1, <2>3 DEF Send, States
  <2> QED BY <2>2, <2>3
<1> HIDE DEF m
<1>6. (IF a.f.disposed THEN a.dap ELSE Append(a.dap, m)) \in Seq(Messages)
  BY <1>1, <1>4
<1>7. b = [s EXCEPT !.h = Replied(s.h, r, ok)]
  BY <1>5 DEF Reply, m, States, Replied
<1> HIDE DEF s, b
<1>8. /\ b.f = a.f /\ b.kill = a.kill
      /\ b.h = Replied(a.h, r, ok)
      /\ b.dap = IF a.f.disposed THEN a.dap ELSE Append(a.dap, m)
  BY <1>5, <1>7 DEF States
<1>9. /\ b.h \in Seq(Handlers) /\ Len(b.h) = Len(a.h)
      /\ b.h[r].stage = "done"
      /\ \A i \in 1..Len(a.h) : i # r => b.h[i] = a.h[i]
  <2> DEFINE x == [a.h[r] EXCEPT !.stage = "done", !.ok = ok]
  <2>1. x \in Handlers /\ x.stage = "done"
    BY <1>3 DEF Handlers
  <2>2. b.h = [a.h EXCEPT ![r] = x]
    BY <1>1, <1>2, <1>3, <1>8 DEF Handlers, Replied
  <2> HIDE DEF x
  <2> QED BY <1>1, <1>2, <2>1, <2>2
<1>10. b \in States
  BY <1>1, <1>5, <1>6, <1>7, <1>8, <1>9 DEF States
<1>11. Undone(b.h) = Undone(a.h) \ {r}
  BY <1>2, <1>9 DEF Undone
<1>12. Owned(b, H \ {r})
  BY <1>8, <1>11 DEF Owned
<1>13. \A i \in 1..Len(a.dap) : a.dap[i].type = "response" => a.dap[i].request # r
  BY <1>2 DEF Told, AnswersDone, Undone
<1>14. ASSUME ~a.f.disposed
       PROVE  /\ Len(b.dap) = Len(a.dap) + 1 /\ Len(a.dap) \in Nat
              /\ b.dap[Len(a.dap) + 1] = m
              /\ \A i \in 1..Len(a.dap) : b.dap[i] = a.dap[i]
  BY <1>1, <1>4, <1>8, <1>14
<1>15. Told(b)
  <2>1. CASE a.f.disposed
    <3>1. b.dap = a.dap
      BY <1>8, <2>1
    <3>2. AnswersDone(b.dap, b.h)
      BY <1>9, <1>11, <3>1 DEF Told, AnswersDone
    <3> QED BY <1>8, <2>1, <3>1, <3>2 DEF Told
  <2>2. CASE ~a.f.disposed
    <3>1. AnswersDone(b.dap, b.h)
      <4> SUFFICES ASSUME NEW i \in 1..Len(b.dap), b.dap[i].type = "response"
                   PROVE  b.dap[i].request \in (1..Len(b.h)) \ Undone(b.h)
        BY DEF AnswersDone
      <4>1. CASE i \in 1..Len(a.dap)
        <5>1. a.dap[i].type = "response" /\ b.dap[i] = a.dap[i]
          BY <1>14, <2>2, <4>1
        <5>2. a.dap[i].request \in (1..Len(a.h)) \ Undone(a.h)
          BY <4>1, <5>1 DEF Told, AnswersDone
        <5> QED BY <1>9, <1>11, <5>1, <5>2
      <4>2. CASE i = Len(a.dap) + 1
        <5>1. b.dap[i].request = r
          BY <1>4, <1>14, <2>2, <4>2
        <5> QED BY <1>2, <1>9, <1>11, <5>1
      <4>3. i \in 1..Len(a.dap) \/ i = Len(a.dap) + 1
        BY <1>14, <2>2
      <4> QED BY <4>1, <4>2, <4>3
    <3>2. AnswersOnce(b.dap)
      <4> SUFFICES ASSUME NEW i \in 1..Len(b.dap), NEW j \in 1..Len(b.dap),
                          b.dap[i].type = "response", b.dap[j].type = "response",
                          b.dap[i].request = b.dap[j].request
                   PROVE  i = j
        BY DEF AnswersOnce
      <4>1. CASE i \in 1..Len(a.dap) /\ j \in 1..Len(a.dap)
        BY <1>14, <2>2, <4>1 DEF Told, AnswersOnce
      <4>2. CASE i \in 1..Len(a.dap) /\ j = Len(a.dap) + 1
        <5>1. b.dap[j].request = r /\ b.dap[i] = a.dap[i]
          BY <1>4, <1>14, <2>2, <4>2
        <5> QED BY <1>13, <4>2, <5>1
      <4>3. CASE i = Len(a.dap) + 1 /\ j \in 1..Len(a.dap)
        <5>1. b.dap[i].request = r /\ b.dap[j] = a.dap[j]
          BY <1>4, <1>14, <2>2, <4>3
        <5> QED BY <1>13, <4>3, <5>1
      <4>4. i = Len(a.dap) + 1 \/ i \in 1..Len(a.dap)
        BY <1>14, <2>2
      <4>5. j = Len(a.dap) + 1 \/ j \in 1..Len(a.dap)
        BY <1>14, <2>2
      <4> QED BY <4>1, <4>2, <4>3, <4>4, <4>5
    <3>3. DoneAnswered(b.dap, b.h)
      <4> SUFFICES ASSUME NEW x \in (1..Len(b.h)) \ Undone(b.h)
                   PROVE  \E i \in 1..Len(b.dap) : Answers(b.dap[i], x)
        BY DEF DoneAnswered
      <4>1. CASE x = r
        <5>1. Len(a.dap) + 1 \in 1..Len(b.dap) /\ Answers(b.dap[Len(a.dap) + 1], x)
          BY <1>4, <1>14, <2>2, <4>1 DEF Answers
        <5> QED BY <5>1
      <4>2. CASE x # r
        <5>1. x \in (1..Len(a.h)) \ Undone(a.h)
          BY <1>9, <1>11, <4>2
        <5>2. PICK i \in 1..Len(a.dap) : Answers(a.dap[i], x)
          BY <2>2, <5>1 DEF Told, DoneAnswered
        <5>3. i \in 1..Len(b.dap) /\ b.dap[i] = a.dap[i]
          BY <1>14, <2>2
        <5> QED BY <5>2, <5>3
      <4> QED BY <4>1, <4>2
    <3>4. \A names : ~IsEvent(m, names)
      BY <1>4 DEF IsEvent
    <3>5. EndsOnce(b.dap)
      <4> SUFFICES ASSUME NEW i \in 1..Len(b.dap), NEW j \in 1..Len(b.dap), i < j,
                          IsEvent(b.dap[i], {"terminated"}), IsEvent(b.dap[j], Events)
                   PROVE  FALSE
        BY DEF EndsOnce
      <4>1. i \in 1..Len(a.dap) /\ j \in 1..Len(a.dap)
        BY <1>14, <2>2, <3>4
      <4> QED BY <1>14, <2>2, <4>1 DEF Told, EndsOnce
    <3>6. EndKnown(b.dap, b.f)
      BY <1>8, <1>14, <2>2, <3>4 DEF Told, EndKnown
    <3> QED BY <3>1, <3>2, <3>3, <3>5, <3>6 DEF Told
  <2> QED BY <2>1, <2>2
<1> QED BY <1>8, <1>9, <1>10, <1>12, <1>15 DEF b, m

(***************************************************************************)
(* Of the events that have been held back the client hears those up to the *)
(* end of the session, which is the last of them.                          *)
(***************************************************************************)
LEMMA HeardFacts ==
    ASSUME NEW names \in Seq(Deferrable), names # <<>>
    PROVE  LET n == Heard(names) IN
           /\ n \in Seq(Deferrable) /\ Len(n) \in Nat \ {0}
           /\ \A i \in 1..Len(n) : n[i] = "terminated" => i = Len(n)
           /\ \A i \in 1..Len(n) : \E j \in 1..Len(names) : n[i] = names[j]
<1> DEFINE E == Ends(names)
           k == CHOOSE i \in E : \A j \in E : i <= j
<1>1. Len(names) \in Nat \ {0} /\ \A i \in 1..Len(names) : names[i] \in Deferrable
  OBVIOUS
<1>2. CASE E = {}
  <2>1. Heard(names) = names /\ \A i \in 1..Len(names) : names[i] # "terminated"
    BY <1>2 DEF Heard, Ends
  <2> QED BY <1>1, <2>1
<1>3. CASE E # {}
  <2>1. E \subseteq Nat
    BY <1>1 DEF Ends
  <2>2. PICK i \in E : \A j \in Nat : <<j, i>> \in OpToRel(<, Nat) => j \notin E
    <3> HIDE DEF E
    <3> QED BY <1>3, <2>1, NatLessThanWellFounded, WFMin
  <2>3. \A j \in E : i <= j
    <3> SUFFICES ASSUME NEW j \in E, ~(i <= j) PROVE FALSE
      OBVIOUS
    <3>1. i \in Nat /\ j \in Nat /\ j < i
      BY <2>1
    <3>2. <<j, i>> \in OpToRel(<, Nat)
      BY <3>1 DEF OpToRel
    <3> QED BY <2>2, <3>1, <3>2
  <2>4. k \in E /\ \A j \in E : k <= j
    <3> HIDE DEF E
    <3> QED BY <2>3
  <2>5. k \in 1..Len(names) /\ names[k] = "terminated"
    BY <2>4 DEF Ends
  <2>6. \A j \in 1..Len(names) : names[j] = "terminated" => k <= j
    BY <2>4 DEF Ends
  <2>7. Heard(names) = SubSeq(names, 1, k)
    BY <1>3 DEF Heard
  <2> HIDE DEF k, E
  <2> DEFINE n == SubSeq(names, 1, k)
  <2>8. /\ n \in Seq(Deferrable) /\ Len(n) = k
        /\ \A j \in 1..k : n[j] = names[j]
    BY <1>1, <2>5
  <2> HIDE DEF n
  <2>9. ASSUME NEW j \in 1..Len(n), n[j] = "terminated" PROVE j = Len(n)
    BY <1>1, <2>5, <2>6, <2>8, <2>9
  <2>10. \A j \in 1..Len(n) : j \in 1..Len(names) /\ n[j] = names[j]
    BY <1>1, <2>5, <2>8
  <2> QED BY <1>1, <2>5, <2>7, <2>8, <2>9, <2>10 DEF n
<1> QED BY <1>2, <1>3

(* Events that follow what the client has been told.                       *)
LEMMA ToldEvents ==
    ASSUME NEW a \in States, NEW b \in States, Told(a), ~a.f.terminated,
           NEW events \in Seq(Messages),
           \A i \in 1..Len(events) : events[i].type = "event"
               /\ (events[i].name = "terminated" => i = Len(events) /\ b.f.terminated),
           b.dap = IF a.f.disposed THEN a.dap ELSE a.dap \o events,
           b.h = a.h, b.f.disposed = a.f.disposed
    PROVE  Told(b)
<1>1. a.dap \in Seq(Messages) /\ b.dap \in Seq(Messages)
  BY DEF States
<1>2. CASE a.f.disposed
  BY <1>2 DEF Told, EndKnown
<1>3. CASE ~a.f.disposed
  <2> DEFINE n == Len(a.dap)
             t == b.dap
  <2>1. n \in Nat /\ Len(events) \in Nat /\ Len(t) = n + Len(events)
    BY <1>1, <1>3
  <2>2. /\ \A i \in 1..n : t[i] = a.dap[i]
        /\ \A i \in 1..Len(t) : i \in 1..n \/ (i - n \in 1..Len(events) /\ t[i] = events[i - n])
    <3>1. /\ Len(t) = Len(a.dap) + Len(events)
          /\ \A i \in 1..Len(a.dap) + Len(events) :
                 t[i] = IF i <= Len(a.dap) THEN a.dap[i] ELSE events[i - Len(a.dap)]
      BY <1>1, <1>3, ConcatProperties
    <3> HIDE DEF t
    <3> QED BY <2>1, <3>1
  <2>3. \A i \in 1..Len(t) : i \in 1..n \/
            (i > n /\ t[i].type = "event" /\ (t[i].name = "terminated" => i = Len(t) /\ b.f.terminated))
    BY <2>1, <2>2
  <2> HIDE DEF t, n
  <2>4. \A i \in 1..Len(t) : t[i].type = "response" => i \in 1..n /\ t[i] = a.dap[i]
    BY <2>2, <2>3
  <2>5. AnswersDone(t, b.h)
    BY <2>4 DEF Told, AnswersDone, n
  <2>6. AnswersOnce(t)
    <3> SUFFICES ASSUME NEW i \in 1..Len(t), NEW j \in 1..Len(t),
                        t[i].type = "response", t[j].type = "response",
                        t[i].request = t[j].request
                 PROVE  i = j
      BY DEF AnswersOnce
    <3>1. i \in 1..n /\ j \in 1..n /\ t[i] = a.dap[i] /\ t[j] = a.dap[j]
      BY <2>4
    <3> QED BY <3>1 DEF Told, AnswersOnce, n
  <2>7. DoneAnswered(t, b.h)
    <3> SUFFICES ASSUME NEW r \in (1..Len(a.h)) \ Undone(a.h)
                 PROVE  \E i \in 1..Len(t) : Answers(t[i], r)
      BY DEF DoneAnswered
    <3>1. PICK i \in 1..n : Answers(a.dap[i], r)
      BY <1>3 DEF Told, DoneAnswered, n
    <3>2. i \in 1..Len(t) /\ t[i] = a.dap[i]
      BY <2>1, <2>2
    <3> QED BY <3>1, <3>2
  <2>8. \A i \in 1..n : ~IsEvent(t[i], {"terminated"})
    BY <2>2 DEF Told, EndKnown, n
  <2>9. EndsOnce(t)
    <3> SUFFICES ASSUME NEW i \in 1..Len(t), NEW j \in 1..Len(t), i < j,
                        IsEvent(t[i], {"terminated"})
                 PROVE  FALSE
      BY DEF EndsOnce
    <3>1. i \notin 1..n
      BY <2>8
    <3>2. i = Len(t)
      BY <2>3, <3>1 DEF IsEvent
    <3> QED BY <2>1, <3>2
  <2>10. EndKnown(t, b.f)
    <3> SUFFICES ASSUME ~b.f.terminated, NEW i \in 1..Len(t), IsEvent(t[i], {"terminated"})
                 PROVE  FALSE
      BY DEF EndKnown
    <3> QED BY <2>3, <2>8 DEF IsEvent
  <2> QED BY <2>5, <2>6, <2>7, <2>9, <2>10 DEF Told, t
<1> QED BY <1>2, <1>3

(* A state in which the methods of the adapter may be called.              *)
Sound(a, H) == a \in States /\ Owned(a, H) /\ Told(a)

(* The client has been sent no less than before, and an adapter that has   *)
(* been disposed of sends nothing.                                         *)
Extends(a, b) ==
    /\ Len(a.dap) <= Len(b.dap)
    /\ \A i \in 1..Len(a.dap) : b.dap[i] = a.dap[i]
    /\ a.f.disposed => b.dap = a.dap

(* What the client is told changes neither handlers nor promises.          *)
OnlySays(a, b) ==
    /\ b.h = a.h /\ SamePromises(a, b) /\ Extends(a, b)

(* What is sent is added to what the client has been sent before.          *)
LEMMA SentFacts ==
    ASSUME NEW a \in States, NEW events \in Seq(Messages)
    PROVE  LET d == IF a.f.disposed THEN a.dap ELSE a.dap \o events IN
           /\ Send(a, events) = [a EXCEPT !.dap = d] /\ d \in Seq(Messages)
           /\ Len(a.dap) <= Len(d) /\ \A i \in 1..Len(a.dap) : d[i] = a.dap[i]
<1>1. a.f \in Fields /\ a.dap \in Seq(Messages)
  BY DEF States
<1> DEFINE d == IF a.f.disposed THEN a.dap ELSE a.dap \o events
<1>2. /\ d \in Seq(Messages) /\ Len(a.dap) <= Len(d)
      /\ \A i \in 1..Len(a.dap) : d[i] = a.dap[i]
  <2>1. CASE a.f.disposed
    BY <1>1, <2>1
  <2>2. CASE ~a.f.disposed
    <3>1. /\ a.dap \o events \in Seq(Messages)
          /\ Len(a.dap \o events) = Len(a.dap) + Len(events)
          /\ \A i \in 1..Len(a.dap) + Len(events) :
                 (a.dap \o events)[i] =
                     IF i <= Len(a.dap) THEN a.dap[i] ELSE events[i - Len(a.dap)]
      BY <1>1, ConcatProperties
    <3>2. d = a.dap \o events /\ Len(a.dap) \in Nat /\ Len(events) \in Nat
      BY <1>1, <2>2
    <3> HIDE DEF d
    <3> QED BY <3>1, <3>2
  <2> QED BY <2>1, <2>2
<1>3. Send(a, events) = [a EXCEPT !.dap = d]
  <2>1. CASE a.f.disposed
    BY <2>1 DEF Send, States
  <2>2. CASE ~a.f.disposed
    BY <2>2 DEF Send, States
  <2> QED BY <2>1, <2>2
<1> QED BY <1>2, <1>3

Said(a, events, state, ended) ==
    [Send(a, events) EXCEPT !.f.executionState = state, !.f.terminated = ended]

(* Events keep what the client may rely on if the end is the last of them. *)
LEMMA SaidFacts ==
    ASSUME NEW a \in States, NEW H \in SUBSET Nat, Sound(a, H), ~a.f.terminated,
           NEW events \in Seq(Messages),
           NEW state \in ExecutionStates, NEW ended \in BOOLEAN,
           \A i \in 1..Len(events) : events[i].type = "event"
               /\ (events[i].name = "terminated" => i = Len(events) /\ ended)
    PROVE  LET b == Said(a, events, state, ended) IN
           /\ Sound(b, H) /\ OnlySays(a, b)
           /\ b.f.terminated = ended
           /\ b.f.deferrals = a.f.deferrals /\ b.f.deferred = a.f.deferred
<1> DEFINE d == IF a.f.disposed THEN a.dap ELSE a.dap \o events
           b == Said(a, events, state, ended)
<1>1. a.f \in Fields /\ a.dap \in Seq(Messages)
  BY DEF States
<1>2. /\ d \in Seq(Messages) /\ Len(a.dap) <= Len(d)
      /\ \A i \in 1..Len(a.dap) : d[i] = a.dap[i]
      /\ Send(a, events) = [a EXCEPT !.dap = d]
  BY SentFacts
<1>4. d = IF a.f.disposed THEN a.dap ELSE a.dap \o events
  OBVIOUS
<1> HIDE DEF d
<1>5. b = [a EXCEPT !.f = [a.f EXCEPT !.executionState = state, !.terminated = ended],
                    !.dap = d]
  BY <1>1, <1>2 DEF States, Said
<1> HIDE DEF b
<1>6. /\ b.f = [a.f EXCEPT !.executionState = state, !.terminated = ended]
      /\ b.h = a.h /\ b.dap = d /\ b.kill = a.kill
  BY <1>5 DEF States
<1>7. b.f \in Fields
  BY <1>1, <1>6 DEF Fields
<1>8. b \in States
  BY <1>2, <1>5, <1>6, <1>7 DEF States
<1>9. /\ b.f.terminated = ended /\ b.f.disposed = a.f.disposed
      /\ b.f.deferrals = a.f.deferrals /\ b.f.deferred = a.f.deferred
      /\ SamePromises(a, b)
  BY <1>1, <1>6 DEF Fields, SamePromises
<1>10. Told(b)
  <2>1. Told(a)
    BY DEF Sound
  <2>2. \A i \in 1..Len(events) : events[i].type = "event"
            /\ (events[i].name = "terminated" => i = Len(events) /\ b.f.terminated)
    BY <1>9
  <2> QED BY <1>4, <1>6, <1>8, <1>9, <2>1, <2>2, ToldEvents
<1>11. Owned(b, H)
  BY <1>6, <1>9, SamePromised DEF Sound, Owned
<1>12. Extends(a, b)
  BY <1>2, <1>4, <1>6 DEF Extends
<1> QED BY <1>6, <1>8, <1>9, <1>10, <1>11, <1>12 DEF Sound, OnlySays, b

(* A single event other than the end, while the end is not known.          *)
LEMMA SendFacts ==
    ASSUME NEW a \in States, NEW H \in SUBSET Nat, Sound(a, H), ~a.f.terminated,
           NEW name \in {"initialized", "stopped"}
    PROVE  LET b == sendEvent(a, name) IN
           /\ Sound(b, H) /\ OnlySays(a, b) /\ b.f = a.f
<1> DEFINE b == sendEvent(a, name)
           s == <<Event(name)>>
           x == a.f.executionState
           c == Said(a, s, x, FALSE)
<1>1. /\ s \in Seq(Messages) /\ Len(s) = 1
      /\ s[1].type = "event" /\ s[1].name # "terminated"
  BY DEF Event, Messages, Deferrable
<1>2. b = Send(a, s)
  BY DEF sendEvent
<1>3. /\ a.f \in Fields /\ a.f.executionState \in ExecutionStates
      /\ a.f.terminated = FALSE
  BY DEF States, Fields
<1> HIDE DEF s
<1>4. \A i \in 1..Len(s) : s[i].type = "event"
          /\ (s[i].name = "terminated" => i = Len(s) /\ FALSE)
  BY <1>1
<1>5. /\ Sound(c, H) /\ OnlySays(a, c)
  <2>1. FALSE \in BOOLEAN
    OBVIOUS
  <2> HIDE DEF x
  <2> QED BY <1>1, <1>3, <1>4, <2>1, SaidFacts, Zenon DEF x
<1>6. a.f = [a.f EXCEPT !.executionState = a.f.executionState, !.terminated = FALSE]
  BY <1>3 DEF Fields
<1>7. PICK d : d \in Seq(Messages) /\ Send(a, s) = [a EXCEPT !.dap = d]
  BY <1>1, SentFacts
<1>8. c = b /\ b.f = a.f
  <2>1. b = [a EXCEPT !.dap = d]
    BY <1>2, <1>7
  <2>2. c = [b EXCEPT !.f = [b.f EXCEPT !.executionState = a.f.executionState,
                                        !.terminated = FALSE]]
    BY <1>2, <2>1 DEF States, Said
  <2> HIDE DEF b, c
  <2>3. b.f = a.f /\ b \in States
    BY <1>3, <1>7, <2>1 DEF States
  <2>4. c = [b EXCEPT !.f = b.f]
    BY <1>6, <2>2, <2>3
  <2> QED BY <2>3, <2>4 DEF States
<1> QED BY <1>5, <1>8

(* handleProtocolEvent of several events: the last one decides the state.  *)
LEMMA TellFacts ==
    ASSUME NEW a \in States, NEW H \in SUBSET Nat, Sound(a, H), ~a.f.terminated,
           NEW names \in Seq(Deferrable), names # <<>>
    PROVE  LET b == Tell(a, Heard(names)) IN
           /\ Sound(b, H) /\ OnlySays(a, b)
           /\ b.f.deferrals = a.f.deferrals /\ b.f.deferred = a.f.deferred
           /\ b.f.terminated => \E i \in 1..Len(names) : names[i] = "terminated"
<1> DEFINE n == Heard(names)
           b == Tell(a, n)
           s == [i \in 1..Len(n) |-> Event(Shown(n[i]))]
           state == StateAfter(n[Len(n)])
           ended == (n[Len(n)] = "terminated")
<1>1. /\ n \in Seq(Deferrable) /\ Len(n) \in Nat \ {0}
      /\ \A i \in 1..Len(n) : n[i] = "terminated" => i = Len(n)
      /\ \A i \in 1..Len(n) : \E j \in 1..Len(names) : n[i] = names[j]
  BY HeardFacts
<1>2. b = Said(a, s, state, ended)
  BY DEF Tell, Said
<1> HIDE DEF n, b
<1>3. Len(n) \in 1..Len(n) /\ \A i \in 1..Len(n) : n[i] \in Deferrable
  BY <1>1
<1>4. \A i \in 1..Len(n) :
          /\ Event(Shown(n[i])) \in Messages /\ Event(Shown(n[i])).type = "event"
          /\ (Event(Shown(n[i])).name = "terminated" => n[i] = "terminated")
  BY <1>3 DEF Event, Shown, Messages, Deferrable
<1>5. /\ s \in Seq(Messages) /\ Len(s) = Len(n)
      /\ \A i \in 1..Len(n) : s[i] = Event(Shown(n[i]))
  <2>1. s \in [1..Len(n) -> Messages] /\ \A i \in 1..Len(n) : s[i] = Event(Shown(n[i]))
    BY <1>4
  <2> DEFINE l == Len(n)
  <2>2. l \in Nat /\ s \in [1..l -> Messages]
    BY <1>1, <2>1
  <2> HIDE DEF s, l
  <2>3. s \in Seq(Messages) /\ Len(s) = l
    BY <2>2
  <2> QED BY <2>1, <2>3 DEF l
<1>6. state \in ExecutionStates /\ ended \in BOOLEAN
  BY <1>3 DEF StateAfter, Deferrable, ExecutionStates
<1> HIDE DEF s, state
<1>7. \A i \in 1..Len(s) : s[i].type = "event"
          /\ (s[i].name = "terminated" => i = Len(s) /\ ended)
  BY <1>1, <1>4, <1>5
<1> HIDE DEF ended
<1>8. /\ Sound(b, H) /\ OnlySays(a, b)
      /\ b.f.deferrals = a.f.deferrals /\ b.f.deferred = a.f.deferred
      /\ b.f.terminated = ended
  BY <1>2, <1>5, <1>6, <1>7, SaidFacts
<1>10. ended => \E i \in 1..Len(names) : names[i] = "terminated"
  BY <1>1, <1>3 DEF ended
<1> QED BY <1>8, <1>10 DEF b, n

(* A state that says nothing is reached from itself.                       *)
LEMMA OnlySaysItself == ASSUME NEW a \in States PROVE OnlySays(a, a)
<1>1. Len(a.dap) \in Nat
  BY DEF States
<1> QED BY <1>1 DEF OnlySays, SamePromises, Extends

(* The same once the end is known, when nothing is said any more.          *)
LEMMA ApplyFacts ==
    ASSUME NEW a \in States, NEW H \in SUBSET Nat, Sound(a, H),
           NEW names \in Seq(Deferrable)
    PROVE  LET b == ApplyEvents(a, names) IN
           /\ Sound(b, H) /\ OnlySays(a, b)
           /\ b.f.deferrals = a.f.deferrals /\ b.f.deferred = a.f.deferred
           /\ (b.f.terminated => a.f.terminated
                                 \/ \E i \in 1..Len(names) : names[i] = "terminated")
<1>1. CASE a.f.terminated \/ names = <<>>
  <2>1. ApplyEvents(a, names) = a
    BY <1>1 DEF ApplyEvents
  <2> QED BY <2>1, OnlySaysItself
<1>2. CASE ~a.f.terminated /\ names # <<>>
  <2>1. ApplyEvents(a, names) = Tell(a, Heard(names))
    BY <1>2 DEF ApplyEvents
  <2> QED BY <1>2, <2>1, TellFacts
<1> QED BY <1>1, <1>2

(* No word of a session that moved.                                        *)
NoMove(a, b) ==
    \A i \in Len(a.dap) + 1 .. Len(b.dap) : ~IsEvent(b.dap[i], {"continued", "stopped"})

(* The end is announced unless it has been.                                *)
LEMMA TerminatesFacts ==
    ASSUME NEW a \in States, NEW H \in SUBSET Nat, Sound(a, H)
    PROVE  LET b == Terminates(a) IN
           /\ Sound(b, H) /\ OnlySays(a, b)
           /\ b.f.deferrals = a.f.deferrals /\ b.f.deferred = a.f.deferred
           /\ NoMove(a, b)
<1> USE DEF NoMove
<1>0. a.dap \in Seq(Messages) /\ Len(a.dap) \in Nat
  BY DEF States
<1>1. CASE a.f.terminated
  BY <1>0, <1>1, OnlySaysItself DEF Terminates
<1>2. CASE ~a.f.terminated
  <2> DEFINE b == Terminates(a)
             s == <<Event("terminated")>>
             c == Said(a, s, "terminated", TRUE)
  <2>1. s \in Seq(Messages) /\ Len(s) = 1 /\ s[1].type = "event"
    BY DEF Event, Messages, Deferrable
  <2>2. b = c
    <3>1. PICK d : d \in Seq(Messages) /\ Send(a, s) = [a EXCEPT !.dap = d]
      <4> HIDE DEF s
      <4> QED BY <2>1, SentFacts
    <3>2. b = [Send(a, s) EXCEPT !.f.terminated = TRUE, !.f.executionState = "terminated"]
      BY <1>2 DEF Terminates, sendEvent
    <3> DEFINE e == Send(a, s)
    <3>3. e \in States /\ e.f \in Fields
      BY <3>1 DEF States
    <3>4. /\ b = [e EXCEPT !.f.terminated = TRUE, !.f.executionState = "terminated"]
          /\ c = [e EXCEPT !.f.executionState = "terminated", !.f.terminated = TRUE]
      BY <3>2 DEF Said
    <3> HIDE DEF e, b, c
    <3>5. /\ b = [e EXCEPT !.f = [e.f EXCEPT !.terminated = TRUE,
                                             !.executionState = "terminated"]]
          /\ c = [e EXCEPT !.f = [e.f EXCEPT !.executionState = "terminated",
                                             !.terminated = TRUE]]
      BY <3>3, <3>4 DEF States, Fields
    <3>6. [e.f EXCEPT !.terminated = TRUE, !.executionState = "terminated"] =
          [e.f EXCEPT !.executionState = "terminated", !.terminated = TRUE]
      BY <3>3 DEF Fields
    <3> QED BY <3>5, <3>6
  <2>3. \A i \in 1..Len(s) : s[i].type = "event"
            /\ (s[i].name = "terminated" => i = Len(s) /\ TRUE)
    BY <2>1
  <2> DEFINE x == "terminated"
  <2>4. x \in ExecutionStates
    BY DEF ExecutionStates
  <2> DEFINE w == (s[1].type = "event")
  <2>5. /\ c = Said(a, s, x, w)
        /\ \A i \in 1..Len(s) : s[i].type = "event"
               /\ (s[i].name = "terminated" => i = Len(s) /\ w)
    BY <2>1, <2>3
  <2> HIDE DEF b, c, s, x
  <2>6. w \in BOOLEAN
    OBVIOUS
  <2> HIDE DEF w
  <2>7. /\ Sound(c, H) /\ OnlySays(a, c)
        /\ c.f.deferrals = a.f.deferrals /\ c.f.deferred = a.f.deferred
    <3>1. s \in Seq(Messages)
      BY <2>1
    <3>2. /\ Sound(Said(a, s, x, w), H) /\ OnlySays(a, Said(a, s, x, w))
          /\ Said(a, s, x, w).f.deferrals = a.f.deferrals
          /\ Said(a, s, x, w).f.deferred = a.f.deferred
      <4>1. \A i \in 1..Len(s) : s[i].type = "event"
                /\ (s[i].name = "terminated" => i = Len(s) /\ w)
        BY <2>5
      <4>2. a.f.terminated = FALSE
        BY <1>2 DEF States, Fields
      <4> HIDE <1>2, <2>5
      <4> QED BY <4>1, <4>2, <2>4, <2>6, <3>1, SaidFacts
    <3> QED BY <2>5, <3>2
  <2>8. NoMove(a, c)
    <3> DEFINE e == Event("terminated")
    <3>1. e \in Messages /\ ~IsEvent(e, {"continued", "stopped"}) /\ s = <<e>>
      BY DEF Event, Messages, Deferrable, IsEvent, s
    <3> HIDE DEF e
    <3>2. PICK d : /\ d = IF a.f.disposed THEN a.dap ELSE a.dap \o s
                   /\ Send(a, s) = [a EXCEPT !.dap = d]
      <4>1. s \in Seq(Messages)
        BY <2>1
      <4> QED BY <4>1, SentFacts
    <3>3. c.dap = d
      BY <3>2 DEF c, Said, States
    <3>4. a.dap \o s = Append(a.dap, e)
      BY <1>0, <3>1
    <3>5. CASE a.f.disposed
      BY <1>0, <3>2, <3>3, <3>5
    <3>6. CASE ~a.f.disposed
      <4>1. c.dap = Append(a.dap, e)
        BY <3>2, <3>3, <3>4, <3>6
      <4>2. Len(c.dap) = Len(a.dap) + 1 /\ c.dap[Len(a.dap) + 1] = e
        BY <1>0, <3>1, <4>1
      <4> QED BY <1>0, <3>1, <4>2
    <3> QED BY <3>5, <3>6
  <2> QED BY <2>2, <2>7, <2>8 DEF b
<1> QED BY <1>1, <1>2

(* Promises change hands without a word.                                   *)
LEMMA SilentSound ==
    ASSUME NEW a \in States, NEW b \in States, NEW H, NEW G,
           Sound(a, H), Owned(b, G), Silent(a, b)
    PROVE  Sound(b, G) /\ Extends(a, b)
<1>1. Len(a.dap) \in Nat
  BY DEF States
<1> QED BY <1>1 DEF Sound, Told, Silent, Extends, EndKnown

(* stopChild keeps the promises and the client's view.                     *)
LEMMA StopSound ==
    ASSUME NEW a \in States, NEW H \in SUBSET Nat, Sound(a, H)
    PROVE  LET b == stopChild(a) IN
           /\ Sound(b, H) /\ Silent(a, b) /\ Fewer(a, b, {}) /\ Extends(a, b)
           /\ ~b.f.ready
<1> DEFINE b == stopChild(a)
<1>1. /\ b \in States /\ Owned(b, H) /\ Silent(a, b) /\ Fewer(a, b, {}) /\ ~b.f.ready
  BY StopFacts DEF Sound
<1> HIDE DEF b
<1>2. Sound(b, H) /\ Extends(a, b)
  BY <1>1, SilentSound
<1> QED BY <1>1, <1>2 DEF b

(* rejectPending keeps the promises and the client's view.                 *)
LEMMA RejectSound ==
    ASSUME NEW a \in States, NEW H \in SUBSET Nat, Sound(a, H)
    PROVE  LET b == rejectPending(a) IN
           /\ Sound(b, H) /\ Silent(a, b) /\ Fewer(a, b, {}) /\ Extends(a, b)
           /\ b.f.pending = <<>>
<1> DEFINE b == rejectPending(a)
<1>1. /\ b \in States /\ Owned(b, H) /\ Silent(a, b) /\ Fewer(a, b, {})
      /\ b.f.pending = <<>>
  BY RejectFacts DEF Sound
<1> HIDE DEF b
<1>2. Sound(b, H) /\ Extends(a, b)
  BY <1>1, SilentSound
<1> QED BY <1>1, <1>2 DEF b

(* endProtocolEventDeferral counts down, and says nothing before the last  *)
(* one.                                                                    *)
LEMMA EndFacts ==
    ASSUME NEW a \in States, NEW H \in SUBSET Nat, Sound(a, H)
    PROVE  LET b == endDeferral(a) IN
           /\ Sound(b, H) /\ OnlySays(a, b)
           /\ b.f.deferrals = IF a.f.deferrals > 0 THEN a.f.deferrals - 1 ELSE 0
           /\ (a.f.deferrals > 1 => b.dap = a.dap)
<1> DEFINE n == IF a.f.deferrals > 0 THEN a.f.deferrals - 1 ELSE 0
           b == [a EXCEPT !.f.deferrals = IF @ > 0 THEN @ - 1 ELSE 0]
           c == [b EXCEPT !.f.deferred = <<>>]
<1>1. a.f \in Fields /\ a.f.deferrals \in Nat /\ a.f.deferred \in Seq(Deferrable)
  BY DEF States, Fields
<1>2. n \in Nat
  BY <1>1
<1>3. /\ b = [a EXCEPT !.f = [a.f EXCEPT !.deferrals = n]]
      /\ c = [a EXCEPT !.f = [a.f EXCEPT !.deferrals = n, !.deferred = <<>>]]
  BY <1>1 DEF States, Fields
<1>4. n = IF a.f.deferrals > 0 THEN a.f.deferrals - 1 ELSE 0
  OBVIOUS
<1>5. endDeferral(a) = IF b.f.deferrals > 0 THEN b ELSE ApplyEvents(c, a.f.deferred)
  BY DEF endDeferral
<1> HIDE DEF n, b, c
<1>6. /\ b.f = [a.f EXCEPT !.deferrals = n]
      /\ c.f = [a.f EXCEPT !.deferrals = n, !.deferred = <<>>]
      /\ b.h = a.h /\ b.dap = a.dap /\ b.kill = a.kill
      /\ c.h = a.h /\ c.dap = a.dap /\ c.kill = a.kill
  BY <1>3 DEF States
<1>7. <<>> \in Seq(Deferrable)
  BY EmptySeq
<1>8. b.f \in Fields /\ c.f \in Fields
  BY <1>1, <1>2, <1>6, <1>7 DEF Fields
<1>9. b \in States /\ c \in States
  BY <1>3, <1>6, <1>8 DEF States
<1>10. /\ b.f.deferrals = n /\ b.f.terminated = a.f.terminated /\ SamePromises(a, b)
       /\ c.f.deferrals = n /\ c.f.terminated = a.f.terminated /\ SamePromises(a, c)
  BY <1>1, <1>6 DEF Fields, SamePromises
<1>11. Owned(b, H) /\ Owned(c, H)
  BY <1>6, <1>10, SamePromised DEF Sound, Owned
<1>12. Told(b) /\ Told(c)
  BY <1>6, <1>10 DEF Sound, Told, EndKnown, SamePromises
<1>13. Extends(a, b) /\ Extends(a, c)
  <2>1. Len(a.dap) \in Nat
    BY DEF States
  <2> QED BY <1>6, <2>1 DEF Extends
<1>14. CASE b.f.deferrals > 0
  BY <1>4, <1>5, <1>6, <1>9, <1>10, <1>11, <1>12, <1>13, <1>14 DEF Sound, OnlySays
<1>15. CASE ~(b.f.deferrals > 0)
  <2> DEFINE d == ApplyEvents(c, a.f.deferred)
  <2>1. /\ Sound(d, H) /\ OnlySays(c, d) /\ d.f.deferrals = c.f.deferrals
    BY <1>1, <1>9, <1>11, <1>12, ApplyFacts DEF Sound
  <2>2. endDeferral(a) = d
    BY <1>5, <1>15
  <2> HIDE DEF d
  <2>3. ~(a.f.deferrals > 1)
    BY <1>1, <1>4, <1>10, <1>15
  <2>4. Extends(a, d)
    BY <1>6, <1>10, <2>1 DEF OnlySays, Extends, SamePromises
  <2>5. OnlySays(a, d)
    BY <1>6, <1>10, <2>1, <2>4 DEF OnlySays, SamePromises
  <2> QED BY <1>4, <1>10, <2>1, <2>2, <2>3, <2>5
<1> QED BY <1>14, <1>15
-----------------------------------------------------------------------------
(***************************************************************************)
(* The steps of a handler.                                                 *)
(***************************************************************************)
Stages == {"new", "ready", "reply", "exit"}
Staged(h, r, stage) == [h EXCEPT ![r].stage = stage]

(* A handler that enters another stage leaves the others alone.            *)
LEMMA StageFacts ==
    ASSUME NEW h \in Seq(Handlers), NEW r \in Undone(h), NEW stage \in Stages
    PROVE  LET g == Staged(h, r, stage) IN
           /\ g \in Seq(Handlers) /\ Len(g) = Len(h) /\ Undone(g) = Undone(h)
           /\ r \in 1..Len(h) /\ g[r].stage = stage /\ g[r].command = h[r].command
           /\ \A i \in 1..Len(h) : i # r => g[i] = h[i]
<1> DEFINE x == [h[r] EXCEPT !.stage = stage]
           g == Staged(h, r, stage)
<1>1. r \in 1..Len(h) /\ h[r] \in Handlers /\ h[r].stage # "done"
  BY ElementOfSeq DEF Undone
<1>2. /\ x \in Handlers /\ x.stage = stage /\ x.command = h[r].command
      /\ stage # "done"
  BY <1>1 DEF Handlers, Stages
<1>3. g = [h EXCEPT ![r] = x]
  BY <1>1 DEF Staged
<1> HIDE DEF x, g
<1>4. /\ g \in Seq(Handlers) /\ Len(g) = Len(h) /\ g[r] = x
      /\ \A i \in 1..Len(h) : i # r => g[i] = h[i]
  BY <1>1, <1>2, <1>3
<1>5. Undone(g) = Undone(h)
  BY <1>1, <1>2, <1>4 DEF Undone
<1> QED BY <1>1, <1>2, <1>4, <1>5 DEF g

(* A handler asks the server, or is refused at once.                       *)
Writes(a, b, command) ==
    b.f.stdin \in {a.f.stdin,
                   Append(a.f.stdin, [seq |-> a.f.protocolSeq, command |-> command])}

(* A request to the server takes over the promise of its handler.          *)
LEMMA AskFacts ==
    ASSUME NEW a \in States, NEW H \in SUBSET Nat, Sound(a, H), NEW r \in H,
           NEW command \in Commands \cup {"initialize"}
    PROVE  LET b == sendProtocolRequest(a, r, command) IN
           /\ Sound(b, H \ {r}) /\ b.h = Staged(a.h, r, "reply")
           /\ b.dap = a.dap /\ b.kill = a.kill
           /\ b.f.deferrals = a.f.deferrals /\ b.f.deferred = a.f.deferred
           /\ b.f.terminated = a.f.terminated /\ b.f.ready = a.f.ready
           /\ b.f.waiting = a.f.waiting
           /\ Writes(a, b, command)
<1> DEFINE b == sendProtocolRequest(a, r, command)
           g == Staged(a.h, r, "reply")
<1>1. /\ a.f \in Fields /\ a.h \in Seq(Handlers) /\ a.dap \in Seq(Messages)
      /\ a.kill \in BOOLEAN /\ r \in Undone(a.h) /\ Owned(a, H) /\ Told(a)
      /\ a.f.protocolSeq \in Nat /\ a.f.pending \in Seq(Entries) /\ r \in Nat
      /\ a.f.stdin \in Seq([seq : Nat, command : Commands \cup {"initialize"}])
  BY DEF States, Fields, Owned, Sound
<1>2. g \in Seq(Handlers) /\ Len(g) = Len(a.h) /\ Undone(g) = Undone(a.h)
  <2> DEFINE h == a.h
             stage == "reply"
  <2>1. stage \in Stages /\ h \in Seq(Handlers) /\ r \in Undone(h)
    BY <1>1 DEF Stages
  <2>2. g = Staged(h, r, stage)
    OBVIOUS
  <2> HIDE DEF h, stage
  <2>3. g \in Seq(Handlers) /\ Len(g) = Len(h) /\ Undone(g) = Undone(h)
    BY <2>1, <2>2, StageFacts
  <2> QED BY <2>3 DEF h
<1>3. \A b2 \in States : /\ b2.h = g /\ b2.dap = a.dap /\ b2.f.terminated = a.f.terminated
                         /\ b2.f.disposed = a.f.disposed
                         => Told(b2)
  <2> HIDE DEF g
  <2> QED BY <1>1, <1>2 DEF Told, AnswersDone, DoneAnswered, EndKnown
<1>4. CASE ~a.f.child \/ process \in {"reaped", "closed"}
  <2> DEFINE c == Settle(a, r, FALSE)
  <2>1. b = [c EXCEPT !.h = Staged(c.h, r, "reply")]
    <3>1. c \in States
      BY <1>1, SettleFacts
    <3>2. b = [c EXCEPT !.h[r].stage = "reply"]
      BY <1>4 DEF sendProtocolRequest
    <3>3. Staged(c.h, r, "reply") = [c.h EXCEPT ![r].stage = "reply"]
      BY DEF Staged
    <3> HIDE DEF b, c
    <3> QED BY <3>1, <3>2, <3>3 DEF States
  <2>2. /\ c \in States /\ Owned(c, H \ {r}) /\ Silent(a, c)
        /\ c.kill = a.kill /\ c.f.ready = a.f.ready
    BY <1>1, SettleFacts
  <2> HIDE DEF b, c
  <2>3. c.h = a.h
    BY <2>2 DEF Silent
  <2>4. b = [c EXCEPT !.h = g]
    BY <2>1, <2>3
  <2> HIDE DEF g
  <2>5. b \in States /\ b.f = c.f /\ b.h = g /\ b.dap = c.dap /\ b.kill = c.kill
    BY <1>2, <2>2, <2>4 DEF States
  <2>6. Owned(b, H \ {r})
    BY <1>2, <2>2, <2>3, <2>5 DEF Owned
  <2>7. Told(b)
    BY <1>3, <2>2, <2>5 DEF Silent
  <2>8. Writes(a, b, command)
    BY <2>2, <2>5 DEF Silent, Writes
  <2> QED BY <2>2, <2>5, <2>6, <2>7, <2>8 DEF Silent, Sound, b, g
<1>5. CASE ~(~a.f.child \/ process \in {"reaped", "closed"})
  <2> DEFINE e == [seq |-> a.f.protocolSeq, request |-> r]
             l == [seq |-> a.f.protocolSeq, command |-> command]
             p == Append(a.f.pending, e)
             q == Append(a.f.stdin, l)
             n == a.f.protocolSeq + 1
             f == [a.f EXCEPT !.protocolSeq = n, !.pending = p, !.stdin = q]
  <2>1. b = [a EXCEPT !.f = f, !.h = g]
    BY <1>1, <1>5 DEF sendProtocolRequest, States, Fields, Staged
  <2>2. e \in Entries /\ e.request = r /\ \A x \in Entries : x.request \in Nat
    BY <1>1 DEF Entries
  <2>3. Once(a.f.pending) /\ r \notin Members(a.f.pending) /\ r \notin Promised(a.f)
    BY <1>1 DEF Owned, OneQueue, Promised, Pending
  <2>4. q \in Seq([seq : Nat, command : Commands \cup {"initialize"}]) /\ n \in Nat
    BY <1>1
  <2>5. q = Append(a.f.stdin, [seq |-> a.f.protocolSeq, command |-> command])
    OBVIOUS
  <2> HIDE DEF e, q, n, g, b
  <2>6. p \in Seq(Entries) /\ Once(p) /\ Members(p) = Members(a.f.pending) \cup {r}
    <3>1. e.request \notin Members(a.f.pending)
      BY <2>2, <2>3
    <3>2. /\ p \in Seq(Entries) /\ Once(p)
          /\ Members(p) = Members(a.f.pending) \cup {e.request}
      <4> DEFINE w == a.f.pending
      <4>1. w \in Seq(Entries) /\ Once(w) /\ e.request \notin Members(w)
        BY <1>1, <2>3, <3>1
      <4>2. p = Append(w, e)
        OBVIOUS
      <4> HIDE DEF w, p
      <4>3. /\ p \in Seq(Entries) /\ Once(p) /\ Members(p) = Members(w) \cup {e.request}
        BY <2>2, <4>1, <4>2, QueueAppended
      <4> QED BY <4>3 DEF w
    <3> QED BY <2>2, <3>2
  <2> HIDE DEF p
  <2>7. /\ f.pending = p /\ f.stdin = q /\ f.microtasks = a.f.microtasks
        /\ f.waiting = a.f.waiting /\ f.ready = a.f.ready
        /\ f.deferrals = a.f.deferrals /\ f.deferred = a.f.deferred
        /\ f.terminated = a.f.terminated /\ f.disposed = a.f.disposed
    BY <1>1 DEF Fields
  <2>8. f \in Fields
    BY <1>1, <2>4, <2>6 DEF Fields
  <2> HIDE DEF f
  <2>9. b.f = f /\ b.h = g /\ b.dap = a.dap /\ b.kill = a.kill /\ b \in States
    BY <1>1, <1>2, <2>1, <2>8 DEF States
  <2>10. Told(b)
    BY <1>3, <2>7, <2>9
  <2>11. /\ Queued(b.f) = Queued(a.f) /\ Pending(b.f) = Pending(a.f) \cup {r}
         /\ Exiting(b.f) = Exiting(a.f) /\ Launching(b.f) = Launching(a.f)
    BY <2>6, <2>7, <2>9 DEF Queued, Pending, Exiting, Launching
  <2>12. OneQueue(b.f)
    BY <1>1, <2>3, <2>6, <2>7, <2>9, <2>11 DEF Owned, OneQueue, Promised
  <2>13. Owned(b, H \ {r})
    <3>1. Promised(b.f) = Promised(a.f) \cup {r}
      BY <2>11 DEF Promised
    <3> QED BY <1>1, <1>2, <2>3, <2>9, <2>12, <3>1 DEF Owned
  <2>14. Writes(a, b, command)
    BY <2>5, <2>7, <2>9 DEF Writes
  <2> QED BY <2>7, <2>9, <2>10, <2>13, <2>14 DEF Sound, b, g
<1> QED BY <1>4, <1>5

(* Handler r has gone on; the others are where they were.                  *)
Advanced(a, b, r) ==
    /\ Len(b.h) = Len(a.h) /\ b.h[r].command = a.h[r].command
    /\ \A i \in 1..Len(a.h) : i # r => b.h[i] = a.h[i]

(* The client has been sent the response to r, and nothing else.           *)
Answered(a, b, r, ok) ==
    ~a.f.disposed => /\ Len(b.dap) = Len(a.dap) + 1
                     /\ Answers(b.dap[Len(a.dap) + 1], r)
                     /\ b.dap[Len(a.dap) + 1].ok = ok

(* A reply keeps the promises and the client's view.                       *)
LEMMA ReplySound ==
    ASSUME NEW a \in States, NEW H \in SUBSET Nat, Sound(a, H),
           NEW r \in H, NEW ok \in BOOLEAN
    PROVE  LET b == Reply(a, r, ok) IN
           /\ Sound(b, H \ {r}) /\ b.f = a.f /\ b.kill = a.kill
           /\ Advanced(a, b, r) /\ b.h[r].stage = "done" /\ b.h[r].ok = ok
           /\ Extends(a, b) /\ Answered(a, b, r, ok)
<1> DEFINE b == Reply(a, r, ok)
           m == Response(a, r, ok)
<1>1. /\ b \in States /\ Owned(b, H \ {r}) /\ Told(b)
      /\ b.f = a.f /\ b.kill = a.kill
      /\ b.h = Replied(a.h, r, ok)
      /\ Len(b.h) = Len(a.h)
      /\ b.dap = IF a.f.disposed THEN a.dap ELSE Append(a.dap, m)
  BY ReplyFacts DEF Sound
<1>2. a.h \in Seq(Handlers) /\ a.dap \in Seq(Messages)
  BY DEF States
<1>3. r \in 1..Len(a.h)
  BY DEF Sound, Owned, Undone
<1>4. a.h[r] \in Handlers
  BY <1>2, <1>3, ElementOfSeq
<1>5. m \in Messages /\ m.type = "response" /\ m.request = r /\ m.ok = ok
  BY <1>2, <1>3, <1>4 DEF Response, Messages, Handlers
<1> HIDE DEF b, m
<1>6. Advanced(a, b, r) /\ b.h[r].stage = "done" /\ b.h[r].ok = ok
  <2> DEFINE x == [a.h[r] EXCEPT !.stage = "done", !.ok = ok]
  <2>1. /\ x \in Handlers /\ x.stage = "done" /\ x.ok = ok
        /\ x.command = a.h[r].command
    BY <1>4 DEF Handlers
  <2>2. b.h = [a.h EXCEPT ![r] = x]
    BY <1>1, <1>2, <1>3, <1>4 DEF Handlers, Replied
  <2> HIDE DEF x
  <2> QED BY <1>1, <1>2, <1>3, <2>1, <2>2 DEF Advanced
<1>7. ASSUME ~a.f.disposed
      PROVE  /\ Len(b.dap) = Len(a.dap) + 1 /\ Len(a.dap) \in Nat
             /\ b.dap[Len(a.dap) + 1] = m
             /\ \A i \in 1..Len(a.dap) : b.dap[i] = a.dap[i]
  BY <1>1, <1>2, <1>5, <1>7
<1>8. Extends(a, b)
  <2>1. CASE a.f.disposed
    BY <1>1, <1>2, <2>1 DEF Extends
  <2>2. CASE ~a.f.disposed
    BY <1>7, <2>2 DEF Extends
  <2> QED BY <2>1, <2>2
<1> QED BY <1>1, <1>5, <1>6, <1>7, <1>8 DEF Sound, Answers, Answered, b

Moving == Executions \cup {"disconnect", "terminate"}
Waits(h) == {r \in 1..Len(h) : h[r].command \in Moving /\ h[r].stage \in {"reply", "exit"}}

(* The commands that wait can be counted.                                  *)
LEMMA WaitsFinite ==
    ASSUME NEW h \in Seq(Handlers)
    PROVE  IsFiniteSet(Waits(h)) /\ Cardinality(Waits(h)) \in Nat
<1>1. IsFiniteSet(1..Len(h))
  <2>1. Len(h) \in Nat
    OBVIOUS
  <2> QED BY <2>1, FS_Interval
<1>2. Waits(h) \subseteq 1..Len(h)
  BY DEF Waits
<1> QED BY <1>1, <1>2, FS_Subset, FS_CardinalityType

(* A command that is answered waits no longer; the others do.              *)
LEMMA WaitsFewer ==
    ASSUME NEW a \in States, NEW b, NEW r \in Waits(a.h), Advanced(a, b, r),
           b.h[r].stage = "done"
    PROVE  /\ Waits(b.h) = Waits(a.h) \ {r}
           /\ Cardinality(Waits(b.h)) = Cardinality(Waits(a.h)) - 1
           /\ Cardinality(Waits(a.h)) \in Nat \ {0}
           /\ Cardinality(Waits(a.h)) = 1 => Waits(a.h) = {r}
<1>1. a.h \in Seq(Handlers)
  BY DEF States
<1>2. IsFiniteSet(Waits(a.h)) /\ Cardinality(Waits(a.h)) \in Nat
  BY <1>1, WaitsFinite
<1>3. Waits(b.h) = Waits(a.h) \ {r}
  BY DEF Waits, Advanced
<1>4. /\ Cardinality(Waits(a.h) \ {r}) = Cardinality(Waits(a.h)) - 1
      /\ IsFiniteSet(Waits(a.h) \ {r})
  BY <1>2, FS_RemoveElement
<1>5. Cardinality(Waits(a.h) \ {r}) \in Nat
  BY <1>4, FS_CardinalityType
<1>6. ASSUME Cardinality(Waits(a.h)) = 1 PROVE Waits(a.h) = {r}
  <2>1. Waits(a.h) \ {r} = {}
    BY <1>4, <1>6, FS_EmptySet
  <2> QED BY <2>1
<1>7. Cardinality(Waits(a.h)) # 0
  BY <1>2, <1>4, <1>5
<1> QED BY <1>2, <1>3, <1>4, <1>6, <1>7

(* Of a request that moves or ends the session the client is told before   *)
(* it is told that the session moved, or that the request has failed.      *)
Ordered(a, b) ==
    \A r \in Waits(a.h), i \in Len(a.dap) + 1 .. Len(b.dap) :
        IsEvent(b.dap[i], {"continued", "stopped"})
        => \E j \in 1..Len(b.dap) : Answers(b.dap[j], r) /\ (j < i \/ ~b.dap[j].ok)

(* Reply first, then end the deferral: what was deferred follows the       *)
(* response.                                                               *)
LEMMA FinishFacts ==
    ASSUME NEW a \in States, NEW r \in Waits(a.h), Sound(a, {r}),
           a.f.deferrals = Cardinality(Waits(a.h)), NEW ok \in BOOLEAN
    PROVE  LET c == endDeferral(Reply(a, r, ok)) IN
           /\ Sound(c, {}) /\ c.f.deferrals = Cardinality(Waits(c.h))
           /\ Ordered(a, c) /\ SamePromises(a, c) /\ Extends(a, c)
           /\ Advanced(a, c, r) /\ c.h[r].stage = "done"
<1> DEFINE b == Reply(a, r, ok)
           c == endDeferral(b)
<1>1. r \in Nat /\ {r} \in SUBSET Nat /\ {r} \ {r} = {} /\ {} \in SUBSET Nat
  BY DEF Waits
<1>2. /\ Sound(b, {}) /\ b.f = a.f /\ b.kill = a.kill
      /\ Advanced(a, b, r) /\ b.h[r].stage = "done" /\ Extends(a, b)
      /\ Answered(a, b, r, ok)
  <2> DEFINE H == {r}
  <2>1. H \in SUBSET Nat /\ Sound(a, H) /\ r \in H /\ H \ {r} = {}
    BY <1>1
  <2> HIDE DEF H, b
  <2>2. b = Reply(a, r, ok)
    BY DEF b
  <2>3. /\ Sound(b, H \ {r}) /\ b.f = a.f /\ b.kill = a.kill
        /\ Advanced(a, b, r) /\ b.h[r].stage = "done" /\ Extends(a, b)
        /\ Answered(a, b, r, ok)
    BY <2>1, <2>2, ReplySound
  <2> QED BY <2>1, <2>3
<1> HIDE DEF b
<1>3. b \in States
  BY <1>2 DEF Sound
<1>4. /\ Sound(c, {}) /\ OnlySays(b, c)
      /\ c.f.deferrals = IF b.f.deferrals > 0 THEN b.f.deferrals - 1 ELSE 0
      /\ (b.f.deferrals > 1 => c.dap = b.dap)
  BY <1>1, <1>2, <1>3, EndFacts
<1> HIDE DEF c
<1>5. c.h = b.h /\ SamePromises(b, c) /\ Extends(b, c)
  BY <1>4 DEF OnlySays
<1>6. /\ Cardinality(Waits(c.h)) = Cardinality(Waits(a.h)) - 1
      /\ Cardinality(Waits(a.h)) \in Nat \ {0}
      /\ Cardinality(Waits(a.h)) = 1 => Waits(a.h) = {r}
  BY <1>2, <1>5, WaitsFewer
<1>7. c.f.deferrals = Cardinality(Waits(c.h))
  BY <1>2, <1>4, <1>6
<1>8. SamePromises(a, c) /\ Advanced(a, c, r) /\ c.h[r].stage = "done"
  BY <1>2, <1>5 DEF SamePromises, Advanced
<1>9. Len(a.dap) \in Nat /\ Len(b.dap) \in Nat /\ c \in States /\ Len(c.dap) \in Nat
  BY <1>3, <1>4 DEF States, Sound
<1>10. Extends(a, c)
  BY <1>2, <1>5, <1>9 DEF Extends
<1>11. Ordered(a, c)
  <2> SUFFICES ASSUME NEW x \in Waits(a.h), NEW i \in Len(a.dap) + 1 .. Len(c.dap),
                      IsEvent(c.dap[i], {"continued", "stopped"})
               PROVE  \E j \in 1..Len(c.dap) :
                          Answers(c.dap[j], x) /\ (j < i \/ ~c.dap[j].ok)
    BY DEF Ordered
  <2>1. ~a.f.disposed
    BY <1>9, <1>10 DEF Extends
  <2> DEFINE j == Len(a.dap) + 1
  <2>2. j \in 1..Len(b.dap) /\ Len(b.dap) = j /\ Answers(b.dap[j], r)
    BY <1>2, <1>9, <2>1 DEF Answered
  <2>3. j \in 1..Len(c.dap) /\ c.dap[j] = b.dap[j]
    BY <1>5, <1>9, <2>2 DEF Extends
  <2>4. j # i
    BY <2>2, <2>3 DEF Answers, IsEvent
  <2>5. j < i
    BY <1>9, <2>4
  <2>6. c.dap # b.dap
    BY <1>9, <2>2, <2>5
  <2>7. Waits(a.h) = {r}
    BY <1>2, <1>4, <1>6, <2>6
  <2> QED BY <2>2, <2>3, <2>5, <2>7
<1> QED BY <1>4, <1>7, <1>8, <1>10, <1>11 DEF b, c

(* End the deferral first, then reply with an error: what was deferred     *)
(* precedes it.                                                            *)
LEMMA FailFacts ==
    ASSUME NEW a \in States, NEW r \in Waits(a.h), Sound(a, {r}),
           a.f.deferrals = Cardinality(Waits(a.h)), NEW ok \in BOOLEAN, ok = FALSE
    PROVE  LET c == Reply(endDeferral(a), r, ok) IN
           /\ Sound(c, {}) /\ c.f.deferrals = Cardinality(Waits(c.h))
           /\ Ordered(a, c) /\ SamePromises(a, c) /\ Extends(a, c)
           /\ Advanced(a, c, r) /\ c.h[r].stage = "done"
<1> DEFINE b == endDeferral(a)
           c == Reply(b, r, ok)
           H == {r}
<1>1. r \in Nat /\ H \in SUBSET Nat /\ H \ {r} = {} /\ r \in H /\ Sound(a, H)
  BY DEF Waits
<1> HIDE DEF H
<1>2. /\ Sound(b, H) /\ OnlySays(a, b)
      /\ b.f.deferrals = IF a.f.deferrals > 0 THEN a.f.deferrals - 1 ELSE 0
      /\ (a.f.deferrals > 1 => b.dap = a.dap)
  BY <1>1, EndFacts
<1> HIDE DEF b
<1>3. b \in States
  BY <1>2 DEF Sound
<1>4. /\ Sound(c, H \ {r}) /\ c.f = b.f /\ c.kill = b.kill
      /\ Advanced(b, c, r) /\ c.h[r].stage = "done" /\ Extends(b, c)
      /\ Answered(b, c, r, ok)
  BY <1>1, <1>2, <1>3, ReplySound
<1> HIDE DEF c
<1>5. b.h = a.h /\ SamePromises(a, b) /\ Extends(a, b)
  BY <1>2 DEF OnlySays
<1>6. /\ Cardinality(Waits(c.h)) = Cardinality(Waits(b.h)) - 1
      /\ Cardinality(Waits(b.h)) \in Nat \ {0}
      /\ Cardinality(Waits(b.h)) = 1 => Waits(b.h) = {r}
  BY <1>3, <1>4, <1>5, WaitsFewer
<1>7. c.f.deferrals = Cardinality(Waits(c.h))
  BY <1>2, <1>4, <1>5, <1>6
<1>8. SamePromises(a, c) /\ Advanced(a, c, r)
  BY <1>4, <1>5 DEF SamePromises, Advanced
<1>9. Len(a.dap) \in Nat /\ Len(b.dap) \in Nat /\ c \in States /\ Len(c.dap) \in Nat
  BY <1>3, <1>4 DEF States, Sound
<1>10. Extends(a, c)
  <2>1. b.f.disposed = a.f.disposed
    BY <1>5 DEF SamePromises
  <2> QED BY <1>4, <1>5, <1>9, <2>1 DEF Extends
<1>11. Ordered(a, c)
  <2> SUFFICES ASSUME NEW x \in Waits(a.h), NEW i \in Len(a.dap) + 1 .. Len(c.dap),
                      IsEvent(c.dap[i], {"continued", "stopped"})
               PROVE  \E j \in 1..Len(c.dap) :
                          Answers(c.dap[j], x) /\ (j < i \/ ~c.dap[j].ok)
    BY DEF Ordered
  <2>1. ~a.f.disposed
    BY <1>9, <1>10 DEF Extends
  <2> DEFINE j == Len(b.dap) + 1
  <2>2. /\ j \in 1..Len(c.dap) /\ Len(c.dap) = j
        /\ Answers(c.dap[j], r) /\ c.dap[j].ok = FALSE
    BY <1>4, <1>5, <1>9, <2>1 DEF Answered, SamePromises
  <2>3. j # i
    BY <2>2 DEF Answers, IsEvent
  <2>4. b.dap # a.dap
    BY <1>9, <2>2, <2>3
  <2>5. Waits(a.h) = {r}
    BY <1>2, <1>5, <1>6, <2>4
  <2> QED BY <2>2, <2>5
<1> QED BY <1>1, <1>4, <1>7, <1>8, <1>10, <1>11 DEF b, c

(* A handler has taken its step, and every other request is as it was.     *)
Progress(a, b, r) ==
    /\ Sound(b, {}) /\ b.f.deferrals = Cardinality(Waits(b.h)) /\ Ordered(a, b)
    /\ Advanced(a, b, r) /\ b.h[r].stage \in {"reply", "exit", "done"}
    /\ (b.f.ready => a.f.ready) /\ Exiting(b.f) \subseteq Exiting(a.f) \cup {r}

(* The first order as a step of a handler.                                 *)
LEMMA FinishProgress ==
    ASSUME NEW a \in States, NEW r \in Waits(a.h), Sound(a, {r}),
           a.f.deferrals = Cardinality(Waits(a.h)), NEW ok \in BOOLEAN
    PROVE  Progress(a, endDeferral(Reply(a, r, ok)), r)
<1> DEFINE c == endDeferral(Reply(a, r, ok))
<1>1. /\ Sound(c, {}) /\ c.f.deferrals = Cardinality(Waits(c.h))
      /\ Ordered(a, c) /\ SamePromises(a, c)
      /\ Advanced(a, c, r) /\ c.h[r].stage = "done"
  BY FinishFacts
<1> HIDE DEF c
<1>2. Progress(a, c, r)
  BY <1>1 DEF Progress, SamePromises, Exiting
<1> QED BY <1>2 DEF c

(* The second order as a step of a handler.                                *)
LEMMA FailProgress ==
    ASSUME NEW a \in States, NEW r \in Waits(a.h), Sound(a, {r}),
           a.f.deferrals = Cardinality(Waits(a.h)),
           NEW b \in States, Sound(b, {r}), b.h = a.h, b.dap = a.dap,
           b.f.deferrals = a.f.deferrals, b.f.ready => a.f.ready,
           b.f.waiting = a.f.waiting, NEW ok \in BOOLEAN, ok = FALSE
    PROVE  Progress(a, Reply(endDeferral(b), r, ok), r)
<1> DEFINE c == Reply(endDeferral(b), r, ok)
<1>1. /\ Sound(c, {}) /\ c.f.deferrals = Cardinality(Waits(c.h))
      /\ Ordered(b, c) /\ SamePromises(b, c)
      /\ Advanced(b, c, r) /\ c.h[r].stage = "done"
  BY FailFacts
<1> HIDE DEF c
<1>2. Ordered(a, c) /\ Advanced(a, c, r)
  BY <1>1 DEF Ordered, Advanced
<1>3. Progress(a, c, r)
  BY <1>1, <1>2 DEF Progress, SamePromises, Exiting
<1> QED BY <1>3 DEF c

(* The execution state decides about no promise.                           *)
LEMMA StateSet ==
    ASSUME NEW a \in States, NEW H, Sound(a, H), NEW s \in ExecutionStates
    PROVE  LET b == [a EXCEPT !.f.executionState = s] IN
           /\ Sound(b, H) /\ SamePromises(a, b) /\ b.h = a.h /\ b.dap = a.dap
           /\ b.f.deferrals = a.f.deferrals /\ b.f.deferred = a.f.deferred
           /\ b.f.terminated = a.f.terminated
<1> DEFINE b == [a EXCEPT !.f.executionState = s]
           f == [a.f EXCEPT !.executionState = s]
<1>1. a.f \in Fields
  BY DEF States
<1>2. b = [a EXCEPT !.f = f]
  BY <1>1 DEF States
<1>3. /\ f \in Fields /\ f.microtasks = a.f.microtasks /\ f.pending = a.f.pending
      /\ f.waiting = a.f.waiting /\ f.ready = a.f.ready
      /\ f.stdin = a.f.stdin /\ f.child = a.f.child
      /\ f.disposed = a.f.disposed /\ f.reading = a.f.reading
      /\ f.protocolSeq = a.f.protocolSeq
      /\ f.entryStoppedSent = a.f.entryStoppedSent
      /\ f.deferrals = a.f.deferrals /\ f.deferred = a.f.deferred
      /\ f.terminated = a.f.terminated
  BY <1>1 DEF Fields
<1> HIDE DEF f, b
<1>4. b.f = f /\ b.h = a.h /\ b.dap = a.dap /\ b.kill = a.kill /\ b \in States
  BY <1>2, <1>3 DEF States
<1>5. SamePromises(a, b)
  BY <1>3, <1>4 DEF SamePromises
<1>6. Owned(b, H)
  BY <1>4, <1>5, SamePromised DEF Sound, Owned
<1>7. Told(b)
  BY <1>3, <1>4 DEF Sound, Told, EndKnown
<1> QED BY <1>3, <1>4, <1>5, <1>6, <1>7 DEF Sound, b

(* handleExecutionCommand after its await.                                 *)
LEMMA ExecutionFacts ==
    ASSUME NEW a \in States, NEW r \in Waits(a.h), Sound(a, {r}),
           a.f.deferrals = Cardinality(Waits(a.h)), NEW ok \in BOOLEAN
    PROVE  Progress(a, ExecutionContinues(a, r, ok), r)
<1>1. CASE ok
  <2>1. ExecutionContinues(a, r, ok) = endDeferral(Reply(a, r, ok))
    BY <1>1 DEF ExecutionContinues
  <2> QED BY <2>1, FinishProgress
<1>2. CASE ~ok
  <2> DEFINE s == a.h[r].previous
             b == [a EXCEPT !.f.executionState = s]
  <2>1. ExecutionContinues(a, r, ok) = Reply(endDeferral(b), r, ok)
    BY <1>2 DEF ExecutionContinues
  <2>2. s \in ExecutionStates
    <3>1. a.h[r] \in Handlers
      BY ElementOfSeq DEF States, Waits
    <3> QED BY <3>1 DEF Handlers
  <2>3. /\ Sound(b, {r}) /\ SamePromises(a, b) /\ b.h = a.h /\ b.dap = a.dap
        /\ b.f.deferrals = a.f.deferrals
    <3> HIDE DEF s
    <3> QED BY <2>2, StateSet
  <2> HIDE DEF b
  <2>4. b \in States /\ b.f.ready = a.f.ready /\ b.f.waiting = a.f.waiting
    BY <2>3 DEF Sound, SamePromises
  <2>5. ok = FALSE
    BY <1>2
  <2>6. Progress(a, Reply(endDeferral(b), r, ok), r)
    BY <2>3, <2>4, <2>5, FailProgress
  <2> QED BY <2>1, <2>6
<1> QED BY <1>1, <1>2

(* The end of a handler that has stopped the server.                       *)
LEMMA StoppedProgress ==
    ASSUME NEW a \in States, NEW r \in Waits(a.h), Sound(a, {r}),
           a.f.deferrals = Cardinality(Waits(a.h)), NEW ok \in BOOLEAN, ok = FALSE
    PROVE  Progress(a, Reply(endDeferral(stopChild(a)), r, ok), r)
<1> DEFINE b == stopChild(a)
           H == {r}
<1>1. H \in SUBSET Nat /\ Sound(a, H)
  BY DEF Waits
<1> HIDE DEF H
<1>2. Sound(b, H) /\ Silent(a, b) /\ Fewer(a, b, {})
  BY <1>1, StopSound
<1> HIDE DEF b
<1>3. /\ b \in States /\ b.h = a.h /\ b.dap = a.dap
      /\ b.f.deferrals = a.f.deferrals /\ (b.f.ready => a.f.ready)
      /\ b.f.waiting = a.f.waiting
  BY <1>2 DEF Sound, Silent, Fewer
<1>4. Sound(b, {r})
  BY <1>2 DEF H
<1>5. Progress(a, Reply(endDeferral(b), r, ok), r)
  BY <1>3, <1>4, FailProgress
<1> QED BY <1>5 DEF b

(* handleDisconnect after its await.                                       *)
LEMMA DisconnectFacts ==
    ASSUME NEW a \in States, NEW r \in Waits(a.h), Sound(a, {r}),
           a.f.deferrals = Cardinality(Waits(a.h)), NEW ok \in BOOLEAN
    PROVE  Progress(a, DisconnectContinues(a, r, ok), r)
<1>1. CASE ok
  <2>1. DisconnectContinues(a, r, ok) = endDeferral(Reply(a, r, ok))
    BY <1>1 DEF DisconnectContinues
  <2> QED BY <2>1, FinishProgress
<1>2. CASE ~ok
  <2>1. DisconnectContinues(a, r, ok) = Reply(endDeferral(stopChild(a)), r, ok)
    BY <1>2 DEF DisconnectContinues
  <2>2. ok = FALSE
    BY <1>2
  <2> QED BY <2>1, <2>2, StoppedProgress
<1> QED BY <1>1, <1>2

(* The handler goes on to wait for the exit of the child.                  *)
LEMMA ExitStage ==
    ASSUME NEW a \in States, NEW r \in Waits(a.h), Sound(a, {r})
    PROVE  LET g == Staged(a.h, r, "exit") IN
           /\ g \in Seq(Handlers) /\ Undone(g) = Undone(a.h) /\ Waits(g) = Waits(a.h)
           /\ Len(g) = Len(a.h) /\ g[r].stage = "exit" /\ g[r].command = a.h[r].command
           /\ \A i \in 1..Len(a.h) : i # r => g[i] = a.h[i]
<1> DEFINE h == a.h
           stage == "exit"
           g == Staged(h, r, stage)
<1>1. stage \in Stages /\ h \in Seq(Handlers) /\ r \in Undone(h)
  BY DEF Stages, Sound, Owned, States
<1>2. r \in Waits(h) /\ stage = "exit"
  OBVIOUS
<1> HIDE DEF h, stage
<1>3. /\ g \in Seq(Handlers) /\ Undone(g) = Undone(h)
      /\ Len(g) = Len(h) /\ g[r].stage = stage /\ g[r].command = h[r].command
      /\ \A i \in 1..Len(h) : i # r => g[i] = h[i]
  BY <1>1, StageFacts
<1> HIDE DEF g
<1>4. Waits(g) = Waits(h)
  BY <1>2, <1>3 DEF Waits
<1> QED BY <1>2, <1>3, <1>4 DEF g, h, stage

(* handleTerminate goes on to wait for the exit of the child.              *)
LEMMA WaitingProgress ==
    ASSUME NEW a \in States, NEW r \in Waits(a.h), Sound(a, {r}),
           a.f.deferrals = Cardinality(Waits(a.h)), NEW b,
           b = [a EXCEPT !.h[r].stage = "exit", !.f.waiting = Append(@, Task(r, TRUE))]
    PROVE  Progress(a, b, r)
<1> DEFINE g == Staged(a.h, r, "exit")
           e == Task(r, TRUE)
           q == a.f.waiting
           w == Append(q, e)
           f == [a.f EXCEPT !.waiting = w]
<1>1. /\ a.f \in Fields /\ q \in Seq(Tasks) /\ a.dap \in Seq(Messages) /\ r \in Nat
      /\ Owned(a, {r}) /\ Told(a) /\ a.kill \in BOOLEAN
  BY DEF States, Fields, Sound, Waits
<1>2. /\ g \in Seq(Handlers) /\ Undone(g) = Undone(a.h) /\ Waits(g) = Waits(a.h)
      /\ Len(g) = Len(a.h) /\ g[r].stage = "exit" /\ g[r].command = a.h[r].command
      /\ \A i \in 1..Len(a.h) : i # r => g[i] = a.h[i]
  BY ExitStage
<1>3. b = [a EXCEPT !.f = f, !.h = g]
  BY <1>1 DEF Staged, States, Fields
<1> HIDE DEF g
<1>4. e \in Tasks /\ e.request = r /\ \A x \in Tasks : x.request \in Nat
  BY <1>1 DEF Task, Tasks
<1> HIDE DEF e
<1>5. Once(q) /\ r \notin Members(q) /\ r \notin Promised(a.f)
  BY <1>1 DEF Owned, OneQueue, Promised, Exiting
<1>6. w \in Seq(Tasks) /\ Once(w) /\ Members(w) = Members(q) \cup {r}
  <2>1. e.request \notin Members(q)
    BY <1>4, <1>5
  <2>2. /\ w \in Seq(Tasks) /\ Once(w) /\ Members(w) = Members(q) \cup {e.request}
    <3> HIDE DEF q
    <3> QED BY <1>1, <1>4, <1>5, <2>1, QueueAppended
  <2> QED BY <1>4, <2>2
<1> HIDE DEF w
<1>7. /\ f \in Fields /\ f.waiting = w
      /\ f.microtasks = a.f.microtasks /\ f.pending = a.f.pending
      /\ f.ready = a.f.ready /\ f.disposed = a.f.disposed
      /\ f.terminated = a.f.terminated /\ f.deferrals = a.f.deferrals
  BY <1>1, <1>6 DEF Fields
<1> HIDE DEF f
<1>8. b.f = f /\ b.h = g /\ b.dap = a.dap /\ b \in States
  BY <1>1, <1>2, <1>3, <1>7 DEF States
<1>9. /\ Queued(b.f) = Queued(a.f) /\ Pending(b.f) = Pending(a.f)
      /\ Exiting(b.f) = Exiting(a.f) \cup {r} /\ Launching(b.f) = Launching(a.f)
  BY <1>6, <1>7, <1>8 DEF Queued, Pending, Exiting, Launching
<1>10. OneQueue(b.f)
  BY <1>1, <1>5, <1>6, <1>7, <1>8, <1>9 DEF Owned, OneQueue, Promised
<1>11. Owned(b, {})
  <2>1. Promised(b.f) = Promised(a.f) \cup {r}
    BY <1>9 DEF Promised
  <2> QED BY <1>1, <1>2, <1>8, <1>10, <2>1 DEF Owned
<1>12. Told(b)
  BY <1>1, <1>2, <1>7, <1>8 DEF Told, AnswersDone, DoneAnswered, EndKnown
<1>13. Ordered(a, b)
  <2>1. Len(a.dap) \in Nat
    BY <1>1
  <2> QED BY <1>8, <2>1 DEF Ordered
<1>14. Advanced(a, b, r)
  BY <1>2, <1>8 DEF Advanced
<1> QED BY <1>2, <1>7, <1>8, <1>9, <1>11, <1>12, <1>13, <1>14 DEF Progress, Sound

(* handleTerminate when the child has exited already.                      *)
LEMMA ExitedProgress ==
    ASSUME NEW a \in States, NEW r \in Waits(a.h), Sound(a, {r}),
           a.f.deferrals = Cardinality(Waits(a.h))
    PROVE  Progress(a, [Settle(a, r, TRUE) EXCEPT !.h[r].stage = "exit"], r)
<1> DEFINE g == Staged(a.h, r, "exit")
           c == Settle(a, r, TRUE)
           b == [c EXCEPT !.h[r].stage = "exit"]
           H == {r}
<1>1. r \in Nat /\ H \in SUBSET Nat /\ H \ {r} = {} /\ r \in H /\ Owned(a, H) /\ Told(a)
  BY DEF Sound, Waits
<1> HIDE DEF H
<1>2. /\ g \in Seq(Handlers) /\ Undone(g) = Undone(a.h) /\ Waits(g) = Waits(a.h)
      /\ Len(g) = Len(a.h) /\ g[r].stage = "exit" /\ g[r].command = a.h[r].command
      /\ \A i \in 1..Len(a.h) : i # r => g[i] = a.h[i]
  BY ExitStage
<1>3. c \in States /\ Owned(c, {}) /\ Silent(a, c) /\ c.f.ready = a.f.ready
  BY <1>1, SettleFacts
<1>4. b = [c EXCEPT !.h[r].stage = "exit"]
  OBVIOUS
<1> HIDE DEF b, c
<1>5. b = [c EXCEPT !.h = g]
  <2>1. c.h = a.h
    BY <1>3 DEF Silent
  <2> QED BY <1>3, <1>4, <2>1 DEF Staged, States
<1> HIDE DEF g
<1>6. b.f = c.f /\ b.h = g /\ b.dap = c.dap /\ b \in States
  BY <1>2, <1>3, <1>5 DEF States
<1>7. Owned(b, {})
  BY <1>2, <1>3, <1>6 DEF Owned, Silent
<1>8. Told(b)
  BY <1>1, <1>2, <1>3, <1>6 DEF Told, AnswersDone, DoneAnswered, EndKnown, Silent
<1>9. Ordered(a, b)
  <2>1. Len(a.dap) \in Nat
    BY DEF States
  <2>2. b.dap = a.dap
    BY <1>3, <1>6 DEF Silent
  <2>3. \A i \in Len(a.dap) + 1 .. Len(b.dap) : FALSE
    BY <2>1, <2>2
  <2> QED BY <2>3 DEF Ordered
<1>10. Advanced(a, b, r)
  BY <1>2, <1>6 DEF Advanced
<1>11. Exiting(b.f) = Exiting(a.f) /\ b.f.deferrals = Cardinality(Waits(b.h))
  BY <1>2, <1>3, <1>6 DEF Exiting, Silent
<1>12. Progress(a, b, r)
  BY <1>2, <1>3, <1>6, <1>7, <1>8, <1>9, <1>10, <1>11 DEF Progress, Sound
<1> QED BY <1>12 DEF b, c

(* What follows keeps the order as long as it says of no move.             *)
LEMMA OrderedOn ==
    ASSUME NEW a \in States, NEW b \in States, NEW d \in States,
           Ordered(a, b), Extends(b, d), NoMove(b, d)
    PROVE  Ordered(a, d)
<1> SUFFICES ASSUME NEW x \in Waits(a.h), NEW i \in Len(a.dap) + 1 .. Len(d.dap),
                    IsEvent(d.dap[i], {"continued", "stopped"})
             PROVE  \E j \in 1..Len(d.dap) :
                        Answers(d.dap[j], x) /\ (j < i \/ ~d.dap[j].ok)
  BY DEF Ordered
<1>1. /\ Len(a.dap) \in Nat /\ Len(b.dap) \in Nat /\ Len(d.dap) \in Nat
  BY DEF States
<1>2. Len(b.dap) <= Len(d.dap) /\ \A j \in 1..Len(b.dap) : d.dap[j] = b.dap[j]
  BY DEF Extends
<1>3. i \in Len(a.dap) + 1 .. Len(b.dap)
  BY <1>1 DEF NoMove
<1>4. d.dap[i] = b.dap[i]
  BY <1>1, <1>2, <1>3
<1>5. PICK j \in 1..Len(b.dap) : Answers(b.dap[j], x) /\ (j < i \/ ~b.dap[j].ok)
  BY <1>3, <1>4 DEF Ordered
<1>6. j \in 1..Len(d.dap) /\ d.dap[j] = b.dap[j]
  BY <1>1, <1>2
<1> QED BY <1>5, <1>6

(* handleTerminate after its awaits.                                       *)
LEMMA TerminateFacts ==
    ASSUME NEW a \in States, NEW r \in Waits(a.h), Sound(a, {r}),
           a.f.deferrals = Cardinality(Waits(a.h)), NEW ok \in BOOLEAN
    PROVE  Progress(a, TerminateContinues(a, r, ok), r)
<1>1. CASE ~ok
  <2>1. TerminateContinues(a, r, ok) = Reply(endDeferral(stopChild(a)), r, ok)
    BY <1>1 DEF TerminateContinues
  <2>2. ok = FALSE
    BY <1>1
  <2> QED BY <2>1, <2>2, StoppedProgress
<1>2. CASE ok /\ a.h[r].stage = "reply" /\ a.f.child
  BY <1>2, WaitingProgress, ExitedProgress DEF TerminateContinues
<1>3. CASE ok /\ ~(a.h[r].stage = "reply" /\ a.f.child)
  <2> DEFINE b == endDeferral(Reply(a, r, ok))
             c == rejectPending(b)
             d == Terminates(c)
  <2>1. TerminateContinues(a, r, ok) = IF b.f.terminated THEN b ELSE d
    BY <1>3 DEF TerminateContinues
  <2>2. Progress(a, b, r)
    BY FinishProgress
  <2> HIDE DEF b
  <2>3. b \in States /\ Sound(b, {}) /\ {} \in SUBSET Nat
    BY <2>2 DEF Progress, Sound
  <2>4. Sound(c, {}) /\ Silent(b, c) /\ Fewer(b, c, {})
    BY <2>3, RejectSound
  <2> HIDE DEF c
  <2>5. c \in States
    BY <2>4 DEF Sound
  <2>6. Sound(d, {}) /\ OnlySays(c, d) /\ NoMove(c, d) /\ d.f.deferrals = c.f.deferrals
    BY <2>3, <2>4, <2>5, TerminatesFacts
  <2> HIDE DEF d
  <2>7. d.h = b.h /\ c.dap = b.dap /\ d.f.deferrals = b.f.deferrals
    BY <2>4, <2>6 DEF Silent, OnlySays
  <2>8. (d.f.ready => b.f.ready) /\ Exiting(d.f) = Exiting(b.f)
    BY <2>4, <2>6 DEF Silent, OnlySays, SamePromises, Fewer, Exiting
  <2>9. Ordered(a, d)
    <3>1. d \in States /\ Extends(b, d) /\ NoMove(b, d) /\ Ordered(a, b)
      BY <2>2, <2>4, <2>6, <2>7 DEF Sound, OnlySays, Extends, NoMove, Silent, Progress
    <3> QED BY <2>3, <3>1, OrderedOn
  <2>10. Progress(a, d, r)
    BY <2>2, <2>6, <2>7, <2>8, <2>9 DEF Progress, Advanced
  <2> QED BY <2>1, <2>2, <2>10
<1> QED BY <1>1, <1>2, <1>3
-----------------------------------------------------------------------------
(***************************************************************************)
(* The invariant, of the variables and of a state.                         *)
(***************************************************************************)
Placed(h) ==
    \A r \in Undone(h) \ {1} :
        h[r].stage \in {"reply", "exit"} /\ h[r].command # "configurationDone"

Fine(a) ==
    /\ Sound(a, {}) /\ Placed(a.h) /\ 1 \notin Exiting(a.f)
    /\ a.f.deferrals = Cardinality(Waits(a.h))

LocalInv == PromiseInv /\ ClientInv /\ DeferralInv
WorldOK ==
    /\ process \in {"starting", "up", "killed", "exited", "reaped", "closed"}
    /\ stdout \in Seq(Lines) /\ stopEvent \in Lines \cup {NoLine}
    /\ session \in {"Ready", "Running", "Paused", "Finished", "Error", "Terminated"}
    /\ answering \in Nat

(* The invariant speaks of the current state.                              *)
LEMMA StateFine ==
    ASSUME TypeOK, LocalInv
    PROVE  /\ State \in States /\ Fine(State) /\ Sound(State, {}) /\ WorldOK
           /\ State.f = adapter /\ State.h = handlers /\ State.dap = dap
           /\ State.kill = FALSE
<1>1. /\ State.f = adapter /\ State.h = handlers /\ State.dap = dap
      /\ State.kill = FALSE /\ State \in States
  BY DEF State, States, TypeOK
<1> HIDE DEF State
<1>2. Owned(State, {})
  BY <1>1 DEF LocalInv, PromiseInv, Owned
<1>3. Told(State)
  BY <1>1 DEF LocalInv, ClientInv, Told
<1>4. Placed(handlers) /\ 1 \notin Exiting(adapter)
  BY DEF LocalInv, PromiseInv, Placed
<1>5. adapter.deferrals = Cardinality(Waits(handlers))
  <2>1. {r \in 1..Len(handlers) : Awaiting(r)} = Waits(handlers)
    BY DEF Awaiting, Waits, Moving
  <2> QED BY <2>1 DEF LocalInv, DeferralInv
<1>6. WorldOK
  BY DEF TypeOK, WorldOK
<1> QED BY <1>1, <1>2, <1>3, <1>4, <1>5, <1>6 DEF Fine, Sound

(* A method that ends in a sound state keeps the local invariant.          *)
LEMMA BecomesFine ==
    ASSUME NEW b, Fine(b), Becomes(b), WorldOK'
    PROVE  TypeOK' /\ LocalInv'
<1>1. b \in States /\ Owned(b, {}) /\ Told(b)
  BY DEF Fine, Sound
<1>2. adapter' = b.f /\ handlers' = b.h /\ dap' = b.dap
  BY DEF Becomes
<1>3. TypeOK'
  BY <1>1, <1>2 DEF TypeOK, WorldOK, States
<1>4. PromiseInv'
  <2>1. OneQueue(b.f) /\ Undone(b.h) = Promised(b.f)
    BY <1>1 DEF Owned
  <2>2. 1 \notin Exiting(b.f) /\ Placed(b.h)
    BY DEF Fine
  <2> QED BY <1>2, <2>1, <2>2 DEF PromiseInv, Placed
<1>5. ClientInv'
  BY <1>1, <1>2 DEF ClientInv, Told
<1>6. DeferralInv'
  <2>1. {r \in 1..Len(b.h) : Awaiting(r)'} = Waits(b.h)
    BY <1>2 DEF Awaiting, Waits, Moving
  <2> QED BY <1>2, <2>1 DEF DeferralInv, Fine
<1> QED BY <1>3, <1>4, <1>5, <1>6 DEF LocalInv

(* A new request: its handler is running.                                  *)
LEMMA ReceivedFacts ==
    ASSUME TypeOK, LocalInv, NEW command \in Commands
    PROVE  LET a == Received(command)
               r == Len(a.h) IN
           /\ Sound(a, {r}) /\ r = Len(handlers) + 1 /\ r \in Nat
           /\ Waits(a.h) = Waits(handlers) /\ r \notin Waits(handlers)
           /\ a.f = adapter /\ a.dap = dap /\ a.kill = FALSE
           /\ a.h[r].command = command
           /\ \A i \in 1..Len(handlers) : a.h[i] = handlers[i]
<1> DEFINE a == Received(command)
           r == Len(a.h)
           n == NewHandler(command)
<1>1. /\ State \in States /\ Sound(State, {})
      /\ State.f = adapter /\ State.h = handlers /\ State.dap = dap
      /\ State.kill = FALSE
  BY StateFine
<1>2. /\ adapter \in Fields /\ handlers \in Seq(Handlers) /\ dap \in Seq(Messages)
      /\ Owned(State, {}) /\ Told(State)
  BY <1>1 DEF States, Sound
<1>3. n \in Handlers /\ n.command = command /\ n.stage = "new"
  <2>1. adapter.executionState \in ExecutionStates
    BY <1>2 DEF Fields
  <2> QED BY <2>1 DEF NewHandler, Handlers
<1>4. a = [State EXCEPT !.h = Append(handlers, n)]
  BY <1>1 DEF Received
<1>p. Append(handlers, n) \in Seq(Handlers)
  <2> HIDE DEF n
  <2> QED BY <1>2, <1>3
<1> HIDE DEF n, a
<1>5. /\ a.h = Append(handlers, n) /\ a.f = adapter /\ a.dap = dap /\ a.kill = FALSE
      /\ a \in States
  BY <1>1, <1>2, <1>4, <1>p DEF States
<1>6. /\ Len(a.h) = Len(handlers) + 1 /\ Len(handlers) \in Nat
      /\ a.h[Len(handlers) + 1] = n
      /\ \A i \in 1..Len(handlers) : a.h[i] = handlers[i]
  BY <1>2, <1>3, <1>5
<1> HIDE DEF r
<1>7. r = Len(handlers) + 1 /\ r \in Nat /\ r \notin 1..Len(handlers)
  BY <1>6 DEF r
<1>8. Undone(a.h) = Undone(handlers) \cup {r} /\ r \notin Undone(handlers)
  <2>1. r \notin Undone(handlers)
    BY <1>7 DEF Undone
  <2>2. ASSUME NEW x \in Undone(a.h) PROVE x \in Undone(handlers) \cup {r}
    BY <1>3, <1>6, <1>7 DEF Undone
  <2>3. ASSUME NEW x \in Undone(handlers) PROVE x \in Undone(a.h)
    BY <1>3, <1>6, <1>7 DEF Undone
  <2>4. r \in Undone(a.h)
    BY <1>3, <1>6, <1>7 DEF Undone
  <2> QED BY <2>1, <2>2, <2>3, <2>4
<1>9. Waits(a.h) = Waits(handlers) /\ r \notin Waits(handlers)
  <2>1. ASSUME NEW x \in Waits(a.h) PROVE x \in Waits(handlers)
    <3>1. x # r
      BY <1>3, <1>6, <1>7 DEF Waits
    <3>2. x \in 1..Len(handlers)
      BY <1>6, <1>7, <3>1 DEF Waits
    <3> QED BY <1>6, <3>2 DEF Waits
  <2>2. ASSUME NEW x \in Waits(handlers) PROVE x \in Waits(a.h)
    BY <1>6 DEF Waits
  <2> QED BY <1>7, <2>1, <2>2 DEF Waits
<1>10. Owned(a, {r})
  BY <1>1, <1>2, <1>5, <1>8 DEF Owned
<1>11. Told(a)
  <2>1. (1..Len(a.h)) \ Undone(a.h) = (1..Len(handlers)) \ Undone(handlers)
    BY <1>6, <1>7, <1>8
  <2> QED BY <1>1, <1>2, <1>5, <2>1 DEF Told, AnswersDone, DoneAnswered, EndKnown
<1> QED BY <1>3, <1>5, <1>6, <1>7, <1>9, <1>10, <1>11 DEF Sound, a, r

(* The state in which the handler of a new request runs.                   *)
Fresh(a, r, command) ==
    /\ Sound(a, {r}) /\ r = Len(a.h) /\ r = Len(handlers) + 1 /\ r \in Nat
    /\ Waits(a.h) = Waits(handlers) /\ r \notin Waits(handlers)
    /\ a.dap = dap /\ a.f.waiting = adapter.waiting /\ a.f.ready = adapter.ready
    /\ a.h[r].command = command
    /\ \A i \in 1..Len(handlers) : a.h[i] = handlers[i]

(* A request has joined the others.                                        *)
Joins(b, command) ==
    /\ Len(b.h) = Len(handlers) + 1 /\ b.h[Len(b.h)].command = command
    /\ \A i \in 1..Len(handlers) : b.h[i] = handlers[i]
    /\ (b.f.ready => adapter.ready)

(* A new request waits if its command moves or ends the session.           *)
LEMMA WaitsJoined ==
    ASSUME TypeOK, NEW b, NEW command, Joins(b, command)
    PROVE  Waits(b.h) =
               IF command \in Moving /\ b.h[Len(b.h)].stage \in {"reply", "exit"}
               THEN Waits(handlers) \cup {Len(handlers) + 1} ELSE Waits(handlers)
<1> DEFINE r == Len(handlers) + 1
           S == IF command \in Moving /\ b.h[r].stage \in {"reply", "exit"} THEN {r} ELSE {}
<1>1. Len(handlers) \in Nat
  BY DEF TypeOK
<1>2. /\ Len(b.h) = r /\ b.h[r].command = command
      /\ \A i \in 1..Len(handlers) : b.h[i] = handlers[i]
      /\ 1..r = (1..Len(handlers)) \cup {r} /\ r \notin 1..Len(handlers)
  BY <1>1 DEF Joins
<1> HIDE DEF r
<1>3. ASSUME NEW x \in Waits(b.h) PROVE x \in Waits(handlers) \cup S
  BY <1>2, <1>3 DEF Waits
<1>4. ASSUME NEW x \in Waits(handlers) PROVE x \in Waits(b.h)
  BY <1>2, <1>4 DEF Waits
<1>5. S \subseteq Waits(b.h)
  BY <1>2 DEF Waits
<1>6. Waits(b.h) = Waits(handlers) \cup S
  BY <1>3, <1>4, <1>5
<1> QED BY <1>2, <1>6 DEF r

(* Every unanswered request stands where it may wait.                      *)
LEMMA PlacedJoined ==
    ASSUME TypeOK, LocalInv, NEW b, NEW command, Joins(b, command),
           \/ b.h[Len(b.h)].stage = "done"
           \/ b.h[Len(b.h)].stage = "reply" /\ command # "configurationDone"
    PROVE  Placed(b.h)
<1> SUFFICES ASSUME NEW x \in Undone(b.h) \ {1}
             PROVE  b.h[x].stage \in {"reply", "exit"} /\ b.h[x].command # "configurationDone"
  BY DEF Placed
<1>1. Len(handlers) \in Nat
  BY DEF TypeOK
<1>2. CASE x = Len(b.h)
  BY <1>2 DEF Undone, Joins
<1>3. CASE x # Len(b.h)
  <2>1. x \in 1..Len(handlers) /\ b.h[x] = handlers[x]
    BY <1>1, <1>3 DEF Joins, Undone
  <2>2. x \in Undone(handlers) \ {1}
    BY <2>1 DEF Undone
  <2> QED BY <2>1, <2>2 DEF LocalInv, PromiseInv
<1> QED BY <1>2, <1>3

(* A new request answered at once.                                         *)
LEMMA RepliedFine ==
    ASSUME TypeOK, LocalInv, NEW a \in States, NEW command \in Commands,
           NEW r, Fresh(a, r, command), a.f.deferrals = adapter.deferrals,
           NEW ok \in BOOLEAN
    PROVE  LET b == Reply(a, r, ok) IN
           /\ Fine(b) /\ Ordered(State, b) /\ Joins(b, command)
           /\ b.f = a.f /\ b.h[r].stage = "done"
<1> DEFINE b == Reply(a, r, ok)
           H == {r}
<1>1. H \in SUBSET Nat /\ Sound(a, H) /\ r \in H /\ H \ {r} = {}
  BY DEF Fresh
<1> HIDE DEF H
<1>2. /\ Sound(b, H \ {r}) /\ b.f = a.f /\ b.kill = a.kill
      /\ Advanced(a, b, r) /\ b.h[r].stage = "done" /\ Extends(a, b)
      /\ Answered(a, b, r, ok)
  BY <1>1, ReplySound
<1> HIDE DEF b
<1>3. /\ Len(handlers) \in Nat /\ Len(dap) \in Nat /\ b \in States /\ Len(b.dap) \in Nat
      /\ State.h = handlers /\ State.dap = dap /\ State.f = adapter
  <2>1. State.h = handlers /\ State.dap = dap /\ State.f = adapter
    BY StateFine
  <2>2. b \in States
    BY <1>2 DEF Sound
  <2>3. Len(handlers) \in Nat /\ Len(dap) \in Nat
    BY DEF TypeOK
  <2>4. Len(b.dap) \in Nat
    BY <2>2 DEF States
  <2> QED BY <2>1, <2>2, <2>3, <2>4
<1>4. Joins(b, command)
  <2>1. /\ r = Len(handlers) + 1 /\ r = Len(a.h) /\ a.h[r].command = command
        /\ a.f.ready = adapter.ready
        /\ \A i \in 1..Len(handlers) : a.h[i] = handlers[i]
    BY DEF Fresh
  <2>2. /\ Len(b.h) = Len(a.h) /\ b.h[r].command = a.h[r].command
        /\ \A i \in 1..Len(a.h) : i # r => b.h[i] = a.h[i]
    BY <1>2 DEF Advanced
  <2>3. \A i \in 1..Len(handlers) : i \in 1..Len(a.h) /\ i # r
    BY <1>3, <2>1
  <2> QED BY <1>2, <2>1, <2>2, <2>3 DEF Joins
<1>5. Placed(b.h) /\ Waits(b.h) = Waits(handlers)
  <2>1. Len(b.h) = r
    BY <1>2 DEF Fresh, Advanced
  <2> QED BY <1>2, <1>4, <2>1, PlacedJoined, WaitsJoined
<1>6. 1 \notin Exiting(b.f) /\ b.f.deferrals = Cardinality(Waits(b.h))
  <2>1. Fine(State)
    BY StateFine
  <2> QED BY <1>2, <1>3, <1>5, <2>1 DEF Fine, Fresh, Exiting
<1>7. Ordered(State, b)
  <2> SUFFICES ASSUME NEW x \in Waits(handlers), NEW i \in Len(dap) + 1 .. Len(b.dap),
                      IsEvent(b.dap[i], {"continued", "stopped"})
               PROVE  FALSE
    BY <1>3 DEF Ordered
  <2>1. CASE a.f.disposed
    BY <1>2, <1>3, <2>1 DEF Extends, Fresh
  <2>2. CASE ~a.f.disposed
    <3>1. Len(b.dap) = Len(dap) + 1 /\ Answers(b.dap[Len(dap) + 1], r)
      BY <1>2, <2>2 DEF Answered, Fresh
    <3> QED BY <1>3, <3>1 DEF Answers, IsEvent
  <2> QED BY <2>1, <2>2
<1> QED BY <1>1, <1>2, <1>4, <1>5, <1>6, <1>7 DEF Fine, b

(* A new request handed to the server.                                     *)
LEMMA AskedFine ==
    ASSUME TypeOK, LocalInv, NEW a \in States,
           NEW command \in Commands \ {"configurationDone"},
           NEW r, Fresh(a, r, command),
           a.f.deferrals = IF command \in Moving THEN adapter.deferrals + 1
                                                 ELSE adapter.deferrals
    PROVE  LET b == sendProtocolRequest(a, r, command) IN
           Fine(b) /\ Ordered(State, b) /\ Joins(b, command)
<1> DEFINE b == sendProtocolRequest(a, r, command)
           H == {r}
<1>1. H \in SUBSET Nat /\ Sound(a, H) /\ r \in H /\ H \ {r} = {}
  BY DEF Fresh
<1> HIDE DEF H
<1>2. /\ Sound(b, H \ {r}) /\ b.h = Staged(a.h, r, "reply")
      /\ b.dap = a.dap /\ b.f.deferrals = a.f.deferrals
      /\ b.f.ready = a.f.ready /\ b.f.waiting = a.f.waiting
  <2>1. command \in Commands \cup {"initialize"}
    OBVIOUS
  <2> QED BY <1>1, <2>1, AskFacts
<1> HIDE DEF b
<1>3. /\ Len(b.h) = Len(a.h) /\ b.h[r].stage = "reply" /\ b.h[r].command = command
      /\ \A i \in 1..Len(a.h) : i # r => b.h[i] = a.h[i]
  <2> DEFINE h == a.h
             stage == "reply"
             g == Staged(h, r, stage)
  <2>1. h \in Seq(Handlers) /\ r \in Undone(h) /\ stage \in Stages
    BY <1>1 DEF Stages, Sound, Owned, States
  <2>2. b.h = g /\ stage = "reply"
    BY <1>2
  <2> HIDE DEF h, stage
  <2>3. /\ Len(g) = Len(h) /\ g[r].stage = stage /\ g[r].command = h[r].command
        /\ \A i \in 1..Len(h) : i # r => g[i] = h[i]
    BY <2>1, StageFacts
  <2> QED BY <2>2, <2>3 DEF h, Fresh
<1>4. /\ Len(handlers) \in Nat /\ Len(dap) \in Nat /\ handlers \in Seq(Handlers)
      /\ State.h = handlers /\ State.dap = dap /\ State.f = adapter /\ Fine(State)
  <2>1. Len(handlers) \in Nat /\ Len(dap) \in Nat /\ handlers \in Seq(Handlers)
    BY DEF TypeOK
  <2> QED BY <2>1, StateFine
<1>5. Joins(b, command)
  BY <1>2, <1>3, <1>4 DEF Joins, Fresh
<1>6. Placed(b.h)
  BY <1>3, <1>5, PlacedJoined DEF Fresh
<1>7. b.f.deferrals = Cardinality(Waits(b.h))
  <2>1. IsFiniteSet(Waits(handlers)) /\ adapter.deferrals = Cardinality(Waits(handlers))
    BY <1>4, WaitsFinite DEF Fine
  <2>2. CASE command \in Moving
    <3>1. Waits(b.h) = Waits(handlers) \cup {r}
      BY <1>3, <1>5, <2>2, WaitsJoined DEF Fresh
    <3>2. Cardinality(Waits(handlers) \cup {r}) = Cardinality(Waits(handlers)) + 1
      BY <2>1, FS_AddElement DEF Fresh
    <3> QED BY <1>2, <2>1, <2>2, <3>1, <3>2
  <2>3. CASE command \notin Moving
    BY <1>2, <1>5, <2>1, <2>3, WaitsJoined
  <2> QED BY <2>2, <2>3
<1>8. 1 \notin Exiting(b.f)
  BY <1>2, <1>4 DEF Fine, Fresh, Exiting
<1>9. Ordered(State, b)
  BY <1>2, <1>4 DEF Ordered, Fresh
<1> QED BY <1>1, <1>2, <1>5, <1>6, <1>7, <1>8, <1>9 DEF Fine, b

(* beginProtocolEventDeferral counts and does nothing else.                *)
LEMMA BegunFacts ==
    ASSUME NEW a \in States, NEW H, Sound(a, H)
    PROVE  LET b == beginDeferral(a) IN
           /\ Sound(b, H) /\ SamePromises(a, b) /\ b.h = a.h /\ b.dap = a.dap
           /\ b.f.deferrals = a.f.deferrals + 1 /\ b.f.terminated = a.f.terminated
<1> DEFINE b == beginDeferral(a)
           n == a.f.deferrals + 1
           f == [a.f EXCEPT !.deferrals = n]
<1>1. a.f \in Fields /\ a.f.deferrals \in Nat /\ n \in Nat
  BY DEF States, Fields
<1>2. b = [a EXCEPT !.f = f]
  BY <1>1 DEF beginDeferral, States, Fields
<1>3. n = a.f.deferrals + 1
  OBVIOUS
<1> HIDE DEF n
<1>4. /\ f \in Fields /\ f.microtasks = a.f.microtasks /\ f.pending = a.f.pending
      /\ f.waiting = a.f.waiting /\ f.ready = a.f.ready
      /\ f.stdin = a.f.stdin /\ f.child = a.f.child
      /\ f.disposed = a.f.disposed /\ f.reading = a.f.reading
      /\ f.protocolSeq = a.f.protocolSeq
      /\ f.entryStoppedSent = a.f.entryStoppedSent
      /\ f.deferrals = n /\ f.terminated = a.f.terminated
  BY <1>1 DEF Fields
<1> HIDE DEF f, b
<1>5. b.f = f /\ b.h = a.h /\ b.dap = a.dap /\ b.kill = a.kill /\ b \in States
  BY <1>2, <1>4 DEF States
<1>6. SamePromises(a, b)
  BY <1>4, <1>5 DEF SamePromises
<1>7. Owned(b, H)
  BY <1>5, <1>6, SamePromised DEF Sound, Owned
<1>8. Told(b)
  BY <1>4, <1>5 DEF Sound, Told, EndKnown
<1> QED BY <1>3, <1>4, <1>5, <1>6, <1>7, <1>8 DEF Sound, b

(* A request that has just been received is in hand.                       *)
LEMMA ReceivedFresh ==
    ASSUME TypeOK, LocalInv, NEW command \in Commands
    PROVE  LET a == Received(command) IN
           /\ Fresh(a, Len(a.h), command) /\ a \in States
           /\ a.f = adapter /\ a.kill = FALSE
<1> DEFINE a == Received(command)
           r == Len(a.h)
<1>1. /\ Sound(a, {r}) /\ r = Len(handlers) + 1 /\ r \in Nat
      /\ Waits(a.h) = Waits(handlers) /\ r \notin Waits(handlers)
      /\ a.f = adapter /\ a.dap = dap /\ a.kill = FALSE
      /\ a.h[r].command = command
      /\ \A i \in 1..Len(handlers) : a.h[i] = handlers[i]
  BY ReceivedFacts
<1> HIDE DEF a
<1> QED BY <1>1 DEF Fresh, Sound, a

(* It stays in hand while nothing is said or settled.                      *)
LEMMA FreshKept ==
    ASSUME NEW a, NEW r, NEW command, Fresh(a, r, command),
           NEW b, Sound(b, {r}), SamePromises(a, b), b.h = a.h, b.dap = a.dap
    PROVE  Fresh(b, r, command) /\ b \in States
BY DEF Fresh, SamePromises, Sound

(* A step of the adapter, in response to a request.                        *)
ClientStep(command) ==
    \E b : Becomes(b) /\ Fine(b) /\ Ordered(State, b) /\ Joins(b, command)

(* handleStackTrace, handleVariables, handleEvaluate, handleSetBreakpoints.*)
LEMMA InspectStep == ASSUME TypeOK, LocalInv, Inspect PROVE ClientStep("inspect")
<1> DEFINE a == Received("inspect")
           r == Len(a.h)
<1>1. "inspect" \in Commands \ {"configurationDone"} /\ "inspect" \notin Moving
  BY DEF Commands, Moving, Executions, Steps
<1>2. /\ Fresh(a, r, "inspect") /\ a \in States /\ a.f = adapter
  BY <1>1, ReceivedFresh
<1>3. Becomes(Reply(a, r, TRUE)) \/ Becomes(sendProtocolRequest(a, r, "inspect"))
  BY DEF Inspect
<1> HIDE DEF a, r
<1>4. /\ Fine(Reply(a, r, TRUE)) /\ Ordered(State, Reply(a, r, TRUE))
      /\ Joins(Reply(a, r, TRUE), "inspect")
  BY <1>1, <1>2, RepliedFine
<1>5. LET b == sendProtocolRequest(a, r, "inspect") IN
      Fine(b) /\ Ordered(State, b) /\ Joins(b, "inspect")
  BY <1>1, <1>2, AskedFine
<1> QED BY <1>3, <1>4, <1>5 DEF ClientStep

(* handleExecutionCommand up to its await.                                 *)
LEMMA ExecutionStep ==
    ASSUME TypeOK, LocalInv, NEW command \in Executions, handleExecutionCommand(command)
    PROVE  ClientStep(command)
<1> DEFINE a == Received(command)
           r == Len(a.h)
           b == IF command = "pause" THEN a ELSE [a EXCEPT !.f.executionState = "running"]
           c == beginDeferral(b)
<1>1. command \in Commands \ {"configurationDone"} /\ command \in Moving
  BY DEF Commands, Moving, Executions, Steps
<1>2. /\ Fresh(a, r, command) /\ a \in States /\ a.f = adapter
  BY <1>1, ReceivedFresh
<1>3. Becomes(Reply(a, r, FALSE)) \/ Becomes(sendProtocolRequest(c, r, command))
  BY DEF handleExecutionCommand
<1> HIDE DEF a, r
<1>4. Fresh(b, r, command) /\ b \in States /\ b.f.deferrals = adapter.deferrals
  <2>1. CASE command = "pause"
    BY <1>2, <2>1
  <2>2. CASE command # "pause"
    <3> DEFINE s == "running"
               d == [a EXCEPT !.f.executionState = s]
    <3>1. s \in ExecutionStates
      BY DEF ExecutionStates
    <3>2. b = d
      BY <2>2
    <3> HIDE DEF s, b
    <3>3. Sound(a, {r})
      BY <1>2 DEF Fresh
    <3>4. /\ Sound(d, {r}) /\ SamePromises(a, d) /\ d.h = a.h /\ d.dap = a.dap
          /\ d.f.deferrals = a.f.deferrals
      BY <1>2, <3>1, <3>3, StateSet
    <3> HIDE DEF d
    <3> QED BY <1>2, <3>2, <3>4, FreshKept
  <2> QED BY <2>1, <2>2
<1> HIDE DEF b
<1>5. Fresh(c, r, command) /\ c \in States /\ c.f.deferrals = adapter.deferrals + 1
  <2>1. Sound(b, {r})
    BY <1>4 DEF Fresh
  <2>2. /\ Sound(c, {r}) /\ SamePromises(b, c) /\ c.h = b.h /\ c.dap = b.dap
        /\ c.f.deferrals = b.f.deferrals + 1
    BY <1>4, <2>1, BegunFacts
  <2> HIDE DEF c
  <2> QED BY <1>4, <2>2, FreshKept
<1> HIDE DEF c
<1>6. /\ Fine(Reply(a, r, FALSE)) /\ Ordered(State, Reply(a, r, FALSE))
      /\ Joins(Reply(a, r, FALSE), command)
  BY <1>1, <1>2, RepliedFine
<1>7. LET d == sendProtocolRequest(c, r, command) IN
      Fine(d) /\ Ordered(State, d) /\ Joins(d, command)
  BY <1>1, <1>5, AskedFine
<1> QED BY <1>3, <1>6, <1>7 DEF ClientStep

(* A request that is deferred and answered at once.                        *)
LEMMA EndedFine ==
    ASSUME TypeOK, LocalInv, NEW a \in States, NEW command \in Commands,
           NEW r, Fresh(a, r, command), a.f.deferrals = adapter.deferrals + 1,
           NEW ok \in BOOLEAN
    PROVE  LET c == endDeferral(Reply(a, r, ok)) IN
           Fine(c) /\ Ordered(State, c) /\ Joins(c, command)
<1> DEFINE b == Reply(a, r, ok)
           c == endDeferral(b)
           H == {r}
<1>1. /\ H \in SUBSET Nat /\ Sound(a, H) /\ r \in H /\ H \ {r} = {}
      /\ {} \in SUBSET Nat
  BY DEF Fresh
<1> HIDE DEF H
<1>2. /\ Sound(b, H \ {r}) /\ b.f = a.f /\ b.kill = a.kill
      /\ Advanced(a, b, r) /\ b.h[r].stage = "done" /\ Extends(a, b)
      /\ Answered(a, b, r, ok)
  BY <1>1, ReplySound
<1> HIDE DEF b
<1>3. b \in States /\ Sound(b, {})
  BY <1>1, <1>2 DEF Sound
<1>4. /\ Sound(c, {}) /\ OnlySays(b, c)
      /\ c.f.deferrals = IF b.f.deferrals > 0 THEN b.f.deferrals - 1 ELSE 0
      /\ (b.f.deferrals > 1 => c.dap = b.dap)
  BY <1>1, <1>3, EndFacts
<1> HIDE DEF c
<1>5. c.h = b.h /\ SamePromises(b, c) /\ c \in States
  BY <1>4 DEF OnlySays, Sound
<1>6. State.h = handlers /\ State.dap = dap /\ State.f = adapter /\ Fine(State)
  BY StateFine
<1>7. /\ Len(handlers) \in Nat /\ Len(dap) \in Nat /\ handlers \in Seq(Handlers)
      /\ adapter.deferrals \in Nat
  BY DEF TypeOK, Fields
<1>8. Joins(c, command)
  <2>1. /\ r = Len(handlers) + 1 /\ r = Len(a.h) /\ a.h[r].command = command
        /\ a.f.ready = adapter.ready
        /\ \A i \in 1..Len(handlers) : a.h[i] = handlers[i]
    BY DEF Fresh
  <2>2. /\ Len(c.h) = Len(a.h) /\ c.h[r].command = a.h[r].command
        /\ \A i \in 1..Len(a.h) : i # r => c.h[i] = a.h[i]
    BY <1>2, <1>5 DEF Advanced
  <2>3. \A i \in 1..Len(handlers) : i \in 1..Len(a.h) /\ i # r
    BY <1>7, <2>1
  <2>4. c.f.ready = a.f.ready
    BY <1>2, <1>5 DEF SamePromises
  <2> QED BY <2>1, <2>2, <2>3, <2>4 DEF Joins
<1>9. Placed(c.h) /\ Waits(c.h) = Waits(handlers)
  <2>1. Len(c.h) = r /\ c.h[r].stage = "done"
    BY <1>2, <1>5 DEF Fresh, Advanced
  <2> QED BY <1>8, <2>1, PlacedJoined, WaitsJoined
<1>10. c.f.deferrals = Cardinality(Waits(c.h))
  BY <1>2, <1>4, <1>6, <1>7, <1>9 DEF Fine
<1>11. 1 \notin Exiting(c.f)
  BY <1>2, <1>5, <1>6 DEF Fine, Fresh, Exiting, SamePromises
<1>12. Ordered(State, c)
  <2> SUFFICES ASSUME NEW x \in Waits(handlers), NEW i \in Len(dap) + 1 .. Len(c.dap),
                      IsEvent(c.dap[i], {"continued", "stopped"})
               PROVE  FALSE
    BY <1>6 DEF Ordered
  <2>1. c.dap = b.dap
    <3>1. Cardinality(Waits(handlers)) # 0
      <4>1. IsFiniteSet(Waits(handlers)) /\ Waits(handlers) # {}
        BY <1>7, WaitsFinite
      <4> QED BY <4>1, FS_EmptySet
    <3>2. adapter.deferrals # 0
      BY <1>6, <3>1 DEF Fine
    <3> QED BY <1>2, <1>4, <1>7, <3>2
  <2>2. CASE a.f.disposed
    BY <1>2, <1>7, <2>1, <2>2 DEF Extends, Fresh
  <2>3. CASE ~a.f.disposed
    <3>1. Len(c.dap) = Len(dap) + 1 /\ Answers(c.dap[Len(dap) + 1], r)
      BY <1>2, <2>1, <2>3 DEF Answered, Fresh
    <3> QED BY <1>7, <3>1 DEF Answers, IsEvent
  <2> QED BY <2>2, <2>3
<1> QED BY <1>4, <1>8, <1>9, <1>10, <1>11, <1>12 DEF Fine, b, c

(* handleDisconnect and handleTerminate up to their awaits.                *)
LEMMA DisconnectStep ==
    ASSUME TypeOK, LocalInv, NEW command \in {"disconnect", "terminate"},
           handleDisconnect(command)
    PROVE  ClientStep(command)
<1> DEFINE o == Received(command)
           r == Len(o.h)
           a == beginDeferral(o)
           c == endDeferral(Reply(a, r, TRUE))
           d == Terminates(c)
<1>1. /\ command \in Commands \ {"configurationDone"} /\ command \in Moving
      /\ command \in Commands
  BY DEF Commands, Moving
<1>2. /\ Fresh(o, r, command) /\ o \in States /\ o.f = adapter
  BY <1>1, ReceivedFresh
<1> HIDE DEF o
<1>3. Fresh(a, r, command) /\ a \in States /\ a.f.deferrals = adapter.deferrals + 1
  <2>1. Sound(o, {r})
    BY <1>2 DEF Fresh
  <2>2. /\ Sound(a, {r}) /\ SamePromises(o, a) /\ a.h = o.h /\ a.dap = o.dap
        /\ a.f.deferrals = o.f.deferrals + 1
    BY <1>2, <2>1, BegunFacts
  <2> HIDE DEF a
  <2> QED BY <1>2, <2>2, FreshKept
<1>4. Len(a.h) = r
  BY <1>3 DEF Fresh
<1>5. \/ Becomes(sendProtocolRequest(a, r, command)) \/ Becomes(c) \/ Becomes(d)
  BY <1>4 DEF handleDisconnect, o
<1> HIDE DEF a, r
<1>6. LET b == sendProtocolRequest(a, r, command) IN
      Fine(b) /\ Ordered(State, b) /\ Joins(b, command)
  BY <1>1, <1>3, AskedFine
<1>7. Fine(c) /\ Ordered(State, c) /\ Joins(c, command)
  BY <1>1, <1>3, EndedFine
<1> HIDE DEF c
<1>8. Fine(d) /\ Ordered(State, d) /\ Joins(d, command)
  <2>1. c \in States /\ Sound(c, {}) /\ {} \in SUBSET Nat
    BY <1>7 DEF Fine, Sound
  <2>2. /\ Sound(d, {}) /\ OnlySays(c, d) /\ NoMove(c, d)
        /\ d.f.deferrals = c.f.deferrals
    BY <2>1, TerminatesFacts
  <2> HIDE DEF d
  <2>3. d \in States /\ d.h = c.h /\ SamePromises(c, d) /\ Extends(c, d)
    BY <2>2 DEF Sound, OnlySays
  <2>4. Ordered(State, d)
    BY <1>7, <2>1, <2>2, <2>3, OrderedOn, StateFine
  <2>5. Fine(d)
    BY <1>7, <2>2, <2>3 DEF Fine, SamePromises, Exiting
  <2>6. Joins(d, command)
    BY <1>7, <2>3 DEF Joins, SamePromises
  <2> QED BY <2>4, <2>5, <2>6
<1> QED BY <1>5, <1>6, <1>7, <1>8 DEF ClientStep

(* configurationDone.                                                      *)
LEMMA ConfigurationStep ==
    ASSUME TypeOK, LocalInv, ConfigurationDone PROVE ClientStep("configurationDone")
<1> DEFINE a == Received("configurationDone")
           r == Len(a.h)
           b == Reply(a, r, TRUE)
           c == sendEvent(b, "stopped")
           d == [c EXCEPT !.f.entryStoppedSent = TRUE, !.f.executionState = "paused"]
<1>1. /\ "configurationDone" \in Commands /\ "configurationDone" \notin Moving
  BY DEF Commands, Moving, Executions, Steps
<1>2. /\ Fresh(a, r, "configurationDone") /\ a \in States /\ a.f = adapter
  BY <1>1, ReceivedFresh
<1>3. Becomes(IF b.f.entryStoppedSent \/ b.f.terminated THEN b ELSE d)
  BY DEF ConfigurationDone
<1>4. Waits(handlers) = {}
  <2>1. \A x \in 1..Len(handlers) : handlers[x].command \in {"launch", "inspect"}
    BY DEF ConfigurationDone
  <2> QED BY <2>1 DEF Waits, Moving, Executions, Steps
<1> HIDE DEF a, r
<1>5. /\ Fine(b) /\ Ordered(State, b) /\ Joins(b, "configurationDone")
  BY <1>1, <1>2, RepliedFine
<1> HIDE DEF b
<1>6. CASE ~b.f.terminated
  <2>1. b \in States /\ Sound(b, {}) /\ {} \in SUBSET Nat
    BY <1>5 DEF Fine, Sound
  <2> DEFINE name == "stopped"
  <2>2. name \in {"initialized", "stopped"} /\ c = sendEvent(b, name)
    OBVIOUS
  <2> HIDE DEF name, c, d
  <2>3. Sound(c, {}) /\ OnlySays(b, c) /\ c.f = b.f
    BY <1>6, <2>1, <2>2, SendFacts
  <2>4. c \in States /\ c.h = b.h /\ c.f \in Fields
    BY <2>3 DEF Sound, OnlySays, States
  <2> DEFINE f == [c.f EXCEPT !.entryStoppedSent = TRUE, !.executionState = "paused"]
  <2>5. d = [c EXCEPT !.f = f]
    BY <2>4 DEF d, States, Fields
  <2>6. /\ f \in Fields /\ f.microtasks = c.f.microtasks /\ f.pending = c.f.pending
        /\ f.waiting = c.f.waiting /\ f.ready = c.f.ready
        /\ f.disposed = c.f.disposed
        /\ f.deferrals = c.f.deferrals /\ f.terminated = c.f.terminated
    BY <2>4 DEF Fields, ExecutionStates
  <2> HIDE DEF f
  <2>7. d.f = f /\ d.h = c.h /\ d.dap = c.dap /\ d \in States
    BY <2>4, <2>5, <2>6 DEF States
  <2>8. Owned(d, {})
    BY <2>3, <2>6, <2>7
       DEF Sound, Owned, OneQueue, Promised, Queued, Pending, Exiting, Launching
  <2>9. Told(d)
    BY <2>3, <2>6, <2>7 DEF Sound, Told, EndKnown
  <2>10. Fine(d)
    BY <1>5, <2>3, <2>4, <2>6, <2>7, <2>8, <2>9 DEF Fine, Sound, Exiting
  <2>11. Joins(d, "configurationDone")
    BY <1>5, <2>3, <2>4, <2>6, <2>7 DEF Joins
  <2>12. Ordered(State, d)
    BY <1>4, StateFine DEF Ordered
  <2> QED BY <1>3, <1>5, <2>10, <2>11, <2>12 DEF ClientStep
<1>7. CASE b.f.terminated
  BY <1>3, <1>5, <1>7 DEF ClientStep
<1> QED BY <1>6, <1>7
-----------------------------------------------------------------------------
(***************************************************************************)
(* Steps that no request starts.                                           *)
(***************************************************************************)
AdapterStep == \E b : Becomes(b) /\ Fine(b) /\ Ordered(State, b)

(* Once the launch has been answered its handler stays as it is.           *)
LEMMA LaunchJoined ==
    ASSUME TypeOK, LaunchInv, SetUp, NEW command \in Commands, ClientStep(command)
    PROVE  LaunchInv'
<1>1. PICK b : Becomes(b) /\ Joins(b, command)
  BY DEF ClientStep
<1>2. /\ Len(handlers') = Len(handlers) + 1 /\ handlers'[Len(handlers')].command = command
      /\ \A i \in 1..Len(handlers) : handlers'[i] = handlers[i]
      /\ (adapter'.ready => adapter.ready) /\ Len(handlers) \in Nat
  BY <1>1 DEF Becomes, Joins, TypeOK
<1>3. Len(handlers) > 0 /\ handlers'[1] = handlers[1]
  BY <1>2 DEF LaunchInv
<1>4. command # "launch"
  BY DEF Commands, Executions, Steps
<1>5. \A r \in 2..Len(handlers') : handlers'[r].command # "launch"
  <2> SUFFICES ASSUME NEW r \in 2..Len(handlers') PROVE handlers'[r].command # "launch"
    OBVIOUS
  <2>1. CASE r = Len(handlers')
    BY <1>2, <1>4, <2>1
  <2>2. CASE r # Len(handlers')
    <3>1. r \in 2..Len(handlers) /\ handlers'[r] = handlers[r]
      BY <1>2, <2>2
    <3> QED BY <3>1 DEF LaunchInv
  <2> QED BY <2>1, <2>2
<1>6. handlers[1].stage = "done" /\ handlers[1].ok /\ handlers[1].command = "launch"
  BY DEF SetUp, LaunchInv
<1>7. ~adapter'.ready
  BY <1>2, <1>6 DEF LaunchInv
<1> QED BY <1>2, <1>3, <1>5, <1>6, <1>7 DEF LaunchInv, SetUp

(* Once the launch is answered, what it was answered stays.                *)
LEMMA LaunchOver ==
    ASSUME TypeOK, LaunchInv, handlers[1].stage = "done",
           Len(handlers') = Len(handlers), handlers'[1] = handlers[1],
           \A r \in 1..Len(handlers) : handlers'[r].command = handlers[r].command,
           adapter'.ready => adapter.ready
    PROVE  LaunchInv'
<1>1. \A r \in 2..Len(handlers') : handlers'[r].command # "launch"
  BY DEF LaunchInv, TypeOK
<1>2. ~adapter'.ready
  BY DEF LaunchInv
<1>3. /\ Len(handlers) > 0 /\ handlers[1].command = "launch"
      /\ (~SetUp => Len(handlers) = 1) /\ SetUp' = SetUp
  BY DEF LaunchInv, SetUp
<1> QED BY <1>1, <1>2, <1>3 DEF LaunchInv

(* Until then it can succeed only if it could before.                      *)
LEMMA LaunchSilent ==
    ASSUME TypeOK, LaunchInv, handlers' = handlers, UNCHANGED <<stdout, server>>,
           adapter'.terminated = adapter.terminated,
           adapter'.deferrals = adapter.deferrals, adapter'.deferred = adapter.deferred,
           adapter'.stdin = adapter.stdin,
           Granted(adapter'.microtasks) \subseteq Granted(adapter.microtasks),
           Pending(adapter') \subseteq Pending(adapter),
           adapter'.ready => adapter.ready,
           process' = "starting" => process = "starting"
    PROVE  LaunchInv'
<1>1. CASE handlers[1].stage = "done"
  BY <1>1, LaunchOver
<1>2. CASE handlers[1].stage # "done"
  <2>1. UNCHANGED <<stdout, session, stopEvent, answering>>
    BY DEF server
  <2>2. MaySucceed' => MaySucceed
    BY <2>1 DEF MaySucceed, Says
  <2>3. Says(stdout, "terminated")' = Says(stdout, "terminated")
    BY <2>1 DEF Says
  <2>4. SetUp' = SetUp /\ Joined' = Joined
    BY <2>1 DEF SetUp, Joined, NoLine, Line
  <2>5. /\ session' = "Ready" /\ Joined' /\ answering' = 0
        /\ adapter'.deferrals = 0 /\ adapter'.deferred = <<>>
        /\ \A i \in 1..Len(adapter'.stdin) : adapter'.stdin[i].command = "initialize"
    BY <1>2, <2>1, <2>4 DEF LaunchInv
  <2>6. process' = "starting" =>
            stdout' = <<>> /\ handlers'[1].stage = "ready" /\ ~MaySucceed'
    BY <1>2, <2>1, <2>2 DEF LaunchInv
  <2>7. MaySucceed' => ~adapter'.terminated /\ ~Says(stdout, "terminated")'
    BY <1>2, <2>2, <2>3 DEF LaunchInv
  <2>8. adapter'.ready /\ Says(stdout, "terminated")' => stdout'[1].name = "error"
    BY <1>2, <2>1, <2>3 DEF LaunchInv
  <2>9. adapter'.ready => handlers'[1].stage = "ready" /\ ~adapter'.terminated
    BY DEF LaunchInv
  <2>10. /\ Len(handlers') > 0 /\ handlers'[1].command = "launch"
         /\ \A r \in 2..Len(handlers') : handlers'[r].command # "launch"
         /\ (~SetUp' => Len(handlers') = 1)
         /\ handlers'[1].stage \in {"ready", "reply", "done"}
    BY <2>4 DEF LaunchInv
  <2> QED BY <2>5, <2>6, <2>7, <2>8, <2>9, <2>10 DEF LaunchInv
<1> QED BY <1>1, <1>2

(* A step of which the client hears nothing.                               *)
LEMMA QuietFine ==
    ASSUME TypeOK, LocalInv, NEW b, Sound(b, {}), b.h = handlers, b.dap = dap,
           b.f.deferrals = adapter.deferrals, Exiting(b.f) \subseteq Exiting(adapter)
    PROVE  Fine(b) /\ Ordered(State, b)
<1>1. Fine(State) /\ State.f = adapter /\ State.h = handlers /\ State.dap = dap
  BY StateFine
<1>2. Len(dap) \in Nat
  BY DEF TypeOK
<1>3. \A i \in Len(dap) + 1 .. Len(dap) : FALSE
  BY <1>2
<1>4. Ordered(State, b)
  BY <1>1, <1>3 DEF Ordered
<1> QED BY <1>1, <1>4 DEF Fine

(* A kill is delivered to a child that lives.                              *)
LEMMA Killed ==
    ASSUME NEW a, MayKill(a), TypeOK
    PROVE  /\ process' \in {"starting", "up", "killed", "exited", "reaped", "closed"}
           /\ process' = "starting" => process = "starting"
BY DEF MayKill, TypeOK

(* A callback that settles promises, and says nothing.                     *)
LEMMA SilentStep ==
    ASSUME TypeOK, LocalInv, LaunchInv, NEW b \in States, Sound(b, {}),
           Silent(State, b), Fewer(State, b, {}), Becomes(b),
           UNCHANGED <<stdout, server>>, process' = "starting" => process = "starting"
    PROVE  AdapterStep /\ LaunchInv'
<1>1. State.f = adapter /\ State.h = handlers /\ State.dap = dap
  BY StateFine
<1>2. /\ b.h = handlers /\ b.dap = dap /\ b.f.deferrals = adapter.deferrals
      /\ b.f.waiting = adapter.waiting /\ b.f.terminated = adapter.terminated
      /\ b.f.deferred = adapter.deferred /\ b.f.stdin = adapter.stdin
      /\ Granted(b.f.microtasks) \subseteq Granted(adapter.microtasks)
      /\ Pending(b.f) \subseteq Pending(adapter) /\ (b.f.ready => adapter.ready)
  BY <1>1 DEF Silent, Fewer
<1>3. Fine(b) /\ Ordered(State, b)
  BY <1>2, QuietFine DEF Exiting
<1>4. adapter' = b.f /\ handlers' = b.h
  BY DEF Becomes
<1>5. LaunchInv'
  <2>1. /\ handlers' = handlers /\ adapter'.terminated = adapter.terminated
        /\ adapter'.deferrals = adapter.deferrals
        /\ adapter'.deferred = adapter.deferred /\ adapter'.stdin = adapter.stdin
        /\ Granted(adapter'.microtasks) \subseteq Granted(adapter.microtasks)
        /\ Pending(adapter') \subseteq Pending(adapter)
        /\ (adapter'.ready => adapter.ready)
    BY <1>2, <1>4
  <2> QED BY <2>1, LaunchSilent
<1> QED BY <1>3, <1>5 DEF AdapterStep

(* The timer of a request, or the error of its write.                      *)
LEMMA TimesOutStep ==
    ASSUME TypeOK, LocalInv, LaunchInv, NEW i \in 1..Len(adapter.pending),
           Becomes(TimesOut(State, i)), MayKill(TimesOut(State, i)),
           UNCHANGED <<stdout, server>>
    PROVE  AdapterStep /\ LaunchInv'
<1> DEFINE ok == FALSE
           b == SettlePending(State, i, ok)
           c == stopChild(b)
<1>1. /\ State \in States /\ Sound(State, {}) /\ State.f = adapter
      /\ {} \in SUBSET Nat /\ Owned(State, {})
  BY StateFine DEF Sound
<1>2. ok \in BOOLEAN /\ i \in 1..Len(State.f.pending)
  BY <1>1
<1>3. /\ b \in States /\ Owned(b, {}) /\ Silent(State, b)
      /\ Fewer(State, b, IF ok THEN {State.f.pending[i].request} ELSE {})
  BY <1>1, <1>2, PendingFacts
<1>4. Fewer(State, b, {})
  BY <1>3
<1>5. c = TimesOut(State, i)
  BY DEF TimesOut
<1> HIDE DEF b, c
<1>6. Sound(b, {})
  BY <1>1, <1>3, SilentSound
<1>7. Sound(c, {}) /\ Silent(b, c) /\ Fewer(b, c, {})
  <2>1. c = stopChild(b)
    BY DEF c
  <2> QED BY <1>1, <1>3, <1>6, <2>1, StopSound
<1>8. c \in States /\ Silent(State, c) /\ Fewer(State, c, {})
  BY <1>3, <1>4, <1>7 DEF Sound, Silent, Fewer
<1>9. process' = "starting" => process = "starting"
  BY <1>5, Killed
<1> QED BY <1>5, <1>7, <1>8, <1>9, SilentStep

(* The timer of the start-up.                                              *)
LEMMA ReadyTimeoutStep ==
    ASSUME TypeOK, LocalInv, LaunchInv, ReadyTimeout PROVE AdapterStep /\ LaunchInv'
<1> DEFINE b == stopChild(State)
<1>1. State \in States /\ Sound(State, {}) /\ {} \in SUBSET Nat
  BY StateFine
<1>2. Sound(b, {}) /\ Silent(State, b) /\ Fewer(State, b, {})
  BY <1>1, StopSound
<1>3. Becomes(b) /\ MayKill(b) /\ UNCHANGED <<stdout, server>>
  BY DEF ReadyTimeout
<1> HIDE DEF b
<1>4. b \in States /\ (process' = "starting" => process = "starting")
  BY <1>2, <1>3, Killed DEF Sound
<1> QED BY <1>2, <1>3, <1>4, SilentStep

(* The error event of a child that could not be started.                   *)
LEMMA SpawnFailsStep ==
    ASSUME TypeOK, LocalInv, LaunchInv, SpawnFails PROVE AdapterStep /\ LaunchInv'
<1> DEFINE ok == FALSE
           b == rejectPending(State)
           c == settleReady(b, ok)
<1>1. State \in States /\ Sound(State, {}) /\ {} \in SUBSET Nat /\ ok \in BOOLEAN
  BY StateFine
<1>2. Sound(b, {}) /\ Silent(State, b) /\ Fewer(State, b, {})
  BY <1>1, RejectSound
<1>3. Becomes(c) /\ process' = "reaped" /\ UNCHANGED <<stdout, server>>
  BY DEF SpawnFails
<1> HIDE DEF b
<1>4. b \in States /\ Owned(b, {})
  BY <1>2 DEF Sound
<1>5. /\ c \in States /\ Owned(c, {}) /\ Silent(b, c)
      /\ Fewer(b, c, IF ok /\ b.f.ready THEN {1} ELSE {})
  BY <1>1, <1>4, ReadyFacts
<1>6. Fewer(b, c, {})
  BY <1>5
<1> HIDE DEF c
<1>7. Sound(c, {}) /\ Silent(State, c) /\ Fewer(State, c, {})
  <2>1. Sound(c, {})
    BY <1>2, <1>4, <1>5, SilentSound
  <2> QED BY <1>2, <1>5, <1>6, <2>1 DEF Silent, Fewer
<1> QED BY <1>3, <1>5, <1>7, SilentStep

(* dispose.                                                                *)
LEMMA DisposeStep ==
    ASSUME TypeOK, LocalInv, LaunchInv, Dispose PROVE AdapterStep /\ LaunchInv'
<1> DEFINE a == stopChild(State)
           b == [a EXCEPT !.f.disposed = TRUE]
           f == [a.f EXCEPT !.disposed = TRUE]
<1>1. /\ State \in States /\ Sound(State, {}) /\ {} \in SUBSET Nat
      /\ State.f = adapter /\ State.h = handlers /\ State.dap = dap
  BY StateFine
<1>2. Sound(a, {}) /\ Silent(State, a) /\ Fewer(State, a, {})
  BY <1>1, StopSound
<1>3. Becomes(b) /\ MayKill(a) /\ UNCHANGED <<stdout, server>>
  BY DEF Dispose
<1> HIDE DEF a
<1>4. a \in States /\ a.f \in Fields /\ Owned(a, {}) /\ Told(a)
  BY <1>2 DEF Sound, States
<1>5. b = [a EXCEPT !.f = f]
  BY <1>4 DEF States
<1>6. /\ f \in Fields /\ f.microtasks = a.f.microtasks /\ f.pending = a.f.pending
      /\ f.waiting = a.f.waiting /\ f.ready = a.f.ready /\ f.stdin = a.f.stdin
      /\ f.deferrals = a.f.deferrals /\ f.terminated = a.f.terminated
      /\ f.deferred = a.f.deferred /\ f.disposed = TRUE
  BY <1>4 DEF Fields
<1> HIDE DEF f, b
<1>7. b.f = f /\ b.h = a.h /\ b.dap = a.dap /\ b \in States
  BY <1>4, <1>5, <1>6 DEF States
<1>8. Owned(b, {})
  BY <1>4, <1>6, <1>7 DEF Owned, OneQueue, Promised, Queued, Pending, Exiting, Launching
<1>9. Told(b)
  BY <1>4, <1>6, <1>7 DEF Told, EndKnown
<1>10. Sound(b, {})
  BY <1>7, <1>8, <1>9 DEF Sound
<1>11. /\ b.h = handlers /\ b.dap = dap /\ b.f.deferrals = adapter.deferrals
       /\ b.f.waiting = adapter.waiting /\ b.f.terminated = adapter.terminated
       /\ b.f.deferred = adapter.deferred /\ b.f.stdin = adapter.stdin
       /\ Granted(b.f.microtasks) \subseteq Granted(adapter.microtasks)
       /\ Pending(b.f) \subseteq Pending(adapter) /\ (b.f.ready => adapter.ready)
  BY <1>1, <1>2, <1>6, <1>7 DEF Silent, Fewer, Pending
<1>12. Fine(b) /\ Ordered(State, b)
  BY <1>10, <1>11, QuietFine DEF Exiting
<1>13. LaunchInv'
  <2>1. /\ handlers' = handlers /\ adapter'.terminated = adapter.terminated
        /\ adapter'.deferrals = adapter.deferrals
        /\ adapter'.deferred = adapter.deferred /\ adapter'.stdin = adapter.stdin
        /\ Granted(adapter'.microtasks) \subseteq Granted(adapter.microtasks)
        /\ Pending(adapter') \subseteq Pending(adapter)
        /\ (adapter'.ready => adapter.ready)
    BY <1>3, <1>11 DEF Becomes
  <2>2. process' = "starting" => process = "starting"
    BY <1>3, Killed
  <2> QED BY <1>3, <2>1, <2>2, LaunchSilent
<1> QED BY <1>3, <1>12, <1>13 DEF AdapterStep

-----------------------------------------------------------------------------
(***************************************************************************)
(* The exit of the child, and its close.                                   *)
(***************************************************************************)
Resumed(a, b) ==
    /\ b.h = a.h /\ b.dap = a.dap
    /\ b.f.terminated = a.f.terminated /\ b.f.disposed = a.f.disposed
    /\ b.f.deferrals = a.f.deferrals /\ b.f.deferred = a.f.deferred
    /\ b.f.stdin = a.f.stdin /\ b.f.pending = a.f.pending /\ b.f.ready = a.f.ready
    /\ Exiting(b.f) \subseteq Exiting(a.f)
    /\ Granted(b.f.microtasks) \subseteq Granted(a.f.microtasks) \cup Exiting(a.f)

(* A handler that has waited for the exit long enough goes on.             *)
LEMMA ResumeFacts ==
    ASSUME NEW a \in States, Sound(a, {}), NEW i \in 1..Len(a.f.waiting)
    PROVE  LET b == Resumes(a, i) IN Sound(b, {}) /\ Resumed(a, b)
<1> DEFINE b == Resumes(a, i)
           q == a.f.microtasks
           p == a.f.waiting
           e == p[i]
           t == Append(q, e)
           w == Without(p, i)
           f == [a.f EXCEPT !.microtasks = t, !.waiting = w]
<1>1. /\ a.f \in Fields /\ q \in Seq(Tasks) /\ p \in Seq(Tasks) /\ Owned(a, {}) /\ Told(a)
  BY DEF Sound, States, Fields
<1>2. e \in Tasks /\ e.request \in Exiting(a.f)
  <2>1. e \in Tasks
    BY <1>1
  <2> QED BY <2>1 DEF Exiting, Members
<1>3. /\ Once(q) /\ Once(p) /\ e.request \notin Members(q)
      /\ \A x \in Tasks : x.request \in Nat
  BY <1>1, <1>2 DEF Owned, OneQueue, Queued, Tasks
<1>4. b = [a EXCEPT !.f = f]
  BY <1>1 DEF Resumes, States, Fields
<1>5. i \in 1..Len(p) /\ e = p[i]
  OBVIOUS
<1> HIDE DEF e
<1>6. /\ t \in Seq(Tasks) /\ Once(t) /\ Members(t) = Members(q) \cup {e.request}
  <2> HIDE DEF q, t
  <2>1. t = Append(q, e)
    BY DEF t
  <2> QED BY <1>1, <1>2, <1>3, <2>1, QueueAppended
<1>7. /\ w \in Seq(Tasks) /\ Once(w) /\ Members(w) = Members(p) \ {e.request}
  <2> HIDE DEF p, w
  <2>1. w = Without(p, i)
    BY DEF w
  <2> QED BY <1>1, <1>3, <1>5, <2>1, EntryTaken
<1>8. Granted(t) \subseteq Granted(q) \cup {e.request}
  <2> HIDE DEF q
  <2> QED BY <1>1, <1>2, GrantedAppended
<1> HIDE DEF t, w
<1>9. /\ f \in Fields /\ f.microtasks = t /\ f.waiting = w
      /\ f.pending = a.f.pending /\ f.ready = a.f.ready /\ f.stdin = a.f.stdin
      /\ f.deferrals = a.f.deferrals /\ f.terminated = a.f.terminated
      /\ f.deferred = a.f.deferred /\ f.disposed = a.f.disposed
  BY <1>1, <1>6, <1>7 DEF Fields
<1> HIDE DEF f, b
<1>10. b.f = f /\ b.h = a.h /\ b.dap = a.dap /\ b \in States
  BY <1>4, <1>9 DEF States
<1>11. /\ Queued(b.f) = Queued(a.f) \cup {e.request}
       /\ Exiting(b.f) = Exiting(a.f) \ {e.request}
       /\ Pending(b.f) = Pending(a.f) /\ Launching(b.f) = Launching(a.f)
       /\ Once(b.f.microtasks) /\ Once(b.f.pending) /\ Once(b.f.waiting)
  BY <1>1, <1>6, <1>7, <1>9, <1>10
     DEF Queued, Exiting, Pending, Launching, Owned, OneQueue
<1>12. Owned(b, {})
  <2>1. OneQueue(a.f) /\ Undone(a.h) = Promised(a.f)
    BY <1>1 DEF Owned
  <2>2. OneQueue(b.f)
    BY <1>2, <1>11, <2>1 DEF OneQueue
  <2>3. Promised(b.f) = Promised(a.f)
    BY <1>2, <1>11 DEF Promised
  <2> QED BY <1>10, <2>1, <2>2, <2>3 DEF Owned
<1>13. Told(b)
  BY <1>1, <1>9, <1>10 DEF Told, EndKnown
<1>14. Resumed(a, b)
  BY <1>2, <1>8, <1>9, <1>10, <1>11 DEF Resumed
<1> QED BY <1>10, <1>12, <1>13, <1>14 DEF Sound, b

(* All handlers that wait for the exit go on.                              *)
LEMMA AllResumeFacts ==
    ASSUME NEW a \in States, Sound(a, {})
    PROVE  LET b == AllResume(a) IN Sound(b, {}) /\ Resumed(a, b)
<1> DEFINE b == AllResume(a)
           q == a.f.microtasks
           p == a.f.waiting
           t == q \o p
           f == [a.f EXCEPT !.microtasks = t, !.waiting = <<>>]
<1>1. /\ a.f \in Fields /\ q \in Seq(Tasks) /\ p \in Seq(Tasks) /\ Owned(a, {}) /\ Told(a)
  BY DEF Sound, States, Fields
<1>2. /\ Once(q) /\ Once(p) /\ Members(q) \cap Members(p) = {}
  BY <1>1 DEF Owned, OneQueue, Queued, Exiting
<1>3. b = [a EXCEPT !.f = f]
  BY <1>1 DEF AllResume, States, Fields
<1>4. Exiting(a.f) = Members(p)
  BY DEF Exiting
<1>5. /\ t \in Seq(Tasks) /\ Once(t) /\ Members(t) = Members(q) \cup Members(p)
  <2> HIDE DEF q, p, t
  <2>1. t = q \o p
    BY DEF t
  <2> QED BY <1>1, <1>2, <2>1, QueuesJoined
<1>6. Granted(t) \subseteq Granted(q) \cup Exiting(a.f)
  <2> HIDE DEF q, p, t
  <2>1. t = q \o p
    BY DEF t
  <2>2. ASSUME NEW x \in Granted(t) PROVE x \in Granted(q) \cup Members(p)
    <3>1. x \in Granted(q) \/ \E i \in 1..Len(p) : p[i].ok /\ p[i].request = x
      BY <1>1, <2>1, <2>2, GrantedJoined
    <3> QED BY <3>1 DEF Members
  <2> QED BY <1>4, <2>2
<1> HIDE DEF t
<1>7. <<>> \in Seq(Tasks)
  BY EmptySeq
<1>8. /\ f \in Fields /\ f.microtasks = t /\ f.waiting = <<>>
      /\ f.pending = a.f.pending /\ f.ready = a.f.ready /\ f.stdin = a.f.stdin
      /\ f.deferrals = a.f.deferrals /\ f.terminated = a.f.terminated
      /\ f.deferred = a.f.deferred /\ f.disposed = a.f.disposed
  BY <1>1, <1>5, <1>7 DEF Fields
<1> HIDE DEF f, b
<1>9. b.f = f /\ b.h = a.h /\ b.dap = a.dap /\ b \in States
  BY <1>3, <1>8 DEF States
<1>10. /\ Queued(b.f) = Queued(a.f) \cup Exiting(a.f) /\ Exiting(b.f) = {}
       /\ Pending(b.f) = Pending(a.f) /\ Launching(b.f) = Launching(a.f)
       /\ Once(b.f.microtasks) /\ Once(b.f.pending) /\ Once(b.f.waiting)
  <2>1. Exiting(b.f) = {} /\ Once(b.f.waiting)
    BY <1>8, <1>9, NothingQueued DEF Exiting
  <2> QED BY <1>1, <1>5, <1>8, <1>9, <2>1
     DEF Queued, Exiting, Pending, Launching, Owned, OneQueue
<1>11. Owned(b, {})
  <2>1. OneQueue(a.f) /\ Undone(a.h) = Promised(a.f)
    BY <1>1 DEF Owned
  <2>2. OneQueue(b.f)
    BY <1>10, <2>1 DEF OneQueue
  <2>3. Promised(b.f) = Promised(a.f)
    BY <1>10 DEF Promised
  <2> QED BY <1>9, <2>1, <2>2, <2>3 DEF Owned
<1>12. Told(b)
  BY <1>1, <1>8, <1>9 DEF Told, EndKnown
<1>13. Resumed(a, b)
  BY <1>6, <1>8, <1>9, <1>10 DEF Resumed
<1> QED BY <1>9, <1>11, <1>12, <1>13 DEF Sound, b

(* Until the launch is answered there is no request but the launch.        *)
LEMMA LaunchAlone ==
    ASSUME TypeOK, LocalInv, LaunchInv, handlers[1].stage # "done"
    PROVE  /\ Len(handlers) = 1 /\ Undone(handlers) = {1}
           /\ Promised(adapter) = {1} /\ Exiting(adapter) = {}
<1>1. Len(handlers) = 1 /\ 1..Len(handlers) = {1}
  BY DEF LaunchInv, SetUp
<1>2. Undone(handlers) = {1}
  BY <1>1 DEF Undone
<1>3. Promised(adapter) = {1} /\ 1 \notin Exiting(adapter)
  BY <1>2 DEF LocalInv, PromiseInv
<1>4. Exiting(adapter) = {}
  BY <1>3 DEF Promised
<1> QED BY <1>1, <1>2, <1>3, <1>4

(* The timer of waitForChildExit.                                          *)
LEMMA ExitTimeoutStep ==
    ASSUME TypeOK, LocalInv, LaunchInv, ExitTimeout PROVE AdapterStep /\ LaunchInv'
<1>1. /\ State \in States /\ Sound(State, {}) /\ {} \in SUBSET Nat
      /\ State.f = adapter /\ State.h = handlers /\ State.dap = dap
  BY StateFine
<1> DEFINE a == IF adapter.child THEN stopChild(State) ELSE State
<1>2. PICK i \in 1..Len(adapter.waiting) : Becomes(Resumes(a, i)) /\ MayKill(a)
  BY DEF ExitTimeout
<1>3. UNCHANGED <<stdout, server>>
  BY DEF ExitTimeout
<1>4. Sound(a, {}) /\ Silent(State, a) /\ Fewer(State, a, {})
  <2>1. CASE adapter.child
    <3>1. a = stopChild(State)
      BY <2>1
    <3> HIDE DEF a
    <3> QED BY <1>1, <3>1, StopSound
  <2>2. CASE ~adapter.child
    <3>1. a = State
      BY <2>2
    <3> QED BY <1>1, <3>1 DEF Silent, Fewer
  <2> QED BY <2>1, <2>2
<1> DEFINE b == Resumes(a, i)
<1>5. Becomes(b) /\ b = Resumes(a, i)
  BY <1>2
<1> HIDE DEF a, b
<1>6. a \in States /\ a.f.waiting = adapter.waiting
  BY <1>1, <1>4 DEF Sound, Silent
<1>7. i \in 1..Len(a.f.waiting)
  BY <1>6
<1>8. Sound(b, {}) /\ Resumed(a, b)
  BY <1>4, <1>5, <1>6, <1>7, ResumeFacts
<1>9. /\ b.h = handlers /\ b.dap = dap /\ b.f.deferrals = adapter.deferrals
      /\ (b.f.ready => adapter.ready)
  BY <1>1, <1>4, <1>8 DEF Resumed, Silent, Fewer
<1>10. Exiting(b.f) \subseteq Exiting(adapter)
  BY <1>6, <1>8 DEF Resumed, Exiting
<1>11. Fine(b) /\ Ordered(State, b)
  BY <1>8, <1>9, <1>10, QuietFine
<1>12. handlers[1].stage = "done"
  <2>1. adapter.waiting[i].request \in Exiting(adapter)
    BY DEF Exiting, Members
  <2> QED BY <2>1, LaunchAlone
<1>13. LaunchInv'
  BY <1>5, <1>9, <1>12, LaunchOver DEF Becomes
<1> QED BY <1>5, <1>11, <1>13 DEF AdapterStep

(* Forgetting the child settles nothing.                                   *)
LEMMA ChildGone ==
    ASSUME NEW a \in States, Sound(a, {})
    PROVE  LET b == [a EXCEPT !.f.child = FALSE] IN
           Sound(b, {}) /\ Silent(a, b) /\ Fewer(a, b, {})
<1> DEFINE b == [a EXCEPT !.f.child = FALSE]
           f == [a.f EXCEPT !.child = FALSE]
<1>1. a.f \in Fields /\ Owned(a, {}) /\ Told(a)
  BY DEF Sound, States
<1>2. b = [a EXCEPT !.f = f]
  BY <1>1 DEF States
<1>3. /\ f \in Fields /\ f.microtasks = a.f.microtasks /\ f.waiting = a.f.waiting
      /\ f.pending = a.f.pending /\ f.ready = a.f.ready /\ f.stdin = a.f.stdin
      /\ f.executionState = a.f.executionState /\ f.reading = a.f.reading
      /\ f.entryStoppedSent = a.f.entryStoppedSent
      /\ f.deferrals = a.f.deferrals /\ f.terminated = a.f.terminated
      /\ f.deferred = a.f.deferred /\ f.disposed = a.f.disposed
  BY <1>1 DEF Fields
<1> HIDE DEF f, b
<1>4. b.f = f /\ b.h = a.h /\ b.dap = a.dap /\ b \in States
  BY <1>2, <1>3 DEF States
<1>5. Owned(b, {})
  BY <1>1, <1>3, <1>4 DEF Owned, OneQueue, Promised, Queued, Pending, Exiting, Launching
<1>6. Silent(a, b) /\ Fewer(a, b, {})
  BY <1>3, <1>4 DEF Silent, Fewer, Pending
<1>7. Sound(b, {})
  BY <1>4, <1>5, <1>6, SilentSound
<1> QED BY <1>6, <1>7 DEF b

(* A deferred event is not said.                                           *)
LEMMA DeferFacts ==
    ASSUME NEW a \in States, NEW H, Sound(a, H), NEW name \in Deferrable
    PROVE  LET b == Defer(a, name) IN
           /\ Sound(b, H) /\ OnlySays(a, b) /\ b.dap = a.dap
           /\ b.f.deferrals = a.f.deferrals /\ b.f.terminated = a.f.terminated
<1> DEFINE b == Defer(a, name)
           q == Append(a.f.deferred, name)
           f == [a.f EXCEPT !.deferred = q]
<1>1. a.f \in Fields /\ Owned(a, H) /\ Told(a) /\ q \in Seq(Deferrable)
  BY DEF Sound, States, Fields
<1>2. b = [a EXCEPT !.f = f]
  BY <1>1 DEF Defer, States, Fields
<1> HIDE DEF q
<1>3. /\ f \in Fields /\ f.microtasks = a.f.microtasks /\ f.waiting = a.f.waiting
      /\ f.pending = a.f.pending /\ f.ready = a.f.ready /\ f.stdin = a.f.stdin
      /\ f.child = a.f.child /\ f.reading = a.f.reading
      /\ f.protocolSeq = a.f.protocolSeq
      /\ f.entryStoppedSent = a.f.entryStoppedSent
      /\ f.deferrals = a.f.deferrals /\ f.terminated = a.f.terminated
      /\ f.disposed = a.f.disposed
  BY <1>1 DEF Fields
<1> HIDE DEF f, b
<1>4. b.f = f /\ b.h = a.h /\ b.dap = a.dap /\ b \in States /\ b.kill = a.kill
  BY <1>2, <1>3 DEF States
<1>5. SamePromises(a, b)
  BY <1>3, <1>4 DEF SamePromises
<1>6. Owned(b, H)
  BY <1>1, <1>4, <1>5, SamePromised DEF Owned
<1>7. Told(b)
  BY <1>1, <1>3, <1>4 DEF Told, EndKnown
<1>8. OnlySays(a, b)
  <2>1. Len(a.dap) \in Nat
    BY DEF States
  <2> QED BY <1>4, <1>5, <2>1 DEF OnlySays, Extends
<1> QED BY <1>3, <1>4, <1>6, <1>7, <1>8 DEF Sound, b

(* The close handler settles everything and says or defers the end.        *)
LEMMA CloseFacts ==
    ASSUME NEW a \in States, Sound(a, {})
    PROVE  LET c == Closes(a) IN
           /\ Sound(c, {}) /\ c.h = a.h /\ NoMove(a, c)
           /\ c.f.deferrals = a.f.deferrals
           /\ (a.f.deferrals = 0 => c.f.deferred = a.f.deferred)
           /\ c.f.stdin = a.f.stdin /\ c.f.waiting = a.f.waiting
           /\ c.f.pending = <<>> /\ c.f.ready = FALSE
           /\ Granted(c.f.microtasks) \subseteq Granted(a.f.microtasks)
<1> DEFINE a1 == [a EXCEPT !.f.child = FALSE]
           a2 == rejectPending(a1)
           ok == FALSE
           b  == settleReady(a2, ok)
           c  == Closes(a)
<1>1. Sound(a1, {}) /\ Silent(a, a1) /\ Fewer(a, a1, {}) /\ {} \in SUBSET Nat
  BY ChildGone
<1>2. c = IF b.f.terminated THEN b
          ELSE IF b.f.deferrals > 0 THEN Defer(b, "terminated") ELSE Terminates(b)
  BY DEF Closes
<1> HIDE DEF a1
<1>3. a1 \in States /\ Owned(a1, {})
  BY <1>1 DEF Sound
<1>4. /\ a2 \in States /\ Owned(a2, {}) /\ Silent(a1, a2) /\ Fewer(a1, a2, {})
      /\ a2.f.pending = <<>>
  BY <1>1, <1>3, RejectFacts
<1> HIDE DEF a2
<1>5. /\ b \in States /\ Owned(b, {}) /\ Silent(a2, b)
      /\ Fewer(a2, b, IF ok /\ a2.f.ready THEN {1} ELSE {})
      /\ ~b.f.ready /\ b.f.pending = a2.f.pending
  BY <1>1, <1>4, ReadyFacts
<1>6. Fewer(a2, b, {}) /\ b.f.ready = FALSE
  <2>1. b.f.ready \in BOOLEAN
    BY <1>5 DEF States, Fields
  <2> QED BY <1>5, <2>1
<1> HIDE DEF b, c, ok
<1>7. Silent(a, b) /\ Fewer(a, b, {}) /\ b.f.pending = <<>>
  BY <1>1, <1>4, <1>5, <1>6 DEF Silent, Fewer
<1>8. Sound(b, {})
  BY <1>5, <1>7, SilentSound
<1>9. Len(a.dap) \in Nat /\ b.dap = a.dap
  BY <1>7 DEF States, Silent
<1>10. b.f.deferrals \in Nat
  BY <1>5 DEF States, Fields
<1>11. /\ Sound(c, {}) /\ OnlySays(b, c) /\ NoMove(b, c)
       /\ c.f.deferrals = b.f.deferrals
       /\ (b.f.deferrals = 0 => c.f.deferred = b.f.deferred)
  <2>1. CASE b.f.terminated
    <3>1. c = b
      BY <1>2, <2>1
    <3>2. OnlySays(b, b)
      BY <1>5, OnlySaysItself
    <3>3. NoMove(b, b)
      BY <1>9 DEF NoMove
    <3> QED BY <1>8, <3>1, <3>2, <3>3
  <2>2. CASE ~b.f.terminated /\ b.f.deferrals > 0
    <3> DEFINE name == "terminated"
    <3>1. c = Defer(b, name) /\ name \in Deferrable
      BY <1>2, <2>2 DEF Deferrable
    <3> HIDE DEF name
    <3>2. /\ Sound(c, {}) /\ OnlySays(b, c) /\ c.dap = b.dap
          /\ c.f.deferrals = b.f.deferrals
      BY <1>5, <1>8, <3>1, DeferFacts
    <3>3. NoMove(b, c)
      BY <1>9, <3>2 DEF NoMove
    <3> QED BY <1>10, <2>2, <3>2, <3>3
  <2>3. CASE ~b.f.terminated /\ ~(b.f.deferrals > 0)
    <3>1. c = Terminates(b)
      BY <1>2, <2>3
    <3> QED BY <1>1, <1>5, <1>8, <3>1, TerminatesFacts
  <2> QED BY <2>1, <2>2, <2>3
<1>12. NoMove(a, c)
  BY <1>9, <1>11 DEF NoMove
<1> QED BY <1>6, <1>7, <1>11, <1>12 DEF Silent, Fewer, OnlySays, SamePromises, c

(* A step of which the client hears nothing that moves the session.        *)
LEMMA StillFine ==
    ASSUME TypeOK, LocalInv, NEW b, Sound(b, {}), b.h = handlers, NoMove(State, b),
           b.f.deferrals = adapter.deferrals, Exiting(b.f) \subseteq Exiting(adapter)
    PROVE  Fine(b) /\ Ordered(State, b)
<1>1. Fine(State) /\ State.f = adapter /\ State.h = handlers
  BY StateFine
<1>2. Ordered(State, b)
  BY DEF Ordered, NoMove
<1> QED BY <1>1, <1>2 DEF Fine

(* A launch that can no longer succeed.                                    *)
LEMMA LaunchQuenched ==
    ASSUME TypeOK, LaunchInv, handlers[1].stage # "done", handlers' = handlers,
           UNCHANGED server, process' # "starting",
           adapter'.deferrals = adapter.deferrals, adapter'.deferred = adapter.deferred,
           adapter'.stdin = adapter.stdin, ~adapter'.ready, ~MaySucceed'
    PROVE  LaunchInv'
<1>1. UNCHANGED <<session, stopEvent, answering>>
  BY DEF server
<1>2. SetUp' = SetUp /\ Joined' = Joined
  BY <1>1 DEF SetUp, Joined, NoLine, Line
<1>3. /\ session' = "Ready" /\ Joined' /\ answering' = 0
      /\ adapter'.deferrals = 0 /\ adapter'.deferred = <<>>
      /\ \A i \in 1..Len(adapter'.stdin) : adapter'.stdin[i].command = "initialize"
  BY <1>1, <1>2 DEF LaunchInv
<1>4. /\ Len(handlers') > 0 /\ handlers'[1].command = "launch"
      /\ \A r \in 2..Len(handlers') : handlers'[r].command # "launch"
      /\ (~SetUp' => Len(handlers') = 1)
      /\ handlers'[1].stage \in {"ready", "reply", "done"}
  BY <1>2 DEF LaunchInv
<1> QED BY <1>3, <1>4 DEF LaunchInv

(* The close event of the child.                                           *)
LEMMA CloseStep ==
    ASSUME TypeOK, LocalInv, LaunchInv, Close PROVE AdapterStep /\ LaunchInv'
<1> DEFINE c == Closes(State)
           d == AllResume(c)
<1>1. /\ State \in States /\ Sound(State, {})
      /\ State.f = adapter /\ State.h = handlers /\ State.dap = dap
  BY StateFine
<1>2. /\ Sound(c, {}) /\ c.h = State.h /\ NoMove(State, c)
      /\ c.f.deferrals = State.f.deferrals
      /\ (State.f.deferrals = 0 => c.f.deferred = State.f.deferred)
      /\ c.f.stdin = State.f.stdin /\ c.f.waiting = State.f.waiting
      /\ c.f.pending = <<>> /\ c.f.ready = FALSE
      /\ Granted(c.f.microtasks) \subseteq Granted(State.f.microtasks)
  BY <1>1, CloseFacts
<1>3. Becomes(d) /\ UNCHANGED server /\ process' = "closed" /\ adapter.microtasks = <<>>
  BY DEF Close, Idle
<1> HIDE DEF c
<1>4. c \in States
  BY <1>2 DEF Sound
<1>5. Sound(d, {}) /\ Resumed(c, d)
  BY <1>2, <1>4, AllResumeFacts
<1> HIDE DEF d
<1>6. /\ d.h = handlers /\ d.f.deferrals = adapter.deferrals
      /\ d.f.stdin = adapter.stdin /\ d.f.pending = <<>> /\ ~d.f.ready
      /\ (adapter.deferrals = 0 => d.f.deferred = adapter.deferred)
  BY <1>1, <1>2, <1>5 DEF Resumed
<1>7. NoMove(State, d)
  BY <1>2, <1>5 DEF Resumed, NoMove
<1>8. Exiting(c.f) = Exiting(adapter) /\ Exiting(d.f) \subseteq Exiting(adapter)
  BY <1>1, <1>2, <1>5 DEF Resumed, Exiting
<1>9. Fine(d) /\ Ordered(State, d)
  BY <1>5, <1>6, <1>7, <1>8, StillFine
<1>10. adapter' = d.f /\ handlers' = d.h
  BY <1>3 DEF Becomes
<1>11. CASE handlers[1].stage = "done"
  BY <1>6, <1>10, <1>11, <1>3, <1>9, LaunchOver DEF AdapterStep
<1>12. CASE handlers[1].stage # "done"
  <2>1. Exiting(adapter) = {}
    BY <1>12, LaunchAlone
  <2>2. Granted(adapter.microtasks) = {}
    <3> DEFINE q == adapter.microtasks
    <3>1. Len(q) = 0
      BY <1>3
    <3> HIDE DEF q
    <3>2. Granted(q) = {}
      BY <3>1 DEF Granted
    <3> QED BY <3>2 DEF q
  <2>3. Granted(d.f.microtasks) = {}
    BY <1>1, <1>2, <1>5, <1>8, <2>1, <2>2 DEF Resumed
  <2>4. Pending(d.f) = {}
    BY <1>6, NothingQueued DEF Pending
  <2>5. ~MaySucceed'
    BY <1>6, <1>10, <2>3, <2>4 DEF MaySucceed
  <2>6. adapter.deferrals = 0
    BY <1>12 DEF LaunchInv
  <2>7. LaunchInv'
    BY <1>3, <1>6, <1>10, <1>12, <2>5, <2>6, LaunchQuenched
  <2> QED BY <1>3, <1>9, <2>7 DEF AdapterStep
<1> QED BY <1>11, <1>12

-----------------------------------------------------------------------------
(***************************************************************************)
(* A line from the server.                                                 *)
(***************************************************************************)
Handled(a, b, line) ==
    /\ Sound(b, {}) /\ b.h = a.h /\ Ordered(a, b)
    /\ b.f.deferrals = a.f.deferrals
    /\ b.f.waiting = a.f.waiting /\ b.f.stdin = a.f.stdin
    /\ Pending(b.f) \subseteq Pending(a.f) /\ (b.f.ready => a.f.ready)
    /\ Granted(b.f.microtasks) \subseteq Granted(a.f.microtasks) \cup Pending(a.f)
           \cup (IF line.name = "ready" /\ a.f.ready THEN {1} ELSE {})
    /\ (b.f.terminated => a.f.terminated \/ line.name = "terminated")
    /\ (line.name = "error" /\ ~a.f.terminated => ~b.f.ready)
    /\ (a.f.deferrals = 0 => b.f.deferred = a.f.deferred)

(* A line of the server is a response or an event.                         *)
LEMMA HandledFacts ==
    ASSUME NEW a \in States, Sound(a, {}), a.f.deferrals = Cardinality(Waits(a.h)),
           NEW line \in Lines
    PROVE  Handled(a, handleProtocolLine(a, line), line)
<1> DEFINE b == handleProtocolLine(a, line)
           name == line.name
<1>1. /\ Owned(a, {}) /\ {} \in SUBSET Nat /\ Len(a.dap) \in Nat
      /\ a.f.deferrals \in Nat /\ a.h \in Seq(Handlers)
  BY DEF Sound, States, Fields
<1>2. \A i \in Len(a.dap) + 1 .. Len(a.dap) : FALSE
  BY <1>1
<1>3. CASE line.type = "response"
  <2>1. b = HandleAnswer(a, line) /\ name = "none"
    BY <1>3 DEF handleProtocolLine, Lines
  <2> HIDE DEF b
  <2>2. /\ b \in States /\ Owned(b, {}) /\ Silent(a, b) /\ Fewer(a, b, Pending(a.f))
        /\ b.f.ready = a.f.ready
    BY <1>1, <2>1, AnswerFacts
  <2>3. Sound(b, {})
    BY <2>2, SilentSound
  <2>4. b.dap = a.dap /\ b.h = a.h
    BY <2>2 DEF Silent
  <2>5. Ordered(a, b)
    BY <1>2, <2>4 DEF Ordered
  <2>6. Handled(a, b, line)
    BY <2>1, <2>2, <2>3, <2>4, <2>5 DEF Handled, Silent, Fewer
  <2> QED BY <2>6 DEF b
<1>4. CASE line.type = "event" /\ name \in Deferrable /\ a.f.deferrals > 0
  <2>1. b = Defer(a, name) /\ name # "ready" /\ name # "error"
    BY <1>4 DEF handleProtocolLine, handleProtocolEvent, Deferrable
  <2>2. name \in Deferrable
    BY <1>4
  <2> HIDE DEF b
  <2>3. /\ Sound(b, {}) /\ OnlySays(a, b) /\ b.dap = a.dap
        /\ b.f.deferrals = a.f.deferrals /\ b.f.terminated = a.f.terminated
    <3> HIDE DEF name
    <3> QED BY <2>1, <2>2, DeferFacts
  <2>4. Ordered(a, b)
    BY <1>2, <2>3 DEF Ordered
  <2>5. a.f.deferrals # 0
    BY <1>1, <1>4
  <2>6. Handled(a, b, line)
    BY <2>1, <2>3, <2>4, <2>5 DEF Handled, OnlySays, SamePromises, Pending
  <2> QED BY <2>6 DEF b
<1>5. CASE line.type = "event" /\ name \in Deferrable /\ ~(a.f.deferrals > 0)
  <2> DEFINE names == <<name>>
  <2>1. b = ApplyEvents(a, names) /\ name # "ready" /\ name # "error"
    BY <1>5 DEF handleProtocolLine, handleProtocolEvent, ApplyEvent, Deferrable
  <2>2. /\ names \in Seq(Deferrable)
        /\ \A i \in 1..Len(names) : names[i] = name
    BY <1>5
  <2> HIDE DEF b, names
  <2>3. /\ Sound(b, {}) /\ OnlySays(a, b)
        /\ b.f.deferrals = a.f.deferrals /\ b.f.deferred = a.f.deferred
        /\ (b.f.terminated => a.f.terminated
                              \/ \E i \in 1..Len(names) : names[i] = "terminated")
    BY <1>1, <2>1, <2>2, ApplyFacts
  <2>4. Waits(a.h) = {}
    <3>1. Cardinality(Waits(a.h)) = 0
      BY <1>1, <1>5
    <3> QED BY <1>1, <3>1, WaitsFinite, FS_EmptySet
  <2>5. Ordered(a, b)
    BY <2>4 DEF Ordered
  <2>6. b.f.terminated => a.f.terminated \/ name = "terminated"
    BY <2>2, <2>3
  <2>7. Handled(a, b, line)
    BY <2>1, <2>3, <2>5, <2>6 DEF Handled, OnlySays, SamePromises, Pending
  <2> QED BY <2>7 DEF b
<1>6. CASE line.type = "event" /\ name \in {"ready", "error"}
  <2> DEFINE ok == (name = "ready")
             c == settleReady(a, ok)
  <2>1. ok \in BOOLEAN
    OBVIOUS
  <2>2. b = IF name = "error" /\ a.f.terminated THEN a ELSE c
    BY <1>6 DEF handleProtocolLine, handleProtocolEvent, ApplyEvent, Deferrable
  <2>3. /\ ok <=> name = "ready"
        /\ name # "terminated"
    BY <1>6
  <2> HIDE DEF b, ok
  <2>4. /\ c \in States /\ Owned(c, {}) /\ Silent(a, c)
        /\ Fewer(a, c, IF ok /\ a.f.ready THEN {1} ELSE {})
        /\ ~c.f.ready
    BY <1>1, <2>1, ReadyFacts
  <2> HIDE DEF c
  <2>5. Sound(c, {})
    BY <2>4, SilentSound
  <2>6. /\ Sound(b, {}) /\ b.h = a.h /\ b.dap = a.dap
        /\ b.f.deferrals = a.f.deferrals /\ b.f.waiting = a.f.waiting
        /\ b.f.stdin = a.f.stdin /\ Pending(b.f) \subseteq Pending(a.f)
        /\ (b.f.ready => a.f.ready) /\ b.f.deferred = a.f.deferred
        /\ b.f.terminated = a.f.terminated
        /\ (name = "error" /\ ~a.f.terminated => ~b.f.ready)
        /\ Granted(b.f.microtasks) \subseteq Granted(a.f.microtasks)
               \cup (IF name = "ready" /\ a.f.ready THEN {1} ELSE {})
    BY <2>2, <2>3, <2>4, <2>5 DEF Silent, Fewer
  <2>7. Ordered(a, b)
    BY <1>2, <2>6 DEF Ordered
  <2>8. Handled(a, b, line)
    BY <2>3, <2>6, <2>7 DEF Handled
  <2> QED BY <2>8 DEF b
<1> QED BY <1>3, <1>4, <1>5, <1>6 DEF Lines

(* Whether more lines are to be handled changes nothing else.              *)
LEMMA ReadingFacts ==
    ASSUME NEW a \in States, NEW b \in States, NEW line, Handled(a, b, line),
           NEW more \in BOOLEAN
    PROVE  Handled(a, [b EXCEPT !.f.reading = more], line)
<1> DEFINE c == [b EXCEPT !.f.reading = more]
           f == [b.f EXCEPT !.reading = more]
<1>1. b.f \in Fields /\ Owned(b, {}) /\ Told(b)
  BY DEF Handled, Sound, States
<1>2. c = [b EXCEPT !.f = f]
  BY <1>1 DEF States
<1>3. /\ f \in Fields /\ f.microtasks = b.f.microtasks /\ f.waiting = b.f.waiting
      /\ f.pending = b.f.pending /\ f.ready = b.f.ready /\ f.stdin = b.f.stdin
      /\ f.deferrals = b.f.deferrals /\ f.terminated = b.f.terminated
      /\ f.deferred = b.f.deferred /\ f.disposed = b.f.disposed
  BY <1>1 DEF Fields
<1> HIDE DEF f, c
<1>4. c.f = f /\ c.h = b.h /\ c.dap = b.dap /\ c \in States
  BY <1>2, <1>3 DEF States
<1>5. Owned(c, {})
  BY <1>1, <1>3, <1>4 DEF Owned, OneQueue, Promised, Queued, Pending, Exiting, Launching
<1>6. Told(c)
  BY <1>1, <1>3, <1>4 DEF Told, EndKnown
<1>7. Ordered(a, c)
  BY <1>4 DEF Handled, Ordered
<1>8. Handled(a, c, line)
  BY <1>3, <1>4, <1>5, <1>6, <1>7 DEF Handled, Sound, Pending
<1> QED BY <1>8 DEF c

(* What is left of the output was there before.                            *)
LEMMA SaysRest ==
    ASSUME stdout \in Seq(Lines), stdout # <<>>, stdout' = Tail(stdout), NEW name
    PROVE  /\ Says(stdout', name) => Says(stdout, name)
           /\ Head(stdout).name = name => Says(stdout, name)
           /\ Head(stdout) \in Lines /\ stdout[1] = Head(stdout)
           /\ stdout' \in Seq(Lines)
<1>1. /\ Len(stdout) \in Nat \ {0} /\ stdout' \in Seq(Lines)
      /\ Len(stdout') = Len(stdout) - 1 /\ Head(stdout) \in Lines
      /\ stdout[1] = Head(stdout)
      /\ \A i \in 1..Len(stdout') : stdout'[i] = stdout[i + 1]
  OBVIOUS
<1>2. ASSUME NEW i \in 1..Len(stdout'), stdout'[i].name = name
      PROVE  \E j \in 1..Len(stdout) : stdout[j].name = name
  <2>1. i + 1 \in 1..Len(stdout) /\ stdout[i + 1].name = name
    BY <1>1, <1>2
  <2> QED BY <2>1
<1>3. 1 \in 1..Len(stdout)
  BY <1>1
<1> QED BY <1>1, <1>2, <1>3 DEF Says

(* handleStdout, one line.                                                 *)
LEMMA StdoutStep ==
    ASSUME TypeOK, LocalInv, LaunchInv, handleStdout PROVE AdapterStep /\ LaunchInv'
<1> DEFINE line == Head(stdout)
           a == handleProtocolLine(State, line)
<1>1. PICK more \in {FALSE, Len(stdout) > 1} : Becomes([a EXCEPT !.f.reading = more])
  BY DEF handleStdout
<1> DEFINE b == [a EXCEPT !.f.reading = more]
<1>2. /\ stdout # <<>> /\ stdout' = Tail(stdout) /\ UNCHANGED <<process, server>>
      /\ stdout \in Seq(Lines)
  BY DEF handleStdout, TypeOK
<1>3. /\ line \in Lines /\ stdout[1] = line
      /\ \A name : Says(stdout', name) => Says(stdout, name)
      /\ \A name : line.name = name => Says(stdout, name)
  BY <1>2, SaysRest
<1>4. /\ State \in States /\ Sound(State, {}) /\ Fine(State)
      /\ State.f = adapter /\ State.h = handlers /\ State.dap = dap
  BY StateFine
<1>5. Becomes(b) /\ b = [a EXCEPT !.f.reading = more] /\ more \in BOOLEAN
  <2>1. more \in BOOLEAN
    <3>1. (Len(stdout) > 1) \in BOOLEAN
      BY SMT
    <3> DEFINE x == Len(stdout) > 1
    <3>2. x \in BOOLEAN /\ more \in {FALSE, x}
      BY <3>1
    <3> HIDE DEF x
    <3> QED BY <3>2
  <2>2. Becomes(b)
    BY <1>1
  <2> QED BY <2>1, <2>2
<1>6. a = handleProtocolLine(State, line)
  OBVIOUS
<1> HIDE DEF a, b, line
<1>7. Handled(State, a, line)
  BY <1>3, <1>4, <1>6, HandledFacts DEF Fine
<1>8. a \in States
  BY <1>7 DEF Handled, Sound
<1>9. Handled(State, b, line)
  BY <1>4, <1>5, <1>7, <1>8, ReadingFacts
<1>10. /\ Sound(b, {}) /\ b.h = handlers /\ Ordered(State, b)
       /\ b.f.deferrals = adapter.deferrals
       /\ b.f.waiting = adapter.waiting /\ b.f.stdin = adapter.stdin
       /\ Pending(b.f) \subseteq Pending(adapter) /\ (b.f.ready => adapter.ready)
       /\ Granted(b.f.microtasks) \subseteq Granted(adapter.microtasks) \cup Pending(adapter)
              \cup (IF line.name = "ready" /\ adapter.ready THEN {1} ELSE {})
       /\ (b.f.terminated => adapter.terminated \/ line.name = "terminated")
       /\ (line.name = "error" /\ ~adapter.terminated => ~b.f.ready)
       /\ (adapter.deferrals = 0 => b.f.deferred = adapter.deferred)
  BY <1>4, <1>9 DEF Handled
<1>11. Fine(b)
  BY <1>4, <1>10 DEF Fine, Exiting
<1>12. adapter' = b.f /\ handlers' = handlers
  BY <1>5, <1>10 DEF Becomes
<1>13. CASE handlers[1].stage = "done"
  BY <1>5, <1>10, <1>11, <1>12, <1>13, LaunchOver DEF AdapterStep
<1>14. CASE handlers[1].stage # "done"
  <2>1. UNCHANGED <<process, session, stopEvent, answering>>
    BY <1>2 DEF server
  <2>2. SetUp' = SetUp /\ Joined' = Joined
    BY <1>12, <2>1 DEF SetUp, Joined, NoLine, Line
  <2>3. /\ session = "Ready" /\ Joined /\ answering = 0
        /\ adapter.deferrals = 0 /\ adapter.deferred = <<>>
        /\ \A i \in 1..Len(adapter.stdin) : adapter.stdin[i].command = "initialize"
        /\ process # "starting"
        /\ (MaySucceed => ~adapter.terminated /\ ~Says(stdout, "terminated"))
        /\ (adapter.ready /\ Says(stdout, "terminated") => stdout[1].name = "error")
        /\ (adapter.ready => handlers[1].stage = "ready" /\ ~adapter.terminated)
    BY <1>2, <1>14 DEF LaunchInv
  <2>4. MaySucceed' => MaySucceed
    BY <1>3, <1>10, <1>12 DEF MaySucceed
  <2>5. adapter.ready /\ Says(stdout, "terminated") => ~adapter'.ready
    BY <1>3, <1>10, <1>12, <2>3
  <2>6. adapter'.ready => handlers'[1].stage = "ready" /\ ~adapter'.terminated
    BY <1>3, <1>10, <1>12, <2>3, <2>5
  <2>7. MaySucceed' => ~adapter'.terminated /\ ~Says(stdout', "terminated")
    BY <1>3, <1>10, <1>12, <2>3, <2>4
  <2>8. ~(adapter'.ready /\ Says(stdout', "terminated"))
    BY <1>3, <1>10, <1>12, <2>5
  <2>9. /\ Len(handlers') > 0 /\ handlers'[1].command = "launch"
        /\ \A r \in 2..Len(handlers') : handlers'[r].command # "launch"
        /\ (~SetUp' => Len(handlers') = 1)
        /\ handlers'[1].stage \in {"ready", "reply", "done"}
    BY <1>12, <2>2 DEF LaunchInv
  <2>10. /\ session' = "Ready" /\ Joined' /\ answering' = 0
         /\ adapter'.deferrals = 0 /\ adapter'.deferred = <<>>
         /\ \A i \in 1..Len(adapter'.stdin) : adapter'.stdin[i].command = "initialize"
         /\ process' # "starting"
    BY <1>10, <1>12, <2>1, <2>2, <2>3
  <2>11. Says(stdout, "terminated")' <=> Says(stdout', "terminated")
    BY DEF Says
  <2>12. LaunchInv'
    BY <2>6, <2>7, <2>8, <2>9, <2>10, <2>11 DEF LaunchInv
  <2> QED BY <1>5, <1>10, <1>11, <2>12 DEF AdapterStep
<1> QED BY <1>13, <1>14

-----------------------------------------------------------------------------
(***************************************************************************)
(* Continuations.                                                          *)
(***************************************************************************)
LEMMA HeadTaken ==
    ASSUME NEW q \in Seq(Tasks), Once(q), q # <<>>
    PROVE  /\ Tail(q) \in Seq(Tasks) /\ Once(Tail(q)) /\ Head(q) \in Tasks
           /\ Members(Tail(q)) = Members(q) \ {Head(q).request}
           /\ Head(q).request \in Members(q)
           /\ Granted(Tail(q)) \subseteq Granted(q)
           /\ (Head(q).ok => Head(q).request \in Granted(q))
<1> DEFINE t == Tail(q)
           e == Head(q)
<1>1. /\ Len(q) \in Nat \ {0} /\ t \in Seq(Tasks) /\ Len(t) = Len(q) - 1
      /\ e \in Tasks /\ q[1] = e /\ \A i \in 1..Len(t) : t[i] = q[i + 1]
  OBVIOUS
<1> HIDE DEF t, e
<1>2. 1 \in 1..Len(q) /\ \A i \in 1..Len(t) : i + 1 \in 1..Len(q) /\ i + 1 # 1
  BY <1>1
<1>3. Once(t)
  <2> SUFFICES ASSUME NEW i \in 1..Len(t), NEW j \in 1..Len(t),
                      t[i].request = t[j].request
               PROVE  i = j
    BY DEF Once
  <2>1. i + 1 = j + 1
    BY <1>1, <1>2 DEF Once
  <2> QED BY <1>1, <2>1
<1>4. ASSUME NEW i \in 1..Len(t) PROVE t[i].request # e.request
  BY <1>1, <1>2 DEF Once
<1>5. ASSUME NEW x \in Members(t) PROVE x \in Members(q) \ {e.request}
  <2>1. PICK i \in 1..Len(t) : x = t[i].request
    BY DEF Members
  <2> QED BY <1>1, <1>2, <1>4, <2>1 DEF Members
<1>6. ASSUME NEW x \in Members(q), x # e.request PROVE x \in Members(t)
  <2>1. PICK i \in 1..Len(q) : x = q[i].request
    BY DEF Members
  <2>2. i # 1
    BY <1>1, <1>6, <2>1
  <2>3. i - 1 \in 1..Len(t) /\ t[i - 1] = q[i]
    <3>1. i - 1 \in 1..Len(t) /\ i - 1 + 1 = i
      BY <1>1, <2>2
    <3> QED BY <1>1, <3>1
  <2> QED BY <2>1, <2>3 DEF Members
<1>7. ASSUME NEW x \in Granted(t) PROVE x \in Granted(q)
  <2>1. PICK i \in 1..Len(t) : t[i].ok /\ x = t[i].request
    BY DEF Granted
  <2>2. i + 1 \in 1..Len(q) /\ q[i + 1].ok /\ x = q[i + 1].request
    BY <1>1, <1>2, <2>1
  <2> QED BY <2>2 DEF Granted
<1>8. e.ok => e.request \in Granted(q)
  BY <1>1, <1>2 DEF Granted
<1>9. e.request \in Members(q)
  BY <1>1, <1>2 DEF Members
<1> QED BY <1>1, <1>3, <1>5, <1>6, <1>7, <1>8, <1>9 DEF t, e

Resuming == [State EXCEPT !.f.microtasks = Tail(@)]

(* The handler of the first queued continuation has its promise in hand.   *)
LEMMA TaskTaken ==
    ASSUME TypeOK, LocalInv, adapter.microtasks # <<>>
    PROVE  LET a  == Resuming
               r  == Head(adapter.microtasks).request
               ok == Head(adapter.microtasks).ok IN
           /\ a \in States /\ Sound(a, {r}) /\ r \in Nat /\ ok \in BOOLEAN
           /\ r \in Undone(handlers) /\ r \in Queued(adapter)
           /\ (ok => r \in Granted(adapter.microtasks))
           /\ Granted(a.f.microtasks) \subseteq Granted(adapter.microtasks)
           /\ a.h = handlers /\ a.dap = dap
           /\ a.f.terminated = adapter.terminated /\ a.f.ready = adapter.ready
           /\ a.f.deferrals = adapter.deferrals /\ a.f.deferred = adapter.deferred
           /\ a.f.stdin = adapter.stdin /\ a.f.pending = adapter.pending
           /\ a.f.waiting = adapter.waiting
<1> DEFINE a  == Resuming
           q  == adapter.microtasks
           t  == Tail(q)
           r  == Head(q).request
           ok == Head(q).ok
           f  == [adapter EXCEPT !.microtasks = t]
<1>1. /\ State \in States /\ Owned(State, {}) /\ Told(State)
      /\ State.f = adapter /\ State.h = handlers /\ State.dap = dap
  BY StateFine DEF Sound
<1>2. adapter \in Fields /\ q \in Seq(Tasks) /\ Once(q) /\ q # <<>>
  BY <1>1 DEF Owned, OneQueue, States, Fields
<1>3. a = [State EXCEPT !.f = f]
  BY <1>1 DEF Resuming, States, Fields
<1>4. /\ t \in Seq(Tasks) /\ Once(t) /\ Head(q) \in Tasks
      /\ Members(t) = Members(q) \ {r} /\ r \in Members(q)
      /\ Granted(t) \subseteq Granted(q) /\ (ok => r \in Granted(q))
  <2> HIDE DEF q
  <2> QED BY <1>2, HeadTaken
<1>5. r \in Nat /\ ok \in BOOLEAN
  BY <1>4 DEF Tasks
<1> HIDE DEF t, r, ok
<1>6. /\ f \in Fields /\ f.microtasks = t /\ f.waiting = adapter.waiting
      /\ f.pending = adapter.pending /\ f.ready = adapter.ready
      /\ f.stdin = adapter.stdin
      /\ f.deferrals = adapter.deferrals /\ f.terminated = adapter.terminated
      /\ f.deferred = adapter.deferred /\ f.disposed = adapter.disposed
  BY <1>2, <1>4 DEF Fields
<1> HIDE DEF f, a
<1>7. a.f = f /\ a.h = handlers /\ a.dap = dap /\ a \in States
  BY <1>1, <1>3, <1>6 DEF States
<1>8. OneQueue(adapter) /\ Undone(handlers) = Promised(adapter)
  BY <1>1 DEF Owned
<1>9. /\ Queued(a.f) = Queued(adapter) \ {r} /\ Exiting(a.f) = Exiting(adapter)
      /\ Pending(a.f) = Pending(adapter) /\ Launching(a.f) = Launching(adapter)
      /\ r \in Queued(adapter)
      /\ Once(a.f.microtasks) /\ Once(a.f.pending) /\ Once(a.f.waiting)
  BY <1>4, <1>6, <1>7, <1>8 DEF Queued, Exiting, Pending, Launching, OneQueue
<1>10. OneQueue(a.f)
  BY <1>8, <1>9 DEF OneQueue
<1>11. Promised(a.f) = Promised(adapter) \ {r} /\ r \in Promised(adapter)
  BY <1>8, <1>9 DEF Promised, OneQueue
<1>12. Owned(a, {r})
  BY <1>7, <1>8, <1>10, <1>11 DEF Owned
<1>13. Told(a)
  BY <1>1, <1>6, <1>7 DEF Told, EndKnown
<1> QED BY <1>4, <1>5, <1>6, <1>7, <1>8, <1>9, <1>11, <1>12, <1>13 DEF Sound, a, r, ok

(* The continuation of a handler other than that of the launch.            *)
LEMMA ProgressFine ==
    ASSUME TypeOK, LocalInv, LaunchInv, NEW a \in States, NEW b, NEW r \in Undone(handlers),
           r # 1, a.h = handlers, a.dap = dap, a.f.ready = adapter.ready,
           a.f.waiting = adapter.waiting, Progress(a, b, r), Becomes(b)
    PROVE  AdapterStep /\ LaunchInv'
<1>1. /\ State \in States /\ Fine(State)
      /\ State.f = adapter /\ State.h = handlers /\ State.dap = dap
  BY StateFine
<1>2. r \in 2..Len(handlers) /\ Len(handlers) \in Nat
  BY DEF Undone, TypeOK
<1>3. Len(b.h) = Len(handlers) /\ \A i \in 1..Len(handlers) : i # r => b.h[i] = handlers[i]
  BY DEF Progress, Advanced
<1>4. b.h[r].command = handlers[r].command /\ b.h[r].stage \in {"reply", "exit", "done"}
  BY DEF Progress, Advanced
<1>5. Placed(b.h)
  <2> SUFFICES ASSUME NEW i \in Undone(b.h) \ {1}
               PROVE  b.h[i].stage \in {"reply", "exit"} /\ b.h[i].command # "configurationDone"
    BY DEF Placed
  <2>1. i \in 1..Len(handlers) /\ b.h[i].stage # "done"
    BY <1>3 DEF Undone
  <2>2. Placed(handlers)
    BY <1>1 DEF Fine
  <2>3. CASE i = r
    BY <1>4, <2>1, <2>2, <2>3 DEF Placed
  <2>4. CASE i # r
    <3>1. b.h[i] = handlers[i] /\ i \in Undone(handlers) \ {1}
      BY <1>3, <2>1, <2>4 DEF Undone
    <3> QED BY <2>2, <3>1 DEF Placed
  <2> QED BY <2>3, <2>4
<1>6. 1 \notin Exiting(b.f)
  BY <1>1 DEF Progress, Fine, Exiting
<1>7. Fine(b)
  BY <1>5, <1>6 DEF Fine, Progress
<1>8. Ordered(State, b)
  BY <1>1 DEF Progress, Ordered
<1>9. handlers[1].stage = "done"
  <2> DEFINE n == Len(handlers)
  <2>1. r \in 2..n /\ n \in Nat
    BY <1>2
  <2>2. n # 1
    <3> HIDE DEF n
    <3> QED BY <2>1
  <2> QED BY <2>2 DEF LaunchInv, SetUp
<1>10. /\ Len(handlers') = Len(handlers) /\ handlers'[1] = handlers[1]
       /\ \A i \in 1..Len(handlers) : handlers'[i].command = handlers[i].command
       /\ (adapter'.ready => adapter.ready)
  <2>1. adapter' = b.f /\ handlers' = b.h
    BY DEF Becomes
  <2>2. b.f.ready => adapter.ready
    BY DEF Progress
  <2>3. b.h[1] = handlers[1]
    BY <1>2, <1>3
  <2> QED BY <1>3, <1>4, <2>1, <2>2, <2>3
<1>11. LaunchInv'
  BY <1>9, <1>10, LaunchOver
<1> QED BY <1>7, <1>8, <1>11 DEF AdapterStep

(* The answer to a request that moves nothing.                             *)
LEMMA InspectProgress ==
    ASSUME NEW a \in States, NEW r \in Nat, Sound(a, {r}), r \notin Waits(a.h),
           a.h[r].command \notin Moving,
           a.f.deferrals = Cardinality(Waits(a.h)), NEW ok \in BOOLEAN
    PROVE  Progress(a, Reply(a, r, ok), r)
<1> DEFINE b == Reply(a, r, ok)
           H == {r}
<1>1. H \in SUBSET Nat /\ Sound(a, H) /\ r \in H /\ H \ {r} = {}
  OBVIOUS
<1> HIDE DEF H
<1>2. /\ Sound(b, {}) /\ b.f = a.f /\ Advanced(a, b, r) /\ b.h[r].stage = "done"
      /\ Extends(a, b) /\ Answered(a, b, r, ok)
  BY <1>1, ReplySound
<1> HIDE DEF b
<1>3. Waits(b.h) = Waits(a.h)
  BY <1>2 DEF Waits, Advanced
<1>4. Ordered(a, b)
  <2>1. Len(a.dap) \in Nat
    BY DEF States
  <2>2. CASE a.f.disposed
    <3>1. b.dap = a.dap
      BY <1>2, <2>2 DEF Extends
    <3>2. \A i \in Len(a.dap) + 1 .. Len(b.dap) : FALSE
      BY <2>1, <3>1
    <3> QED BY <3>2 DEF Ordered
  <2>3. CASE ~a.f.disposed
    <3>1. Len(b.dap) = Len(a.dap) + 1 /\ b.dap[Len(a.dap) + 1].type = "response"
      BY <1>2, <2>3 DEF Answered, Answers
    <3>2. \A i \in Len(a.dap) + 1 .. Len(b.dap) : i = Len(a.dap) + 1
      BY <2>1, <3>1
    <3>3. \A i \in Len(a.dap) + 1 .. Len(b.dap) : b.dap[i].type # "event"
      BY <3>1, <3>2
    <3> QED BY <3>3 DEF Ordered, IsEvent
  <2> QED BY <2>2, <2>3
<1>5. Progress(a, b, r)
  BY <1>2, <1>3, <1>4 DEF Progress
<1> QED BY <1>5 DEF b

(* The continuations of the launch.                                        *)
LEMMA LaunchFine ==
    ASSUME TypeOK, LocalInv, LaunchInv, handlers[1].stage # "done",
           NEW b, Sound(b, {}), Len(b.h) = 1, b.h[1].command = "launch",
           b.f.deferrals = adapter.deferrals, b.f.waiting = adapter.waiting
    PROVE  Fine(b) /\ Ordered(State, b)
<1>1. State.h = handlers /\ Fine(State) /\ State.f = adapter
  BY StateFine
<1>2. Len(handlers) = 1 /\ handlers[1].command = "launch" /\ 1..1 = {1}
  BY LaunchAlone DEF LaunchInv
<1>3. Waits(handlers) = {} /\ Waits(b.h) = {}
  BY <1>2 DEF Waits, Moving, Executions, Steps
<1>4. Ordered(State, b)
  BY <1>1, <1>3 DEF Ordered
<1>5. Placed(b.h)
  BY <1>2 DEF Placed, Undone
<1> QED BY <1>1, <1>3, <1>4, <1>5 DEF Fine, Exiting

(* An answered launch leaves no more to say about it.                      *)
LEMMA LaunchEnds ==
    ASSUME TypeOK, LaunchInv, Len(handlers') = 1, handlers'[1].command = "launch",
           handlers'[1].stage = "done", ~adapter'.ready
    PROVE  LaunchInv'
<1> DEFINE n == Len(handlers')
<1>1. n = 1 /\ n > 0
  OBVIOUS
<1>2. \A r \in 2..n : FALSE
  <2> HIDE DEF n
  <2> QED BY <1>1
<1> QED BY <1>1, <1>2 DEF LaunchInv

(* The launch fails: the child is stopped and an error sent.               *)
LEMMA LaunchFails ==
    ASSUME TypeOK, LocalInv, LaunchInv, handlers[1].stage # "done",
           NEW a \in States, NEW r \in Undone(handlers), Sound(a, {r}), a.h = handlers,
           a.f.deferrals = adapter.deferrals, a.f.waiting = adapter.waiting,
           NEW ok \in BOOLEAN, ok = FALSE, Becomes(Reply(stopChild(a), r, ok))
    PROVE  AdapterStep /\ LaunchInv'
<1> DEFINE c == stopChild(a)
           b == Reply(c, r, ok)
           H == {r}
<1>0. r = 1
  BY LaunchAlone
<1>1. H \in SUBSET Nat /\ Sound(a, H) /\ r \in H /\ H \ {r} = {}
  BY <1>0
<1> HIDE DEF H
<1>2. Sound(c, H) /\ Silent(a, c) /\ ~c.f.ready
  BY <1>1, StopSound
<1> HIDE DEF c
<1>3. c \in States
  BY <1>2 DEF Sound
<1>4. /\ Sound(b, {}) /\ b.f = c.f /\ Advanced(c, b, r) /\ b.h[r].stage = "done"
  <2>1. /\ Sound(b, H \ {r}) /\ b.f = c.f /\ Advanced(c, b, r)
        /\ b.h[r].stage = "done"
    BY <1>1, <1>2, <1>3, ReplySound
  <2> QED BY <1>1, <2>1
<1>5. Becomes(b)
  BY DEF c
<1> HIDE DEF b
<1>6. Len(handlers) = 1 /\ handlers[1].command = "launch"
  BY LaunchAlone DEF LaunchInv
<1>7. /\ Len(b.h) = 1 /\ b.h[1].command = "launch" /\ b.h[1].stage = "done"
      /\ ~b.f.ready /\ b.f.deferrals = adapter.deferrals
      /\ b.f.waiting = adapter.waiting
  BY <1>0, <1>2, <1>4, <1>6 DEF Advanced, Silent
<1>8. Fine(b) /\ Ordered(State, b)
  BY <1>4, <1>7, LaunchFine
<1>9. LaunchInv'
  BY <1>5, <1>7, LaunchEnds DEF Becomes
<1> QED BY <1>5, <1>8, <1>9 DEF AdapterStep

(* The server is ready: the launch asks it to initialize.                  *)
LEMMA LaunchAsks ==
    ASSUME TypeOK, LocalInv, LaunchInv, handlers[1].stage # "done", MaySucceed,
           ~adapter.ready, UNCHANGED <<stdout, server>>,
           process' = "starting" => process = "starting",
           NEW a \in States, NEW r \in Undone(handlers), Sound(a, {r}), a.h = handlers,
           a.f.deferrals = adapter.deferrals, a.f.deferred = adapter.deferred,
           a.f.waiting = adapter.waiting, a.f.stdin = adapter.stdin,
           a.f.ready = adapter.ready, a.f.terminated = adapter.terminated,
           Becomes(sendProtocolRequest(a, r, "initialize"))
    PROVE  AdapterStep /\ LaunchInv'
<1> DEFINE command == "initialize"
           b == sendProtocolRequest(a, r, command)
           H == {r}
<1>0. r = 1
  BY LaunchAlone
<1>1. /\ H \in SUBSET Nat /\ Sound(a, H) /\ r \in H /\ H \ {r} = {}
      /\ command \in Commands \cup {"initialize"} /\ command = "initialize"
  BY <1>0
<1>2. Becomes(b)
  OBVIOUS
<1> HIDE DEF H, command
<1>3. /\ Sound(b, {}) /\ b.h = Staged(a.h, r, "reply")
      /\ b.f.deferrals = a.f.deferrals /\ b.f.deferred = a.f.deferred
      /\ b.f.terminated = a.f.terminated /\ b.f.ready = a.f.ready
      /\ b.f.waiting = a.f.waiting /\ Writes(a, b, command)
  BY <1>1, AskFacts
<1> HIDE DEF b
<1>4. /\ Len(handlers) = 1 /\ handlers[1].command = "launch"
      /\ Undone(handlers) = {1} /\ handlers \in Seq(Handlers)
  BY LaunchAlone DEF LaunchInv, TypeOK
<1>5. /\ Len(b.h) = 1 /\ b.h[1].command = "launch" /\ b.h[1].stage = "reply"
  <2> DEFINE stage == "reply"
             h == handlers
             g == Staged(h, r, stage)
  <2>1. stage \in Stages /\ h \in Seq(Handlers) /\ r \in Undone(h)
    BY <1>4 DEF Stages
  <2>2. b.h = g /\ stage = "reply" /\ Len(h) = 1 /\ h[1].command = "launch"
    BY <1>3, <1>4
  <2> HIDE DEF stage, h
  <2>3. Len(g) = Len(h) /\ g[r].stage = stage /\ g[r].command = h[r].command
    BY <2>1, StageFacts
  <2> QED BY <1>0, <2>2, <2>3
<1>6. Fine(b) /\ Ordered(State, b)
  BY <1>3, <1>5, LaunchFine
<1>7. adapter' = b.f /\ handlers' = b.h
  BY <1>2 DEF Becomes
<1>8. UNCHANGED <<stdout, session, stopEvent, answering>>
  BY DEF server
<1>9. /\ session = "Ready" /\ Joined /\ answering = 0
      /\ adapter.deferrals = 0 /\ adapter.deferred = <<>>
      /\ \A i \in 1..Len(adapter.stdin) : adapter.stdin[i].command = "initialize"
      /\ process # "starting" /\ ~adapter.terminated /\ ~Says(stdout, "terminated")
  BY DEF LaunchInv
<1>10. \A i \in 1..Len(adapter'.stdin) : adapter'.stdin[i].command = "initialize"
  <2> DEFINE s == adapter.stdin
             e == [seq |-> a.f.protocolSeq, command |-> command]
             t == Append(s, e)
  <2>1. adapter'.stdin \in {s, t}
    BY <1>3, <1>7 DEF Writes
  <2>2. e.command = "initialize" /\ Len(s) \in Nat
    BY <1>1 DEF TypeOK, Fields
  <2> HIDE DEF e
  <2>3. s \in Seq([seq : Nat, command : Commands \cup {"initialize"}])
    BY DEF TypeOK, Fields
  <2>4. \A i \in 1..Len(s) : s[i].command = "initialize"
    BY <1>9
  <2> HIDE DEF s
  <2>5. /\ Len(t) = Len(s) + 1 /\ t[Len(s) + 1] = e
        /\ \A i \in 1..Len(s) : t[i] = s[i]
    BY <2>3
  <2> HIDE DEF t
  <2>6. \A i \in 1..Len(t) : t[i].command = "initialize"
    BY <2>2, <2>4, <2>5
  <2> QED BY <2>1, <2>4, <2>6
<1>11. Joined' /\ ~Says(stdout, "terminated")' /\ ~SetUp'
  BY <1>5, <1>7, <1>8, <1>9 DEF Joined, NoLine, Line, Says, SetUp
<1>12. \A i \in 2..Len(handlers') : handlers'[i].command # "launch"
  <2> DEFINE n == Len(handlers')
  <2>1. n = 1
    BY <1>5, <1>7
  <2> HIDE DEF n
  <2>2. \A i \in 2..n : FALSE
    BY <2>1
  <2> QED BY <2>2 DEF n
<1>13. LaunchInv'
  BY <1>3, <1>5, <1>7, <1>8, <1>9, <1>10, <1>11, <1>12 DEF LaunchInv
<1> QED BY <1>2, <1>6, <1>13 DEF AdapterStep

Launched(a, r, ok) ==
    sendEvent(Reply([a EXCEPT !.f.executionState = "paused"], r, ok), "initialized")

(* The launch succeeds: its response and "initialized".                    *)
LEMMA LaunchedFacts ==
    ASSUME NEW a \in States, NEW H \in SUBSET Nat, Sound(a, H), NEW r \in H,
           NEW ok \in BOOLEAN, a.f.terminated = FALSE
    PROVE  LET b == Launched(a, r, ok) IN
           /\ Sound(b, H \ {r}) /\ Advanced(a, b, r) /\ b.h[r].stage = "done"
           /\ b.f.ready = a.f.ready /\ b.f.deferrals = a.f.deferrals
           /\ b.f.waiting = a.f.waiting
<1> DEFINE s == "paused"
           c == [a EXCEPT !.f.executionState = s]
           d == Reply(c, r, ok)
           name == "initialized"
           b == sendEvent(d, name)
<1>1. /\ s \in ExecutionStates /\ name \in {"initialized", "stopped"}
      /\ H \ {r} \in SUBSET Nat
  BY DEF ExecutionStates
<1>2. b = Launched(a, r, ok)
  BY DEF Launched
<1> HIDE DEF b, d, s, name
<1>3. /\ Sound(c, H) /\ SamePromises(a, c) /\ c.h = a.h
      /\ c.f.deferrals = a.f.deferrals /\ c.f.terminated = a.f.terminated
  BY <1>1, StateSet
<1> HIDE DEF c
<1>4. c \in States
  BY <1>3 DEF Sound
<1>5. /\ Sound(d, H \ {r}) /\ d.f = c.f /\ Advanced(c, d, r) /\ d.h[r].stage = "done"
  BY <1>3, <1>4, ReplySound DEF d
<1>6. ~d.f.terminated /\ d \in States
  BY <1>3, <1>5 DEF Sound
<1>7. Sound(b, H \ {r}) /\ OnlySays(d, b) /\ b.f = d.f
  BY <1>1, <1>5, <1>6, SendFacts DEF b
<1> QED BY <1>2, <1>3, <1>5, <1>7 DEF Advanced, OnlySays, SamePromises

(* It can only do so while the end is not known.                           *)
LEMMA LaunchSucceeds ==
    ASSUME TypeOK, LocalInv, LaunchInv, handlers[1].stage # "done", MaySucceed,
           ~adapter.ready, NEW a \in States, NEW r \in Undone(handlers), Sound(a, {r}),
           a.h = handlers, a.f.deferrals = adapter.deferrals,
           a.f.waiting = adapter.waiting, a.f.ready = adapter.ready,
           a.f.terminated = adapter.terminated, NEW ok \in BOOLEAN,
           Becomes(Launched(a, r, ok))
    PROVE  AdapterStep /\ LaunchInv'
<1> DEFINE b == Launched(a, r, ok)
           H == {r}
<1>0. r = 1
  BY LaunchAlone
<1>1. H \in SUBSET Nat /\ Sound(a, H) /\ r \in H /\ H \ {r} = {} /\ Becomes(b)
  BY <1>0
<1>2. a.f.terminated = FALSE
  BY DEF LaunchInv, TypeOK, Fields
<1> HIDE DEF H
<1>3. /\ Sound(b, H \ {r}) /\ Advanced(a, b, r) /\ b.h[r].stage = "done"
      /\ b.f.ready = a.f.ready /\ b.f.deferrals = a.f.deferrals
      /\ b.f.waiting = a.f.waiting
  BY <1>1, <1>2, LaunchedFacts
<1> HIDE DEF b
<1>4. Len(handlers) = 1 /\ handlers[1].command = "launch"
  BY LaunchAlone DEF LaunchInv
<1>5. /\ Len(b.h) = 1 /\ b.h[1].command = "launch" /\ b.h[1].stage = "done"
      /\ ~b.f.ready /\ b.f.deferrals = adapter.deferrals
      /\ b.f.waiting = adapter.waiting /\ Sound(b, {})
  BY <1>0, <1>1, <1>3, <1>4 DEF Advanced
<1>6. Fine(b) /\ Ordered(State, b)
  BY <1>5, LaunchFine
<1>7. LaunchInv'
  BY <1>1, <1>5, LaunchEnds DEF Becomes
<1> QED BY <1>1, <1>6, <1>7 DEF AdapterStep

(* The continuation of a settled promise.                                  *)
LEMMA ContinueStep ==
    ASSUME TypeOK, LocalInv, LaunchInv, Continue PROVE AdapterStep /\ LaunchInv'
<1> DEFINE a  == Resuming
           r  == Head(adapter.microtasks).request
           ok == Head(adapter.microtasks).ok
           b  == CASE a.h[r].command = "launch"      -> LaunchContinues(a, r, ok)
                   [] a.h[r].command = "inspect"     -> Reply(a, r, ok)
                   [] a.h[r].command \in Executions  -> ExecutionContinues(a, r, ok)
                   [] a.h[r].command = "disconnect"  -> DisconnectContinues(a, r, ok)
                   [] a.h[r].command = "terminate"   -> TerminateContinues(a, r, ok)
<1>1. /\ Becomes(b) /\ MayKill(b) /\ UNCHANGED <<stdout, server>>
      /\ adapter.microtasks # <<>>
  BY Zenon DEF Continue, Resuming
<1> HIDE DEF b
<1>2. /\ a \in States /\ Sound(a, {r}) /\ r \in Nat /\ ok \in BOOLEAN
      /\ r \in Undone(handlers) /\ r \in Queued(adapter)
      /\ (ok => r \in Granted(adapter.microtasks))
      /\ a.h = handlers /\ a.dap = dap
      /\ a.f.terminated = adapter.terminated /\ a.f.ready = adapter.ready
      /\ a.f.deferrals = adapter.deferrals /\ a.f.deferred = adapter.deferred
      /\ a.f.stdin = adapter.stdin /\ a.f.waiting = adapter.waiting
  BY <1>1, TaskTaken
<1>3. process' = "starting" => process = "starting"
  BY <1>1, Killed
<1>4. /\ Fine(State) /\ State.h = handlers /\ State.f = adapter /\ State.dap = dap
  BY StateFine
<1> HIDE DEF a, r, ok
<1>5. a.f.deferrals = Cardinality(Waits(a.h))
  BY <1>2, <1>4 DEF Fine
<1>6. CASE r # 1
  <2>1. /\ handlers[r].stage \in {"reply", "exit"} /\ r \in 1..Len(handlers)
        /\ handlers[r].command # "configurationDone"
    BY <1>2, <1>4, <1>6 DEF Fine, Placed, Undone
  <2>2. handlers[r].command # "launch"
    <3>1. r \in 2..Len(handlers)
      BY <1>2, <1>6, <2>1
    <3> QED BY <3>1 DEF LaunchInv
  <2>3. handlers[r].command \in Commands
    <3>1. handlers[r] \in Handlers
      BY <2>1 DEF TypeOK
    <3> QED BY <2>2, <3>1 DEF Handlers
  <2>4. ASSUME Progress(a, b, r) PROVE AdapterStep /\ LaunchInv'
    BY <1>1, <1>2, <1>6, <2>4, ProgressFine
  <2>5. CASE handlers[r].command = "inspect"
    <3>1. b = Reply(a, r, ok)
      BY <1>2, <2>5 DEF Executions, Steps, b
    <3>2. r \notin Waits(a.h) /\ a.h[r].command \notin Moving
      BY <1>2, <2>5 DEF Waits, Moving, Executions, Steps
    <3>3. Progress(a, b, r)
      BY <1>2, <1>5, <3>1, <3>2, InspectProgress
    <3> QED BY <2>4, <3>3
  <2>6. CASE handlers[r].command \in Moving
    <3>1. r \in Waits(a.h)
      BY <1>2, <2>1, <2>6 DEF Waits
    <3>2. CASE handlers[r].command \in Executions
      <4>1. b = ExecutionContinues(a, r, ok)
        BY <1>2, <3>2 DEF Executions, Steps, b
      <4>2. Progress(a, b, r)
        BY <1>2, <1>5, <3>1, <4>1, ExecutionFacts
      <4> QED BY <2>4, <4>2
    <3>3. CASE handlers[r].command = "disconnect"
      <4>1. b = DisconnectContinues(a, r, ok)
        BY <1>2, <3>3 DEF Executions, Steps, b
      <4>2. Progress(a, b, r)
        BY <1>2, <1>5, <3>1, <4>1, DisconnectFacts
      <4> QED BY <2>4, <4>2
    <3>4. CASE handlers[r].command = "terminate"
      <4>1. b = TerminateContinues(a, r, ok)
        BY <1>2, <3>4 DEF Executions, Steps, b
      <4>2. Progress(a, b, r)
        BY <1>2, <1>5, <3>1, <4>1, TerminateFacts
      <4> QED BY <2>4, <4>2
    <3> QED BY <2>6, <3>2, <3>3, <3>4 DEF Moving
  <2> QED BY <2>1, <2>3, <2>5, <2>6 DEF Commands, Moving
<1>7. CASE r = 1
  <2>1. handlers[1].stage # "done" /\ handlers[1].command = "launch"
    BY <1>2, <1>7 DEF Undone, LaunchInv
  <2>2. b = LaunchContinues(a, r, ok)
    <3>1. a.h[r].command = "launch"
      BY <1>2, <1>7, <2>1
    <3> QED BY <3>1 DEF Executions, Steps, b
  <2>3. ~adapter.ready
    <3>1. OneQueue(adapter)
      BY <1>4 DEF Fine, Sound, Owned
    <3>2. 1 \notin Launching(adapter)
      BY <1>2, <1>7, <3>1 DEF OneQueue
    <3> QED BY <3>2 DEF Launching
  <2>4. ok => MaySucceed
    BY <1>2, <1>7 DEF MaySucceed
  <2>5. CASE ok = FALSE
    <3>1. b = Reply(stopChild(a), r, ok)
      BY <2>2, <2>5 DEF LaunchContinues
    <3>2. Becomes(Reply(stopChild(a), r, ok))
      BY <1>1, <3>1
    <3> QED BY <1>2, <2>1, <2>5, <3>2, LaunchFails
  <2>6. CASE ok /\ a.h[r].stage = "ready"
    <3>1. b = sendProtocolRequest(a, r, "initialize")
      BY <2>2, <2>6 DEF LaunchContinues
    <3>2. Becomes(sendProtocolRequest(a, r, "initialize"))
      BY <1>1, <3>1
    <3> QED BY <1>1, <1>2, <1>3, <2>1, <2>3, <2>4, <2>6, <3>2, LaunchAsks
  <2>7. CASE ok = TRUE /\ a.h[r].stage # "ready"
    <3>1. b = Launched(a, r, ok)
      BY <2>2, <2>7 DEF LaunchContinues, Launched
    <3>2. Becomes(Launched(a, r, ok))
      BY <1>1, <3>1
    <3> QED BY <1>2, <2>1, <2>3, <2>4, <2>7, <3>2, LaunchSucceeds
  <2> QED BY <1>2, <2>5, <2>6, <2>7
<1> QED BY <1>6, <1>7

-----------------------------------------------------------------------------
(***************************************************************************)
(* The server, of which handlers and client hear nothing yet.              *)
(***************************************************************************)
Taken == adapter.stdin # <<>> /\ Take
Unheard == handlers' = handlers /\ dap' = dap /\ (adapter' = adapter \/ Taken)

(* The server reads a line; the adapter does not notice.                   *)
LEMMA TakeFacts ==
    ASSUME TypeOK, Unheard
    PROVE  /\ adapter' \in Fields
           /\ adapter'.microtasks = adapter.microtasks /\ adapter'.waiting = adapter.waiting
           /\ adapter'.pending = adapter.pending /\ adapter'.ready = adapter.ready
           /\ adapter'.terminated = adapter.terminated
           /\ adapter'.disposed = adapter.disposed
           /\ adapter'.deferrals = adapter.deferrals /\ adapter'.deferred = adapter.deferred
           /\ \A i \in 1..Len(adapter'.stdin) : \E j \in 1..Len(adapter.stdin) :
                  adapter'.stdin[i] = adapter.stdin[j]
<1>1. adapter \in Fields
  BY DEF TypeOK
<1>2. CASE adapter' = adapter
  BY <1>1, <1>2
<1>3. CASE Taken
  <2> DEFINE q == adapter.stdin
             t == Tail(q)
             Requests == [seq : Nat, command : Commands \cup {"initialize"}]
  <2>1. q \in Seq(Requests) /\ q # <<>>
    BY <1>1, <1>3 DEF Fields, Taken
  <2>2. adapter' = [adapter EXCEPT !.stdin = t]
    BY <1>3 DEF Taken, Take
  <2>3. /\ t \in Seq(Requests)
        /\ \A i \in 1..Len(t) : \E j \in 1..Len(q) : t[i] = q[j]
    <3> HIDE DEF q, t, Requests
    <3>1. /\ Len(q) \in Nat \ {0} /\ t \in Seq(Requests) /\ Len(t) = Len(q) - 1
          /\ \A i \in 1..Len(t) : t[i] = q[i + 1]
      BY <2>1 DEF t
    <3>2. \A i \in 1..Len(t) : i + 1 \in 1..Len(q)
      BY <3>1
    <3> QED BY <3>1, <3>2
  <2> HIDE DEF t
  <2>4. /\ adapter' \in Fields /\ adapter'.stdin = t
        /\ adapter'.microtasks = adapter.microtasks /\ adapter'.waiting = adapter.waiting
        /\ adapter'.pending = adapter.pending /\ adapter'.ready = adapter.ready
        /\ adapter'.terminated = adapter.terminated
        /\ adapter'.disposed = adapter.disposed
        /\ adapter'.deferrals = adapter.deferrals
        /\ adapter'.deferred = adapter.deferred
    BY <1>1, <2>2, <2>3 DEF Fields
  <2> QED BY <2>3, <2>4
<1> QED BY <1>2, <1>3 DEF Unheard

(* What the adapter does not notice keeps its invariant.                   *)
LEMMA UnheardFine ==
    ASSUME TypeOK, LocalInv, Unheard, WorldOK'
    PROVE  TypeOK' /\ LocalInv'
<1>1. /\ adapter' \in Fields
      /\ adapter'.microtasks = adapter.microtasks /\ adapter'.waiting = adapter.waiting
      /\ adapter'.pending = adapter.pending /\ adapter'.ready = adapter.ready
      /\ adapter'.terminated = adapter.terminated
      /\ adapter'.disposed = adapter.disposed
      /\ adapter'.deferrals = adapter.deferrals
  BY TakeFacts
<1>2. handlers' = handlers /\ dap' = dap
  BY DEF Unheard
<1>3. TypeOK'
  BY <1>1, <1>2 DEF TypeOK, WorldOK
<1>4. PromiseInv'
  BY <1>1, <1>2
     DEF LocalInv, PromiseInv, OneQueue, Promised, Queued, Pending, Exiting, Launching
<1>5. ClientInv'
  BY <1>1, <1>2 DEF LocalInv, ClientInv, EndKnown
<1>6. DeferralInv'
  <2>1. \A r : Awaiting(r)' = Awaiting(r)
    BY <1>2 DEF Awaiting
  <2>2. {r \in 1..Len(handlers) : Awaiting(r)'} = {r \in 1..Len(handlers) : Awaiting(r)}
    BY <2>1
  <2> QED BY <1>1, <1>2, <2>2 DEF LocalInv, DeferralInv
<1> QED BY <1>3, <1>4, <1>5, <1>6 DEF LocalInv

(* Lines the server writes.                                                *)
LEMMA LineTypes ==
    /\ \A seq \in Nat, ok \in BOOLEAN :
           Answer(seq, ok) \in Lines /\ Answer(seq, ok).name = "none"
    /\ \A name \in {"ready", "error"} \cup Deferrable :
           Line(name) \in Lines /\ Line(name).name = name
    /\ NoLine.name = "none"
BY DEF Answer, Line, Lines, NoLine

(* What the server writes follows what it has written.                     *)
LEMMA Written ==
    ASSUME TypeOK, NEW lines \in Seq(Lines), Write(lines)
    PROVE  /\ stdout' \in Seq(Lines)
           /\ \A name : Says(stdout', name) => Says(stdout, name) \/ Says(lines, name)
           /\ (stdout # <<>> => stdout'[1] = stdout[1])
<1> DEFINE q == stdout
           t == q \o lines
<1>1. q \in Seq(Lines) /\ stdout' = t
  BY DEF TypeOK, Write
<1>2. /\ t \in Seq(Lines) /\ Len(q) \in Nat /\ Len(lines) \in Nat
      /\ Len(t) = Len(q) + Len(lines)
      /\ \A i \in 1..Len(t) : t[i] = IF i <= Len(q) THEN q[i] ELSE lines[i - Len(q)]
  <2>1. /\ t \in Seq(Lines) /\ Len(t) = Len(q) + Len(lines)
        /\ \A i \in 1..Len(q) + Len(lines) :
               t[i] = IF i <= Len(q) THEN q[i] ELSE lines[i - Len(q)]
    <3> HIDE DEF q
    <3> QED BY <1>1, ConcatProperties
  <2>2. Len(q) \in Nat /\ Len(lines) \in Nat
    BY <1>1
  <2> HIDE DEF t, q
  <2> QED BY <2>1, <2>2
<1>3. q # <<>> => Len(q) > 0
  BY <1>1
<1> HIDE DEF q, t
<1>4. ASSUME NEW name, Says(t, name) PROVE Says(q, name) \/ Says(lines, name)
  <2>1. PICK i \in 1..Len(t) : t[i].name = name
    BY <1>4 DEF Says
  <2>2. CASE i <= Len(q)
    <3>1. i \in 1..Len(q) /\ q[i].name = name
      BY <1>2, <2>1, <2>2
    <3> QED BY <3>1 DEF Says
  <2>3. CASE ~(i <= Len(q))
    <3>1. i - Len(q) \in 1..Len(lines) /\ lines[i - Len(q)].name = name
      BY <1>2, <2>1, <2>3
    <3> QED BY <3>1 DEF Says
  <2> QED BY <2>2, <2>3
<1>5. q # <<>> => t[1] = q[1]
  BY <1>2, <1>3
<1> QED BY <1>1, <1>2, <1>4, <1>5 DEF q

(* One line as a sequence.                                                 *)
LEMMA OneLine ==
    ASSUME NEW line \in Lines
    PROVE  /\ <<line>> \in Seq(Lines)
           /\ \A name : Says(<<line>>, name) => line.name = name
<1> DEFINE t == <<line>>
<1>1. t \in Seq(Lines) /\ \A i \in 1..Len(t) : t[i] = line
  OBVIOUS
<1> HIDE DEF t
<1>2. \A name : Says(t, name) => line.name = name
  BY <1>1 DEF Says
<1> QED BY <1>1, <1>2 DEF t

(* Two lines as a sequence.                                                *)
LEMMA TwoLines ==
    ASSUME NEW x \in Lines, NEW y \in Lines PROVE <<x, y>> \in Seq(Lines)
OBVIOUS

(* While the launch waits the server answers, and writes nothing else.     *)
LEMMA LaunchServed ==
    ASSUME TypeOK, LaunchInv, handlers[1].stage # "done", Unheard,
           process # "starting", process' # "starting", UNCHANGED server,
           NEW lines \in Seq(Lines), Write(lines),
           ~Says(lines, "ready"), ~Says(lines, "terminated")
    PROVE  LaunchInv'
<1>1. UNCHANGED <<session, stopEvent, answering>> /\ handlers' = handlers
  BY DEF server, Unheard
<1>2. SetUp' = SetUp /\ Joined' = Joined
  BY <1>1 DEF SetUp, Joined, NoLine, Line
<1>3. /\ adapter'.microtasks = adapter.microtasks /\ adapter'.pending = adapter.pending
      /\ adapter'.ready = adapter.ready /\ adapter'.terminated = adapter.terminated
      /\ adapter'.deferrals = adapter.deferrals /\ adapter'.deferred = adapter.deferred
      /\ \A i \in 1..Len(adapter'.stdin) : \E j \in 1..Len(adapter.stdin) :
             adapter'.stdin[i] = adapter.stdin[j]
  BY TakeFacts
<1>4. /\ \A name : Says(stdout', name) => Says(stdout, name) \/ Says(lines, name)
      /\ (stdout # <<>> => stdout'[1] = stdout[1])
  BY Written
<1>5. MaySucceed' => MaySucceed
  BY <1>3, <1>4 DEF MaySucceed, Pending
<1>6. /\ session = "Ready" /\ Joined /\ answering = 0
      /\ adapter.deferrals = 0 /\ adapter.deferred = <<>>
      /\ \A i \in 1..Len(adapter.stdin) : adapter.stdin[i].command = "initialize"
      /\ (MaySucceed => ~adapter.terminated /\ ~Says(stdout, "terminated"))
      /\ (adapter.ready /\ Says(stdout, "terminated") => stdout[1].name = "error")
      /\ (adapter.ready => handlers[1].stage = "ready" /\ ~adapter.terminated)
  BY DEF LaunchInv
<1>7. /\ session' = "Ready" /\ Joined' /\ answering' = 0
      /\ adapter'.deferrals = 0 /\ adapter'.deferred = <<>>
      /\ \A i \in 1..Len(adapter'.stdin) : adapter'.stdin[i].command = "initialize"
  BY <1>1, <1>2, <1>3, <1>6
<1>8. MaySucceed' => ~adapter'.terminated /\ ~Says(stdout', "terminated")
  BY <1>3, <1>4, <1>5, <1>6
<1>9. Says(stdout', "terminated") => stdout # <<>>
  <2>1. stdout = <<>> => ~Says(stdout, "terminated")
    BY DEF Says
  <2> QED BY <1>4, <2>1
<1>10. adapter'.ready /\ Says(stdout', "terminated") => stdout'[1].name = "error"
  BY <1>3, <1>4, <1>6, <1>9
<1>11. adapter'.ready => handlers'[1].stage = "ready" /\ ~adapter'.terminated
  BY <1>1, <1>3, <1>6
<1>12. /\ Len(handlers') > 0 /\ handlers'[1].command = "launch"
       /\ \A r \in 2..Len(handlers') : handlers'[r].command # "launch"
       /\ (~SetUp' => Len(handlers') = 1)
       /\ handlers'[1].stage \in {"ready", "reply", "done"}
  BY <1>1, <1>2 DEF LaunchInv
<1>13. Says(stdout, "terminated")' <=> Says(stdout', "terminated")
  BY DEF Says
<1> QED BY <1>7, <1>8, <1>10, <1>11, <1>12, <1>13 DEF LaunchInv

(* A server step after the launch.                                         *)
LEMMA ServedOver ==
    ASSUME TypeOK, LaunchInv, handlers[1].stage = "done", Unheard PROVE LaunchInv'
<1>1. adapter'.ready = adapter.ready
  BY TakeFacts
<1> QED BY <1>1, LaunchOver DEF Unheard

(* The server takes the first line of its input.                           *)
LEMMA AskedFacts ==
    ASSUME TypeOK, NEW command, Asked(command), Take
    PROVE  Taken /\ Seq1 \in Nat
<1> DEFINE q == adapter.stdin
           Requests == [seq : Nat, command : Commands \cup {"initialize"}]
<1>1. q \in Seq(Requests) /\ q # <<>>
  BY DEF Asked, TypeOK, Fields
<1>2. Head(q) \in Requests
  <2> HIDE DEF q, Requests
  <2> QED BY <1>1
<1> QED BY <1>1, <1>2 DEF Seq1, Taken

(* Only the launch asks before the launch is answered.                     *)
LEMMA AskedFirst ==
    ASSUME TypeOK, LaunchInv, NEW command, Asked(command), command # "initialize"
    PROVE  handlers[1].stage = "done"
<1> DEFINE q == adapter.stdin
           Requests == [seq : Nat, command : Commands \cup {"initialize"}]
<1>1. q \in Seq(Requests) /\ q # <<>> /\ Head(q).command = command
  BY DEF Asked, TypeOK, Fields
<1>2. 1 \in 1..Len(q) /\ q[1].command # "initialize"
  <2> HIDE DEF q, Requests
  <2> QED BY <1>1
<1> QED BY <1>2 DEF LaunchInv

Served == Unheard /\ WorldOK' /\ LaunchInv'

(* The server starts, or reports that it cannot.                           *)
LEMMA StartsStep == ASSUME TypeOK, LocalInv, LaunchInv, ServerStarts PROVE Served
<1> DEFINE lines == <<Line("error"), Line("terminated")>>
<1>1. Unheard /\ process = "starting" /\ UNCHANGED <<session, stopEvent, answering>>
  BY DEF ServerStarts, Unheard, server
<1>2. PICK written \in {<<Line("ready")>>, lines} :
          /\ Write(written) /\ process' \in {"up", "exited"}
  BY DEF ServerStarts
<1>3. /\ Line("ready") \in Lines /\ Line("ready").name = "ready"
      /\ Line("error") \in Lines /\ Line("error").name = "error"
      /\ Line("terminated") \in Lines /\ Line("terminated").name = "terminated"
  BY LineTypes DEF Deferrable
<1>4. written \in Seq(Lines)
  <2> DEFINE x == Line("ready")
             y == Line("error")
             z == Line("terminated")
  <2>1. x \in Lines /\ y \in Lines /\ z \in Lines /\ written \in {<<x>>, <<y, z>>}
    BY <1>3
  <2> HIDE DEF x, y, z
  <2>2. <<x>> \in Seq(Lines) /\ <<y, z>> \in Seq(Lines)
    BY <2>1, OneLine, TwoLines
  <2> QED BY <2>1, <2>2
<1>5. stdout' \in Seq(Lines)
  BY <1>2, <1>4, Written
<1>6. WorldOK'
  BY <1>1, <1>2, <1>5 DEF TypeOK, WorldOK, NoLine, Line
<1>7. CASE handlers[1].stage = "done"
  BY <1>1, <1>6, <1>7, ServedOver DEF Served
<1>8. CASE handlers[1].stage # "done"
  <2>1. stdout = <<>> /\ handlers[1].stage = "ready" /\ ~MaySucceed
    BY <1>1, <1>8 DEF LaunchInv
  <2>2. stdout' = written
    BY <1>2, <1>4, <2>1 DEF Write
  <2>3. /\ adapter' = adapter /\ handlers' = handlers
    BY DEF ServerStarts
  <2>4. MaySucceed' => adapter.ready /\ Says(stdout', "ready")
    BY <2>1, <2>3 DEF MaySucceed
  <2>5. Says(stdout', "ready") => ~Says(stdout', "terminated")
    <3>1. CASE written = <<Line("ready")>>
      <4> DEFINE line == Line("ready")
      <4>1. line \in Lines /\ line.name = "ready" /\ stdout' = <<line>>
        BY <1>3, <2>2, <3>1
      <4> HIDE DEF line
      <4> QED BY <4>1, OneLine
    <3>2. CASE written = lines
      <4> DEFINE x == Line("error")
                 y == Line("terminated")
      <4>1. x.name = "error" /\ y.name = "terminated" /\ stdout' = <<x, y>>
        BY <1>3, <2>2, <3>2
      <4> HIDE DEF x, y
      <4>2. Len(stdout') = 2 /\ stdout'[1] = x /\ stdout'[2] = y
        BY <4>1
      <4>3. \A i \in 1..Len(stdout') : stdout'[i].name # "ready"
        BY <4>1, <4>2
      <4> QED BY <4>3 DEF Says
    <3> QED BY <3>1, <3>2
  <2>6. Says(stdout', "terminated") => stdout'[1].name = "error"
    <3>1. CASE written = <<Line("ready")>>
      <4> DEFINE line == Line("ready")
      <4>1. line \in Lines /\ line.name = "ready" /\ stdout' = <<line>>
        BY <1>3, <2>2, <3>1
      <4> HIDE DEF line
      <4> QED BY <4>1, OneLine
    <3>2. CASE written = lines
      <4>1. stdout'[1] = Line("error")
        BY <2>2, <3>2
      <4> QED BY <1>3, <4>1
    <3> QED BY <3>1, <3>2
  <2>7. /\ session' = "Ready" /\ Joined' /\ answering' = 0
        /\ adapter'.deferrals = 0 /\ adapter'.deferred = <<>>
        /\ \A i \in 1..Len(adapter'.stdin) : adapter'.stdin[i].command = "initialize"
        /\ process' # "starting"
    BY <1>1, <1>2, <1>8, <2>3 DEF LaunchInv, Joined, NoLine, Line
  <2>8. /\ Len(handlers') > 0 /\ handlers'[1].command = "launch"
        /\ \A r \in 2..Len(handlers') : handlers'[r].command # "launch"
        /\ (~SetUp' => Len(handlers') = 1)
        /\ handlers'[1].stage \in {"ready", "reply", "done"}
        /\ (adapter'.ready => handlers'[1].stage = "ready" /\ ~adapter'.terminated)
    BY <2>3 DEF LaunchInv, SetUp
  <2>9. /\ MaySucceed' => ~adapter'.terminated /\ ~Says(stdout', "terminated")
    BY <2>3, <2>4, <2>5, <2>8
  <2>10. Says(stdout, "terminated")' <=> Says(stdout', "terminated")
    BY DEF Says
  <2>11. LaunchInv'
    BY <2>6, <2>7, <2>8, <2>9, <2>10 DEF LaunchInv
  <2> QED BY <1>1, <1>6, <2>11 DEF Served
<1> QED BY <1>7, <1>8

(* A response that changes nothing.                                        *)
LEMMA ResponseStep ==
    ASSUME TypeOK, LocalInv, LaunchInv, NEW command, Asked(command), Take,
           NEW ok \in BOOLEAN, Write(<<Answer(Seq1, ok)>>),
           UNCHANGED <<handlers, process, server, dap>>
    PROVE  Served
<1> DEFINE line == Answer(Seq1, ok)
<1>1. Taken /\ Seq1 \in Nat
  BY AskedFacts
<1>2. line \in Lines /\ line.name = "none"
  BY <1>1, LineTypes
<1>3. Write(<<line>>) /\ Unheard
  BY <1>1 DEF Unheard
<1> HIDE DEF line
<1>4. <<line>> \in Seq(Lines) /\ \A name : Says(<<line>>, name) => name = "none"
  BY <1>2, OneLine
<1>5. stdout' \in Seq(Lines)
  BY <1>3, <1>4, Written
<1>6. WorldOK'
  BY <1>5 DEF TypeOK, WorldOK, server, NoLine, Line
<1>7. process # "starting" /\ process' # "starting" /\ UNCHANGED server
  BY DEF Asked, Alive
<1>8. CASE handlers[1].stage = "done"
  BY <1>3, <1>6, <1>8, ServedOver DEF Served
<1>9. CASE handlers[1].stage # "done"
  <2> DEFINE lines == <<line>>
  <2>1. /\ lines \in Seq(Lines) /\ Write(lines)
        /\ ~Says(lines, "ready") /\ ~Says(lines, "terminated")
    BY <1>3, <1>4
  <2> HIDE DEF lines
  <2>2. LaunchInv'
    BY <1>3, <1>7, <1>9, <2>1, LaunchServed
  <2> QED BY <1>3, <1>6, <2>2 DEF Served
<1> QED BY <1>8, <1>9

(* Everything else the server does once the launch has been answered.      *)
LEMMA SessionStep ==
    ASSUME TypeOK, LocalInv, LaunchInv, handlers[1].stage = "done", Unheard,
           NEW lines \in Seq(Lines), Write(lines),
           process' \in {process, "exited"}, stopEvent' \in Lines \cup {NoLine},
           session' \in {"Ready", "Running", "Paused", "Finished", "Error", "Terminated"},
           answering' \in Nat
    PROVE  Served
<1>1. stdout' \in Seq(Lines)
  BY Written
<1>2. WorldOK'
  <2>1. process' \in {"starting", "up", "killed", "exited", "reaped", "closed"}
    BY DEF TypeOK
  <2> QED BY <1>1, <2>1 DEF WorldOK, NoLine, Line
<1>3. LaunchInv'
  BY ServedOver
<1> QED BY <1>2, <1>3 DEF Served

(* The types of what a step of the server leaves alone.                    *)
LEMMA WorldTypes ==
    ASSUME TypeOK
    PROVE  /\ process \in {process, "exited"} /\ stopEvent \in Lines \cup {NoLine}
           /\ session \in {"Ready", "Running", "Paused", "Finished", "Error", "Terminated"}
           /\ answering \in Nat /\ <<>> \in Seq(Lines)
BY EmptySeq DEF TypeOK

(* The server answers an inspection.                                       *)
LEMMA InspectsStep == ASSUME TypeOK, LocalInv, LaunchInv, ServerInspects PROVE Served
<1>1. PICK command : Asked(command)
  BY DEF ServerInspects
<1> DEFINE ok == (session # "Running")
<1>2. /\ Take /\ Write(<<Answer(Seq1, ok)>>) /\ ok \in BOOLEAN
      /\ UNCHANGED <<handlers, process, server, dap>>
  BY DEF ServerInspects
<1> HIDE DEF ok
<1> QED BY <1>1, <1>2, ResponseStep

(* The server refuses a command.                                           *)
LEMMA RefusesStep == ASSUME TypeOK, LocalInv, LaunchInv, ServerRefuses PROVE Served
<1>1. PICK command : Asked(command)
  BY DEF ServerRefuses
<1> DEFINE ok == FALSE
<1>2. /\ Take /\ Write(<<Answer(Seq1, ok)>>) /\ ok \in BOOLEAN
      /\ UNCHANGED <<handlers, process, server, dap>>
  BY DEF ServerRefuses
<1> HIDE DEF ok
<1> QED BY <1>1, <1>2, ResponseStep

(* The server continues the run.                                           *)
LEMMA ContinuesStep == ASSUME TypeOK, LocalInv, LaunchInv, ServerContinues PROVE Served
<1> DEFINE x == Answer(Seq1, TRUE)
           y == Line("continued")
           lines == <<x, y>>
<1>1. /\ Asked("continue") /\ Take /\ Write(lines) /\ session' = "Running"
      /\ UNCHANGED <<handlers, process, stopEvent, answering, dap>>
  BY DEF ServerContinues
<1>2. handlers[1].stage = "done"
  BY <1>1, AskedFirst
<1>3. Taken /\ Seq1 \in Nat
  BY <1>1, AskedFacts
<1>4. lines \in Seq(Lines)
  <2>1. x \in Lines /\ y \in Lines
    BY <1>3, LineTypes DEF Deferrable
  <2> HIDE DEF x, y
  <2> QED BY <2>1, TwoLines
<1>5. Unheard
  BY <1>1, <1>3 DEF Unheard
<1> HIDE DEF lines
<1> QED BY <1>1, <1>2, <1>4, <1>5, WorldTypes, SessionStep

(* How a step or a run ends is a session state and an event.               *)
LEMMA OutcomeTypes ==
    ASSUME NEW o \in Outcomes
    PROVE  /\ o[1] \in {"Ready", "Running", "Paused", "Finished", "Error", "Terminated"}
           /\ Line(o[2]) \in Lines
<1>1. o[1] \in {"Paused", "Error", "Finished"} /\ o[2] \in Deferrable
  BY DEF Outcomes, Deferrable
<1> QED BY <1>1, LineTypes

(* The server steps.                                                       *)
LEMMA StepsStep == ASSUME TypeOK, LocalInv, LaunchInv, ServerSteps PROVE Served
<1>1. PICK command \in Steps : Asked(command)
  BY DEF ServerSteps
<1>2. PICK o \in Outcomes :
          session' = o[1] /\ Write(<<Answer(Seq1, TRUE), Line(o[2])>>)
  BY DEF ServerSteps
<1> DEFINE x == Answer(Seq1, TRUE)
           y == Line(o[2])
           lines == <<x, y>>
<1>3. /\ Take /\ Write(lines)
      /\ UNCHANGED <<handlers, process, stopEvent, answering, dap>>
  BY <1>2 DEF ServerSteps
<1>4. handlers[1].stage = "done"
  <2>1. command # "initialize"
    BY DEF Steps
  <2> QED BY <1>1, <2>1, AskedFirst
<1>5. Taken /\ Seq1 \in Nat
  BY <1>1, <1>3, AskedFacts
<1>6. lines \in Seq(Lines)
  <2>1. x \in Lines /\ y \in Lines
    BY <1>5, LineTypes, OutcomeTypes
  <2> HIDE DEF x, y
  <2> QED BY <2>1, TwoLines
<1>7. Unheard
  BY <1>3, <1>5 DEF Unheard
<1>8. session' \in {"Ready", "Running", "Paused", "Finished", "Error", "Terminated"}
  BY <1>2, OutcomeTypes
<1> HIDE DEF lines
<1> QED BY <1>3, <1>4, <1>6, <1>7, <1>8, WorldTypes, SessionStep

(* The server accepts a pause.                                             *)
LEMMA TakesPauseStep == ASSUME TypeOK, LocalInv, LaunchInv, ServerTakesPause PROVE Served
<1>1. /\ Asked("pause") /\ Take /\ answering' = Seq1
      /\ UNCHANGED <<handlers, process, stdout, session, stopEvent, dap>>
  BY DEF ServerTakesPause
<1>2. handlers[1].stage = "done"
  BY <1>1, AskedFirst
<1>3. Taken /\ answering' \in Nat
  BY <1>1, AskedFacts
<1>4. Unheard
  BY <1>1, <1>3 DEF Unheard
<1>5. LaunchInv'
  BY <1>2, <1>4, ServedOver
<1>6. WorldOK'
  BY <1>1, <1>3 DEF TypeOK, WorldOK, NoLine, Line
<1> QED BY <1>4, <1>5, <1>6 DEF Served

(* The server answers the pause.                                           *)
LEMMA AnswersPauseStep ==
    ASSUME TypeOK, LocalInv, LaunchInv, ServerAnswersPause PROVE Served
<1> DEFINE x == Answer(answering, TRUE)
           lines == <<x>>
<1>1. /\ answering # 0 /\ Write(lines) /\ answering' = 0
      /\ UNCHANGED <<adapter, handlers, process, session, stopEvent, dap>>
  BY DEF ServerAnswersPause
<1>2. handlers[1].stage = "done"
  BY <1>1 DEF LaunchInv
<1>3. Unheard
  BY <1>1 DEF Unheard
<1>4. lines \in Seq(Lines)
  <2>1. x \in Lines
    BY WorldTypes, LineTypes
  <2> HIDE DEF x
  <2> QED BY <2>1, OneLine
<1>5. answering' \in Nat
  BY <1>1
<1> HIDE DEF lines
<1> QED BY <1>1, <1>2, <1>3, <1>4, <1>5, WorldTypes, SessionStep

(* The run ends.                                                           *)
LEMMA RunEndsStep == ASSUME TypeOK, LocalInv, LaunchInv, RunEnds PROVE Served
<1>1. /\ session = "Running"
      /\ UNCHANGED <<adapter, handlers, process, stdout, answering, dap>>
  BY DEF RunEnds
<1>2. PICK o \in Outcomes : session' = o[1] /\ stopEvent' = Line(o[2])
  BY DEF RunEnds
<1>3. handlers[1].stage = "done"
  BY <1>1 DEF LaunchInv
<1>4. Unheard
  BY <1>1 DEF Unheard
<1>5. LaunchInv'
  BY <1>3, <1>4, ServedOver
<1>6. WorldOK'
  <2>1. /\ session' \in {"Ready", "Running", "Paused", "Finished", "Error", "Terminated"}
        /\ stopEvent' \in Lines
    BY <1>2, OutcomeTypes
  <2> QED BY <1>1, <2>1 DEF TypeOK, WorldOK
<1> QED BY <1>4, <1>5, <1>6 DEF Served

(* The run reports its end.                                                *)
LEMMA RunReportsStep == ASSUME TypeOK, LocalInv, LaunchInv, RunReports PROVE Served
<1> DEFINE x == stopEvent
           lines == <<x>>
<1>1. /\ stopEvent # NoLine /\ Write(lines) /\ stopEvent' = NoLine
      /\ UNCHANGED <<adapter, handlers, process, session, answering, dap>>
  BY DEF RunReports
<1>2. handlers[1].stage = "done"
  BY <1>1 DEF LaunchInv, Joined
<1>3. Unheard
  BY <1>1 DEF Unheard
<1>4. lines \in Seq(Lines)
  <2>1. x \in Lines
    BY <1>1, WorldTypes
  <2> HIDE DEF x
  <2> QED BY <2>1, OneLine
<1>5. stopEvent' \in Lines \cup {NoLine}
  BY <1>1
<1> HIDE DEF lines
<1> QED BY <1>1, <1>2, <1>3, <1>4, <1>5, WorldTypes, SessionStep

(* The server disconnects and exits.                                       *)
LEMMA DisconnectsStep ==
    ASSUME TypeOK, LocalInv, LaunchInv, ServerDisconnects PROVE Served
<1> DEFINE x == Answer(Seq1, TRUE)
           y == Line("terminated")
           end == IF session = "Finished" THEN <<>> ELSE <<y>>
           lines == <<x>> \o end
<1>1. PICK command \in {"disconnect", "terminate"} : Asked(command)
  BY DEF ServerDisconnects
<1>2. /\ Take /\ Write(lines) /\ session' = "Terminated" /\ process' = "exited"
      /\ UNCHANGED <<handlers, stopEvent, answering, dap>>
  BY DEF ServerDisconnects
<1>3. handlers[1].stage = "done"
  BY <1>1, AskedFirst
<1>4. Taken /\ Seq1 \in Nat
  BY <1>1, <1>2, AskedFacts
<1>5. lines \in Seq(Lines)
  <2>1. x \in Lines /\ y \in Lines
    BY <1>4, LineTypes DEF Deferrable
  <2> HIDE DEF x, y
  <2>2. <<x>> \in Seq(Lines) /\ end \in Seq(Lines)
    BY <2>1, EmptySeq
  <2> HIDE DEF end
  <2> QED BY <2>2, ConcatProperties
<1>6. Unheard
  BY <1>2, <1>4 DEF Unheard
<1> HIDE DEF lines
<1> QED BY <1>2, <1>3, <1>5, <1>6, WorldTypes, SessionStep

(* The child exits, and Node notices.                                      *)
LEMMA ExitedStep ==
    ASSUME TypeOK, LocalInv, LaunchInv, Exit \/ ExitSeen PROVE Served
<1>1. /\ process' \in {"exited", "reaped"}
      /\ UNCHANGED <<adapter, handlers, stdout, server, dap>>
  BY DEF Exit, ExitSeen
<1>2. WorldOK'
  BY <1>1 DEF TypeOK, WorldOK, server, NoLine, Line
<1>3. Unheard
  BY <1>1 DEF Unheard
<1>4. LaunchInv'
  <2>1. process' # "starting"
    BY <1>1
  <2> QED BY <1>1, <2>1, LaunchSilent
<1> QED BY <1>2, <1>3, <1>4 DEF Served

(* Every step of the server.                                               *)
LEMMA ServerStep == ASSUME TypeOK, LocalInv, LaunchInv, Server PROVE Served
BY StartsStep, InspectsStep, RefusesStep, ContinuesStep, StepsStep, TakesPauseStep,
   AnswersPauseStep, RunEndsStep, RunReportsStep, DisconnectsStep DEF Server

-----------------------------------------------------------------------------
(***************************************************************************)
(* The theorems.                                                           *)
(***************************************************************************)
LEMMA WorldKept ==
    ASSUME TypeOK, UNCHANGED server, stdout' \in {stdout, Tail(stdout)},
           stdout' # stdout => stdout # <<>>,
           process' \in {"starting", "up", "killed", "exited", "reaped", "closed"}
    PROVE  WorldOK'
<1>1. UNCHANGED <<session, stopEvent, answering>>
  BY DEF server
<1>2. stdout' \in Seq(Lines)
  <2> DEFINE q == stdout
  <2>1. q \in Seq(Lines) /\ (q # <<>> => Tail(q) \in Seq(Lines))
    BY DEF TypeOK
  <2> QED BY <2>1
<1> QED BY <1>1, <1>2 DEF TypeOK, WorldOK, NoLine, Line

(* A new request keeps the invariant.                                      *)
LEMMA ClientMoves ==
    ASSUME TypeOK, LocalInv, LaunchInv, NEW command \in Commands, SetUp,
           ClientStep(command), UNCHANGED <<process, stdout, server>>
    PROVE  AdapterStep /\ LaunchInv' /\ WorldOK'
<1>1. LaunchInv'
  BY LaunchJoined
<1>2. AdapterStep
  BY DEF ClientStep, AdapterStep
<1>3. process' \in {"starting", "up", "killed", "exited", "reaped", "closed"}
  BY DEF TypeOK
<1>4. WorldOK'
  BY <1>3, WorldKept
<1> QED BY <1>1, <1>2, <1>4

(* Every step of the client.                                               *)
LEMMA ClientTaken ==
    ASSUME TypeOK, LocalInv, LaunchInv, Client
    PROVE  AdapterStep /\ LaunchInv' /\ WorldOK'
<1>1. CASE ConfigurationDone
  <2>1. ClientStep("configurationDone") /\ "configurationDone" \in Commands
    BY <1>1, ConfigurationStep DEF Commands
  <2>2. SetUp /\ UNCHANGED <<process, stdout, server>>
    BY <1>1 DEF ConfigurationDone, MayRequest
  <2> QED BY <2>1, <2>2, ClientMoves
<1>2. CASE Inspect
  <2>1. ClientStep("inspect") /\ "inspect" \in Commands
    BY <1>2, InspectStep DEF Commands
  <2>2. SetUp /\ UNCHANGED <<process, stdout, server>>
    BY <1>2 DEF Inspect, MayRequest
  <2> QED BY <2>1, <2>2, ClientMoves
<1>3. ASSUME NEW c \in Executions, handleExecutionCommand(c)
      PROVE  AdapterStep /\ LaunchInv' /\ WorldOK'
  <2>1. ClientStep(c) /\ c \in Commands
    BY <1>3, ExecutionStep DEF Commands
  <2>2. SetUp /\ UNCHANGED <<process, stdout, server>>
    BY <1>3 DEF handleExecutionCommand, MayRequest
  <2> QED BY <2>1, <2>2, ClientMoves
<1>4. ASSUME NEW c \in {"disconnect", "terminate"}, handleDisconnect(c)
      PROVE  AdapterStep /\ LaunchInv' /\ WorldOK'
  <2>1. ClientStep(c) /\ c \in Commands
    BY <1>4, DisconnectStep DEF Commands
  <2>2. SetUp /\ UNCHANGED <<process, stdout, server>>
    BY <1>4 DEF handleDisconnect, MayRequest
  <2> QED BY <2>1, <2>2, ClientMoves
<1>5. CASE Dispose
  <2>1. PICK a : MayKill(a) /\ UNCHANGED <<stdout, server>>
    BY <1>5 DEF Dispose
  <2>2. process' \in {"starting", "up", "killed", "exited", "reaped", "closed"}
    BY <2>1, Killed
  <2>3. WorldOK'
    BY <2>1, <2>2, WorldKept
  <2> QED BY <1>5, <2>3, DisposeStep
<1> QED BY <1>1, <1>2, <1>3, <1>4, <1>5 DEF Client

(* Every timer and write error.                                            *)
LEMMA TimerTaken ==
    ASSUME TypeOK, LocalInv, LaunchInv, Timers \/ WriteFails
    PROVE  AdapterStep /\ LaunchInv' /\ WorldOK'
<1>1. ASSUME NEW a, MayKill(a), UNCHANGED <<stdout, server>> PROVE WorldOK'
  <2>1. process' \in {"starting", "up", "killed", "exited", "reaped", "closed"}
    BY <1>1, Killed
  <2> QED BY <1>1, <2>1, WorldKept
<1>2. CASE RequestTimeout \/ WriteFails
  <2>1. PICK i \in 1..Len(adapter.pending) :
            Becomes(TimesOut(State, i)) /\ MayKill(TimesOut(State, i))
    BY <1>2 DEF RequestTimeout, WriteFails
  <2>2. UNCHANGED <<stdout, server>>
    BY <1>2 DEF RequestTimeout, WriteFails
  <2> QED BY <1>1, <2>1, <2>2, TimesOutStep
<1>3. CASE ReadyTimeout
  <2>1. PICK a : MayKill(a) /\ UNCHANGED <<stdout, server>>
    BY <1>3 DEF ReadyTimeout
  <2> QED BY <1>1, <1>3, <2>1, ReadyTimeoutStep
<1>4. CASE ExitTimeout
  <2>1. PICK a : MayKill(a) /\ UNCHANGED <<stdout, server>>
    BY <1>4 DEF ExitTimeout
  <2> QED BY <1>1, <1>4, <2>1, ExitTimeoutStep
<1> QED BY <1>2, <1>3, <1>4 DEF Timers

(* Every continuation and every other callback.                            *)
LEMMA CallbackTaken ==
    ASSUME TypeOK, LocalInv, LaunchInv, Continue \/ handleStdout \/ Close \/ SpawnFails
    PROVE  AdapterStep /\ LaunchInv' /\ WorldOK'
<1>1. CASE Continue
  <2>1. PICK a : MayKill(a) /\ UNCHANGED <<stdout, server>>
    BY <1>1, Zenon DEF Continue
  <2>2. process' \in {"starting", "up", "killed", "exited", "reaped", "closed"}
    BY <2>1, Killed
  <2>3. WorldOK'
    BY <2>1, <2>2, WorldKept
  <2> QED BY <1>1, <2>3, ContinueStep, Zenon
<1>2. CASE handleStdout
  <2>1. /\ stdout # <<>> /\ stdout' = Tail(stdout) /\ UNCHANGED server
        /\ process' \in {"starting", "up", "killed", "exited", "reaped", "closed"}
    BY <1>2 DEF handleStdout, TypeOK
  <2>2. WorldOK'
    BY <2>1, WorldKept
  <2> QED BY <1>2, <2>2, StdoutStep
<1>3. CASE Close
  <2>1. /\ UNCHANGED <<stdout, server>>
        /\ process' \in {"starting", "up", "killed", "exited", "reaped", "closed"}
    BY <1>3 DEF Close
  <2>2. WorldOK'
    BY <2>1, WorldKept
  <2> QED BY <1>3, <2>2, CloseStep
<1>4. CASE SpawnFails
  <2>1. /\ UNCHANGED <<stdout, server>>
        /\ process' \in {"starting", "up", "killed", "exited", "reaped", "closed"}
    BY <1>4 DEF SpawnFails
  <2>2. WorldOK'
    BY <2>1, WorldKept
  <2> QED BY <1>4, <2>2, SpawnFailsStep
<1> QED BY <1>1, <1>2, <1>3, <1>4

(* Every step: the adapter's, which keeps the client in step, or one of the*)
(* server's, of which nobody has heard.                                    *)
LEMMA StepTaken ==
    ASSUME AdapterInv, Next
    PROVE  (AdapterStep \/ Unheard) /\ AdapterInv'
<1>1. TypeOK /\ LocalInv /\ LaunchInv
  BY DEF AdapterInv, LocalInv
<1>2. (AdapterStep \/ Unheard) /\ LaunchInv' /\ WorldOK'
  BY <1>1, ClientTaken, TimerTaken, CallbackTaken, ServerStep, ExitedStep
     DEF Next, Callbacks, Served
<1>3. TypeOK' /\ LocalInv'
  <2>1. CASE AdapterStep
    <3>1. PICK b : Becomes(b) /\ Fine(b)
      BY <2>1 DEF AdapterStep
    <3> QED BY <1>2, <3>1, BecomesFine
  <2>2. CASE Unheard
    BY <1>1, <1>2, <2>2, UnheardFine
  <2> QED BY <1>2, <2>1, <2>2
<1> QED BY <1>2, <1>3 DEF AdapterInv, LocalInv

(* The invariant holds when the launch has been accepted.                  *)
LEMMA Initially == Init => AdapterInv
<1> SUFFICES ASSUME Init PROVE AdapterInv
  OBVIOUS
<1> DEFINE h == [command |-> "launch", stage |-> "ready", ok |-> TRUE,
                 previous |-> "created"]
<1>1. /\ handlers = <<h>> /\ h \in Handlers /\ h.command = "launch" /\ h.stage = "ready"
  BY DEF Init, Handlers, Commands, ExecutionStates
<1> HIDE DEF h
<1>2. /\ handlers \in Seq(Handlers) /\ Len(handlers) = 1 /\ handlers[1] = h
      /\ 1..Len(handlers) = {1}
  BY <1>1
<1>3. /\ dap = <<>> /\ Len(dap) = 0 /\ 1..Len(dap) = {} /\ dap \in Seq(Messages)
      /\ stdout = <<>> /\ 1..Len(stdout) = {} /\ stdout \in Seq(Lines)
  BY EmptySeq DEF Init
<1>4. /\ adapter.microtasks = <<>> /\ adapter.waiting = <<>> /\ adapter.pending = <<>>
      /\ adapter.ready = TRUE /\ adapter.terminated = FALSE /\ adapter.disposed = FALSE
      /\ adapter.deferrals = 0 /\ adapter.deferred = <<>> /\ adapter.stdin = <<>>
      /\ process = "starting" /\ session = "Ready" /\ stopEvent = NoLine
      /\ answering = 0
  BY DEF Init
<1>5. TypeOK
  <2>1. adapter \in Fields
    BY EmptySeq DEF Init, Fields, ExecutionStates
  <2> QED BY <1>2, <1>3, <1>4, <2>1 DEF TypeOK
<1>6. /\ Queued(adapter) = {} /\ Pending(adapter) = {} /\ Exiting(adapter) = {}
      /\ Launching(adapter) = {1}
      /\ Once(adapter.microtasks) /\ Once(adapter.pending) /\ Once(adapter.waiting)
  BY <1>4, NothingQueued DEF Queued, Pending, Exiting, Launching
<1>7. Undone(handlers) = {1}
  BY <1>1, <1>2 DEF Undone
<1>8. PromiseInv
  BY <1>6, <1>7 DEF PromiseInv, OneQueue, Promised
<1>9. ClientInv
  BY <1>2, <1>3, <1>7
     DEF ClientInv, AnswersDone, AnswersOnce, DoneAnswered, EndsOnce, EndKnown
<1>10. DeferralInv
  <2>1. {r \in 1..Len(handlers) : Awaiting(r)} = {}
    BY <1>1, <1>2 DEF Awaiting
  <2> QED BY <1>4, <2>1, FS_EmptySet DEF DeferralInv
<1>11. ~MaySucceed /\ ~Says(stdout, "terminated")
  <2>1. Granted(adapter.microtasks) = {}
    <3> DEFINE q == adapter.microtasks
    <3>1. Len(q) = 0
      BY <1>4
    <3> HIDE DEF q
    <3>2. Granted(q) = {}
      BY <3>1 DEF Granted
    <3> QED BY <3>2 DEF q
  <2> QED BY <1>3, <1>6, <2>1 DEF MaySucceed, Says
<1>12. LaunchInv
  <2>1. \A i \in 1..Len(adapter.stdin) : adapter.stdin[i].command = "initialize"
    BY <1>4
  <2>2. \A r \in 2..Len(handlers) : handlers[r].command # "launch"
    BY <1>2
  <2> QED BY <1>1, <1>2, <1>3, <1>4, <1>11, <2>1, <2>2 DEF LaunchInv, Joined
<1> QED BY <1>5, <1>8, <1>9, <1>10, <1>12 DEF AdapterInv

(* Each unanswered request is promised exactly one answer, events are held *)
(* back as long as a command they belong to is unanswered, and a launch    *)
(* succeeds only while nobody has announced the end: in every behaviour.   *)
THEOREM Inductive == Spec => []AdapterInv
<1>1. ASSUME AdapterInv, [Next]_vars PROVE AdapterInv'
  <2>1. CASE Next
    BY <1>1, <2>1, StepTaken
  <2>2. CASE UNCHANGED vars
    <3>1. UNCHANGED <<adapter, handlers, process, stdout, session, stopEvent, answering, dap>>
      BY <2>2 DEF vars
    <3>2. TypeOK'
      BY <1>1, <3>1 DEF AdapterInv, TypeOK, NoLine, Line
    <3>3. Unheard /\ WorldOK'
      BY <3>1, <3>2 DEF Unheard, TypeOK, WorldOK
    <3>4. LocalInv'
      BY <1>1, <3>3, UnheardFine DEF AdapterInv, LocalInv
    <3>5. LaunchInv'
      <4>1. UNCHANGED <<stdout, server>>
        BY <3>1 DEF server
      <4> QED BY <1>1, <3>1, <4>1, LaunchSilent DEF AdapterInv
    <3> QED BY <3>2, <3>4, <3>5 DEF AdapterInv, LocalInv
  <2> QED BY <1>1, <2>1, <2>2
<1> QED BY <1>1, Initially, PTL DEF Spec

(* Every request waits for one promise, which a response, a timer, a write *)
(* error or the end of the child settles: no handler is forgotten, and none*)
(* is resumed twice.                                                       *)
THEOREM PromisesKept == Spec => []PromiseInv
BY Inductive, PTL DEF AdapterInv

(* The invariant implies what the client relies on.                        *)
LEMMA HeardOnce == ASSUME AdapterInv PROVE ClientHearsOnce
<1>1. TypeOK /\ ClientInv
  BY DEF AdapterInv
<1>2. TerminatedIsLast
  BY <1>1 DEF ClientInv, TerminatedIsLast
<1>3. ASSUME NEW r \in 1..Len(handlers)
      PROVE  /\ \A i, j \in ResponsesOf(r) : i = j
             /\ ~adapter.disposed => (ResponsesOf(r) # {} <=> handlers[r].stage = "done")
  <2>1. ASSUME NEW i \in ResponsesOf(r), NEW j \in ResponsesOf(r) PROVE i = j
    BY <1>1 DEF ClientInv, AnswersOnce, ResponsesOf, Answers
  <2>2. ASSUME NEW i \in ResponsesOf(r) PROVE handlers[r].stage = "done"
    <3>1. i \in 1..Len(dap) /\ dap[i].type = "response" /\ dap[i].request = r
      BY <2>2 DEF ResponsesOf, Answers
    <3>2. r \notin Undone(handlers)
      BY <1>1, <3>1 DEF ClientInv, AnswersDone
    <3> QED BY <3>2 DEF Undone
  <2>3. ASSUME ~adapter.disposed, handlers[r].stage = "done" PROVE ResponsesOf(r) # {}
    <3>1. r \notin Undone(handlers)
      BY <2>3 DEF Undone
    <3>2. PICK i \in 1..Len(dap) : Answers(dap[i], r)
      BY <1>1, <2>3, <3>1 DEF ClientInv, DoneAnswered
    <3> QED BY <3>2 DEF ResponsesOf
  <2> QED BY <2>1, <2>2, <2>3
<1>4. AnsweredOnce
  BY <1>3, Zenon DEF AnsweredOnce
<1> QED BY <1>1, <1>2, <1>4 DEF ClientHearsOnce

(* However server, child, timers and client interleave, and whatever fails:*)
(* one response to each request, the end announced once, and nothing after *)
(* it.                                                                     *)
THEOREM ClientCorrect == Spec => []ClientHearsOnce
BY Inductive, HeardOnce, PTL

(* No step tells the client that the session moved ahead of the answer to a*)
(* command that moves it, unless that command has failed.                  *)
THEOREM EventsCorrect == Spec => EventsFollowResponses
<1>1. ASSUME AdapterInv, [Next]_vars,
             NEW r \in 1..Len(handlers), NEW i \in Len(dap) + 1 .. Len(dap'),
             Awaiting(r), IsEvent(dap'[i], {"continued", "stopped"})
      PROVE  \E j \in ResponsesOf(r)' : j < i \/ ~dap'[j].ok
  <2>1. Len(dap) \in Nat
    BY <1>1 DEF AdapterInv, TypeOK
  <2>2. dap' # dap
    <3>1. ASSUME dap' = dap PROVE FALSE
      <4>1. i \in Len(dap) + 1 .. Len(dap)
        BY <1>1, <3>1
      <4> QED BY <2>1, <4>1
    <3> QED BY <3>1
  <2>3. Next
    BY <1>1, <2>2 DEF vars
  <2>4. AdapterStep
    BY <1>1, <2>2, <2>3, StepTaken DEF Unheard
  <2>5. PICK b : Becomes(b) /\ Ordered(State, b)
    BY <2>4 DEF AdapterStep
  <2>6. b.dap = dap' /\ State.h = handlers /\ State.dap = dap
    BY <2>5 DEF Becomes, State
  <2>7. r \in Waits(handlers)
    BY <1>1 DEF Awaiting, Waits, Moving
  <2>8. PICK j \in 1..Len(dap') : Answers(dap'[j], r) /\ (j < i \/ ~dap'[j].ok)
    BY <1>1, <2>5, <2>6, <2>7 DEF Ordered
  <2>9. j \in ResponsesOf(r)'
    BY <2>8 DEF ResponsesOf, Answers
  <2> QED BY <2>8, <2>9
<1>2. ASSUME AdapterInv, [Next]_vars
      PROVE  [ \A r \in 1..Len(handlers), i \in Len(dap) + 1 .. Len(dap') :
                   Awaiting(r) /\ IsEvent(dap'[i], {"continued", "stopped"})
                   => \E j \in ResponsesOf(r)' : j < i \/ ~dap'[j].ok ]_vars
  BY <1>1, <1>2, Zenon
<1> QED BY <1>2, Inductive, PTL DEF Spec, EventsFollowResponses
=============================================================================
