---------------------------- MODULE P2pLinkProofs ----------------------------
(***************************************************************************)
(* Proofs about P2pLink, for any content and any number of taps, manual    *)
(* beams and messages: what is sent is what was confirmed, a send that is  *)
(* said to go on does, clients belong to a link that is up, and screens    *)
(* and timers belong to a beam.                                            *)
(***************************************************************************)
EXTENDS P2pLink, TLAPS

(* Queues of tasks. *)

Connect(t) == t.kind = "connect" /\ Live(t)
Connecting(q) == \E i \in DOMAIN q : Connect(q[i])
Working(q) == \E i \in DOMAIN q : Live(q[i]) \/ q[i].at = "delivered"

\* The part of IndInv that is about the queue alone.
QueueInv(q) ==
    /\ q \in Seq(Tasks)
    /\ \A i, j \in DOMAIN q : q[i].ref /\ q[j].ref /\ q[i].kind = q[j].kind => i = j
    /\ \A i \in DOMAIN q : Connect(q[i]) => q[i].ref
    /\ \A i \in DOMAIN q : q[i].at = "done" => q[i].kind = "connect"

\* What is not cancelled in r of a kind was so in q.
ConnectsFrom(r, q) ==
    \A i \in DOMAIN r : Connect(r[i]) =>
        \E j \in DOMAIN q : Connect(q[j]) /\ r[i].at = q[j].at /\ r[i].ok = q[j].ok

\* A task's fields are changed one at a time.
LEMMA TaskCancelled ==
    ASSUME NEW t \in Tasks
    PROVE  LET u == [t EXCEPT !.cancelled = TRUE]
           IN  /\ u \in Tasks /\ u.kind = t.kind /\ u.ref = t.ref /\ u.at = t.at /\ u.ok = t.ok
               /\ u.cancelled
BY DEF Tasks

LEMMA TaskUnreferenced ==
    ASSUME NEW t \in Tasks
    PROVE  LET u == [t EXCEPT !.ref = FALSE]
           IN  /\ u \in Tasks /\ u.kind = t.kind /\ ~u.ref /\ u.at = t.at /\ u.ok = t.ok
               /\ u.cancelled = t.cancelled
BY DEF Tasks

LEMMA TaskClosed ==
    ASSUME NEW t \in Tasks
    PROVE  LET u == [t EXCEPT !.open = FALSE]
           IN  /\ u \in Tasks /\ u.kind = t.kind /\ u.ref = t.ref /\ u.at = t.at /\ u.ok = t.ok
               /\ u.cancelled = t.cancelled
BY DEF Tasks

\* RemoveAt of SequencesExt closes the gap.
LEMMA Removed ==
    ASSUME NEW S, NEW q \in Seq(S), NEW i \in DOMAIN q
    PROVE  /\ RemoveAt(q, i) \in Seq(S)
           /\ DOMAIN RemoveAt(q, i) = 1 .. Len(q) - 1
           /\ \A j \in 1 .. Len(q) - 1 : RemoveAt(q, i)[j] = IF j < i THEN q[j] ELSE q[j + 1]
<1> DEFINE a == SubSeq(q, 1, i - 1)
           b == SubSeq(q, i + 1, Len(q))
<1>1. i \in 1 .. Len(q) /\ Len(q) \in Nat
  OBVIOUS
<1>2. a \in Seq(S) /\ Len(a) = i - 1 /\ \A j \in 1 .. i - 1 : a[j] = q[j]
  BY <1>1
<1>3. b \in Seq(S) /\ Len(b) = Len(q) - i /\ \A j \in 1 .. Len(q) - i : b[j] = q[j + i]
  BY <1>1
<1> HIDE DEF a, b
<1>4. /\ a \o b \in Seq(S) /\ Len(a \o b) = Len(q) - 1
      /\ \A j \in 1 .. Len(q) - 1 : (a \o b)[j] = IF j <= i - 1 THEN a[j] ELSE b[j - (i - 1)]
  BY <1>1, <1>2, <1>3
<1>5. \A j \in 1 .. Len(q) - 1 : (a \o b)[j] = IF j < i THEN q[j] ELSE q[j + 1]
  <2> TAKE j \in 1 .. Len(q) - 1
  <2>1. CASE j < i
    BY <1>1, <1>2, <1>4, <2>1
  <2>2. CASE ~(j < i)
    <3>1. j - (i - 1) \in 1 .. Len(q) - i /\ ~(j <= i - 1) /\ (j - (i - 1)) + i = j + 1
      BY <1>1, <2>2
    <3>2. b[j - (i - 1)] = q[j + 1]
      BY <1>3, <3>1
    <3> QED
      BY <1>4, <2>2, <3>1, <3>2
  <2> QED
    BY <2>1, <2>2
<1>6. RemoveAt(q, i) = a \o b
  BY DEF RemoveAt, a, b
<1> QED
  BY <1>4, <1>5, <1>6

\* A task that leaves the queue takes nothing else with it.
LEMMA QueueRemoved ==
    ASSUME NEW q, QueueInv(q), NEW i \in DOMAIN q
    PROVE  /\ QueueInv(RemoveAt(q, i))
           /\ ConnectsFrom(RemoveAt(q, i), q)
           /\ Connecting(q) /\ ~Connect(q[i]) => Connecting(RemoveAt(q, i))
           /\ Connect(q[i]) => ~Connecting(RemoveAt(q, i))
           /\ Working(q) /\ ~Live(q[i]) /\ q[i].at # "delivered" => Working(RemoveAt(q, i))
<1> DEFINE r == RemoveAt(q, i)
<1>1. /\ r \in Seq(Tasks) /\ DOMAIN r = 1 .. Len(q) - 1
      /\ \A j \in 1 .. Len(q) - 1 : r[j] = IF j < i THEN q[j] ELSE q[j + 1]
  BY Removed DEF QueueInv
<1>2. DOMAIN q = 1 .. Len(q) /\ Len(q) \in Nat
  BY DEF QueueInv
<1>3. \A k \in DOMAIN q : k # i => \E j \in DOMAIN r : r[j] = q[k]
  <2> TAKE k \in DOMAIN q
  <2> HAVE k # i
  <2>1. CASE k < i
    BY <1>1, <1>2, <2>1
  <2>2. CASE k > i
    <3>1. k - 1 \in DOMAIN r /\ r[k - 1] = q[k]
      BY <1>1, <1>2, <2>2
    <3> QED
      BY <3>1
  <2> QED
    BY <1>2, <2>1, <2>2
<1> HIDE DEF r
<1>4. \A j \in DOMAIN r : \E k \in DOMAIN q : k # i /\ r[j] = q[k]
  BY <1>1, <1>2
<1>5. QueueInv(r)
  <2>1. \A j, k \in DOMAIN r : r[j].ref /\ r[k].ref /\ r[j].kind = r[k].kind => j = k
    <3> DEFINE old(j) == IF j < i THEN j ELSE j + 1
    <3>1. \A j \in DOMAIN r : old(j) \in DOMAIN q /\ r[j] = q[old(j)]
      BY <1>1, <1>2
    <3>2. \A j, k \in DOMAIN r : old(j) = old(k) => j = k
      BY <1>1, <1>2
    <3> HIDE DEF old
    <3> QED
      BY <3>1, <3>2 DEF QueueInv
  <2>2. \A j \in DOMAIN r : Connect(r[j]) => r[j].ref
    BY <1>4 DEF QueueInv
  <2>3. \A j \in DOMAIN r : r[j].at = "done" => r[j].kind = "connect"
    BY <1>4 DEF QueueInv
  <2> QED
    BY <1>1, <2>1, <2>2, <2>3 DEF QueueInv
<1>6. Connect(q[i]) => ~Connecting(r)
  BY <1>4 DEF QueueInv, Connecting, Connect
<1>7. ConnectsFrom(r, q)
  BY <1>4 DEF ConnectsFrom
<1>8. Connecting(q) /\ ~Connect(q[i]) => Connecting(r)
  BY <1>3 DEF Connecting
<1>9. Working(q) /\ ~Live(q[i]) /\ q[i].at # "delivered" => Working(r)
  BY <1>3 DEF Working
<1> QED
  BY <1>5, <1>6, <1>7, <1>8, <1>9 DEF r

\* Tasks that are changed where they are keep their kinds, and get no new references.
LEMMA QueueChanged ==
    ASSUME NEW q, QueueInv(q), NEW r \in Seq(Tasks), DOMAIN r = DOMAIN q,
           \A i \in DOMAIN q : r[i].kind = q[i].kind /\ (r[i].ref => q[i].ref),
           \A i \in DOMAIN q : r[i].at = "done" => r[i].kind = "connect",
           \A i \in DOMAIN q : Connect(r[i]) => Connect(q[i]) /\ r[i].ref
    PROVE  /\ QueueInv(r)
           /\ Connecting(r) => Connecting(q)
BY DEF QueueInv, Connecting

\* cancel() of a task that is referred to.
LEMMA QueueCancelled ==
    ASSUME NEW q, QueueInv(q), NEW kind \in {"connect", "send"}
    PROVE  /\ QueueInv(Cancelled(q, kind))
           /\ ConnectsFrom(Cancelled(q, kind), q)
           /\ kind = "connect" => ~Connecting(Cancelled(q, kind))
           /\ kind = "send" /\ Connecting(q) => Connecting(Cancelled(q, kind))
<1> DEFINE referred == {i \in DOMAIN q : q[i].kind = kind /\ q[i].ref}
           it       == CHOOSE i \in referred : TRUE
           c        == Cancelled(q, kind)
<1>1. CASE referred = {}
  <2>1. c = q
    BY <1>1 DEF Cancelled
  <2>2. kind = "connect" => ~Connecting(q)
    BY <1>1 DEF QueueInv, Connecting, Connect
  <2> QED
    BY <2>1, <2>2 DEF ConnectsFrom
<1>2. CASE referred # {}
  <2>1. it \in DOMAIN q /\ q[it].kind = kind /\ q[it].ref
    BY <1>2
  <2>2. kind = "connect" => \A i \in DOMAIN q : Connect(q[i]) => i = it
    BY <2>1 DEF QueueInv, Connect
  <2>3. CASE q[it].at = "queued"
    <3>1. c = RemoveAt(q, it)
      BY <1>2, <2>3 DEF Cancelled
    <3> HIDE DEF it, c
    <3>2. QueueInv(c) /\ ConnectsFrom(c, q)
      BY <2>1, <3>1, QueueRemoved
    <3>3. kind = "connect" => ~Connecting(c)
      <4>1. CASE Connect(q[it])
        BY <2>1, <3>1, <4>1, QueueRemoved
      <4>2. CASE ~Connect(q[it])
        BY <2>2, <3>2, <4>2 DEF ConnectsFrom, Connecting
      <4> QED
        BY <4>1, <4>2
    <3>4. kind = "send" /\ Connecting(q) => Connecting(c)
      BY <2>1, <3>1, QueueRemoved DEF Connect
    <3> QED
      BY <3>2, <3>3, <3>4 DEF c
  <2>4. CASE q[it].at # "queued"
    <3>1. c = [q EXCEPT ![it].cancelled = TRUE]
      BY <1>2, <2>4 DEF Cancelled
    <3> HIDE DEF it, c
    <3>10. q[it] \in Tasks
      BY <2>1 DEF QueueInv
    <3>2. [q[it] EXCEPT !.cancelled = TRUE] \in Tasks
      BY <3>10, TaskCancelled
    <3>3. c \in Seq(Tasks) /\ DOMAIN c = DOMAIN q
      BY <2>1, <3>1, <3>2 DEF QueueInv
    <3>4. /\ \A i \in DOMAIN q : i # it => c[i] = q[i]
          /\ c[it] = [q[it] EXCEPT !.cancelled = TRUE]
      BY <2>1, <3>1, <3>2 DEF QueueInv
    <3>5. c[it].kind = kind /\ ~Live(c[it]) /\ c[it].ref = q[it].ref
      BY <2>1, <3>10, <3>4, TaskCancelled DEF Live
    <3>6. QueueInv(c)
      <4>1. \A i \in DOMAIN q : c[i].kind = q[i].kind /\ (c[i].ref => q[i].ref)
        BY <2>1, <3>4, <3>5
      <4>2. \A i \in DOMAIN q : Connect(c[i]) => Connect(q[i]) /\ c[i].ref
        BY <2>1, <3>4, <3>5 DEF Connect, QueueInv
      <4>3. c[it].at = q[it].at
        BY <2>1, <3>10, <3>4, TaskCancelled
      <4>4. \A i \in DOMAIN q : c[i].at = "done" => c[i].kind = "connect"
        BY <2>1, <3>4, <3>5, <4>3 DEF QueueInv
      <4> QED
        BY <3>3, <4>1, <4>2, <4>4, QueueChanged
    <3>7. ConnectsFrom(c, q)
      BY <3>3, <3>4, <3>5 DEF ConnectsFrom, Connect
    <3>8. kind = "connect" => ~Connecting(c)
      BY <2>2, <3>3, <3>4, <3>5 DEF Connecting, Connect
    <3>9. kind = "send" /\ Connecting(q) => Connecting(c)
      BY <2>1, <3>3, <3>4 DEF Connecting, Connect
    <3> QED
      BY <3>6, <3>7, <3>8, <3>9 DEF c
  <2> QED
    BY <2>3, <2>4
<1> QED
  BY <1>1, <1>2

\* The fields mSendTask and mConnectTask let go of their task.
LEMMA QueueUnreferenced ==
    ASSUME NEW q, QueueInv(q), NEW kind \in {"connect", "send"},
           kind = "connect" => ~Connecting(q)
    PROVE  /\ QueueInv(Unreferenced(q, kind))
           /\ ConnectsFrom(Unreferenced(q, kind), q)
           /\ DOMAIN Unreferenced(q, kind) = DOMAIN q
           /\ \A i \in DOMAIN q : Unreferenced(q, kind)[i].kind = kind => ~Unreferenced(q, kind)[i].ref
           /\ Connecting(q) => Connecting(Unreferenced(q, kind))
           /\ Working(q) => Working(Unreferenced(q, kind))
<1> DEFINE r == Unreferenced(q, kind)
<1>1. \A i \in DOMAIN q : q[i] \in Tasks /\ [q[i] EXCEPT !.ref = FALSE] \in Tasks
  BY TaskUnreferenced DEF QueueInv
<1>2. DOMAIN r = DOMAIN q
  BY DEF Unreferenced
<1>3. \A i \in DOMAIN q : r[i] = IF q[i].kind = kind THEN [q[i] EXCEPT !.ref = FALSE] ELSE q[i]
  BY DEF Unreferenced
<1>4. r \in Seq(Tasks)
  <2>1. Len(q) \in Nat /\ DOMAIN q = 1 .. Len(q)
    BY DEF QueueInv
  <2>2. r = [i \in 1 .. Len(q) |-> IF q[i].kind = kind THEN [q[i] EXCEPT !.ref = FALSE] ELSE q[i]]
    BY <2>1 DEF Unreferenced
  <2>3. \A i \in 1 .. Len(q) : r[i] \in Tasks
    BY <1>1, <1>3, <2>1
  <2> QED
    BY <2>1, <2>2, <2>3
<1> HIDE DEF r
<1>5. \A i \in DOMAIN q :
        /\ r[i].kind = q[i].kind /\ r[i].at = q[i].at /\ r[i].ok = q[i].ok
        /\ r[i].cancelled = q[i].cancelled
        /\ r[i].kind = kind => ~r[i].ref
        /\ r[i].kind # kind => r[i].ref = q[i].ref
  <2> TAKE i \in DOMAIN q
  <2>1. CASE q[i].kind = kind
    BY <1>1, <1>3, <2>1, TaskUnreferenced
  <2>2. CASE q[i].kind # kind
    BY <1>3, <2>2
  <2> QED
    BY <2>1, <2>2
<1>6. \A i \in DOMAIN q : Connect(r[i]) <=> Connect(q[i])
  BY <1>5 DEF Connect, Live
<1>7. QueueInv(r)
  BY <1>2, <1>4, <1>5, <1>6 DEF QueueInv, Connecting, Connect
<1> QED
  BY <1>2, <1>5, <1>6, <1>7 DEF r, ConnectsFrom, Connecting, Working, Live

\* A new task is referred to.
LEMMA QueueAppended ==
    ASSUME NEW q, QueueInv(q), NEW kind \in {"connect", "send"},
           \A i \in DOMAIN q : q[i].kind = kind => ~q[i].ref
    PROVE  LET r == Append(q, NewTask(kind))
           IN  /\ QueueInv(r)
               /\ \A i \in DOMAIN r : (i \in DOMAIN q /\ r[i] = q[i]) \/ r[i] = NewTask(kind)
               /\ Working(r)
               /\ kind = "connect" \/ Connecting(q) => Connecting(r)
<1> DEFINE n == NewTask(kind)
           r == Append(q, n)
<1>1. /\ n \in Tasks /\ n.kind = kind /\ n.ref /\ ~n.cancelled /\ n.at = "queued"
  BY DEF NewTask, Tasks, Nothing, Offers
<1> HIDE DEF n
<1>2. q \in Seq(Tasks) /\ DOMAIN q = 1 .. Len(q) /\ Len(q) \in Nat
  BY DEF QueueInv
<1>3. /\ r \in Seq(Tasks) /\ DOMAIN r = 1 .. Len(q) + 1 /\ r[Len(q) + 1] = n
      /\ \A i \in DOMAIN q : r[i] = q[i]
  BY <1>1, <1>2
<1> HIDE DEF r
<1>4. QueueInv(r)
  BY <1>1, <1>2, <1>3 DEF QueueInv
<1>5. \A i \in DOMAIN r : (i \in DOMAIN q /\ r[i] = q[i]) \/ r[i] = n
  BY <1>2, <1>3
<1>6. Working(r) /\ (kind = "connect" \/ Connecting(q) => Connecting(r))
  BY <1>1, <1>2, <1>3 DEF Working, Connecting, Connect, Live
<1> QED
  BY <1>4, <1>5, <1>6 DEF r, n

\* disconnectLlcpServices leaves no ConnectTask at work.
LEMMA QueueDisconnected ==
    ASSUME NEW q, QueueInv(q)
    PROVE  QueueInv(ConnectCancelled(q)) /\ ~Connecting(ConnectCancelled(q))
<1> DEFINE some == Cancelled(q, "connect")
           r    == ConnectCancelled(q)
<1>1. QueueInv(some) /\ ~Connecting(some)
  BY QueueCancelled
<1> HIDE DEF some
<1>2. r = [i \in DOMAIN some |-> IF some[i].kind = "connect" THEN [some[i] EXCEPT !.ref = FALSE]
                                 ELSE [some[i] EXCEPT !.open = FALSE]]
  BY DEF ConnectCancelled, some
<1>3. \A i \in DOMAIN some : some[i] \in Tasks
  BY <1>1 DEF QueueInv
<1>4. \A i \in DOMAIN some :
        /\ r[i] \in Tasks /\ r[i].kind = some[i].kind /\ r[i].cancelled = some[i].cancelled
        /\ r[i].at = some[i].at
        /\ r[i].ref => some[i].ref
  <2> TAKE i \in DOMAIN some
  <2>1. CASE some[i].kind = "connect"
    BY <1>2, <1>3, <2>1, TaskUnreferenced
  <2>2. CASE some[i].kind # "connect"
    BY <1>2, <1>3, <2>2, TaskClosed
  <2> QED
    BY <2>1, <2>2
<1>5. r \in Seq(Tasks) /\ DOMAIN r = DOMAIN some
  <2>1. Len(some) \in Nat /\ DOMAIN some = 1 .. Len(some)
    BY <1>1 DEF QueueInv
  <2>2. r = [i \in 1 .. Len(some) |-> r[i]]
    BY <1>2, <2>1
  <2>3. \A i \in 1 .. Len(some) : r[i] \in Tasks
    BY <1>4, <2>1
  <2>4. DOMAIN r = 1 .. Len(some)
    BY <2>2
  <2> QED
    BY <2>1, <2>2, <2>3, <2>4
<1> HIDE DEF r
<1>6. \A i \in DOMAIN some : ~Connect(r[i])
  BY <1>1, <1>4 DEF Connecting, Connect, Live
<1>7. QueueInv(r)
  <2>1. \A i \in DOMAIN some : r[i].kind = some[i].kind /\ (r[i].ref => some[i].ref)
    BY <1>4
  <2>2. \A i \in DOMAIN some : r[i].at = "done" => r[i].kind = "connect"
    BY <1>1, <1>4 DEF QueueInv
  <2> QED
    BY <1>1, <1>5, <1>6, <2>1, <2>2, QueueChanged
<1> QED
  BY <1>5, <1>6, <1>7 DEF r, Connecting

\* connectLlcpServices starts the only ConnectTask at work.
LEMMA QueueConnects ==
    ASSUME NEW q, QueueInv(q), ~Connecting(q)
    PROVE  LET r == WithConnect(q)
           IN  /\ QueueInv(r) /\ Connecting(r) /\ Working(r)
               /\ \A i \in DOMAIN r : Connect(r[i]) => r[i].at = "queued"
<1> DEFINE u == Unreferenced(q, "connect")
<1>1. /\ QueueInv(u) /\ ~Connecting(u)
      /\ \A i \in DOMAIN u : u[i].kind = "connect" => ~u[i].ref
  BY QueueUnreferenced DEF ConnectsFrom, Connecting
<1> HIDE DEF u
<1>2. WithConnect(q) = Append(u, NewTask("connect"))
  BY DEF WithConnect, u
<1>3. NewTask("connect").at = "queued"
  BY DEF NewTask
<1> QED
  BY <1>1, <1>2, <1>3, QueueAppended DEF Connecting

\* sendNdefMessage cancels the SendTask there was and starts one.
LEMMA QueueSends ==
    ASSUME NEW q, QueueInv(q)
    PROVE  LET r == WithSend(q)
           IN  QueueInv(r) /\ ConnectsFrom(r, q) /\ (Connecting(q) => Connecting(r)) /\ Working(r)
<1> DEFINE c == Cancelled(q, "send")
           u == Unreferenced(c, "send")
           r == Append(u, NewTask("send"))
<1>1. QueueInv(c) /\ ConnectsFrom(c, q) /\ (Connecting(q) => Connecting(c))
  BY QueueCancelled
<1> HIDE DEF c
<1>2. /\ QueueInv(u) /\ ConnectsFrom(u, c) /\ (Connecting(c) => Connecting(u))
      /\ \A i \in DOMAIN u : u[i].kind = "send" => ~u[i].ref
  BY <1>1, QueueUnreferenced
<1> HIDE DEF u
<1>3. /\ QueueInv(r) /\ Working(r) /\ (Connecting(u) => Connecting(r))
      /\ \A i \in DOMAIN r : (i \in DOMAIN u /\ r[i] = u[i]) \/ r[i] = NewTask("send")
  BY <1>2, QueueAppended
<1> HIDE DEF r
<1>4. NewTask("send").kind # "connect"
  BY DEF NewTask
<1>5. ConnectsFrom(r, u)
  BY <1>3, <1>4 DEF ConnectsFrom, Connect
<1>6. ConnectsFrom(r, q)
  BY <1>1, <1>2, <1>5 DEF ConnectsFrom
<1>7. r = WithSend(q)
  BY DEF r, u, c, WithSend, SendCancelled
<1> QED
  BY <1>1, <1>2, <1>3, <1>6, <1>7

-----------------------------------------------------------------------------
(* IndInv by what it speaks of. *)

Counts == [{"taps", "repeats", "beams", "receives", "switches"} -> Nat]

\* The types of everything but the queues.
States ==
    /\ mLinkState \in LinkStates /\ mSendState \in SendStates
    /\ looper \in {"idle", "wait", "debounce"}
    /\ sendUi \in {"none", "waiting", "asking", "sending"}
Flags ==
    /\ mIsSendEnabled \in BOOLEAN /\ mIsReceiveEnabled \in BOOLEAN
    /\ mLlcpServicesConnected \in BOOLEAN /\ mLlcpConnectDelayed \in BOOLEAN
    /\ clients \in BOOLEAN /\ waitTimer \in BOOLEAN /\ debounceTimer \in BOOLEAN
    /\ mSending \in BOOLEAN /\ mNdefSent \in BOOLEAN /\ mNdefReceived \in BOOLEAN
    /\ mInDebounce \in BOOLEAN /\ failed \in BOOLEAN
Data ==
    /\ mToSend \in Offers
    /\ shared \in Offers /\ offered \in Offers /\ dropped \in BOOLEAN
    /\ counts \in Counts
Scalars == States /\ Flags /\ Data

\* The beam: what is sent, when the interface shows it, and which timer ends it.
BeamInv ==
    /\ SendsWhatWasConfirmed
    /\ UiGoneWhenOutOfRange
    /\ TouchIsTaken
    /\ PendingHasTimer
    /\ DebounceHasTimerUnlessSent
    /\ WaitTimerMeansPending
    /\ UiShowsTheBeam
    /\ WaitTimersAreBeams
    /\ clients \/ mLlcpServicesConnected => mLinkState = "UP"

Reported(p) == \E i \in DOMAIN p : p[i] \in {"SEND_COMPLETE", "REFUSED"}
FailuresKept(q, f) == \A i \in DOMAIN q : Connect(q[i]) /\ q[i].at = "done" /\ ~q[i].ok => f

\* The tasks and the link.
TaskInv ==
    /\ QueueInv(tasks) /\ posted \in Seq(Messages)
    /\ Connecting(tasks) => mLinkState = "UP" /\ ~mLlcpServicesConnected
    /\ FailuresKept(tasks, failed)
    /\ mLinkState = "WAITING_PDU" => ~mLlcpConnectDelayed
    /\ mLinkState = "UP" /\ mSendState = "NEED_CONFIRMATION" =>
         /\ ~failed /\ ~dropped =>
              mLlcpServicesConnected \/ mLlcpConnectDelayed \/ Connecting(tasks)
         /\ mLlcpConnectDelayed => ~Connecting(tasks)
    /\ mLinkState = "UP" /\ mSendState = "SENDING" =>
         (~failed /\ ~dropped => Working(tasks) \/ Reported(posted))

\* What can reach the peer was confirmed: the first part of SendingIsUnderway.
Carries(d) == d.ndef = offered.ndef /\ d.uris \in {offered.uris, Null}
SendInv ==
    \A i \in DOMAIN tasks : Sending(tasks[i]) =>
        /\ mLinkState = "UP" /\ mSendState \notin {"NEED_CONFIRMATION", "PENDING"}
        /\ Carries(tasks[i].data)

LEMMA IndInvParts == IndInv <=> Scalars /\ BeamInv /\ TaskInv /\ SendInv
<1>1. TypeOK <=> Scalars /\ tasks \in Seq(Tasks) /\ posted \in Seq(Messages)
  BY DEF TypeOK, Scalars, States, Flags, Data, Counts
<1>2. ASSUME tasks \in Seq(Tasks)
      PROVE  ConnectsForTheLink /\ TasksAreReferred <=>
                /\ QueueInv(tasks)
                /\ Connecting(tasks) => mLinkState = "UP" /\ ~mLlcpServicesConnected
                /\ clients \/ mLlcpServicesConnected => mLinkState = "UP"
  <2>1. QueueInv(tasks) =>
          \A i, j \in DOMAIN tasks : Connect(tasks[i]) /\ Connect(tasks[j]) => i = j
    BY DEF QueueInv, Connect
  <2> QED
    BY <1>2, <2>1 DEF ConnectsForTheLink, TasksAreReferred, QueueInv, Connecting, Connect
<1>3. FailureIsKept <=> FailuresKept(tasks, failed)
  BY DEF FailureIsKept, FailuresKept, Connect
<1>4. ConnectsForThePrompt <=>
         /\ mLinkState = "WAITING_PDU" => ~mLlcpConnectDelayed
         /\ (mLinkState = "UP" /\ mSendState = "NEED_CONFIRMATION" =>
            /\ ~failed /\ ~dropped =>
                 mLlcpServicesConnected \/ mLlcpConnectDelayed \/ Connecting(tasks)
            /\ mLlcpConnectDelayed => ~Connecting(tasks))
  <2>1. (\E i \in DOMAIN tasks : tasks[i].kind = "connect" /\ Live(tasks[i])) <=> Connecting(tasks)
    BY DEF Connecting, Connect
  <2> QED
    BY <2>1 DEF ConnectsForThePrompt
<1>5. SendingIsUnderway <=>
         /\ SendInv
         /\ (mLinkState = "UP" /\ mSendState = "SENDING" =>
              (~failed /\ ~dropped => Working(tasks) \/ Reported(posted)))
  BY DEF SendingIsUnderway, SendInv, Carries, Working, Reported
<1> QED
  BY <1>1, <1>2, <1>3, <1>4, <1>5 DEF IndInv, BeamInv, TaskInv, QueueInv

LEMMA InitInv == Init => IndInv
<1> SUFFICES ASSUME Init PROVE Scalars /\ BeamInv /\ TaskInv /\ SendInv
  BY IndInvParts
<1>1. Scalars
  <2>1. Nothing \in Offers
    BY DEF Nothing, Offers
  <2>2. States
    BY DEF Init, States, LinkStates, SendStates
  <2>3. Flags
    BY DEF Init, Flags
  <2>4. Data
    <3>1. counts \in Counts
      BY DEF Init, Counts
    <3>2. dropped = FALSE /\ mToSend = Nothing /\ shared = Nothing /\ offered = Nothing
      BY DEF Init
    <3> QED
      BY <2>1, <3>1, <3>2 DEF Data
  <2> QED
    BY <2>2, <2>3, <2>4 DEF Scalars
<1>2. BeamInv
  BY DEF Init, BeamInv, SendsWhatWasConfirmed, UiGoneWhenOutOfRange, TouchIsTaken,
         PendingHasTimer, DebounceHasTimerUnlessSent, WaitTimerMeansPending, UiShowsTheBeam,
         WaitTimersAreBeams
<1>3. TaskInv
  BY DEF Init, TaskInv, QueueInv, Connecting, FailuresKept, Working, Reported
<1>4. SendInv
  BY DEF Init, SendInv
<1> QED
  BY <1>1, <1>2, <1>3, <1>4

-----------------------------------------------------------------------------
(* Link events. *)

\* The queue when a link, a message or an interface changes, and the tasks stay.
LEMMA QueueStays ==
    ASSUME TaskInv, UNCHANGED tasks
    PROVE  QueueInv(tasks') /\ (Connecting(tasks') <=> Connecting(tasks))
           /\ (Working(tasks') <=> Working(tasks))
BY DEF TaskInv

LEMMA ConnectingWorks == \A q : Connecting(q) => Working(q)
BY DEF Connecting, Working, Connect

LEMMA TapCounted ==
    ASSUME Scalars, Count("taps", MaxTaps)
    PROVE  counts' \in Counts /\ counts'.beams = counts.beams
BY DEF Scalars, Data, Counts, Count

LEMMA DisturbanceCounted ==
    ASSUME Scalars, NEW what \in {"beams", "repeats", "receives", "switches"}, Disturb(what)
    PROVE  /\ counts' \in Counts
           /\ counts'.beams = IF what = "beams" THEN counts.beams + 1 ELSE counts.beams
BY DEF Scalars, Data, Counts, Disturb

\* A confirmed send connects or sends over a link that is up.
LEMMA ConfirmedTasks ==
    ASSUME TaskInv, NEW linkState \in LinkStates, NEW what, SendConfirmed(linkState, what),
           linkState = "UP" =>
             /\ mLinkState = "UP" /\ mSendState = "NEED_CONFIRMATION",
           linkState = "WAITING_PDU" => ~Connecting(tasks) /\ ~mLlcpServicesConnected,
           linkState # "UP" => mLinkState # "UP"
    PROVE  /\ QueueInv(tasks') /\ FailuresKept(tasks', failed')
           /\ Connecting(tasks') => mLinkState' = "UP" /\ ~mLlcpServicesConnected
           /\ mLinkState' = "UP" /\ ~failed' /\ ~dropped => Working(tasks')
<1> DEFINE connects == \/ linkState = "WAITING_PDU"
                       \/ linkState = "UP" /\ ~mLlcpServicesConnected /\ mLlcpConnectDelayed
           sends    == linkState = "UP" /\ mLlcpServicesConnected
<1>1. QueueInv(tasks)
  BY DEF TaskInv
<1>2. CASE connects
  <2>1. ~Connecting(tasks) /\ ~mLlcpServicesConnected
    BY <1>2 DEF TaskInv
  <2>2. tasks' = WithConnect(tasks) /\ mLinkState' = "UP"
    BY <1>2 DEF SendConfirmed
  <2> QED
    BY <1>1, <2>1, <2>2, QueueConnects DEF FailuresKept
<1>3. CASE sends
  <2>1. ~Connecting(tasks)
    BY <1>3 DEF TaskInv
  <2>2. tasks' = WithSend(tasks)
    BY <1>3 DEF SendConfirmed
  <2>3. QueueInv(tasks') /\ ConnectsFrom(tasks', tasks) /\ Working(tasks')
    BY <1>1, <2>2, QueueSends
  <2> QED
    BY <2>1, <2>3 DEF ConnectsFrom, Connecting, FailuresKept
<1>4. CASE ~connects /\ ~sends
  <2>1. tasks' = tasks /\ failed' = failed /\ mLinkState' = linkState
    BY <1>4 DEF SendConfirmed
  <2>2. FailuresKept(tasks, failed) /\ (Connecting(tasks) => mLinkState = "UP" /\ ~mLlcpServicesConnected)
    BY DEF TaskInv
  <2>3. linkState = "UP" /\ ~failed /\ ~dropped => Working(tasks)
    BY <1>4, ConnectingWorks DEF TaskInv
  <2>4. Connecting(tasks) => linkState = "UP"
    BY <2>2
  <2> QED
    BY <1>1, <2>1, <2>2, <2>3, <2>4
<1> QED
  BY <1>2, <1>3, <1>4

LEMMA ActivatedPending ==
    ASSUME Scalars, BeamInv, TaskInv, onLlcpActivatedPending
    PROVE  Scalars' /\ BeamInv' /\ TaskInv'
<1> USE DEF onLlcpActivatedPending
<1>1. /\ counts' \in Counts
      /\ counts'.beams = counts.beams
  BY TapCounted
<1>2. Scalars'
  <2>1. States'
    BY DEF Scalars, States, SendConfirmed, onP2pInRange, LinkStates, SendStates, enabled
  <2>2. Flags'
    BY DEF Scalars, Flags, SendConfirmed, onP2pInRange, LinkStates, SendStates, enabled
  <2>3. Data'
    BY <1>1 DEF Scalars, Data, SendConfirmed, onP2pInRange, LinkStates, SendStates, enabled
  <2> QED
    BY <2>1, <2>2, <2>3 DEF Scalars
<1>3. BeamInv'
  BY <1>1 DEF Scalars, States, Flags, Data, Counts, SendConfirmed, onP2pInRange, BeamInv,
         SendsWhatWasConfirmed, UiGoneWhenOutOfRange, TouchIsTaken, PendingHasTimer,
         DebounceHasTimerUnlessSent, WaitTimerMeansPending, UiShowsTheBeam, WaitTimersAreBeams
<1>4. TaskInv'
  <2>1. ~Connecting(tasks) /\ ~mLlcpServicesConnected
    BY DEF TaskInv, BeamInv
  <2>2. /\ QueueInv(tasks') /\ FailuresKept(tasks', failed')
        /\ Connecting(tasks') => mLinkState' = "UP" /\ ~mLlcpServicesConnected
        /\ mLinkState' = "UP" /\ ~failed' /\ ~dropped => Working(tasks')
    BY <2>1, ConfirmedTasks DEF LinkStates
  <2> QED
    BY <1>1, <2>2 DEF TaskInv, SendConfirmed
<1> QED
  BY <1>2, <1>3, <1>4

LEMMA ActivatedDown ==
    ASSUME Scalars, BeamInv, TaskInv, onLlcpActivatedDown
    PROVE  Scalars' /\ BeamInv' /\ TaskInv'
<1> USE DEF onLlcpActivatedDown
<1>1. /\ counts' \in Counts
      /\ counts'.beams = counts.beams
  BY TapCounted
<1> PICK o \in IF mIsSendEnabled THEN Offers ELSE {Nothing} :
         /\ mToSend' = o
         /\ \/ /\ o = Nothing
               /\ mLinkState' = "WAITING_PDU" /\ mSendState' = "NOTHING_TO_SEND"
               /\ UNCHANGED <<tasks, debounceTimer, sendUi, offered, failed>>
            \/ /\ o # Nothing
               /\ SendConfirmed("WAITING_PDU", o)
               /\ UNCHANGED sendUi
            \/ /\ o # Nothing
               /\ mLinkState' = "WAITING_PDU" /\ mSendState' = "NEED_CONFIRMATION"
               /\ sendUi' = "asking"
               /\ UNCHANGED <<tasks, debounceTimer, offered, failed>>
  OBVIOUS
<1>5. o \in Offers
  BY DEF Offers, Nothing
<1>2. Scalars'
  <2>1. States'
    BY DEF Scalars, States, SendConfirmed, onP2pInRange, LinkStates, SendStates, enabled
  <2>2. Flags'
    BY DEF Scalars, Flags, SendConfirmed, onP2pInRange, LinkStates, SendStates, enabled
  <2>3. Data'
    BY <1>1, <1>5 DEF Scalars, Data, SendConfirmed, onP2pInRange, LinkStates, SendStates, enabled
  <2> QED
    BY <2>1, <2>2, <2>3 DEF Scalars
<1>3. BeamInv'
  BY <1>1 DEF Scalars, States, Flags, Data, Counts, SendConfirmed, onP2pInRange, BeamInv,
         SendsWhatWasConfirmed, UiGoneWhenOutOfRange, TouchIsTaken, PendingHasTimer,
         DebounceHasTimerUnlessSent, WaitTimerMeansPending, UiShowsTheBeam, WaitTimersAreBeams
<1>4. TaskInv'
  <2>1. ~Connecting(tasks) /\ ~mLlcpServicesConnected
    BY DEF TaskInv, BeamInv
  <2>2. CASE SendConfirmed("WAITING_PDU", o)
    <3>1. /\ QueueInv(tasks') /\ FailuresKept(tasks', failed')
          /\ Connecting(tasks') => mLinkState' = "UP" /\ ~mLlcpServicesConnected
          /\ mLinkState' = "UP" /\ ~failed' /\ ~dropped => Working(tasks')
      BY <2>1, <2>2, ConfirmedTasks DEF LinkStates
    <3> QED
      BY <1>1, <2>2, <3>1 DEF TaskInv, SendConfirmed
  <2>3. CASE mLinkState' = "WAITING_PDU" /\ UNCHANGED <<tasks, failed>>
    BY <2>1, <2>3 DEF TaskInv
  <2> QED
    BY <2>2, <2>3
<1> QED
  BY <1>2, <1>3, <1>4

LEMMA ActivatedDebounce ==
    ASSUME Scalars, BeamInv, TaskInv, onLlcpActivatedDebounce
    PROVE  Scalars' /\ BeamInv' /\ TaskInv'
<1> USE DEF onLlcpActivatedDebounce
<1>1. /\ counts' \in Counts
      /\ counts'.beams = counts.beams
  BY TapCounted
<1>2. Scalars'
  <2>1. States'
    BY DEF Scalars, States, LinkStates, SendStates, ui, enabled
  <2>2. Flags'
    BY DEF Scalars, Flags, LinkStates, SendStates, ui, enabled
  <2>3. Data'
    BY <1>1 DEF Scalars, Data, LinkStates, SendStates, ui, enabled
  <2> QED
    BY <2>1, <2>2, <2>3 DEF Scalars
<1>3. BeamInv'
  BY <1>1 DEF Scalars, States, Flags, Data, Counts, ui, BeamInv, SendsWhatWasConfirmed,
         UiGoneWhenOutOfRange, TouchIsTaken, PendingHasTimer, DebounceHasTimerUnlessSent,
         WaitTimerMeansPending, UiShowsTheBeam, WaitTimersAreBeams
<1>4. TaskInv'
  <2>1. QueueInv(tasks) /\ ~Connecting(tasks) /\ ~mLlcpServicesConnected
    BY DEF TaskInv, BeamInv
  <2>2. CASE mSendState = "SENDING"
    <3>1. /\ QueueInv(tasks') /\ Working(tasks')
          /\ \A i \in DOMAIN tasks' : Connect(tasks'[i]) => tasks'[i].at = "queued"
      BY <2>1, <2>2, QueueConnects
    <3> QED
      BY <2>1, <2>2, <3>1 DEF TaskInv, FailuresKept
  <2>3. CASE mSendState # "SENDING"
    BY <2>1, <2>3 DEF TaskInv
  <2> QED
    BY <2>2, <2>3
<1> QED
  BY <1>2, <1>3, <1>4

LEMMA ActivatedTwice ==
    ASSUME Scalars, BeamInv, TaskInv, onLlcpActivatedTwice
    PROVE  Scalars' /\ BeamInv' /\ TaskInv'
<1> USE DEF onLlcpActivatedTwice
<1>1. /\ counts' \in Counts
      /\ counts'.beams = counts.beams
  BY DisturbanceCounted
<1>2. Scalars'
  <2>1. States'
    BY DEF Scalars, States, ui, enabled, timers, history, LinkStates
  <2>2. Flags'
    BY DEF Scalars, Flags, ui, enabled, timers, history, LinkStates
  <2>3. Data'
    BY <1>1 DEF Scalars, Data, ui, enabled, timers, history, LinkStates
  <2> QED
    BY <2>1, <2>2, <2>3 DEF Scalars
<1>3. BeamInv'
  BY <1>1 DEF Scalars, States, Flags, Data, Counts, ui, timers, history, BeamInv,
         SendsWhatWasConfirmed, UiGoneWhenOutOfRange, TouchIsTaken, PendingHasTimer,
         DebounceHasTimerUnlessSent, WaitTimerMeansPending, UiShowsTheBeam, WaitTimersAreBeams
<1>4. TaskInv'
  <2>1. mSendState = "NEED_CONFIRMATION" /\ ~dropped' => ~dropped /\ ~mLlcpConnectDelayed
    BY DEF Scalars, Flags, Data
  <2>2. mSendState = "SENDING" /\ ~dropped' => ~dropped
    BY DEF Scalars, Flags, Data
  <2> QED
    BY <2>1, <2>2 DEF TaskInv
<1> QED
  BY <1>2, <1>3, <1>4

LEMMA FirstPacketReceived ==
    ASSUME Scalars, BeamInv, TaskInv, onLlcpFirstPacketReceived
    PROVE  Scalars' /\ BeamInv' /\ TaskInv'
<1> USE DEF onLlcpFirstPacketReceived
<1>2. Scalars'
  <2>1. States'
    BY DEF Scalars, States, ui, enabled, timers, LinkStates
  <2>2. Flags'
    BY DEF Scalars, Flags, ui, enabled, timers
  <2>3. Data'
    BY DEF Scalars, Data, ui, enabled, timers, LinkStates
  <2> QED
    BY <2>1, <2>2, <2>3 DEF Scalars
<1>3. BeamInv'
  BY DEF Scalars, States, Flags, Data, Counts, ui, timers, BeamInv, SendsWhatWasConfirmed,
         UiGoneWhenOutOfRange, TouchIsTaken, PendingHasTimer, DebounceHasTimerUnlessSent,
         WaitTimerMeansPending, UiShowsTheBeam, WaitTimersAreBeams
<1>4. TaskInv'
  <2>1. QueueInv(tasks) /\ ~Connecting(tasks) /\ ~mLlcpServicesConnected
    BY DEF TaskInv, BeamInv
  <2>2. mLinkState' = "UP" /\ UNCHANGED <<mLlcpServicesConnected, mSendState, posted, counts>>
    OBVIOUS
  <2>3. \/ tasks' = WithConnect(tasks) /\ failed' = FALSE
        \/ /\ UNCHANGED <<tasks, failed>> /\ mSendState # "SENDING"
           /\ mSendState = "NEED_CONFIRMATION" => mLlcpConnectDelayed' = TRUE
    OBVIOUS
  <2>4. ~mLlcpConnectDelayed /\ (mLlcpConnectDelayed' => UNCHANGED tasks)
    BY DEF TaskInv
  <2> HIDE DEF onLlcpFirstPacketReceived
  <2>5. CASE tasks' = WithConnect(tasks) /\ failed' = FALSE
    <3>1. /\ QueueInv(tasks') /\ Connecting(tasks') /\ Working(tasks')
          /\ \A i \in DOMAIN tasks' : Connect(tasks'[i]) => tasks'[i].at = "queued"
      BY <2>1, <2>5, QueueConnects
    <3>2. FailuresKept(tasks', failed')
      BY <3>1 DEF FailuresKept
    <3> QED
      BY <2>1, <2>2, <2>4, <2>5, <3>1, <3>2 DEF TaskInv
  <2>6. CASE /\ UNCHANGED <<tasks, failed>> /\ mSendState # "SENDING"
             /\ mSendState = "NEED_CONFIRMATION" => mLlcpConnectDelayed' = TRUE
    BY <2>1, <2>2, <2>6 DEF TaskInv
  <2> QED
    BY <2>3, <2>5, <2>6
<1> QED
  BY <1>2, <1>3, <1>4

\* What is lost with the link: its clients and the tasks that would use them.
LEMMA LosesLink ==
    ASSUME Scalars, BeamInv, TaskInv, mLinkState \in {"WAITING_PDU", "UP"}, LinkLost,
           UNCHANGED <<counts, mIsSendEnabled, mIsReceiveEnabled>>
    PROVE  Scalars' /\ BeamInv' /\ TaskInv'
<1> USE DEF LinkLost
<1>1. Scalars'
  <2>1. States'
    BY DEF Scalars, States, LinkStates, history
  <2>2. Flags'
    BY DEF Scalars, Flags, history
  <2>3. Data'
    BY DEF Scalars, Data, history
  <2> QED
    BY <2>1, <2>2, <2>3 DEF Scalars
<1>2. BeamInv'
  BY DEF Scalars, States, Flags, history, BeamInv, SendsWhatWasConfirmed, UiGoneWhenOutOfRange,
         TouchIsTaken, PendingHasTimer, DebounceHasTimerUnlessSent, WaitTimerMeansPending,
         UiShowsTheBeam, WaitTimersAreBeams
<1>3. TaskInv'
  <2>1. QueueInv(SendCancelled(tasks))
    BY QueueCancelled DEF TaskInv, SendCancelled
  <2>2. QueueInv(tasks') /\ ~Connecting(tasks')
    BY <2>1, QueueDisconnected
  <2> QED
    BY <2>2 DEF TaskInv, FailuresKept, Connecting
<1> QED
  BY <1>1, <1>2, <1>3

LEMMA Deactivated ==
    ASSUME Scalars, BeamInv, TaskInv, onLlcpDeactivated
    PROVE  Scalars' /\ BeamInv' /\ TaskInv'
BY LosesLink DEF onLlcpDeactivated, enabled

-----------------------------------------------------------------------------
(* Binder threads and the user. *)

LEMMA EnablesDisables ==
    ASSUME Scalars, BeamInv, TaskInv, NEW send \in BOOLEAN, NEW receive \in BOOLEAN,
           enableDisable(send, receive)
    PROVE  Scalars' /\ BeamInv' /\ TaskInv'
<1> USE DEF enableDisable
<1>1. /\ counts' \in Counts
      /\ counts'.beams = counts.beams
  BY DisturbanceCounted
<1>2. CASE LinkLost /\ mLinkState \in {"WAITING_PDU", "UP"}
  <2> USE <1>2 DEF LinkLost
  <2>1. Scalars'
    <3>1. States'
      BY DEF Scalars, States, LinkStates, history
    <3>2. Flags'
      BY DEF Scalars, Flags, history
    <3>3. Data'
      BY <1>1 DEF Scalars, Data, history
    <3> QED
      BY <3>1, <3>2, <3>3 DEF Scalars
  <2>2. BeamInv'
    BY <1>1 DEF Scalars, States, Flags, Data, Counts, history, BeamInv, SendsWhatWasConfirmed,
           UiGoneWhenOutOfRange, TouchIsTaken, PendingHasTimer, DebounceHasTimerUnlessSent,
           WaitTimerMeansPending, UiShowsTheBeam, WaitTimersAreBeams
  <2>3. TaskInv'
    <3>1. QueueInv(SendCancelled(tasks))
      BY QueueCancelled DEF TaskInv, SendCancelled
    <3>2. QueueInv(tasks') /\ ~Connecting(tasks')
      BY <3>1, QueueDisconnected
    <3> QED
      BY <3>2 DEF TaskInv, FailuresKept, Connecting
  <2> QED
    BY <2>1, <2>2, <2>3
<1>3. CASE UNCHANGED <<link, mSendState, mToSend, tasks, posted, timers, ui, history>>
  <2> USE <1>3 DEF link, timers, ui, history
  <2>1. Scalars'
    <3>1. States'
      BY DEF Scalars, States
    <3>2. Flags'
      BY DEF Scalars, Flags
    <3>3. Data'
      BY <1>1 DEF Scalars, Data
    <3> QED
      BY <3>1, <3>2, <3>3 DEF Scalars
  <2>2. BeamInv'
    BY <1>1 DEF Scalars, States, Flags, Data, Counts, BeamInv, SendsWhatWasConfirmed,
           UiGoneWhenOutOfRange, TouchIsTaken, PendingHasTimer, DebounceHasTimerUnlessSent,
           WaitTimerMeansPending, UiShowsTheBeam, WaitTimersAreBeams
  <2>3. TaskInv'
    BY <1>1 DEF TaskInv
  <2> QED
    BY <2>1, <2>2, <2>3
<1> QED
  BY <1>2, <1>3

LEMMA ManualBeam ==
    ASSUME Scalars, BeamInv, TaskInv, NEW foreground \in BOOLEAN, NEW o \in Offers,
           NEW s \in Shares, onManualBeamInvoke(foreground, o, s)
    PROVE  Scalars' /\ BeamInv' /\ TaskInv'
<1> USE DEF onManualBeamInvoke
<1>1. /\ counts' \in Counts
      /\ counts'.beams = counts.beams + 1
  BY DisturbanceCounted
<1>5. s \in Offers
  BY DEF Shares
<1>6. mToSend' \in Offers /\ shared' \in Offers
  BY <1>5 DEF Scalars, Data
<1>2. Scalars'
  <2>1. States'
    BY DEF Scalars, States, SendStates, ScheduleWait, onP2pInRange, link, enabled, history
  <2>2. Flags'
    BY DEF Scalars, Flags, ScheduleWait, onP2pInRange, link, enabled, history
  <2>3. Data'
    BY <1>1, <1>6 DEF Scalars, Data, SendStates, ScheduleWait, onP2pInRange, link, enabled, history
  <2> QED
    BY <2>1, <2>2, <2>3 DEF Scalars
<1>3. BeamInv'
  BY <1>1 DEF Scalars, States, Flags, Data, Counts, link, history, ScheduleWait, onP2pInRange,
         BeamInv, SendsWhatWasConfirmed, UiGoneWhenOutOfRange, TouchIsTaken, PendingHasTimer,
         DebounceHasTimerUnlessSent, WaitTimerMeansPending, UiShowsTheBeam, WaitTimersAreBeams
<1>4. TaskInv'
  BY <1>1 DEF TaskInv, link
<1> QED
  BY <1>2, <1>3, <1>4

LEMMA ConfirmsSend ==
    ASSUME Scalars, BeamInv, TaskInv, onSendConfirmed
    PROVE  Scalars' /\ BeamInv' /\ TaskInv'
<1> USE DEF onSendConfirmed
<1>2. Scalars'
  <2>1. States'
    BY DEF Scalars, States, SendConfirmed, LinkStates, SendStates, enabled
  <2>2. Flags'
    BY DEF Scalars, Flags, SendConfirmed, LinkStates, SendStates, enabled
  <2>3. Data'
    BY DEF Scalars, Data, SendConfirmed, LinkStates, SendStates, enabled
  <2> QED
    BY <2>1, <2>2, <2>3 DEF Scalars
<1>3. BeamInv'
  BY DEF Scalars, States, Flags, Data, Counts, SendConfirmed, LinkStates, BeamInv,
         SendsWhatWasConfirmed, UiGoneWhenOutOfRange, TouchIsTaken, PendingHasTimer,
         DebounceHasTimerUnlessSent, WaitTimerMeansPending, UiShowsTheBeam, WaitTimersAreBeams
<1>4. TaskInv'
  <2>1. ~mSending /\ mSendState = "NEED_CONFIRMATION" /\ mLinkState # "DOWN"
    BY DEF BeamInv, TouchIsTaken
  <2>2. SendConfirmed(mLinkState, mToSend)
    BY <2>1
  <2>3. mLinkState = "WAITING_PDU" => ~Connecting(tasks) /\ ~mLlcpServicesConnected
    BY DEF TaskInv, BeamInv
  <2>4. /\ QueueInv(tasks') /\ FailuresKept(tasks', failed')
        /\ Connecting(tasks') => mLinkState' = "UP" /\ ~mLlcpServicesConnected
        /\ mLinkState' = "UP" /\ ~failed' /\ ~dropped => Working(tasks')
    BY <2>1, <2>2, <2>3, ConfirmedTasks DEF Scalars, States
  <2> QED
    BY <2>2, <2>4 DEF TaskInv, SendConfirmed
<1> QED
  BY <1>2, <1>3, <1>4

LEMMA Cancels ==
    ASSUME Scalars, BeamInv, TaskInv, onCanceled
    PROVE  Scalars' /\ BeamInv' /\ TaskInv'
<1> USE DEF onCanceled
<1>2. Scalars'
  <2>1. States'
    BY DEF Scalars, States, SendStates, link, enabled, history
  <2>2. Flags'
    BY DEF Scalars, Flags, SendStates, link, enabled, history
  <2>3. Data'
    BY DEF Scalars, Data, SendStates, link, enabled, history
  <2> QED
    BY <2>1, <2>2, <2>3 DEF Scalars
<1>3. BeamInv'
  BY DEF Scalars, States, Flags, Data, Counts, link, history, BeamInv, SendsWhatWasConfirmed,
         UiGoneWhenOutOfRange, TouchIsTaken, PendingHasTimer, DebounceHasTimerUnlessSent,
         WaitTimerMeansPending, UiShowsTheBeam, WaitTimersAreBeams
<1>4. TaskInv'
  BY DEF TaskInv, link, history
<1> QED
  BY <1>2, <1>3, <1>4

-----------------------------------------------------------------------------
(* Timeouts, and the messages of mHandler. *)

LEMMA WaitIsDue ==
    ASSUME Scalars, BeamInv, TaskInv, WaitTimerDue
    PROVE  Scalars' /\ BeamInv' /\ TaskInv'
<1> USE DEF WaitTimerDue
<1>2. Scalars'
  <2>1. States'
    BY DEF Scalars, States, SendStates, UiIdle, link, enabled, ui, history
  <2>2. Flags'
    BY DEF Scalars, Flags, SendStates, UiIdle, link, enabled, ui, history
  <2>3. Data'
    BY DEF Scalars, Data, SendStates, UiIdle, link, enabled, ui, history
  <2> QED
    BY <2>1, <2>2, <2>3 DEF Scalars
<1>3. BeamInv'
  BY DEF Scalars, States, Flags, Data, Counts, UiIdle, link, ui, history, BeamInv,
         SendsWhatWasConfirmed, UiGoneWhenOutOfRange, TouchIsTaken, PendingHasTimer,
         DebounceHasTimerUnlessSent, WaitTimerMeansPending, UiShowsTheBeam, WaitTimersAreBeams
<1>4. TaskInv'
  BY DEF TaskInv, link, history
<1> QED
  BY <1>2, <1>3, <1>4

LEMMA WaitTimesOut ==
    ASSUME Scalars, BeamInv, TaskInv, WaitForLinkTimeout
    PROVE  Scalars' /\ BeamInv' /\ TaskInv'
<1> USE DEF WaitForLinkTimeout
<1>2. Scalars'
  <2>1. States'
    BY DEF Scalars, States, SendStates, UiIdle, link, enabled, ui, history
  <2>2. Flags'
    BY DEF Scalars, Flags, SendStates, UiIdle, link, enabled, ui, history
  <2>3. Data'
    BY DEF Scalars, Data, SendStates, UiIdle, link, enabled, ui, history
  <2> QED
    BY <2>1, <2>2, <2>3 DEF Scalars
<1>3. BeamInv'
  BY DEF Scalars, States, Flags, Data, Counts, UiIdle, link, ui, history, BeamInv,
         SendsWhatWasConfirmed, UiGoneWhenOutOfRange, TouchIsTaken, PendingHasTimer,
         DebounceHasTimerUnlessSent, WaitTimerMeansPending, UiShowsTheBeam, WaitTimersAreBeams
<1>4. TaskInv'
  BY DEF TaskInv, link, history
<1> QED
  BY <1>2, <1>3, <1>4

LEMMA DebounceIsDue ==
    ASSUME Scalars, BeamInv, TaskInv, DebounceTimerDue
    PROVE  Scalars' /\ BeamInv' /\ TaskInv'
<1> USE DEF DebounceTimerDue
<1>2. Scalars'
  <2>1. States'
    BY DEF Scalars, States, SendStates, UiIdle, link, enabled, ui, history
  <2>2. Flags'
    BY DEF Scalars, Flags, SendStates, UiIdle, link, enabled, ui, history
  <2>3. Data'
    BY DEF Scalars, Data, SendStates, UiIdle, link, enabled, ui, history
  <2> QED
    BY <2>1, <2>2, <2>3 DEF Scalars
<1>3. BeamInv'
  BY DEF Scalars, States, Flags, Data, Counts, UiIdle, link, ui, history, BeamInv,
         SendsWhatWasConfirmed, UiGoneWhenOutOfRange, TouchIsTaken, PendingHasTimer,
         DebounceHasTimerUnlessSent, WaitTimerMeansPending, UiShowsTheBeam, WaitTimersAreBeams
<1>4. TaskInv'
  BY DEF TaskInv, link, history
<1> QED
  BY <1>2, <1>3, <1>4

LEMMA DebounceTimesOut ==
    ASSUME Scalars, BeamInv, TaskInv, DebounceTimeout
    PROVE  Scalars' /\ BeamInv' /\ TaskInv'
<1> USE DEF DebounceTimeout
<1>2. Scalars'
  <2>1. States'
    BY DEF Scalars, States, LinkStates, SendStates, onP2pOutOfRange, UiOutOfRange, Nothing,
           Offers, enabled, history
  <2>2. Flags'
    BY DEF Scalars, Flags, onP2pOutOfRange, UiOutOfRange, Nothing, Offers,
           enabled, history
  <2>3. Data'
    BY DEF Scalars, Data, LinkStates, SendStates, onP2pOutOfRange, UiOutOfRange, Nothing, Offers,
           enabled, history
  <2> QED
    BY <2>1, <2>2, <2>3 DEF Scalars
<1>3. BeamInv'
  BY DEF Scalars, States, Flags, Data, Counts, onP2pOutOfRange, UiOutOfRange, history, BeamInv,
         SendsWhatWasConfirmed, UiGoneWhenOutOfRange, TouchIsTaken, PendingHasTimer,
         DebounceHasTimerUnlessSent, WaitTimerMeansPending, UiShowsTheBeam, WaitTimersAreBeams
<1>4. TaskInv'
  BY DEF TaskInv, history
<1> QED
  BY <1>2, <1>3, <1>4

\* A message that is handled leaves the rest of the queue as it was.
LEMMA Handled ==
    ASSUME TaskInv, NEW m, Handles(m)
    PROVE  /\ posted' \in Seq(Messages)
           /\ Reported(posted) /\ m \notin {"SEND_COMPLETE", "REFUSED"} => Reported(posted')
<1>1. /\ posted \in Seq(Messages) /\ posted # <<>> /\ m = posted[1] /\ posted' = Tail(posted)
  BY DEF TaskInv, Handles
<1>2. /\ posted' \in Seq(Messages) /\ DOMAIN posted' = 1 .. Len(posted) - 1
      /\ \A i \in 1 .. Len(posted) - 1 : posted'[i] = posted[i + 1]
  BY <1>1
<1>3. ASSUME Reported(posted), m \notin {"SEND_COMPLETE", "REFUSED"}
      PROVE  Reported(posted')
  <2>1. PICK i \in DOMAIN posted : posted[i] \in {"SEND_COMPLETE", "REFUSED"}
    BY <1>3 DEF Reported
  <2>2. i # 1 /\ i \in 1 .. Len(posted) /\ Len(posted) \in Nat
    BY <1>1, <1>3, <2>1
  <2>3. i - 1 \in DOMAIN posted' /\ posted'[i - 1] = posted[i]
    BY <1>2, <2>2
  <2> QED
    BY <2>1, <2>3 DEF Reported
<1> QED
  BY <1>2, <1>3

LEMMA Posted ==
    ASSUME TaskInv, NEW m \in Messages, posted' = Append(posted, m)
    PROVE  /\ posted' \in Seq(Messages)
           /\ Reported(posted) \/ m \in {"SEND_COMPLETE", "REFUSED"} => Reported(posted')
<1>1. posted \in Seq(Messages) /\ Len(posted) \in Nat
  BY DEF TaskInv
<1>2. /\ posted' \in Seq(Messages) /\ DOMAIN posted' = 1 .. Len(posted) + 1
      /\ posted'[Len(posted) + 1] = m /\ \A i \in DOMAIN posted : posted'[i] = posted[i]
  BY <1>1
<1>3. DOMAIN posted \subseteq DOMAIN posted' /\ Len(posted) + 1 \in DOMAIN posted'
  BY <1>1, <1>2
<1> QED
  BY <1>2, <1>3 DEF Reported

LEMMA HandlesReceive ==
    ASSUME Scalars, BeamInv, TaskInv, HandleReceive
    PROVE  Scalars' /\ BeamInv' /\ TaskInv'
<1> USE DEF HandleReceive
<1>2. Scalars'
  <2>1. States'
    BY DEF Scalars, States, Handles, SendStates, link, enabled, timers, history
  <2>2. Flags'
    BY DEF Scalars, Flags, Handles, SendStates, link, enabled, timers, history
  <2>3. Data'
    BY DEF Scalars, Data, Handles, SendStates, link, enabled, timers, history
  <2> QED
    BY <2>1, <2>2, <2>3 DEF Scalars
<1>3. BeamInv'
  BY DEF Scalars, States, Flags, Data, Counts, Handles, UiIdle, link, timers, history, BeamInv,
         SendsWhatWasConfirmed, UiGoneWhenOutOfRange, TouchIsTaken, PendingHasTimer,
         DebounceHasTimerUnlessSent, WaitTimerMeansPending, UiShowsTheBeam, WaitTimersAreBeams
<1>4. TaskInv'
  <2>1. posted' \in Seq(Messages) /\ (Reported(posted) => Reported(posted'))
    BY Handled
  <2>2. CASE tasks' = tasks
    BY <2>1, <2>2 DEF TaskInv, link, history
  <2>3. CASE tasks' = SendCancelled(tasks) /\ mSendState' = "NOTHING_TO_SEND"
    <3>1. /\ QueueInv(tasks') /\ ConnectsFrom(tasks', tasks)
      BY <2>3, QueueCancelled DEF TaskInv, SendCancelled
    <3>2. Connecting(tasks') => Connecting(tasks)
      BY <3>1 DEF ConnectsFrom, Connecting
    <3>3. FailuresKept(tasks', failed')
      BY <3>1 DEF TaskInv, ConnectsFrom, FailuresKept, history
    <3> QED
      BY <2>1, <2>3, <3>1, <3>2, <3>3 DEF TaskInv, link
  <2> QED
    BY <2>2, <2>3
<1> QED
  BY <1>2, <1>3, <1>4

LEMMA HandlesSendComplete ==
    ASSUME Scalars, BeamInv, TaskInv, HandleSendComplete
    PROVE  Scalars' /\ BeamInv' /\ TaskInv'
<1> USE DEF HandleSendComplete
<1>2. Scalars'
  <2>1. States'
    BY DEF Scalars, States, Handles, SendStates, link, enabled, history
  <2>2. Flags'
    BY DEF Scalars, Flags, Handles, link, enabled, history
  <2>3. Data'
    BY DEF Scalars, Data, Handles, SendStates, link, enabled, history
  <2> QED
    BY <2>1, <2>2, <2>3 DEF Scalars
<1>3. BeamInv'
  BY DEF Scalars, States, Flags, Data, Counts, Handles, UiIdle, link, history, BeamInv,
         SendsWhatWasConfirmed, UiGoneWhenOutOfRange, TouchIsTaken, PendingHasTimer,
         DebounceHasTimerUnlessSent, WaitTimerMeansPending, UiShowsTheBeam, WaitTimersAreBeams
<1>4. TaskInv'
  <2>1. posted' \in Seq(Messages)
    BY Handled DEF Handles
  <2>2. /\ QueueInv(tasks') /\ ConnectsFrom(tasks', tasks)
        /\ Connecting(tasks) => Connecting(tasks')
    BY QueueUnreferenced DEF TaskInv
  <2>3. Connecting(tasks') <=> Connecting(tasks)
    BY <2>2 DEF ConnectsFrom, Connecting
  <2>4. FailuresKept(tasks', failed')
    BY <2>2 DEF TaskInv, ConnectsFrom, FailuresKept, history
  <2>5. mLinkState = "UP" => mSendState' # "SENDING"
    OBVIOUS
  <2> QED
    BY <2>1, <2>2, <2>3, <2>4, <2>5 DEF TaskInv, link, history
<1> QED
  BY <1>2, <1>3, <1>4

LEMMA HandlesHandoverRefused ==
    ASSUME Scalars, BeamInv, TaskInv, HandleHandoverRefused
    PROVE  Scalars' /\ BeamInv' /\ TaskInv'
<1> USE DEF HandleHandoverRefused
<1>2. Scalars'
  <2>1. States'
    BY DEF Scalars, States, Handles, SendStates, link, enabled, timers, history
  <2>2. Flags'
    BY DEF Scalars, Flags, Handles, link, enabled, timers, history
  <2>3. Data'
    BY DEF Scalars, Data, Handles, SendStates, link, enabled, timers, history
  <2> QED
    BY <2>1, <2>2, <2>3 DEF Scalars
<1>3. BeamInv'
  BY DEF Scalars, States, Flags, Data, Counts, Handles, UiIdle, link, timers, history, BeamInv,
         SendsWhatWasConfirmed, UiGoneWhenOutOfRange, TouchIsTaken, PendingHasTimer,
         DebounceHasTimerUnlessSent, WaitTimerMeansPending, UiShowsTheBeam, WaitTimersAreBeams
<1>4. TaskInv'
  <2>1. posted' \in Seq(Messages)
    BY Handled DEF Handles
  <2>2. /\ QueueInv(tasks') /\ ConnectsFrom(tasks', tasks)
        /\ Connecting(tasks) => Connecting(tasks')
    BY QueueUnreferenced DEF TaskInv
  <2>3. Connecting(tasks') <=> Connecting(tasks)
    BY <2>2 DEF ConnectsFrom, Connecting
  <2>4. FailuresKept(tasks', failed')
    BY <2>2 DEF TaskInv, ConnectsFrom, FailuresKept, history
  <2>5. mLinkState = "UP" => mSendState' # "SENDING"
    OBVIOUS
  <2> QED
    BY <2>1, <2>2, <2>3, <2>4, <2>5 DEF TaskInv, link, history
<1> QED
  BY <1>2, <1>3, <1>4

LEMMA PeerHasPushed ==
    ASSUME Scalars, BeamInv, TaskInv, PeerPushes
    PROVE  Scalars' /\ BeamInv' /\ TaskInv'
<1> USE DEF PeerPushes
<1>1. /\ counts' \in Counts
      /\ counts'.beams = counts.beams
  BY DisturbanceCounted
<1>2. Scalars'
  <2>1. States'
    BY DEF Scalars, States, link, enabled, timers, ui, history
  <2>2. Flags'
    BY DEF Scalars, Flags, link, enabled, timers, ui, history
  <2>3. Data'
    BY <1>1 DEF Scalars, Data, link, enabled, timers, ui, history
  <2> QED
    BY <2>1, <2>2, <2>3 DEF Scalars
<1>3. BeamInv'
  BY <1>1 DEF Scalars, States, Flags, Data, Counts, link, timers, ui, history, BeamInv,
         SendsWhatWasConfirmed, UiGoneWhenOutOfRange, TouchIsTaken, PendingHasTimer,
         DebounceHasTimerUnlessSent, WaitTimerMeansPending, UiShowsTheBeam, WaitTimersAreBeams
<1>4. TaskInv'
  <2>1. posted' \in Seq(Messages) /\ (Reported(posted) => Reported(posted'))
    BY Posted DEF Messages
  <2> QED
    BY <1>1, <2>1 DEF TaskInv, link, history
<1> QED
  BY <1>2, <1>3, <1>4

-----------------------------------------------------------------------------
(* The serial executor. *)

\* A task goes on where it is.
LEMMA QueueReplaced ==
    ASSUME NEW q, QueueInv(q), NEW i \in DOMAIN q, NEW t \in Tasks,
           t.kind = q[i].kind, t.ref = q[i].ref, t.cancelled = q[i].cancelled,
           t.at = "done" => t.kind = "connect"
    PROVE  LET r == [q EXCEPT ![i] = t]
           IN  /\ QueueInv(r) /\ (Connecting(r) <=> Connecting(q))
               /\ DOMAIN r = DOMAIN q /\ r[i] = t /\ \A j \in DOMAIN q : j # i => r[j] = q[j]
               /\ Live(t) \/ t.at = "delivered" \/ (Working(q) /\ q[i].at # "delivered") => Working(r)
<1> DEFINE r == [q EXCEPT ![i] = t]
<1>1. r \in Seq(Tasks) /\ DOMAIN r = DOMAIN q /\ r[i] = t /\ \A j \in DOMAIN q : j # i => r[j] = q[j]
  BY DEF QueueInv
<1> HIDE DEF r
<1>2. \A j \in DOMAIN q : r[j].kind = q[j].kind /\ r[j].ref = q[j].ref /\ (Connect(r[j]) <=> Connect(q[j]))
  BY <1>1 DEF Connect, Live
<1>3. \A j \in DOMAIN q : Connect(q[j]) => q[j].ref
  BY DEF QueueInv
<1>4. QueueInv(r)
  <2>1. \A j \in DOMAIN q : r[j].kind = q[j].kind /\ (r[j].ref => q[j].ref)
    BY <1>2
  <2>2. \A j \in DOMAIN q : Connect(r[j]) => Connect(q[j]) /\ r[j].ref
    BY <1>2, <1>3
  <2>3. \A j \in DOMAIN q : r[j].at = "done" => r[j].kind = "connect"
    BY <1>1 DEF QueueInv
  <2> QED
    BY <1>1, <2>1, <2>2, <2>3, QueueChanged
<1>5. Connecting(r) <=> Connecting(q)
  BY <1>1, <1>2 DEF Connecting
<1>6. Live(t) \/ t.at = "delivered" \/ (Working(q) /\ q[i].at # "delivered") => Working(r)
  BY <1>1 DEF Working, Live
<1> QED
  BY <1>1, <1>4, <1>5, <1>6 DEF r

\* A step of a task, off the lock or under it, leaves the link and the beam alone.
LEMMA InTheBackground ==
    ASSUME Scalars, BeamInv, TaskInv, InBackground, UNCHANGED clients,
           failed' \in BOOLEAN, failed => failed',
           posted' \in Seq(Messages), Reported(posted) => Reported(posted'),
           QueueInv(tasks'), ConnectsFrom(tasks', tasks) \/ FailuresKept(tasks', failed'),
           Connecting(tasks) <=> Connecting(tasks'),
           mLinkState = "UP" /\ mSendState = "SENDING" /\ ~failed' /\ Working(tasks) =>
             Working(tasks') \/ Reported(posted')
    PROVE  Scalars' /\ BeamInv' /\ TaskInv'
<1> USE DEF InBackground
<1>1. Scalars'
  <2>1. States'
    BY DEF Scalars, States, timers, ui
  <2>2. Flags'
    BY DEF Scalars, Flags, enabled, timers, ui
  <2>3. Data'
    BY DEF Scalars, Data
  <2> QED
    BY <2>1, <2>2, <2>3 DEF Scalars
<1>2. BeamInv'
  BY DEF timers, ui, BeamInv, SendsWhatWasConfirmed, UiGoneWhenOutOfRange,
         TouchIsTaken, PendingHasTimer, DebounceHasTimerUnlessSent, WaitTimerMeansPending,
         UiShowsTheBeam, WaitTimersAreBeams
<1>3. TaskInv'
  <2>1. FailuresKept(tasks', failed')
    BY DEF TaskInv, ConnectsFrom, FailuresKept
  <2> QED
    BY <2>1 DEF TaskInv
<1> QED
  BY <1>1, <1>2, <1>3

LEMMA ConnectStarts ==
    ASSUME Scalars, BeamInv, TaskInv, NEW i \in DOMAIN tasks, ConnectTaskStarts(i)
    PROVE  Scalars' /\ BeamInv' /\ TaskInv'
<1>1. QueueInv(tasks) /\ tasks[i] \in Tasks /\ tasks[i].at = "queued"
  BY DEF TaskInv, QueueInv, ConnectTaskStarts, Runs
<1> DEFINE t == [tasks[i] EXCEPT !.at = "running"]
<1>2. tasks' = [tasks EXCEPT ![i] = t] /\ InBackground /\ UNCHANGED <<clients, posted, failed>>
  BY DEF ConnectTaskStarts
<1>3. /\ t \in Tasks /\ t.kind = tasks[i].kind /\ t.ref = tasks[i].ref /\ t.at = "running"
      /\ t.cancelled = tasks[i].cancelled
  BY <1>1 DEF Tasks
<1> HIDE DEF t
<1>4. /\ QueueInv(tasks') /\ (Connecting(tasks') <=> Connecting(tasks))
      /\ Working(tasks) => Working(tasks')
  BY <1>1, <1>2, <1>3, QueueReplaced
<1>5. FailuresKept(tasks', failed')
  BY <1>1, <1>2, <1>3, QueueReplaced DEF TaskInv, FailuresKept
<1>6. failed' \in BOOLEAN /\ posted' \in Seq(Messages) /\ (Reported(posted) => Reported(posted'))
  BY <1>2 DEF Scalars, Flags, TaskInv
<1> QED
  BY <1>2, <1>4, <1>5, <1>6, InTheBackground

LEMMA ConnectReturns ==
    ASSUME Scalars, BeamInv, TaskInv, NEW i \in DOMAIN tasks, ConnectTaskReturns(i)
    PROVE  Scalars' /\ BeamInv' /\ TaskInv'
<1>1. QueueInv(tasks) /\ tasks[i] \in Tasks /\ tasks[i].kind = "connect" /\ tasks[i].at = "running"
  <2>1. Runs(i, "connect", "running") /\ QueueInv(tasks)
    BY DEF TaskInv, ConnectTaskReturns
  <2> QED
    BY <2>1 DEF QueueInv, Runs
<1>2. CASE tasks[i].cancelled
  <2>1. tasks' = RemoveAt(tasks, i) /\ InBackground /\ UNCHANGED <<clients, posted, failed>>
    BY <1>2 DEF ConnectTaskReturns
  <2>2. ~Live(tasks[i]) /\ ~Connect(tasks[i])
    BY <1>2 DEF Live, Connect
  <2>3. /\ QueueInv(tasks') /\ ConnectsFrom(tasks', tasks)
        /\ Connecting(tasks) => Connecting(tasks')
        /\ Working(tasks) => Working(tasks')
    BY <1>1, <2>1, <2>2, QueueRemoved
  <2> QED
    <3>1. Connecting(tasks') => Connecting(tasks)
      BY <2>3 DEF ConnectsFrom, Connecting
    <3>2. failed' \in BOOLEAN /\ posted' \in Seq(Messages) /\ (Reported(posted) => Reported(posted'))
      BY <2>1 DEF Scalars, Flags, TaskInv
    <3> QED
      BY <2>1, <2>3, <3>1, <3>2, InTheBackground
<1>3. CASE ~tasks[i].cancelled
  <2>1. PICK ok \in BOOLEAN :
          /\ tasks' = [tasks EXCEPT ![i].at = "done", ![i].ok = ok]
          /\ clients' = ok
          /\ failed' = ~ok
    BY <1>3 DEF ConnectTaskReturns
  <2>2. InBackground /\ UNCHANGED posted
    BY DEF ConnectTaskReturns
  <2>3. Connect(tasks[i]) /\ Connecting(tasks)
    BY <1>1, <1>3 DEF Connect, Connecting, Live
  <2>4. mLinkState = "UP"
    BY <2>3 DEF TaskInv
  <2> DEFINE t == [tasks[i] EXCEPT !.at = "done", !.ok = ok]
  <2>5. tasks' = [tasks EXCEPT ![i] = t]
    BY <2>1
  <2>6. /\ t \in Tasks /\ t.kind = tasks[i].kind /\ t.ref = tasks[i].ref
        /\ t.cancelled = tasks[i].cancelled /\ t.ok = ok /\ t.at = "done"
    BY <1>1 DEF Tasks
  <2> HIDE DEF t
  <2>7. Scalars'
    <3> USE DEF InBackground
    <3>1. States'
      BY <2>2 DEF Scalars, States, timers, ui
    <3>2. Flags'
      BY <2>1, <2>2 DEF Scalars, Flags, enabled, timers, ui
    <3>3. Data'
      BY <2>2 DEF Scalars, Data
    <3> QED
      BY <3>1, <3>2, <3>3 DEF Scalars
  <2>8. BeamInv'
    BY <2>2, <2>4 DEF InBackground, timers, ui, BeamInv, SendsWhatWasConfirmed,
           UiGoneWhenOutOfRange, TouchIsTaken, PendingHasTimer, DebounceHasTimerUnlessSent,
           WaitTimerMeansPending, UiShowsTheBeam, WaitTimersAreBeams
  <2>9. TaskInv'
    <3>1. QueueInv(tasks') /\ (Connecting(tasks') <=> Connecting(tasks)) /\ Working(tasks')
      BY <1>1, <1>3, <2>5, <2>6, QueueReplaced DEF Live
    <3>2. FailuresKept(tasks', failed')
      <4>1. CASE ok
        <5> SUFFICES ASSUME NEW j \in DOMAIN tasks', Connect(tasks'[j]), ~tasks'[j].ok
                     PROVE  FALSE
          BY DEF FailuresKept
        <5>1. j = i
          BY <1>1, <2>3, <2>5, <2>6, QueueReplaced DEF QueueInv, Connect
        <5> QED
          BY <1>1, <2>5, <2>6, <4>1, <5>1, QueueReplaced
      <4>2. CASE ~ok
        BY <2>1, <4>2 DEF FailuresKept
      <4> QED
        BY <4>1, <4>2
    <3> QED
      BY <2>2, <2>3, <3>1, <3>2 DEF TaskInv, InBackground
  <2> QED
    BY <2>7, <2>8, <2>9
<1> QED
  BY <1>2, <1>3

LEMMA ConnectPosts ==
    ASSUME Scalars, BeamInv, TaskInv, NEW i \in DOMAIN tasks, ConnectTaskPosts(i)
    PROVE  Scalars' /\ BeamInv' /\ TaskInv'
<1> DEFINE rest == RemoveAt(tasks, i)
           serves == ~tasks[i].cancelled /\ tasks[i].ok /\ mLinkState = "UP"
           resumes == serves /\ mSendState = "SENDING"
<1>1. /\ mLlcpServicesConnected' = (mLlcpServicesConnected \/ serves)
      /\ tasks' = IF resumes THEN WithSend(rest) ELSE rest
      /\ sendUi' = IF resumes /\ mInDebounce THEN "sending" ELSE sendUi
      /\ mInDebounce' = (mInDebounce /\ ~resumes)
      /\ tasks[i].at = "done"
  BY DEF ConnectTaskPosts
<1>2. UNCHANGED <<mLinkState, mLlcpConnectDelayed, clients, mSendState, mToSend, enabled, posted,
                  timers, mSending, mNdefSent, mNdefReceived, history, counts>>
  BY DEF ConnectTaskPosts
<1>3. QueueInv(tasks) /\ tasks[i] \in Tasks
  BY DEF TaskInv, QueueInv
<1>4. /\ QueueInv(rest) /\ ConnectsFrom(rest, tasks)
      /\ Connecting(tasks) /\ ~Connect(tasks[i]) => Connecting(rest)
      /\ Connect(tasks[i]) => ~Connecting(rest)
      /\ Working(tasks) /\ ~Live(tasks[i]) => Working(rest)
  BY <1>1, <1>3, QueueRemoved
<1>5. serves \in BOOLEAN /\ (serves => mLinkState = "UP")
  OBVIOUS
<1>6. Connect(tasks[i]) => serves \/ failed
  <2>1. Connect(tasks[i]) /\ ~tasks[i].ok => failed
    BY <1>1 DEF TaskInv, FailuresKept
  <2>2. Connect(tasks[i]) => mLinkState = "UP"
    BY DEF TaskInv, Connecting
  <2> QED
    BY <2>1, <2>2 DEF Connect, Live
<1>7. tasks[i].kind = "connect"
  BY <1>1, <1>3 DEF QueueInv
<1> HIDE DEF serves, rest
<1>8. Scalars'
  <2>1. States'
    BY <1>1, <1>2 DEF Scalars, States, timers
  <2>2. Flags'
    BY <1>1, <1>2, <1>5 DEF Scalars, Flags, enabled, timers, history
  <2>3. Data'
    BY <1>2 DEF Scalars, Data, history
  <2> QED
    BY <2>1, <2>2, <2>3 DEF Scalars
<1>9. BeamInv'
  BY <1>1, <1>2, <1>5 DEF timers, history, BeamInv, SendsWhatWasConfirmed, UiGoneWhenOutOfRange,
         TouchIsTaken, PendingHasTimer, DebounceHasTimerUnlessSent, WaitTimerMeansPending,
         UiShowsTheBeam, WaitTimersAreBeams
<1>10. TaskInv'
  <2>1. serves => Connect(tasks[i]) /\ ~Connecting(rest)
    BY <1>4, <1>7 DEF serves, Connect, Live
  <2>2. Connecting(rest) => Connecting(tasks)
    BY <1>4 DEF ConnectsFrom, Connecting
  <2>3. FailuresKept(rest, failed)
    BY <1>4 DEF TaskInv, ConnectsFrom, FailuresKept
  <2>4. CASE resumes
    <3>1. QueueInv(tasks') /\ ConnectsFrom(tasks', rest) /\ Working(tasks')
      BY <1>1, <1>4, <2>4, QueueSends
    <3>2. ~Connecting(tasks')
      BY <2>1, <2>4, <3>1 DEF ConnectsFrom, Connecting
    <3>3. FailuresKept(tasks', failed')
      BY <3>2 DEF FailuresKept, Connecting
    <3> QED
      BY <1>1, <1>2, <2>4, <3>1, <3>2, <3>3 DEF TaskInv, history
  <2>5. CASE ~resumes
    <3>1. tasks' = rest
      BY <1>1, <2>5
    <3>2. Live(tasks[i]) => Connect(tasks[i])
      BY <1>7 DEF Connect
    <3> QED
      BY <1>1, <1>2, <1>4, <1>5, <1>6, <2>1, <2>2, <2>3, <2>5, <3>1, <3>2 DEF TaskInv, history
  <2> QED
    BY <2>4, <2>5
<1> QED
  BY <1>8, <1>9, <1>10

\* A SendTask that goes on or ends leaves the ConnectTasks alone.
LEMMA SendTaskGoesOn ==
    ASSUME TaskInv, NEW i \in DOMAIN tasks, tasks[i].kind = "send", NEW t \in Tasks,
           tasks' = [tasks EXCEPT ![i] = t],
           t.kind = "send", t.ref = tasks[i].ref, t.cancelled = tasks[i].cancelled, t.at # "done"
    PROVE  /\ QueueInv(tasks') /\ (Connecting(tasks) <=> Connecting(tasks'))
           /\ FailuresKept(tasks', failed)
           /\ Live(t) \/ t.at = "delivered" \/ (Working(tasks) /\ tasks[i].at # "delivered") =>
                Working(tasks')
<1>1. QueueInv(tasks)
  BY DEF TaskInv
<1>2. /\ QueueInv(tasks') /\ (Connecting(tasks') <=> Connecting(tasks))
      /\ DOMAIN tasks' = DOMAIN tasks /\ tasks'[i] = t
      /\ \A j \in DOMAIN tasks : j # i => tasks'[j] = tasks[j]
      /\ Live(t) \/ t.at = "delivered" \/ (Working(tasks) /\ tasks[i].at # "delivered") =>
           Working(tasks')
  BY <1>1, QueueReplaced
<1>3. FailuresKept(tasks', failed)
  BY <1>2 DEF TaskInv, FailuresKept
<1> QED
  BY <1>2, <1>3

LEMMA SendTaskEnds ==
    ASSUME TaskInv, NEW i \in DOMAIN tasks, tasks[i].kind = "send", tasks' = RemoveAt(tasks, i)
    PROVE  /\ QueueInv(tasks') /\ (Connecting(tasks) <=> Connecting(tasks'))
           /\ FailuresKept(tasks', failed)
<1>1. QueueInv(tasks) /\ ~Connect(tasks[i])
  BY DEF TaskInv, Connect
<1>2. /\ QueueInv(tasks') /\ ConnectsFrom(tasks', tasks)
      /\ Connecting(tasks) => Connecting(tasks')
  BY <1>1, QueueRemoved
<1>3. Connecting(tasks') => Connecting(tasks)
  BY <1>2 DEF ConnectsFrom, Connecting
<1>4. FailuresKept(tasks', failed)
  BY <1>2 DEF TaskInv, ConnectsFrom, FailuresKept
<1> QED
  BY <1>2, <1>3, <1>4

LEMMA SendStarts ==
    ASSUME Scalars, BeamInv, TaskInv, NEW i \in DOMAIN tasks, SendTaskStarts(i)
    PROVE  Scalars' /\ BeamInv' /\ TaskInv'
<1>1. /\ tasks[i] \in Tasks /\ tasks[i].kind = "send" /\ tasks[i].at = "queued"
      /\ InBackground /\ UNCHANGED <<clients, posted, failed>>
  BY DEF TaskInv, QueueInv, SendTaskStarts, Runs
<1>2. failed' \in BOOLEAN /\ posted' \in Seq(Messages) /\ (Reported(posted) => Reported(posted'))
  BY <1>1 DEF Scalars, Flags, TaskInv
<1>3. CASE mLinkState = "UP" /\ mSendState = "SENDING"
  <2> DEFINE t == [tasks[i] EXCEPT !.at = "running", !.data = mToSend]
  <2>1. tasks' = [tasks EXCEPT ![i] = t]
    BY <1>3 DEF SendTaskStarts
  <2>2. /\ t \in Tasks /\ t.kind = "send" /\ t.ref = tasks[i].ref /\ t.at = "running"
        /\ t.cancelled = tasks[i].cancelled
    BY <1>1 DEF Tasks, Scalars, Data
  <2> HIDE DEF t
  <2>3. /\ QueueInv(tasks') /\ (Connecting(tasks) <=> Connecting(tasks'))
        /\ FailuresKept(tasks', failed)
        /\ Working(tasks) => Working(tasks')
    BY <1>1, <2>1, <2>2, SendTaskGoesOn
  <2> QED
    BY <1>1, <1>2, <2>3, InTheBackground
<1>4. CASE ~(mLinkState = "UP" /\ mSendState = "SENDING")
  <2>1. tasks' = RemoveAt(tasks, i)
    BY <1>4 DEF SendTaskStarts
  <2>2. /\ QueueInv(tasks') /\ (Connecting(tasks) <=> Connecting(tasks'))
        /\ FailuresKept(tasks', failed)
    BY <1>1, <2>1, SendTaskEnds
  <2> QED
    BY <1>1, <1>2, <1>4, <2>2, InTheBackground
<1> QED
  BY <1>3, <1>4

LEMMA SendRefused ==
    ASSUME Scalars, BeamInv, TaskInv, NEW i \in DOMAIN tasks, SendTaskHandoverRefused(i)
    PROVE  Scalars' /\ BeamInv' /\ TaskInv'
<1>1. /\ tasks[i] \in Tasks /\ tasks[i].kind = "send" /\ tasks[i].at = "running"
      /\ InBackground /\ UNCHANGED <<clients, failed>> /\ posted' = Append(posted, "REFUSED")
  BY DEF TaskInv, QueueInv, SendTaskHandoverRefused, Runs
<1>2. failed' \in BOOLEAN /\ posted' \in Seq(Messages) /\ Reported(posted')
  BY <1>1, Posted DEF Scalars, Flags, Messages
<1>3. CASE tasks[i].data.ndef = Null
  <2>1. tasks' = RemoveAt(tasks, i)
    BY <1>3 DEF SendTaskHandoverRefused
  <2>2. /\ QueueInv(tasks') /\ (Connecting(tasks) <=> Connecting(tasks'))
        /\ FailuresKept(tasks', failed)
    BY <1>1, <2>1, SendTaskEnds
  <2> QED
    BY <1>1, <1>2, <2>2, InTheBackground
<1>4. CASE tasks[i].data.ndef # Null
  <2> DEFINE t == [tasks[i] EXCEPT !.data.uris = Null]
  <2>1. tasks' = [tasks EXCEPT ![i] = t]
    BY <1>4 DEF SendTaskHandoverRefused
  <2>2. t \in Tasks
    <3>1. tasks[i].data \in Offers
      BY <1>1 DEF Tasks
    <3>2. [tasks[i].data EXCEPT !.uris = Null] \in Offers
      BY <3>1 DEF Offers
    <3> QED
      BY <1>1, <3>2 DEF Tasks
  <2>3. /\ t.kind = "send" /\ t.ref = tasks[i].ref /\ t.at = "running"
        /\ t.cancelled = tasks[i].cancelled
    BY <1>1 DEF Tasks
  <2> HIDE DEF t
  <2>4. /\ QueueInv(tasks') /\ (Connecting(tasks) <=> Connecting(tasks'))
        /\ FailuresKept(tasks', failed)
    BY <1>1, <2>1, <2>2, <2>3, SendTaskGoesOn
  <2> QED
    BY <1>1, <1>2, <2>4, InTheBackground
<1> QED
  BY <1>3, <1>4

LEMMA SendDelivers ==
    ASSUME Scalars, BeamInv, TaskInv, NEW i \in DOMAIN tasks, SendTaskDelivers(i)
    PROVE  Scalars' /\ BeamInv' /\ TaskInv'
<1>1. /\ tasks[i] \in Tasks /\ tasks[i].kind = "send" /\ tasks[i].at = "running"
      /\ InBackground /\ UNCHANGED <<clients, posted, failed>>
  BY DEF TaskInv, QueueInv, SendTaskDelivers, Runs
<1>2. failed' \in BOOLEAN /\ posted' \in Seq(Messages) /\ (Reported(posted) => Reported(posted'))
  BY <1>1 DEF Scalars, Flags, TaskInv
<1> DEFINE t == [tasks[i] EXCEPT !.at = "delivered"]
<1>3. tasks' = [tasks EXCEPT ![i] = t]
  BY DEF SendTaskDelivers
<1>4. /\ t \in Tasks /\ t.kind = "send" /\ t.ref = tasks[i].ref /\ t.at = "delivered"
      /\ t.cancelled = tasks[i].cancelled
  BY <1>1 DEF Tasks
<1> HIDE DEF t
<1>5. /\ QueueInv(tasks') /\ (Connecting(tasks) <=> Connecting(tasks'))
      /\ FailuresKept(tasks', failed) /\ Working(tasks')
  BY <1>1, <1>3, <1>4, SendTaskGoesOn
<1> QED
  BY <1>1, <1>2, <1>5, InTheBackground

LEMMA SendFails ==
    ASSUME Scalars, BeamInv, TaskInv, NEW i \in DOMAIN tasks, SendTaskFails(i)
    PROVE  Scalars' /\ BeamInv' /\ TaskInv'
<1>1. /\ tasks[i].kind = "send" /\ tasks' = RemoveAt(tasks, i) /\ failed' = TRUE
      /\ InBackground /\ UNCHANGED <<clients, posted>>
  BY DEF SendTaskFails, Runs
<1>2. posted' \in Seq(Messages) /\ (Reported(posted) => Reported(posted'))
  BY <1>1 DEF TaskInv
<1>3. QueueInv(tasks') /\ (Connecting(tasks) <=> Connecting(tasks'))
  BY <1>1, SendTaskEnds
<1>4. FailuresKept(tasks', failed')
  BY <1>1 DEF FailuresKept
<1> QED
  BY <1>1, <1>2, <1>3, <1>4, InTheBackground

LEMMA SendCompletes ==
    ASSUME Scalars, BeamInv, TaskInv, NEW i \in DOMAIN tasks, SendTaskCompletes(i)
    PROVE  Scalars' /\ BeamInv' /\ TaskInv'
<1>1. /\ tasks[i].kind = "send" /\ tasks' = RemoveAt(tasks, i)
      /\ InBackground /\ UNCHANGED <<clients, failed>> /\ posted' = Append(posted, "SEND_COMPLETE")
  BY DEF SendTaskCompletes, Runs
<1>2. failed' \in BOOLEAN /\ posted' \in Seq(Messages) /\ Reported(posted')
  BY <1>1, Posted DEF Scalars, Flags, Messages
<1>3. /\ QueueInv(tasks') /\ (Connecting(tasks) <=> Connecting(tasks'))
      /\ FailuresKept(tasks', failed)
  BY <1>1, SendTaskEnds
<1> QED
  BY <1>1, <1>2, <1>3, InTheBackground

-----------------------------------------------------------------------------
(* What can reach the peer. *)

\* What can reach the peer from r could from q, with the same data.
SendsFrom(r, q) ==
    \A i \in DOMAIN r : Sending(r[i]) =>
        \E j \in DOMAIN q : Sending(q[j]) /\ r[i].data = q[j].data

LEMMA SendsRemoved ==
    ASSUME NEW q \in Seq(Tasks), NEW i \in DOMAIN q
    PROVE  SendsFrom(RemoveAt(q, i), q)
<1> DEFINE r == RemoveAt(q, i)
<1>2. DOMAIN q = 1 .. Len(q) /\ Len(q) \in Nat
  OBVIOUS
<1>3. /\ DOMAIN r = 1 .. Len(q) - 1
      /\ \A j \in 1 .. Len(q) - 1 : r[j] = IF j < i THEN q[j] ELSE q[j + 1]
  BY Removed
<1> HIDE DEF r
<1>4. \A j \in DOMAIN r : \E k \in DOMAIN q : r[j] = q[k]
  BY <1>2, <1>3
<1>1. \A j \in DOMAIN RemoveAt(q, i) : \E k \in DOMAIN q : RemoveAt(q, i)[j] = q[k]
  BY <1>4 DEF r
<1> QED
  BY <1>1 DEF SendsFrom

LEMMA SendsCancelled ==
    ASSUME NEW q \in Seq(Tasks), NEW kind \in {"connect", "send"}
    PROVE  SendsFrom(Cancelled(q, kind), q)
<1> DEFINE referred == {i \in DOMAIN q : q[i].kind = kind /\ q[i].ref}
           it       == CHOOSE i \in referred : TRUE
           c        == Cancelled(q, kind)
<1>1. CASE referred = {}
  BY <1>1 DEF Cancelled, SendsFrom
<1>2. CASE referred # {} /\ q[it].at = "queued"
  <2>1. it \in DOMAIN q
    BY <1>2
  <2>2. c = RemoveAt(q, it)
    BY <1>2 DEF Cancelled
  <2> QED
    BY <2>1, <2>2, SendsRemoved
<1>3. CASE referred # {} /\ q[it].at # "queued"
  <2>1. c = [q EXCEPT ![it].cancelled = TRUE]
    BY <1>3 DEF Cancelled
  <2> HIDE DEF it, c
  <2>2. \A j \in DOMAIN q : q[j] \in Tasks
    OBVIOUS
  <2>3. DOMAIN c = DOMAIN q /\ \A j \in DOMAIN q : c[j] \in {q[j], [q[j] EXCEPT !.cancelled = TRUE]}
    BY <2>1
  <2>4. \A j \in DOMAIN q : (Sending(c[j]) => Sending(q[j])) /\ c[j].data = q[j].data
    BY <2>2, <2>3 DEF Sending, Tasks
  <2> QED
    BY <2>3, <2>4 DEF SendsFrom, c
<1> QED
  BY <1>1, <1>2, <1>3

LEMMA SendsUnreferenced ==
    ASSUME NEW q \in Seq(Tasks), NEW kind \in {"connect", "send"}
    PROVE  SendsFrom(Unreferenced(q, kind), q)
<1> DEFINE r == Unreferenced(q, kind)
<1>1. DOMAIN r = DOMAIN q /\ \A j \in DOMAIN q : r[j] \in {q[j], [q[j] EXCEPT !.ref = FALSE]}
  BY DEF Unreferenced
<1> HIDE DEF r
<1>2. \A j \in DOMAIN q : q[j] \in Tasks
  OBVIOUS
<1>3. \A j \in DOMAIN q : (Sending(r[j]) => Sending(q[j])) /\ r[j].data = q[j].data
  BY <1>1, <1>2 DEF Sending, Tasks
<1> QED
  BY <1>1, <1>3 DEF SendsFrom, r

\* A new task has taken nothing yet.
LEMMA SendsAppended ==
    ASSUME NEW q, QueueInv(q), NEW kind \in {"connect", "send"},
           \A i \in DOMAIN q : q[i].kind = kind => ~q[i].ref
    PROVE  SendsFrom(Append(q, NewTask(kind)), q)
<1>1. ~Sending(NewTask(kind))
  BY DEF Sending, NewTask
<1> QED
  BY <1>1, QueueAppended DEF SendsFrom

LEMMA SendsConnect ==
    ASSUME NEW q, QueueInv(q), ~Connecting(q)
    PROVE  SendsFrom(WithConnect(q), q)
<1> DEFINE u == Unreferenced(q, "connect")
<1>1. QueueInv(u) /\ (\A i \in DOMAIN u : u[i].kind = "connect" => ~u[i].ref)
  BY QueueUnreferenced
<1>2. SendsFrom(u, q)
  BY SendsUnreferenced DEF QueueInv
<1> HIDE DEF u
<1>3. SendsFrom(Append(u, NewTask("connect")), u)
  BY <1>1, SendsAppended
<1>4. WithConnect(q) = Append(u, NewTask("connect"))
  BY DEF WithConnect, u
<1> QED
  BY <1>2, <1>3, <1>4 DEF SendsFrom

LEMMA SendsSend ==
    ASSUME NEW q, QueueInv(q)
    PROVE  SendsFrom(WithSend(q), q)
<1> DEFINE c == Cancelled(q, "send")
           u == Unreferenced(c, "send")
<1>1. QueueInv(c)
  BY QueueCancelled
<1>2. SendsFrom(c, q)
  BY SendsCancelled DEF QueueInv
<1> HIDE DEF c
<1>3. QueueInv(u) /\ (\A i \in DOMAIN u : u[i].kind = "send" => ~u[i].ref)
  BY <1>1, QueueUnreferenced
<1>4. SendsFrom(u, c)
  BY <1>1, SendsUnreferenced DEF QueueInv
<1> HIDE DEF u
<1>5. SendsFrom(Append(u, NewTask("send")), u)
  BY <1>3, SendsAppended
<1>6. WithSend(q) = Append(u, NewTask("send"))
  BY DEF WithSend, SendCancelled, u, c
<1> QED
  BY <1>2, <1>4, <1>5, <1>6 DEF SendsFrom

\* disconnectLlcpServices closes every socket.
LEMMA SendsClosed ==
    ASSUME NEW q, QueueInv(q), NEW i \in DOMAIN ConnectCancelled(q)
    PROVE  ~Sending(ConnectCancelled(q)[i])
<1> DEFINE some == Cancelled(q, "connect")
           r    == ConnectCancelled(q)
<1>1. QueueInv(some)
  BY QueueCancelled
<1> HIDE DEF some
<1>2. r = [j \in DOMAIN some |-> IF some[j].kind = "connect" THEN [some[j] EXCEPT !.ref = FALSE]
                                 ELSE [some[j] EXCEPT !.open = FALSE]]
  BY DEF ConnectCancelled, some
<1>3. i \in DOMAIN some /\ some[i] \in Tasks
  BY <1>1, <1>2 DEF QueueInv
<1> QED
  BY <1>2, <1>3 DEF Sending, Tasks

\* What can reach the peer stays as it is, or there is nothing that could.
LEMMA SendsStay ==
    ASSUME SendInv, SendsFrom(tasks', tasks),
           \/ mLinkState # "UP" \/ mSendState \in {"NEED_CONFIRMATION", "PENDING"}
           \/ /\ UNCHANGED <<mLinkState, offered>>
              /\ mSendState' \in {"NEED_CONFIRMATION", "PENDING"} => mSendState' = mSendState
    PROVE  SendInv'
BY DEF SendInv, SendsFrom, Carries

LEMMA SameTasks == UNCHANGED tasks => SendsFrom(tasks', tasks)
BY DEF SendsFrom

LEMMA ConfirmedSends ==
    ASSUME TaskInv, BeamInv, SendInv, NEW linkState, NEW what, SendConfirmed(linkState, what),
           linkState = "WAITING_PDU" => mLinkState # "UP",
           linkState # "WAITING_PDU" => mSendState = "NEED_CONFIRMATION" /\ mLinkState = linkState,
           mLinkState # "UP" \/ mSendState = "NEED_CONFIRMATION"
    PROVE  SendInv'
<1>1. QueueInv(tasks)
  BY DEF TaskInv
<1>2. CASE tasks' = WithConnect(tasks) /\ ~Connecting(tasks)
  BY <1>1, <1>2, SendsConnect, SendsStay
<1>3. CASE tasks' = WithSend(tasks)
  BY <1>1, <1>3, SendsSend, SendsStay
<1>4. CASE tasks' = tasks
  BY <1>4, SameTasks, SendsStay
<1>5. linkState = "WAITING_PDU" => ~Connecting(tasks)
  BY DEF TaskInv
<1>6. linkState = "UP" /\ mLlcpConnectDelayed => ~Connecting(tasks)
  BY DEF TaskInv
<1> QED
  BY <1>2, <1>3, <1>4, <1>5, <1>6 DEF SendConfirmed

LEMMA LinkLostSends ==
    ASSUME TaskInv, LinkLost
    PROVE  SendInv'
<1>1. QueueInv(SendCancelled(tasks))
  BY QueueCancelled DEF TaskInv, SendCancelled
<1>2. tasks' = ConnectCancelled(SendCancelled(tasks))
  BY DEF LinkLost
<1> QED
  BY <1>1, <1>2, SendsClosed DEF SendInv

LEMMA LinkEventSends == Scalars /\ TaskInv /\ BeamInv /\ SendInv /\ LinkEvent => SendInv'
<1> SUFFICES ASSUME Scalars, TaskInv, BeamInv, SendInv, LinkEvent PROVE SendInv'
  OBVIOUS
<1>1. CASE onLlcpActivatedPending
  BY <1>1, ConfirmedSends DEF onLlcpActivatedPending
<1>2. CASE onLlcpActivatedDown
  <2>1. mLinkState = "DOWN"
        /\ \/ UNCHANGED tasks
           \/ \E o \in IF mIsSendEnabled THEN Offers ELSE {Nothing} : SendConfirmed("WAITING_PDU", o)
    BY <1>2 DEF onLlcpActivatedDown
  <2> QED
    BY <2>1, SameTasks, SendsStay, ConfirmedSends
<1>3. CASE onLlcpActivatedDebounce
  <2>1. QueueInv(tasks) /\ ~Connecting(tasks) /\ mLinkState # "UP"
    BY <1>3 DEF TaskInv, onLlcpActivatedDebounce
  <2>2. tasks' = WithConnect(tasks) \/ tasks' = tasks
    BY <1>3 DEF onLlcpActivatedDebounce
  <2> QED
    BY <2>1, <2>2, SendsConnect, SameTasks, SendsStay
<1>4. CASE onLlcpActivatedTwice
  BY <1>4, SameTasks, SendsStay DEF onLlcpActivatedTwice
<1>5. CASE onLlcpFirstPacketReceived
  <2>1. QueueInv(tasks) /\ ~Connecting(tasks) /\ mLinkState # "UP"
    BY <1>5 DEF TaskInv, onLlcpFirstPacketReceived
  <2>2. tasks' = WithConnect(tasks) \/ tasks' = tasks
    BY <1>5 DEF onLlcpFirstPacketReceived
  <2> QED
    BY <2>1, <2>2, SendsConnect, SameTasks, SendsStay
<1>6. CASE onLlcpDeactivated
  BY <1>6, LinkLostSends DEF onLlcpDeactivated
<1> QED
  BY <1>1, <1>2, <1>3, <1>4, <1>5, <1>6 DEF LinkEvent

LEMMA HandlerSends == TaskInv /\ SendInv /\ Handler => SendInv'
<1> SUFFICES ASSUME TaskInv, SendInv, Handler PROVE SendInv'
  OBVIOUS
<1>1. QueueInv(tasks) /\ tasks \in Seq(Tasks)
  BY DEF TaskInv, QueueInv
<1>2. CASE HandleReceive
  <2>1. tasks' = SendCancelled(tasks) \/ tasks' = tasks
    BY <1>2 DEF HandleReceive
  <2>2. SendsFrom(tasks', tasks)
    BY <1>1, <2>1, SendsCancelled, SameTasks DEF SendCancelled
  <2> QED
    BY <1>2, <2>2, SendsStay DEF HandleReceive, link, history
<1>3. CASE HandleSendComplete
  <2>1. SendsFrom(tasks', tasks)
    BY <1>1, <1>3, SendsUnreferenced DEF HandleSendComplete
  <2> QED
    BY <1>3, <2>1, SendsStay DEF HandleSendComplete, link, history
<1>4. CASE HandleHandoverRefused
  <2>1. SendsFrom(tasks', tasks)
    BY <1>1, <1>4, SendsUnreferenced DEF HandleHandoverRefused
  <2> QED
    BY <1>4, <2>1, SendsStay DEF HandleHandoverRefused, link, history
<1> QED
  BY <1>2, <1>3, <1>4 DEF Handler

\* A task takes what was confirmed, and at most lets go of the URIs.
LEMMA ExecutorSends ==
    ASSUME TaskInv, BeamInv, SendInv, Scalars, NEW i \in DOMAIN tasks,
           \/ ConnectTaskStarts(i) \/ ConnectTaskReturns(i) \/ ConnectTaskPosts(i)
           \/ SendTaskStarts(i) \/ SendTaskHandoverRefused(i) \/ SendTaskDelivers(i)
           \/ SendTaskFails(i) \/ SendTaskCompletes(i)
    PROVE  SendInv'
<1>1. QueueInv(tasks) /\ tasks \in Seq(Tasks) /\ \A j \in DOMAIN tasks : tasks[j] \in Tasks
  BY DEF TaskInv, QueueInv
<1>2. UNCHANGED <<mLinkState, mSendState, offered>>
  BY DEF ConnectTaskStarts, ConnectTaskReturns, ConnectTaskPosts, SendTaskStarts,
         SendTaskHandoverRefused, SendTaskDelivers, SendTaskFails, SendTaskCompletes, InBackground,
         history
<1>3. ASSUME NEW t \in Tasks, tasks' = [tasks EXCEPT ![i] = t], Sending(t) => Sending(tasks[i]),
             t.data = tasks[i].data
      PROVE  SendInv'
  BY <1>2, <1>3, SendsStay DEF SendsFrom
<1>4. CASE tasks' = RemoveAt(tasks, i)
  BY <1>1, <1>2, <1>4, SendsRemoved, SendsStay
<1>5. CASE ConnectTaskStarts(i)
  <2> DEFINE t == [tasks[i] EXCEPT !.at = "running"]
  <2>1. tasks[i].kind = "connect" /\ tasks' = [tasks EXCEPT ![i] = t]
    BY <1>5 DEF ConnectTaskStarts, Runs
  <2>2. t \in Tasks /\ ~Sending(t) /\ t.data = tasks[i].data
    BY <1>1, <2>1 DEF Tasks, Sending
  <2> QED
    BY <1>3, <2>1, <2>2
<1>6. CASE ConnectTaskReturns(i)
  <2>1. CASE tasks[i].cancelled
    BY <1>4, <1>6, <2>1 DEF ConnectTaskReturns
  <2>2. CASE ~tasks[i].cancelled
    <3>1. PICK ok \in BOOLEAN : tasks' = [tasks EXCEPT ![i].at = "done", ![i].ok = ok]
      BY <1>6, <2>2 DEF ConnectTaskReturns
    <3> DEFINE t == [tasks[i] EXCEPT !.at = "done", !.ok = ok]
    <3>2. tasks' = [tasks EXCEPT ![i] = t]
      BY <3>1
    <3>3. t \in Tasks /\ ~Sending(t) /\ t.data = tasks[i].data
      BY <1>1 DEF Tasks, Sending
    <3> QED
      BY <1>3, <3>2, <3>3
  <2> QED
    BY <2>1, <2>2
<1>7. CASE ConnectTaskPosts(i)
  <2>1. tasks' = RemoveAt(tasks, i) \/ tasks' = WithSend(RemoveAt(tasks, i))
    BY <1>7 DEF ConnectTaskPosts
  <2>2. QueueInv(RemoveAt(tasks, i)) /\ SendsFrom(RemoveAt(tasks, i), tasks)
    BY <1>1, QueueRemoved, SendsRemoved
  <2>3. SendsFrom(WithSend(RemoveAt(tasks, i)), RemoveAt(tasks, i))
    BY <2>2, SendsSend
  <2>4. SendsFrom(tasks', tasks)
    BY <2>1, <2>2, <2>3 DEF SendsFrom
  <2> QED
    BY <1>2, <2>4, SendsStay
<1>8. CASE SendTaskStarts(i)
  <2>1. CASE mLinkState = "UP" /\ mSendState = "SENDING"
    <3>1. tasks' = [tasks EXCEPT ![i].at = "running", ![i].data = mToSend]
      BY <1>8, <2>1 DEF SendTaskStarts
    <3>2. Carries(mToSend)
      BY <2>1 DEF BeamInv, SendsWhatWasConfirmed, Carries
    <3>3. DOMAIN tasks' = DOMAIN tasks /\ tasks'[i].data = mToSend
          /\ \A j \in DOMAIN tasks : j # i => tasks'[j] = tasks[j]
      BY <1>1, <3>1 DEF Tasks
    <3> QED
      BY <1>2, <2>1, <3>2, <3>3 DEF SendInv, Carries
  <2>2. CASE ~(mLinkState = "UP" /\ mSendState = "SENDING")
    BY <1>4, <1>8, <2>2 DEF SendTaskStarts
  <2> QED
    BY <2>1, <2>2
<1>9. CASE SendTaskHandoverRefused(i)
  <2>1. CASE tasks[i].data.ndef = Null
    BY <1>4, <1>9, <2>1 DEF SendTaskHandoverRefused
  <2>2. CASE tasks[i].data.ndef # Null
    <3> DEFINE t == [tasks[i] EXCEPT !.data.uris = Null]
    <3>1. tasks' = [tasks EXCEPT ![i] = t]
      BY <1>9, <2>2 DEF SendTaskHandoverRefused
    <3>2. tasks[i] \in Tasks /\ tasks[i].data \in Offers
      BY <1>1 DEF Tasks
    <3>3. /\ t.data.ndef = tasks[i].data.ndef /\ t.data.uris = Null
          /\ Sending(t) => Sending(tasks[i])
      BY <3>2 DEF Tasks, Offers, Sending
    <3> HIDE DEF t
    <3>4. DOMAIN tasks' = DOMAIN tasks /\ tasks'[i] = t
          /\ \A j \in DOMAIN tasks : j # i => tasks'[j] = tasks[j]
      BY <1>1, <3>1
    <3> QED
      BY <1>2, <3>3, <3>4 DEF SendInv, Carries
  <2> QED
    BY <2>1, <2>2
<1>10. CASE SendTaskDelivers(i)
  <2> DEFINE t == [tasks[i] EXCEPT !.at = "delivered"]
  <2>1. tasks' = [tasks EXCEPT ![i] = t]
    BY <1>10 DEF SendTaskDelivers
  <2>2. t \in Tasks /\ ~Sending(t) /\ t.data = tasks[i].data
    BY <1>1 DEF Tasks, Sending
  <2> QED
    BY <1>3, <2>1, <2>2
<1>11. CASE SendTaskFails(i) \/ SendTaskCompletes(i)
  BY <1>4, <1>11 DEF SendTaskFails, SendTaskCompletes
<1> QED
  BY <1>5, <1>6, <1>7, <1>8, <1>9, <1>10, <1>11

LEMMA SendsWereConfirmed ==
    Scalars /\ BeamInv /\ TaskInv /\ SendInv /\ [Next]_vars => SendInv'
<1> SUFFICES ASSUME Scalars, BeamInv, TaskInv, SendInv, [Next]_vars PROVE SendInv'
  OBVIOUS
<1>1. CASE LinkEvent
  BY <1>1, LinkEventSends
<1>2. CASE \E send, receive \in BOOLEAN : (send => receive) /\ enableDisable(send, receive)
  <2>1. CASE LinkLost
    BY <2>1, LinkLostSends
  <2>2. CASE UNCHANGED <<link, mSendState, mToSend, tasks, posted, timers, ui, history>>
    BY <2>2, SameTasks, SendsStay DEF link, history
  <2> QED
    BY <1>2, <2>1, <2>2 DEF enableDisable
<1>3. CASE invokeBeam
  <2>1. mLinkState # "UP" /\ UNCHANGED tasks
    BY <1>3 DEF invokeBeam, onManualBeamInvoke
  <2> QED
    BY <2>1, SameTasks, SendsStay
<1>4. CASE onSendConfirmed
  <2>1. mSendState = "NEED_CONFIRMATION"
    BY <1>4 DEF BeamInv, TouchIsTaken, onSendConfirmed
  <2>2. SendConfirmed(mLinkState, mToSend) \/ UNCHANGED tasks
    BY <1>4 DEF onSendConfirmed
  <2>3. mLinkState = "WAITING_PDU" => mLinkState # "UP"
    OBVIOUS
  <2> QED
    BY <2>1, <2>2, <2>3, ConfirmedSends, SameTasks, SendsStay
<1>5. CASE onCanceled
  BY <1>5, SameTasks, SendsStay DEF onCanceled, link, history
<1>6. CASE Timeout
  <2>1. /\ UNCHANGED <<tasks, offered>> /\ (mLinkState = "UP" => UNCHANGED mLinkState)
        /\ mSendState' \in {mSendState, "NOTHING_TO_SEND"}
    BY <1>6 DEF Timeout, WaitTimerDue, WaitForLinkTimeout, DebounceTimerDue, DebounceTimeout, link,
                history
  <2> QED
    BY <2>1, SameTasks, SendsStay
<1>7. CASE Handler
  BY <1>7, HandlerSends
<1>8. CASE PeerPushes
  BY <1>8, SameTasks, SendsStay DEF PeerPushes, link, history
<1>9. CASE Executor
  BY <1>9, ExecutorSends DEF Executor
<1>10. CASE UNCHANGED vars
  BY <1>10, SameTasks, SendsStay DEF vars, link, history
<1> QED
  BY <1>1, <1>2, <1>3, <1>4, <1>5, <1>6, <1>7, <1>8, <1>9, <1>10 DEF Next, BinderCall

-----------------------------------------------------------------------------
(* The theorems. *)

LEMMA NextInv == IndInv /\ [Next]_vars => IndInv'
<1> SUFFICES ASSUME IndInv, [Next]_vars PROVE IndInv'
  OBVIOUS
<1>1. Scalars /\ BeamInv /\ TaskInv /\ SendInv
  BY IndInvParts
<1>2. Scalars' /\ BeamInv' /\ TaskInv'
  <2>1. CASE LinkEvent
    BY <1>1, <2>1, ActivatedPending, ActivatedDown, ActivatedDebounce, ActivatedTwice,
       FirstPacketReceived, Deactivated DEF LinkEvent
  <2>2. CASE \E send, receive \in BOOLEAN : (send => receive) /\ enableDisable(send, receive)
    BY <1>1, <2>2, EnablesDisables
  <2>3. CASE invokeBeam
    BY <1>1, <2>3, ManualBeam DEF invokeBeam
  <2>4. CASE onSendConfirmed
    BY <1>1, <2>4, ConfirmsSend
  <2>5. CASE onCanceled
    BY <1>1, <2>5, Cancels
  <2>6. CASE Timeout
    BY <1>1, <2>6, WaitIsDue, WaitTimesOut, DebounceIsDue, DebounceTimesOut DEF Timeout
  <2>7. CASE Handler
    BY <1>1, <2>7, HandlesReceive, HandlesSendComplete, HandlesHandoverRefused DEF Handler
  <2>8. CASE PeerPushes
    BY <1>1, <2>8, PeerHasPushed
  <2>9. CASE Executor
    BY <1>1, <2>9, ConnectStarts, ConnectReturns, ConnectPosts, SendStarts, SendRefused,
       SendDelivers, SendFails, SendCompletes DEF Executor
  <2>10. CASE UNCHANGED vars
    <3> USE <2>10 DEF vars, link, enabled, timers, ui, history
    <3>1. Scalars'
      BY <1>1 DEF Scalars, States, Flags, Data
    <3>2. BeamInv'
      BY <1>1 DEF BeamInv, SendsWhatWasConfirmed, UiGoneWhenOutOfRange,
         TouchIsTaken, PendingHasTimer, DebounceHasTimerUnlessSent, WaitTimerMeansPending,
         UiShowsTheBeam, WaitTimersAreBeams
    <3>3. TaskInv'
      BY <1>1 DEF TaskInv
    <3> QED
      BY <3>1, <3>2, <3>3
  <2> QED
    BY <2>1, <2>2, <2>3, <2>4, <2>5, <2>6, <2>7, <2>8, <2>9, <2>10 DEF Next, BinderCall
<1>3. SendInv'
  BY <1>1, SendsWereConfirmed
<1>4. (Scalars /\ BeamInv /\ TaskInv /\ SendInv => IndInv)'
  BY IndInvParts, PTL
<1> QED
  BY <1>2, <1>3, <1>4

\* The link, the tasks, the screens and the timers fit together in every state.
THEOREM Invariance == Spec => []IndInv
BY InitInv, NextInv, PTL DEF Spec

\* Every variable keeps its type, the queues of tasks and of messages included.
THEOREM TypeCorrect == Spec => []TypeOK
<1>1. IndInv => TypeOK
  BY DEF IndInv
<1> QED
  BY <1>1, Invariance, PTL

\* What is being sent is what was last confirmed (P2pLinkManager.onP2pSendConfirmed), over
\* lost links, second taps and manual beams, and never while the link is down.
THEOREM SendsTheOffer == Spec => []SendsWhatWasConfirmed
<1>1. IndInv => SendsWhatWasConfirmed
  BY DEF IndInv
<1> QED
  BY <1>1, Invariance, PTL

\* What can reach the peer carries what was confirmed last, and a send over a link that is up
\* has a task that works on it or a result on its way, until an attempt fails or an activation
\* too many drops the connect that waited for the user (P2pLinkManager.java:468).
THEOREM SendsGoOn == Spec => []SendingIsUnderway
<1>1. IndInv => SendingIsUnderway
  BY DEF IndInv
<1> QED
  BY <1>1, Invariance, PTL

\* LLCP clients are assigned and services connected only while the link is up, and at most
\* one ConnectTask that is not cancelled is at work, for that link.
THEOREM OneConnection == Spec => []ConnectsForTheLink
<1>1. IndInv => ConnectsForTheLink
  BY DEF IndInv
<1> QED
  BY <1>1, Invariance, PTL

\* SendUi belongs to a beam: it is gone with the link unless a manual beam waits, and what
\* it asks the user is what the manager waits for.
THEOREM ScreensBelongToBeams == Spec => [](UiGoneWhenOutOfRange /\ TouchIsTaken)
<1>1. IndInv => UiGoneWhenOutOfRange /\ TouchIsTaken
  BY DEF IndInv
<1> QED
  BY <1>1, Invariance, PTL

\* A beam that waits for its link, and a lost link that may come back, have a timeout
\* scheduled or being handled, or were sent: none of them waits for ever.
THEOREM WaitsHaveTimers == Spec => [](PendingHasTimer /\ DebounceHasTimerUnlessSent)
<1>1. IndInv => PendingHasTimer /\ DebounceHasTimerUnlessSent
  BY DEF IndInv
<1> QED
  BY <1>1, Invariance, PTL

=============================================================================
