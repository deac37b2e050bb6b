---------------------------- MODULE LibNfcProofs ----------------------------
(***************************************************************************)
(* Proofs about LibNfc, for every number of targets, calls, failures and    *)
(* connections.                                                             *)
(***************************************************************************)
EXTENDS LibNfc, TLAPS

\* What IndInv says of the threads, the mutex and the callbacks that are due.
ThreadsInv == TypeOK /\ WaitersHoldTheLock /\ AnswersAreAwaited

\* A step of thread t: the record and the place of the others stay, and the
\* mutex goes from or to t.
Moves(t) ==
  /\ th' \in [Threads -> Calls] /\ (\A u \in Threads \ {t} : th'[u] = th[u])
  /\ lock' \in Threads \cup {"none"} /\ (lock' = lock \/ lock \in {"none", t})
  /\ t # "sock" /\ th'[t].at \in {"wait", "killing"} => lock' = t
  /\ jobs' \subseteq Jobs

\* That a download gave up its wait is not forgotten; Stray after the step.
LateStays == loop.late => loop'.late
StrayThen(j) == j = Astray \/ (loop'.late /\ j.op = "update")

\* Nothing that is due is for t, but stray answers.
NothingDue(t) == \A j \in jobs : j.to = t => StrayThen(j)

\* Nothing that is due is for t; what becomes due for a thread is what t asked
\* for and waits for.
Awaits(t) ==
  /\ LateStays /\ NothingDue(t)
  /\ \A j \in jobs' \ jobs : j.to \in Threads =>
       \/ StrayThen(j)
       \/ /\ j.to = t /\ j.op = Frame(th'[t]) /\ j.req = th'[t].req
          /\ th'[t].at = "wait" /\ th'[t].sem = <<>>
  /\ (loop'.late /\ Frame(th'[t]) = "update") \/ th'[t].sem \in {<<>>, <<th'[t].req>>}
  /\ th'[t].sem # <<>> \/ Frame(th'[t]) = "update" => th'[t].at \in {"wait", "killing"}

LEMMA MovesKeep ==
    ASSUME ThreadsInv, NEW t \in Threads, Moves(t), Awaits(t)
    PROVE  WaitersHoldTheLock' /\ AnswersAreAwaited'
<1> USE DEF ThreadsInv
<1>1. WaitersHoldTheLock'
  BY DEF WaitersHoldTheLock, Moves, Threads
<1>2. \A u \in Threads \ {t} : th'[u] = th[u]
  BY DEF Moves
<1>3. CallbacksFindTheirCall /\ OneAtATime
  BY DEF AnswersAreAwaited
<1>4. \A u \in Threads :
         th'[u].sem # <<>> \/ Frame(th'[u]) = "update" => th'[u].at \in {"wait", "killing"}
  BY <1>2 DEF AnswersAreAwaited, Awaits
<1>5. \A j \in jobs' : j.to \in Threads /\ ~StrayThen(j) =>
         /\ Frame(th'[j.to]) = j.op /\ j # Astray
         /\ th'[j.to].at = "wait" /\ th'[j.to].req = j.req /\ th'[j.to].sem = <<>>
  <2> SUFFICES ASSUME NEW j \in jobs', j.to \in Threads, ~StrayThen(j)
               PROVE  /\ Frame(th'[j.to]) = j.op /\ j # Astray
                      /\ th'[j.to].at = "wait" /\ th'[j.to].req = j.req /\ th'[j.to].sem = <<>>
    OBVIOUS
  <2>1. CASE j \in jobs
    <3>1. j.to # t /\ ~Stray(j) /\ th'[j.to] = th[j.to]
      BY <1>2, <2>1 DEF Awaits, NothingDue, LateStays, StrayThen, Stray
    <3> QED
      BY <1>3, <2>1, <3>1 DEF CallbacksFindTheirCall, Finds
  <2>2. CASE j \notin jobs
    BY <2>2 DEF Awaits, StrayThen
  <2> QED
    BY <2>1, <2>2
<1>6. \A u \in Threads :
         ~(loop'.late /\ Frame(th'[u]) = "update") => th'[u].sem \in {<<>>, <<th'[u].req>>}
  BY <1>2, <1>3 DEF CallbacksFindTheirCall, Disturbed, Awaits, LateStays
<1>7. CallbacksFindTheirCall'
  BY <1>5, <1>6 DEF CallbacksFindTheirCall, Finds, Stray, StrayThen, Disturbed
<1>8. \A j \in jobs' : j.to \in {"svc", "tag"} /\ ~StrayThen(j) => lock' = j.to
  <2> SUFFICES ASSUME NEW j \in jobs', j.to \in {"svc", "tag"}, ~StrayThen(j) PROVE lock' = j.to
    OBVIOUS
  <2>1. CASE j \in jobs
    <3>1. j.to # t /\ ~Stray(j)
      BY <2>1 DEF Awaits, NothingDue, LateStays, StrayThen, Stray
    <3> QED
      BY <1>3, <2>1, <3>1 DEF OneAtATime, Moves, Threads
  <2>2. CASE j \notin jobs
    BY <2>2 DEF Awaits, Moves, Threads
  <2> QED
    BY <2>1, <2>2
<1>9. OneAtATime'
  BY <1>8 DEF OneAtATime, Stray, StrayThen
<1> QED
  BY <1>1, <1>4, <1>7, <1>9 DEF AnswersAreAwaited

\* A thread where it goes on: the mutex is free for it, or its semaphore was
\* posted.
GoesOn(t) == (th[t].at = "lock" /\ lock = "none") \/ (th[t].at = "wait" /\ th[t].sem # <<>>)

\* A thread that goes on, is outside the mutex, or gave its wait up.
MayAct(t) ==
  GoesOn(t) \/ th[t].at \notin {"lock", "wait"} \/ (th[t].at = "wait" /\ NothingDue(t))

LEMMA NothingIsDue ==
    ASSUME ThreadsInv, NEW t \in Threads, MayAct(t), LateStays
    PROVE  NothingDue(t) /\ (t # "sock" /\ GoesOn(t) => lock \in {"none", t})
<1>1. t # "sock" /\ GoesOn(t) => lock \in {"none", t}
  BY DEF ThreadsInv, WaitersHoldTheLock, GoesOn, Threads
<1>2. CASE GoesOn(t) \/ th[t].at \notin {"lock", "wait"}
  <2> SUFFICES ASSUME NEW j \in jobs, j.to = t PROVE StrayThen(j)
    BY <1>1 DEF NothingDue
  <2>1. ~Stray(j) => th[t].at = "wait" /\ th[t].sem = <<>>
    BY DEF ThreadsInv, AnswersAreAwaited, CallbacksFindTheirCall
  <2>2. Stray(j)
    BY <1>2, <2>1 DEF GoesOn
  <2> QED
    BY <2>2 DEF LateStays, StrayThen, Stray
<1> QED
  BY <1>1, <1>2 DEF MayAct

\* Only the initialization has a second frame.
LEMMA Frames ==
    ASSUME NEW f PROVE /\ f.op # "initialize" => Frame(f) = f.op
                       /\ Frame(f) \in {f.op, "update"}
                       /\ f.req \notin {"deinit", "load", "init"} => Frame(f) = f.op
                       /\ f.op \in Methods \cup {"none"} => f.op # "update"
BY DEF Frame, Methods, ServiceOps, TagMethods, PeerMethods, SocketMethods, PlainTagOps, SocketOps

LEMMA ConsumedRecord ==
    ASSUME NEW f \in Calls
    PROVE  /\ Consumed(f) \in Calls
           /\ Consumed(f).op = f.op /\ Consumed(f).at = f.at /\ Consumed(f).req = f.req
           /\ Consumed(f).id = f.id /\ Consumed(f).n = f.n /\ Consumed(f).ok = f.ok
           /\ f.sem \in {<<>>, <<f.req>>} => Consumed(f).sem = <<>>
BY DEF Consumed, Calls

LEMMA IdleRecord ==
    /\ Idle \in Calls /\ Idle.at = "idle" /\ Idle.op = "none" /\ Idle.sem = <<>>
    /\ Frame(Idle) = "none"
<1>1. 0 \in Ids /\ 0 \in 0 .. 3 /\ <<>> \in Seq(Requests)
  BY BoundsAssumption DEF Ids
<1>2. Idle \in Calls
  BY <1>1 DEF Idle, Calls
<1> QED
  BY <1>2 DEF Idle, Frame

Loops == [alive : Nat, running : BOOLEAN, late : BOOLEAN]

\* What a step leaves of the loop's concern: a thread other than the service's
\* moved, or the service in a method that neither starts nor stops the stack.
LeavesTheLoop ==
  /\ loop' = loop /\ drv'.conf = drv.conf /\ drv'.on = drv.on
  /\ KillMessage \in jobs' => KillMessage \in jobs
  /\ \/ th'["svc"] = th["svc"]
     \/ /\ th["svc"].op \notin {"initialize", "download", "deinitialize"}
        /\ th'["svc"].op \in {th["svc"].op, "none"}
        /\ th["svc"].at # "killing" /\ th'["svc"].at # "killing"

LEMMA LoopLeft ==
    ASSUME LoopFollowsTheService, OneLoopServesTheStack, LeavesTheLoop, TypeOK
    PROVE  LoopFollowsTheService' /\ OneLoopServesTheStack'
<1>1. LoopFollowsTheService'
  BY DEF LoopFollowsTheService, LeavesTheLoop, KillMessage, Job
<1> QED
  BY <1>1 DEF LoopFollowsTheService, LeavesTheLoop, OneLoopServesTheStack, TypeOK

LEMMA JobIsOne ==
    ASSUME NEW t \in Threads, NEW r \in Requests, NEW op \in Methods \cup {"update"}
    PROVE  /\ Job(r, t, op) \in Answers /\ Job(r, t, op) \in Jobs /\ Job(r, t, op) # KillMessage
           /\ Job(r, t, op).to = t /\ Job(r, t, op).op = op /\ Job(r, t, op).req = r
           /\ Job(r, t, op).n = 0
<1>1. Job(r, t, op) = [req |-> r, to |-> t, op |-> op, n |-> 0]
  BY DEF Job
<1>2. KillMessage.to = "loop" /\ "loop" \notin Threads
  BY DEF KillMessage, Job, Threads
<1>3. Job(r, t, op) \in Answers
  BY <1>1 DEF Answers
<1> QED
  BY <1>1, <1>2, <1>3 DEF Jobs

\* What is due to a thread, by its fields.
LEMMA AnswerFields ==
    ASSUME NEW j \in Jobs
    PROVE  /\ j.to \in Threads => j \in Answers /\ j.req \in Requests
           /\ j.req = "checkNdef" => j.to \in Threads
           /\ j.n \in Nat
BY DEF Jobs, Answers, News, Threads, KillMessage, Job

LEMMA SameAnswer ==
    ASSUME NEW j \in Answers, NEW k \in Answers, j.to = k.to, j.op = k.op, j.req = k.req
    PROVE  j = k
BY DEF Answers

LEMMA StrayJob ==
    /\ Astray \in Jobs /\ Astray # KillMessage /\ Astray.to = "svc" /\ "svc" \in Threads
    /\ Astray.op = "seOpen" /\ Astray.req = "found"
<1>1. "svc" \in Threads /\ "found" \in Requests /\ "seOpen" \in Methods
  BY DEF Threads, Requests, Methods, ServiceOps
<1> QED
  BY <1>1, JobIsOne DEF Astray

\* The mutex is or becomes the thread's that waits now.
Holds(t) ==
  \/ lock' = t /\ lock \in {"none", t}
  \/ t = "sock" /\ lock' = lock

\* A thread makes a request and waits for its answer.
LEMMA Asked ==
    ASSUME ThreadsInv, NEW t \in Threads, MayAct(t), Holds(t), LateStays, NEW f \in Calls,
           f.req \in Requests, f.op \in Methods, f.at = "wait",
           f.sem = <<>> \/ (loop'.late /\ Frame(f) = "update"),
           th' = [th EXCEPT ![t] = f],
           jobs' = jobs \/ jobs' = jobs \cup {Job(f.req, t, Frame(f))}
    PROVE  /\ Moves(t) /\ Awaits(t) /\ th'[t] = f
           /\ KillMessage \in jobs' => KillMessage \in jobs
<1> DEFINE j == Job(f.req, t, Frame(f))
<1>1. th \in [Threads -> Calls]
  BY DEF ThreadsInv, TypeOK
<1>2. /\ j \in Jobs /\ j.to = t /\ j.op = Frame(f) /\ j.req = f.req /\ j # KillMessage
      /\ jobs' = jobs \/ jobs' = jobs \cup {j}
  BY JobIsOne, Frames
<1> HIDE DEF j
<1>3. th' \in [Threads -> Calls] /\ th'[t] = f /\ (\A u \in Threads \ {t} : th'[u] = th[u])
  BY <1>1
<1>4. Moves(t)
  BY <1>2, <1>3 DEF Moves, Holds, ThreadsInv, TypeOK
<1>5. Awaits(t)
  BY <1>2, <1>3, NothingIsDue DEF Awaits, StrayThen
<1> QED
  BY <1>2, <1>3, <1>4, <1>5

\* libnfc takes a request of a thread that goes on.
Asks(t, r) ==
  /\ th' = [th EXCEPT ![t] = [Consumed(@) EXCEPT !.at = "wait", !.req = r]]
  /\ jobs' = jobs \cup {Job(r, t, th[t].op)}

LEMMA Pends ==
    ASSUME ThreadsInv, NEW t \in Threads, MayAct(t), Holds(t), LateStays, NEW r \in Requests,
           Asks(t, r), th[t].op \in Methods \ {"initialize"}
    PROVE  /\ Moves(t) /\ Awaits(t)
           /\ th'[t].op = th[t].op /\ th'[t].at = "wait" /\ th'[t].sem = <<>>
           /\ KillMessage \in jobs' => KillMessage \in jobs
<1> DEFINE f == [Consumed(th[t]) EXCEPT !.at = "wait", !.req = r]
<1>1. th[t] \in Calls /\ th[t].sem \in {<<>>, <<th[t].req>>}
  BY Frames DEF ThreadsInv, TypeOK, AnswersAreAwaited, CallbacksFindTheirCall, Disturbed
<1>2. Consumed(th[t]) \in Calls /\ Consumed(th[t]).op = th[t].op /\ Consumed(th[t]).sem = <<>>
  BY <1>1, ConsumedRecord
<1>3. f \in Calls /\ f.op = th[t].op /\ f.at = "wait" /\ f.req = r /\ f.sem = <<>>
  BY <1>2 DEF Calls
<1>4. th' = [th EXCEPT ![t] = f]
  BY DEF Asks
<1> HIDE DEF f
<1>5. jobs' = jobs \cup {Job(f.req, t, Frame(f))}
  BY <1>3, Frames DEF Asks
<1> QED
  BY <1>3, <1>4, <1>5, Asked

\* A method returns.
LEMMA Ends ==
    ASSUME ThreadsInv, NEW t \in Threads, MayAct(t), Returns(t), LateStays, jobs' \subseteq Jobs,
           \A k \in jobs' \ jobs : k.to \notin Threads
    PROVE  Moves(t) /\ Awaits(t) /\ th'[t] = Idle
<1>1. th' \in [Threads -> Calls] /\ th'[t] = Idle /\ (\A u \in Threads \ {t} : th'[u] = th[u])
  BY IdleRecord DEF Returns, ThreadsInv, TypeOK
<1>2. Moves(t)
  BY <1>1, IdleRecord DEF Moves, Returns, ThreadsInv, TypeOK
<1> QED
  BY <1>1, <1>2, IdleRecord, NothingIsDue DEF Awaits

\* A thread goes on inside its method without asking for anything.
LEMMA Proceeds ==
    ASSUME ThreadsInv, NEW t \in Threads, MayAct(t), LateStays, jobs' = jobs, NEW f \in Calls,
           th' = [th EXCEPT ![t] = f], f.sem = <<>>,
           f.op # "initialize" \/ f.req = "none",
           lock' \in Threads \cup {"none"}, lock' = lock \/ lock \in {"none", t},
           t # "sock" /\ f.at \in {"wait", "killing"} => lock' = t
    PROVE  Moves(t) /\ Awaits(t) /\ th'[t] = f
<1>1. th' \in [Threads -> Calls] /\ th'[t] = f /\ (\A u \in Threads \ {t} : th'[u] = th[u])
  BY DEF ThreadsInv, TypeOK
<1>2. Moves(t)
  BY <1>1 DEF Moves, ThreadsInv, TypeOK
<1>3. Frame(f) # "update"
  BY Frames DEF Calls
<1> QED
  BY <1>1, <1>2, <1>3, NothingIsDue DEF Awaits

-----------------------------------------------------------------------------
(* The rest of the state. *)

Drivers == [conf : BOOLEAN, stack : BOOLEAN, on : BOOLEAN, ntf : {"none", "nat", "se"},
            poll : {"off", "on", "held"}]
Targets == [near : Ids, told : Ids, conn : Ids, flag : BOOLEAN, buf : Ids, kinds : Seq(Kinds),
            lost : BOOLEAN]
Links == [link : {"down", "up", "falling"}, clients : Seq(Nat), woken : BOOLEAN]
Counts == [calls : Nat, fails : Nat, found : Ids, clients : Nat, svc : Nat]

OthersOK ==
  /\ loop \in Loops /\ drv \in Drivers /\ tgt \in Targets
  /\ llcp \in Links /\ dead \in BOOLEAN /\ cnt \in Counts

LEMMA StepKeeps ==
    ASSUME IndInv, NEW t \in Threads, Moves(t), Awaits(t), OthersOK',
           LoopFollowsTheService'
    PROVE  IndInv'
<1>1. WaitersHoldTheLock' /\ AnswersAreAwaited'
  BY MovesKeep DEF IndInv, ThreadsInv
<1>2. TypeOK'
  BY DEF Moves, OthersOK, TypeOK, Drivers, Targets, Links, Counts, Loops
<1>3. OneLoopServesTheStack'
  BY DEF LoopFollowsTheService, OneLoopServesTheStack, OthersOK
<1> QED
  BY <1>1, <1>2, <1>3 DEF IndInv

LEMMA Parts ==
    ASSUME IndInv
    PROVE  /\ ThreadsInv /\ OthersOK /\ TypeOK /\ LoopFollowsTheService
           /\ OneLoopServesTheStack /\ jobs \subseteq Jobs
BY DEF IndInv, ThreadsInv, OthersOK, TypeOK, Drivers, Targets, Links, Counts, Loops

\* What a step of a method that neither starts nor stops the stack may change.
Elsewhere ==
  /\ loop' = loop /\ drv' \in Drivers /\ drv'.conf = drv.conf /\ drv'.on = drv.on
  /\ tgt' \in Targets /\ llcp' \in Links /\ dead' \in BOOLEAN /\ cnt' \in Counts

\* A method that neither starts nor stops the stack.
Plain(op) == op \in Methods \ {"initialize", "download", "deinitialize"}

LEMMA LateElsewhere == Elsewhere => LateStays
BY DEF Elsewhere, LateStays

LEMMA StepLeaves ==
    ASSUME IndInv, NEW t \in Threads, Moves(t), Awaits(t), Elsewhere,
           KillMessage \in jobs' => KillMessage \in jobs,
           t = "svc" => /\ Plain(th[t].op) /\ th[t].at # "killing"
                        /\ th'[t].op \in {th[t].op, "none"} /\ th'[t].at # "killing"
    PROVE  IndInv'
<1>1. OthersOK'
  BY Parts DEF Elsewhere, OthersOK
<1>2. LeavesTheLoop
  BY DEF LeavesTheLoop, Elsewhere, Moves, Plain, Threads
<1> QED
  BY <1>1, <1>2, Parts, LoopLeft, StepKeeps

LEMMA PlainAsks ==
    ASSUME IndInv, NEW t \in Threads, MayAct(t), Holds(t), NEW r \in Requests, Asks(t, r),
           Plain(th[t].op), Elsewhere, th[t].at # "killing"
    PROVE  IndInv'
<1>1. th[t].op \in Methods \ {"initialize"} /\ LateStays
  BY LateElsewhere DEF Plain
<1>2. /\ Moves(t) /\ Awaits(t) /\ th'[t].op = th[t].op /\ th'[t].at = "wait"
      /\ KillMessage \in jobs' => KillMessage \in jobs
  BY <1>1, Parts, Pends
<1> QED
  BY <1>2, StepLeaves

\* The method that returns may have brought about news.
LEMMA PlainEnds ==
    ASSUME IndInv, NEW t \in Threads, MayAct(t), Returns(t), jobs' \subseteq jobs \cup News,
           Plain(th[t].op), Elsewhere, th[t].at # "killing"
    PROVE  IndInv'
<1>1. /\ jobs' \subseteq Jobs /\ (\A k \in jobs' \ jobs : k.to \notin Threads)
      /\ KillMessage \in jobs' => KillMessage \in jobs
  BY Parts DEF Jobs, News, Threads, KillMessage, Job
<1>2. Moves(t) /\ Awaits(t) /\ th'[t] = Idle
  BY <1>1, Parts, Ends, LateElsewhere
<1> QED
  BY <1>1, <1>2, IdleRecord, StepLeaves

LEMMA PlainProceeds ==
    ASSUME IndInv, NEW t \in Threads, MayAct(t), jobs' = jobs, NEW f \in Calls,
           th' = [th EXCEPT ![t] = f], f.sem = <<>>, f.op # "initialize",
           lock' \in Threads \cup {"none"}, lock' = lock \/ lock \in {"none", t},
           t # "sock" /\ f.at \in {"wait", "killing"} => lock' = t,
           t = "svc" => /\ Plain(th[t].op) /\ th[t].at # "killing"
                        /\ f.op = th[t].op /\ f.at # "killing",
           Elsewhere
    PROVE  IndInv'
<1>1. Moves(t) /\ Awaits(t) /\ th'[t] = f
  BY Parts, Proceeds, LateElsewhere
<1> QED
  BY <1>1, StepLeaves

\* No thread moves: the process dies in a method, or there is news.
LEMMA ThreadsStay ==
    ASSUME IndInv, th' = th, jobs' \subseteq jobs \cup News \cup {Astray}, Elsewhere,
           lock' = lock \/ (lock = "none" /\ lock' \in Threads)
    PROVE  IndInv'
<1> USE Parts
<1>1. /\ jobs' \subseteq Jobs /\ (\A k \in jobs' \ jobs : k.to \notin Threads \/ k = Astray)
      /\ KillMessage \in jobs' => KillMessage \in jobs
  <2>1. Astray \in Jobs /\ Astray # KillMessage
    BY StrayJob
  <2> QED
    BY <2>1 DEF Jobs, News, Threads, KillMessage, Job
<1>2. OthersOK' /\ LeavesTheLoop
  BY <1>1 DEF LeavesTheLoop, Elsewhere, OthersOK
<1>3. TypeOK'
  BY <1>1, <1>2 DEF OthersOK, TypeOK, Drivers, Targets, Links, Counts, Loops
<1>4. WaitersHoldTheLock'
  BY DEF WaitersHoldTheLock, ThreadsInv, Threads
<1>5. AnswersAreAwaited'
  <2>1. CallbacksFindTheirCall /\ OneAtATime
    BY DEF ThreadsInv, AnswersAreAwaited
  <2>2. loop'.late = loop.late
    BY DEF Elsewhere
  <2>3. CallbacksFindTheirCall'
    BY <1>1, <2>1, <2>2 DEF CallbacksFindTheirCall, Finds, Stray, Disturbed
  <2>4. OneAtATime'
    BY <1>1, <2>1, <2>2 DEF OneAtATime, Threads, Stray
  <2> QED
    BY <2>3, <2>4 DEF ThreadsInv, AnswersAreAwaited
<1> QED
  BY <1>2, <1>3, <1>4, <1>5, LoopLeft DEF IndInv

LEMMA Refused ==
    ASSUME OthersOK, NEW r, Refuses(r) PROVE cnt' \in Counts
BY DEF OthersOK, Refuses, Counts

LEMMA Taken ==
    ASSUME OthersOK, NEW t, NEW r, Pending(t, r) PROVE Asks(t, r) /\ cnt' = cnt /\ cnt' \in Counts
BY DEF OthersOK, Pending, Asks

\* The beginning of a method, and its going on with an answer.
LEMMA AtTheMutex ==
    ASSUME NEW t, NEW op, NEW stage, Gets(t, op, stage)
    PROVE  MayAct(t) /\ lock = "none" /\ th[t].op = op /\ th[t].at = "lock" /\ ~dead
BY DEF Gets, MayAct, GoesOn

LEMMA AtTheAnswer ==
    ASSUME IndInv, NEW t \in {"svc", "tag"}, NEW op, NEW r, Woken(t, op, r)
    PROVE  /\ MayAct(t) /\ lock = t /\ th[t].op = op /\ th[t].at = "wait" /\ th[t].req = r /\ ~dead
           /\ th[t].sem # <<>> /\ t \in Threads
BY Parts DEF ThreadsInv, WaitersHoldTheLock, Woken, MayAct, GoesOn, Threads

LEMMA Same ==
    ASSUME OthersOK, UNCHANGED loop,
           drv' = drv \/ (drv' \in Drivers /\ drv'.conf = drv.conf /\ drv'.on = drv.on),
           tgt' = tgt \/ tgt' \in Targets, llcp' = llcp \/ llcp' \in Links,
           dead' = dead \/ dead' = TRUE, cnt' = cnt \/ cnt' \in Counts
    PROVE  Elsewhere
BY DEF OthersOK, Elsewhere

-----------------------------------------------------------------------------
(* Methods of one request. *)

LEMMA OneRequestKeeps ==
    ASSUME IndInv, NEW t \in {"svc", "tag"}, NEW op \in Requests, Plain(op), OneRequest(t, op)
    PROVE  IndInv'
<1>1. MayAct(t) /\ lock = "none" /\ th[t].op = op /\ th[t].at = "lock" /\ t \in Threads
  BY AtTheMutex DEF OneRequest, Threads
<1>2. CASE Pending(t, op) /\ lock' = t
  BY <1>1, <1>2, Parts, Taken, Same, PlainAsks DEF OneRequest, Holds
<1>3. CASE Refuses(op) /\ Returns(t) /\ UNCHANGED jobs
  BY <1>1, <1>3, Parts, Refused, Same, PlainEnds DEF OneRequest
<1> QED
  BY <1>2, <1>3 DEF OneRequest

LEMMA AnsweredKeeps ==
    ASSUME IndInv, NEW t \in {"svc", "tag"}, NEW op, Plain(op), NEW r, Woken(t, op, r),
           Returns(t), UNCHANGED jobs, Elsewhere
    PROVE  IndInv'
BY AtTheAnswer, PlainEnds

LEMMA PlainMethods ==
    /\ \A op \in TagMethods \cup PeerMethods \cup SocketMethods : Plain(op) /\ op \in Requests
    /\ \A op \in ServiceOps \ {"initialize", "download", "deinitialize"} : Plain(op)
    /\ {"init", "load", "mem", "llcpConfig", "deinit", "configure", "stop", "seOn", "seOff",
        "seTransceive", "seField", "seWired", "seFound", "seConnect", "seRead", "seWrite",
        "seRelease"} \subseteq Requests
<1>1. /\ TagMethods \cup PeerMethods \cup SocketMethods \cup ServiceOps \subseteq Methods
      /\ TagMethods \cup PeerMethods \cup SocketMethods \subseteq Requests
  BY DEF Methods, Requests
<1>2. \A op \in TagMethods \cup PeerMethods \cup SocketMethods :
         op \notin {"initialize", "download", "deinitialize"}
  BY DEF TagMethods, PeerMethods, SocketMethods, PlainTagOps, SocketOps
<1> QED
  BY <1>1, <1>2 DEF Plain, Requests

-----------------------------------------------------------------------------
(* Discovery. *)

\* Names of methods and of requests, where one is asked for.
LEMMA DiscoveryMethods ==
    /\ Plain("enableDiscovery") /\ Plain("readerMode") /\ Plain("disableDiscovery")
    /\ Plain("timeout")
    /\ "configure" \in Requests /\ "stop" \in Requests
BY DEF Plain, Methods, ServiceOps, Requests

LEMMA StartsDiscoveryKeeps ==
    ASSUME IndInv, NEW t \in {"svc", "tag"}, MayAct(t), lock = "none", lock' = t, Plain(th[t].op),
           th[t].at = "lock", StartsDiscovery(t),
           drv' = drv \/ (drv' \in Drivers /\ drv'.conf = drv.conf /\ drv'.on = drv.on)
    PROVE  IndInv'
<1>1. t \in Threads /\ OthersOK
  BY Parts DEF Threads
<1>2. CASE /\ Pending(t, "configure") /\ tgt' = [tgt EXCEPT !.flag = FALSE]
           /\ UNCHANGED <<loop, llcp, dead>>
  <2>1. Asks(t, "configure") /\ cnt' = cnt
    BY <1>1, <1>2, Taken
  <2>2. tgt' \in Targets
    BY <1>1, <1>2 DEF OthersOK, Targets
  <2>3. Elsewhere
    BY <1>1, <1>2, <2>1, <2>2, Same
  <2> QED
    BY <1>1, <2>1, <2>3, PlainAsks, DiscoveryMethods DEF Holds
<1>3. CASE /\ Refuses("configure") /\ dead' = TRUE /\ UNCHANGED <<th, jobs, loop, tgt, llcp>>
  <2>1. Elsewhere
    BY <1>1, <1>3, Refused, Same
  <2> QED
    BY <1>1, <1>3, <2>1, ThreadsStay
<1> QED
  BY <1>2, <1>3 DEF StartsDiscovery

LEMMA NotifiedHere ==
    ASSUME OthersOK, NEW n \in {"nat", "se"}, NEW q \in {drv.poll, "off"},
           drv' = [drv EXCEPT !.ntf = n, !.poll = q] \/ drv' = [drv EXCEPT !.ntf = n] \/ drv' = drv
    PROVE  drv' \in Drivers /\ drv'.conf = drv.conf /\ drv'.on = drv.on
BY DEF OthersOK, Drivers

LEMMA EnableDiscoveryKeeps ==
    ASSUME IndInv, EnableDiscovery("svc")
    PROVE  IndInv'
<1>1. /\ MayAct("svc") /\ lock = "none" /\ th["svc"].op = "enableDiscovery" /\ th["svc"].at = "lock"
      /\ OthersOK /\ "svc" \in Threads /\ Plain(th["svc"].op)
  BY AtTheMutex, Parts, DiscoveryMethods DEF EnableDiscovery, Threads
<1>2. drv' = [drv EXCEPT !.ntf = "nat"] \/ drv' = drv
  <2>1. CASE drv.stack
    BY <2>1 DEF EnableDiscovery
  <2>2. CASE ~drv.stack
    BY <1>1, <2>2 DEF EnableDiscovery, OthersOK, Drivers
  <2> QED
    BY <2>1, <2>2
<1>3. drv' \in Drivers /\ drv'.conf = drv.conf /\ drv'.on = drv.on
  BY <1>1, <1>2, NotifiedHere
<1>4. CASE lock' = "svc" /\ StartsDiscovery("svc")
  BY <1>1, <1>3, <1>4, StartsDiscoveryKeeps
<1>5. CASE Returns("svc") /\ UNCHANGED <<jobs, loop, tgt, llcp, dead, cnt>>
  BY <1>1, <1>3, <1>5, Same, PlainEnds
<1> QED
  BY <1>4, <1>5 DEF EnableDiscovery

LEMMA SetReaderModeKeeps ==
    ASSUME IndInv, SetReaderMode("svc")
    PROVE  IndInv'
BY AtTheMutex, DiscoveryMethods, StartsDiscoveryKeeps DEF SetReaderMode

LEMMA DisableDiscoveryKeeps ==
    ASSUME IndInv, DisableDiscovery("svc")
    PROVE  IndInv'
<1>1. /\ MayAct("svc") /\ lock = "none" /\ th["svc"].op = "disableDiscovery"
      /\ th["svc"].at = "lock"
      /\ OthersOK /\ "svc" \in Threads /\ Plain(th["svc"].op)
      /\ UNCHANGED <<loop, drv, tgt, llcp>>
  BY AtTheMutex, Parts, DiscoveryMethods DEF DisableDiscovery, Threads
<1>2. CASE Pending("svc", "stop") /\ lock' = "svc" /\ UNCHANGED dead
  BY <1>1, <1>2, Taken, Same, PlainAsks, DiscoveryMethods DEF Holds
<1>3. CASE Refuses("stop") /\ dead' = TRUE /\ UNCHANGED <<lock, th, jobs>>
  BY <1>1, <1>3, Refused, Same, ThreadsStay
<1> QED
  BY <1>2, <1>3 DEF DisableDiscovery

LEMMA DiscoveryAnsweredKeeps ==
    ASSUME IndInv, NEW t \in {"svc", "tag"}, NEW op, Plain(op), NEW r, DiscoveryAnswered(t, op, r)
    PROVE  IndInv'
BY Parts, Same, AnsweredKeeps DEF DiscoveryAnswered

LEMMA SetTimeoutKeeps ==
    ASSUME IndInv, SetTimeout("svc")
    PROVE  IndInv'
<1>1. /\ MayAct("svc") /\ lock = "none" /\ th["svc"].op = "timeout" /\ th["svc"].at = "lock"
      /\ OthersOK /\ "svc" \in Threads /\ Plain(th["svc"].op)
      /\ UNCHANGED <<jobs, loop, drv, tgt, llcp, dead, cnt>> /\ Elsewhere
  BY AtTheMutex, Parts, DiscoveryMethods, Same DEF SetTimeout, Threads
<1>2. CASE Returns("svc")
  BY <1>1, <1>2, PlainEnds
<1>3. CASE lock' = "svc" /\ th' = [th EXCEPT !["svc"] = Idle]
  <2>1. Moves("svc") /\ Awaits("svc") /\ th'["svc"] = Idle
    BY <1>1, <1>3, Parts, IdleRecord, Proceeds, LateElsewhere DEF Idle
  <2> QED
    BY <1>1, <2>1, IdleRecord, StepLeaves
<1> QED
  BY <1>2, <1>3 DEF SetTimeout

LEMMA TargetFoundKeeps ==
    ASSUME IndInv, TargetFound
    PROVE  IndInv'
<1>1. OthersOK
  BY Parts
<1>2. cnt.found + 1 \in Ids /\ cnt' \in Counts
  BY <1>1, BoundsAssumption DEF TargetFound, OthersOK, Counts, Ids
<1>3. tgt' \in Targets
  <2>1. PICK kind \in Kinds :
           tgt' = [tgt EXCEPT !.near = cnt.found + 1, !.kinds = Append(tgt.kinds, kind)]
    BY DEF TargetFound
  <2>2. tgt \in Targets /\ Append(tgt.kinds, kind) \in Seq(Kinds)
    BY <1>1 DEF OthersOK, Targets
  <2> QED
    BY <1>2, <2>1, <2>2 DEF Targets
<1>4. drv' \in Drivers /\ drv'.conf = drv.conf /\ drv'.on = drv.on
  BY <1>1 DEF TargetFound, OthersOK, Drivers
<1>5. Job("found", "manager", "ntf") \in News
  BY DEF Job, News
<1> QED
  BY <1>1, <1>2, <1>3, <1>4, <1>5, Same, ThreadsStay DEF TargetFound

-----------------------------------------------------------------------------
(* The target Java was told of, and the peer. *)

LEMMA TagMethodsArePlain ==
    /\ \A op \in PlainTagOps \cup {"checkNdef", "read", "connect", "disconnect", "p2pConnect",
                                 "p2pDisconnect", "checkLlcp"} : Plain(op) /\ op \in Requests
    /\ {"transceive", "presence", "write", "format", "readonly"} \subseteq PlainTagOps
BY PlainMethods DEF TagMethods, PeerMethods, PlainTagOps

LEMMA TagRequestsKeep ==
    ASSUME IndInv,
           \/ DoTransceive("tag") \/ DoPresenceCheck("tag") \/ DoWrite("tag") \/ DoNdefFormat("tag")
           \/ DoMakeReadonly("tag") \/ DoCheckNdef("tag") \/ DoRead("tag") \/ DoConnect("tag")
           \/ CheckLlcp("tag")
    PROVE  IndInv'
<1>1. PICK op \in PlainTagOps \cup {"checkNdef", "read", "connect", "checkLlcp"} :
         OneRequest("tag", op)
  BY TagMethodsArePlain DEF DoTransceive, DoPresenceCheck, DoWrite, DoNdefFormat, DoMakeReadonly,
     DoCheckNdef, DoRead, DoConnect, CheckLlcp
<1> QED
  BY <1>1, TagMethodsArePlain, OneRequestKeeps

\* The thread of a call knows a target.
LEMMA CallsTarget ==
    ASSUME IndInv, NEW t \in Threads
    PROVE  /\ th[t].id \in Ids
           /\ [tgt EXCEPT !.conn = th[t].id] \in Targets /\ [tgt EXCEPT !.flag = FALSE] \in Targets
           /\ Forgotten(th[t].id) \in Targets
<1>1. th[t].id \in Ids /\ tgt \in Targets /\ 0 \in Ids
  BY BoundsAssumption, Parts DEF TypeOK, Calls, OthersOK, Ids
<1> QED
  BY <1>1 DEF Targets, Forgotten

LEMMA TagAnsweredKeeps ==
    ASSUME IndInv, NEW op, TagAnswered("tag", op)
    PROVE  IndInv'
<1>1. Plain(op) /\ "tag" \in Threads
  BY TagMethodsArePlain DEF TagAnswered, Threads
<1>2. Elsewhere
  BY <1>1, Parts, CallsTarget, Same DEF TagAnswered
<1> QED
  BY <1>1, <1>2, AnsweredKeeps DEF TagAnswered, Answered

LEMMA ResumesDiscoveryKeeps ==
    ASSUME IndInv, MayAct("tag"), lock \in {"none", "tag"}, Plain(th["tag"].op),
           th["tag"].at # "killing", ResumesDiscovery("tag"), UNCHANGED drv,
           cnt' = cnt \/ cnt' \in Counts
    PROVE  IndInv'
<1>1. "tag" \in Threads /\ OthersOK
  BY Parts DEF Threads
<1>2. CASE drv.stack
  <2>1. Asks("tag", "configure") /\ lock' = "tag" /\ UNCHANGED <<loop, llcp, dead>>
    BY <1>2 DEF ResumesDiscovery, Asks
  <2>2. tgt' \in Targets
    BY <1>1, <1>2, CallsTarget DEF ResumesDiscovery
  <2>3. Elsewhere
    BY <1>1, <2>1, <2>2, Same
  <2> QED
    BY <1>1, <2>1, <2>3, PlainAsks, DiscoveryMethods DEF Holds
<1>3. CASE ~drv.stack
  <2>1. EmergencyRecovery
    BY <1>3 DEF ResumesDiscovery
  <2> QED
    BY <1>1, <2>1, Same, ThreadsStay DEF EmergencyRecovery
<1> QED
  BY <1>2, <1>3

LEMMA DoDisconnectKeeps ==
    ASSUME IndInv, NEW op, DoDisconnect("tag", op)
    PROVE  IndInv'
<1>1. /\ MayAct("tag") /\ lock = "none" /\ th["tag"].op = op /\ th["tag"].at = "lock"
      /\ OthersOK /\ "tag" \in Threads /\ Plain(op) /\ op \in Requests /\ UNCHANGED drv
  BY AtTheMutex, Parts, TagMethodsArePlain DEF DoDisconnect, Threads
<1>2. CASE UNCHANGED cnt /\ ResumesDiscovery("tag")
  BY <1>1, <1>2, ResumesDiscoveryKeeps
<1>3. CASE Pending("tag", op) /\ lock' = "tag" /\ UNCHANGED <<loop, tgt, llcp, dead>>
  BY <1>1, <1>3, Taken, Same, PlainAsks DEF Holds
<1>4. CASE Refuses(op) /\ ResumesDiscovery("tag")
  BY <1>1, <1>4, Refused, ResumesDiscoveryKeeps
<1>5. CASE NotConnected("tag", op)
  <2>1. tgt' \in Targets /\ cnt' \in Counts /\ UNCHANGED <<jobs, loop, llcp, dead>>
    BY <1>1, <1>5, CallsTarget, Refused DEF NotConnected, Targets
  <2>2. Elsewhere /\ Returns("tag") /\ UNCHANGED jobs
    BY <1>1, <1>5, <2>1, Same DEF NotConnected
  <2> QED
    BY <1>1, <2>2, PlainEnds
<1> QED
  BY <1>2, <1>3, <1>4, <1>5 DEF DoDisconnect

LEMMA DisconnectedKeeps ==
    ASSUME IndInv, NEW op \in {"disconnect", "p2pDisconnect"}, NEW r, Disconnected("tag", op, r)
    PROVE  IndInv'
<1>1. Plain(op) /\ "tag" \in Threads
  BY TagMethodsArePlain DEF Threads
<1>2. Elsewhere
  BY <1>1, Parts, CallsTarget, Same DEF Disconnected
<1> QED
  BY <1>1, <1>2, AnsweredKeeps DEF Disconnected

LEMMA P2pConnectKeeps ==
    ASSUME IndInv, P2pConnect("tag")
    PROVE  IndInv'
<1>1. /\ MayAct("tag") /\ lock = "none" /\ th["tag"].op = "p2pConnect" /\ th["tag"].at = "lock"
      /\ OthersOK /\ "tag" \in Threads /\ Plain("p2pConnect") /\ "p2pConnect" \in Requests
      /\ UNCHANGED drv
  BY AtTheMutex, Parts, TagMethodsArePlain DEF P2pConnect, Threads
<1>2. CASE Pending("tag", "p2pConnect") /\ lock' = "tag" /\ UNCHANGED <<loop, tgt, llcp, dead>>
  BY <1>1, <1>2, Taken, Same, PlainAsks DEF Holds
<1>3. CASE Refuses("p2pConnect") /\ ResumesDiscovery("tag")
  BY <1>1, <1>3, Refused, ResumesDiscoveryKeeps
<1> QED
  BY <1>2, <1>3 DEF P2pConnect

LEMMA P2pConnectedKeeps ==
    ASSUME IndInv, P2pConnected("tag")
    PROVE  IndInv'
<1>1. /\ MayAct("tag") /\ lock = "tag" /\ th["tag"].op = "p2pConnect" /\ th["tag"].at = "wait"
      /\ OthersOK /\ "tag" \in Threads /\ Plain("p2pConnect") /\ UNCHANGED <<drv, cnt>>
  BY AtTheAnswer, Parts, TagMethodsArePlain DEF P2pConnected, Threads
<1>2. CASE /\ Returns("tag") /\ tgt' = [tgt EXCEPT !.conn = th["tag"].id]
           /\ UNCHANGED <<jobs, loop, llcp, dead>>
  BY <1>1, <1>2, CallsTarget, Same, PlainEnds
<1>3. CASE ResumesDiscovery("tag")
  BY <1>1, <1>3, ResumesDiscoveryKeeps
<1> QED
  BY <1>2, <1>3 DEF P2pConnected

LEMMA NewsIsNews ==
    /\ Job("linkUp", "manager", "llcp") \in News /\ Job("linkDown", "manager", "llcp") \in News
    /\ \A n \in Nat : [Job("listen", "manager", "ntf") EXCEPT !.n = n] \in News
BY DEF Job, News

LEMMA LlcpCheckedKeeps ==
    ASSUME IndInv, LlcpChecked("tag")
    PROVE  IndInv'
<1>1. /\ MayAct("tag") /\ lock = "tag" /\ th["tag"].op = "checkLlcp" /\ th["tag"].at = "wait"
      /\ Returns("tag") /\ OthersOK /\ "tag" \in Threads /\ Plain("checkLlcp")
      /\ UNCHANGED <<loop, drv, tgt, llcp, dead, cnt>>
  BY AtTheAnswer, Parts, TagMethodsArePlain DEF LlcpChecked, Answered, Threads
<1>2. jobs' \subseteq jobs \cup News
  BY NewsIsNews DEF LlcpChecked
<1> QED
  BY <1>1, <1>2, Same, PlainEnds

LEMMA LinkLostKeeps ==
    ASSUME IndInv, LinkLost
    PROVE  IndInv'
<1>1. llcp' \in Links
  BY Parts DEF LinkLost, OthersOK, Links
<1> QED
  BY <1>1, Parts, NewsIsNews, Same, ThreadsStay DEF LinkLost

LEMMA ClientConnectsKeeps ==
    ASSUME IndInv, ClientConnects
    PROVE  IndInv'
<1>1. cnt' \in Counts /\ cnt.clients + 1 \in Nat
  BY Parts DEF ClientConnects, OthersOK, Counts
<1> QED
  BY <1>1, Parts, NewsIsNews, Same, ThreadsStay DEF ClientConnects

-----------------------------------------------------------------------------
(* The LLCP sockets. *)

LEMMA SocketMethodsArePlain ==
    /\ \A op \in SocketOps \cup {"accept"} : Plain(op) /\ op \in Requests /\ op \in Methods
    /\ {"sockConnect", "sockSend", "sockReceive"} \subseteq SocketOps
BY PlainMethods DEF SocketMethods, SocketOps, Plain

LEMMA SocketRequestKeeps ==
    ASSUME IndInv, NEW op \in SocketOps, SocketRequest(op)
    PROVE  IndInv'
<1> DEFINE f == [Idle EXCEPT !.op = op, !.at = "wait", !.req = op]
<1>1. /\ th["sock"] = Idle /\ "sock" \in Threads /\ op \in Requests /\ op \in Methods /\ OthersOK
      /\ UNCHANGED <<lock, loop, drv, tgt, llcp, dead>>
  BY Parts, SocketMethodsArePlain DEF SocketRequest, Threads
<1>2. CASE /\ th' = [th EXCEPT !["sock"] = f] /\ jobs' = jobs \cup {Job(op, "sock", op)}
           /\ cnt' = [cnt EXCEPT !.calls = @ + 1]
  <2>1. f \in Calls /\ f.op = op /\ f.req = op /\ f.at = "wait" /\ f.sem = <<>> /\ Frame(f) = op
    <3>1. f \in Calls /\ f.op = op /\ f.req = op /\ f.at = "wait" /\ f.sem = <<>>
      BY <1>1, IdleRecord DEF Calls
    <3>2. op # "initialize"
      BY SocketMethodsArePlain DEF Plain
    <3> HIDE DEF f
    <3> QED
      BY <3>1, <3>2, Frames
  <2>2. cnt' \in Counts
    BY <1>1, <1>2 DEF OthersOK, Counts
  <2>3. MayAct("sock") /\ Holds("sock") /\ LateStays
    BY <1>1, IdleRecord DEF MayAct, Holds, LateStays
  <2> HIDE DEF f
  <2>4. /\ Moves("sock") /\ Awaits("sock")
        /\ KillMessage \in jobs' => KillMessage \in jobs
    BY <1>1, <1>2, <2>1, <2>3, Parts, Asked
  <2> QED
    BY <1>1, <2>2, <2>4, Same, StepLeaves
<1>3. CASE Refuses(op) /\ UNCHANGED <<th, jobs>>
  BY <1>1, <1>3, Refused, Same, ThreadsStay
<1> QED
  BY <1>2, <1>3 DEF SocketRequest

LEMMA SocketAnsweredKeeps ==
    ASSUME IndInv, NEW op, SocketAnswered(op)
    PROVE  IndInv'
<1>1. /\ MayAct("sock") /\ th["sock"].op = op /\ th["sock"].at = "wait" /\ Plain(op)
      /\ "sock" \in Threads /\ Returns("sock")
      /\ UNCHANGED <<jobs, loop, drv, tgt, llcp, dead, cnt>>
  BY SocketMethodsArePlain DEF SocketAnswered, Answered, Woken, MayAct, GoesOn, Threads
<1> QED
  BY <1>1, Parts, Same, PlainEnds

LEMMA SocketProceeds ==
    ASSUME IndInv, MayAct("sock"), UNCHANGED <<jobs, lock>>, NEW f \in Calls,
           th' = [th EXCEPT !["sock"] = f], f.sem = <<>>, f.op # "initialize", Elsewhere
    PROVE  IndInv'
BY Parts, PlainProceeds DEF Threads, TypeOK

LEMMA SocketRecord ==
    ASSUME IndInv
    PROVE  /\ th["sock"] \in Calls
           /\ th["sock"].at \in {"look", "cond"} => th["sock"].sem = <<>>
           /\ th["sock"].op = "accept" => th["sock"].sem \in {<<>>, <<th["sock"].req>>}
BY Parts, Frames DEF ThreadsInv, TypeOK, AnswersAreAwaited, CallbacksFindTheirCall, Disturbed,
   Threads

LEMMA DoAcceptKeeps ==
    ASSUME IndInv, DoAccept
    PROVE  IndInv'
<1> DEFINE f == [Idle EXCEPT !.op = "accept", !.at = "look"]
<1>1. f \in Calls /\ f.sem = <<>> /\ f.op # "initialize"
  BY IdleRecord, SocketMethodsArePlain DEF Calls
<1>2. th' = [th EXCEPT !["sock"] = f]
  BY DEF DoAccept
<1>3. MayAct("sock")
  BY IdleRecord DEF MayAct, DoAccept
<1> HIDE DEF f
<1> QED
  BY <1>1, <1>2, <1>3, Parts, Same, SocketProceeds DEF DoAccept

LEMMA NobodyWaitsKeeps ==
    ASSUME IndInv, NobodyWaits
    PROVE  IndInv'
<1> DEFINE f == [th["sock"] EXCEPT !.at = "cond"]
<1>1. f \in Calls /\ f.sem = <<>> /\ f.op # "initialize"
  BY SocketRecord DEF Calls, NobodyWaits
<1>2. th' = [th EXCEPT !["sock"] = f]
  BY DEF NobodyWaits
<1>3. MayAct("sock")
  BY DEF MayAct, NobodyWaits
<1>4. llcp' \in Links
  BY Parts DEF NobodyWaits, OthersOK, Links
<1> HIDE DEF f
<1> QED
  BY <1>1, <1>2, <1>3, <1>4, Parts, Same, SocketProceeds DEF NobodyWaits

LEMMA AcceptWakesKeeps ==
    ASSUME IndInv, AcceptWakes
    PROVE  IndInv'
<1> DEFINE f == [th["sock"] EXCEPT !.at = "look"]
<1>1. f \in Calls /\ f.sem = <<>> /\ f.op # "initialize"
  BY SocketRecord DEF Calls, AcceptWakes
<1>2. th' = [th EXCEPT !["sock"] = f]
  BY DEF AcceptWakes
<1>3. MayAct("sock")
  BY DEF MayAct, AcceptWakes
<1> HIDE DEF f
<1> QED
  BY <1>1, <1>2, <1>3, Parts, Same, SocketProceeds DEF AcceptWakes

LEMMA AcceptsClientKeeps ==
    ASSUME IndInv, AcceptsClient
    PROVE  IndInv'
<1>1. /\ MayAct("sock") /\ Holds("sock") /\ th["sock"].op = "accept" /\ th["sock"].at = "look"
      /\ Plain("accept") /\ "accept" \in Requests /\ "sock" \in Threads /\ OthersOK
      /\ UNCHANGED <<lock, loop, drv, tgt, dead>>
  BY Parts, SocketMethodsArePlain DEF AcceptsClient, MayAct, Holds, Threads
<1>2. llcp' \in Links
  <2>1. llcp \in Links /\ llcp.clients \in Seq(Nat) /\ Tail(llcp.clients) \in Seq(Nat)
    BY <1>1 DEF AcceptsClient, OthersOK, Links
  <2> QED
    BY <2>1 DEF AcceptsClient, Links
<1>3. CASE Pending("sock", "accept")
  BY <1>1, <1>2, <1>3, Taken, Same, PlainAsks
<1>4. CASE Refuses("accept") /\ UNCHANGED <<th, jobs>>
  BY <1>1, <1>2, <1>4, Refused, Same, ThreadsStay
<1> QED
  BY <1>3, <1>4 DEF AcceptsClient

LEMMA AcceptedKeeps ==
    ASSUME IndInv, Accepted
    PROVE  IndInv'
<1> DEFINE c == Consumed(th["sock"])
           f == IF th["sock"].ok THEN Idle ELSE [c EXCEPT !.at = "look"]
<1>1. c \in Calls /\ c.sem = <<>> /\ c.op = "accept"
  BY SocketRecord, ConsumedRecord DEF Accepted, Woken
<1>2. f \in Calls /\ f.sem = <<>> /\ f.op # "initialize"
  BY <1>1, IdleRecord DEF Calls
<1>3. th' = [th EXCEPT !["sock"] = f]
  BY DEF Accepted
<1>4. MayAct("sock")
  BY DEF MayAct, GoesOn, Woken, Accepted
<1> HIDE DEF f
<1> QED
  BY <1>2, <1>3, <1>4, Parts, Same, SocketProceeds DEF Accepted

-----------------------------------------------------------------------------
(* The secure element. *)

LEMMA SeMethods ==
    /\ \A op \in {"seOpen", "seClose", "seTransceive", "seOn", "seOff"} : Plain(op)
    /\ \A r \in {"seTransceive", "seOn", "seOff", "seField", "seRelease", "seWired", "seFound",
                  "seConnect", "seRead", "seWrite"} : r \in Requests
BY DEF Plain, Methods, ServiceOps, Requests

LEMMA NextRequest ==
    ASSUME NEW op, NEW r \in DOMAIN StepsOf(op)
    PROVE  StepsOf(op)[r][1] \in Requests
BY SeMethods DEF StepsOf, SeOpenSteps, SeCloseSteps

LEMMA SvcRecord ==
    ASSUME IndInv
    PROVE  /\ "svc" \in Threads /\ th["svc"] \in Calls /\ OthersOK
           /\ Frame(th["svc"]) = th["svc"].op => th["svc"].sem \in {<<>>, <<th["svc"].req>>}
           /\ ~loop.late => th["svc"].sem \in {<<>>, <<th["svc"].req>>}
           /\ th["svc"].at = "lock" => th["svc"].sem = <<>>
           /\ th["svc"].at \in {"wait", "killing"} => lock = "svc"
<1>1. "svc" \in Threads /\ th["svc"] \in Calls
  BY Parts DEF Threads, TypeOK
<1>2. th["svc"].op # "update"
  BY <1>1, Frames DEF Calls
<1> QED
  BY <1>1, <1>2, Parts DEF ThreadsInv, AnswersAreAwaited, CallbacksFindTheirCall, Disturbed,
         WaitersHoldTheLock

LEMMA SeNextKeeps ==
    ASSUME IndInv, MayAct("svc"), lock \in {"none", "svc"}, th["svc"].op \in {"seOpen", "seClose"},
           th["svc"].at # "killing", NEW op, NEW r \in Requests, SeNext("svc", op, r),
           drv' = drv \/ (drv' \in Drivers /\ drv'.conf = drv.conf /\ drv'.on = drv.on)
    PROVE  IndInv'
<1>1. "svc" \in Threads /\ OthersOK /\ Plain(th["svc"].op) /\ UNCHANGED <<loop, tgt, llcp, dead>>
  BY Parts, SeMethods DEF SeNext, Threads
<1>2. CASE Pending("svc", r) /\ lock' = "svc"
  BY <1>1, <1>2, Taken, Same, PlainAsks DEF Holds
<1>3. CASE Refuses(r) /\ Returns("svc") /\ UNCHANGED jobs
  BY <1>1, <1>3, Refused, Same, PlainEnds
<1>4. CASE /\ Refuses(r) /\ lock' = "svc" /\ UNCHANGED jobs
           /\ th' = [th EXCEPT !["svc"] = [Consumed(@) EXCEPT !.at = "wait", !.req = r]]
  <2> DEFINE f == [Consumed(th["svc"]) EXCEPT !.at = "wait", !.req = r]
  <2>1. /\ th["svc"] \in Calls /\ th["svc"].sem \in {<<>>, <<th["svc"].req>>}
        /\ th["svc"].op # "initialize"
    BY <1>1, SvcRecord, Frames
  <2>2. /\ Consumed(th["svc"]) \in Calls /\ Consumed(th["svc"]).op = th["svc"].op
        /\ Consumed(th["svc"]).sem = <<>>
    BY <2>1, ConsumedRecord
  <2>3. f \in Calls /\ f.op = th["svc"].op /\ f.at = "wait" /\ f.sem = <<>>
    BY <2>2 DEF Calls
  <2>4. th' = [th EXCEPT !["svc"] = f]
    BY <1>4
  <2>5. Elsewhere
    BY <1>1, <1>4, Refused, Same
  <2> HIDE DEF f
  <2> QED
    BY <1>1, <1>4, <2>3, <2>4, <2>5, PlainProceeds
<1> QED
  BY <1>2, <1>3, <1>4 DEF SeNext

LEMMA SeBeginsKeeps ==
    ASSUME IndInv, NEW op, SeBegins("svc", op)
    PROVE  IndInv'
<1>1. /\ MayAct("svc") /\ lock = "none" /\ th["svc"].op = op /\ th["svc"].at = "lock"
      /\ OthersOK /\ "svc" \in Threads /\ Plain(op)
      /\ UNCHANGED <<loop, drv, tgt, llcp, dead>>
  BY AtTheMutex, Parts, SeMethods DEF SeBegins, Threads
<1>2. CASE Returns("svc") /\ UNCHANGED <<jobs, cnt>>
  BY <1>1, <1>2, Same, PlainEnds
<1>3. ASSUME NEW r \in {"seField", "seRelease"}, Pending("svc", r), lock' = "svc" PROVE IndInv'
  BY <1>1, <1>3, SeMethods, Taken, Same, PlainAsks DEF Holds
<1>4. ASSUME NEW r \in {"seField", "seRelease"}, Refuses(r), Returns("svc"), UNCHANGED jobs
      PROVE  IndInv'
  BY <1>1, <1>4, Refused, Same, PlainEnds
<1> QED
  BY <1>2, <1>3, <1>4 DEF SeBegins

LEMMA SeAnsweredKeeps ==
    ASSUME IndInv, NEW op \in {"seOpen", "seClose"}, NEW r, SeAnswered("svc", op, r)
    PROVE  IndInv'
<1>1. /\ MayAct("svc") /\ lock = "svc" /\ th["svc"].op = op /\ th["svc"].at = "wait"
      /\ OthersOK /\ "svc" \in Threads /\ Plain(op) /\ r \in DOMAIN StepsOf(op)
  BY AtTheAnswer, Parts, SeMethods DEF SeAnswered, Threads
<1> DEFINE n == StepsOf(op)[r][1]
<1>2. n \in Requests
  BY <1>1, NextRequest
<1> HIDE DEF n
<1>3. CASE /\ SeNext("svc", op, n)
           /\ drv' = IF n = "seWired" THEN [drv EXCEPT !.ntf = "se", !.poll = "off"] ELSE drv
  <2>1. drv' \in Drivers /\ drv'.conf = drv.conf /\ drv'.on = drv.on
    BY <1>1, <1>3 DEF OthersOK, Drivers
  <2> QED
    BY <1>1, <1>2, <1>3, <2>1, SeNextKeeps
<1>4. CASE /\ th' = [th EXCEPT !["svc"] = [Consumed(@) EXCEPT !.at = "lock"]] /\ lock' = "none"
           /\ UNCHANGED <<jobs, loop, drv, tgt, llcp, dead, cnt>>
  <2> DEFINE f == [Consumed(th["svc"]) EXCEPT !.at = "lock"]
  <2>1. /\ th["svc"] \in Calls /\ th["svc"].sem \in {<<>>, <<th["svc"].req>>}
        /\ th["svc"].op # "initialize"
    BY <1>1, SvcRecord, Frames
  <2>2. /\ Consumed(th["svc"]) \in Calls /\ Consumed(th["svc"]).op = th["svc"].op
        /\ Consumed(th["svc"]).sem = <<>>
    BY <2>1, ConsumedRecord
  <2>3. f \in Calls /\ f.op = th["svc"].op /\ f.at = "lock" /\ f.sem = <<>>
    BY <2>2 DEF Calls
  <2>4. th' = [th EXCEPT !["svc"] = f]
    BY <1>4
  <2>5. Elsewhere
    BY <1>1, <1>4, Same
  <2> HIDE DEF f
  <2> QED
    BY <1>1, <1>4, <2>3, <2>4, <2>5, PlainProceeds
<1>5. CASE Returns("svc") /\ UNCHANGED <<jobs, loop, drv, tgt, llcp, dead, cnt>>
  BY <1>1, <1>5, Same, PlainEnds
<1> QED
  BY <1>3, <1>4, <1>5 DEF SeAnswered, n

LEMMA SeGoesOnKeeps ==
    ASSUME IndInv, NEW op \in {"seOpen", "seClose"}, NEW r, SeGoesOn("svc", op, r)
    PROVE  IndInv'
<1>1. MayAct("svc") /\ lock = "none" /\ th["svc"].op = op /\ th["svc"].at = "lock"
  BY AtTheMutex DEF SeGoesOn
<1>2. StepsOf(op)[r][1] \in Requests
  BY NextRequest DEF SeGoesOn
<1> QED
  BY <1>1, <1>2, SeNextKeeps DEF SeGoesOn

LEMMA SeWiredKeeps ==
    ASSUME IndInv, SeWired("svc")
    PROVE  IndInv'
<1>1. /\ MayAct("svc") /\ lock = "svc" /\ th["svc"].op = "seOpen" /\ th["svc"].at = "wait"
      /\ OthersOK /\ "svc" \in Threads /\ Plain("seOpen")
      /\ UNCHANGED <<loop, drv, tgt, llcp, dead, cnt>>
  BY AtTheAnswer, Parts, SeMethods DEF SeWired, Threads
<1>2. CASE /\ th' = [th EXCEPT !["svc"] = [Consumed(@) EXCEPT !.req = "seFound"]]
           /\ jobs' = jobs \cup {Job("seFound", "svc", "seOpen")} /\ UNCHANGED lock
  <2>1. Consumed(th["svc"]) \in Calls /\ Consumed(th["svc"]).at = "wait"
    BY <1>1, Parts, ConsumedRecord DEF TypeOK
  <2>2. [Consumed(th["svc"]) EXCEPT !.req = "seFound"]
           = [Consumed(th["svc"]) EXCEPT !.at = "wait", !.req = "seFound"]
    BY <2>1 DEF Calls
  <2>3. Asks("svc", "seFound")
    BY <1>1, <1>2, <2>2 DEF Asks
  <2> QED
    BY <1>1, <1>2, <2>3, SeMethods, Same, PlainAsks DEF Holds
<1>3. CASE Returns("svc") /\ UNCHANGED jobs
  BY <1>1, <1>3, Same, PlainEnds
<1> QED
  BY <1>2, <1>3 DEF SeWired

LEMMA SeDoneKeeps ==
    ASSUME IndInv, NEW op, SeDone("svc", op)
    PROVE  IndInv'
BY SeMethods, Parts, Same, AnsweredKeeps DEF SeDone

LEMMA SetsModeKeeps ==
    ASSUME IndInv, NEW op \in {"seOn", "seOff"}, SetsMode("svc", op)
    PROVE  IndInv'
<1>1. /\ MayAct("svc") /\ lock = "none" /\ th["svc"].op = op /\ th["svc"].at = "lock"
      /\ OthersOK /\ "svc" \in Threads /\ Plain(op) /\ op \in Requests
      /\ UNCHANGED <<loop, tgt, llcp, dead>>
  BY AtTheMutex, Parts, SeMethods DEF SetsMode, Threads
<1>2. drv' = [drv EXCEPT !.ntf = "nat"] \/ drv' = drv
  <2>1. CASE drv.stack
    BY <2>1 DEF SetsMode
  <2>2. CASE ~drv.stack
    BY <1>1, <2>2 DEF SetsMode, OthersOK, Drivers
  <2> QED
    BY <2>1, <2>2
<1>3. drv' \in Drivers /\ drv'.conf = drv.conf /\ drv'.on = drv.on
  BY <1>1, <1>2, NotifiedHere
<1>4. CASE Pending("svc", op) /\ lock' = "svc"
  BY <1>1, <1>3, <1>4, Taken, Same, PlainAsks DEF Holds
<1>5. CASE Refuses(op) /\ Returns("svc") /\ UNCHANGED jobs
  BY <1>1, <1>3, <1>5, Refused, Same, PlainEnds
<1> QED
  BY <1>4, <1>5 DEF SetsMode

LEMMA SeRequestAnsweredKeeps ==
    ASSUME IndInv, NEW op, SeRequestAnswered("svc", op)
    PROVE  IndInv'
BY SeMethods, Parts, Same, AnsweredKeeps DEF SeRequestAnswered, Answered

-----------------------------------------------------------------------------
(* Starting and stopping the stack. *)

LEMMA StackMethods ==
    /\ "initialize" \in Methods /\ "download" \in Methods /\ "deinitialize" \in Methods
    /\ \A r \in {"init", "load", "mem", "llcpConfig", "deinit", "seOff"} : r \in Requests
BY DEF Methods, ServiceOps, Requests

\* What the message thread is to an initialization that goes on.
LoopGoesOn ==
  /\ drv.conf /\ UNCHANGED drv /\ loop' \in Loops /\ loop'.alive = loop.alive
  /\ loop'.running = loop.running /\ LateStays

\* The initialization goes on: the driver is configured.
LEMMA LoopWhileStarting ==
    ASSUME IndInv, th["svc"].op = "initialize", th'["svc"].op = "initialize",
           th'["svc"].at = "wait",
           th'["svc"].sem # <<>> => th["svc"].sem # <<>>,
           th'["svc"].req = "load" => th'["svc"].n > 0,
           Configured \/ LoopGoesOn,
           KillMessage \in jobs' => KillMessage \in jobs
    PROVE  LoopFollowsTheService' /\ loop' \in Loops /\ drv' \in Drivers /\ LateStays
<1>1. LoopFollowsTheService /\ OthersOK
  BY Parts
<1>2. CASE LoopGoesOn
  BY <1>1, <1>2 DEF LoopFollowsTheService, OthersOK, LoopGoesOn, KillMessage, Job
<1>3. CASE drv.conf /\ UNCHANGED <<drv, loop>>
  BY <1>1, <1>3 DEF LoopFollowsTheService, OthersOK, KillMessage, Job, LateStays
<1>4. CASE ~drv.conf /\ Configured
  <2>1. loop.alive = 0 /\ ~drv.on /\ loop.alive + 1 = 1 /\ KillMessage \notin jobs'
    BY <1>1, <1>4 DEF LoopFollowsTheService
  <2>2. /\ loop' = [loop EXCEPT !.alive = 1, !.running = TRUE]
        /\ drv' = [drv EXCEPT !.conf = TRUE]
    BY <1>4, <2>1 DEF Configured
  <2>3. /\ loop'.alive = 1 /\ loop'.running /\ drv'.conf /\ drv'.on = FALSE
        /\ loop' \in Loops /\ drv' \in Drivers /\ loop'.late = loop.late
    BY <1>1, <2>1, <2>2 DEF OthersOK, Drivers, Loops
  <2>4. KillMessage' = KillMessage
    BY DEF KillMessage, Job
  <2> QED
    BY <2>1, <2>3, <2>4 DEF LoopFollowsTheService, LateStays
<1> QED
  BY <1>2, <1>3, <1>4 DEF Configured

\* The initialization gives up: the message thread is told to end.
LEMMA InitFailsKeeps ==
    ASSUME IndInv, th["svc"].op = "initialize", th["svc"].at = "wait", MayAct("svc"),
           InitFails("svc"), LoopGoesOn, UNCHANGED <<llcp, dead>>, cnt' = cnt \/ cnt' \in Counts
    PROVE  IndInv'
<1>1. "svc" \in Threads /\ OthersOK /\ LoopFollowsTheService /\ jobs \subseteq Jobs
  BY SvcRecord, Parts
<1>2. jobs' = jobs \cup {KillMessage} /\ Returns("svc") /\ UNCHANGED <<drv, tgt>>
  BY DEF InitFails
<1>3. jobs' \subseteq Jobs /\ (\A k \in jobs' \ jobs : k.to \notin Threads)
  BY <1>1, <1>2 DEF Jobs, KillMessage, Job, Threads
<1>4. Moves("svc") /\ Awaits("svc") /\ th'["svc"] = Idle
  BY <1>1, <1>2, <1>3, Parts, Ends DEF LoopGoesOn
<1>5. OthersOK'
  BY <1>1, <1>2 DEF OthersOK, LoopGoesOn
<1>6. LoopFollowsTheService'
  BY <1>1, <1>2, <1>4, IdleRecord DEF LoopFollowsTheService, LoopGoesOn
<1> QED
  BY <1>1, <1>4, <1>5, <1>6, StepKeeps

\* A request of the initialization, or a wait for one libnfc did not take.
LEMMA InitAsks ==
    ASSUME IndInv, th["svc"].op = "initialize", MayAct("svc"), Holds("svc"), NEW f \in Calls,
           f.op = "initialize", f.at = "wait", f.req \in Requests,
           f.sem = <<>> \/ (loop'.late /\ Frame(f) = "update"),
           f.sem # <<>> => th["svc"].sem # <<>>, f.req = "load" => f.n > 0,
           th' = [th EXCEPT !["svc"] = f],
           jobs' = jobs \/ jobs' = jobs \cup {Job(f.req, "svc", Frame(f))},
           Configured \/ LoopGoesOn,
           tgt' \in Targets, UNCHANGED <<llcp, dead>>, cnt' \in Counts
    PROVE  IndInv'
<1>1. "svc" \in Threads /\ ThreadsInv /\ OthersOK
  BY SvcRecord, Parts
<1>2. LateStays
  BY <1>1 DEF LateStays, LoopGoesOn, Configured, OthersOK, Loops
<1>3. /\ Moves("svc") /\ Awaits("svc") /\ th'["svc"] = f
      /\ KillMessage \in jobs' => KillMessage \in jobs
  BY <1>1, <1>2, StackMethods, Asked
<1>4. LoopFollowsTheService' /\ loop' \in Loops /\ drv' \in Drivers
  BY <1>3, LoopWhileStarting
<1>5. OthersOK'
  BY <1>1, <1>4 DEF OthersOK
<1> QED
  BY <1>1, <1>3, <1>4, <1>5, StepKeeps

LEMMA InitializeKeeps ==
    ASSUME IndInv, Initialize("svc")
    PROVE  IndInv'
<1> DEFINE f == [th["svc"] EXCEPT !.at = "wait", !.req = "init", !.n = 0]
<1>1. MayAct("svc") /\ Holds("svc") /\ th["svc"].op = "initialize" /\ th["svc"].at = "lock"
  BY AtTheMutex DEF Initialize, Holds
<1>2. /\ f \in Calls /\ f.op = "initialize" /\ f.at = "wait" /\ f.req = "init" /\ f.n = 0
      /\ f.sem = <<>>
  <2>1. th["svc"] \in Calls /\ th["svc"].sem = <<>> /\ "init" \in Requests /\ 0 \in 0 .. 3
    BY <1>1, SvcRecord, StackMethods
  <2> QED
    BY <1>1, <2>1 DEF Calls
<1>3. th' = [th EXCEPT !["svc"] = f] /\ jobs' = jobs \cup {Job("init", "svc", "initialize")}
  BY DEF Initialize
<1>4. tgt' \in Targets /\ cnt' \in Counts /\ UNCHANGED <<llcp, dead>> /\ Configured
  BY SvcRecord, CallsTarget DEF Initialize, OthersOK
<1> HIDE DEF f
<1>5. Frame(f) = "initialize"
  BY <1>2 DEF Frame
<1> QED
  BY <1>1, <1>2, <1>3, <1>4, <1>5, StackMethods, InitAsks

LEMMA TriesDownloadKeeps ==
    ASSUME IndInv, th["svc"].op = "initialize", th["svc"].at = "wait", MayAct("svc"),
           TriesDownload("svc"), LoopGoesOn, UNCHANGED <<llcp, dead, cnt>>
    PROVE  IndInv'
<1> DEFINE c == th["svc"]
           f == [c EXCEPT !.sem = <<>>, !.at = "wait", !.req = "load", !.n = c.n + 1]
<1>1. /\ OthersOK /\ lock = "svc" /\ c \in Calls /\ c.n \in 0 .. 3
  BY SvcRecord, Parts DEF Calls
<1>2. CASE c.n < 3
  <2>1. c.n + 1 \in 0 .. 3 /\ c.n + 1 > 0 /\ <<>> \in Seq(Requests)
    BY <1>1, <1>2
  <2>2. /\ f \in Calls /\ f.op = "initialize" /\ f.at = "wait" /\ f.req = "load"
        /\ f.sem = <<>> /\ f.n > 0
    BY <1>1, <2>1, StackMethods DEF Calls
  <2>3. /\ th' = [th EXCEPT !["svc"] = f] /\ jobs' = jobs \cup {Job("load", "svc", "update")}
        /\ UNCHANGED <<lock, drv, tgt>>
    BY <1>2 DEF TriesDownload
  <2>4. Holds("svc") /\ tgt' \in Targets /\ cnt' \in Counts
    BY <1>1, <2>3 DEF Holds, OthersOK
  <2> HIDE DEF f
  <2>5. Frame(f) = "update"
    BY <2>2 DEF Frame
  <2> QED
    BY <2>2, <2>3, <2>4, <2>5, StackMethods, InitAsks
<1>3. CASE ~(c.n < 3)
  BY <1>1, <1>3, InitFailsKeeps DEF TriesDownload
<1> QED
  BY <1>2, <1>3

\* A thread of the initialization with the loop as it was.
LEMMA LoopStays ==
    ASSUME IndInv, th["svc"].op = "initialize", th["svc"].at = "wait", UNCHANGED <<drv, loop>>
    PROVE  LoopGoesOn
BY Parts DEF LoopGoesOn, LoopFollowsTheService, OthersOK, LateStays

LEMMA AfterInitKeeps ==
    ASSUME IndInv, th["svc"].op = "initialize", th["svc"].at = "wait", MayAct("svc"),
           AfterInit("svc"), UNCHANGED <<loop, llcp, dead>>
    PROVE  IndInv'
<1> DEFINE c == th["svc"]
<1>1. OthersOK /\ lock = "svc" /\ c \in Calls /\ <<>> \in Seq(Requests)
  BY SvcRecord
<1>2. ASSUME NEW r \in {"mem", "deinit"}, th' = [th EXCEPT !["svc"].sem = <<>>, !["svc"].req = r],
             jobs' = jobs \/ jobs' = jobs \cup {Job(r, "svc", IF r = "mem" THEN "initialize"
                                                                          ELSE "update")},
             UNCHANGED <<lock, drv, tgt>>, cnt' \in Counts
      PROVE  IndInv'
  <2> DEFINE f == [c EXCEPT !.sem = <<>>, !.req = r]
  <2>1. /\ f \in Calls /\ f.op = "initialize" /\ f.at = "wait" /\ f.req = r /\ f.sem = <<>>
    BY <1>1, StackMethods DEF Calls
  <2>2. th' = [th EXCEPT !["svc"] = f]
    BY <1>2
  <2>3. Holds("svc") /\ tgt' \in Targets /\ LoopGoesOn
    BY <1>1, <1>2, LoopStays DEF Holds, OthersOK
  <2> HIDE DEF f
  <2>4. Frame(f) = IF r = "mem" THEN "initialize" ELSE "update"
    BY <2>1 DEF Frame
  <2> QED
    BY <1>2, <2>1, <2>2, <2>3, <2>4, StackMethods, InitAsks
<1>3. CASE InitFails("svc") /\ UNCHANGED cnt
  BY <1>3, LoopStays, InitFailsKeeps DEF InitFails
<1> QED
  BY <1>1, <1>2, <1>3, Refused DEF AfterInit, OthersOK

LEMMA InitAnsweredKeeps ==
    ASSUME IndInv, InitAnswered("svc")
    PROVE  IndInv'
<1>1. /\ MayAct("svc") /\ th["svc"].op = "initialize" /\ th["svc"].at = "wait"
      /\ UNCHANGED <<loop, llcp, dead>>
  BY AtTheAnswer DEF InitAnswered
<1>2. CASE AfterInit("svc")
  BY <1>1, <1>2, AfterInitKeeps
<1>3. CASE TriesDownload("svc") /\ UNCHANGED cnt
  <2>1. UNCHANGED drv
    BY <1>3 DEF TriesDownload, InitFails
  <2> QED
    BY <1>1, <1>3, <2>1, LoopStays, TriesDownloadKeeps
<1> QED
  BY <1>2, <1>3 DEF InitAnswered

\* The wait is given up: from now on an answer that is due is stray.
LEMMA StoppedForDownloadKeeps ==
    ASSUME IndInv, StoppedForDownload("svc")
    PROVE  IndInv'
<1> DEFINE d == Job("deinit", "svc", "update")
<1>1. /\ th["svc"].op = "initialize" /\ th["svc"].at = "wait" /\ th["svc"].req = "deinit"
      /\ TriesDownload("svc") /\ UNCHANGED <<llcp, dead, cnt>>
      /\ loop' = [loop EXCEPT !.late = loop.late \/ d \in jobs]
  BY DEF StoppedForDownload
<1>2. loop \in Loops /\ loop'.late = (loop.late \/ d \in jobs)
  BY <1>1, Parts DEF OthersOK, Loops
<1>3. LoopGoesOn
  <2>1. UNCHANGED drv /\ drv.conf
    BY <1>1, Parts DEF TriesDownload, InitFails, LoopFollowsTheService
  <2>2. loop' \in Loops /\ loop'.alive = loop.alive /\ loop'.running = loop.running
    BY <1>1, <1>2 DEF Loops
  <2> QED
    BY <1>2, <2>1, <2>2 DEF LoopGoesOn, LateStays
<1>4. NothingDue("svc")
  <2> SUFFICES ASSUME NEW j \in jobs, j.to = "svc" PROVE StrayThen(j)
    BY DEF NothingDue
  <2>1. CASE Stray(j)
    BY <1>2, <2>1 DEF Stray, StrayThen
  <2>2. CASE ~Stray(j)
    <3>1. "svc" \in Threads /\ j \in Jobs
      BY SvcRecord, Parts
    <3>2. Finds(j) /\ j.req = "deinit" /\ j \in Answers
      BY <1>1, <2>2, <3>1, Parts, AnswerFields
         DEF ThreadsInv, AnswersAreAwaited, CallbacksFindTheirCall
    <3>3. j.op = "update"
      BY <1>1, <3>2 DEF Finds, Frame
    <3>4. d \in Answers /\ d.to = "svc" /\ d.req = "deinit" /\ d.op = "update"
      BY <3>1, StackMethods, JobIsOne
    <3>5. j = d
      BY <3>2, <3>3, <3>4, SameAnswer
    <3> QED
      BY <1>2, <3>3, <3>5 DEF StrayThen
  <2> QED
    BY <2>1, <2>2
<1> QED
  BY <1>1, <1>3, <1>4, TriesDownloadKeeps DEF MayAct

\* One post of a semaphore is consumed.
LEMMA OneRemoved ==
    ASSUME NEW S, NEW q \in Seq(S), NEW e, Contains(q, e)
    PROVE  LET i == CHOOSE k \in DOMAIN q : q[k] = e
           IN  RemoveAt(q, i) \in Seq(S) /\ (q = <<e>> => RemoveAt(q, i) = <<>>)
<1> DEFINE i == CHOOSE k \in DOMAIN q : q[k] = e
<1>1. i \in DOMAIN q /\ q[i] = e /\ DOMAIN q = 1 .. Len(q) /\ Len(q) \in Nat
  BY DEF Contains
<1> HIDE DEF i
<1>2. /\ SubSeq(q, 1, i - 1) \in Seq(S) /\ SubSeq(q, i + 1, Len(q)) \in Seq(S)
  BY <1>1
<1>3. RemoveAt(q, i) \in Seq(S)
  BY <1>2 DEF RemoveAt
<1>4. ASSUME q = <<e>> PROVE RemoveAt(q, i) = <<>>
  <2>1. i = 1 /\ Len(q) = 1
    BY <1>1, <1>4
  <2>2. SubSeq(q, 1, i - 1) = <<>> /\ SubSeq(q, i + 1, Len(q)) = <<>>
    BY <1>1, <2>1
  <2> QED
    BY <2>2 DEF RemoveAt
<1> QED
  BY <1>3, <1>4 DEF i

LEMMA LoadAnsweredKeeps ==
    ASSUME IndInv, LoadAnswered("svc")
    PROVE  IndInv'
<1> DEFINE q == th["svc"].sem
           i == CHOOSE k \in DOMAIN q : q[k] = "load"
           f == [th["svc"] EXCEPT !.sem = RemoveAt(q, i), !.req = "init"]
<1>1. /\ th["svc"].op = "initialize" /\ th["svc"].at = "wait" /\ th["svc"].req = "load"
      /\ Contains(q, "load") /\ OthersOK /\ LoopFollowsTheService /\ lock = "svc"
      /\ UNCHANGED <<llcp, dead, cnt>>
  BY SvcRecord, Parts DEF LoadAnswered
<1>2. /\ q \in Seq(Requests) /\ q # <<>> /\ (~loop.late => q = <<"load">>)
      /\ th["svc"].n \in 0 .. 3 /\ th["svc"].n > 0
  BY <1>1, SvcRecord DEF Calls, Contains, LoopFollowsTheService
<1>3. MayAct("svc")
  BY <1>1, <1>2 DEF MayAct, GoesOn
<1>4. CASE /\ th' = [th EXCEPT !["svc"] = f] /\ jobs' = jobs \cup {Job("init", "svc", "update")}
           /\ UNCHANGED <<lock, drv, loop, tgt>>
  <2>1. RemoveAt(q, i) \in Seq(Requests) /\ (~loop.late => RemoveAt(q, i) = <<>>)
    BY <1>1, <1>2, OneRemoved
  <2> HIDE DEF i
  <2>2. /\ f \in Calls /\ f.op = "initialize" /\ f.at = "wait" /\ f.req = "init"
        /\ f.n > 0 /\ (~loop.late => f.sem = <<>>)
    BY <1>1, <1>2, <2>1, SvcRecord, StackMethods DEF Calls
  <2>3. Holds("svc") /\ tgt' \in Targets /\ cnt' \in Counts /\ LoopGoesOn
    BY <1>1, <1>4, LoopStays DEF Holds, OthersOK
  <2> HIDE DEF f, q
  <2>4. Frame(f) = "update"
    BY <2>2 DEF Frame
  <2> QED
    BY <1>1, <1>2, <1>3, <1>4, <2>2, <2>3, <2>4, StackMethods, InitAsks DEF q
<1>5. CASE TriesDownload("svc") /\ UNCHANGED loop
  <2>1. UNCHANGED drv
    BY <1>5 DEF TriesDownload, InitFails
  <2> QED
    BY <1>1, <1>3, <1>5, <2>1, LoopStays, TriesDownloadKeeps
<1> QED
  BY <1>4, <1>5 DEF LoadAnswered

LEMMA SettingsAnsweredKeeps ==
    ASSUME IndInv, NEW r \in {"mem", "seOff"}, NEW n \in {"seOff", "llcpConfig"},
           SettingsAnswered("svc", r, n)
    PROVE  IndInv'
<1>1. /\ MayAct("svc") /\ lock = "svc" /\ th["svc"].op = "initialize" /\ th["svc"].at = "wait"
      /\ th["svc"].req = r /\ OthersOK /\ UNCHANGED <<llcp, dead>>
  BY AtTheAnswer, Parts DEF SettingsAnswered
<1>2. CASE Pending("svc", n) /\ UNCHANGED <<lock, drv, loop, tgt>>
  <2> DEFINE c == Consumed(th["svc"])
             f == [c EXCEPT !.at = "wait", !.req = n]
  <2>1. c \in Calls /\ c.op = "initialize" /\ c.at = "wait" /\ c.sem = <<>>
    BY <1>1, SvcRecord, ConsumedRecord, Frames
  <2>2. /\ th' = [th EXCEPT !["svc"] = f] /\ cnt' = cnt
        /\ jobs' = jobs \cup {Job(n, "svc", "initialize")}
    BY <1>1, <1>2 DEF Pending
  <2> HIDE DEF c
  <2>3. f \in Calls /\ f.op = "initialize" /\ f.at = "wait" /\ f.req = n /\ f.sem = <<>>
    BY <2>1, StackMethods DEF Calls
  <2>4. Holds("svc") /\ tgt' \in Targets /\ cnt' \in Counts /\ LoopGoesOn
    BY <1>1, <1>2, <2>2, LoopStays DEF Holds, OthersOK
  <2> HIDE DEF f
  <2>5. Frame(f) = "initialize"
    BY <2>3, Frames
  <2> QED
    BY <1>1, <2>2, <2>3, <2>4, <2>5, StackMethods, InitAsks
<1>3. CASE InitFails("svc") /\ UNCHANGED loop /\ (cnt' = cnt \/ Refuses(n))
  <2>1. LoopGoesOn
    BY <1>1, <1>3, LoopStays DEF InitFails
  <2> QED
    BY <1>1, <1>3, <2>1, Refused, InitFailsKeeps
<1> QED
  BY <1>2, <1>3 DEF SettingsAnswered

LEMMA InitializedKeeps ==
    ASSUME IndInv, Initialized("svc")
    PROVE  IndInv'
<1>1. /\ MayAct("svc") /\ lock = "svc" /\ th["svc"].op = "initialize" /\ th["svc"].at = "wait"
      /\ th["svc"].sem # <<>> /\ OthersOK /\ LoopFollowsTheService /\ "svc" \in Threads
      /\ Returns("svc") /\ drv' = [drv EXCEPT !.on = TRUE]
      /\ UNCHANGED <<jobs, loop, tgt, llcp, dead, cnt>>
  BY AtTheAnswer, Parts DEF Initialized
<1>2. Moves("svc") /\ Awaits("svc") /\ th'["svc"] = Idle
  BY <1>1, Parts, Ends DEF LateStays
<1>3. drv' \in Drivers /\ drv'.conf = drv.conf /\ drv'.on = TRUE
  BY <1>1 DEF OthersOK, Drivers
<1>4. OthersOK'
  BY <1>1, <1>3 DEF OthersOK
<1>5. LoopFollowsTheService'
  BY <1>1, <1>2, <1>3, IdleRecord DEF LoopFollowsTheService, KillMessage, Job
<1> QED
  BY <1>1, <1>2, <1>4, <1>5, StepKeeps

LEMMA DoDownloadKeeps ==
    ASSUME IndInv, DoDownload("svc")
    PROVE  IndInv'
<1> DEFINE f == [th["svc"] EXCEPT !.at = "wait", !.req = "load"]
<1>1. /\ MayAct("svc") /\ Holds("svc") /\ th["svc"].op = "download" /\ th["svc"].at = "lock"
      /\ ThreadsInv /\ OthersOK /\ LoopFollowsTheService /\ "svc" \in Threads /\ Configured
      /\ UNCHANGED <<tgt, llcp, dead, cnt>>
  BY AtTheMutex, Parts, SvcRecord DEF DoDownload, Holds
<1>2. f \in Calls /\ f.op = "download" /\ f.at = "wait" /\ f.req = "load" /\ f.sem = <<>>
  BY <1>1, SvcRecord, StackMethods DEF Calls
<1>3. th' = [th EXCEPT !["svc"] = f] /\ jobs' = jobs \cup {Job("load", "svc", "download")}
  BY DEF DoDownload
<1> HIDE DEF f
<1>4. /\ Moves("svc") /\ Awaits("svc") /\ th'["svc"] = f
      /\ KillMessage \in jobs' => KillMessage \in jobs
  <2>1. Frame(f) = "download"
    BY <1>2, Frames
  <2>2. LateStays
    BY <1>1 DEF LateStays, Configured, OthersOK, Loops
  <2> QED
    BY <1>1, <1>2, <1>3, <2>1, <2>2, StackMethods, Asked
<1>5. KillMessage \notin jobs' /\ ~drv.on
  BY <1>1, <1>4 DEF LoopFollowsTheService
<1>6. OthersOK' /\ LoopFollowsTheService'
  <2>1. CASE drv.conf
    <3>1. UNCHANGED <<drv, loop>>
      BY <1>1, <2>1 DEF Configured
    <3> QED
      BY <1>1, <1>2, <1>4, <1>5, <3>1 DEF LoopFollowsTheService, OthersOK, KillMessage, Job
  <2>2. CASE ~drv.conf
    <3>1. loop.alive + 1 = 1
      BY <1>1, <2>2 DEF LoopFollowsTheService
    <3>2. /\ loop' = [loop EXCEPT !.alive = 1, !.running = TRUE]
          /\ drv' = [drv EXCEPT !.conf = TRUE]
      BY <1>1, <2>2, <3>1 DEF Configured
    <3>3. /\ loop'.alive = 1 /\ loop'.running /\ drv'.conf /\ drv'.on = FALSE
          /\ loop' \in Loops /\ drv' \in Drivers
      BY <1>1, <1>5, <3>2 DEF OthersOK, Drivers, Loops
    <3> QED
      BY <1>1, <1>2, <1>4, <1>5, <3>3 DEF LoopFollowsTheService, OthersOK, KillMessage, Job
  <2> QED
    BY <2>1, <2>2
<1> QED
  BY <1>1, <1>4, <1>6, StepKeeps

\* The driver is unconfigured by a method that returns.
LEMMA UnconfiguredKeeps ==
    ASSUME IndInv, MayAct("svc"), Unconfigured, Returns("svc"), UNCHANGED <<tgt, llcp, dead, cnt>>
    PROVE  IndInv'
<1>1. ThreadsInv /\ OthersOK /\ "svc" \in Threads /\ jobs' = {}
  BY Parts, SvcRecord DEF Unconfigured
<1>2. /\ loop' \in Loops /\ loop'.alive = 0 /\ LateStays
      /\ drv' \in Drivers /\ drv'.conf = FALSE /\ drv'.on = FALSE
  BY <1>1 DEF Unconfigured, OthersOK, Drivers, Loops, LateStays
<1>3. Moves("svc") /\ Awaits("svc") /\ th'["svc"] = Idle
  BY <1>1, <1>2, Ends
<1>4. OthersOK' /\ LoopFollowsTheService'
  BY <1>1, <1>2, <1>3, IdleRecord DEF LoopFollowsTheService, OthersOK
<1> QED
  BY <1>1, <1>3, <1>4, StepKeeps

LEMMA DownloadedKeeps ==
    ASSUME IndInv, Downloaded("svc")
    PROVE  IndInv'
BY AtTheAnswer, UnconfiguredKeeps DEF Downloaded

LEMMA DriverGoneKeeps ==
    ASSUME IndInv, DriverGone("svc")
    PROVE  IndInv'
BY UnconfiguredKeeps DEF DriverGone, MayAct

\* The service does not leave doDeinitialize before the driver is gone.
LEMMA LoopWhileStopping ==
    ASSUME IndInv, th["svc"].op = "deinitialize", th["svc"].at # "killing", UNCHANGED <<loop, drv>>,
           th'["svc"].op \in {"deinitialize", "none"},
           th'["svc"].at = "killing" => th'["svc"].op # "none",
           KillMessage \in jobs' => KillMessage \in jobs \/ th'["svc"].at = "killing"
    PROVE  LoopFollowsTheService'
<1>1. LoopFollowsTheService
  BY Parts
<1> QED
  BY <1>1 DEF LoopFollowsTheService, KillMessage, Job

LEMMA DeinitializeKeeps ==
    ASSUME IndInv, Deinitialize("svc")
    PROVE  IndInv'
<1>1. /\ MayAct("svc") /\ lock = "none" /\ th["svc"].op = "deinitialize" /\ th["svc"].at = "lock"
      /\ ThreadsInv /\ OthersOK /\ "svc" \in Threads
  BY AtTheMutex, Parts, SvcRecord DEF Deinitialize
<1>2. CASE Pending("svc", "deinit") /\ lock' = "svc" /\ UNCHANGED <<loop, drv, tgt, llcp, dead>>
  <2>1. Asks("svc", "deinit") /\ cnt' = cnt
    BY <1>1, <1>2, Taken
  <2>2. /\ Moves("svc") /\ Awaits("svc")
        /\ th'["svc"].op = "deinitialize" /\ th'["svc"].at = "wait"
        /\ KillMessage \in jobs' => KillMessage \in jobs
    BY <1>1, <1>2, <2>1, StackMethods, Pends DEF Holds, LateStays
  <2>3. LoopFollowsTheService'
    BY <1>1, <1>2, <2>2, LoopWhileStopping
  <2>4. OthersOK'
    BY <1>1, <1>2, <2>1 DEF OthersOK
  <2> QED
    BY <1>1, <2>2, <2>3, <2>4, StepKeeps
<1>3. CASE Refuses("deinit") /\ EmergencyRecovery
  BY <1>1, <1>3, Refused, Same, ThreadsStay DEF EmergencyRecovery
<1> QED
  BY <1>2, <1>3 DEF Deinitialize

LEMMA DeinitializedKeeps ==
    ASSUME IndInv, Deinitialized("svc")
    PROVE  IndInv'
<1>1. CASE /\ Woken("svc", "deinitialize", "deinit")
           /\ th' = [th EXCEPT !["svc"].at = "killing"]
           /\ jobs' = jobs \cup {KillMessage}
           /\ UNCHANGED <<lock, loop, drv, tgt, llcp, dead, cnt>>
  <2> DEFINE f == [th["svc"] EXCEPT !.at = "killing"]
  <2>1. /\ MayAct("svc") /\ lock = "svc" /\ th["svc"].op = "deinitialize" /\ th["svc"].at = "wait"
        /\ th["svc"] \in Calls /\ ThreadsInv /\ OthersOK /\ "svc" \in Threads /\ jobs \subseteq Jobs
        /\ th["svc"].sem \in {<<>>, <<th["svc"].req>>} /\ LateStays
    BY <1>1, AtTheAnswer, Parts, SvcRecord, Frames DEF LateStays
  <2>2. /\ f \in Calls /\ f.op = "deinitialize" /\ f.at = "killing" /\ f.sem = th["svc"].sem
        /\ f.req = th["svc"].req
    BY <2>1 DEF Calls
  <2>3. th' = [th EXCEPT !["svc"] = f]
    BY <1>1
  <2> HIDE DEF f
  <2>4. /\ th' \in [Threads -> Calls] /\ th'["svc"] = f
        /\ \A u \in Threads \ {"svc"} : th'[u] = th[u]
    BY <2>1, <2>2, <2>3, Parts DEF TypeOK
  <2>5. jobs' \subseteq Jobs /\ (\A k \in jobs' \ jobs : k.to \notin Threads)
    BY <1>1, <2>1 DEF Jobs, KillMessage, Job, Threads
  <2>6. Moves("svc")
    BY <1>1, <2>1, <2>4, <2>5 DEF Moves
  <2>7. Awaits("svc")
    BY <2>1, <2>2, <2>4, <2>5, NothingIsDue DEF Awaits
  <2>8. LoopFollowsTheService' /\ OthersOK'
    BY <1>1, <2>1, <2>2, <2>4, LoopWhileStopping DEF OthersOK
  <2> QED
    BY <2>1, <2>6, <2>7, <2>8, StepKeeps
<1>2. CASE EmergencyRecovery /\ UNCHANGED cnt
  BY <1>2, Parts, Same, ThreadsStay DEF EmergencyRecovery
<1> QED
  BY <1>1, <1>2 DEF Deinitialized

-----------------------------------------------------------------------------
(* The message thread. *)

LEMMA LoopEndsKeeps ==
    ASSUME IndInv, LoopEnds
    PROVE  IndInv'
<1>1. TypeOK /\ OthersOK /\ ThreadsInv /\ LoopFollowsTheService
  BY Parts
<1>2. /\ loop.alive = 1 /\ loop'.alive = 0 /\ loop' \in Loops /\ loop'.late = loop.late
      /\ drv.conf
  <2>1. loop.alive = 1 /\ drv.conf /\ loop.alive - 1 = 0
    BY <1>1 DEF LoopEnds, LoopFollowsTheService
  <2>2. loop' = [loop EXCEPT !.alive = 0, !.running = FALSE]
    BY <2>1 DEF LoopEnds
  <2> QED
    BY <1>1, <2>1, <2>2 DEF OthersOK, Loops
<1>3. LoopFollowsTheService'
  <2>1. KillMessage \notin jobs' /\ loop'.alive = 0 /\ UNCHANGED <<th, drv>>
    BY <1>2 DEF LoopEnds, KillMessage, Job
  <2> QED
    BY <1>1, <2>1 DEF LoopEnds, LoopFollowsTheService, AnswersAreAwaited, KillMessage, Job
<1>4. TypeOK'
  BY <1>1, <1>2 DEF LoopEnds, TypeOK, Loops
<1>5. WaitersHoldTheLock' /\ AnswersAreAwaited'
  BY <1>1, <1>2 DEF LoopEnds, ThreadsInv, WaitersHoldTheLock, AnswersAreAwaited,
     CallbacksFindTheirCall, Finds, OneAtATime, Stray, Disturbed
<1>6. OneLoopServesTheStack'
  BY <1>3, <1>4 DEF LoopFollowsTheService, OneLoopServesTheStack, TypeOK
<1> QED
  BY <1>3, <1>4, <1>5, <1>6 DEF IndInv

LEMMA CallbackKeeps ==
    ASSUME IndInv, NEW j \in jobs, NEW ok \in BOOLEAN, Callback(j, ok)
    PROVE  IndInv'
<1>1. TypeOK /\ OthersOK /\ ThreadsInv /\ LoopFollowsTheService /\ j \in Jobs
  BY Parts
<1>2. /\ jobs' = jobs \ {j} /\ j # KillMessage /\ loop.alive > 0
      /\ UNCHANGED <<lock, loop, dead>>
  BY DEF Callback
<1> DEFINE k == IF th[j.to].req = "load" /\ j.req # "load" THEN th[j.to].ok ELSE ok
<1>3. \/ th' = th /\ ~Finds(j)
      \/ /\ Finds(j)
         /\ th' = [th EXCEPT ![j.to] = [th[j.to] EXCEPT !.sem = Append(@, j.req), !.ok = k]]
  BY DEF Callback, Posts
<1>4. \A t \in Threads : /\ th[t] \in Calls /\ th'[t] \in Calls
                         /\ th'[t].op = th[t].op /\ th'[t].at = th[t].at /\ th'[t].req = th[t].req
                         /\ th'[t].n = th[t].n /\ (t # j.to \/ ~Finds(j) => th'[t] = th[t])
  <2>1. CASE th' = th
    BY <1>1, <2>1 DEF TypeOK
  <2>2. CASE /\ Finds(j)
             /\ th' = [th EXCEPT ![j.to] = [th[j.to] EXCEPT !.sem = Append(@, j.req), !.ok = k]]
    <3>1. j.to \in Threads /\ th[j.to] \in Calls /\ j.req \in Requests /\ k \in BOOLEAN
      BY <1>1, <2>2, AnswerFields DEF Finds, TypeOK, Calls
    <3> HIDE DEF k
    <3>2. Append(th[j.to].sem, j.req) \in Seq(Requests)
      BY <3>1 DEF Calls
    <3>3. [th[j.to] EXCEPT !.sem = Append(@, j.req), !.ok = k] \in Calls
      BY <3>1, <3>2 DEF Calls
    <3>4. /\ th'[j.to].op = th[j.to].op /\ th'[j.to].at = th[j.to].at
          /\ th'[j.to].req = th[j.to].req /\ th'[j.to].n = th[j.to].n
      BY <1>1, <2>2, <3>1 DEF TypeOK, Calls
    <3> QED
      BY <1>1, <2>2, <3>1, <3>3, <3>4 DEF TypeOK
  <2> QED
    BY <1>3, <2>1, <2>2
<1>5. th' \in [Threads -> Calls]
  BY <1>1, <1>3, <1>4 DEF TypeOK
<1>6. drv' \in Drivers /\ drv'.conf = drv.conf /\ drv'.on = drv.on
  BY <1>1 DEF Callback, DriverAfter, OthersOK, Drivers
<1>7. tgt' \in Targets
  <2>1. j.req = "checkNdef" => th[j.to].id \in Ids
    BY <1>1, AnswerFields DEF TypeOK, Calls
  <2>2. 0 \in Ids /\ tgt \in Targets /\ tgt' = TargetAfter(j, ok)
    BY <1>1, BoundsAssumption DEF Ids, OthersOK, Callback
  <2> QED
    BY <2>1, <2>2 DEF TargetAfter, Targets
<1>8. llcp' \in Links
  <2>1. /\ llcp \in Links /\ llcp' = LinkAfter(j, ok)
        /\ <<>> \in Seq(Nat) /\ <<j.n>> \o llcp.clients \in Seq(Nat)
    BY <1>1, AnswerFields DEF OthersOK, Callback, Links
  <2> QED
    BY <2>1 DEF LinkAfter, Links
<1>9. cnt' \in Counts
  BY <1>1 DEF Callback, OthersOK, Counts
<1>10. TypeOK'
  BY <1>1, <1>2, <1>5, <1>6, <1>7, <1>8, <1>9 DEF TypeOK, Drivers, Targets, Links, Counts, OthersOK, Loops
<1>11. WaitersHoldTheLock'
  BY <1>1, <1>2, <1>4 DEF ThreadsInv, WaitersHoldTheLock, Threads
<1>12. LoopFollowsTheService'
  <2>1. "svc" \in Threads /\ loop.alive = 1 /\ KillMessage' = KillMessage
    BY <1>1, <1>2 DEF LoopFollowsTheService, Threads, KillMessage, Job
  <2>2. /\ th'["svc"].op = th["svc"].op /\ th'["svc"].at = th["svc"].at
        /\ th'["svc"].req = th["svc"].req /\ th'["svc"].n = th["svc"].n
    BY <1>4, <2>1
  <2> QED
    BY <1>1, <1>2, <1>6, <2>1, <2>2 DEF LoopFollowsTheService
<1>13. AnswersAreAwaited'
  <2>1. /\ CallbacksFindTheirCall /\ OneAtATime
        /\ \A t \in Threads :
             th[t].sem # <<>> \/ Frame(th[t]) = "update" => th[t].at \in {"wait", "killing"}
    BY <1>1 DEF ThreadsInv, AnswersAreAwaited
  <2>2. \A i : Stray(i)' = Stray(i)
    BY <1>2 DEF Stray
  <2>3. \A t \in Threads : Frame(th'[t]) = Frame(th[t])
    BY <1>4 DEF Frame
  <2>4. OneAtATime'
    BY <1>2, <2>1, <2>2 DEF OneAtATime
  <2>5. ASSUME j.to \in Threads, ~Stray(j)
        PROVE  /\ Finds(j) /\ th[j.to].at = "wait" /\ th[j.to].req = j.req
               /\ th[j.to].sem = <<>> /\ th'[j.to].sem = <<j.req>>
    <3>1. /\ Finds(j) /\ th[j.to].at = "wait" /\ th[j.to].req = j.req
          /\ th[j.to].sem = <<>> /\ th[j.to] \in Calls /\ th \in [Threads -> Calls]
      BY <1>1, <2>1, <2>5 DEF CallbacksFindTheirCall, TypeOK
    <3> HIDE DEF k
    <3>2. th' = [th EXCEPT ![j.to] = [th[j.to] EXCEPT !.sem = Append(<<>>, j.req), !.ok = k]]
      BY <1>3, <3>1
    <3>3. Append(<<>>, j.req) = <<j.req>>
      OBVIOUS
    <3> QED
      BY <2>5, <3>1, <3>2, <3>3 DEF Calls
  <2>6. ASSUME Finds(j), Stray(j) PROVE Frame(th[j.to]) = "update" /\ loop.late /\ j.to \in Threads
    BY <2>6 DEF Finds, Stray
  <2>7. ASSUME NEW i \in jobs', i.to \in Threads, ~Stray(i), i.to = j.to PROVE ~Finds(j)
    <3>1. i \in jobs /\ i # j /\ i \in Answers /\ j \in Answers /\ Finds(i)
      BY <1>1, <1>2, <2>1, <2>7, AnswerFields DEF TypeOK, CallbacksFindTheirCall
    <3>2. CASE Stray(j)
      BY <2>6, <2>7, <3>1, <3>2 DEF Finds, Stray
    <3>3. CASE ~Stray(j)
      <4>1. i.op = j.op /\ i.req = j.req
        BY <1>2, <2>1, <2>7, <3>1, <3>3 DEF CallbacksFindTheirCall, Finds
      <4> QED
        BY <2>7, <3>1, <4>1, SameAnswer
    <3> QED
      BY <3>2, <3>3
  <2>8. \A i \in jobs' : i.to \in Threads /\ ~Stray(i) =>
          /\ Frame(th'[i.to]) = i.op /\ i # Astray
          /\ th'[i.to].at = "wait" /\ th'[i.to].req = i.req /\ th'[i.to].sem = <<>>
    BY <1>2, <1>4, <2>1, <2>3, <2>7 DEF CallbacksFindTheirCall, Finds
  <2>9. \A t \in Threads :
          ~(loop.late /\ Frame(th[t]) = "update") => th'[t].sem \in {<<>>, <<th'[t].req>>}
    <3>1. SUFFICES ASSUME NEW t \in Threads, ~(loop.late /\ Frame(th[t]) = "update")
                   PROVE  th'[t].sem \in {<<>>, <<th'[t].req>>}
      OBVIOUS
    <3>2. CASE t = j.to /\ Finds(j)
      BY <1>4, <2>5, <2>6, <3>1, <3>2
    <3>3. CASE t # j.to \/ ~Finds(j)
      BY <1>4, <2>1, <3>1, <3>3 DEF CallbacksFindTheirCall, Disturbed
    <3> QED
      BY <3>2, <3>3
  <2>10. \A t \in Threads :
           th'[t].sem # <<>> \/ Frame(th'[t]) = "update" => th'[t].at \in {"wait", "killing"}
    <3>1. SUFFICES ASSUME NEW t \in Threads, th'[t].sem # <<>>, Frame(th[t]) # "update"
                   PROVE  th'[t].at \in {"wait", "killing"}
      BY <1>4, <2>1, <2>3
    <3>2. CASE t = j.to /\ Finds(j)
      BY <1>4, <2>5, <2>6, <3>1, <3>2
    <3>3. CASE t # j.to \/ ~Finds(j)
      BY <1>4, <2>1, <3>1, <3>3
    <3> QED
      BY <3>2, <3>3
  <2>11. CallbacksFindTheirCall'
    BY <1>2, <2>2, <2>3, <2>8, <2>9 DEF CallbacksFindTheirCall, Finds, Disturbed
  <2> QED
    BY <2>4, <2>10, <2>11 DEF AnswersAreAwaited
<1>14. OneLoopServesTheStack'
  BY <1>10, <1>12 DEF LoopFollowsTheService, OneLoopServesTheStack, TypeOK
<1> QED
  BY <1>10, <1>11, <1>12, <1>13, <1>14 DEF IndInv

-----------------------------------------------------------------------------
(* What is called, and the end of the process. *)

LEMMA EntersRecord ==
    ASSUME IndInv, NEW t \in Threads, NEW op \in Methods, Enters(t, op)
    PROVE  /\ Moves(t) /\ Awaits(t)
           /\ th'[t].op = op /\ th'[t].at = "lock" /\ th'[t].sem = <<>> /\ th'[t].req = "none"
           /\ th[t] = Idle /\ UNCHANGED <<lock, jobs, loop, drv, tgt, llcp, dead>>
<1> DEFINE f == [Idle EXCEPT !.op = op, !.at = "lock", !.id = tgt.told]
<1>1. tgt.told \in Ids /\ lock \in Threads \cup {"none"}
  BY Parts DEF TypeOK
<1>2. f \in Calls /\ f.op = op /\ f.at = "lock" /\ f.sem = <<>> /\ f.req = "none"
  BY <1>1, IdleRecord DEF Calls, Idle
<1>3. /\ th' = [th EXCEPT ![t] = f] /\ th[t] = Idle
      /\ UNCHANGED <<lock, jobs, loop, drv, tgt, llcp, dead>>
  BY DEF Enters
<1>4. MayAct(t)
  BY <1>3, IdleRecord DEF MayAct
<1> HIDE DEF f
<1>5. Moves(t) /\ Awaits(t) /\ th'[t] = f
  BY <1>1, <1>2, <1>3, <1>4, Parts, Proceeds DEF LateStays
<1> QED
  BY <1>2, <1>3, <1>5

LEMMA ServiceCallsKeeps ==
    ASSUME IndInv, NEW op \in ServiceOps, ServiceCalls(op)
    PROVE  IndInv'
<1>1. "svc" \in Threads /\ op \in Methods /\ OthersOK /\ LoopFollowsTheService
  BY Parts DEF Threads, Methods
<1>2. /\ Moves("svc") /\ Awaits("svc")
      /\ th'["svc"].op = op /\ th'["svc"].at = "lock" /\ th'["svc"].sem = <<>>
      /\ th'["svc"].req = "none"
      /\ th["svc"] = Idle /\ UNCHANGED <<lock, jobs, loop, drv, tgt, llcp, dead>>
  BY <1>1, EntersRecord DEF ServiceCalls
<1>3. cnt' \in Counts
  BY <1>1 DEF ServiceCalls, OthersOK, Counts
<1>4. OthersOK'
  BY <1>1, <1>2, <1>3 DEF OthersOK
<1>5. /\ op = "initialize" => ~drv.on /\ KillMessage \notin jobs
      /\ op = "download" => ~drv.conf
      /\ op \notin {"initialize", "download"} => drv.on
  BY DEF ServiceCalls
<1>6. /\ KillMessage \in jobs => drv.conf /\ ~drv.on
      /\ drv.on => drv.conf /\ loop.alive = 1
  BY <1>1, <1>2, IdleRecord DEF LoopFollowsTheService
<1>7. LoopFollowsTheService'
  BY <1>1, <1>2, <1>5, <1>6 DEF LoopFollowsTheService, KillMessage, Job
<1> QED
  BY <1>1, <1>2, <1>4, <1>7, StepKeeps

LEMMA TagEntersKeeps ==
    ASSUME IndInv, NEW op \in Methods, Enters("tag", op), cnt' = cnt \/ cnt' \in Counts
    PROVE  IndInv'
<1>1. "tag" \in Threads /\ OthersOK
  BY Parts DEF Threads
<1>2. /\ Moves("tag") /\ Awaits("tag")
      /\ UNCHANGED <<lock, jobs, loop, drv, tgt, llcp, dead>>
  BY <1>1, EntersRecord
<1> QED
  BY <1>1, <1>2, Same, StepLeaves

LEMMA TagCallsKeeps ==
    ASSUME IndInv,
           NEW op \in PlainTagOps \cup {"connect", "checkNdef", "read", "p2pConnect", "checkLlcp"},
           TagCalls(op)
    PROVE  IndInv'
<1>1. op \in Methods
  BY DEF Methods, TagMethods, PeerMethods
<1>2. cnt' \in Counts
  BY Parts DEF TagCalls, OthersOK, Counts
<1> QED
  BY <1>1, <1>2, TagEntersKeeps DEF TagCalls

LEMMA TagIsDroppedKeeps ==
    ASSUME IndInv, TagIsDropped
    PROVE  IndInv'
<1>1. "disconnect" \in Methods /\ "p2pDisconnect" \in Methods
  BY DEF Methods, TagMethods, PeerMethods
<1> QED
  BY <1>1, TagEntersKeeps DEF TagIsDropped

LEMMA WatchDogBitesKeeps ==
    ASSUME IndInv, WatchDogBites
    PROVE  IndInv'
BY Parts, Same, ThreadsStay DEF WatchDogBites, EmergencyRecovery

\* Nothing is called and nothing is due.
AtRest ==
  /\ lock = "none" /\ th = [t \in Threads |-> Idle] /\ jobs = {}
  /\ loop.alive = 0 /\ loop.running = FALSE /\ drv.conf = FALSE /\ drv.on = FALSE

LEMMA AtRestInvariant == OthersOK /\ AtRest => IndInv
<1> SUFFICES ASSUME OthersOK, AtRest PROVE IndInv
  OBVIOUS
<1>1. \A t \in Threads : th[t] = Idle
  BY DEF AtRest
<1>2. TypeOK
  BY IdleRecord DEF AtRest, TypeOK, OthersOK, Drivers, Targets, Links, Counts, Loops
<1>3. WaitersHoldTheLock /\ AnswersAreAwaited
  BY <1>1, IdleRecord DEF AtRest, WaitersHoldTheLock, AnswersAreAwaited, CallbacksFindTheirCall,
     OneAtATime, Threads
<1>4. LoopFollowsTheService /\ OneLoopServesTheStack
  BY <1>1, IdleRecord DEF AtRest, LoopFollowsTheService, OneLoopServesTheStack, Threads
<1> QED
  BY <1>2, <1>3, <1>4 DEF IndInv

LEMMA InitKeeps ==
    ASSUME Init PROVE IndInv
<1>1. 0 \in Ids /\ <<>> \in Seq(Kinds) /\ <<>> \in Seq(Nat)
  BY BoundsAssumption DEF Ids
<1>2. OthersOK
  BY <1>1 DEF Init, OthersOK, Drivers, Targets, Links, Counts, Loops
<1> QED
  BY <1>2, AtRestInvariant DEF Init, AtRest

LEMMA RestartsKeeps ==
    ASSUME IndInv, Restarts
    PROVE  IndInv'
<1>1. 0 \in Ids /\ <<>> \in Seq(Nat) /\ OthersOK
  BY BoundsAssumption, Parts DEF Ids
<1>2. OthersOK' /\ AtRest'
  BY <1>1 DEF Restarts, AtRest, OthersOK, Drivers, Targets, Links, Loops
<1> QED
  BY <1>2, AtRestInvariant, PTL

-----------------------------------------------------------------------------
(* The theorems. *)

LEMMA ServiceStepsKeep ==
    ASSUME IndInv, Steps("svc")
    PROVE  IndInv'
<1>1. CASE \/ Initialize("svc") \/ InitAnswered("svc") \/ StoppedForDownload("svc")
           \/ LoadAnswered("svc") \/ SettingsAnswered("svc", "mem", "seOff")
           \/ SettingsAnswered("svc", "seOff", "llcpConfig") \/ Initialized("svc")
           \/ DoDownload("svc") \/ Downloaded("svc") \/ Deinitialize("svc")
           \/ Deinitialized("svc") \/ DriverGone("svc")
  BY <1>1, InitializeKeeps, InitAnsweredKeeps, StoppedForDownloadKeeps, LoadAnsweredKeeps,
     SettingsAnsweredKeeps, InitializedKeeps, DoDownloadKeeps, DownloadedKeeps, DeinitializeKeeps,
     DeinitializedKeeps, DriverGoneKeeps
<1>2. CASE \/ EnableDiscovery("svc") \/ SetReaderMode("svc") \/ DisableDiscovery("svc")
           \/ DiscoveryAnswered("svc", "enableDiscovery", "configure")
           \/ DiscoveryAnswered("svc", "readerMode", "configure")
           \/ DiscoveryAnswered("svc", "disableDiscovery", "stop") \/ SetTimeout("svc")
  BY <1>2, EnableDiscoveryKeeps, SetReaderModeKeeps, DisableDiscoveryKeeps, DiscoveryAnsweredKeeps,
     SetTimeoutKeeps, DiscoveryMethods
<1>3. ASSUME NEW op \in {"seOpen", "seClose"},
             \/ SeBegins("svc", op) \/ SeDone("svc", op)
             \/ \E r \in {"seField", "seFound", "seConnect", "seRead", "seRelease"} :
                  SeAnswered("svc", op, r) \/ SeGoesOn("svc", op, r)
      PROVE  IndInv'
  BY <1>3, SeBeginsKeeps, SeDoneKeeps, SeAnsweredKeeps, SeGoesOnKeeps
<1>4. CASE SeWired("svc")
  BY <1>4, SeWiredKeeps
<1>5. CASE SeTransceive("svc")
  BY <1>5, SeMethods, OneRequestKeeps DEF SeTransceive
<1>6. CASE SeSelect("svc") \/ SeDeselect("svc")
  BY <1>6, SetsModeKeeps DEF SeSelect, SeDeselect
<1>7. CASE \E op \in {"seTransceive", "seOn", "seOff"} : SeRequestAnswered("svc", op)
  BY <1>7, SeRequestAnsweredKeeps
<1> QED
  BY <1>1, <1>2, <1>3, <1>4, <1>5, <1>6, <1>7 DEF Steps

LEMMA TagStepsKeep ==
    ASSUME IndInv, Steps("tag")
    PROVE  IndInv'
<1>1. CASE \/ DoTransceive("tag") \/ DoPresenceCheck("tag") \/ DoWrite("tag") \/ DoNdefFormat("tag")
           \/ DoMakeReadonly("tag") \/ DoCheckNdef("tag") \/ DoRead("tag") \/ DoConnect("tag")
           \/ CheckLlcp("tag")
  BY <1>1, TagRequestsKeep
<1>2. CASE \E op \in PlainTagOps \cup {"checkNdef", "read", "connect"} : TagAnswered("tag", op)
  BY <1>2, TagAnsweredKeeps
<1>3. ASSUME NEW op \in {"disconnect", "p2pDisconnect"},
             DoDisconnect("tag", op) \/ \E r \in {op, "configure"} : Disconnected("tag", op, r)
      PROVE  IndInv'
  BY <1>3, DoDisconnectKeeps, DisconnectedKeeps
<1>4. CASE P2pConnect("tag") \/ P2pConnected("tag") \/ LlcpChecked("tag")
  BY <1>4, P2pConnectKeeps, P2pConnectedKeeps, LlcpCheckedKeeps
<1>5. CASE DiscoveryAnswered("tag", "p2pConnect", "configure")
  BY <1>5, TagMethodsArePlain, DiscoveryAnsweredKeeps
<1> QED
  BY <1>1, <1>2, <1>3, <1>4, <1>5 DEF Steps

LEMMA SocketStepsKeep ==
    ASSUME IndInv, SocketSteps
    PROVE  IndInv'
BY SocketRequestKeeps, SocketAnsweredKeeps, DoAcceptKeeps, NobodyWaitsKeeps, AcceptWakesKeeps,
   AcceptsClientKeeps, AcceptedKeeps, SocketMethodsArePlain
   DEF SocketSteps, SocketConnects, SocketSends, SocketReceives

LEMMA StutterKeeps ==
    ASSUME IndInv, UNCHANGED vars
    PROVE  IndInv'
<1>1. Elsewhere
  BY Parts, Same DEF vars
<1> QED
  BY <1>1, ThreadsStay DEF vars

\* The invariant of the JNI over libnfc, whatever libnfc refuses, fails or
\* delays: the state is well formed, a thread that waits holds the
\* concurrency mutex, one message thread serves an initialized stack, and every
\* callback that is not one of the two stray cases finds its call.
THEOREM Invariance == Spec => []IndInv
<1>1. Init => IndInv
  BY InitKeeps
<1>2. IndInv /\ [Next]_vars => IndInv'
  <2> SUFFICES ASSUME IndInv, [Next]_vars PROVE IndInv'
    OBVIOUS
  <2>1. CASE \E op \in ServiceOps : ServiceCalls(op)
    BY <2>1, ServiceCallsKeeps
  <2>2. CASE \E op \in PlainTagOps
                     \cup {"connect", "checkNdef", "read", "p2pConnect", "checkLlcp"} : TagCalls(op)
    BY <2>2, TagCallsKeeps
  <2>3. CASE TagIsDropped
    BY <2>3, TagIsDroppedKeeps
  <2>4. CASE Steps("svc")
    BY <2>4, ServiceStepsKeep
  <2>5. CASE Steps("tag")
    BY <2>5, TagStepsKeep
  <2>6. CASE SocketSteps
    BY <2>6, SocketStepsKeep
  <2>7. CASE LoopSteps
    BY <2>7, LoopEndsKeeps, CallbackKeeps DEF LoopSteps
  <2>8. CASE TargetFound \/ LinkLost \/ ClientConnects
    BY <2>8, TargetFoundKeeps, LinkLostKeeps, ClientConnectsKeeps
  <2>9. CASE WatchDogBites \/ Restarts
    BY <2>9, WatchDogBitesKeeps, RestartsKeeps
  <2>10. CASE UNCHANGED vars
    BY <2>10, StutterKeeps
  <2> QED
    BY <2>1, <2>2, <2>3, <2>4, <2>5, <2>6, <2>7, <2>8, <2>9, <2>10 DEF Next
<1> QED
  BY <1>1, <1>2, PTL DEF Spec

\* Every variable keeps its type.
THEOREM TypeCorrect == Spec => []TypeOK
<1>1. IndInv => TypeOK
  BY DEF IndInv
<1> QED
  BY <1>1, Invariance, PTL

\* An initialized stack that is not being taken down has exactly one message
\* thread (nfc_jni_client_thread), also when libnfc is slow to stop.
THEOREM OneLoop == Spec => []OneLoopServesTheStack
<1>1. IndInv => OneLoopServesTheStack
  BY DEF IndInv
<1> QED
  BY <1>1, Invariance, PTL

\* But for the answers of a download that did not await the end of the stack and
\* for the targets announced to a secure element's record, no callback posts a
\* semaphore that nobody waits on, none is due twice, and no answer is left over for a
\* later request, whatever libnfc refuses, fails or delays.
THEOREM CallbacksFound == Spec => []CallbacksFindTheirCall
<1>1. IndInv => CallbacksFindTheirCall
  BY DEF IndInv, AnswersAreAwaited
<1> QED
  BY <1>1, Invariance, PTL

\* But for those, the requests made under concurrency_mutex are due one at a time,
\* to the thread that holds it.
THEOREM RequestsOneAtATime == Spec => []OneAtATime
<1>1. IndInv => OneAtATime
  BY DEF IndInv, AnswersAreAwaited
<1> QED
  BY <1>1, Invariance, PTL

=============================================================================
