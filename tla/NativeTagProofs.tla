-------------------------- MODULE NativeTagProofs --------------------------
(***************************************************************************)
(* Proofs about NativeTag, for any kinds of tags, tags and operations: the *)
(* flags and requests by which the threads and the callback know of each   *)
(* other fit the places the threads are at, so that nobody waits for what  *)
(* does not come and no success is reported that was not answered.         *)
(***************************************************************************)
EXTENDS NativeTag, TLAPS

Cards == [rf : {"disc", "stopped", "active", "sleep"}, kind : Kinds \cup {"none"}, near : BOOLEAN]
Tags == [act : {"Idle", "Sleep", "Active"}, isActivated : BOOLEAN, timedOut : BOOLEAN,
         kind : Kinds \cup {"none"}, params : Kinds \cup {"none"},
         special : {"no", "cashbee", "ezlink"}, ep : 0..MaxTags]
Nts == [handle : {0, 1}, rfIntf : Intfs, mutex : Threads \cup {"free"},
        deact : BOOLEAN, sel : BOOLEAN, recon : BOOLEAN, conWait : BOOLEAN, conOk : BOOLEAN,
        txWait : BOOLEAN, txTimeout : BOOLEAN, rx : 0..MaxTags,
        reading : BOOLEAN, readSt : {"ok", "fail", "timeout"},
        checking : BOOLEAN, ckWait : BOOLEAN, ckSt : {"ok", "fail", "timeout"},
        size : BOOLEAN, capable : BOOLEAN,
        wrWait : BOOLEAN, wrOk : BOOLEAN, fmOk : BOOLEAN, roWait : BOOLEAN, roSt : BOOLEAN,
        present : BOOLEAN, vscRsp : BOOLEAN, inField : BOOLEAN, reconnecting : BOOLEAN,
        again : BOOLEAN]
Sems == [{"w", "f", "c", "r"} -> BOOLEAN]
Thrs == [pc : Places, op : Ops \cup {"none"}, h : {0, 1}, k : Returns,
         rv : {"ok", "fail", "lost"}, ep : 0..MaxTags, ntf : BOOLEAN,
         woken : BOOLEAN, key2 : BOOLEAN, ans : BOOLEAN]
Jobs(ep) == [r : Requests, ep : {ep}]
Timers == {"off", "presence", "reconnect"}
Watches == {"off", "on", "ended"}
Counts == [tags : 0..MaxTags, ops : 0..MaxOps]

Types ==
    /\ card \in Cards /\ tag \in Tags /\ nt \in Nts /\ sem \in Sems
    /\ thr \in [Threads -> Thrs]
    /\ jobs \in Seq(Jobs(tag.ep))
    /\ vtimer \in Timers /\ watch \in Watches
    /\ count \in Counts /\ tag.ep <= count.tags

Free == nt.mutex = "free" => ~nt.deact /\ ~nt.sel /\ ~nt.recon /\ ~nt.conWait

Apart == At("svc", "idle") \/ thr["dog"].pc \in {"idle", "disconnect"}

\* The rest of IndInv is about one thread: where it is,
SvcPlace(th) ==
    \/ th.pc = "idle" \/ th.pc \in Own(th.op)
    \/ th.pc \in Called /\ th.k \in Own(th.op) \cap Returns
DogPlace(th) ==
    /\ th.op \in {"none", "presence"}
    /\ \/ th.pc \in {"idle", "dogEnd", "disconnect"}
       \/ th.pc \in Checking /\ th.op = "presence" /\ th.k = "dogEnd"
Place(t) ==
    /\ IF t = "svc" THEN SvcPlace(thr[t]) ELSE DogPlace(thr[t])
    /\ thr[t].pc \in ReSelecting <=> nt.mutex = t

\* what it waits for, in the functions that are called,
CallWaits(t) ==
    /\ At(t, "presenceW") => Ahead("presence")
    /\ At(t, "goneW") => Ahead("idle")
    /\ At(t, "vscRspW") => Ahead("vsc")
    /\ thr[t].pc \in {"vscRspW", "vscRsp", "vscNtfW"} => vtimer # "off"

\* and in those of the operations,
OwnWaits(t) ==
    /\ At(t, "readW") => nt.reading /\ Ahead("read")
    /\ At(t, "ckWait") => sem["c"] \/ (nt.ckWait /\ Ahead("check"))
    /\ thr[t].pc \in {"wrFormat", "fmWait"} => sem["f"] \/ Ahead("format")
    /\ thr[t].op = "write" /\ thr[t].pc \notin {"idle", "write"} => sem["w"] \/ nt.wrWait
    /\ thr[t].pc \in {"wrWait", "wrSent"} => sem["w"] \/ Ahead("write")
    /\ thr[t].op = "readonly" /\ thr[t].pc \notin {"idle", "readonly"} => sem["r"] \/ nt.roWait
    /\ At(t, "roWait") => sem["r"] \/ Ahead("readonly")

\* and what its operation has been answered.
Notes(th) ==
    /\ th.pc = "wrWait" /\ nt.wrOk => th.ans
    /\ th.op = "format" /\ th.pc \notin {"idle", "format"} /\ nt.fmOk => th.ans
    /\ "fmOk" \in {th.pc, th.k} => th.ans
    /\ th.pc \in {"txW", "txEnd"} =>
         /\ nt.rx \in {0, th.ep}
         /\ \A i \in DOMAIN jobs : jobs[i].r = "raw" => jobs[i].ep = th.ep
    /\ th.pc = "idle" /\ th.rv = "ok" /\ th.op \in {"write", "format", "transceive"} => th.ans
    /\ nt.checking => th.op = "checkNdef" /\ th.pc \notin {"idle", "checkNdef"}

Fit(t) == Place(t) /\ CallWaits(t) /\ OwnWaits(t) /\ (t = "svc" => Notes(thr[t]))

Inv == Types /\ Free /\ Apart /\ \A t \in Threads : Fit(t)

LEMMA IndInvParts == IndInv <=> Inv
<1>1. TypeOK <=> Types
  BY DEF TypeOK, Types, Cards, Tags, Nts, Sems, Thrs, Jobs, Timers, Watches, Counts
<1>2. OneAtWork /\ FlagsOnlyInReSelect <=> Apart /\ Free /\ \A t \in Threads : Place(t)
  BY DEF OneAtWork, FlagsOnlyInReSelect, Apart, Free, Place, SvcPlace, DogPlace, Threads, At
<1>3. WaitsAreCovered <=> \A t \in Threads : CallWaits(t) /\ OwnWaits(t)
  BY DEF WaitsAreCovered, CallWaits, OwnWaits
<1>4. CheckingOnlyDuringCheck /\ AnswersAreNoted /\ SuccessIsAnswered <=> Notes(thr["svc"])
  BY DEF CheckingOnlyDuringCheck, AnswersAreNoted, SuccessIsAnswered, Notes, At
<1>5. "svc" \in Threads
  BY DEF Threads
<1> QED
  BY <1>1, <1>2, <1>3, <1>4, <1>5 DEF IndInv, Inv, Fit

-----------------------------------------------------------------------------
(* The types of updates. *)

LEMMA NtBools ==
    ASSUME NEW n \in Nts, NEW b \in BOOLEAN
    PROVE  /\ [n EXCEPT !.deact = b] \in Nts /\ [n EXCEPT !.sel = b] \in Nts
           /\ [n EXCEPT !.recon = b] \in Nts /\ [n EXCEPT !.conWait = b] \in Nts
           /\ [n EXCEPT !.conOk = b] \in Nts /\ [n EXCEPT !.txWait = b] \in Nts
           /\ [n EXCEPT !.txTimeout = b] \in Nts /\ [n EXCEPT !.reading = b] \in Nts
           /\ [n EXCEPT !.checking = b] \in Nts /\ [n EXCEPT !.ckWait = b] \in Nts
           /\ [n EXCEPT !.size = b] \in Nts /\ [n EXCEPT !.capable = b] \in Nts
           /\ [n EXCEPT !.wrWait = b] \in Nts /\ [n EXCEPT !.wrOk = b] \in Nts
           /\ [n EXCEPT !.fmOk = b] \in Nts /\ [n EXCEPT !.roWait = b] \in Nts
           /\ [n EXCEPT !.roSt = b] \in Nts /\ [n EXCEPT !.present = b] \in Nts
           /\ [n EXCEPT !.vscRsp = b] \in Nts /\ [n EXCEPT !.inField = b] \in Nts
           /\ [n EXCEPT !.reconnecting = b] \in Nts /\ [n EXCEPT !.again = b] \in Nts
<1>1. [n EXCEPT !.deact = b] \in Nts  BY DEF Nts
<1>2. [n EXCEPT !.sel = b] \in Nts  BY DEF Nts
<1>3. [n EXCEPT !.recon = b] \in Nts  BY DEF Nts
<1>4. [n EXCEPT !.conWait = b] \in Nts  BY DEF Nts
<1>5. [n EXCEPT !.conOk = b] \in Nts  BY DEF Nts
<1>6. [n EXCEPT !.txWait = b] \in Nts  BY DEF Nts
<1>7. [n EXCEPT !.txTimeout = b] \in Nts  BY DEF Nts
<1>8. [n EXCEPT !.reading = b] \in Nts  BY DEF Nts
<1>9. [n EXCEPT !.checking = b] \in Nts  BY DEF Nts
<1>10. [n EXCEPT !.ckWait = b] \in Nts  BY DEF Nts
<1>11. [n EXCEPT !.size = b] \in Nts  BY DEF Nts
<1>12. [n EXCEPT !.capable = b] \in Nts  BY DEF Nts
<1>13. [n EXCEPT !.wrWait = b] \in Nts  BY DEF Nts
<1>14. [n EXCEPT !.wrOk = b] \in Nts  BY DEF Nts
<1>15. [n EXCEPT !.fmOk = b] \in Nts  BY DEF Nts
<1>16. [n EXCEPT !.roWait = b] \in Nts  BY DEF Nts
<1>17. [n EXCEPT !.roSt = b] \in Nts  BY DEF Nts
<1>18. [n EXCEPT !.present = b] \in Nts  BY DEF Nts
<1>19. [n EXCEPT !.vscRsp = b] \in Nts  BY DEF Nts
<1>20. [n EXCEPT !.inField = b] \in Nts  BY DEF Nts
<1>21. [n EXCEPT !.reconnecting = b] \in Nts  BY DEF Nts
<1>22. [n EXCEPT !.again = b] \in Nts  BY DEF Nts
<1> QED
  BY <1>1, <1>2, <1>3, <1>4, <1>5, <1>6, <1>7, <1>8, <1>9, <1>10, <1>11, <1>12, <1>13, <1>14,
     <1>15, <1>16, <1>17, <1>18, <1>19, <1>20, <1>21, <1>22

LEMMA NtOthers ==
    ASSUME NEW n \in Nts
    PROVE  /\ \A m \in Threads \cup {"free"} : [n EXCEPT !.mutex = m] \in Nts
           /\ \A h \in {0, 1} : [n EXCEPT !.handle = h] \in Nts
           /\ \A i \in Intfs : [n EXCEPT !.rfIntf = i] \in Nts
           /\ \A e \in 0..MaxTags : [n EXCEPT !.rx = e] \in Nts
           /\ \A st \in {"ok", "fail", "timeout"} :
                [n EXCEPT !.readSt = st] \in Nts /\ [n EXCEPT !.ckSt = st] \in Nts
BY DEF Nts

LEMMA NtFields ==
    ASSUME NEW n \in Nts
    PROVE  DOMAIN n = {"handle", "rfIntf", "mutex", "deact", "sel", "recon", "conWait", "conOk",
                       "txWait", "txTimeout", "rx", "reading", "readSt", "checking", "ckWait",
                       "ckSt", "size", "capable", "wrWait", "wrOk", "fmOk", "roWait", "roSt",
                       "present", "vscRsp", "inField", "reconnecting", "again"}
BY DEF Nts

LEMMA TagTypes ==
    ASSUME NEW x \in Tags
    PROVE  /\ \A a \in {"Idle", "Sleep", "Active"} : [x EXCEPT !.act = a] \in Tags
           /\ \A b \in BOOLEAN : [x EXCEPT !.isActivated = b] \in Tags
           /\ \A b \in BOOLEAN : [x EXCEPT !.timedOut = b] \in Tags
           /\ \A k \in Kinds \cup {"none"} : [x EXCEPT !.kind = k] \in Tags
           /\ \A s \in {"no", "cashbee", "ezlink"} : [x EXCEPT !.special = s] \in Tags
           /\ DOMAIN x = {"act", "isActivated", "timedOut", "kind", "params", "special", "ep"}
BY DEF Tags

LEMMA ThrTypes ==
    ASSUME NEW x \in Thrs
    PROVE  /\ \A p \in Places : [x EXCEPT !.pc = p] \in Thrs
           /\ \A o \in Ops \cup {"none"} : [x EXCEPT !.op = o] \in Thrs
           /\ \A h \in {0, 1} : [x EXCEPT !.h = h] \in Thrs
           /\ \A k \in Returns : [x EXCEPT !.k = k] \in Thrs
           /\ \A rv \in {"ok", "fail", "lost"} : [x EXCEPT !.rv = rv] \in Thrs
           /\ \A e \in 0..MaxTags : [x EXCEPT !.ep = e] \in Thrs
           /\ \A b \in BOOLEAN : /\ [x EXCEPT !.ntf = b] \in Thrs /\ [x EXCEPT !.woken = b] \in Thrs
                                 /\ [x EXCEPT !.key2 = b] \in Thrs /\ [x EXCEPT !.ans = b] \in Thrs
           /\ DOMAIN x = {"pc", "op", "h", "k", "rv", "ep", "ntf", "woken", "key2", "ans"}
BY DEF Thrs

-----------------------------------------------------------------------------
(* The requests: what is ahead in a queue, and which tag frames are for.   *)

AheadIn(q, r) == \E i \in DOMAIN q : /\ q[i].r = r
                                     /\ \A j \in DOMAIN q : j > i => q[j].r \notin {"sleep", "stop"}
RawFor(q, e) == \A i \in DOMAIN q : q[i].r = "raw" => q[i].ep = e

LEMMA AheadOfJobs == \A r : Ahead(r) <=> AheadIn(jobs, r)
BY DEF Ahead, AheadIn

\* A new request takes no other one back, unless it puts the tag to sleep.
LEMMA Appended ==
    ASSUME NEW S, NEW q \in Seq(S), NEW x \in S
    PROVE  /\ Append(q, x) \in Seq(S)
           /\ AheadIn(Append(q, x), x.r)
           /\ \A r : AheadIn(q, r) /\ x.r \notin {"sleep", "stop"} => AheadIn(Append(q, x), r)
           /\ \A e : RawFor(q, e) /\ (x.r = "raw" => x.ep = e) => RawFor(Append(q, x), e)
<1> DEFINE p == Append(q, x)
<1>1. /\ p \in Seq(S) /\ Len(q) \in Nat /\ Len(p) = Len(q) + 1 /\ DOMAIN p = 1 .. Len(q) + 1
      /\ DOMAIN q = 1 .. Len(q)
      /\ p[Len(q) + 1] = x /\ \A i \in 1 .. Len(q) : p[i] = q[i]
  OBVIOUS
<1> HIDE DEF p
<1>2. AheadIn(p, x.r)
  <2>1. Len(q) + 1 \in DOMAIN p /\ \A j \in DOMAIN p : ~(j > Len(q) + 1)
    BY <1>1
  <2> QED
    BY <1>1, <2>1 DEF AheadIn
<1>3. ASSUME NEW r, AheadIn(q, r), x.r \notin {"sleep", "stop"} PROVE AheadIn(p, r)
  <2>1. PICK i \in DOMAIN q : /\ q[i].r = r
                              /\ \A j \in DOMAIN q : j > i => q[j].r \notin {"sleep", "stop"}
    BY <1>3 DEF AheadIn
  <2>2. i \in DOMAIN p /\ p[i].r = r
    BY <1>1, <2>1
  <2>3. ASSUME NEW j \in DOMAIN p, j > i PROVE p[j].r \notin {"sleep", "stop"}
    <3>1. CASE j = Len(q) + 1
      BY <1>1, <1>3, <3>1
    <3>2. CASE j # Len(q) + 1
      BY <1>1, <2>1, <2>3, <3>2
    <3> QED
      BY <3>1, <3>2
  <2> QED
    BY <2>2, <2>3 DEF AheadIn
<1>4. ASSUME NEW e, RawFor(q, e), x.r = "raw" => x.ep = e PROVE RawFor(p, e)
  <2> SUFFICES ASSUME NEW i \in DOMAIN p, p[i].r = "raw" PROVE p[i].ep = e
    BY DEF RawFor
  <2>1. CASE i = Len(q) + 1
    BY <1>1, <1>4, <2>1
  <2>2. CASE i # Len(q) + 1
    <3>1. i \in DOMAIN q /\ p[i] = q[i]
      BY <1>1, <2>2
    <3> QED
      BY <1>4, <3>1 DEF RawFor
  <2> QED
    BY <2>1, <2>2
<1> QED
  BY <1>1, <1>2, <1>3, <1>4 DEF p

\* What stays of a queue from the n-th request on.
LEMMA Cut ==
    ASSUME NEW S, NEW q \in Seq(S), NEW n \in DOMAIN q
    PROVE  /\ SubSeq(q, n + 1, Len(q)) \in Seq(S)
           /\ \A r : AheadIn(q, r) /\ (\A i \in 1 .. n : q[i].r = r => q[n].r \in {"sleep", "stop"} /\ i # n)
                       => AheadIn(SubSeq(q, n + 1, Len(q)), r)
           /\ \A e : RawFor(q, e) => RawFor(SubSeq(q, n + 1, Len(q)), e)
<1> DEFINE p == SubSeq(q, n + 1, Len(q))
<1>1. /\ p \in Seq(S) /\ Len(q) \in Nat /\ n \in 1 .. Len(q) /\ DOMAIN p = 1 .. Len(q) - n
      /\ DOMAIN q = 1 .. Len(q)
      /\ \A i \in 1 .. Len(q) - n : p[i] = q[i + n]
  OBVIOUS
<1> HIDE DEF p
<1>2. \A i \in DOMAIN p : i + n \in DOMAIN q /\ p[i] = q[i + n]
  BY <1>1
<1>3. ASSUME NEW r, AheadIn(q, r),
             \A i \in 1 .. n : q[i].r = r => q[n].r \in {"sleep", "stop"} /\ i # n
      PROVE  AheadIn(p, r)
  <2>1. PICK i \in DOMAIN q : /\ q[i].r = r
                              /\ \A j \in DOMAIN q : j > i => q[j].r \notin {"sleep", "stop"}
    BY <1>3 DEF AheadIn
  <2>2. i > n
    <3> SUFFICES ASSUME ~(i > n) PROVE FALSE
      OBVIOUS
    <3>1. i \in 1 .. n
      BY <1>1
    <3>2. q[n].r \in {"sleep", "stop"} /\ n > i
      BY <1>1, <1>3, <2>1, <3>1
    <3> QED
      BY <1>1, <2>1, <3>2
  <2>3. i - n \in DOMAIN p /\ p[i - n] = q[i]
    BY <1>1, <2>2
  <2>4. ASSUME NEW j \in DOMAIN p, j > i - n PROVE p[j].r \notin {"sleep", "stop"}
    <3>1. j + n \in DOMAIN q /\ j + n > i
      BY <1>1, <2>4
    <3> QED
      BY <1>2, <2>1, <3>1
  <2> QED
    BY <2>1, <2>3, <2>4 DEF AheadIn
<1>4. ASSUME NEW e, RawFor(q, e) PROVE RawFor(p, e)
  BY <1>2, <1>4 DEF RawFor
<1> QED
  BY <1>1, <1>3, <1>4 DEF p

\* The first request of a queue is served.
LEMMA Served ==
    ASSUME NEW S, NEW q \in Seq(S), q # << >>
    PROVE  /\ Tail(q) \in Seq(S) /\ Head(q) \in S
           /\ \A r : AheadIn(q, r) /\ Head(q).r # r => AheadIn(Tail(q), r)
           /\ \A e : RawFor(q, e) => RawFor(Tail(q), e) /\ (Head(q).r = "raw" => Head(q).ep = e)
<1>1. Head(q) = q[1] /\ q[1] \in S /\ 1 \in DOMAIN q /\ Tail(q) = SubSeq(q, 1 + 1, Len(q))
  OBVIOUS
<1> DEFINE p == Tail(q)
<1>2. /\ p \in Seq(S)
      /\ \A r : AheadIn(q, r) /\ (\A i \in 1 .. 1 : q[i].r = r => q[1].r \in {"sleep", "stop"} /\ i # 1)
                  => AheadIn(p, r)
      /\ \A e : RawFor(q, e) => RawFor(p, e)
  BY <1>1, Cut
<1> HIDE DEF p
<1>3. ASSUME NEW r, AheadIn(q, r), Head(q).r # r PROVE AheadIn(p, r)
  <2>1. \A i \in 1 .. 1 : q[i].r # r
    BY <1>1, <1>3
  <2> QED
    BY <1>2, <1>3, <2>1
<1>4. ASSUME NEW e, RawFor(q, e) PROVE Head(q).r = "raw" => Head(q).ep = e
  BY <1>1, <1>4 DEF RawFor
<1> QED
  BY <1>1, <1>2, <1>3, <1>4 DEF p

\* One request leaves the queue.
LEMMA Removed ==
    ASSUME NEW S, NEW q \in Seq(S), NEW n \in DOMAIN q
    PROVE  /\ RemoveAt(q, n) \in Seq(S)
           /\ \A r : AheadIn(q, r) /\ q[n].r # r => AheadIn(RemoveAt(q, n), r)
           /\ \A e : RawFor(q, e) => RawFor(RemoveAt(q, n), e)
<1> DEFINE a == SubSeq(q, 1, n - 1)
           b == SubSeq(q, n + 1, Len(q))
           p == RemoveAt(q, n)
<1>1. n \in 1 .. Len(q) /\ Len(q) \in Nat /\ DOMAIN q = 1 .. Len(q)
  OBVIOUS
<1>2. a \in Seq(S) /\ Len(a) = n - 1 /\ \A j \in 1 .. n - 1 : a[j] = q[j]
  BY <1>1
<1>3. b \in Seq(S) /\ Len(b) = Len(q) - n /\ \A j \in 1 .. Len(q) - n : b[j] = q[j + n]
  BY <1>1
<1>4. p = a \o b
  BY DEF RemoveAt
<1> HIDE DEF a, b, p
<1>5. /\ p \in Seq(S) /\ DOMAIN p = 1 .. Len(q) - 1
      /\ \A j \in 1 .. Len(q) - 1 : p[j] = IF j <= n - 1 THEN a[j] ELSE b[j - (n - 1)]
  <2>1. /\ a \o b \in Seq(S) /\ Len(a \o b) = Len(q) - 1
        /\ \A j \in 1 .. Len(q) - 1 : (a \o b)[j] = IF j <= n - 1 THEN a[j] ELSE b[j - (n - 1)]
    <3>1. n \in 1 .. Len(q) /\ Len(q) \in Nat
      BY <1>1
    <3>2. a \in Seq(S) /\ b \in Seq(S) /\ Len(a) = n - 1 /\ Len(b) = Len(q) - n
      BY <1>2, <1>3
    <3> QED
      BY <3>1, <3>2
  <2> QED
    BY <1>4, <2>1
<1>6. \A j \in 1 .. n - 1 : j \in DOMAIN p /\ p[j] = q[j]
  BY <1>1, <1>2, <1>5
<1>7. \A j \in n + 1 .. Len(q) : j - 1 \in DOMAIN p /\ p[j - 1] = q[j]
  <2> TAKE j \in n + 1 .. Len(q)
  <2>1. j - n \in 1 .. Len(q) - n /\ j - 1 \in 1 .. Len(q) - 1 /\ ~(j - 1 <= n - 1)
        /\ (j - 1) - (n - 1) = j - n
    BY <1>1
  <2> QED
    BY <1>3, <1>5, <2>1
<1>8. \A j \in DOMAIN p : IF j < n THEN j \in 1 .. n - 1 ELSE j + 1 \in n + 1 .. Len(q)
  BY <1>1, <1>5
<1>9. ASSUME NEW r, AheadIn(q, r), q[n].r # r PROVE AheadIn(p, r)
  <2>1. PICK i \in DOMAIN q : /\ q[i].r = r
                              /\ \A j \in DOMAIN q : j > i => q[j].r \notin {"sleep", "stop"}
    BY <1>9 DEF AheadIn
  <2> DEFINE m == IF i < n THEN i ELSE i - 1
  <2>2. m \in DOMAIN p /\ p[m].r = r
    BY <1>1, <1>6, <1>7, <1>9, <2>1
  <2>3. ASSUME NEW j \in DOMAIN p, j > m PROVE p[j].r \notin {"sleep", "stop"}
    <3>1. CASE j < n
      <4>1. j \in 1 .. n - 1 /\ j \in DOMAIN q /\ j > i
        BY <1>1, <1>8, <2>1, <2>3, <3>1
      <4> QED
        BY <1>6, <2>1, <4>1
    <3>2. CASE ~(j < n)
      <4>0. j + 1 > i
        BY <1>1, <1>5, <2>3, <3>2
      <4>1. j + 1 \in n + 1 .. Len(q) /\ j + 1 \in DOMAIN q /\ j + 1 > i /\ (j + 1) - 1 = j
        BY <1>1, <1>5, <1>8, <3>2, <4>0
      <4>2. p[j] = q[j + 1]
        BY <1>7, <4>1
      <4> QED
        BY <2>1, <4>1, <4>2
    <3> QED
      BY <3>1, <3>2
  <2> QED
    BY <2>2, <2>3 DEF AheadIn
<1>10. ASSUME NEW e, RawFor(q, e) PROVE RawFor(p, e)
  <2> SUFFICES ASSUME NEW j \in DOMAIN p, p[j].r = "raw" PROVE p[j].ep = e
    BY DEF RawFor
  <2>1. CASE j < n
    BY <1>1, <1>6, <1>8, <1>10, <2>1 DEF RawFor
  <2>2. CASE ~(j < n)
    <3>1. j + 1 \in n + 1 .. Len(q) /\ j + 1 \in DOMAIN q /\ (j + 1) - 1 = j
      BY <1>1, <1>5, <1>8, <2>2
    <3>2. p[j] = q[j + 1]
      BY <1>7, <3>1
    <3> QED
      BY <1>10, <3>1, <3>2 DEF RawFor
  <2> QED
    BY <2>1, <2>2
<1> QED
  BY <1>5, <1>9, <1>10 DEF p

-----------------------------------------------------------------------------
(* The steps of a thread.                                                  *)

Results == {"ok", "fail", "lost"}
Others(t) == \A u \in Threads : u # t => thr'[u] = thr[u]
SameOp(t) == thr'[t].op = thr[t].op /\ thr'[t].ans = thr[t].ans /\ thr'[t].ep = thr[t].ep

LEMMA RunOne ==
    ASSUME Types, NEW t \in Threads, NEW x \in Thrs, thr' = [thr EXCEPT ![t] = x]
    PROVE  thr' \in [Threads -> Thrs] /\ thr'[t] = x /\ Others(t)
BY DEF Types, Others

LEMMA ToRuns ==
    ASSUME Types, NEW t \in Threads, NEW p \in Places, To(t, p)
    PROVE  /\ thr' \in [Threads -> Thrs] /\ Others(t) /\ SameOp(t)
           /\ thr'[t].pc = p /\ thr'[t].k = thr[t].k /\ thr'[t].rv = thr[t].rv
<1> DEFINE x == [thr[t] EXCEPT !.pc = p]
<1>1. thr[t] \in Thrs
  BY DEF Types
<1>2. /\ x \in Thrs /\ x.pc = p /\ x.k = thr[t].k /\ x.rv = thr[t].rv
      /\ x.op = thr[t].op /\ x.ans = thr[t].ans /\ x.ep = thr[t].ep
  BY <1>1, ThrTypes
<1>3. thr' = [thr EXCEPT ![t] = x]
  BY DEF To
<1> HIDE DEF x
<1> QED
  BY <1>2, <1>3, RunOne DEF SameOp

LEMMA ReturnRuns ==
    ASSUME Types, NEW t \in Threads, NEW rv \in Results, Return(t, rv)
    PROVE  /\ thr' \in [Threads -> Thrs] /\ Others(t) /\ SameOp(t)
           /\ thr'[t].pc = thr[t].k /\ thr'[t].k = thr[t].k /\ thr'[t].rv = rv
<1> DEFINE y == [thr[t] EXCEPT !.pc = thr[t].k]
           x == [y EXCEPT !.rv = rv]
<1>1. thr[t] \in Thrs /\ thr[t].k \in Places
  <2>1. thr[t] \in Thrs
    BY DEF Types
  <2>2. Returns \subseteq Places
    BY DEF Returns, Places, Own, Ops
  <2> QED
    BY <2>1, <2>2 DEF Thrs
<1>2. y \in Thrs
  BY <1>1, ThrTypes
<1>3. x \in Thrs
  BY <1>2, ThrTypes DEF Results
<1>4. /\ x.pc = thr[t].k /\ x.k = thr[t].k /\ x.rv = rv
      /\ x.op = thr[t].op /\ x.ans = thr[t].ans /\ x.ep = thr[t].ep
  BY <1>1, ThrTypes
<1>5. thr' = [thr EXCEPT ![t] = x]
  BY DEF Return
<1> HIDE DEF x, y
<1> QED
  BY <1>3, <1>4, <1>5, RunOne DEF SameOp

LEMMA CallRuns ==
    ASSUME Types, NEW t \in Threads, NEW p \in Places, NEW k \in Returns, Call(t, p, k)
    PROVE  /\ thr' \in [Threads -> Thrs] /\ Others(t) /\ SameOp(t)
           /\ thr'[t].pc = p /\ thr'[t].k = k /\ thr'[t].rv = thr[t].rv
<1> DEFINE y == [thr[t] EXCEPT !.pc = p]
           x == [y EXCEPT !.k = k]
<1>1. thr[t] \in Thrs
  BY DEF Types
<1>2. y \in Thrs
  BY <1>1, ThrTypes
<1>3. x \in Thrs
  BY <1>2, ThrTypes
<1>4. /\ x.pc = p /\ x.k = k /\ x.rv = thr[t].rv
      /\ x.op = thr[t].op /\ x.ans = thr[t].ans /\ x.ep = thr[t].ep
  BY <1>1, ThrTypes
<1>5. thr' = [thr EXCEPT ![t] = x]
  BY DEF Call
<1> HIDE DEF x, y
<1> QED
  BY <1>3, <1>4, <1>5, RunOne DEF SameOp

LEMMA IdleTypes ==
    ASSUME NEW x \in Thrs, NEW rv \in Results
    PROVE  /\ Idle(x, rv) \in Thrs /\ Idle(x, rv).pc = "idle" /\ Idle(x, rv).k = "opEnd"
           /\ Idle(x, rv).rv = rv /\ Idle(x, rv).op = x.op /\ Idle(x, rv).ans = x.ans
<1> DEFINE a == [x EXCEPT !.pc = "idle"]
           b == [a EXCEPT !.rv = rv]
           c == [b EXCEPT !.h = 0]
           d == [c EXCEPT !.k = "opEnd"]
           e == [d EXCEPT !.ep = 0]
           f == [e EXCEPT !.woken = FALSE]
           g == [f EXCEPT !.key2 = FALSE]
<1>1. "idle" \in Places /\ "opEnd" \in Returns /\ 0 \in 0 .. MaxTags
  BY NativeTagAssumption DEF Places, Returns
<1>2. a \in Thrs
  BY <1>1, ThrTypes
<1>3. b \in Thrs
  BY <1>2, ThrTypes DEF Results
<1>4. c \in Thrs
  BY <1>3, ThrTypes
<1>5. d \in Thrs
  BY <1>1, <1>4, ThrTypes
<1>6. e \in Thrs
  BY <1>1, <1>5, ThrTypes
<1>7. f \in Thrs
  BY <1>6, ThrTypes
<1>8. g \in Thrs
  BY <1>7, ThrTypes
<1>9. g.pc = "idle" /\ g.k = "opEnd" /\ g.rv = rv /\ g.op = x.op /\ g.ans = x.ans
  BY ThrTypes
<1>10. Idle(x, rv) = g
  BY DEF Idle
<1> QED
  BY <1>8, <1>9, <1>10

LEMMA FinRuns ==
    ASSUME Types, NEW t \in Threads, NEW rv \in Results, Fin(t, rv)
    PROVE  /\ thr' \in [Threads -> Thrs] /\ Others(t)
           /\ thr'[t].pc = "idle" /\ thr'[t].k = "opEnd" /\ thr'[t].rv = rv
           /\ thr'[t].op = thr[t].op /\ thr'[t].ans = thr[t].ans
<1> DEFINE x == Idle(thr[t], rv)
<1>1. thr[t] \in Thrs
  BY DEF Types
<1>2. /\ x \in Thrs /\ x.pc = "idle" /\ x.k = "opEnd" /\ x.rv = rv /\ x.op = thr[t].op
      /\ x.ans = thr[t].ans
  BY <1>1, IdleTypes
<1>3. thr' = [thr EXCEPT ![t] = x]
  BY DEF Fin
<1> HIDE DEF x
<1> QED
  BY <1>2, <1>3, RunOne

-----------------------------------------------------------------------------
(* Which operation has which places.                                       *)

LEMMA OwnPlaces ==
    ASSUME NEW op \in Ops \cup {"none"}, NEW p \in Own(op)
    PROVE  /\ op \in Ops /\ p \notin Called /\ p # "idle" /\ p # "dogEnd"
           /\ p = "connect" => op = "connect"
           /\ p = "opEnd" => op \in {"connect", "reconnect", "presence"}
           /\ p \in {"transceive", "txSend", "txW", "txEnd", "txNack"} => op = "transceive"
           /\ p \in {"checkNdef", "ckSend", "ckWait", "ckAbsent"} => op = "checkNdef"
           /\ p \in {"read", "readW", "readRefused", "readEnd", "readAbsent"} => op = "read"
           /\ p \in {"write", "wrFormat", "wrRefused", "wrSent", "wrWait"} => op = "write"
           /\ p \in {"format", "fmSend", "fmWait", "fmKey2", "fmOk", "fmFailed"} => op = "format"
           /\ p \in {"readonly", "roSend", "roWait"} => op = "readonly"
           /\ p = "disconnect" => op = "disconnect"
           /\ op \in {"write", "disconnect"} => p \notin Returns
<1>1. CASE op = "connect"
  BY <1>1 DEF Own, Called, ReSelecting, Checking, Returns, Ops
<1>2. CASE op \in {"reconnect", "presence"}
  BY <1>2 DEF Own, Called, ReSelecting, Checking, Returns, Ops
<1>3. CASE op = "transceive"
  BY <1>3 DEF Own, Called, ReSelecting, Checking, Returns, Ops
<1>4. CASE op = "checkNdef"
  BY <1>4 DEF Own, Called, ReSelecting, Checking, Returns, Ops
<1>5. CASE op = "read"
  BY <1>5 DEF Own, Called, ReSelecting, Checking, Returns, Ops
<1>6. CASE op = "write"
  BY <1>6 DEF Own, Called, ReSelecting, Checking, Returns, Ops
<1>7. CASE op = "format"
  BY <1>7 DEF Own, Called, ReSelecting, Checking, Returns, Ops
<1>8. CASE op = "readonly"
  BY <1>8 DEF Own, Called, ReSelecting, Checking, Returns, Ops
<1>9. CASE op = "disconnect"
  BY <1>9 DEF Own, Called, ReSelecting, Checking, Returns, Ops
<1>10. op # "none"
  BY DEF Own
<1> QED
  BY <1>1, <1>2, <1>3, <1>4, <1>5, <1>6, <1>7, <1>8, <1>9, <1>10 DEF Ops

\* The same of a thread: the watchdog is at no operation's place but "disconnect".
LEMMA OpAt ==
    ASSUME Inv, NEW t \in Threads
    PROVE  /\ thr[t].pc = "connect" => t = "svc" /\ thr[t].op = "connect"
           /\ thr[t].pc = "opEnd" => t = "svc" /\ thr[t].op \in {"connect", "reconnect", "presence"}
           /\ thr[t].pc \in {"transceive", "txSend", "txW", "txEnd", "txNack"} =>
                t = "svc" /\ thr[t].op = "transceive"
           /\ thr[t].pc \in {"checkNdef", "ckSend", "ckWait", "ckAbsent"} =>
                t = "svc" /\ thr[t].op = "checkNdef"
           /\ thr[t].pc \in {"read", "readW", "readRefused", "readEnd", "readAbsent"} => t = "svc" /\ thr[t].op = "read"
           /\ thr[t].pc \in {"write", "wrFormat", "wrRefused", "wrSent", "wrWait"} => t = "svc" /\ thr[t].op = "write"
           /\ thr[t].pc \in {"format", "fmSend", "fmWait", "fmKey2", "fmOk", "fmFailed"} =>
                t = "svc" /\ thr[t].op = "format"
           /\ thr[t].pc \in {"readonly", "roSend", "roWait"} => t = "svc" /\ thr[t].op = "readonly"
           /\ thr[t].pc = "disconnect" /\ t = "svc" => thr[t].op = "disconnect"
           /\ thr[t].pc = "dogEnd" => t = "dog"
           /\ thr[t].pc \in Called => IF t = "svc"
                                      THEN /\ thr[t].k \in Own(thr[t].op) \cap Returns
                                           /\ thr[t].op \notin {"write", "disconnect", "none"}
                                      ELSE /\ thr[t].pc \in Checking /\ thr[t].k = "dogEnd"
                                           /\ thr[t].op = "presence"
<1>1. thr[t] \in Thrs /\ Place(t)
  BY DEF Inv, Types, Fit
<1>2. thr[t].op \in Ops \cup {"none"} /\ thr[t].k \in Returns
  BY <1>1 DEF Thrs
<1>3. CASE t = "svc"
  <2>1. CASE thr[t].pc = "idle"
    BY <1>3, <2>1 DEF Called, ReSelecting, Checking
  <2>2. CASE thr[t].pc \in Own(thr[t].op)
    BY <1>2, <1>3, <2>2, OwnPlaces
  <2>3. CASE thr[t].pc \in Called /\ thr[t].k \in Own(thr[t].op) \cap Returns
    <3>1. thr[t].op \notin {"write", "disconnect", "none"}
      BY <1>2, <2>3, OwnPlaces DEF Ops
    <3> QED
      BY <1>3, <2>3, <3>1 DEF Called, ReSelecting, Checking
  <2> QED
    BY <1>1, <1>3, <2>1, <2>2, <2>3 DEF Place, SvcPlace
<1>4. CASE t = "dog"
  BY <1>1, <1>4 DEF Place, DogPlace, Called, ReSelecting, Checking
<1> QED
  BY <1>3, <1>4 DEF Threads

-----------------------------------------------------------------------------
(* What a step of one thread has to show.                                  *)

\* Who else there is rests, and a step that leaves it alone keeps what holds of it.
LEMMA OthersRest ==
    ASSUME Inv, NEW t \in Threads, NEW u \in Threads, u # t,
           ~At(t, "idle"), t = "dog" => ~At(t, "disconnect")
    PROVE  thr[u].pc \in {"idle", "disconnect"} /\ (u = "svc" => thr[u].pc = "idle")
BY DEF Inv, Apart, At, Threads

LEMMA StepKeeps ==
    ASSUME Inv, NEW t \in Threads, ~At(t, "idle"), t = "dog" => ~At(t, "disconnect"),
           Types', Free', Fit(t)', Others(t),
           \A u \in Threads : u # t => (nt'.mutex = u <=> nt.mutex = u),
           nt'.checking => nt.checking \/ t = "svc"
    PROVE  Inv'
<1>1. ASSUME NEW u \in Threads, u # t PROVE Fit(u)'
  <2>1. thr[u].pc \in {"idle", "disconnect"} /\ (u = "svc" => thr[u].pc = "idle")
    BY <1>1, OthersRest
  <2>2. Fit(u) /\ thr'[u] = thr[u] /\ (nt'.mutex = u <=> nt.mutex = u)
    BY <1>1 DEF Inv, Others
  <2>3. Place(u)'
    BY <2>2 DEF Fit, Place
  <2>4. CallWaits(u)'
    BY <2>1, <2>2 DEF CallWaits, At
  <2>5. OwnWaits(u)'
    <3>1. thr[u].pc = "idle" \/ thr[u].op \in {"none", "presence"}
      BY <2>1, <2>2 DEF Fit, Place, DogPlace
    <3> QED
      BY <2>1, <2>2, <3>1 DEF OwnWaits, At
  <2>6. u = "svc" => Notes(thr[u])'
    <3> SUFFICES ASSUME u = "svc" PROVE Notes(thr[u])'
      OBVIOUS
    <3>1. t # "svc" /\ thr[u].pc = "idle" /\ Notes(thr[u])
      BY <1>1, <2>1, <2>2 DEF Fit
    <3> QED
      BY <2>2, <3>1 DEF Notes
  <2> QED
    BY <2>3, <2>4, <2>5, <2>6 DEF Fit
<1>2. Apart'
  BY OthersRest DEF Others, Threads, Apart, At
<1> QED
  BY <1>1, <1>2 DEF Inv

\* A thread goes on in the called functions, or comes back from them.
LEMMA Running ==
    ASSUME Inv, NEW t \in Threads, thr[t].pc \in Called, SameOp(t), thr'[t].k = thr[t].k,
           \/ thr'[t].pc = thr[t].k
           \/ thr'[t].pc \in Called /\ (t = "dog" => thr'[t].pc \in Checking),
           thr'[t].pc \in ReSelecting <=> nt'.mutex = t,
           nt'.roWait = nt.roWait, nt'.fmOk = nt.fmOk, nt'.checking = nt.checking,
           sem["r"] => sem'["r"], CallWaits(t)'
    PROVE  Fit(t)'
<1>1. Fit(t)
  BY DEF Inv
<1>2. IF t = "svc" THEN /\ thr[t].k \in Own(thr[t].op) \cap Returns
                        /\ thr[t].op \notin {"write", "disconnect", "none"}
                   ELSE /\ thr[t].pc \in Checking /\ thr[t].k = "dogEnd"
                        /\ thr[t].op = "presence"
  BY OpAt
<1>3. Place(t)'
  <2>1. CASE t = "svc"
    BY <1>2, <2>1 DEF Place, SvcPlace, SameOp
  <2>2. CASE t = "dog"
    BY <1>1, <1>2, <2>2 DEF Fit, Place, DogPlace, SameOp
  <2> QED
    BY <2>1, <2>2 DEF Threads
<1>4. thr[t].k \in Returns
  BY <1>2 DEF Returns
<1>5. thr'[t].pc \in Called \cup Returns /\ thr'[t].pc # "idle"
  BY <1>4 DEF Returns, Called, ReSelecting, Checking
<1>6. OwnWaits(t)'
  <2>1. thr[t].op # "write"
    BY <1>1, <1>2 DEF Fit, Place, DogPlace, Threads
  <2>2. thr[t].op = "readonly" => sem["r"] \/ nt.roWait
    BY <1>1 DEF Fit, OwnWaits, Called, ReSelecting, Checking
  <2> QED
    BY <1>5, <2>1, <2>2 DEF OwnWaits, At, SameOp, Called, ReSelecting, Checking, Returns
<1>7. t = "svc" => Notes(thr[t])'
  <2> SUFFICES ASSUME t = "svc" PROVE Notes(thr[t])'
    OBVIOUS
  <2>1. Notes(thr[t])
    BY <1>1 DEF Fit
  <2>2. thr[t].pc \notin {"idle", "format"}
    BY DEF Called, ReSelecting, Checking
  <2>3. thr'[t].pc \notin {"wrWait", "txW", "txEnd", "idle", "checkNdef"}
    BY <1>5 DEF Called, ReSelecting, Checking, Returns
  <2>4. "fmOk" \in {thr'[t].pc, thr'[t].k} => thr[t].k = "fmOk"
    BY DEF Called, ReSelecting, Checking
  <2> QED
    BY <2>1, <2>2, <2>3, <2>4 DEF Notes, SameOp
<1> QED
  BY <1>3, <1>6, <1>7 DEF Fit

LEMMA Finishing ==
    ASSUME Inv, NEW t \in Threads, thr'[t].pc = "idle", thr'[t].k = "opEnd", nt'.mutex # t,
           thr'[t].op = thr[t].op,
           t = "svc" => /\ ~nt'.checking
                        /\ thr'[t].rv = "ok" /\ thr[t].op \in {"write", "format", "transceive"} =>
                             thr'[t].ans
    PROVE  Fit(t)'
<1>1. Place(t)'
  BY DEF Inv, Fit, Place, SvcPlace, DogPlace, ReSelecting, Threads
<1>2. CallWaits(t)' /\ OwnWaits(t)'
  BY DEF CallWaits, OwnWaits, At
<1>3. t = "svc" => Notes(thr[t])'
  BY DEF Notes
<1> QED
  BY <1>1, <1>2, <1>3 DEF Fit

\* An operation calls a function.
LEMMA Entering ==
    ASSUME Inv, NEW t \in Threads, t = "svc", thr[t].op \in Ops,
           thr'[t].pc \in {"reconnect", "presence", "reSelect"},
           thr'[t].k \in Own(thr[t].op) \cap Returns, nt'.mutex # t,
           thr'[t].op = thr[t].op,
           thr[t].op = "readonly" => sem'["r"] \/ nt'.roWait,
           thr[t].op = "format" /\ nt'.fmOk => thr'[t].ans,
           thr'[t].k = "fmOk" => thr'[t].ans,
           nt'.checking => thr[t].op = "checkNdef"
    PROVE  Fit(t)'
<1>1. Place(t)'
  BY DEF Place, SvcPlace, ReSelecting, Called, Checking
<1>2. CallWaits(t)'
  BY DEF CallWaits, At
<1>3. thr[t].op # "write"
  BY OwnPlaces
<1>4. OwnWaits(t)'
  BY <1>3 DEF OwnWaits, At
<1>5. Notes(thr[t])'
  BY DEF Notes
<1> QED
  BY <1>1, <1>2, <1>4, <1>5 DEF Fit

\* An operation goes on in its own code.
LEMMA GoingOn ==
    ASSUME Inv, NEW t \in Threads, t = "svc", thr[t].op \in Ops, thr'[t].op = thr[t].op,
           thr'[t].pc \in Own(thr[t].op), nt'.mutex # t, OwnWaits(t)', Notes(thr[t])'
    PROVE  Fit(t)'
<1>1. thr'[t].pc \notin Called
  BY OwnPlaces
<1>2. Place(t)'
  BY <1>1 DEF Place, SvcPlace, Called
<1>3. CallWaits(t)'
  BY <1>1 DEF CallWaits, At, Called, ReSelecting, Checking
<1> QED
  BY <1>2, <1>3 DEF Fit

-----------------------------------------------------------------------------
(* The functions that are called.                                          *)

SameFlags(n) == n.mutex = nt.mutex /\ n.deact = nt.deact /\ n.sel = nt.sel
                /\ n.recon = nt.recon /\ n.conWait = nt.conWait
SameMarks(n) == n.roWait = nt.roWait /\ n.fmOk = nt.fmOk /\ n.checking = nt.checking

\* The types of what a step leaves, the flags of reSelect, and who holds the mutex.
Around(t) ==
    /\ nt' \in Nts /\ tag' \in Tags /\ tag'.ep = tag.ep /\ jobs' \in Seq(Jobs(tag.ep))
    /\ sem' \in Sems /\ vtimer' \in Timers /\ watch' \in Watches /\ UNCHANGED <<card, count>>
    /\ Free'
    /\ \A u \in Threads : u # t => (nt'.mutex = u <=> nt.mutex = u)

LEMMA Requested ==
    ASSUME Types, NEW r \in Requests, Request(r)
    PROVE  /\ jobs' \in Seq(Jobs(tag.ep)) /\ Ahead(r)'
           /\ r \notin {"sleep", "stop"} => \A x : Ahead(x) => Ahead(x)'
           /\ \A e : RawFor(jobs, e) /\ (r = "raw" => tag.ep = e) => RawFor(jobs', e)
<1> DEFINE x == [r |-> r, ep |-> tag.ep]
<1>1. x \in Jobs(tag.ep) /\ x.r = r /\ x.ep = tag.ep
  BY DEF Jobs
<1>2. jobs' = Append(jobs, x) /\ jobs \in Seq(Jobs(tag.ep))
  BY DEF Request, Types
<1> HIDE DEF x
<1>3. /\ Append(jobs, x) \in Seq(Jobs(tag.ep)) /\ AheadIn(Append(jobs, x), x.r)
      /\ \A y : AheadIn(jobs, y) /\ x.r \notin {"sleep", "stop"} => AheadIn(Append(jobs, x), y)
      /\ \A e : RawFor(jobs, e) /\ (x.r = "raw" => x.ep = e) => RawFor(Append(jobs, x), e)
  BY <1>1, <1>2, Appended
<1>4. \A y : (Ahead(y) <=> AheadIn(jobs, y)) /\ (Ahead(y)' <=> AheadIn(jobs', y))
  BY DEF Ahead, AheadIn
<1> QED
  BY <1>1, <1>2, <1>3, <1>4

LEMMA Untouched ==
    ASSUME Types, UNCHANGED jobs
    PROVE  /\ tag'.ep = tag.ep => jobs' \in Seq(Jobs(tag.ep))
           /\ \A x : Ahead(x) <=> Ahead(x)'
BY DEF Types, Ahead

LEMMA TypesAgain ==
    ASSUME Types, NEW t \in Threads, Around(t), thr' \in [Threads -> Thrs]
    PROVE  Types'
BY DEF Types, Around

LEMMA NotHeld ==
    ASSUME Inv, NEW t \in Threads
    PROVE  thr[t].pc \in ReSelecting <=> nt.mutex = t
BY DEF Inv, Fit, Place

LEMMA FlagsStay ==
    ASSUME Inv, NEW t \in Threads, SameFlags(nt')
    PROVE  /\ Free' /\ \A u \in Threads : u # t => (nt'.mutex = u <=> nt.mutex = u)
           /\ nt'.mutex = t <=> thr[t].pc \in ReSelecting
<1>1. Free /\ (thr[t].pc \in ReSelecting <=> nt.mutex = t)
  BY NotHeld DEF Inv
<1> QED
  BY <1>1 DEF SameFlags, Free

LEMMA CallStep ==
    ASSUME Inv, NEW t \in Threads, thr[t].pc \in Called, Around(t), SameMarks(nt'),
           sem["r"] => sem'["r"],
           thr' \in [Threads -> Thrs], Others(t), SameOp(t), thr'[t].k = thr[t].k,
           \/ thr'[t].pc = thr[t].k
           \/ thr'[t].pc \in Called /\ (t = "dog" => thr'[t].pc \in Checking),
           thr'[t].pc \in ReSelecting <=> nt'.mutex = t, CallWaits(t)'
    PROVE  Inv'
<1>1. Types'
  BY TypesAgain DEF Inv
<1>2. Fit(t)'
  BY Running DEF SameMarks
<1>3. ~At(t, "idle") /\ ~At(t, "disconnect")
  BY DEF At, Called, ReSelecting, Checking
<1>4. Free' /\ (\A u \in Threads : u # t => (nt'.mutex = u <=> nt.mutex = u))
  BY DEF Around
<1> QED
  BY <1>1, <1>2, <1>3, <1>4, StepKeeps DEF SameMarks

LEMMA ReturnStep ==
    ASSUME Inv, NEW t \in Threads, thr[t].pc \in Called, Around(t), SameMarks(nt'),
           sem["r"] => sem'["r"], NEW rv \in Results, Return(t, rv), nt'.mutex # t
    PROVE  Inv'
<1>1. Types
  BY DEF Inv
<1>2. /\ thr' \in [Threads -> Thrs] /\ Others(t) /\ SameOp(t)
      /\ thr'[t].pc = thr[t].k /\ thr'[t].k = thr[t].k
  BY <1>1, ReturnRuns
<1>3. thr[t].k \in Returns
  BY <1>1 DEF Types, Thrs
<1>4. CallWaits(t)' /\ thr'[t].pc \notin ReSelecting
  BY <1>2, <1>3 DEF CallWaits, At, Returns, ReSelecting
<1> QED
  BY <1>2, <1>4, CallStep

LEMMA ToStep ==
    ASSUME Inv, NEW t \in Threads, thr[t].pc \in Called, Around(t), SameMarks(nt'),
           sem["r"] => sem'["r"], NEW p \in Called, To(t, p), t = "dog" => p \in Checking,
           p \in ReSelecting <=> nt'.mutex = t, thr'[t].pc = p => CallWaits(t)'
    PROVE  Inv'
<1>1. Types /\ p \in Places
  BY DEF Inv, Places
<1>2. /\ thr' \in [Threads -> Thrs] /\ Others(t) /\ SameOp(t)
      /\ thr'[t].pc = p /\ thr'[t].k = thr[t].k
  BY <1>1, ToRuns
<1> QED
  BY <1>2, CallStep

LEMMA RsEndIs ==
    ASSUME NEW n \in Nts
    PROVE  /\ RsEnd(n) \in Nts /\ RsEnd(n).mutex = "free" /\ RsEnd(n).roWait = n.roWait
           /\ RsEnd(n).fmOk = n.fmOk /\ RsEnd(n).checking = n.checking
           /\ ~RsEnd(n).deact /\ ~RsEnd(n).sel /\ ~RsEnd(n).recon /\ ~RsEnd(n).conWait
<1> DEFINE a == [n EXCEPT !.recon = FALSE]
           b == [a EXCEPT !.conWait = FALSE]
           c == [b EXCEPT !.deact = FALSE]
           d == [c EXCEPT !.sel = FALSE]
           e == [d EXCEPT !.mutex = "free"]
<1>1. a \in Nts
  BY NtBools
<1>2. b \in Nts
  BY <1>1, NtBools
<1>3. c \in Nts
  BY <1>2, NtBools
<1>4. d \in Nts
  BY <1>3, NtBools
<1>5. e \in Nts
  BY <1>4, NtOthers
<1>6. /\ e.mutex = "free" /\ e.roWait = n.roWait /\ e.fmOk = n.fmOk /\ e.checking = n.checking
      /\ ~e.deact /\ ~e.sel /\ ~e.recon /\ ~e.conWait
  BY NtFields
<1>7. RsEnd(n) = e
  BY DEF RsEnd
<1> QED
  BY <1>5, <1>6, <1>7

\* reSelect gives up or ends: the flags are down again.
LEMMA RsEnds ==
    ASSUME Inv, NEW t \in Threads, thr[t].pc \in Called, t = "svc",
           NEW n \in Nts, SameMarks(n), nt' = RsEnd(n), nt.mutex \in {"free", "svc"},
           tag' \in Tags, tag'.ep = tag.ep, jobs' \in Seq(Jobs(tag.ep)),
           UNCHANGED <<card, sem, vtimer, watch, count>>, NEW rv \in Results, Return(t, rv)
    PROVE  Inv'
<1>1. Types
  BY DEF Inv
<1>2. /\ nt' \in Nts /\ nt'.mutex = "free" /\ nt'.roWait = n.roWait
      /\ nt'.fmOk = n.fmOk /\ nt'.checking = n.checking
      /\ ~nt'.deact /\ ~nt'.sel /\ ~nt'.recon /\ ~nt'.conWait
  BY RsEndIs
<1>3. Around(t)
  BY <1>1, <1>2 DEF Around, Free, Types, Threads
<1>4. SameMarks(nt') /\ nt'.mutex # t
  BY <1>2 DEF SameMarks
<1> QED
  BY <1>3, <1>4, ReturnStep

LEMMA InReSelect ==
    ASSUME Inv, NEW t \in Threads, thr[t].pc \in ReSelecting \cup {"reSelect", "reconnect", "goneW", "goneEnd"}
    PROVE  thr[t].pc \in Called /\ t = "svc"
BY OpAt DEF Called, ReSelecting, Checking

LEMMA ReSelects ==
    ASSUME Inv, NEW t \in Threads, reSelect(t)
    PROVE  Inv'
<1>1. Types /\ thr[t].pc = "reSelect" /\ thr[t].pc \in Called /\ t = "svc" /\ nt.mutex = "free"
  BY InReSelect DEF reSelect, At, Inv
<1>2. nt \in Nts /\ tag \in Tags /\ jobs \in Seq(Jobs(tag.ep)) /\ sem \in Sems /\ vtimer \in Timers
      /\ watch \in Watches /\ UNCHANGED <<card, tag, sem, vtimer, watch, count>>
  BY <1>1 DEF Types, reSelect
<1>3. CASE Return(t, "ok") /\ UNCHANGED <<nt, jobs>>
  <2>1. SameFlags(nt') /\ SameMarks(nt') /\ nt'.mutex # t
    BY <1>1, <1>3 DEF SameFlags, SameMarks
  <2>2. Around(t)
    BY <1>2, <1>3, <2>1, FlagsStay DEF Around
  <2> QED
    BY <1>1, <1>2, <1>3, <2>1, <2>2, ReturnStep DEF Results
<1>4. CASE Return(t, "lost") /\ nt' = RsEnd(nt) /\ UNCHANGED jobs
  BY <1>1, <1>2, <1>4, RsEnds DEF SameMarks, Results
<1>5. ASSUME NEW r \in {"stop", "sleep"}, Request(r), To(t, "rsSleepW"),
             nt' = [nt EXCEPT !.mutex = t, !.deact = TRUE, !.recon = tag.special # "no"]
      PROVE  Inv'
  <2> DEFINE a == [nt EXCEPT !.mutex = t]
             b == [a EXCEPT !.deact = TRUE]
             c == [b EXCEPT !.recon = tag.special # "no"]
  <2>1. a \in Nts
    BY <1>2, NtOthers
  <2>2. b \in Nts
    BY <2>1, NtBools
  <2>3. c \in Nts
    BY <2>2, NtBools
  <2>4. c.mutex = t /\ c.roWait = nt.roWait /\ c.fmOk = nt.fmOk /\ c.checking = nt.checking
    BY <1>2, NtFields
  <2>5. nt' = c
    BY <1>5
  <2> HIDE DEF a, b, c
  <2>6. jobs' \in Seq(Jobs(tag.ep))
    BY <1>1, <1>5, Requested DEF Requests
  <2>7. Around(t) /\ SameMarks(nt')
    BY <1>1, <1>2, <2>3, <2>4, <2>5, <2>6 DEF Around, Free, Threads, SameMarks
  <2>8. thr'[t].pc = "rsSleepW" => CallWaits(t)'
    BY DEF CallWaits, At
  <2> QED
    BY <1>1, <1>2, <1>5, <2>4, <2>5, <2>7, <2>8, ToStep DEF Called, ReSelecting
<1> QED
  BY <1>3, <1>4, <1>5 DEF reSelect

LEMMA RsAsleepKeeps ==
    ASSUME Inv, NEW t \in Threads, RsAsleep(t)
    PROVE  Inv'
<1>1. Types /\ thr[t].pc = "rsAsleep" /\ thr[t].pc \in Called /\ t = "svc" /\ nt.mutex = t
  BY InReSelect, NotHeld DEF RsAsleep, At, Inv, ReSelecting
<1>2. nt \in Nts /\ tag \in Tags /\ jobs \in Seq(Jobs(tag.ep)) /\ sem \in Sems /\ vtimer \in Timers
      /\ watch \in Watches /\ UNCHANGED <<card, sem, vtimer, watch, count>>
  BY <1>1 DEF Types, RsAsleep
<1>3. PICK s \in {"no", "cashbee", "ezlink"} :
        /\ tag' = [tag EXCEPT !.special = s]
        /\ \/ Return(t, "lost") /\ nt' = RsEnd(nt) /\ UNCHANGED jobs
           \/ /\ nt' = [nt EXCEPT !.deact = FALSE, !.sel = TRUE, !.conWait = TRUE, !.recon = s # "no"]
              /\ Request(IF s # "no" THEN "start" ELSE "select")
              /\ To(t, "rsSelecting")
  <2>1. tag.special \in {"no", "cashbee", "ezlink"}
    BY <1>2 DEF Tags
  <2> QED
    BY <2>1 DEF RsAsleep
<1>4. tag' \in Tags /\ tag'.ep = tag.ep
  BY <1>2, <1>3, TagTypes
<1>5. CASE Return(t, "lost") /\ nt' = RsEnd(nt) /\ UNCHANGED jobs
  BY <1>1, <1>2, <1>4, <1>5, RsEnds DEF SameMarks, Results
<1>6. CASE /\ nt' = [nt EXCEPT !.deact = FALSE, !.sel = TRUE, !.conWait = TRUE, !.recon = s # "no"]
           /\ Request(IF s # "no" THEN "start" ELSE "select")
           /\ To(t, "rsSelecting")
  <2> DEFINE a == [nt EXCEPT !.deact = FALSE]
             b == [a EXCEPT !.sel = TRUE]
             c == [b EXCEPT !.conWait = TRUE]
             d == [c EXCEPT !.recon = s # "no"]
  <2>1. a \in Nts
    BY <1>2, NtBools
  <2>2. b \in Nts
    BY <2>1, NtBools
  <2>3. c \in Nts
    BY <2>2, NtBools
  <2>4. d \in Nts
    BY <2>3, NtBools
  <2>5. d.mutex = t /\ d.roWait = nt.roWait /\ d.fmOk = nt.fmOk /\ d.checking = nt.checking
    BY <1>1, <1>2, NtFields
  <2>6. nt' = d
    BY <1>6
  <2> HIDE DEF a, b, c, d
  <2>7. jobs' \in Seq(Jobs(tag.ep))
    <3>1. (IF s # "no" THEN "start" ELSE "select") \in Requests
      BY DEF Requests
    <3> QED
      BY <1>1, <1>6, <3>1, Requested
  <2>8. Around(t) /\ SameMarks(nt')
    BY <1>1, <1>2, <1>4, <2>4, <2>5, <2>6, <2>7 DEF Around, Free, Threads, SameMarks
  <2>9. thr'[t].pc = "rsSelecting" => CallWaits(t)'
    BY DEF CallWaits, At
  <2> QED
    BY <1>1, <1>2, <1>6, <2>5, <2>6, <2>8, <2>9, ToStep DEF Called, ReSelecting
<1> QED
  BY <1>3, <1>5, <1>6

LEMMA RsSelectingKeeps ==
    ASSUME Inv, NEW t \in Threads, RsSelecting(t)
    PROVE  Inv'
<1>1. Types /\ thr[t].pc = "rsSelecting" /\ thr[t].pc \in Called /\ t = "svc" /\ nt.mutex = t
      /\ thr[t] \in Thrs
  BY InReSelect, NotHeld DEF RsSelecting, At, Inv, ReSelecting, Types
<1>2. nt \in Nts /\ tag \in Tags /\ sem \in Sems /\ vtimer \in Timers
      /\ watch \in Watches /\ UNCHANGED <<card, tag, sem, jobs, vtimer, watch, count>>
  BY <1>1 DEF Types, RsSelecting
<1>3. nt' = [nt EXCEPT !.conOk = FALSE]
  BY DEF RsSelecting
<1>4. nt' \in Nts /\ SameFlags(nt') /\ SameMarks(nt')
  BY <1>2, <1>3, NtBools, NtFields DEF SameFlags, SameMarks
<1>5. Around(t) /\ nt'.mutex = t
  BY <1>1, <1>2, <1>4, FlagsStay, Untouched DEF Around, SameFlags
<1> DEFINE p == IF thr[t].ntf THEN "rsSelected" ELSE "rsSelectW"
           a == [thr[t] EXCEPT !.pc = p]
           b == [a EXCEPT !.woken = thr[t].ntf]
           c == [b EXCEPT !.ntf = FALSE]
<1>6. p \in ReSelecting /\ p \in Called /\ p \in Places
  BY DEF Called, Places, ReSelecting
<1>7. thr[t].ntf \in BOOLEAN
  BY <1>1 DEF Thrs
<1>8. a \in Thrs
  BY <1>1, <1>6, ThrTypes
<1>9. b \in Thrs
  BY <1>7, <1>8, ThrTypes
<1>10. c \in Thrs
  BY <1>9, ThrTypes
<1>11. c.pc = p /\ c.k = thr[t].k /\ c.op = thr[t].op /\ c.ans = thr[t].ans /\ c.ep = thr[t].ep
  BY <1>1, ThrTypes
<1>12. thr' = [thr EXCEPT ![t] = c]
  BY DEF RsSelecting
<1> HIDE DEF a, b, c, p
<1>13. /\ thr' \in [Threads -> Thrs] /\ Others(t) /\ SameOp(t)
       /\ thr'[t].pc = p /\ thr'[t].k = thr[t].k
  BY <1>1, <1>10, <1>11, <1>12, RunOne DEF SameOp
<1>14. CallWaits(t)'
  BY <1>6, <1>13 DEF CallWaits, At, ReSelecting
<1> QED
  BY <1>1, <1>2, <1>4, <1>5, <1>6, <1>13, <1>14, CallStep

LEMMA RsSelectedKeeps ==
    ASSUME Inv, NEW t \in Threads, RsSelected(t)
    PROVE  Inv'
<1>1. Types /\ thr[t].pc = "rsSelected" /\ thr[t].pc \in Called /\ t = "svc" /\ nt.mutex = t
  BY InReSelect, NotHeld DEF RsSelected, At, Inv, ReSelecting
<1>2. nt \in Nts /\ tag \in Tags /\ jobs \in Seq(Jobs(tag.ep)) /\ sem \in Sems /\ vtimer \in Timers
      /\ watch \in Watches /\ UNCHANGED <<card, sem, vtimer, watch, count>>
  BY <1>1 DEF Types, RsSelected
<1>3. CASE Return(t, "fail") /\ nt' = RsEnd(nt) /\ Request("idle") /\ UNCHANGED tag
  <2>1. jobs' \in Seq(Jobs(tag.ep))
    BY <1>1, <1>3, Requested DEF Requests
  <2> QED
    BY <1>1, <1>2, <1>3, <2>1, RsEnds DEF SameMarks, Results
<1>4. CASE Return(t, "lost") /\ nt' = RsEnd(nt) /\ UNCHANGED <<tag, jobs>>
  BY <1>1, <1>2, <1>4, RsEnds DEF SameMarks, Results
<1>5. CASE /\ UNCHANGED jobs
           /\ tag' = [tag EXCEPT !.special = IF @ = "ezlink" THEN "no" ELSE @]
           /\ Return(t, IF nt.conOk THEN "ok" ELSE "fail")
           /\ nt' = RsEnd([nt EXCEPT !.rfIntf = IF nt.conOk THEN Wanted(t) ELSE @])
  <2>1. tag' \in Tags /\ tag'.ep = tag.ep
    <3>1. (IF tag.special = "ezlink" THEN "no" ELSE tag.special) \in {"no", "cashbee", "ezlink"}
      BY <1>2 DEF Tags
    <3> QED
      BY <1>2, <1>5, <3>1, TagTypes
  <2> DEFINE n == [nt EXCEPT !.rfIntf = IF nt.conOk THEN Wanted(t) ELSE @]
  <2>2. (IF nt.conOk THEN Wanted(t) ELSE nt.rfIntf) \in Intfs
    BY <1>2 DEF Nts, Wanted, Intfs
  <2>3. n \in Nts
    BY <1>2, <2>2, NtOthers
  <2>4. SameMarks(n)
    BY <1>2, NtFields DEF SameMarks
  <2>5. nt' = RsEnd(n)
    BY <1>5
  <2> HIDE DEF n
  <2>6. (IF nt.conOk THEN "ok" ELSE "fail") \in Results
    BY DEF Results
  <2> QED
    BY <1>1, <1>2, <1>5, <2>1, <2>3, <2>4, <2>5, <2>6, RsEnds
<1> QED
  BY <1>3, <1>4, <1>5 DEF RsSelected

LEMMA ReconnectKeeps ==
    ASSUME Inv, NEW t \in Threads, doReconnect(t)
    PROVE  Inv'
<1>1. Types /\ thr[t].pc = "reconnect" /\ thr[t].pc \in Called /\ t = "svc"
      /\ thr[t].pc \notin ReSelecting
  BY InReSelect DEF doReconnect, At, Inv, ReSelecting
<1>2. nt \in Nts /\ tag \in Tags /\ jobs \in Seq(Jobs(tag.ep)) /\ sem \in Sems /\ vtimer \in Timers
      /\ watch \in Watches /\ UNCHANGED <<card, tag, sem, watch, count>>
  BY <1>1 DEF Types, doReconnect
<1>3. ASSUME UNCHANGED <<jobs, vtimer, nt>>
      PROVE  Around(t) /\ SameMarks(nt') /\ nt'.mutex # t
  <2>1. SameFlags(nt') /\ SameMarks(nt')
    BY <1>3 DEF SameFlags, SameMarks
  <2> QED
    BY <1>1, <1>2, <1>3, <2>1, FlagsStay DEF Around
<1>4. ASSUME NEW rv \in Results, Return(t, rv), UNCHANGED <<jobs, vtimer, nt>>
      PROVE  Inv'
  BY <1>1, <1>2, <1>3, <1>4, ReturnStep
<1>5. CASE To(t, "reSelect") /\ UNCHANGED <<jobs, vtimer, nt>>
  <2>1. thr'[t].pc = "reSelect" => CallWaits(t)'
    BY DEF CallWaits, At
  <2> QED
    BY <1>1, <1>2, <1>3, <1>5, <2>1, ToStep DEF Called, ReSelecting
<1>6. CASE /\ vtimer' = "reconnect" /\ Request("vsc") /\ To(t, "vscRspW")
           /\ nt' = [nt EXCEPT !.reconnecting = TRUE]
  <2>1. nt' \in Nts /\ SameFlags(nt') /\ SameMarks(nt')
    BY <1>2, <1>6, NtBools, NtFields DEF SameFlags, SameMarks
  <2>2. jobs' \in Seq(Jobs(tag.ep)) /\ Ahead("vsc")'
    BY <1>1, <1>6, Requested DEF Requests
  <2>3. Around(t) /\ nt'.mutex # t
    BY <1>1, <1>2, <1>6, <2>1, <2>2, FlagsStay DEF Around, Timers
  <2>4. thr'[t].pc = "vscRspW" => CallWaits(t)'
    BY <1>6, <2>2 DEF CallWaits, At
  <2> QED
    BY <1>1, <1>2, <1>6, <2>1, <2>3, <2>4, ToStep DEF Called, Checking, ReSelecting
<1> QED
  BY <1>4, <1>5, <1>6 DEF doReconnect, Results

LEMMA VscAnsweredKeeps ==
    ASSUME Inv, NEW t \in Threads, VscAnswered(t)
    PROVE  Inv'
<1>1. Types /\ thr[t].pc = "vscRsp" /\ thr[t].pc \in Called /\ thr[t].pc \notin ReSelecting
      /\ vtimer # "off"
  BY DEF VscAnswered, At, Inv, Fit, CallWaits, Called, Checking, ReSelecting
<1>2. nt \in Nts /\ tag \in Tags /\ sem \in Sems /\ vtimer \in Timers
      /\ watch \in Watches /\ UNCHANGED <<card, tag, sem, jobs, vtimer, watch, count>>
  BY <1>1 DEF Types, VscAnswered
<1>3. nt' = nt \/ nt' = [nt EXCEPT !.reconnecting = FALSE]
  BY DEF VscAnswered
<1>4. nt' \in Nts /\ SameFlags(nt') /\ SameMarks(nt')
  BY <1>2, <1>3, NtBools, NtFields DEF SameFlags, SameMarks
<1>5. Around(t) /\ nt'.mutex # t
  BY <1>1, <1>2, <1>4, FlagsStay, Untouched DEF Around
<1>6. CASE Return(t, "fail")
  BY <1>1, <1>2, <1>4, <1>5, <1>6, ReturnStep DEF Results
<1>7. CASE To(t, "vscNtfW")
  <2>1. thr'[t].pc = "vscNtfW" => CallWaits(t)'
    BY <1>1, <1>2 DEF CallWaits, At
  <2> QED
    BY <1>1, <1>2, <1>4, <1>5, <1>7, <2>1, ToStep DEF Called, Checking, ReSelecting
<1> QED
  BY <1>6, <1>7 DEF VscAnswered

LEMMA VscNotifiedKeeps ==
    ASSUME Inv, NEW t \in Threads, VscNotified(t)
    PROVE  Inv'
<1>1. Types /\ thr[t].pc = "vscNtf" /\ thr[t].pc \in Called /\ thr[t].pc \notin ReSelecting
  BY DEF VscNotified, At, Inv, Called, Checking, ReSelecting
<1>2. nt \in Nts /\ tag \in Tags /\ sem \in Sems /\ vtimer' \in Timers
      /\ watch \in Watches /\ UNCHANGED <<card, tag, sem, watch, count>>
  BY <1>1 DEF Types, VscNotified, Timers
<1>3. nt' = nt \/ nt' = [nt EXCEPT !.reconnecting = FALSE]
  BY DEF VscNotified
<1>4. nt' \in Nts /\ SameFlags(nt') /\ SameMarks(nt')
  BY <1>2, <1>3, NtBools, NtFields DEF SameFlags, SameMarks
<1>5. CASE Return(t, IF nt.inField THEN "ok" ELSE "fail") /\ UNCHANGED jobs
  <2>1. Around(t) /\ nt'.mutex # t
    BY <1>1, <1>2, <1>4, <1>5, FlagsStay, Untouched DEF Around
  <2>2. (IF nt.inField THEN "ok" ELSE "fail") \in Results
    BY DEF Results
  <2> QED
    BY <1>1, <1>2, <1>4, <1>5, <2>1, <2>2, ReturnStep
<1>6. CASE thr[t].op # "presence" /\ Request("idle") /\ To(t, "goneW")
  <2>1. t = "svc"
    BY <1>1, <1>6, OpAt
  <2>2. jobs' \in Seq(Jobs(tag.ep)) /\ Ahead("idle")'
    BY <1>1, <1>6, Requested DEF Requests
  <2>3. Around(t) /\ nt'.mutex # t
    BY <1>1, <1>2, <1>4, <2>2, FlagsStay DEF Around
  <2>4. thr'[t].pc = "goneW" => CallWaits(t)'
    BY <2>2 DEF CallWaits, At
  <2> QED
    BY <1>1, <1>2, <1>4, <1>6, <2>1, <2>3, <2>4, ToStep DEF Called, ReSelecting
<1> QED
  BY <1>5, <1>6 DEF VscNotified

\* Three ends of a wait, with nothing else to do.
LEMMA EndsKeep ==
    ASSUME Inv, NEW t \in Threads, GoneEnd(t) \/ PresenceEnd(t) \/ T3btEnd(t)
    PROVE  Inv'
<1>1. Types /\ thr[t].pc \in {"goneEnd", "presenceEnd", "t3btEnd"}
      /\ UNCHANGED <<card, tag, nt, sem, jobs, vtimer, watch, count>>
  BY DEF GoneEnd, PresenceEnd, T3btEnd, At, Inv
<1>2. thr[t].pc \in Called /\ thr[t].pc \notin ReSelecting
  BY <1>1 DEF Called, Checking, ReSelecting
<1>3. PICK rv \in Results : Return(t, rv)
  BY DEF GoneEnd, PresenceEnd, T3btEnd, Results
<1>4. SameFlags(nt') /\ SameMarks(nt')
  BY <1>1 DEF SameFlags, SameMarks
<1>5. Around(t) /\ nt'.mutex # t
  BY <1>1, <1>2, <1>4, FlagsStay, Untouched DEF Around, Types
<1> QED
  BY <1>1, <1>2, <1>3, <1>4, <1>5, ReturnStep

-----------------------------------------------------------------------------
(* What the NFA task and the timers do to the threads: they wake them, and *)
(* note answers.                                                           *)

Events == {"reconnect", "transceive", "read", "presence", "vscRsp", "vscNtf", "deactivated"}
Waits == {"rsSleepW", "rsSelectW", "txW", "t3btW", "readW", "readRefused", "presenceW", "vscRspW",
          "vscNtfW", "goneW"}

Woke(x, y) ==
    /\ y.op = x.op /\ y.k = x.k /\ y.rv = x.rv /\ y.ep = x.ep /\ (x.ans => y.ans)
    /\ y.pc = x.pc \/ (x.pc \in Waits /\ y.pc = After(x.pc))

LEMMA Wakes ==
    ASSUME NEW x \in Thrs, x.pc \in Waits, NEW b \in BOOLEAN
    PROVE  /\ [x EXCEPT !.pc = After(x.pc), !.woken = b] \in Thrs
           /\ Woke(x, [x EXCEPT !.pc = After(x.pc), !.woken = b])
           /\ [x EXCEPT !.pc = After(x.pc), !.woken = b].pc = After(x.pc)
           /\ After(x.pc) \notin Waits
<1> DEFINE y == [x EXCEPT !.pc = After(x.pc)]
           z == [y EXCEPT !.woken = b]
<1>1. After(x.pc) \in Places /\ After(x.pc) \notin Waits
  <2>1. After(x.pc) \in {"rsAsleep", "rsSelected", "txEnd", "t3btEnd", "readEnd", "presenceEnd",
                         "vscRsp", "vscNtf", "goneEnd"}
    BY DEF After, Waits
  <2>2. "txEnd" \in Own("transceive") /\ "readEnd" \in Own("read") /\ {"transceive", "read"} \subseteq Ops
    BY DEF Own, Ops
  <2>3. {"rsAsleep", "rsSelected", "t3btEnd", "presenceEnd", "vscRsp", "vscNtf", "goneEnd"} \subseteq Called
    BY DEF Called, ReSelecting, Checking
  <2> QED
    BY <2>1, <2>2, <2>3 DEF Places, Waits
<1>2. y \in Thrs
  BY <1>1, ThrTypes
<1>3. z \in Thrs
  BY <1>2, ThrTypes
<1>4. z.pc = After(x.pc) /\ z.op = x.op /\ z.k = x.k /\ z.rv = x.rv /\ z.ep = x.ep /\ z.ans = x.ans
  BY ThrTypes
<1>5. z = [x EXCEPT !.pc = After(x.pc), !.woken = b]
  OBVIOUS
<1> HIDE DEF z
<1>6. Woke(x, z)
  BY <1>4 DEF Woke
<1> QED
  BY <1>1, <1>3, <1>4, <1>5, <1>6

LEMMA WaitsAreWaits ==
    ASSUME NEW e \in Events
    PROVE  WaitsOn(e) \subseteq Waits
BY DEF Events, WaitsOn, Waits

LEMMA NotifiedIs ==
    ASSUME Types, NEW E \in SUBSET Events
    PROVE  /\ Notified(thr, E) \in [Threads -> Thrs]
           /\ \A u \in Threads : /\ Woke(thr[u], Notified(thr, E)[u])
                                 /\ \A e \in E : Notified(thr, E)[u].pc \notin WaitsOn(e)
                                 /\ thr[u].pc \notin Waits => Notified(thr, E)[u] = thr[u]
<1> DEFINE x(u) == IF \E e \in E : thr[u].pc \in WaitsOn(e)
                   THEN [thr[u] EXCEPT !.pc = After(@), !.woken = TRUE] ELSE thr[u]
<1>1. Notified(thr, E) = [u \in Threads |-> x(u)]
  BY DEF Notified
<1>2. ASSUME NEW u \in Threads
      PROVE  /\ x(u) \in Thrs /\ Woke(thr[u], x(u)) /\ \A e \in E : x(u).pc \notin WaitsOn(e)
             /\ thr[u].pc \notin Waits => x(u) = thr[u]
  <2>1. thr[u] \in Thrs
    BY DEF Types
  <2>2. CASE \E e \in E : thr[u].pc \in WaitsOn(e)
    <3>1. thr[u].pc \in Waits
      BY <2>2, WaitsAreWaits
    <3>2. x(u) = [thr[u] EXCEPT !.pc = After(thr[u].pc), !.woken = TRUE]
      BY <2>2
    <3> HIDE DEF x
    <3>3. x(u) \in Thrs /\ Woke(thr[u], x(u)) /\ x(u).pc \notin Waits
      BY <2>1, <3>1, <3>2, Wakes
    <3> QED
      BY <3>1, <3>3, WaitsAreWaits
  <2>3. CASE ~\E e \in E : thr[u].pc \in WaitsOn(e)
    <3>1. x(u) = thr[u]
      BY <2>3
    <3> HIDE DEF x
    <3> QED
      BY <2>1, <2>3, <3>1 DEF Woke
  <2> QED
    BY <2>2, <2>3
<1> HIDE DEF x
<1> QED
  BY <1>1, <1>2

LEMMA AnsweredIs ==
    ASSUME Types, NEW op
    PROVE  /\ Answered(thr, op) \in [Threads -> Thrs]
           /\ \A u \in Threads : /\ Woke(thr[u], Answered(thr, op)[u])
                                 /\ Answered(thr, op)[u].pc = thr[u].pc
                                 /\ thr[u].op = op /\ thr[u].pc # "idle" => Answered(thr, op)[u].ans
<1> DEFINE x(u) == IF thr[u].op = op /\ thr[u].pc # "idle" THEN [thr[u] EXCEPT !.ans = TRUE] ELSE thr[u]
<1>1. Answered(thr, op) = [u \in Threads |-> x(u)]
  BY DEF Answered
<1>2. ASSUME NEW u \in Threads
      PROVE  /\ x(u) \in Thrs /\ Woke(thr[u], x(u)) /\ x(u).pc = thr[u].pc
             /\ thr[u].op = op /\ thr[u].pc # "idle" => x(u).ans
  <2>1. thr[u] \in Thrs
    BY DEF Types
  <2>2. CASE thr[u].op = op /\ thr[u].pc # "idle"
    <3> DEFINE y == [thr[u] EXCEPT !.ans = TRUE]
    <3>1. x(u) = y
      BY <2>2
    <3>2. /\ y \in Thrs /\ y.ans /\ y.pc = thr[u].pc /\ y.op = thr[u].op /\ y.k = thr[u].k
          /\ y.rv = thr[u].rv /\ y.ep = thr[u].ep
      BY <2>1, ThrTypes
    <3> HIDE DEF x, y
    <3> QED
      BY <3>1, <3>2 DEF Woke
  <2>3. CASE ~(thr[u].op = op /\ thr[u].pc # "idle")
    <3>1. x(u) = thr[u]
      BY <2>3
    <3> HIDE DEF x
    <3> QED
      BY <2>1, <2>3, <3>1 DEF Woke
  <2> QED
    BY <2>2, <2>3
<1> HIDE DEF x
<1> QED
  BY <1>1, <1>2

LEMMA ConnectStatusIs ==
    ASSUME Types
    PROVE  /\ ConnectStatus(nt, thr) \in [Threads -> Thrs]
           /\ \A u \in Threads : Woke(thr[u], ConnectStatus(nt, thr)[u])
<1> DEFINE N == Notified(thr, {"reconnect"})
           x(u) == IF thr[u].pc = "rsSelecting" THEN [thr[u] EXCEPT !.ntf = TRUE] ELSE N[u]
<1>1. N \in [Threads -> Thrs] /\ \A u \in Threads : Woke(thr[u], N[u])
  BY NotifiedIs DEF Events
<1>2. ConnectStatus(nt, thr) = IF ~nt.conWait THEN thr ELSE [u \in Threads |-> x(u)]
  BY DEF ConnectStatus
<1>3. ASSUME NEW u \in Threads PROVE x(u) \in Thrs /\ Woke(thr[u], x(u))
  <2>1. thr[u] \in Thrs
    BY DEF Types
  <2>2. CASE thr[u].pc = "rsSelecting"
    <3> DEFINE y == [thr[u] EXCEPT !.ntf = TRUE]
    <3>1. x(u) = y
      BY <2>2
    <3>2. /\ y \in Thrs /\ y.ans = thr[u].ans /\ y.pc = thr[u].pc /\ y.op = thr[u].op
          /\ y.k = thr[u].k /\ y.rv = thr[u].rv /\ y.ep = thr[u].ep
      BY <2>1, ThrTypes
    <3> HIDE DEF x, y
    <3> QED
      BY <3>1, <3>2 DEF Woke
  <2>3. CASE thr[u].pc # "rsSelecting"
    BY <1>1, <2>3
  <2> QED
    BY <2>2, <2>3
<1>4. thr \in [Threads -> Thrs] /\ \A u \in Threads : Woke(thr[u], thr[u])
  BY DEF Types, Woke
<1> HIDE DEF x, N
<1> QED
  BY <1>2, <1>3, <1>4

\* Who is woken stays in the same function.
LEMMA WokePlaces ==
    ASSUME NEW x \in Thrs, NEW y, Woke(x, y)
    PROVE  /\ SvcPlace(x) => SvcPlace(y)
           /\ DogPlace(x) => DogPlace(y)
           /\ y.pc \in ReSelecting <=> x.pc \in ReSelecting
           /\ y.pc = "idle" <=> x.pc = "idle"
           /\ y.pc = "disconnect" <=> x.pc = "disconnect"
           /\ x.op \in Ops \cup {"none"}
           /\ y.pc \notin Waits => y.pc = x.pc \/ y.pc \in {"rsAsleep", "rsSelected", "txEnd", "t3btEnd",
                 "readEnd", "presenceEnd", "vscRsp", "vscNtf", "goneEnd"}
<1>1. x.op \in Ops \cup {"none"}
  BY DEF Thrs
<1>2. CASE y.pc = x.pc
  BY <1>1, <1>2 DEF Woke, SvcPlace, DogPlace
<1>3. CASE x.pc \in Waits /\ y.pc = After(x.pc)
  <2>1. /\ x.pc \in Called => y.pc \in Called
        /\ x.pc \in Checking <=> y.pc \in Checking
        /\ y.pc \in ReSelecting <=> x.pc \in ReSelecting
        /\ x.pc \notin {"idle", "disconnect", "dogEnd"} /\ y.pc \notin {"idle", "disconnect", "dogEnd"}
        /\ y.pc \in {"rsAsleep", "rsSelected", "txEnd", "t3btEnd",
                     "readEnd", "presenceEnd", "vscRsp", "vscNtf", "goneEnd"}
        /\ \/ x.pc \in Called
           \/ x.pc = "txW" /\ y.pc = "txEnd"
           \/ x.pc \in {"readW", "readRefused"} /\ y.pc = "readEnd"
    BY <1>3 DEF Waits, After, Called, Checking, ReSelecting
  <2>2. x.pc \in Own(x.op) => y.pc \in Own(x.op)
    <3> SUFFICES ASSUME x.pc \in Own(x.op) PROVE y.pc \in Own(x.op)
      OBVIOUS
    <3>1. x.pc \notin Called
      BY <1>1, OwnPlaces
    <3>2. CASE x.pc = "txW" /\ y.pc = "txEnd"
      <4>1. x.op = "transceive"
        BY <1>1, <3>2, OwnPlaces
      <4> QED
        BY <3>2, <4>1 DEF Own
    <3>3. CASE x.pc \in {"readW", "readRefused"} /\ y.pc = "readEnd"
      <4>1. x.op = "read"
        BY <1>1, <3>3, OwnPlaces
      <4> QED
        BY <3>3, <4>1 DEF Own
    <3> QED
      BY <2>1, <3>1, <3>2, <3>3
  <2> QED
    BY <1>1, <2>1, <2>2 DEF Woke, SvcPlace, DogPlace
<1> QED
  BY <1>2, <1>3 DEF Woke

\* A step that only wakes threads.
LEMMA EventStep ==
    ASSUME Inv, Types', Free', nt'.mutex = nt.mutex,
           \A u \in Threads : Woke(thr[u], thr'[u]) /\ CallWaits(u)' /\ OwnWaits(u)',
           Notes(thr["svc"])'
    PROVE  Inv'
<1>1. ASSUME NEW u \in Threads
      PROVE  /\ Place(u)'
             /\ thr'[u].pc = "idle" <=> thr[u].pc = "idle"
             /\ thr'[u].pc = "disconnect" <=> thr[u].pc = "disconnect"
  <2>1. thr[u] \in Thrs /\ Place(u)
    BY DEF Inv, Types, Fit
  <2>2. /\ SvcPlace(thr[u]) => SvcPlace(thr'[u])
        /\ DogPlace(thr[u]) => DogPlace(thr'[u])
        /\ thr'[u].pc \in ReSelecting <=> thr[u].pc \in ReSelecting
        /\ thr'[u].pc = "idle" <=> thr[u].pc = "idle"
        /\ thr'[u].pc = "disconnect" <=> thr[u].pc = "disconnect"
    BY <2>1, WokePlaces
  <2> QED
    BY <2>1, <2>2 DEF Place
<1>2. Apart'
  BY <1>1 DEF Inv, Apart, At, Threads
<1>3. \A u \in Threads : Fit(u)'
  BY <1>1 DEF Fit
<1> QED
  BY <1>2, <1>3 DEF Inv

\* Whoever still waits afterwards waits for something that is still out: the requests that are
\* gone, G, have woken theirs.
LEMMA EventWaits ==
    ASSUME Inv, NEW u \in Threads, Woke(thr[u], thr'[u]), NEW G,
           \A r \in Requests \ G : Ahead(r) => Ahead(r)',
           "presence" \in G => thr'[u].pc # "presenceW",
           "idle" \in G => thr'[u].pc # "goneW",
           "vsc" \in G => thr'[u].pc # "vscRspW",
           "read" \in G => thr'[u].pc # "readW",
           "check" \in G => sem'["c"] \/ ~nt.ckWait,
           "format" \in G => sem'["f"],
           "write" \in G => sem'["w"] \/ ~nt.wrWait,
           "readonly" \in G => sem'["r"] \/ ~nt.roWait,
           vtimer # "off" => vtimer' # "off" \/ thr'[u].pc \notin {"vscRspW", "vscRsp", "vscNtfW"},
           \A s \in {"w", "f", "c", "r"} : sem[s] => sem'[s],
           nt.reading => nt'.reading,
           nt.ckWait => nt'.ckWait \/ sem'["c"],
           nt.wrWait => nt'.wrWait \/ sem'["w"],
           nt.roWait => nt'.roWait \/ sem'["r"]
    PROVE  CallWaits(u)' /\ OwnWaits(u)'
<1>1. thr[u] \in Thrs /\ CallWaits(u) /\ OwnWaits(u)
  BY DEF Inv, Types, Fit
<1>2. /\ thr'[u].op = thr[u].op
      /\ thr'[u].pc = thr[u].pc \/ thr'[u].pc \in {"rsAsleep", "rsSelected", "txEnd", "t3btEnd",
                 "readEnd", "presenceEnd", "vscRsp", "vscNtf", "goneEnd"}
      /\ thr'[u].pc # thr[u].pc => thr[u].pc \in Waits /\ thr'[u].pc = After(thr[u].pc)
  BY DEF Woke, Waits, After
<1>3. {"presence", "idle", "vsc", "read", "check", "format", "write", "readonly"} \subseteq Requests
  BY DEF Requests, Rw
<1>4. thr'[u].pc = "vscRsp" => thr[u].pc \in {"vscRsp", "vscRspW"}
  BY <1>2 DEF Waits, After
<1>5. CallWaits(u)'
  BY <1>1, <1>2, <1>3, <1>4 DEF CallWaits, At
<1>6. thr[u].pc \in {"wrWait", "wrSent"} => thr[u].op = "write"
  BY OpAt
<1>7. thr[u].pc = "roWait" => thr[u].op = "readonly"
  BY OpAt
<1>8. (thr'[u].pc = "readW" => nt'.reading /\ Ahead("read")') /\ (thr'[u].pc = "ckWait" => sem'["c"] \/ (nt'.ckWait /\ Ahead("check")'))
  BY <1>1, <1>2, <1>3 DEF OwnWaits, At
<1>9. thr'[u].pc \in {"wrFormat", "fmWait"} => sem'["f"] \/ Ahead("format")'
  BY <1>1, <1>2, <1>3 DEF OwnWaits
<1>10. thr[u].op = "write" /\ thr[u].pc \notin {"idle", "write"} => (sem'["w"] \/ nt'.wrWait) /\ (sem["w"] \/ nt.wrWait)
  BY <1>1 DEF OwnWaits
<1>11. thr[u].op = "readonly" /\ thr[u].pc \notin {"idle", "readonly"} =>
          (sem'["r"] \/ nt'.roWait) /\ (sem["r"] \/ nt.roWait)
  BY <1>1 DEF OwnWaits
<1>12. thr'[u].pc \in {"wrWait", "wrSent"} => sem'["w"] \/ Ahead("write")'
  BY <1>1, <1>2, <1>3, <1>6, <1>10 DEF OwnWaits
<1>13. thr'[u].pc = "roWait" => sem'["r"] \/ Ahead("readonly")'
  BY <1>1, <1>2, <1>3, <1>7, <1>11 DEF OwnWaits, At
<1>14. thr'[u].pc \in {"idle", "write", "readonly"} <=> thr[u].pc \in {"idle", "write", "readonly"}
  BY <1>2 DEF Waits, After
<1>15. /\ thr'[u].op = "write" /\ thr'[u].pc \notin {"idle", "write"} => sem'["w"] \/ nt'.wrWait
       /\ thr'[u].op = "readonly" /\ thr'[u].pc \notin {"idle", "readonly"} => sem'["r"] \/ nt'.roWait
  BY <1>2, <1>10, <1>11 DEF Waits
<1> QED
  BY <1>5, <1>8, <1>9, <1>12, <1>13, <1>15 DEF OwnWaits, At

LEMMA EventNotes ==
    ASSUME Inv, Woke(thr["svc"], thr'["svc"]), nt'.checking = nt.checking,
           nt'.wrOk => nt.wrOk \/ (thr["svc"].op = "write" /\ thr["svc"].pc # "idle" => thr'["svc"].ans),
           nt'.fmOk => nt.fmOk \/ (thr["svc"].op = "format" /\ thr["svc"].pc # "idle" => thr'["svc"].ans),
           nt'.rx = nt.rx \/ (nt'.rx = Head(jobs).ep /\ Head(jobs).r = "raw" /\ jobs # << >>),
           \A e : RawFor(jobs, e) => RawFor(jobs', e)
    PROVE  Notes(thr["svc"])'
<1>1. "svc" \in Threads /\ thr["svc"] \in Thrs /\ Notes(thr["svc"])
  BY DEF Inv, Types, Fit, Threads
<1>2. /\ thr'["svc"].op = thr["svc"].op /\ thr'["svc"].k = thr["svc"].k
      /\ thr'["svc"].rv = thr["svc"].rv /\ thr'["svc"].ep = thr["svc"].ep
      /\ thr["svc"].ans => thr'["svc"].ans
      /\ thr'["svc"].pc = thr["svc"].pc \/ (thr["svc"].pc \in Waits /\ thr'["svc"].pc = After(thr["svc"].pc))
  BY DEF Woke
<1>3. /\ thr'["svc"].pc = "wrWait" => thr["svc"].pc = "wrWait"
      /\ thr'["svc"].pc \in {"idle", "format"} <=> thr["svc"].pc \in {"idle", "format"}
      /\ thr'["svc"].pc = "idle" <=> thr["svc"].pc = "idle"
      /\ thr'["svc"].pc = "checkNdef" <=> thr["svc"].pc = "checkNdef"
      /\ thr'["svc"].pc = "fmOk" => thr["svc"].pc = "fmOk"
      /\ thr'["svc"].pc \in {"txW", "txEnd"} => thr["svc"].pc \in {"txW", "txEnd"}
  BY <1>2 DEF Waits, After
<1>4. thr["svc"].pc = "wrWait" => thr["svc"].op = "write"
  BY <1>1, OpAt
<1>5. thr'["svc"].pc = "wrWait" /\ nt'.wrOk => thr'["svc"].ans
  BY <1>1, <1>2, <1>3, <1>4 DEF Notes
<1>6. thr'["svc"].op = "format" /\ thr'["svc"].pc \notin {"idle", "format"} /\ nt'.fmOk => thr'["svc"].ans
  BY <1>1, <1>2, <1>3 DEF Notes
<1>7. "fmOk" \in {thr'["svc"].pc, thr'["svc"].k} => thr'["svc"].ans
  BY <1>1, <1>2, <1>3 DEF Notes
<1>8. ASSUME thr'["svc"].pc \in {"txW", "txEnd"}
      PROVE  nt'.rx \in {0, thr'["svc"].ep} /\ RawFor(jobs', thr'["svc"].ep)
  <2>1. nt.rx \in {0, thr["svc"].ep} /\ RawFor(jobs, thr["svc"].ep)
    BY <1>1, <1>3, <1>8 DEF Notes, RawFor
  <2>2. jobs # << >> => 1 \in DOMAIN jobs /\ Head(jobs) = jobs[1]
    BY DEF Inv, Types
  <2>3. jobs # << >> /\ Head(jobs).r = "raw" => Head(jobs).ep = thr["svc"].ep
    BY <2>1, <2>2 DEF RawFor
  <2> QED
    BY <1>2, <2>1, <2>3
<1>9. /\ thr'["svc"].pc = "idle" /\ thr'["svc"].rv = "ok" /\ thr'["svc"].op \in {"write", "format", "transceive"} =>
           thr'["svc"].ans
      /\ nt'.checking => thr'["svc"].op = "checkNdef" /\ thr'["svc"].pc \notin {"idle", "checkNdef"}
  BY <1>1, <1>2, <1>3 DEF Notes
<1> QED
  BY <1>5, <1>6, <1>7, <1>8, <1>9 DEF Notes, RawFor

\* The requests of G are gone, and whoever waited for one of them is woken or finds it posted.
Gone(G) ==
    /\ \A r \in Requests \ G : Ahead(r) => Ahead(r)'
    /\ \A e : RawFor(jobs, e) => RawFor(jobs', e)
    /\ \A u \in Threads : /\ "presence" \in G => thr'[u].pc # "presenceW"
                          /\ "idle" \in G => thr'[u].pc # "goneW"
                          /\ "vsc" \in G => thr'[u].pc # "vscRspW"
                          /\ "read" \in G => thr'[u].pc # "readW"
    /\ "check" \in G => sem'["c"] \/ ~nt.ckWait
    /\ "format" \in G => sem'["f"]
    /\ "write" \in G => sem'["w"] \/ ~nt.wrWait
    /\ "readonly" \in G => sem'["r"] \/ ~nt.roWait

\* What was posted stays, and a flag that says that somebody waits falls with a post.
Posts ==
    /\ \A s \in {"w", "f", "c", "r"} : sem[s] => sem'[s]
    /\ nt.reading => nt'.reading
    /\ nt.ckWait => nt'.ckWait \/ sem'["c"]
    /\ nt.wrWait => nt'.wrWait \/ sem'["w"]
    /\ nt.roWait => nt'.roWait \/ sem'["r"]

\* An "ok" is noted, and data are of the tag.
Marks ==
    /\ nt'.checking = nt.checking
    /\ nt'.wrOk => nt.wrOk \/ (thr["svc"].op = "write" /\ thr["svc"].pc # "idle" => thr'["svc"].ans)
    /\ nt'.fmOk => nt.fmOk \/ (thr["svc"].op = "format" /\ thr["svc"].pc # "idle" => thr'["svc"].ans)
    /\ nt'.rx = nt.rx \/ (nt'.rx = Head(jobs).ep /\ Head(jobs).r = "raw" /\ jobs # << >>)

LEMMA EventKeeps ==
    ASSUME Inv, Types', Free', nt'.mutex = nt.mutex,
           \A u \in Threads : Woke(thr[u], thr'[u]),
           NEW G, Gone(G), Posts, Marks,
           \A u \in Threads :
               vtimer # "off" => vtimer' # "off" \/ thr'[u].pc \notin {"vscRspW", "vscRsp", "vscNtfW"}
    PROVE  Inv'
<1>1. ASSUME NEW u \in Threads PROVE CallWaits(u)' /\ OwnWaits(u)'
  BY EventWaits DEF Gone, Posts
<1>2. "svc" \in Threads
  BY DEF Threads
<1>3. Notes(thr["svc"])'
  BY <1>2, EventNotes DEF Gone, Marks
<1> QED
  BY <1>1, <1>3, EventStep

LEMMA WokeSelf == \A x : Woke(x, x)
BY DEF Woke

LEMMA SameMarksPost ==
    ASSUME UNCHANGED <<nt, sem>>
    PROVE  Posts /\ Marks
BY DEF Posts, Marks

LEMMA SameJobsGone ==
    ASSUME UNCHANGED jobs
    PROVE  Gone({})
BY DEF Gone, Ahead, RawFor

LEMMA WaitTimesOutKeeps ==
    ASSUME Inv, NEW t \in Threads, WaitTimesOut(t)
    PROVE  Inv'
<1>1. Types /\ thr[t] \in Thrs /\ thr[t].pc \in Waits
      /\ UNCHANGED <<card, tag, nt, sem, jobs, vtimer, watch, count>>
  BY DEF WaitTimesOut, Inv, Types, Waits
<1> DEFINE x == [thr[t] EXCEPT !.pc = After(thr[t].pc), !.woken = FALSE]
<1>2. x \in Thrs /\ Woke(thr[t], x)
  BY <1>1, Wakes
<1>3. thr' = [thr EXCEPT ![t] = x]
  BY DEF WaitTimesOut
<1> HIDE DEF x
<1>4. thr' \in [Threads -> Thrs] /\ thr'[t] = x /\ Others(t)
  BY <1>1, <1>2, <1>3, RunOne
<1>5. \A u \in Threads : Woke(thr[u], thr'[u])
  BY <1>2, <1>4, WokeSelf DEF Others
<1>6. Types' /\ Free'
  BY <1>1, <1>4 DEF Types, Free, Inv
<1> QED
  BY <1>1, <1>5, <1>6, EventKeeps, SameMarksPost, SameJobsGone

LEMMA TagLeavesKeeps ==
    ASSUME Inv, TagLeaves
    PROVE  Inv'
<1>1. UNCHANGED <<tag, nt, sem, thr, jobs, vtimer, watch, count>>
  BY DEF TagLeaves
<1>2. card' \in Cards
  BY DEF TagLeaves, Inv, Types, Cards
<1>3. Types' /\ Free'
  BY <1>1, <1>2 DEF Types, Free, Inv
<1>4. \A u \in Threads : Woke(thr[u], thr'[u])
  BY <1>1, WokeSelf
<1> QED
  BY <1>1, <1>3, <1>4, EventKeeps, SameMarksPost, SameJobsGone

LEMMA VscTimerKeeps ==
    ASSUME Inv, VscTimer
    PROVE  Inv'
<1>1. Types /\ UNCHANGED <<card, tag, sem, jobs, watch, count>> /\ vtimer' = "off"
      /\ thr' = Notified(thr, {"vscNtf"})
      /\ \A t \in Threads : thr[t].pc \notin {"vscRspW", "vscRsp"}
  BY DEF VscTimer, Inv
<1>2. /\ thr' \in [Threads -> Thrs]
      /\ \A u \in Threads : Woke(thr[u], thr'[u]) /\ thr'[u].pc \notin WaitsOn("vscNtf")
  BY <1>1, NotifiedIs DEF Events
<1>3. nt' \in Nts /\ SameFlags(nt') /\ Posts /\ Marks
  <2>1. nt \in Nts
    BY <1>1 DEF Types
  <2> DEFINE a == [nt EXCEPT !.inField = FALSE]
             b == [a EXCEPT !.reconnecting = FALSE]
  <2>2. a \in Nts
    BY <2>1, NtBools
  <2>3. b \in Nts
    BY <2>2, NtBools
  <2>4. nt' = nt \/ nt' = b
    BY DEF VscTimer
  <2>5. /\ b.mutex = nt.mutex /\ b.deact = nt.deact /\ b.sel = nt.sel /\ b.recon = nt.recon
        /\ b.conWait = nt.conWait /\ b.ckWait = nt.ckWait /\ b.wrWait = nt.wrWait /\ b.roWait = nt.roWait
        /\ b.checking = nt.checking /\ b.wrOk = nt.wrOk /\ b.fmOk = nt.fmOk /\ b.rx = nt.rx /\ b.reading = nt.reading
    BY <2>1, NtFields
  <2> HIDE DEF a, b
  <2> QED
    BY <1>1, <2>1, <2>3, <2>4, <2>5 DEF SameFlags, Posts, Marks
<1>4. Types'
  BY <1>1, <1>2, <1>3 DEF Types, Timers
<1>5. Free' /\ nt'.mutex = nt.mutex
  BY <1>3 DEF SameFlags, Free, Inv
<1>6. \A u \in Threads : thr'[u].pc \notin {"vscRspW", "vscRsp", "vscNtfW"}
  BY <1>1, <1>2 DEF Woke, Waits, After, WaitsOn
<1> QED
  BY <1>1, <1>2, <1>3, <1>4, <1>5, <1>6, EventKeeps, SameJobsGone

\* What an activation does to the flags: nobody but reSelect looks at them.
LEMMA NtActivated ==
    ASSUME Inv, NEW i \in Intfs, NEW a \in BOOLEAN, NEW b \in BOOLEAN, NEW c \in BOOLEAN,
           b => nt.conWait,
           nt' = [nt EXCEPT !.rfIntf = i, !.conOk = a, !.conWait = b, !.present = c],
           \A s \in {"w", "f", "c", "r"} : sem[s] => sem'[s]
    PROVE  nt' \in Nts /\ Free' /\ nt'.mutex = nt.mutex /\ Posts /\ Marks
<1> DEFINE w == [nt EXCEPT !.rfIntf = i]
           x == [w EXCEPT !.conOk = a]
           y == [x EXCEPT !.conWait = b]
           z == [y EXCEPT !.present = c]
<1>1. nt \in Nts
  BY DEF Inv, Types
<1>2. w \in Nts
  BY <1>1, NtOthers
<1>3. x \in Nts
  BY <1>2, NtBools
<1>4. y \in Nts
  BY <1>3, NtBools
<1>5. z \in Nts
  BY <1>4, NtBools
<1>6. /\ z.mutex = nt.mutex /\ z.deact = nt.deact /\ z.sel = nt.sel /\ z.recon = nt.recon
      /\ z.conWait = b /\ z.ckWait = nt.ckWait /\ z.wrWait = nt.wrWait /\ z.roWait = nt.roWait
      /\ z.checking = nt.checking /\ z.wrOk = nt.wrOk /\ z.fmOk = nt.fmOk /\ z.rx = nt.rx /\ z.reading = nt.reading
  BY <1>1, NtFields
<1>7. nt' = z
  OBVIOUS
<1> HIDE DEF w, x, y, z
<1>8. nt' \in Nts /\ nt'.mutex = nt.mutex /\ Posts /\ Marks
  BY <1>5, <1>6, <1>7 DEF Posts, Marks
<1>9. Free'
  BY <1>6, <1>7 DEF Free, Inv
<1> QED
  BY <1>8, <1>9

LEMMA TagArrivesKeeps ==
    ASSUME Inv, NEW k \in Kinds, TagArrives(k)
    PROVE  Inv'
<1>1. Types /\ UNCHANGED <<sem, jobs, vtimer>> /\ jobs = << >> /\ count.tags < MaxTags
  BY DEF TagArrives, Inv
<1>2. MaxTags \in Nat /\ nt \in Nts /\ tag \in Tags /\ count \in Counts
  BY <1>1, NativeTagAssumption DEF Types
<1>3. card' \in Cards
  BY DEF TagArrives, Cards
<1>4. count' \in Counts /\ count'.tags = count.tags + 1 /\ count.tags \in Nat
  BY <1>1, <1>2 DEF TagArrives, Counts
<1>5. tag.ep \in Nat /\ tag.ep <= count.tags
  BY <1>1, <1>2 DEF Tags, Types
<1> DEFINE i == CASE k \in Iso -> "iso" [] k = "MIFARE" -> "mifare" [] OTHER -> "frame"
           a == IF nt.sel /\ nt.conWait THEN TRUE ELSE nt.conOk
           b == IF nt.sel THEN FALSE ELSE nt.conWait
           c == IF nt.sel THEN nt.present ELSE TRUE
<1>6. i \in Intfs /\ a \in BOOLEAN /\ b \in BOOLEAN /\ c \in BOOLEAN /\ (b => nt.conWait)
  BY <1>2 DEF Nts, Intfs
<1>7. nt' = [nt EXCEPT !.rfIntf = i, !.conOk = a, !.conWait = b, !.present = c]
  BY DEF TagArrives
<1> HIDE DEF i, a, b, c
<1>8. nt' \in Nts /\ Free' /\ nt'.mutex = nt.mutex /\ Posts /\ Marks
  BY <1>1, <1>6, <1>7, NtActivated
<1>9. /\ thr' \in [Threads -> Thrs] /\ (\A u \in Threads : Woke(thr[u], thr'[u]))
      /\ watch' \in Watches /\ tag' \in Tags /\ tag'.ep <= count'.tags
  <2>1. CASE nt.sel
    <3>1. thr' = ConnectStatus(nt, thr) /\ watch' = watch
          /\ tag' = [tag EXCEPT !.isActivated = TRUE, !.act = "Active", !.timedOut = FALSE]
      BY <2>1 DEF TagArrives
    <3> DEFINE x == [tag EXCEPT !.isActivated = TRUE]
               y == [x EXCEPT !.act = "Active"]
               z == [y EXCEPT !.timedOut = FALSE]
    <3>2. x \in Tags
      BY <1>2, TagTypes
    <3>3. y \in Tags
      BY <3>2, TagTypes
    <3>4. z \in Tags /\ z.ep = tag.ep
      BY <1>2, <3>3, TagTypes
    <3>5. tag' = z
      BY <3>1
    <3> HIDE DEF x, y, z
    <3> QED
      BY <1>1, <1>4, <1>5, <3>1, <3>4, <3>5, ConnectStatusIs DEF Types
  <2>2. CASE ~nt.sel
    <3>1. /\ thr' = thr /\ watch' = (IF watch = "off" THEN "on" ELSE watch)
          /\ tag' = [act |-> "Active", isActivated |-> TRUE, timedOut |-> FALSE, kind |-> k,
                     params |-> k, special |-> "no", ep |-> tag.ep + 1]
      BY <2>2 DEF TagArrives
    <3>2. tag.ep + 1 \in 0 .. MaxTags /\ tag.ep + 1 <= count.tags + 1
      BY <1>1, <1>2, <1>4, <1>5
    <3>3. tag' \in Tags /\ tag'.ep = tag.ep + 1
      BY <3>1, <3>2 DEF Tags
    <3> QED
      BY <1>1, <1>4, <3>1, <3>2, <3>3, WokeSelf DEF Types, Watches
  <2> QED
    BY <2>1, <2>2
<1>10. jobs' \in Seq(Jobs(tag'.ep))
  BY <1>1
<1>11. Types'
  BY <1>1, <1>3, <1>4, <1>8, <1>9, <1>10 DEF Types
<1> QED
  BY <1>1, <1>8, <1>9, <1>11, EventKeeps, SameJobsGone

\* A job is served: what is left of the queue.
LEMMA JobServed ==
    ASSUME Types, jobs # << >>
    PROVE  /\ Head(jobs) \in Jobs(tag.ep) /\ Rest \in Seq(Jobs(tag.ep)) /\ Job \in Requests
           /\ Head(jobs).ep = tag.ep
           /\ \A r : Ahead(r) /\ Job # r => AheadIn(Rest, r)
           /\ \A e : RawFor(jobs, e) => RawFor(Rest, e)
<1>1. jobs \in Seq(Jobs(tag.ep))
  BY DEF Types
<1>2. /\ Tail(jobs) \in Seq(Jobs(tag.ep)) /\ Head(jobs) \in Jobs(tag.ep)
      /\ \A r : AheadIn(jobs, r) /\ Head(jobs).r # r => AheadIn(Tail(jobs), r)
      /\ \A e : RawFor(jobs, e) => RawFor(Tail(jobs), e)
  BY <1>1, Served
<1>3. Head(jobs).r \in Requests /\ Head(jobs).ep = tag.ep
  BY <1>2 DEF Jobs
<1> QED
  BY <1>2, <1>3, AheadOfJobs DEF Rest, Job

\* A request may be added for what is left.
LEMMA RestAnd ==
    ASSUME Types, jobs # << >>, NEW r \in Requests \ {"raw", "sleep", "stop"},
           NEW q, q = Append(Rest, [r |-> r, ep |-> tag.ep])
    PROVE  /\ q \in Seq(Jobs(tag.ep))
           /\ \A x : AheadIn(Rest, x) => AheadIn(q, x)
           /\ \A e : RawFor(Rest, e) => RawFor(q, e)
<1> DEFINE x == [r |-> r, ep |-> tag.ep]
<1>1. x \in Jobs(tag.ep) /\ x.r = r
  BY DEF Jobs
<1>2. Rest \in Seq(Jobs(tag.ep))
  BY JobServed
<1> HIDE DEF x
<1>3. /\ Append(Rest, x) \in Seq(Jobs(tag.ep))
      /\ \A y : AheadIn(Rest, y) /\ x.r \notin {"sleep", "stop"} => AheadIn(Append(Rest, x), y)
      /\ \A e : RawFor(Rest, e) /\ (x.r = "raw" => x.ep = e) => RawFor(Append(Rest, x), e)
  BY <1>1, <1>2, Appended
<1> QED
  BY <1>1, <1>3 DEF x

\* Only the job that is served is gone.
LEMMA JobGone ==
    ASSUME Types, jobs # << >>,
           \A r : AheadIn(Rest, r) => AheadIn(jobs', r),
           \A e : RawFor(Rest, e) => RawFor(jobs', e),
           \A u \in Threads : /\ Job = "presence" => thr'[u].pc # "presenceW"
                              /\ Job = "vsc" => thr'[u].pc # "vscRspW"
                              /\ Job = "read" => thr'[u].pc # "readW",
           Job # "idle",
           Job = "check" => sem'["c"] \/ ~nt.ckWait,
           Job = "format" => sem'["f"],
           Job = "write" => sem'["w"] \/ ~nt.wrWait,
           Job = "readonly" => sem'["r"] \/ ~nt.roWait
    PROVE  Gone({Job})
<1>1. \A r : Ahead(r) /\ Job # r => Ahead(r)'
  BY JobServed DEF Ahead, AheadIn
<1>2. \A e : RawFor(jobs, e) => RawFor(jobs', e)
  BY JobServed
<1> QED
  BY <1>1, <1>2 DEF Gone

LEMMA SelectFailedKeeps ==
    ASSUME Inv, Quiet, Job \in {"select", "start"}, SelectFailed(Rest),
           UNCHANGED <<card, watch, count>>
    PROVE  Inv'
<1>1. Types /\ jobs # << >> /\ UNCHANGED <<card, tag, sem, vtimer, watch, count>> /\ nt \in Nts
  BY DEF SelectFailed, Quiet, Inv, Types
<1> DEFINE a == [nt EXCEPT !.conOk = IF nt.sel /\ nt.conWait THEN FALSE ELSE @]
           b == [a EXCEPT !.conWait = IF nt.sel THEN FALSE ELSE @]
<1>2. a \in Nts
  <2>1. (IF nt.sel /\ nt.conWait THEN FALSE ELSE nt.conOk) \in BOOLEAN
    BY <1>1 DEF Nts
  <2> QED
    BY <1>1, <2>1, NtBools
<1>3. b \in Nts
  <2>1. (IF nt.sel THEN FALSE ELSE a.conWait) \in BOOLEAN
    BY <1>2 DEF Nts
  <2> HIDE DEF a
  <2> QED
    BY <1>2, <2>1, NtBools
<1>4. /\ b.mutex = nt.mutex /\ b.deact = nt.deact /\ b.sel = nt.sel /\ b.recon = nt.recon
      /\ (b.conWait => nt.conWait) /\ b.ckWait = nt.ckWait /\ b.wrWait = nt.wrWait
      /\ b.roWait = nt.roWait /\ b.checking = nt.checking /\ b.wrOk = nt.wrOk /\ b.fmOk = nt.fmOk
      /\ b.rx = nt.rx /\ b.reading = nt.reading
  BY <1>1, NtFields
<1>5. nt' = b
  BY DEF SelectFailed
<1> HIDE DEF a, b
<1>6. Posts /\ Marks /\ Free'
  BY <1>1, <1>4, <1>5 DEF Posts, Marks, Free, Inv
<1>7. thr' \in [Threads -> Thrs] /\ \A u \in Threads : Woke(thr[u], thr'[u])
  BY <1>1, ConnectStatusIs, WokeSelf DEF SelectFailed, Types
<1>8. jobs' = Append(Rest, [r |-> "idle", ep |-> tag.ep])
  BY DEF SelectFailed
<1>9. "idle" \in Requests \ {"raw", "sleep", "stop"}
  BY DEF Requests
<1>10. /\ jobs' \in Seq(Jobs(tag.ep))
       /\ \A r : AheadIn(Rest, r) => AheadIn(jobs', r)
       /\ \A e : RawFor(Rest, e) => RawFor(jobs', e)
  BY <1>1, <1>8, <1>9, RestAnd
<1>11. Gone({Job})
  BY <1>1, <1>10, JobGone
<1>12. Types'
  BY <1>1, <1>3, <1>5, <1>7, <1>10 DEF Types
<1> QED
  BY <1>1, <1>4, <1>5, <1>6, <1>7, <1>11, <1>12, EventKeeps

LEMMA ReactivatedKeeps ==
    ASSUME Inv, Quiet, Job \in {"select", "start"}, NEW i \in Intfs, Reactivated(i, Rest),
           card' \in Cards, UNCHANGED <<watch, count>>
    PROVE  Inv'
<1>1. Types /\ jobs # << >> /\ UNCHANGED <<sem, vtimer, watch, count>> /\ nt \in Nts /\ tag \in Tags
      /\ card \in Cards /\ jobs' = Rest
  BY DEF Reactivated, Quiet, Inv, Types
<1> DEFINE a == IF nt.conWait THEN nt.sel ELSE nt.conOk
           b == IF nt.sel THEN FALSE ELSE nt.conWait
           c == IF nt.sel THEN nt.present ELSE TRUE
<1>2. a \in BOOLEAN /\ b \in BOOLEAN /\ c \in BOOLEAN /\ (b => nt.conWait)
  BY <1>1 DEF Nts
<1>3. nt' = [nt EXCEPT !.rfIntf = i, !.conOk = a, !.conWait = b, !.present = c]
  BY DEF Reactivated
<1> HIDE DEF a, b, c
<1>4. nt' \in Nts /\ Free' /\ nt'.mutex = nt.mutex /\ Posts /\ Marks
  BY <1>1, <1>2, <1>3, NtActivated
<1>5. tag' \in Tags /\ tag'.ep = tag.ep
  <2> DEFINE w == [tag EXCEPT !.isActivated = TRUE]
             x == [w EXCEPT !.act = "Active"]
             y == [x EXCEPT !.timedOut = FALSE]
             k == IF tag.special # "no" THEN card.kind ELSE tag.kind
             z == [y EXCEPT !.kind = k]
  <2>1. k \in Kinds \cup {"none"}
    BY <1>1 DEF Cards, Tags
  <2>2. w \in Tags
    BY <1>1, TagTypes
  <2>3. x \in Tags
    BY <2>2, TagTypes
  <2>4. y \in Tags /\ y.kind = tag.kind /\ y.ep = tag.ep
    BY <1>1, <2>3, TagTypes
  <2>5. tag' = [y EXCEPT !.kind = k]
    BY <2>4 DEF Reactivated
  <2> HIDE DEF w, x, y, k
  <2> QED
    BY <2>1, <2>4, <2>5, TagTypes
<1>6. thr' \in [Threads -> Thrs] /\ \A u \in Threads : Woke(thr[u], thr'[u])
  BY <1>1, ConnectStatusIs, WokeSelf DEF Reactivated, Types
<1>7. Gone({Job})
  BY <1>1, JobGone
<1>8. Types'
  BY <1>1, <1>4, <1>5, <1>6, JobServed DEF Types
<1> QED
  BY <1>1, <1>4, <1>6, <1>7, <1>8, EventKeeps

LEMMA SelectedKeeps ==
    ASSUME Inv, Selected
    PROVE  Inv'
<1>1. Types /\ Quiet /\ jobs # << >> /\ Job \in {"select", "start"} /\ UNCHANGED <<watch, count>>
  BY DEF Selected, Quiet, Inv
<1>2. card' \in Cards
  BY <1>1 DEF Selected, Types, Cards
<1>3. ASSUME NEW t \in Threads, Reactivated(Wanted(t), Rest) PROVE Inv'
  <2>1. Wanted(t) \in Intfs
    BY DEF Wanted, Intfs
  <2> QED
    BY <1>1, <1>2, <1>3, <2>1, ReactivatedKeeps
<1>4. CASE SelectFailed(Rest) /\ UNCHANGED card
  BY <1>1, <1>4, SelectFailedKeeps
<1>5. CASE jobs' = Rest /\ UNCHANGED <<tag, nt, sem, thr, vtimer>>
  <2>1. \A u \in Threads : Woke(thr[u], thr'[u])
    BY <1>5, WokeSelf
  <2>2. Types' /\ Free'
    BY <1>1, <1>2, <1>5, JobServed DEF Types, Free, Inv
  <2>3. Gone({Job})
    BY <1>1, <1>5, JobGone
  <2> QED
    BY <1>1, <1>5, <2>1, <2>2, <2>3, EventKeeps, SameMarksPost
<1>6. CASE Reactivated(nt.rfIntf, Rest)
  <2>1. nt.rfIntf \in Intfs
    BY <1>1 DEF Types, Nts
  <2> QED
    BY <1>1, <1>2, <1>6, <2>1, ReactivatedKeeps
<1> QED
  BY <1>3, <1>4, <1>5, <1>6 DEF Selected

LEMMA VscAnswersKeeps ==
    ASSUME Inv, VscAnswers
    PROVE  Inv'
<1>1. Types /\ jobs # << >> /\ Job \in {"vsc", "vntf"} /\ nt \in Nts
      /\ UNCHANGED <<card, tag, sem, vtimer, watch, count>>
  BY DEF VscAnswers, Quiet, Inv, Types
<1>2. nt' \in Nts /\ SameFlags(nt') /\ Posts /\ Marks
  <2>1. PICK b \in BOOLEAN : nt' = [nt EXCEPT !.vscRsp = b] \/ nt' = [nt EXCEPT !.inField = b]
    BY <1>1 DEF VscAnswers, Types, Cards
  <2>2. nt' \in Nts
    BY <1>1, <2>1, NtBools
  <2>3. /\ nt'.mutex = nt.mutex /\ nt'.deact = nt.deact /\ nt'.sel = nt.sel /\ nt'.recon = nt.recon
        /\ nt'.conWait = nt.conWait /\ nt'.ckWait = nt.ckWait /\ nt'.wrWait = nt.wrWait
        /\ nt'.roWait = nt.roWait /\ nt'.checking = nt.checking /\ nt'.wrOk = nt.wrOk
        /\ nt'.fmOk = nt.fmOk /\ nt'.rx = nt.rx /\ nt'.reading = nt.reading
    BY <1>1, <2>1, NtFields
  <2> QED
    BY <1>1, <2>2, <2>3 DEF SameFlags, Posts, Marks
<1>3. Free' /\ nt'.mutex = nt.mutex
  BY <1>2 DEF SameFlags, Free, Inv
<1>4. PICK E \in {{"vscRsp"}, {"vscNtf"}} : thr' = Notified(thr, E) /\ (Job = "vsc" => E = {"vscRsp"})
  BY <1>1 DEF VscAnswers
<1>5. /\ thr' \in [Threads -> Thrs]
      /\ \A u \in Threads : Woke(thr[u], thr'[u]) /\ \A e \in E : thr'[u].pc \notin WaitsOn(e)
  BY <1>1, <1>4, NotifiedIs DEF Events
<1>6. \A u \in Threads : Job = "vsc" => thr'[u].pc # "vscRspW"
  BY <1>4, <1>5 DEF WaitsOn
<1>7. jobs' = Rest \/ jobs' = Append(Rest, [r |-> "vntf", ep |-> tag.ep])
  BY DEF VscAnswers
<1>8. "vntf" \in Requests \ {"raw", "sleep", "stop"}
  BY DEF Requests
<1>9. /\ jobs' \in Seq(Jobs(tag.ep))
      /\ \A r : AheadIn(Rest, r) => AheadIn(jobs', r)
      /\ \A e : RawFor(Rest, e) => RawFor(jobs', e)
  BY <1>1, <1>7, <1>8, RestAnd, JobServed
<1>10. Gone({Job})
  BY <1>1, <1>6, <1>9, JobGone
<1>11. Types'
  BY <1>1, <1>2, <1>5, <1>9 DEF Types
<1> QED
  BY <1>1, <1>2, <1>3, <1>5, <1>10, <1>11, EventKeeps

LEMMA AnswerKeeps ==
    ASSUME Inv, Quiet, Job \in Rw, jobs' = Rest, UNCHANGED <<card, vtimer, watch, count>>,
           tag' \in Tags, tag'.ep = tag.ep, nt' \in Nts, SameFlags(nt'), sem' \in Sems,
           thr' \in [Threads -> Thrs], \A u \in Threads : Woke(thr[u], thr'[u]), Posts, Marks,
           \A u \in Threads : /\ Job = "presence" => thr'[u].pc # "presenceW"
                              /\ Job = "read" => thr'[u].pc # "readW",
           Job = "check" => sem'["c"] \/ ~nt.ckWait,
           Job = "format" => sem'["f"],
           Job = "write" => sem'["w"] \/ ~nt.wrWait,
           Job = "readonly" => sem'["r"] \/ ~nt.roWait
    PROVE  Inv'
<1>1. Types /\ jobs # << >> /\ Job \notin {"idle", "vsc"}
  BY DEF Quiet, Inv, Rw
<1>2. Gone({Job})
  BY <1>1, JobGone
<1>3. Types'
  BY <1>1, JobServed DEF Types
<1>4. Free' /\ nt'.mutex = nt.mutex
  BY DEF SameFlags, Free, Inv
<1> QED
  BY <1>2, <1>3, <1>4, EventKeeps

LEMMA SemPosts ==
    ASSUME Types, NEW s \in {"w", "f", "c", "r"}, NEW q, q = [sem EXCEPT ![s] = TRUE]
    PROVE  q \in Sems /\ q[s] /\ \A x \in {"w", "f", "c", "r"} : sem[x] => q[x]
BY DEF Types, Sems

LEMMA Unanswered ==
    ASSUME Types, UNCHANGED thr
    PROVE  thr' \in [Threads -> Thrs] /\ \A u \in Threads : Woke(thr[u], thr'[u])
BY WokeSelf DEF Types

LEMMA CheckAnswered ==
    ASSUME Inv, TagAnswers, Job = "check"
    PROVE  Inv'
<1>1. Types /\ Quiet /\ nt \in Nts /\ tag \in Tags /\ sem \in Sems /\ Job \in Rw
      /\ jobs' = Rest /\ UNCHANGED <<card, vtimer, watch, count, thr>>
  BY DEF TagAnswers, Inv, Types, Rw
<1>2. PICK out \in {"ok", "fail", "timeout"} :
        /\ tag' = [tag EXCEPT !.timedOut = out = "timeout"]
        /\ IF nt.ckWait
           THEN \E size, capable \in BOOLEAN :
                /\ nt' = [nt EXCEPT !.ckWait = FALSE, !.ckSt = out, !.size = size /\ out = "ok",
                                    !.capable = out = "ok" \/ (out = "fail" /\ capable)]
                /\ sem' = [sem EXCEPT !["c"] = TRUE]
           ELSE UNCHANGED <<nt, sem>>
  <2>1. Outcomes \subseteq {"ok", "fail", "timeout"}
    BY DEF Outcomes
  <2> QED
    BY <2>1 DEF TagAnswers
<1>3. tag' \in Tags /\ tag'.ep = tag.ep
  BY <1>1, <1>2, TagTypes
<1>4. CASE ~nt.ckWait
  <2>1. UNCHANGED <<nt, sem>>
    BY <1>2, <1>4
  <2>2. SameFlags(nt')
    BY <2>1 DEF SameFlags
  <2> QED
    BY <1>1, <1>3, <1>4, <2>1, <2>2, AnswerKeeps, Unanswered, SameMarksPost
<1>5. CASE nt.ckWait
  <2>1. PICK b, c \in BOOLEAN :
           /\ nt' = [nt EXCEPT !.ckWait = FALSE, !.ckSt = out, !.size = b, !.capable = c]
           /\ sem' = [sem EXCEPT !["c"] = TRUE]
    BY <1>2, <1>5
  <2> DEFINE w == [nt EXCEPT !.ckWait = FALSE]
             x == [w EXCEPT !.ckSt = out]
             y == [x EXCEPT !.size = b]
             z == [y EXCEPT !.capable = c]
  <2>2. w \in Nts
    BY <1>1, NtBools
  <2>3. x \in Nts
    BY <2>2, NtOthers
  <2>4. y \in Nts
    BY <2>3, NtBools
  <2>5. z \in Nts
    BY <2>4, NtBools
  <2>6. /\ z.mutex = nt.mutex /\ z.deact = nt.deact /\ z.sel = nt.sel /\ z.recon = nt.recon
        /\ z.conWait = nt.conWait /\ z.wrWait = nt.wrWait /\ z.roWait = nt.roWait
        /\ z.checking = nt.checking /\ z.wrOk = nt.wrOk /\ z.fmOk = nt.fmOk /\ z.rx = nt.rx /\ z.reading = nt.reading
    BY <1>1, NtFields
  <2>7. nt' = z
    BY <2>1
  <2> HIDE DEF w, x, y, z
  <2>8. sem' \in Sems /\ sem'["c"] /\ \A s \in {"w", "f", "c", "r"} : sem[s] => sem'[s]
    BY <1>1, <2>1, SemPosts
  <2>9. SameFlags(nt') /\ Posts /\ Marks
    BY <2>6, <2>7, <2>8 DEF SameFlags, Posts, Marks
  <2> QED
    BY <1>1, <1>3, <2>5, <2>7, <2>8, <2>9, AnswerKeeps, Unanswered
<1> QED
  BY <1>4, <1>5

LEMMA ReadAnswered ==
    ASSUME Inv, TagAnswers, Job = "read"
    PROVE  Inv'
<1>1. Types /\ Quiet /\ nt \in Nts /\ tag \in Tags /\ sem \in Sems /\ Job \in Rw /\ jobs # << >>
      /\ jobs' = Rest /\ UNCHANGED <<card, vtimer, watch, count, tag, sem>>
  BY DEF TagAnswers, Inv, Types, Rw, Quiet
<1>2. PICK out \in {"ok", "fail", "timeout"} :
        /\ nt' = IF nt.reading THEN [nt EXCEPT !.readSt = out] ELSE nt
        /\ thr' = IF nt.reading THEN Notified(thr, {"read"}) ELSE thr
  <2>1. Outcomes \subseteq {"ok", "fail", "timeout"}
    BY DEF Outcomes
  <2> QED
    BY <2>1 DEF TagAnswers
<1>3. nt' \in Nts
  BY <1>1, <1>2, NtOthers
<1>4. /\ nt'.mutex = nt.mutex /\ nt'.deact = nt.deact /\ nt'.sel = nt.sel /\ nt'.recon = nt.recon
      /\ nt'.conWait = nt.conWait /\ nt'.ckWait = nt.ckWait /\ nt'.wrWait = nt.wrWait
      /\ nt'.roWait = nt.roWait /\ nt'.checking = nt.checking /\ nt'.wrOk = nt.wrOk
      /\ nt'.fmOk = nt.fmOk /\ nt'.rx = nt.rx /\ nt'.reading = nt.reading
  BY <1>1, <1>2, NtFields
<1>5. SameFlags(nt') /\ Posts /\ Marks
  BY <1>1, <1>4 DEF SameFlags, Posts, Marks
<1>6. CASE nt.reading
  <2>1. /\ thr' \in [Threads -> Thrs]
        /\ \A u \in Threads : Woke(thr[u], thr'[u]) /\ thr'[u].pc \notin WaitsOn("read")
    BY <1>1, <1>2, <1>6, NotifiedIs DEF Events
  <2>2. \A u \in Threads : thr'[u].pc # "readW"
    BY <2>1 DEF WaitsOn
  <2> QED
    BY <1>1, <1>3, <1>5, <2>1, <2>2, AnswerKeeps
<1>7. CASE ~nt.reading
  <2>1. thr' = thr
    BY <1>2, <1>7
  <2>2. \A u \in Threads : thr'[u].pc # "readW"
    BY <1>7, <2>1 DEF Inv, Fit, OwnWaits, At
  <2> QED
    BY <1>1, <1>3, <1>5, <2>1, <2>2, AnswerKeeps, Unanswered
<1> QED
  BY <1>6, <1>7

\* The semaphore of the wait and the note of the answer, for a write that somebody waits for,
LEMMA WriteAnswered ==
    ASSUME Inv, TagAnswers, Job = "write"
    PROVE  Inv'
<1>1. Types /\ Quiet /\ nt \in Nts /\ tag \in Tags /\ sem \in Sems /\ Job \in Rw
      /\ jobs' = Rest /\ UNCHANGED <<card, vtimer, watch, count, tag>> /\ "svc" \in Threads
  BY DEF TagAnswers, Inv, Types, Rw, Threads
<1>2. PICK out \in {"ok", "fail", "timeout"} :
        /\ nt' = IF nt.wrWait THEN [nt EXCEPT !.wrWait = FALSE, !.wrOk = out = "ok"] ELSE nt
        /\ sem' = IF nt.wrWait THEN [sem EXCEPT !["w"] = TRUE] ELSE sem
        /\ thr' = IF nt.wrWait /\ out = "ok" THEN Answered(thr, "write") ELSE thr
  <2>1. Outcomes \subseteq {"ok", "fail", "timeout"}
    BY DEF Outcomes
  <2> QED
    BY <1>1, <2>1 DEF TagAnswers
<1>3. CASE ~nt.wrWait
  <2>1. UNCHANGED <<nt, sem, thr>>
    BY <1>2, <1>3
  <2>2. SameFlags(nt')
    BY <2>1 DEF SameFlags
  <2> QED
    BY <1>1, <1>3, <2>1, <2>2, AnswerKeeps, Unanswered, SameMarksPost
<1>4. CASE nt.wrWait
  <2> DEFINE x == [nt EXCEPT !.wrWait = FALSE]
             y == [x EXCEPT !.wrOk = out = "ok"]
  <2>1. x \in Nts
    BY <1>1, NtBools
  <2>2. y \in Nts
    BY <2>1, NtBools
  <2>3. /\ y.mutex = nt.mutex /\ y.deact = nt.deact /\ y.sel = nt.sel /\ y.recon = nt.recon
        /\ y.conWait = nt.conWait /\ y.ckWait = nt.ckWait /\ y.roWait = nt.roWait
        /\ y.checking = nt.checking /\ (y.wrOk <=> out = "ok") /\ y.fmOk = nt.fmOk
        /\ y.rx = nt.rx /\ y.reading = nt.reading
    BY <1>1, NtFields
  <2>4. nt' = y
    BY <1>2, <1>4
  <2> HIDE DEF x, y
  <2>5. sem' \in Sems /\ sem'["w"] /\ \A s \in {"w", "f", "c", "r"} : sem[s] => sem'[s]
    BY <1>1, <1>2, <1>4, SemPosts
  <2>6. /\ thr' \in [Threads -> Thrs] /\ (\A u \in Threads : Woke(thr[u], thr'[u]))
        /\ out = "ok" => (thr["svc"].op = "write" /\ thr["svc"].pc # "idle" => thr'["svc"].ans)
    BY <1>1, <1>2, <1>4, AnsweredIs, Unanswered
  <2>7. SameFlags(nt') /\ Posts /\ Marks
    BY <2>3, <2>4, <2>5, <2>6 DEF SameFlags, Posts, Marks
  <2> QED
    BY <1>1, <2>2, <2>4, <2>5, <2>6, <2>7, AnswerKeeps
<1> QED
  BY <1>3, <1>4

\* a format,
LEMMA FormatAnswered ==
    ASSUME Inv, TagAnswers, Job = "format"
    PROVE  Inv'
<1>1. Types /\ Quiet /\ nt \in Nts /\ tag \in Tags /\ sem \in Sems /\ Job \in Rw
      /\ jobs' = Rest /\ UNCHANGED <<card, vtimer, watch, count, tag>> /\ "svc" \in Threads
  BY DEF TagAnswers, Inv, Types, Rw, Threads
<1>2. PICK out \in {"ok", "fail", "timeout"} :
        /\ nt' = [nt EXCEPT !.fmOk = out = "ok"] /\ sem' = [sem EXCEPT !["f"] = TRUE]
        /\ thr' = IF out = "ok" THEN Answered(thr, "format") ELSE thr
  <2>1. Outcomes \subseteq {"ok", "fail", "timeout"}
    BY DEF Outcomes
  <2> QED
    BY <1>1, <2>1 DEF TagAnswers
<1>3. nt' \in Nts
  BY <1>1, <1>2, NtBools
<1>4. /\ nt'.mutex = nt.mutex /\ nt'.deact = nt.deact /\ nt'.sel = nt.sel /\ nt'.recon = nt.recon
      /\ nt'.conWait = nt.conWait /\ nt'.ckWait = nt.ckWait /\ nt'.wrWait = nt.wrWait
      /\ nt'.roWait = nt.roWait /\ nt'.checking = nt.checking /\ nt'.wrOk = nt.wrOk
      /\ (nt'.fmOk <=> out = "ok") /\ nt'.rx = nt.rx /\ nt'.reading = nt.reading
  BY <1>1, <1>2, NtFields
<1>5. sem' \in Sems /\ sem'["f"] /\ \A s \in {"w", "f", "c", "r"} : sem[s] => sem'[s]
  BY <1>1, <1>2, SemPosts
<1>6. /\ thr' \in [Threads -> Thrs] /\ (\A u \in Threads : Woke(thr[u], thr'[u]))
      /\ out = "ok" => (thr["svc"].op = "format" /\ thr["svc"].pc # "idle" => thr'["svc"].ans)
  BY <1>1, <1>2, AnsweredIs, Unanswered
<1>7. SameFlags(nt') /\ Posts /\ Marks
  BY <1>4, <1>5, <1>6 DEF SameFlags, Posts, Marks
<1> QED
  BY <1>1, <1>3, <1>5, <1>6, <1>7, AnswerKeeps

\* and a lock.
LEMMA ReadonlyAnswered ==
    ASSUME Inv, TagAnswers, Job = "readonly"
    PROVE  Inv'
<1>1. Types /\ Quiet /\ nt \in Nts /\ tag \in Tags /\ sem \in Sems /\ Job \in Rw
      /\ jobs' = Rest /\ UNCHANGED <<card, vtimer, watch, count, tag>> /\ "svc" \in Threads
  BY DEF TagAnswers, Inv, Types, Rw, Threads
<1>2. PICK out \in {"ok", "fail", "timeout"} :
        /\ nt' = IF nt.roWait THEN [nt EXCEPT !.roWait = FALSE, !.roSt = out = "ok"] ELSE nt
        /\ sem' = IF nt.roWait THEN [sem EXCEPT !["r"] = TRUE] ELSE sem
        /\ thr' = IF nt.roWait /\ out = "ok" THEN Answered(thr, "readonly") ELSE thr
  <2>1. Outcomes \subseteq {"ok", "fail", "timeout"}
    BY DEF Outcomes
  <2> QED
    BY <1>1, <2>1 DEF TagAnswers
<1>3. CASE ~nt.roWait
  <2>1. UNCHANGED <<nt, sem, thr>>
    BY <1>2, <1>3
  <2>2. SameFlags(nt')
    BY <2>1 DEF SameFlags
  <2> QED
    BY <1>1, <1>3, <2>1, <2>2, AnswerKeeps, Unanswered, SameMarksPost
<1>4. CASE nt.roWait
  <2> DEFINE x == [nt EXCEPT !.roWait = FALSE]
             y == [x EXCEPT !.roSt = out = "ok"]
  <2>1. x \in Nts
    BY <1>1, NtBools
  <2>2. y \in Nts
    BY <2>1, NtBools
  <2>3. /\ y.mutex = nt.mutex /\ y.deact = nt.deact /\ y.sel = nt.sel /\ y.recon = nt.recon
        /\ y.conWait = nt.conWait /\ y.ckWait = nt.ckWait /\ y.wrWait = nt.wrWait
        /\ y.checking = nt.checking /\ y.wrOk = nt.wrOk /\ y.fmOk = nt.fmOk
        /\ y.rx = nt.rx /\ y.reading = nt.reading
    BY <1>1, NtFields
  <2>4. nt' = y
    BY <1>2, <1>4
  <2> HIDE DEF x, y
  <2>5. sem' \in Sems /\ sem'["r"] /\ \A s \in {"w", "f", "c", "r"} : sem[s] => sem'[s]
    BY <1>1, <1>2, <1>4, SemPosts
  <2>6. thr' \in [Threads -> Thrs] /\ \A u \in Threads : Woke(thr[u], thr'[u])
    BY <1>1, <1>2, <1>4, AnsweredIs, Unanswered
  <2>7. SameFlags(nt') /\ Posts /\ Marks
    BY <2>3, <2>4, <2>5, <2>6 DEF SameFlags, Posts, Marks
  <2> QED
    BY <1>1, <2>2, <2>4, <2>5, <2>6, <2>7, AnswerKeeps
<1> QED
  BY <1>3, <1>4

LEMMA PresenceAnswered ==
    ASSUME Inv, TagAnswers, Job = "presence"
    PROVE  Inv'
<1>1. Types /\ Quiet /\ nt \in Nts /\ tag \in Tags /\ sem \in Sems /\ Job \in Rw
      /\ jobs' = Rest /\ UNCHANGED <<card, vtimer, watch, count, tag, sem>>
      /\ thr' = Notified(thr, {"presence"})
  BY DEF TagAnswers, Inv, Types, Rw
<1>2. PICK b \in BOOLEAN : nt' = [nt EXCEPT !.present = b]
  BY <1>1 DEF TagAnswers
<1>3. nt' \in Nts
  BY <1>1, <1>2, NtBools
<1>4. /\ nt'.mutex = nt.mutex /\ nt'.deact = nt.deact /\ nt'.sel = nt.sel /\ nt'.recon = nt.recon
      /\ nt'.conWait = nt.conWait /\ nt'.ckWait = nt.ckWait /\ nt'.wrWait = nt.wrWait
      /\ nt'.roWait = nt.roWait /\ nt'.checking = nt.checking /\ nt'.wrOk = nt.wrOk
      /\ nt'.fmOk = nt.fmOk /\ nt'.rx = nt.rx /\ nt'.reading = nt.reading
  BY <1>1, <1>2, NtFields
<1>5. SameFlags(nt') /\ Posts /\ Marks
  BY <1>1, <1>4 DEF SameFlags, Posts, Marks
<1>6. /\ thr' \in [Threads -> Thrs]
      /\ \A u \in Threads : Woke(thr[u], thr'[u]) /\ thr'[u].pc \notin WaitsOn("presence")
  BY <1>1, NotifiedIs DEF Events
<1>7. \A u \in Threads : thr'[u].pc # "presenceW"
  BY <1>6 DEF WaitsOn
<1> QED
  BY <1>1, <1>3, <1>5, <1>6, <1>7, AnswerKeeps

LEMMA TagAnswersKeeps ==
    ASSUME Inv, TagAnswers
    PROVE  Inv'
<1>1. Job \in {"check", "read", "write", "format", "readonly", "presence"}
  BY DEF TagAnswers, Rw
<1> QED
  BY <1>1, CheckAnswered, ReadAnswered, WriteAnswered, FormatAnswered, ReadonlyAnswered,
     PresenceAnswered

\* An answer to a frame, an error of the link, or nothing where there is no link.
LEMMA RawAnswersKeeps ==
    ASSUME Inv, RawAnswers
    PROVE  Inv'
<1>1. Types /\ Quiet /\ nt \in Nts /\ tag \in Tags /\ sem \in Sems /\ Job \in Rw /\ Job = "raw"
      /\ jobs # << >> /\ jobs' = Rest /\ UNCHANGED <<card, tag, sem, vtimer, watch, count>>
  BY DEF RawAnswers, Quiet, Inv, Types, Rw
<1>2. \A E \in SUBSET Events : thr' = Notified(thr, E) =>
         thr' \in [Threads -> Thrs] /\ \A u \in Threads : Woke(thr[u], thr'[u])
  BY <1>1, NotifiedIs
<1>3. \/ thr' = thr
      \/ \E E \in SUBSET Events : thr' = Notified(thr, E)
  BY DEF RawAnswers, Events
<1>4. thr' \in [Threads -> Thrs] /\ \A u \in Threads : Woke(thr[u], thr'[u])
  BY <1>1, <1>2, <1>3, Unanswered
<1>5. nt' \in Nts /\ SameFlags(nt') /\ Posts /\ Marks
  <2>1. CASE nt' = nt
    BY <1>1, <2>1, SameMarksPost DEF SameFlags
  <2>2. CASE nt' = [nt EXCEPT !.rx = Head(jobs).ep]
    <3>1. Head(jobs).ep \in 0 .. MaxTags /\ Head(jobs).r = "raw"
      BY <1>1, JobServed DEF Tags, Job
    <3>2. nt' \in Nts
      BY <1>1, <2>2, <3>1, NtOthers
    <3>3. /\ nt'.mutex = nt.mutex /\ nt'.deact = nt.deact /\ nt'.sel = nt.sel /\ nt'.recon = nt.recon
          /\ nt'.conWait = nt.conWait /\ nt'.ckWait = nt.ckWait /\ nt'.wrWait = nt.wrWait
          /\ nt'.roWait = nt.roWait /\ nt'.checking = nt.checking /\ nt'.wrOk = nt.wrOk
          /\ nt'.fmOk = nt.fmOk /\ nt'.rx = Head(jobs).ep /\ nt'.reading = nt.reading
      BY <1>1, <2>2, NtFields
    <3> QED
      BY <1>1, <3>1, <3>2, <3>3 DEF SameFlags, Posts, Marks
  <2>3. CASE nt' = [nt EXCEPT !.txTimeout = IF nt.txWait THEN TRUE ELSE @,
                              !.readSt = IF nt.reading THEN "timeout" ELSE @]
    <3> DEFINE a == IF nt.txWait THEN TRUE ELSE nt.txTimeout
               b == IF nt.reading THEN "timeout" ELSE nt.readSt
               x == [nt EXCEPT !.txTimeout = a]
               y == [x EXCEPT !.readSt = b]
    <3>1. a \in BOOLEAN /\ b \in {"ok", "fail", "timeout"}
      BY <1>1 DEF Nts
    <3>2. nt' = y
      BY <1>1, <2>3, NtFields
    <3> HIDE DEF a, b
    <3>3. x \in Nts
      BY <1>1, <3>1, NtBools
    <3>4. y \in Nts
      BY <3>1, <3>3, NtOthers
    <3>5. /\ y.mutex = nt.mutex /\ y.deact = nt.deact /\ y.sel = nt.sel /\ y.recon = nt.recon
          /\ y.conWait = nt.conWait /\ y.ckWait = nt.ckWait /\ y.wrWait = nt.wrWait
          /\ y.roWait = nt.roWait /\ y.checking = nt.checking /\ y.wrOk = nt.wrOk
          /\ y.fmOk = nt.fmOk /\ y.rx = nt.rx /\ y.reading = nt.reading
      BY <1>1, NtFields
    <3> HIDE DEF x, y
    <3> QED
      BY <1>1, <3>2, <3>4, <3>5 DEF SameFlags, Posts, Marks
  <2> QED
    BY <2>1, <2>2, <2>3 DEF RawAnswers
<1> QED
  BY <1>1, <1>4, <1>5, AnswerKeeps

-----------------------------------------------------------------------------
(* The link goes down.                                                     *)

AfterCut(i) == SubSeq(jobs, i + 1, Len(jobs))

LEMMA JobsCut ==
    ASSUME Types, NEW i \in DOMAIN jobs, jobs[i].r \in {"sleep", "idle", "stop"},
           \A j \in 1 .. (i - 1) : jobs[j].r \in Rw
    PROVE  /\ AfterCut(i) \in Seq(Jobs(tag.ep))
           /\ \A r : Ahead(r) /\ r \notin Rw \cup {"sleep", "idle", "stop"} => AheadIn(AfterCut(i), r)
           /\ jobs[i].r # "idle" => \A r : Ahead(r) /\ r \notin {"sleep", "stop"} => AheadIn(AfterCut(i), r)
           /\ \A e : RawFor(jobs, e) => RawFor(AfterCut(i), e)
<1>1. jobs \in Seq(Jobs(tag.ep)) /\ i \in 1 .. Len(jobs) /\ Len(jobs) \in Nat
  BY DEF Types
<1>2. /\ AfterCut(i) \in Seq(Jobs(tag.ep))
      /\ \A r : AheadIn(jobs, r) /\ (\A n \in 1 .. i : jobs[n].r = r => jobs[i].r \in {"sleep", "stop"} /\ n # i)
                  => AheadIn(AfterCut(i), r)
      /\ \A e : RawFor(jobs, e) => RawFor(AfterCut(i), e)
  BY <1>1, Cut DEF AfterCut
<1>3. \A n \in 1 .. i : n = i \/ n \in 1 .. (i - 1)
  BY <1>1
<1>4. ASSUME NEW r, Ahead(r), r \notin Rw \cup {"sleep", "idle", "stop"} PROVE AheadIn(AfterCut(i), r)
  <2>1. \A n \in 1 .. i : jobs[n].r # r
    BY <1>3, <1>4
  <2> QED
    BY <1>2, <1>4, <2>1, AheadOfJobs
<1>5. ASSUME jobs[i].r # "idle", NEW r, Ahead(r), r \notin {"sleep", "stop"} PROVE AheadIn(AfterCut(i), r)
  <2>1. \A n \in 1 .. i : jobs[n].r = r => jobs[i].r \in {"sleep", "stop"} /\ n # i
    BY <1>3, <1>5
  <2> QED
    BY <1>2, <1>5, <2>1, AheadOfJobs
<1> QED
  BY <1>2, <1>4, <1>5

\* What the tag's record is after its sleep or its end.
LEMMA TagDown ==
    ASSUME NEW x \in Tags, NEW y,
           \/ \E b \in BOOLEAN : y = [x EXCEPT !.act = "Sleep", !.timedOut = FALSE, !.isActivated = b]
           \/ y = [x EXCEPT !.act = "Idle", !.timedOut = FALSE, !.isActivated = FALSE,
                            !.kind = "none", !.special = "no"]
    PROVE  y \in Tags /\ y.ep = x.ep
<1>1. ASSUME NEW b \in BOOLEAN, NEW a \in {"Sleep", "Idle"}, NEW z,
             z = [x EXCEPT !.act = a, !.timedOut = FALSE, !.isActivated = b]
      PROVE  z \in Tags /\ z.ep = x.ep
  <2> DEFINE u == [x EXCEPT !.act = a]
             v == [u EXCEPT !.timedOut = FALSE]
             w == [v EXCEPT !.isActivated = b]
  <2>1. u \in Tags
    BY TagTypes
  <2>2. v \in Tags
    BY <2>1, TagTypes
  <2>3. w \in Tags /\ w.ep = x.ep
    BY <2>2, TagTypes
  <2>4. z = w
    BY <1>1
  <2> HIDE DEF u, v, w
  <2> QED
    BY <2>3, <2>4
<1>2. CASE \E b \in BOOLEAN : y = [x EXCEPT !.act = "Sleep", !.timedOut = FALSE, !.isActivated = b]
  BY <1>1, <1>2
<1>3. CASE y = [x EXCEPT !.act = "Idle", !.timedOut = FALSE, !.isActivated = FALSE,
                         !.kind = "none", !.special = "no"]
  <2> DEFINE z == [x EXCEPT !.act = "Idle", !.timedOut = FALSE, !.isActivated = FALSE]
             u == [z EXCEPT !.kind = "none"]
             v == [u EXCEPT !.special = "no"]
  <2>1. z \in Tags /\ z.ep = x.ep
    BY <1>1
  <2>2. y = v
    BY <1>3
  <2> HIDE DEF z
  <2>3. u \in Tags /\ u.ep = x.ep
    BY <2>1, TagTypes
  <2>4. v \in Tags /\ v.ep = x.ep
    BY <2>3, TagTypes
  <2> QED
    BY <2>2, <2>4
<1> QED
  BY <1>2, <1>3

\* While the reconnect flag is up a deactivation is ignored: only reSelect is at work then,
\* and it waits with a time limit.
LEMMA IgnoredKeeps ==
    ASSUME Inv, Types', nt.recon, UNCHANGED <<nt, sem, thr, vtimer>>,
           \A e : RawFor(jobs, e) => RawFor(jobs', e)
    PROVE  Inv'
<1>1. PICK t \in Threads : nt.mutex = t /\ thr[t].pc \in ReSelecting
  <2>1. nt.mutex \in Threads
    BY DEF Inv, Types, Nts, Free
  <2> QED
    BY <2>1, NotHeld
<1>2. ASSUME NEW u \in Threads PROVE thr[u].pc \in ReSelecting \cup {"idle", "disconnect"}
  <2>1. ~At(t, "idle") /\ ~At(t, "disconnect")
    BY <1>1 DEF At, ReSelecting
  <2> QED
    BY <1>1, <2>1, OthersRest
<1>3. ASSUME NEW u \in Threads PROVE Woke(thr[u], thr'[u]) /\ CallWaits(u)' /\ OwnWaits(u)'
  <2>1. OwnWaits(u) /\ thr[u].pc \in ReSelecting \cup {"idle", "disconnect"}
    BY <1>2 DEF Inv, Fit
  <2>2. CallWaits(u)'
    BY <2>1 DEF CallWaits, At, ReSelecting
  <2>3. OwnWaits(u)'
    BY <2>1 DEF OwnWaits, At, ReSelecting
  <2> QED
    BY <2>2, <2>3, WokeSelf
<1>4. Notes(thr["svc"])'
  <2>1. Woke(thr["svc"], thr'["svc"])
    BY <1>3 DEF Threads
  <2> QED
    BY <2>1, EventNotes
<1>5. Free' /\ nt'.mutex = nt.mutex
  BY DEF Inv, Free
<1> QED
  BY <1>3, <1>4, <1>5, EventStep

AllOn == {"deactivated", "read", "transceive", "reconnect", "presence"}
DownOf(n) == [n EXCEPT !.present = TRUE, !.rfIntf = "iso"]

LEMMA NtDown ==
    ASSUME NEW n \in Nts
    PROVE  /\ DownOf(n) \in Nts
           /\ DownOf(n).mutex = n.mutex /\ DownOf(n).deact = n.deact /\ DownOf(n).sel = n.sel
           /\ DownOf(n).recon = n.recon /\ DownOf(n).conWait = n.conWait
           /\ DownOf(n).ckWait = n.ckWait /\ DownOf(n).wrWait = n.wrWait
           /\ DownOf(n).roWait = n.roWait /\ DownOf(n).checking = n.checking
           /\ DownOf(n).wrOk = n.wrOk /\ DownOf(n).fmOk = n.fmOk
           /\ DownOf(n).rx = n.rx /\ DownOf(n).reading = n.reading
<1> DEFINE x == [n EXCEPT !.present = TRUE]
           y == [x EXCEPT !.rfIntf = "iso"]
<1>1. x \in Nts
  BY NtBools
<1>2. y \in Nts
  BY <1>1, NtOthers DEF Intfs
<1>3. /\ y.mutex = n.mutex /\ y.deact = n.deact /\ y.sel = n.sel /\ y.recon = n.recon
      /\ y.conWait = n.conWait /\ y.ckWait = n.ckWait /\ y.wrWait = n.wrWait
      /\ y.roWait = n.roWait /\ y.checking = n.checking /\ y.wrOk = n.wrOk
      /\ y.fmOk = n.fmOk /\ y.rx = n.rx /\ y.reading = n.reading
  BY NtFields
<1>4. DownOf(n) = y
  BY DEF DownOf
<1> HIDE DEF x, y
<1> QED
  BY <1>2, <1>3, <1>4

LEMMA AllPosted ==
    ASSUME Types, sem' = [x \in DOMAIN sem |-> TRUE]
    PROVE  sem' \in Sems /\ \A s \in {"w", "f", "c", "r"} : sem'[s]
BY DEF Types, Sems

\* Everything is given up: who waits without a time limit is woken or finds a post.
LEMMA DownKeeps ==
    ASSUME Inv, nt' = DownOf(nt), sem' = [x \in DOMAIN sem |-> TRUE], thr' = Notified(thr, AllOn),
           tag' \in Tags, tag'.ep = tag.ep, card' \in Cards, jobs' \in Seq(Jobs(tag.ep)),
           UNCHANGED <<vtimer, watch, count>>,
           \A r : Ahead(r) /\ r \notin Rw \cup {"sleep", "idle", "stop"} => Ahead(r)',
           \A e : RawFor(jobs, e) => RawFor(jobs', e)
    PROVE  Inv'
<1>1. Types /\ nt \in Nts
  BY DEF Inv, Types
<1>2. sem' \in Sems /\ \A s \in {"w", "f", "c", "r"} : sem'[s]
  BY <1>1, AllPosted
<1>3. /\ thr' \in [Threads -> Thrs]
      /\ \A u \in Threads : Woke(thr[u], thr'[u]) /\ \A e \in AllOn : thr'[u].pc \notin WaitsOn(e)
  BY <1>1, NotifiedIs DEF AllOn, Events
<1>4. \A u \in Threads : thr'[u].pc \notin {"presenceW", "goneW", "readW"}
  BY <1>3 DEF AllOn, WaitsOn
<1>5. nt' \in Nts /\ nt'.mutex = nt.mutex /\ Free' /\ Posts /\ Marks
  BY <1>1, <1>2, NtDown DEF Free, Inv, Posts, Marks
<1>6. Types'
  BY <1>1, <1>2, <1>3, <1>5 DEF Types
<1> DEFINE G == Rw \cup {"sleep", "idle", "stop"}
<1>7. Gone(G)
  <2>1. \A r \in Requests \ G : Ahead(r) => Ahead(r)'
    OBVIOUS
  <2>2. "vsc" \notin G
    BY DEF Rw
  <2> HIDE DEF G
  <2> QED
    BY <1>2, <1>4, <2>1, <2>2 DEF Gone
<1> HIDE DEF G
<1> QED
  BY <1>3, <1>5, <1>6, <1>7, EventKeeps

\* The tag sleeps, or the discovery stops, and what came before the request is thrown away.
LEMMA SleepKeeps ==
    ASSUME Inv, NEW i \in DOMAIN jobs, jobs[i].r \in {"sleep", "stop"},
           \A j \in 1 .. (i - 1) : jobs[j].r \in Rw,
           jobs' = AfterCut(i), card' \in Cards, UNCHANGED <<nt, sem, vtimer, watch, count>>,
           tag' \in Tags, tag'.ep = tag.ep, thr' = thr \/ thr' = Notified(thr, {"reconnect"})
    PROVE  Inv'
<1>1. Types
  BY DEF Inv
<1>2. thr' \in [Threads -> Thrs] /\ \A u \in Threads : Woke(thr[u], thr'[u])
  BY <1>1, NotifiedIs, Unanswered DEF Events
<1>3. /\ jobs' \in Seq(Jobs(tag.ep))
      /\ \A r : Ahead(r) /\ r \notin {"sleep", "stop"} => AheadIn(jobs', r)
      /\ \A e : RawFor(jobs, e) => RawFor(jobs', e)
  BY <1>1, JobsCut
<1>4. Gone({"sleep", "stop"})
  BY <1>3 DEF Gone, Ahead, AheadIn
<1>5. Types' /\ Free'
  BY <1>1, <1>2, <1>3 DEF Types, Free, Inv
<1> QED
  BY <1>2, <1>4, <1>5, EventKeeps, SameMarksPost

LEMMA DeactivatedKeeps ==
    ASSUME Inv, NEW i \in DOMAIN jobs, jobs[i].r \in {"sleep", "idle", "stop"},
           \A j \in 1 .. (i - 1) : jobs[j].r \in Rw,
           NEW type \in {"sleep", "idle"}, type = "sleep" => jobs[i].r = "sleep",
           Deactivated(type, AfterCut(i)), card' \in Cards, UNCHANGED <<watch, count>>
    PROVE  Inv'
<1>1. Types /\ tag \in Tags /\ nt \in Nts /\ UNCHANGED vtimer /\ jobs' = AfterCut(i)
  BY DEF Inv, Types, Deactivated
<1>2. /\ AfterCut(i) \in Seq(Jobs(tag.ep))
      /\ \A r : Ahead(r) /\ r \notin Rw \cup {"sleep", "idle", "stop"} => AheadIn(AfterCut(i), r)
      /\ \A e : RawFor(jobs, e) => RawFor(AfterCut(i), e)
  BY <1>1, JobsCut
<1>3. CASE nt.recon
  <2>1. UNCHANGED <<tag, nt, sem, thr>>
    BY <1>3 DEF Deactivated
  <2>2. Types'
    BY <1>1, <1>2, <2>1 DEF Types
  <2> QED
    BY <1>1, <1>2, <1>3, <2>1, <2>2, IgnoredKeeps
<1>4. CASE ~nt.recon /\ type = "sleep"
  <2>1. /\ tag' = [tag EXCEPT !.act = "Sleep", !.timedOut = FALSE,
                              !.isActivated = IF nt.deact THEN FALSE ELSE @]
        /\ thr' = (IF nt.deact THEN Notified(thr, {"reconnect"}) ELSE thr)
        /\ UNCHANGED <<nt, sem>>
    BY <1>4 DEF Deactivated
  <2>2. (IF nt.deact THEN FALSE ELSE tag.isActivated) \in BOOLEAN
    BY <1>1 DEF Tags
  <2>3. tag' = [tag EXCEPT !.act = "Sleep", !.timedOut = FALSE,
                           !.isActivated = IF nt.deact THEN FALSE ELSE tag.isActivated]
    BY <1>1, <2>1, TagTypes
  <2>4. tag' \in Tags /\ tag'.ep = tag.ep
    BY <1>1, <2>2, <2>3, TagDown
  <2> QED
    BY <1>1, <1>4, <2>1, <2>4, SleepKeeps
<1>5. CASE ~nt.recon /\ type # "sleep"
  <2>1. /\ tag' = [tag EXCEPT !.act = "Idle", !.timedOut = FALSE, !.isActivated = FALSE,
                              !.kind = "none", !.special = "no"]
        /\ nt' = DownOf(nt) /\ sem' = [x \in DOMAIN sem |-> TRUE] /\ thr' = Notified(thr, AllOn)
    BY <1>5 DEF Deactivated, DownOf, AllOn
  <2>2. tag' \in Tags /\ tag'.ep = tag.ep
    BY <1>1, <2>1, TagDown
  <2>3. \A r : Ahead(r) /\ r \notin Rw \cup {"sleep", "idle", "stop"} => Ahead(r)'
    BY <1>1, <1>2 DEF Ahead, AheadIn
  <2> QED
    BY <1>1, <1>2, <2>1, <2>2, <2>3, DownKeeps
<1> QED
  BY <1>3, <1>4, <1>5

LEMMA LinkDownKeeps ==
    ASSUME Inv, NEW i \in 1 .. Len(jobs), LinkDown(i)
    PROVE  Inv'
<1>1. /\ Types /\ card \in Cards /\ tag \in Tags /\ nt \in Nts /\ UNCHANGED <<watch, count>>
      /\ i \in DOMAIN jobs /\ jobs[i].r \in {"sleep", "idle", "stop"}
      /\ \A j \in 1 .. (i - 1) : jobs[j].r \in Rw
  BY DEF LinkDown, Inv, Types
<1>2. AfterCut(i) = SubSeq(jobs, i + 1, Len(jobs))
  BY DEF AfterCut
<1>3. CASE /\ jobs' = RemoveAt(jobs, i) /\ thr' = Notified(thr, {"deactivated"})
           /\ UNCHANGED <<card, tag, nt, sem, vtimer>>
  <2>1. /\ jobs' \in Seq(Jobs(tag.ep))
        /\ \A r : AheadIn(jobs, r) /\ jobs[i].r # r => AheadIn(jobs', r)
        /\ \A e : RawFor(jobs, e) => RawFor(jobs', e)
    BY <1>1, <1>3, Removed DEF Types
  <2>2. /\ thr' \in [Threads -> Thrs]
        /\ \A u \in Threads : Woke(thr[u], thr'[u]) /\ thr'[u].pc \notin WaitsOn("deactivated")
    BY <1>1, <1>3, NotifiedIs DEF Events
  <2>3. \A u \in Threads : thr'[u].pc # "goneW"
    BY <2>2 DEF WaitsOn
  <2>4. Gone({jobs[i].r})
    BY <1>1, <2>1, <2>3 DEF Gone, Ahead, AheadIn
  <2>5. Types' /\ Free'
    BY <1>1, <1>3, <2>1, <2>2 DEF Types, Free, Inv
  <2> QED
    BY <1>3, <2>2, <2>4, <2>5, EventKeeps, SameMarksPost
<1>4. CASE /\ jobs[i].r = "stop"
           /\ card' = [card EXCEPT !.rf = "stopped"] /\ jobs' = AfterCut(i)
           /\ IF nt.recon
              THEN /\ tag' = [tag EXCEPT !.act = "Sleep", !.timedOut = FALSE,
                                         !.isActivated = IF nt.deact THEN FALSE ELSE @]
                   /\ thr' = IF nt.deact THEN Notified(thr, {"reconnect"}) ELSE thr
              ELSE UNCHANGED <<tag, thr>>
           /\ UNCHANGED <<nt, sem, vtimer>>
  <2>1. card' \in Cards
    BY <1>1, <1>4 DEF Cards
  <2>2. tag' \in Tags /\ tag'.ep = tag.ep
    <3>1. CASE nt.recon
      <4>1. (IF nt.deact THEN FALSE ELSE tag.isActivated) \in BOOLEAN
        BY <1>1 DEF Tags
      <4>2. tag' = [tag EXCEPT !.act = "Sleep", !.timedOut = FALSE,
                               !.isActivated = IF nt.deact THEN FALSE ELSE tag.isActivated]
        BY <1>1, <1>4, <3>1, TagTypes
      <4> QED
        BY <1>1, <4>1, <4>2, TagDown
    <3>2. CASE ~nt.recon
      BY <1>1, <1>4, <3>2
    <3> QED
      BY <3>1, <3>2
  <2> QED
    BY <1>1, <1>4, <2>1, <2>2, SleepKeeps
<1>5. CASE /\ jobs[i].r = "sleep"
           /\ \/ card' = [card EXCEPT !.rf = "sleep"] /\ Deactivated("sleep", AfterCut(i))
              \/ card' = [card EXCEPT !.rf = "disc"] /\ Deactivated("idle", AfterCut(i))
  <2>1. card' \in Cards
    BY <1>1, <1>5 DEF Cards
  <2> QED
    BY <1>1, <1>5, <2>1, DeactivatedKeeps
<1>6. CASE card' = [card EXCEPT !.rf = "disc"] /\ Deactivated("idle", AfterCut(i))
  <2>1. card' \in Cards
    BY <1>1, <1>6 DEF Cards
  <2> QED
    BY <1>1, <1>6, <2>1, DeactivatedKeeps
<1> QED
  BY <1>1, <1>2, <1>3, <1>4, <1>5, <1>6 DEF LinkDown

LEMMA NfaTaskKeeps ==
    ASSUME Inv, NfaTask
    PROVE  Inv'
BY SelectedKeeps, TagAnswersKeeps, RawAnswersKeeps, VscAnswersKeeps, LinkDownKeeps DEF NfaTask

-----------------------------------------------------------------------------
(* The check of a tag's presence.                                          *)

LEMMA PresenceKeeps ==
    ASSUME Inv, NEW t \in Threads, doPresenceCheck(t)
    PROVE  Inv'
<1>1. Types /\ thr[t].pc = "presence" /\ thr[t].pc \in Called /\ thr[t].pc \notin ReSelecting
      /\ thr[t] \in Thrs
  BY DEF doPresenceCheck, At, Inv, Types, Called, Checking, ReSelecting
<1>2. nt \in Nts /\ tag \in Tags /\ jobs \in Seq(Jobs(tag.ep)) /\ sem \in Sems /\ vtimer \in Timers
      /\ watch \in Watches /\ UNCHANGED <<card, watch, count>>
  BY <1>1 DEF Types, doPresenceCheck
<1>3. ASSUME NEW rv \in Results, Return(t, rv), UNCHANGED <<tag, nt, sem, jobs, vtimer>>
      PROVE  Inv'
  <2>1. SameFlags(nt') /\ SameMarks(nt')
    BY <1>3 DEF SameFlags, SameMarks
  <2>2. Around(t) /\ nt'.mutex # t
    BY <1>1, <1>2, <1>3, <2>1, FlagsStay DEF Around
  <2> QED
    BY <1>1, <1>3, <2>1, <2>2, ReturnStep
<1>4. CASE /\ tag' = [tag EXCEPT !.act = "Idle", !.timedOut = FALSE, !.isActivated = FALSE,
                                 !.kind = "none", !.special = "no"]
           /\ nt' = DownOf(nt)
           /\ sem' = [x \in DOMAIN sem |-> TRUE]
           /\ thr' = [Notified(thr, AllOn) EXCEPT ![t].pc = thr[t].k, ![t].rv = "fail"]
           /\ UNCHANGED <<jobs, vtimer>>
  <2>1. tag' \in Tags /\ tag'.ep = tag.ep
    BY <1>2, <1>4, TagDown
  <2>2. sem' \in Sems /\ \A s \in {"w", "f", "c", "r"} : sem'[s]
    BY <1>1, <1>4, AllPosted
  <2>3. nt' \in Nts /\ SameFlags(nt') /\ SameMarks(nt')
    BY <1>2, <1>4, NtDown DEF SameFlags, SameMarks
  <2>4. Around(t) /\ nt'.mutex # t
    BY <1>1, <1>2, <1>4, <2>1, <2>2, <2>3, FlagsStay DEF Around
  <2>5. Notified(thr, AllOn) = thr
    <3>1. Notified(thr, AllOn) \in [Threads -> Thrs]
          /\ \A u \in Threads : thr[u].pc \notin Waits => Notified(thr, AllOn)[u] = thr[u]
      BY <1>1, NotifiedIs DEF AllOn, Events
    <3>2. \A u \in Threads : thr[u].pc \notin Waits
      <4>1. \A u \in Threads : u # t => thr[u].pc \in {"idle", "disconnect"}
        BY <1>1, OthersRest DEF At
      <4> QED
        BY <1>1, <4>1 DEF Waits
    <3> QED
      BY <1>1, <3>1, <3>2 DEF Types
  <2>6. Return(t, "fail")
    BY <1>4, <2>5 DEF Return
  <2> QED
    BY <1>1, <2>2, <2>3, <2>4, <2>6, ReturnStep DEF Results
<1>5. ASSUME NEW r \in {"vsc", "raw", "presence"}, Request(r), NEW p \in {"vscRspW", "t3btW", "presenceW"},
             To(t, p), p = "vscRspW" => r = "vsc" /\ vtimer' # "off", p = "presenceW" => r = "presence",
             vtimer' \in Timers, nt' \in Nts, SameFlags(nt'), SameMarks(nt'), UNCHANGED <<tag, sem>>
      PROVE  Inv'
  <2>1. jobs' \in Seq(Jobs(tag.ep)) /\ Ahead(r)'
    BY <1>1, <1>5, Requested DEF Requests, Rw
  <2>2. Around(t) /\ nt'.mutex # t
    BY <1>1, <1>2, <1>5, <2>1, FlagsStay DEF Around
  <2>3. p \in Called /\ p \in Checking /\ p \notin ReSelecting
    BY <1>5 DEF Called, Checking, ReSelecting
  <2>4. thr'[t].pc = p => CallWaits(t)'
    BY <1>5, <2>1 DEF CallWaits, At
  <2> QED
    BY <1>1, <1>2, <1>5, <2>2, <2>3, <2>4, ToStep
<1>6. ASSUME UNCHANGED nt PROVE nt' \in Nts /\ SameFlags(nt') /\ SameMarks(nt')
  BY <1>2, <1>6 DEF SameFlags, SameMarks
<1>7. CASE vtimer' = "presence" /\ Request("vsc") /\ To(t, "vscRspW") /\ UNCHANGED <<nt, tag, sem>>
  BY <1>5, <1>6, <1>7 DEF Timers
<1>8. CASE /\ nt' = [nt EXCEPT !.txTimeout = FALSE, !.txWait = TRUE]
           /\ Request("raw") /\ To(t, "t3btW") /\ UNCHANGED <<tag, sem, vtimer>>
  <2> DEFINE x == [nt EXCEPT !.txTimeout = FALSE]
             y == [x EXCEPT !.txWait = TRUE]
  <2>1. x \in Nts
    BY <1>2, NtBools
  <2>2. y \in Nts
    BY <2>1, NtBools
  <2>3. /\ y.mutex = nt.mutex /\ y.deact = nt.deact /\ y.sel = nt.sel /\ y.recon = nt.recon
        /\ y.conWait = nt.conWait /\ y.roWait = nt.roWait /\ y.checking = nt.checking /\ y.fmOk = nt.fmOk
    BY <1>2, NtFields
  <2>4. nt' = y
    BY <1>8
  <2> HIDE DEF x, y
  <2>5. nt' \in Nts /\ SameFlags(nt') /\ SameMarks(nt')
    BY <2>2, <2>3, <2>4 DEF SameFlags, SameMarks
  <2> QED
    BY <1>2, <1>5, <1>8, <2>5
<1>9. CASE Request("presence") /\ To(t, "presenceW") /\ UNCHANGED <<nt, tag, sem, vtimer>>
  BY <1>2, <1>5, <1>6, <1>9
<1>10. "ok" \in Results /\ "fail" \in Results
  BY DEF Results
<1> QED
  BY <1>3, <1>4, <1>7, <1>8, <1>9, <1>10 DEF doPresenceCheck, DownOf, AllOn

-----------------------------------------------------------------------------
(* The operations in their own code.                                       *)

Still(t) ==
    /\ nt' \in Nts /\ SameFlags(nt') /\ tag' \in Tags /\ tag'.ep = tag.ep
    /\ jobs' \in Seq(Jobs(tag.ep)) /\ sem' \in Sems /\ UNCHANGED <<card, vtimer, watch, count>>

LEMMA StillAround ==
    ASSUME Inv, NEW t \in Threads, thr[t].pc \notin ReSelecting, Still(t)
    PROVE  Around(t) /\ nt'.mutex # t
BY FlagsStay DEF Around, Still, Inv, Types

\* What holds of an operation at work.
LEMMA AtWork ==
    ASSUME Inv, NEW t \in Threads, t = "svc", NEW op \in Ops,
           \E p \in Own(op) : thr[t].pc = p /\ p # "opEnd"
    PROVE  /\ Types /\ thr[t] \in Thrs /\ nt \in Nts /\ tag \in Tags /\ sem \in Sems
           /\ jobs \in Seq(Jobs(tag.ep)) /\ Notes(thr[t]) /\ OwnWaits(t)
           /\ thr[t].pc # "idle" /\ thr[t].pc \notin ReSelecting
           /\ op # "checkNdef" /\ thr[t].op = op => ~nt.checking
<1>1. thr[t].pc \notin Called /\ thr[t].pc # "idle"
  BY OwnPlaces
<1> QED
  BY <1>1 DEF Inv, Types, Fit, Notes, Called

LEMMA StepAfter ==
    ASSUME Inv, NEW t \in Threads, t = "svc", thr[t].pc # "idle", thr[t].pc \notin ReSelecting,
           Still(t), thr' \in [Threads -> Thrs], Others(t), Fit(t)'
    PROVE  Inv'
<1>1. Around(t)
  BY StillAround
<1>2. Types' /\ Free' /\ \A u \in Threads : u # t => (nt'.mutex = u <=> nt.mutex = u)
  BY <1>1, TypesAgain DEF Around, Inv
<1> QED
  BY <1>2, StepKeeps DEF At

LEMMA OwnFin ==
    ASSUME Inv, NEW t \in Threads, t = "svc", thr[t].pc # "idle", thr[t].pc \notin ReSelecting,
           Still(t), NEW rv \in Results, Fin(t, rv), ~nt'.checking,
           rv = "ok" /\ thr[t].op \in {"write", "format", "transceive"} => thr[t].ans
    PROVE  Inv'
<1>1. Types
  BY DEF Inv
<1>2. /\ thr' \in [Threads -> Thrs] /\ Others(t)
      /\ thr'[t].pc = "idle" /\ thr'[t].k = "opEnd" /\ thr'[t].rv = rv
      /\ thr'[t].op = thr[t].op /\ thr'[t].ans = thr[t].ans
  BY <1>1, FinRuns
<1>3. Fit(t)'
  BY <1>2, StillAround, Finishing
<1> QED
  BY <1>2, <1>3, StepAfter

LEMMA OwnCall ==
    ASSUME Inv, NEW t \in Threads, t = "svc", thr[t].pc # "idle", thr[t].pc \notin ReSelecting,
           Still(t), thr[t].op \in Ops, NEW p \in {"reconnect", "presence", "reSelect"},
           NEW k \in Own(thr[t].op) \cap Returns, Call(t, p, k),
           thr[t].op = "readonly" => sem'["r"] \/ nt'.roWait,
           thr[t].op = "format" /\ nt'.fmOk => thr[t].ans,
           k = "fmOk" => thr[t].ans,
           nt'.checking => thr[t].op = "checkNdef"
    PROVE  Inv'
<1>1. Types /\ p \in Places
  BY DEF Inv, Places, Called, Checking
<1>2. /\ thr' \in [Threads -> Thrs] /\ Others(t) /\ SameOp(t) /\ thr'[t].pc = p /\ thr'[t].k = k
  BY <1>1, CallRuns
<1>3. Fit(t)'
  BY <1>2, StillAround, Entering DEF SameOp
<1> QED
  BY <1>2, <1>3, StepAfter

LEMMA OwnGo ==
    ASSUME Inv, NEW t \in Threads, t = "svc", thr[t].pc # "idle", thr[t].pc \notin ReSelecting,
           Still(t), thr[t].op \in Ops, NEW p \in Own(thr[t].op),
           thr' \in [Threads -> Thrs], Others(t), thr'[t].pc = p, thr'[t].op = thr[t].op,
           OwnWaits(t)', Notes(thr[t])'
    PROVE  Inv'
BY StillAround, GoingOn, StepAfter

\* Most places ask for no note of their own.
LEMMA OwnTo ==
    ASSUME Inv, NEW t \in Threads, t = "svc", thr[t].pc # "idle", thr[t].pc \notin ReSelecting,
           Still(t), thr[t].op \in Ops,
           NEW p \in Own(thr[t].op) \ {"txW", "txEnd", "fmOk", "checkNdef"}, To(t, p),
           p = "wrWait" => ~nt'.wrOk,
           thr[t].op = "format" /\ nt'.fmOk => thr[t].ans,
           nt'.checking => thr[t].op = "checkNdef",
           thr'[t].pc = p /\ thr'[t].op = thr[t].op => OwnWaits(t)'
    PROVE  Inv'
<1>1. Types /\ p \in Places
  BY DEF Inv, Places
<1>2. /\ thr' \in [Threads -> Thrs] /\ Others(t) /\ SameOp(t)
      /\ thr'[t].pc = p /\ thr'[t].k = thr[t].k
  BY <1>1, ToRuns
<1>3. Notes(thr[t])'
  <2>1. p # "idle"
    BY OwnPlaces
  <2>2. Notes(thr[t])
    BY DEF Inv, Fit
  <2> QED
    BY <1>2, <2>1, <2>2 DEF Notes, SameOp
<1> QED
  BY <1>2, <1>3, OwnGo DEF SameOp

LEMMA OwnRequest ==
    ASSUME Types, NEW r \in Requests \ {"sleep", "stop"}, Request(r)
    PROVE  jobs' \in Seq(Jobs(tag.ep)) /\ Ahead(r)' /\ \A x : Ahead(x) => Ahead(x)'
BY Requested

LEMMA ConnectKeeps ==
    ASSUME Inv, NEW t \in Threads, doConnect(t)
    PROVE  Inv'
<1>0. t = "svc" /\ thr[t].op = "connect" /\ thr[t].pc = "connect" /\ thr[t].op \in Ops
  BY OpAt DEF doConnect, At, Ops
<1>1. /\ Types /\ thr[t] \in Thrs /\ nt \in Nts /\ tag \in Tags /\ sem \in Sems
      /\ jobs \in Seq(Jobs(tag.ep)) /\ Notes(thr[t]) /\ OwnWaits(t)
      /\ thr[t].pc # "idle" /\ thr[t].pc \notin ReSelecting /\ ~nt.checking
  <2>1. thr[t].pc \in Own(thr[t].op) /\ thr[t].pc # "opEnd"
    BY <1>0 DEF Own
  <2> QED
    BY <1>0, <2>1, AtWork
<1>2. UNCHANGED <<card, tag, sem, jobs, vtimer, watch, count>>
  BY DEF doConnect
<1>3. CASE nt' = nt
  <2>1. Still(t) /\ ~nt'.checking
    BY <1>1, <1>2, <1>3 DEF Still, SameFlags
  <2>2. CASE Fin(t, "ok")
    BY <1>0, <1>1, <2>1, <2>2, OwnFin DEF Results
  <2>3. CASE Fin(t, "fail")
    BY <1>0, <1>1, <2>1, <2>3, OwnFin DEF Results
  <2>4. CASE Call(t, "reSelect", "opEnd")
    BY <1>0, <1>1, <2>1, <2>4, OwnCall DEF Own, Returns
  <2> QED
    BY <2>2, <2>3, <2>4 DEF doConnect
<1>4. CASE nt' = [nt EXCEPT !.handle = thr[t].h]
  <2>1. /\ nt' \in Nts /\ SameFlags(nt')
        /\ nt'.ckWait = nt.ckWait /\ nt'.wrWait = nt.wrWait /\ nt'.roWait = nt.roWait /\ nt'.checking = nt.checking
        /\ nt'.wrOk = nt.wrOk /\ nt'.fmOk = nt.fmOk /\ nt'.rx = nt.rx /\ nt'.reading = nt.reading
    <3> DEFINE a == [nt EXCEPT !.handle = thr[t].h]
    <3>1. a \in Nts
      BY <1>1, NtOthers DEF Thrs
    <3>2. /\ a.mutex = nt.mutex /\ a.deact = nt.deact /\ a.sel = nt.sel
          /\ a.recon = nt.recon /\ a.conWait = nt.conWait
          /\ a.ckWait = nt.ckWait /\ a.wrWait = nt.wrWait /\ a.roWait = nt.roWait /\ a.checking = nt.checking
          /\ a.wrOk = nt.wrOk /\ a.fmOk = nt.fmOk /\ a.rx = nt.rx /\ a.reading = nt.reading
      BY <1>1, NtFields
    <3>3. nt' = a
      BY <1>4
    <3> HIDE DEF a
    <3> QED
      BY <3>1, <3>2, <3>3 DEF SameFlags
  <2>2. Still(t) /\ ~nt'.checking
    BY <1>1, <1>2, <2>1 DEF Still
  <2>3. CASE Fin(t, "ok")
    BY <1>0, <1>1, <2>2, <2>3, OwnFin DEF Results
  <2>4. CASE Fin(t, "fail")
    BY <1>0, <1>1, <2>2, <2>4, OwnFin DEF Results
  <2>5. CASE Call(t, "reSelect", "opEnd")
    BY <1>0, <1>1, <2>2, <2>5, OwnCall DEF Own, Returns
  <2> QED
    BY <2>3, <2>4, <2>5 DEF doConnect
<1> QED
  BY <1>3, <1>4 DEF doConnect

LEMMA OpEndKeeps ==
    ASSUME Inv, NEW t \in Threads, OpEnd(t)
    PROVE  Inv'
<1>1. /\ t = "svc" /\ thr[t].op \in {"connect", "reconnect", "presence"} /\ thr[t].pc = "opEnd"
      /\ thr[t].rv \in Results /\ Types /\ Notes(thr[t]) /\ Fin(t, thr[t].rv)
      /\ UNCHANGED <<card, tag, nt, sem, jobs, vtimer, watch, count>>
  BY OpAt DEF OpEnd, At, Inv, Types, Fit, Thrs, Results
<1>2. thr[t].pc # "idle" /\ thr[t].pc \notin ReSelecting /\ ~nt'.checking
  BY <1>1 DEF Notes, ReSelecting
<1>3. Still(t)
  BY <1>1 DEF Still, SameFlags, Types
<1> QED
  BY <1>1, <1>2, <1>3, OwnFin

LEMMA TransceiveKeeps ==
    ASSUME Inv, NEW t \in Threads, doTransceive(t)
    PROVE  Inv'
<1>0. t = "svc" /\ thr[t].op = "transceive" /\ thr[t].pc = "transceive" /\ thr[t].op \in Ops
  BY OpAt DEF doTransceive, At, Ops
<1>1. /\ Types /\ thr[t] \in Thrs /\ nt \in Nts /\ tag \in Tags /\ sem \in Sems
      /\ jobs \in Seq(Jobs(tag.ep)) /\ Notes(thr[t]) /\ OwnWaits(t)
      /\ thr[t].pc # "idle" /\ thr[t].pc \notin ReSelecting /\ ~nt.checking
  <2>1. thr[t].pc \in Own(thr[t].op) /\ thr[t].pc # "opEnd"
    BY <1>0 DEF Own
  <2> QED
    BY <1>0, <2>1, AtWork
<1>2. UNCHANGED <<card, tag, sem, jobs, vtimer, watch, count>>
  BY DEF doTransceive
<1>3. CASE Call(t, "reconnect", "txSend") /\ nt' = [nt EXCEPT !.again = TRUE]
  <2>1. /\ nt' \in Nts /\ SameFlags(nt')
        /\ nt'.ckWait = nt.ckWait /\ nt'.wrWait = nt.wrWait /\ nt'.roWait = nt.roWait /\ nt'.checking = nt.checking
        /\ nt'.wrOk = nt.wrOk /\ nt'.fmOk = nt.fmOk /\ nt'.rx = nt.rx /\ nt'.reading = nt.reading
    <3> DEFINE a == [nt EXCEPT !.again = TRUE]
    <3>1. a \in Nts
      BY <1>1, NtBools
    <3>2. /\ a.mutex = nt.mutex /\ a.deact = nt.deact /\ a.sel = nt.sel
          /\ a.recon = nt.recon /\ a.conWait = nt.conWait
          /\ a.ckWait = nt.ckWait /\ a.wrWait = nt.wrWait /\ a.roWait = nt.roWait /\ a.checking = nt.checking
          /\ a.wrOk = nt.wrOk /\ a.fmOk = nt.fmOk /\ a.rx = nt.rx /\ a.reading = nt.reading
      BY <1>1, NtFields
    <3>3. nt' = a
      BY <1>3
    <3> HIDE DEF a
    <3> QED
      BY <3>1, <3>2, <3>3 DEF SameFlags
  <2>2. Still(t) /\ ~nt'.checking
    BY <1>1, <1>2, <2>1 DEF Still
  <2> QED
    BY <1>0, <1>1, <1>3, <2>2, OwnCall DEF Own, Returns
<1>4. CASE To(t, "txSend") /\ UNCHANGED nt
  <2>1. Still(t) /\ ~nt'.checking
    BY <1>1, <1>2, <1>4 DEF Still, SameFlags
  <2>2. thr'[t].pc = "txSend" /\ thr'[t].op = thr[t].op => OwnWaits(t)'
    BY <1>0 DEF OwnWaits, At
  <2> QED
    BY <1>0, <1>1, <1>4, <2>1, <2>2, OwnTo DEF Own
<1> QED
  BY <1>3, <1>4 DEF doTransceive

\* The frame is of the tag that is out, and nothing was received for it yet.
LEMMA TxSendKeeps ==
    ASSUME Inv, NEW t \in Threads, TxSend(t)
    PROVE  Inv'
<1>0. t = "svc" /\ thr[t].op = "transceive" /\ thr[t].pc = "txSend" /\ thr[t].op \in Ops
  BY OpAt DEF TxSend, At, Ops
<1>1. /\ Types /\ thr[t] \in Thrs /\ nt \in Nts /\ tag \in Tags /\ sem \in Sems
      /\ jobs \in Seq(Jobs(tag.ep)) /\ Notes(thr[t]) /\ OwnWaits(t)
      /\ thr[t].pc # "idle" /\ thr[t].pc \notin ReSelecting /\ ~nt.checking
  <2>1. thr[t].pc \in Own(thr[t].op) /\ thr[t].pc # "opEnd"
    BY <1>0 DEF Own
  <2> QED
    BY <1>0, <2>1, AtWork
<1>2. UNCHANGED <<card, tag, sem, vtimer, watch, count>>
  BY DEF TxSend
<1>3. CASE Fin(t, "lost") /\ UNCHANGED <<nt, jobs>>
  <2>1. Still(t) /\ ~nt'.checking
    BY <1>1, <1>2, <1>3 DEF Still, SameFlags
  <2> QED
    BY <1>0, <1>1, <1>3, <2>1, OwnFin DEF Results
<1>4. CASE /\ nt' = [nt EXCEPT !.txTimeout = FALSE, !.txWait = TRUE, !.rx = 0]
           /\ Request("raw") /\ thr' = [thr EXCEPT ![t].pc = "txW", ![t].ep = tag.ep]
  <2>1. /\ nt' \in Nts /\ SameFlags(nt')
        /\ nt'.ckWait = nt.ckWait /\ nt'.wrWait = nt.wrWait /\ nt'.roWait = nt.roWait /\ nt'.checking = nt.checking
        /\ nt'.wrOk = nt.wrOk /\ nt'.fmOk = nt.fmOk /\ nt'.rx = 0 /\ nt'.reading = nt.reading
    <3> DEFINE a == [nt EXCEPT !.txTimeout = FALSE]
               b == [a EXCEPT !.txWait = TRUE]
               c == [b EXCEPT !.rx = 0]
    <3>1. a \in Nts
      BY <1>1, NtBools
    <3>2. b \in Nts
      BY <3>1, NtBools
    <3>3. c \in Nts
      <4>1. 0 \in 0 .. MaxTags
        BY NativeTagAssumption
      <4> QED
        BY <3>2, <4>1, NtOthers
    <3>4. /\ c.mutex = nt.mutex /\ c.deact = nt.deact /\ c.sel = nt.sel
          /\ c.recon = nt.recon /\ c.conWait = nt.conWait
          /\ c.ckWait = nt.ckWait /\ c.wrWait = nt.wrWait /\ c.roWait = nt.roWait /\ c.checking = nt.checking
          /\ c.wrOk = nt.wrOk /\ c.fmOk = nt.fmOk /\ c.rx = 0 /\ c.reading = nt.reading
      BY <1>1, NtFields
    <3>5. nt' = c
      BY <1>4
    <3> HIDE DEF a, b, c
    <3> QED
      BY <3>3, <3>4, <3>5 DEF SameFlags
  <2>2. jobs' \in Seq(Jobs(tag.ep))
    BY <1>1, <1>4, OwnRequest DEF Requests, Rw
  <2>3. Still(t) /\ ~nt'.checking
    BY <1>1, <1>2, <2>1, <2>2 DEF Still
  <2> DEFINE x == [thr[t] EXCEPT !.pc = "txW"]
             y == [x EXCEPT !.ep = tag.ep]
  <2>4. "txW" \in Own("transceive") /\ "txW" \in Places
    BY DEF Own, Places, Ops
  <2>5. x \in Thrs
    BY <1>1, <2>4, ThrTypes
  <2>6. y \in Thrs
    <3>1. tag.ep \in 0 .. MaxTags
      BY <1>1 DEF Tags
    <3> QED
      BY <2>5, <3>1, ThrTypes
  <2>7. y.pc = "txW" /\ y.ep = tag.ep /\ y.op = thr[t].op /\ y.ans = thr[t].ans /\ y.k = thr[t].k
    BY <1>1, ThrTypes
  <2>8. thr' = [thr EXCEPT ![t] = y]
    BY <1>4
  <2> HIDE DEF x, y
  <2>9. thr' \in [Threads -> Thrs] /\ Others(t) /\ thr'[t] = y
    BY <1>1, <2>6, <2>8, RunOne
  <2>10. OwnWaits(t)'
    BY <1>0, <2>7, <2>9 DEF OwnWaits, At
  <2>11. \A i \in DOMAIN jobs' : jobs'[i].ep = tag.ep
    <3>1. \A i \in DOMAIN jobs' : jobs'[i] \in Jobs(tag.ep)
      BY <2>2
    <3> QED
      BY <3>1 DEF Jobs
  <2>12. Notes(thr[t])'
    BY <1>0, <1>1, <2>1, <2>3, <2>7, <2>9, <2>11 DEF Notes
  <2> QED
    BY <1>0, <1>1, <2>3, <2>4, <2>7, <2>9, <2>10, <2>12, OwnGo
<1> QED
  BY <1>3, <1>4 DEF TxSend

\* Data that are given back are of the tag the frame was sent to.
LEMMA TxEndKeeps ==
    ASSUME Inv, NEW t \in Threads, TxEnd(t)
    PROVE  Inv'
<1>0. t = "svc" /\ thr[t].op = "transceive" /\ thr[t].pc = "txEnd" /\ thr[t].op \in Ops
  BY OpAt DEF TxEnd, At, Ops
<1>1. /\ Types /\ thr[t] \in Thrs /\ nt \in Nts /\ tag \in Tags /\ sem \in Sems
      /\ jobs \in Seq(Jobs(tag.ep)) /\ Notes(thr[t]) /\ OwnWaits(t)
      /\ thr[t].pc # "idle" /\ thr[t].pc \notin ReSelecting /\ ~nt.checking
  <2>1. thr[t].pc \in Own(thr[t].op) /\ thr[t].pc # "opEnd"
    BY <1>0 DEF Own
  <2> QED
    BY <1>0, <2>1, AtWork
<1>2. UNCHANGED <<card, tag, sem, jobs, vtimer, watch, count>>
  BY DEF TxEnd
<1>3. ASSUME nt' = [nt EXCEPT !.txWait = FALSE] PROVE Still(t) /\ ~nt'.checking
  <2>1. /\ nt' \in Nts /\ SameFlags(nt')
        /\ nt'.ckWait = nt.ckWait /\ nt'.wrWait = nt.wrWait /\ nt'.roWait = nt.roWait /\ nt'.checking = nt.checking
        /\ nt'.wrOk = nt.wrOk /\ nt'.fmOk = nt.fmOk /\ nt'.rx = nt.rx /\ nt'.reading = nt.reading
    <3> DEFINE a == [nt EXCEPT !.txWait = FALSE]
    <3>1. a \in Nts
      BY <1>1, NtBools
    <3>2. /\ a.mutex = nt.mutex /\ a.deact = nt.deact /\ a.sel = nt.sel
          /\ a.recon = nt.recon /\ a.conWait = nt.conWait
          /\ a.ckWait = nt.ckWait /\ a.wrWait = nt.wrWait /\ a.roWait = nt.roWait /\ a.checking = nt.checking
          /\ a.wrOk = nt.wrOk /\ a.fmOk = nt.fmOk /\ a.rx = nt.rx /\ a.reading = nt.reading
      BY <1>1, NtFields
    <3>3. nt' = a
      BY <1>3
    <3> HIDE DEF a
    <3> QED
      BY <3>1, <3>2, <3>3 DEF SameFlags
  <2> QED
    BY <1>1, <1>2, <2>1 DEF Still
<1>4. CASE Fin(t, "lost") /\ nt' = [nt EXCEPT !.txWait = FALSE]
  BY <1>0, <1>1, <1>3, <1>4, OwnFin DEF Results
<1>5. CASE /\ thr' = [thr EXCEPT ![t] = Idle([@ EXCEPT !.ans = nt.rx = thr[t].ep],
                                           IF nt.rx = 0 THEN "fail" ELSE "ok")]
           /\ nt' = [nt EXCEPT !.txWait = FALSE]
  <2> DEFINE x == [thr[t] EXCEPT !.ans = (nt.rx = thr[t].ep)]
             rv == IF nt.rx = 0 THEN "fail" ELSE "ok"
             y == Idle(x, rv)
  <2>1. x \in Thrs /\ x.op = thr[t].op /\ (x.ans <=> nt.rx = thr[t].ep)
    BY <1>1, ThrTypes
  <2>2. rv \in Results
    BY DEF Results
  <2>3. thr' = [thr EXCEPT ![t] = y]
    BY <1>5
  <2>4. nt.rx \in {0, thr[t].ep} /\ (rv = "ok" => nt.rx # 0)
    BY <1>0, <1>1 DEF Notes
  <2> HIDE DEF x, rv
  <2>5. y \in Thrs /\ y.pc = "idle" /\ y.k = "opEnd" /\ y.rv = rv /\ y.op = thr[t].op /\ y.ans = x.ans
    BY <2>1, <2>2, IdleTypes
  <2> HIDE DEF y
  <2>6. thr' \in [Threads -> Thrs] /\ thr'[t] = y /\ Others(t)
    BY <1>1, <2>3, <2>5, RunOne
  <2>7. Still(t) /\ ~nt'.checking /\ nt'.mutex # t
    BY <1>1, <1>3, <1>5, StillAround
  <2>8. Fit(t)'
    BY <2>1, <2>4, <2>5, <2>6, <2>7, Finishing
  <2> QED
    BY <1>0, <1>1, <2>6, <2>7, <2>8, StepAfter
<1>6. CASE Call(t, "reconnect", "txNack") /\ UNCHANGED nt
  <2>1. Still(t) /\ ~nt'.checking
    BY <1>1, <1>2, <1>6 DEF Still, SameFlags
  <2> QED
    BY <1>0, <1>1, <1>6, <2>1, OwnCall DEF Own, Returns
<1> QED
  BY <1>4, <1>5, <1>6 DEF TxEnd

LEMMA TxNackKeeps ==
    ASSUME Inv, NEW t \in Threads, TxNack(t)
    PROVE  Inv'
<1>0. t = "svc" /\ thr[t].op = "transceive" /\ thr[t].pc = "txNack" /\ thr[t].op \in Ops
  BY OpAt DEF TxNack, At, Ops
<1>1. /\ Types /\ thr[t] \in Thrs /\ nt \in Nts /\ tag \in Tags /\ sem \in Sems
      /\ jobs \in Seq(Jobs(tag.ep)) /\ Notes(thr[t]) /\ OwnWaits(t)
      /\ thr[t].pc # "idle" /\ thr[t].pc \notin ReSelecting /\ ~nt.checking
  <2>1. thr[t].pc \in Own(thr[t].op) /\ thr[t].pc # "opEnd"
    BY <1>0 DEF Own
  <2> QED
    BY <1>0, <2>1, AtWork
<1>2. UNCHANGED <<card, tag, sem, jobs, vtimer, watch, count>> /\ Fin(t, "fail")
  BY DEF TxNack
<1>3. /\ nt' \in Nts /\ SameFlags(nt')
      /\ nt'.ckWait = nt.ckWait /\ nt'.wrWait = nt.wrWait /\ nt'.roWait = nt.roWait /\ nt'.checking = nt.checking
      /\ nt'.wrOk = nt.wrOk /\ nt'.fmOk = nt.fmOk /\ nt'.rx = nt.rx /\ nt'.reading = nt.reading
  <2> DEFINE a == [nt EXCEPT !.txWait = FALSE]
  <2>1. a \in Nts
    BY <1>1, NtBools
  <2>2. /\ a.mutex = nt.mutex /\ a.deact = nt.deact /\ a.sel = nt.sel
        /\ a.recon = nt.recon /\ a.conWait = nt.conWait
        /\ a.ckWait = nt.ckWait /\ a.wrWait = nt.wrWait /\ a.roWait = nt.roWait /\ a.checking = nt.checking
        /\ a.wrOk = nt.wrOk /\ a.fmOk = nt.fmOk /\ a.rx = nt.rx /\ a.reading = nt.reading
    BY <1>1, NtFields
  <2>3. nt' = a
    BY DEF TxNack
  <2> HIDE DEF a
  <2> QED
    BY <2>1, <2>2, <2>3 DEF SameFlags
<1>4. Still(t) /\ ~nt'.checking
  BY <1>1, <1>2, <1>3 DEF Still
<1> QED
  BY <1>0, <1>1, <1>2, <1>4, OwnFin DEF Results

\* The flag that a check is going on goes up and comes down again.
LEMMA CheckKeeps ==
    ASSUME Inv, NEW t \in Threads, doCheckNdef(t)
    PROVE  Inv'
<1>0. t = "svc" /\ thr[t].op = "checkNdef" /\ thr[t].pc = "checkNdef" /\ thr[t].op \in Ops
  BY OpAt DEF doCheckNdef, At, Ops
<1>1. /\ Types /\ thr[t] \in Thrs /\ nt \in Nts /\ tag \in Tags /\ sem \in Sems
      /\ jobs \in Seq(Jobs(tag.ep)) /\ Notes(thr[t]) /\ OwnWaits(t)
      /\ thr[t].pc # "idle" /\ thr[t].pc \notin ReSelecting
  <2>1. thr[t].pc \in Own(thr[t].op) /\ thr[t].pc # "opEnd"
    BY <1>0 DEF Own
  <2> QED
    BY <1>0, <2>1, AtWork
<1>2. UNCHANGED <<card, tag, sem, jobs, vtimer, watch, count>>
  BY DEF doCheckNdef
<1>3. CASE Fin(t, "fail") /\ UNCHANGED nt
  <2>1. Still(t) /\ ~nt'.checking
    BY <1>0, <1>1, <1>2, <1>3 DEF Still, SameFlags, Notes
  <2> QED
    BY <1>0, <1>1, <1>3, <2>1, OwnFin DEF Results
<1>4. CASE nt' = [nt EXCEPT !.checking = TRUE]
  <2>1. /\ nt' \in Nts /\ SameFlags(nt')
        /\ nt'.ckWait = nt.ckWait /\ nt'.wrWait = nt.wrWait /\ nt'.roWait = nt.roWait /\ nt'.checking
        /\ nt'.wrOk = nt.wrOk /\ nt'.fmOk = nt.fmOk /\ nt'.rx = nt.rx /\ nt'.reading = nt.reading
    <3> DEFINE a == [nt EXCEPT !.checking = TRUE]
    <3>1. a \in Nts
      BY <1>1, NtBools
    <3>2. /\ a.mutex = nt.mutex /\ a.deact = nt.deact /\ a.sel = nt.sel
          /\ a.recon = nt.recon /\ a.conWait = nt.conWait
          /\ a.ckWait = nt.ckWait /\ a.wrWait = nt.wrWait /\ a.roWait = nt.roWait /\ a.checking
          /\ a.wrOk = nt.wrOk /\ a.fmOk = nt.fmOk /\ a.rx = nt.rx /\ a.reading = nt.reading
      BY <1>1, NtFields
    <3>3. nt' = a
      BY <1>4
    <3> HIDE DEF a
    <3> QED
      BY <3>1, <3>2, <3>3 DEF SameFlags
  <2>2. Still(t)
    BY <1>1, <1>2, <2>1 DEF Still
  <2>3. CASE Call(t, "reconnect", "ckSend")
    BY <1>0, <1>1, <2>2, <2>3, OwnCall DEF Own, Returns
  <2>4. CASE To(t, "ckSend")
    <3>1. thr'[t].pc = "ckSend" /\ thr'[t].op = thr[t].op => OwnWaits(t)'
      BY <1>0 DEF OwnWaits, At
    <3> QED
      BY <1>0, <1>1, <2>2, <2>4, <3>1, OwnTo DEF Own
  <2>5. CASE Fin(t, "fail") /\ UNCHANGED nt
    BY <1>3, <2>5
  <2> QED
    BY <2>3, <2>4, <2>5 DEF doCheckNdef
<1> QED
  BY <1>3, <1>4 DEF doCheckNdef

LEMMA CkSendKeeps ==
    ASSUME Inv, NEW t \in Threads, CkSend(t)
    PROVE  Inv'
<1>0. t = "svc" /\ thr[t].op = "checkNdef" /\ thr[t].pc = "ckSend" /\ thr[t].op \in Ops
  BY OpAt DEF CkSend, At, Ops
<1>1. /\ Types /\ thr[t] \in Thrs /\ nt \in Nts /\ tag \in Tags /\ sem \in Sems
      /\ jobs \in Seq(Jobs(tag.ep)) /\ Notes(thr[t]) /\ OwnWaits(t)
      /\ thr[t].pc # "idle" /\ thr[t].pc \notin ReSelecting
  <2>1. thr[t].pc \in Own(thr[t].op) /\ thr[t].pc # "opEnd"
    BY <1>0 DEF Own
  <2> QED
    BY <1>0, <2>1, AtWork
<1>2. UNCHANGED <<card, tag, vtimer, watch, count>> /\ sem' \in Sems
  BY <1>1 DEF CkSend, Sems
<1>3. CASE /\ Fin(t, "fail") /\ UNCHANGED jobs
           /\ nt' = [nt EXCEPT !.again = FALSE, !.checking = FALSE, !.ckWait = FALSE]
  <2>1. /\ nt' \in Nts /\ SameFlags(nt')
        /\ ~nt'.ckWait /\ nt'.wrWait = nt.wrWait /\ nt'.roWait = nt.roWait /\ ~nt'.checking
        /\ nt'.wrOk = nt.wrOk /\ nt'.fmOk = nt.fmOk /\ nt'.rx = nt.rx /\ nt'.reading = nt.reading
    <3> DEFINE a == [nt EXCEPT !.again = FALSE]
               b == [a EXCEPT !.checking = FALSE]
               c == [b EXCEPT !.ckWait = FALSE]
    <3>1. a \in Nts
      BY <1>1, NtBools
    <3>2. b \in Nts
      BY <3>1, NtBools
    <3>3. c \in Nts
      BY <3>2, NtBools
    <3>4. /\ c.mutex = nt.mutex /\ c.deact = nt.deact /\ c.sel = nt.sel
          /\ c.recon = nt.recon /\ c.conWait = nt.conWait
          /\ ~c.ckWait /\ c.wrWait = nt.wrWait /\ c.roWait = nt.roWait /\ ~c.checking
          /\ c.wrOk = nt.wrOk /\ c.fmOk = nt.fmOk /\ c.rx = nt.rx /\ c.reading = nt.reading
      BY <1>1, NtFields
    <3>5. nt' = c
      BY <1>3
    <3> HIDE DEF a, b, c
    <3> QED
      BY <3>3, <3>4, <3>5 DEF SameFlags
  <2>2. Still(t)
    BY <1>1, <1>2, <1>3, <2>1 DEF Still
  <2> QED
    BY <1>0, <1>1, <1>3, <2>1, <2>2, OwnFin DEF Results
<1>4. CASE /\ nt' = [nt EXCEPT !.again = FALSE, !.ckWait = TRUE]
           /\ Request("check") /\ To(t, "ckWait")
  <2>1. /\ nt' \in Nts /\ SameFlags(nt')
        /\ nt'.ckWait /\ nt'.wrWait = nt.wrWait /\ nt'.roWait = nt.roWait /\ nt'.checking = nt.checking
        /\ nt'.wrOk = nt.wrOk /\ nt'.fmOk = nt.fmOk /\ nt'.rx = nt.rx /\ nt'.reading = nt.reading
    <3> DEFINE a == [nt EXCEPT !.again = FALSE]
               b == [a EXCEPT !.ckWait = TRUE]
    <3>1. a \in Nts
      BY <1>1, NtBools
    <3>2. b \in Nts
      BY <3>1, NtBools
    <3>3. /\ b.mutex = nt.mutex /\ b.deact = nt.deact /\ b.sel = nt.sel
          /\ b.recon = nt.recon /\ b.conWait = nt.conWait
          /\ b.ckWait /\ b.wrWait = nt.wrWait /\ b.roWait = nt.roWait /\ b.checking = nt.checking
          /\ b.wrOk = nt.wrOk /\ b.fmOk = nt.fmOk /\ b.rx = nt.rx /\ b.reading = nt.reading
      BY <1>1, NtFields
    <3>4. nt' = b
      BY <1>4
    <3> HIDE DEF a, b
    <3> QED
      BY <3>2, <3>3, <3>4 DEF SameFlags
  <2>2. jobs' \in Seq(Jobs(tag.ep)) /\ Ahead("check")'
    BY <1>1, <1>4, OwnRequest DEF Requests, Rw
  <2>3. Still(t)
    BY <1>1, <1>2, <2>1, <2>2 DEF Still
  <2>4. thr'[t].pc = "ckWait" /\ thr'[t].op = thr[t].op => OwnWaits(t)'
    BY <1>0, <2>1, <2>2 DEF OwnWaits, At
  <2> QED
    BY <1>0, <1>1, <1>4, <2>3, <2>4, OwnTo DEF Own
<1> QED
  BY <1>3, <1>4 DEF CkSend

LEMMA CkEndKeeps ==
    ASSUME Inv, NEW t \in Threads, CkEnd(t)
    PROVE  Inv'
<1>0. t = "svc" /\ thr[t].op = "checkNdef" /\ thr[t].pc = "ckWait" /\ thr[t].op \in Ops
  BY OpAt DEF CkEnd, At, Ops
<1>1. /\ Types /\ thr[t] \in Thrs /\ nt \in Nts /\ tag \in Tags /\ sem \in Sems
      /\ jobs \in Seq(Jobs(tag.ep)) /\ Notes(thr[t]) /\ OwnWaits(t)
      /\ thr[t].pc # "idle" /\ thr[t].pc \notin ReSelecting
  <2>1. thr[t].pc \in Own(thr[t].op) /\ thr[t].pc # "opEnd"
    BY <1>0 DEF Own
  <2> QED
    BY <1>0, <2>1, AtWork
<1>2. UNCHANGED <<card, tag, jobs, vtimer, watch, count>> /\ sem' \in Sems
  BY <1>1 DEF CkEnd, Sems
<1>3. CASE Call(t, "presence", "ckAbsent") /\ UNCHANGED nt
  <2>1. Still(t)
    BY <1>1, <1>2, <1>3 DEF Still, SameFlags
  <2> QED
    BY <1>0, <1>1, <1>3, <2>1, OwnCall DEF Own, Returns
<1>4. CASE /\ Fin(t, CASE nt.ckSt = "ok" -> "ok" [] nt.ckSt = "timeout" -> "lost" [] OTHER -> "fail")
           /\ nt' = [nt EXCEPT !.checking = FALSE, !.ckWait = FALSE]
  <2>1. /\ nt' \in Nts /\ SameFlags(nt')
        /\ ~nt'.ckWait /\ nt'.wrWait = nt.wrWait /\ nt'.roWait = nt.roWait /\ ~nt'.checking
        /\ nt'.wrOk = nt.wrOk /\ nt'.fmOk = nt.fmOk /\ nt'.rx = nt.rx /\ nt'.reading = nt.reading
    <3> DEFINE a == [nt EXCEPT !.checking = FALSE]
               b == [a EXCEPT !.ckWait = FALSE]
    <3>1. a \in Nts
      BY <1>1, NtBools
    <3>2. b \in Nts
      BY <3>1, NtBools
    <3>3. /\ b.mutex = nt.mutex /\ b.deact = nt.deact /\ b.sel = nt.sel
          /\ b.recon = nt.recon /\ b.conWait = nt.conWait
          /\ ~b.ckWait /\ b.wrWait = nt.wrWait /\ b.roWait = nt.roWait /\ ~b.checking
          /\ b.wrOk = nt.wrOk /\ b.fmOk = nt.fmOk /\ b.rx = nt.rx /\ b.reading = nt.reading
      BY <1>1, NtFields
    <3>4. nt' = b
      BY <1>4
    <3> HIDE DEF a, b
    <3> QED
      BY <3>2, <3>3, <3>4 DEF SameFlags
  <2>2. Still(t)
    BY <1>1, <1>2, <2>1 DEF Still
  <2> DEFINE rv == CASE nt.ckSt = "ok" -> "ok" [] nt.ckSt = "timeout" -> "lost" [] OTHER -> "fail"
  <2>3. rv \in Results /\ Fin(t, rv)
    BY <1>4 DEF Results
  <2> HIDE DEF rv
  <2> QED
    BY <1>0, <1>1, <2>1, <2>2, <2>3, OwnFin
<1> QED
  BY <1>3, <1>4 DEF CkEnd

LEMMA CkAbsentKeeps ==
    ASSUME Inv, NEW t \in Threads, CkAbsent(t)
    PROVE  Inv'
<1>0. t = "svc" /\ thr[t].op = "checkNdef" /\ thr[t].pc = "ckAbsent" /\ thr[t].op \in Ops
  BY OpAt DEF CkAbsent, At, Ops
<1>1. /\ Types /\ thr[t] \in Thrs /\ nt \in Nts /\ tag \in Tags /\ sem \in Sems
      /\ jobs \in Seq(Jobs(tag.ep)) /\ Notes(thr[t]) /\ OwnWaits(t)
      /\ thr[t].pc # "idle" /\ thr[t].pc \notin ReSelecting
  <2>1. thr[t].pc \in Own(thr[t].op) /\ thr[t].pc # "opEnd"
    BY <1>0 DEF Own
  <2> QED
    BY <1>0, <2>1, AtWork
<1>2. UNCHANGED <<card, sem, jobs, vtimer, watch, count>> /\ tag' \in Tags /\ tag'.ep = tag.ep
  BY <1>1, TagTypes DEF CkAbsent
<1>3. /\ nt' \in Nts /\ SameFlags(nt')
      /\ ~nt'.ckWait /\ nt'.wrWait = nt.wrWait /\ nt'.roWait = nt.roWait /\ ~nt'.checking
      /\ nt'.wrOk = nt.wrOk /\ nt'.fmOk = nt.fmOk /\ nt'.rx = nt.rx /\ nt'.reading = nt.reading
  <2> DEFINE a == [nt EXCEPT !.checking = FALSE]
             b == [a EXCEPT !.ckWait = FALSE]
  <2>1. a \in Nts
    BY <1>1, NtBools
  <2>2. b \in Nts
    BY <2>1, NtBools
  <2>3. /\ b.mutex = nt.mutex /\ b.deact = nt.deact /\ b.sel = nt.sel
        /\ b.recon = nt.recon /\ b.conWait = nt.conWait
        /\ ~b.ckWait /\ b.wrWait = nt.wrWait /\ b.roWait = nt.roWait /\ ~b.checking
        /\ b.wrOk = nt.wrOk /\ b.fmOk = nt.fmOk /\ b.rx = nt.rx /\ b.reading = nt.reading
    BY <1>1, NtFields
  <2>4. nt' = b
    BY DEF CkAbsent
  <2> HIDE DEF a, b
  <2> QED
    BY <2>2, <2>3, <2>4 DEF SameFlags
<1>4. Still(t)
  BY <1>1, <1>2, <1>3 DEF Still
<1> DEFINE rv == IF thr[t].rv = "ok" THEN "fail" ELSE "lost"
<1>5. rv \in Results /\ Fin(t, rv)
  BY DEF Results, CkAbsent
<1> HIDE DEF rv
<1> QED
  BY <1>0, <1>1, <1>3, <1>4, <1>5, OwnFin

LEMMA ReadKeeps ==
    ASSUME Inv, NEW t \in Threads, doRead(t)
    PROVE  Inv'
<1>0. t = "svc" /\ thr[t].op = "read" /\ thr[t].pc = "read" /\ thr[t].op \in Ops
  BY OpAt DEF doRead, At, Ops
<1>1. /\ Types /\ thr[t] \in Thrs /\ nt \in Nts /\ tag \in Tags /\ sem \in Sems
      /\ jobs \in Seq(Jobs(tag.ep)) /\ Notes(thr[t]) /\ OwnWaits(t)
      /\ thr[t].pc # "idle" /\ thr[t].pc \notin ReSelecting /\ ~nt.checking
  <2>1. thr[t].pc \in Own(thr[t].op) /\ thr[t].pc # "opEnd"
    BY <1>0 DEF Own
  <2> QED
    BY <1>0, <2>1, AtWork
<1>2. UNCHANGED <<card, tag, sem, vtimer, watch, count>>
  BY DEF doRead
<1>3. CASE /\ nt' = [nt EXCEPT !.readSt = "ok", !.reading = TRUE]
           /\ \/ Request("read") /\ To(t, "readW")
              \/ To(t, "readRefused") /\ UNCHANGED jobs
  <2>1. /\ nt' \in Nts /\ SameFlags(nt')
        /\ nt'.ckWait = nt.ckWait /\ nt'.wrWait = nt.wrWait /\ nt'.roWait = nt.roWait /\ nt'.checking = nt.checking
        /\ nt'.wrOk = nt.wrOk /\ nt'.fmOk = nt.fmOk /\ nt'.rx = nt.rx /\ nt'.reading
    <3> DEFINE a == [nt EXCEPT !.readSt = "ok"]
               b == [a EXCEPT !.reading = TRUE]
    <3>1. a \in Nts
      BY <1>1, NtOthers
    <3>2. b \in Nts
      BY <3>1, NtBools
    <3>3. /\ b.mutex = nt.mutex /\ b.deact = nt.deact /\ b.sel = nt.sel
          /\ b.recon = nt.recon /\ b.conWait = nt.conWait
          /\ b.ckWait = nt.ckWait /\ b.wrWait = nt.wrWait /\ b.roWait = nt.roWait /\ b.checking = nt.checking
          /\ b.wrOk = nt.wrOk /\ b.fmOk = nt.fmOk /\ b.rx = nt.rx /\ b.reading
      BY <1>1, NtFields
    <3>4. nt' = b
      BY <1>3
    <3> HIDE DEF a, b
    <3> QED
      BY <3>2, <3>3, <3>4 DEF SameFlags
  <2>2. CASE Request("read") /\ To(t, "readW")
    <3>1. jobs' \in Seq(Jobs(tag.ep)) /\ Ahead("read")'
      BY <1>1, <2>2, OwnRequest DEF Requests, Rw
    <3>2. Still(t) /\ ~nt'.checking
      BY <1>1, <1>2, <2>1, <3>1 DEF Still
    <3>3. thr'[t].pc = "readW" /\ thr'[t].op = thr[t].op => OwnWaits(t)'
      BY <1>0, <2>1, <3>1 DEF OwnWaits, At
    <3> QED
      BY <1>0, <1>1, <2>2, <3>2, <3>3, OwnTo DEF Own
  <2>3. CASE To(t, "readRefused") /\ UNCHANGED jobs
    <3>1. Still(t) /\ ~nt'.checking
      BY <1>1, <1>2, <2>1, <2>3 DEF Still
    <3>2. thr'[t].pc = "readRefused" /\ thr'[t].op = thr[t].op => OwnWaits(t)'
      BY <1>0 DEF OwnWaits, At
    <3> QED
      BY <1>0, <1>1, <2>3, <3>1, <3>2, OwnTo DEF Own
  <2> QED
    BY <1>3, <2>2, <2>3
<1>4. CASE nt' = [nt EXCEPT !.readSt = "ok"] /\ Fin(t, "ok") /\ UNCHANGED jobs
  <2>1. /\ nt' \in Nts /\ SameFlags(nt')
        /\ nt'.ckWait = nt.ckWait /\ nt'.wrWait = nt.wrWait /\ nt'.roWait = nt.roWait /\ nt'.checking = nt.checking
        /\ nt'.wrOk = nt.wrOk /\ nt'.fmOk = nt.fmOk /\ nt'.rx = nt.rx /\ nt'.reading = nt.reading
    <3> DEFINE a == [nt EXCEPT !.readSt = "ok"]
    <3>1. a \in Nts
      BY <1>1, NtOthers
    <3>2. /\ a.mutex = nt.mutex /\ a.deact = nt.deact /\ a.sel = nt.sel
          /\ a.recon = nt.recon /\ a.conWait = nt.conWait
          /\ a.ckWait = nt.ckWait /\ a.wrWait = nt.wrWait /\ a.roWait = nt.roWait /\ a.checking = nt.checking
          /\ a.wrOk = nt.wrOk /\ a.fmOk = nt.fmOk /\ a.rx = nt.rx /\ a.reading = nt.reading
      BY <1>1, NtFields
    <3>3. nt' = a
      BY <1>4
    <3> HIDE DEF a
    <3> QED
      BY <3>1, <3>2, <3>3 DEF SameFlags
  <2>2. Still(t) /\ ~nt'.checking
    BY <1>1, <1>2, <1>4, <2>1 DEF Still
  <2> QED
    BY <1>0, <1>1, <1>4, <2>2, OwnFin DEF Results
<1> QED
  BY <1>3, <1>4 DEF doRead

LEMMA ReadEndKeeps ==
    ASSUME Inv, NEW t \in Threads, ReadEnd(t)
    PROVE  Inv'
<1>0. t = "svc" /\ thr[t].op = "read" /\ thr[t].pc = "readEnd" /\ thr[t].op \in Ops
  BY OpAt DEF ReadEnd, At, Ops
<1>1. /\ Types /\ thr[t] \in Thrs /\ nt \in Nts /\ tag \in Tags /\ sem \in Sems
      /\ jobs \in Seq(Jobs(tag.ep)) /\ Notes(thr[t]) /\ OwnWaits(t)
      /\ thr[t].pc # "idle" /\ thr[t].pc \notin ReSelecting /\ ~nt.checking
  <2>1. thr[t].pc \in Own(thr[t].op) /\ thr[t].pc # "opEnd"
    BY <1>0 DEF Own
  <2> QED
    BY <1>0, <2>1, AtWork
<1>2. UNCHANGED <<card, sem, jobs, vtimer, watch, count>>
  BY DEF ReadEnd
<1>3. tag' \in Tags /\ tag'.ep = tag.ep
  <2>1. (tag.timedOut \/ nt.readSt = "timeout") \in BOOLEAN
    OBVIOUS
  <2>2. tag' = [tag EXCEPT !.timedOut = (tag.timedOut \/ nt.readSt = "timeout")]
    BY DEF ReadEnd
  <2> QED
    BY <1>1, <2>1, <2>2, TagTypes
<1>4. /\ nt' \in Nts /\ SameFlags(nt')
      /\ nt'.ckWait = nt.ckWait /\ nt'.wrWait = nt.wrWait /\ nt'.roWait = nt.roWait /\ nt'.checking = nt.checking
      /\ nt'.wrOk = nt.wrOk /\ nt'.fmOk = nt.fmOk /\ nt'.rx = nt.rx /\ ~nt'.reading
  <2> DEFINE a == [nt EXCEPT !.reading = FALSE]
  <2>1. a \in Nts
    BY <1>1, NtBools
  <2>2. /\ a.mutex = nt.mutex /\ a.deact = nt.deact /\ a.sel = nt.sel
        /\ a.recon = nt.recon /\ a.conWait = nt.conWait
        /\ a.ckWait = nt.ckWait /\ a.wrWait = nt.wrWait /\ a.roWait = nt.roWait /\ a.checking = nt.checking
        /\ a.wrOk = nt.wrOk /\ a.fmOk = nt.fmOk /\ a.rx = nt.rx /\ ~a.reading
    BY <1>1, NtFields
  <2>3. nt' = a
    BY DEF ReadEnd
  <2> HIDE DEF a
  <2> QED
    BY <2>1, <2>2, <2>3 DEF SameFlags
<1>5. Still(t) /\ ~nt'.checking
  BY <1>1, <1>2, <1>3, <1>4 DEF Still
<1>6. CASE Call(t, "presence", "readAbsent")
  BY <1>0, <1>1, <1>5, <1>6, OwnCall DEF Own, Returns
<1>7. ASSUME NEW rv \in {"ok", "fail"}, Fin(t, rv) PROVE Inv'
  BY <1>0, <1>1, <1>5, <1>7, OwnFin DEF Results
<1> QED
  BY <1>6, <1>7 DEF ReadEnd

LEMMA ReadAbsentKeeps ==
    ASSUME Inv, NEW t \in Threads, ReadAbsent(t)
    PROVE  Inv'
<1>0. t = "svc" /\ thr[t].op = "read" /\ thr[t].pc = "readAbsent" /\ thr[t].op \in Ops
  BY OpAt DEF ReadAbsent, At, Ops
<1>1. /\ Types /\ thr[t] \in Thrs /\ nt \in Nts /\ tag \in Tags /\ sem \in Sems
      /\ jobs \in Seq(Jobs(tag.ep)) /\ Notes(thr[t]) /\ OwnWaits(t)
      /\ thr[t].pc # "idle" /\ thr[t].pc \notin ReSelecting /\ ~nt.checking
  <2>1. thr[t].pc \in Own(thr[t].op) /\ thr[t].pc # "opEnd"
    BY <1>0 DEF Own
  <2> QED
    BY <1>0, <2>1, AtWork
<1>2. UNCHANGED <<card, nt, sem, jobs, vtimer, watch, count>> /\ Fin(t, "fail")
  BY DEF ReadAbsent
<1>3. tag' \in Tags /\ tag'.ep = tag.ep
  <2>1. (tag.timedOut \/ thr[t].rv # "ok") \in BOOLEAN
    OBVIOUS
  <2>2. tag' = [tag EXCEPT !.timedOut = (tag.timedOut \/ thr[t].rv # "ok")]
    BY DEF ReadAbsent
  <2> QED
    BY <1>1, <2>1, <2>2, TagTypes
<1>4. Still(t) /\ ~nt'.checking
  BY <1>1, <1>2, <1>3 DEF Still, SameFlags
<1> QED
  BY <1>0, <1>1, <1>2, <1>4, OwnFin DEF Results

\* A write that gives up is no longer waited for.
LEMMA WriteGivesUp ==
    ASSUME Inv, NEW t \in Threads, t = "svc", thr[t].pc # "idle", thr[t].pc \notin ReSelecting,
           ~nt.checking, sem' \in Sems, UNCHANGED <<card, tag, vtimer, watch, count>>,
           WrFails(t), nt' = [nt EXCEPT !.wrWait = FALSE]
    PROVE  Inv'
<1>1. nt \in Nts /\ tag \in Tags /\ jobs \in Seq(Jobs(tag.ep))
  BY DEF Inv, Types
<1>2. /\ nt' \in Nts /\ SameFlags(nt')
      /\ ~nt'.wrWait /\ nt'.checking = nt.checking
  <2> DEFINE a == [nt EXCEPT !.wrWait = FALSE]
  <2>1. a \in Nts
    BY <1>1, NtBools
  <2>2. /\ a.mutex = nt.mutex /\ a.deact = nt.deact /\ a.sel = nt.sel
        /\ a.recon = nt.recon /\ a.conWait = nt.conWait
        /\ ~a.wrWait /\ a.checking = nt.checking
    BY <1>1, NtFields
  <2>3. nt' = a
    OBVIOUS
  <2> HIDE DEF a
  <2> QED
    BY <2>1, <2>2, <2>3 DEF SameFlags
<1>3. Fin(t, "fail") /\ UNCHANGED jobs
  BY DEF WrFails
<1>4. Still(t) /\ ~nt'.checking
  BY <1>1, <1>2, <1>3 DEF Still
<1> QED
  BY <1>3, <1>4, OwnFin DEF Results

\* A write is waited for from its beginning, whatever is formatted first.
LEMMA WriteKeeps ==
    ASSUME Inv, NEW t \in Threads, doWrite(t)
    PROVE  Inv'
<1>0. t = "svc" /\ thr[t].op = "write" /\ thr[t].pc = "write" /\ thr[t].op \in Ops
  BY OpAt DEF doWrite, At, Ops
<1>1. /\ Types /\ thr[t] \in Thrs /\ nt \in Nts /\ tag \in Tags /\ sem \in Sems
      /\ jobs \in Seq(Jobs(tag.ep)) /\ Notes(thr[t]) /\ OwnWaits(t)
      /\ thr[t].pc # "idle" /\ thr[t].pc \notin ReSelecting /\ ~nt.checking
  <2>1. thr[t].pc \in Own(thr[t].op) /\ thr[t].pc # "opEnd"
    BY <1>0 DEF Own
  <2> QED
    BY <1>0, <2>1, AtWork
<1>2. UNCHANGED <<card, tag, vtimer, watch, count>>
  BY DEF doWrite
<1>3. PICK format \in BOOLEAN :
        /\ sem' = [sem EXCEPT !["w"] = FALSE, !["f"] = IF format THEN FALSE ELSE @]
        /\ \/ /\ nt' = [nt EXCEPT !.wrWait = TRUE, !.fmOk = IF format THEN FALSE ELSE @]
              /\ Request(IF format THEN "format" ELSE "write")
              /\ To(t, IF format THEN "wrFormat" ELSE "wrSent")
           \/ /\ format /\ nt' = [nt EXCEPT !.wrWait = TRUE, !.fmOk = FALSE]
              /\ To(t, "wrRefused") /\ UNCHANGED jobs
           \/ ~format /\ WrFails(t) /\ nt' = [nt EXCEPT !.wrWait = FALSE]
  BY DEF doWrite
<1>4. sem' \in Sems
  BY <1>1, <1>3 DEF Sems
<1> DEFINE r == IF format THEN "format" ELSE "write"
           p == IF format THEN "wrFormat" ELSE "wrSent"
           x == [nt EXCEPT !.wrWait = TRUE]
           y == [x EXCEPT !.fmOk = IF format THEN FALSE ELSE @]
<1>5. x \in Nts
  BY <1>1, NtBools
<1>6. y \in Nts
  <2>1. (IF format THEN FALSE ELSE x.fmOk) \in BOOLEAN
    BY <1>5 DEF Nts
  <2> HIDE DEF x
  <2> QED
    BY <1>5, <2>1, NtBools
<1>7. /\ y.mutex = nt.mutex /\ y.deact = nt.deact /\ y.sel = nt.sel /\ y.recon = nt.recon
      /\ y.conWait = nt.conWait /\ y.wrWait /\ y.checking = nt.checking
  BY <1>1, NtFields
<1>8. CASE nt' = y /\ Request(r) /\ To(t, p)
  <2>1. r \in Requests \ {"sleep", "stop"} /\ p \in Own("write") \ {"txW", "txEnd", "fmOk", "checkNdef", "wrWait"}
    BY DEF Requests, Rw, Own
  <2>2. (p = "wrFormat" /\ r = "format") \/ (p = "wrSent" /\ r = "write")
    <3>1. CASE format
      BY <3>1
    <3>2. CASE ~format
      BY <3>2
    <3> QED
      BY <3>1, <3>2
  <2> HIDE DEF x, y, r, p
  <2>3. jobs' \in Seq(Jobs(tag.ep)) /\ Ahead(r)'
    BY <1>1, <1>8, <2>1, OwnRequest
  <2>4. Still(t) /\ ~nt'.checking /\ nt'.wrWait
    BY <1>1, <1>2, <1>4, <1>6, <1>7, <1>8, <2>3 DEF Still, SameFlags
  <2>5. thr'[t].pc = p /\ thr'[t].op = thr[t].op => OwnWaits(t)'
    BY <1>0, <2>2, <2>3, <2>4 DEF OwnWaits, At
  <2> QED
    BY <1>0, <1>1, <1>8, <2>1, <2>4, <2>5, OwnTo
<1>9. CASE nt' = y /\ To(t, "wrRefused") /\ UNCHANGED jobs
  <2> HIDE DEF x, y
  <2>1. Still(t) /\ ~nt'.checking /\ nt'.wrWait
    BY <1>1, <1>2, <1>4, <1>6, <1>7, <1>9 DEF Still, SameFlags
  <2>2. thr'[t].pc = "wrRefused" /\ thr'[t].op = thr[t].op => OwnWaits(t)'
    BY <1>0, <2>1 DEF OwnWaits, At
  <2> QED
    BY <1>0, <1>1, <1>9, <2>1, <2>2, OwnTo DEF Own
<1>10. CASE WrFails(t) /\ nt' = [nt EXCEPT !.wrWait = FALSE]
  BY <1>0, <1>1, <1>2, <1>4, <1>10, WriteGivesUp
<1>11. \/ nt' = y /\ Request(r) /\ To(t, p)
       \/ nt' = y /\ To(t, "wrRefused") /\ UNCHANGED jobs
       \/ WrFails(t) /\ nt' = [nt EXCEPT !.wrWait = FALSE]
  BY <1>3
<1> QED
  BY <1>8, <1>9, <1>10, <1>11

LEMMA WrFormattedKeeps ==
    ASSUME Inv, NEW t \in Threads, WrFormatted(t)
    PROVE  Inv'
<1>0. t = "svc" /\ thr[t].op = "write" /\ thr[t].pc \in {"wrFormat", "wrRefused"} /\ thr[t].op \in Ops
  BY OpAt DEF WrFormatted, Ops
<1>1. /\ Types /\ thr[t] \in Thrs /\ nt \in Nts /\ tag \in Tags /\ sem \in Sems
      /\ jobs \in Seq(Jobs(tag.ep)) /\ Notes(thr[t]) /\ OwnWaits(t)
      /\ thr[t].pc # "idle" /\ thr[t].pc \notin ReSelecting /\ ~nt.checking
  <2>1. thr[t].pc \in Own(thr[t].op) /\ thr[t].pc # "opEnd"
    BY <1>0 DEF Own
  <2> QED
    BY <1>0, <2>1, AtWork
<1>2. UNCHANGED <<card, tag, vtimer, watch, count>> /\ sem' = [sem EXCEPT !["f"] = FALSE]
  BY DEF WrFormatted
<1>3. sem' \in Sems /\ sem'["w"] = sem["w"] /\ (sem["w"] \/ nt.wrWait)
  BY <1>0, <1>1, <1>2 DEF Sems, OwnWaits, At
<1>4. CASE Request("write") /\ To(t, "wrSent") /\ UNCHANGED nt
  <2>1. jobs' \in Seq(Jobs(tag.ep)) /\ Ahead("write")'
    BY <1>1, <1>4, OwnRequest DEF Requests, Rw
  <2>2. Still(t) /\ ~nt'.checking
    BY <1>1, <1>2, <1>3, <1>4, <2>1 DEF Still, SameFlags
  <2>3. thr'[t].pc = "wrSent" /\ thr'[t].op = thr[t].op => OwnWaits(t)'
    BY <1>0, <1>3, <1>4, <2>1 DEF OwnWaits, At
  <2> QED
    BY <1>0, <1>1, <1>4, <2>2, <2>3, OwnTo DEF Own
<1>5. ASSUME NEW p \in {"wrFormat", "wrRefused"}, thr' = [thr EXCEPT ![t].key2 = TRUE, ![t].pc = p],
             UNCHANGED nt, jobs' \in Seq(Jobs(tag.ep)), p = "wrFormat" => Ahead("format")'
      PROVE  Inv'
  <2>1. Still(t) /\ ~nt'.checking
    BY <1>1, <1>2, <1>3, <1>5 DEF Still, SameFlags
  <2>2. p \in Own(thr[t].op) /\ p \in Places
    <3>1. p \in Own("write") /\ "write" \in Ops
      BY DEF Own, Ops
    <3> QED
      BY <1>0, <3>1 DEF Places
  <2> DEFINE x == [thr[t] EXCEPT !.key2 = TRUE]
             y == [x EXCEPT !.pc = p]
  <2>3. x \in Thrs /\ x.op = thr[t].op /\ x.k = thr[t].k /\ x.ans = thr[t].ans /\ x.ep = thr[t].ep
    BY <1>1, ThrTypes
  <2>4. /\ y \in Thrs /\ y.pc = p /\ y.op = thr[t].op /\ y.k = thr[t].k
        /\ y.ans = thr[t].ans /\ y.ep = thr[t].ep
    <3> HIDE DEF x
    <3> QED
      BY <2>2, <2>3, ThrTypes
  <2>5. thr' = [thr EXCEPT ![t] = y]
    BY <1>5
  <2> HIDE DEF x, y
  <2>6. thr' \in [Threads -> Thrs] /\ Others(t) /\ thr'[t] = y
    BY <1>1, <2>4, <2>5, RunOne
  <2>7. OwnWaits(t)'
    BY <1>0, <1>3, <1>5, <2>4, <2>6 DEF OwnWaits, At
  <2>8. Notes(thr[t])'
    BY <1>0, <1>1, <2>1, <2>4, <2>6 DEF Notes, Returns, Thrs
  <2> QED
    BY <1>0, <1>1, <2>1, <2>2, <2>4, <2>6, <2>7, <2>8, OwnGo
<1>6. CASE Request("format") /\ thr' = [thr EXCEPT ![t].key2 = TRUE, ![t].pc = "wrFormat"] /\ UNCHANGED nt
  <2>1. jobs' \in Seq(Jobs(tag.ep)) /\ Ahead("format")'
    BY <1>1, <1>6, OwnRequest DEF Requests, Rw
  <2> QED
    BY <1>5, <1>6, <2>1
<1>7. CASE thr' = [thr EXCEPT ![t].key2 = TRUE, ![t].pc = "wrRefused"] /\ UNCHANGED <<nt, jobs>>
  BY <1>1, <1>2, <1>5, <1>7
<1>8. CASE WrFails(t) /\ nt' = [nt EXCEPT !.wrWait = FALSE]
  BY <1>0, <1>1, <1>2, <1>3, <1>8, WriteGivesUp
<1> QED
  BY <1>4, <1>6, <1>7, <1>8 DEF WrFormatted

LEMMA WrSentKeeps ==
    ASSUME Inv, NEW t \in Threads, WrSent(t)
    PROVE  Inv'
<1>0. t = "svc" /\ thr[t].op = "write" /\ thr[t].pc = "wrSent" /\ thr[t].op \in Ops
  BY OpAt DEF WrSent, At, Ops
<1>1. /\ Types /\ thr[t] \in Thrs /\ nt \in Nts /\ tag \in Tags /\ sem \in Sems
      /\ jobs \in Seq(Jobs(tag.ep)) /\ Notes(thr[t]) /\ OwnWaits(t)
      /\ thr[t].pc # "idle" /\ thr[t].pc \notin ReSelecting /\ ~nt.checking
  <2>1. thr[t].pc \in Own(thr[t].op) /\ thr[t].pc # "opEnd"
    BY <1>0 DEF Own
  <2> QED
    BY <1>0, <2>1, AtWork
<1>2. UNCHANGED <<card, tag, sem, jobs, vtimer, watch, count>> /\ To(t, "wrWait")
  BY DEF WrSent
<1>3. /\ nt' \in Nts /\ SameFlags(nt')
      /\ nt'.ckWait = nt.ckWait /\ nt'.wrWait = nt.wrWait /\ nt'.roWait = nt.roWait /\ nt'.checking = nt.checking
      /\ ~nt'.wrOk /\ nt'.fmOk = nt.fmOk /\ nt'.rx = nt.rx /\ nt'.reading = nt.reading
  <2> DEFINE a == [nt EXCEPT !.wrOk = FALSE]
  <2>1. a \in Nts
    BY <1>1, NtBools
  <2>2. /\ a.mutex = nt.mutex /\ a.deact = nt.deact /\ a.sel = nt.sel
        /\ a.recon = nt.recon /\ a.conWait = nt.conWait
        /\ a.ckWait = nt.ckWait /\ a.wrWait = nt.wrWait /\ a.roWait = nt.roWait /\ a.checking = nt.checking
        /\ ~a.wrOk /\ a.fmOk = nt.fmOk /\ a.rx = nt.rx /\ a.reading = nt.reading
    BY <1>1, NtFields
  <2>3. nt' = a
    BY DEF WrSent
  <2> HIDE DEF a
  <2> QED
    BY <2>1, <2>2, <2>3 DEF SameFlags
<1>4. Still(t) /\ ~nt'.checking
  BY <1>1, <1>2, <1>3 DEF Still
<1>5. thr'[t].pc = "wrWait" /\ thr'[t].op = thr[t].op => OwnWaits(t)'
  <2>1. (sem["w"] \/ nt.wrWait) /\ (sem["w"] \/ Ahead("write"))
    BY <1>0, <1>1 DEF OwnWaits
  <2> QED
    BY <1>0, <1>1, <1>2, <1>3, <2>1, Untouched DEF OwnWaits, At
<1> QED
  BY <1>0, <1>1, <1>2, <1>3, <1>4, <1>5, OwnTo DEF Own

\* A write that says it succeeded was answered.
LEMMA WrEndKeeps ==
    ASSUME Inv, NEW t \in Threads, WrEnd(t)
    PROVE  Inv'
<1>0. t = "svc" /\ thr[t].op = "write" /\ thr[t].pc = "wrWait" /\ thr[t].op \in Ops
  BY OpAt DEF WrEnd, At, Ops
<1>1. /\ Types /\ thr[t] \in Thrs /\ nt \in Nts /\ tag \in Tags /\ sem \in Sems
      /\ jobs \in Seq(Jobs(tag.ep)) /\ Notes(thr[t]) /\ OwnWaits(t)
      /\ thr[t].pc # "idle" /\ thr[t].pc \notin ReSelecting /\ ~nt.checking
  <2>1. thr[t].pc \in Own(thr[t].op) /\ thr[t].pc # "opEnd"
    BY <1>0 DEF Own
  <2> QED
    BY <1>0, <2>1, AtWork
<1>2. UNCHANGED <<card, tag, jobs, vtimer, watch, count>> /\ sem' \in Sems
  BY <1>1 DEF WrEnd, Sems
<1>3. /\ nt' \in Nts /\ SameFlags(nt')
      /\ nt'.ckWait = nt.ckWait /\ ~nt'.wrWait /\ nt'.roWait = nt.roWait /\ nt'.checking = nt.checking
      /\ nt'.wrOk = nt.wrOk /\ nt'.fmOk = nt.fmOk /\ nt'.rx = nt.rx /\ nt'.reading = nt.reading
  <2> DEFINE a == [nt EXCEPT !.wrWait = FALSE]
  <2>1. a \in Nts
    BY <1>1, NtBools
  <2>2. /\ a.mutex = nt.mutex /\ a.deact = nt.deact /\ a.sel = nt.sel
        /\ a.recon = nt.recon /\ a.conWait = nt.conWait
        /\ a.ckWait = nt.ckWait /\ ~a.wrWait /\ a.roWait = nt.roWait /\ a.checking = nt.checking
        /\ a.wrOk = nt.wrOk /\ a.fmOk = nt.fmOk /\ a.rx = nt.rx /\ a.reading = nt.reading
    BY <1>1, NtFields
  <2>3. nt' = a
    BY DEF WrEnd
  <2> HIDE DEF a
  <2> QED
    BY <2>1, <2>2, <2>3 DEF SameFlags
<1>4. Still(t) /\ ~nt'.checking
  BY <1>1, <1>2, <1>3 DEF Still
<1> DEFINE rv == IF nt.wrOk THEN "ok" ELSE "fail"
<1>5. rv \in Results /\ Fin(t, rv) /\ (rv = "ok" => nt.wrOk)
  BY DEF Results, WrEnd
<1> HIDE DEF rv
<1>6. rv = "ok" => thr[t].ans
  BY <1>0, <1>1, <1>5 DEF Notes
<1> QED
  BY <1>0, <1>1, <1>4, <1>5, <1>6, OwnFin

\* Whatever an earlier format said is forgotten before the tag is asked.
LEMMA FormatKeeps ==
    ASSUME Inv, NEW t \in Threads, doNdefFormat(t)
    PROVE  Inv'
<1>0. t = "svc" /\ thr[t].op = "format" /\ thr[t].pc = "format" /\ thr[t].op \in Ops
  BY OpAt DEF doNdefFormat, At, Ops
<1>1. /\ Types /\ thr[t] \in Thrs /\ nt \in Nts /\ tag \in Tags /\ sem \in Sems
      /\ jobs \in Seq(Jobs(tag.ep)) /\ Notes(thr[t]) /\ OwnWaits(t)
      /\ thr[t].pc # "idle" /\ thr[t].pc \notin ReSelecting /\ ~nt.checking
  <2>1. thr[t].pc \in Own(thr[t].op) /\ thr[t].pc # "opEnd"
    BY <1>0 DEF Own
  <2> QED
    BY <1>0, <2>1, AtWork
<1>2. UNCHANGED <<card, tag, jobs, vtimer, watch, count>>
  BY DEF doNdefFormat
<1>3. CASE Fin(t, "fail") /\ UNCHANGED <<nt, sem>>
  <2>1. Still(t) /\ ~nt'.checking
    BY <1>1, <1>2, <1>3 DEF Still, SameFlags
  <2> QED
    BY <1>0, <1>1, <1>3, <2>1, OwnFin DEF Results
<1>4. CASE sem' = [sem EXCEPT !["f"] = FALSE] /\ nt' = [nt EXCEPT !.fmOk = FALSE]
  <2>1. sem' \in Sems
    BY <1>1, <1>4 DEF Sems
  <2>2. /\ nt' \in Nts /\ SameFlags(nt')
        /\ nt'.ckWait = nt.ckWait /\ nt'.wrWait = nt.wrWait /\ nt'.roWait = nt.roWait /\ nt'.checking = nt.checking
        /\ nt'.wrOk = nt.wrOk /\ ~nt'.fmOk /\ nt'.rx = nt.rx /\ nt'.reading = nt.reading
    <3> DEFINE a == [nt EXCEPT !.fmOk = FALSE]
    <3>1. a \in Nts
      BY <1>1, NtBools
    <3>2. /\ a.mutex = nt.mutex /\ a.deact = nt.deact /\ a.sel = nt.sel
          /\ a.recon = nt.recon /\ a.conWait = nt.conWait
          /\ a.ckWait = nt.ckWait /\ a.wrWait = nt.wrWait /\ a.roWait = nt.roWait /\ a.checking = nt.checking
          /\ a.wrOk = nt.wrOk /\ ~a.fmOk /\ a.rx = nt.rx /\ a.reading = nt.reading
      BY <1>1, NtFields
    <3>3. nt' = a
      BY <1>4
    <3> HIDE DEF a
    <3> QED
      BY <3>1, <3>2, <3>3 DEF SameFlags
  <2>3. Still(t) /\ ~nt'.checking
    BY <1>1, <1>2, <2>1, <2>2 DEF Still
  <2>4. CASE Call(t, "reconnect", "fmSend")
    BY <1>0, <1>1, <2>2, <2>3, <2>4, OwnCall DEF Own, Returns
  <2>5. CASE To(t, "fmSend")
    <3>1. thr'[t].pc = "fmSend" /\ thr'[t].op = thr[t].op => OwnWaits(t)'
      BY <1>0 DEF OwnWaits, At
    <3> QED
      BY <1>0, <1>1, <2>2, <2>3, <2>5, <3>1, OwnTo DEF Own
  <2>6. CASE Fin(t, "fail") /\ UNCHANGED <<nt, sem>>
    BY <1>3, <2>6
  <2> QED
    BY <2>4, <2>5, <2>6 DEF doNdefFormat
<1> QED
  BY <1>3, <1>4 DEF doNdefFormat

LEMMA FmSendKeeps ==
    ASSUME Inv, NEW t \in Threads, FmSend(t)
    PROVE  Inv'
<1>0. t = "svc" /\ thr[t].op = "format" /\ thr[t].pc = "fmSend" /\ thr[t].op \in Ops
  BY OpAt DEF FmSend, At, Ops
<1>1. /\ Types /\ thr[t] \in Thrs /\ nt \in Nts /\ tag \in Tags /\ sem \in Sems
      /\ jobs \in Seq(Jobs(tag.ep)) /\ Notes(thr[t]) /\ OwnWaits(t)
      /\ thr[t].pc # "idle" /\ thr[t].pc \notin ReSelecting /\ ~nt.checking
  <2>1. thr[t].pc \in Own(thr[t].op) /\ thr[t].pc # "opEnd"
    BY <1>0 DEF Own
  <2> QED
    BY <1>0, <2>1, AtWork
<1>2. UNCHANGED <<card, tag, nt, sem, vtimer, watch, count>>
  BY DEF FmSend
<1>3. nt'.fmOk => thr[t].ans
  BY <1>0, <1>1, <1>2 DEF Notes
<1>4. CASE Request("format") /\ To(t, "fmWait")
  <2>1. jobs' \in Seq(Jobs(tag.ep)) /\ Ahead("format")'
    BY <1>1, <1>4, OwnRequest DEF Requests, Rw
  <2>2. Still(t) /\ ~nt'.checking
    BY <1>1, <1>2, <2>1 DEF Still, SameFlags
  <2>3. thr'[t].pc = "fmWait" /\ thr'[t].op = thr[t].op => OwnWaits(t)'
    BY <1>0, <2>1 DEF OwnWaits, At
  <2> QED
    BY <1>0, <1>1, <1>3, <1>4, <2>2, <2>3, OwnTo DEF Own
<1>5. ASSUME UNCHANGED jobs PROVE Still(t) /\ ~nt'.checking
  BY <1>1, <1>2, <1>5 DEF Still, SameFlags
<1>6. CASE UNCHANGED jobs /\ Call(t, "reconnect", "fmKey2")
  BY <1>0, <1>1, <1>3, <1>5, <1>6, OwnCall DEF Own, Returns
<1>7. CASE UNCHANGED jobs /\ Call(t, "reconnect", "fmFailed")
  BY <1>0, <1>1, <1>3, <1>5, <1>7, OwnCall DEF Own, Returns
<1>8. CASE UNCHANGED jobs /\ Fin(t, "fail")
  BY <1>0, <1>1, <1>5, <1>8, OwnFin DEF Results
<1> QED
  BY <1>4, <1>6, <1>7, <1>8 DEF FmSend

\* An "ok" that is looked at here was noted for this operation.
LEMMA FmEndKeeps ==
    ASSUME Inv, NEW t \in Threads, FmEnd(t)
    PROVE  Inv'
<1>0. t = "svc" /\ thr[t].op = "format" /\ thr[t].pc = "fmWait" /\ thr[t].op \in Ops
  BY OpAt DEF FmEnd, At, Ops
<1>1. /\ Types /\ thr[t] \in Thrs /\ nt \in Nts /\ tag \in Tags /\ sem \in Sems
      /\ jobs \in Seq(Jobs(tag.ep)) /\ Notes(thr[t]) /\ OwnWaits(t)
      /\ thr[t].pc # "idle" /\ thr[t].pc \notin ReSelecting /\ ~nt.checking
  <2>1. thr[t].pc \in Own(thr[t].op) /\ thr[t].pc # "opEnd"
    BY <1>0 DEF Own
  <2> QED
    BY <1>0, <2>1, AtWork
<1>2. UNCHANGED <<card, tag, nt, jobs, vtimer, watch, count>> /\ sem' \in Sems
  BY <1>1 DEF FmEnd, Sems
<1>3. Still(t) /\ ~nt'.checking
  BY <1>1, <1>2 DEF Still, SameFlags
<1>4. nt.fmOk => thr[t].ans
  BY <1>0, <1>1 DEF Notes
<1>5. CASE Call(t, "reconnect", "fmKey2")
  BY <1>0, <1>1, <1>2, <1>3, <1>4, <1>5, OwnCall DEF Own, Returns
<1>6. CASE thr' = [thr EXCEPT ![t].pc = "reconnect", ![t].k = IF nt.fmOk THEN "fmOk" ELSE "fmFailed"]
  <2> DEFINE k == IF nt.fmOk THEN "fmOk" ELSE "fmFailed"
  <2>1. k \in Own(thr[t].op) \cap Returns /\ (k = "fmOk" => nt.fmOk)
    BY <1>0 DEF Own, Returns
  <2>2. Call(t, "reconnect", k)
    BY <1>6 DEF Call
  <2> HIDE DEF k
  <2> QED
    BY <1>0, <1>1, <1>2, <1>3, <1>4, <2>1, <2>2, OwnCall
<1>7. CASE Fin(t, IF nt.fmOk THEN "ok" ELSE "fail")
  <2> DEFINE rv == IF nt.fmOk THEN "ok" ELSE "fail"
  <2>1. rv \in Results /\ Fin(t, rv) /\ (rv = "ok" => thr[t].ans)
    BY <1>4, <1>7 DEF Results
  <2> HIDE DEF rv
  <2> QED
    BY <1>0, <1>1, <1>3, <2>1, OwnFin
<1> QED
  BY <1>5, <1>6, <1>7 DEF FmEnd

LEMMA FmKey2Keeps ==
    ASSUME Inv, NEW t \in Threads, FmKey2(t)
    PROVE  Inv'
<1>0. t = "svc" /\ thr[t].op = "format" /\ thr[t].pc = "fmKey2" /\ thr[t].op \in Ops
  BY OpAt DEF FmKey2, At, Ops
<1>1. /\ Types /\ thr[t] \in Thrs /\ nt \in Nts /\ tag \in Tags /\ sem \in Sems
      /\ jobs \in Seq(Jobs(tag.ep)) /\ Notes(thr[t]) /\ OwnWaits(t)
      /\ thr[t].pc # "idle" /\ thr[t].pc \notin ReSelecting /\ ~nt.checking
  <2>1. thr[t].pc \in Own(thr[t].op) /\ thr[t].pc # "opEnd"
    BY <1>0 DEF Own
  <2> QED
    BY <1>0, <2>1, AtWork
<1>2. /\ UNCHANGED <<card, tag, nt, sem, vtimer, watch, count>> /\ Fin(t, "fail")
      /\ Request("format") \/ UNCHANGED jobs
  BY DEF FmKey2
<1>3. jobs' \in Seq(Jobs(tag.ep))
  BY <1>1, <1>2, OwnRequest DEF Requests, Rw
<1>4. Still(t) /\ ~nt'.checking
  BY <1>1, <1>2, <1>3 DEF Still, SameFlags
<1> QED
  BY <1>0, <1>1, <1>2, <1>4, OwnFin DEF Results

LEMMA FmReconnectedKeeps ==
    ASSUME Inv, NEW t \in Threads, FmReconnected(t)
    PROVE  Inv'
<1>0. /\ t = "svc" /\ thr[t].op = "format" /\ thr[t].pc \in {"fmOk", "fmFailed"}
      /\ thr[t].op \in Ops
  BY OpAt DEF FmReconnected, Ops
<1>1. /\ Types /\ nt \in Nts /\ tag \in Tags /\ sem \in Sems
      /\ jobs \in Seq(Jobs(tag.ep)) /\ Notes(thr[t])
      /\ thr[t].pc # "idle" /\ thr[t].pc \notin ReSelecting /\ ~nt.checking
  <2>1. thr[t].pc \in Own(thr[t].op) /\ thr[t].pc # "opEnd"
    BY <1>0 DEF Own
  <2> QED
    BY <1>0, <2>1, AtWork
<1>2. UNCHANGED <<card, tag, nt, sem, jobs, vtimer, watch, count>>
  BY DEF FmReconnected
<1>3. Still(t) /\ ~nt'.checking
  BY <1>1, <1>2 DEF Still, SameFlags
<1> DEFINE rv == IF thr[t].pc = "fmOk" THEN "ok" ELSE "fail"
<1>4. rv \in Results /\ Fin(t, rv) /\ (rv = "ok" => thr[t].pc = "fmOk")
  BY DEF Results, FmReconnected, At
<1> HIDE DEF rv
<1>5. rv = "ok" => thr[t].ans
  BY <1>1, <1>4 DEF Notes
<1> QED
  BY <1>0, <1>1, <1>3, <1>4, <1>5, OwnFin

LEMMA ReadonlyKeeps ==
    ASSUME Inv, NEW t \in Threads, doMakeReadonly(t)
    PROVE  Inv'
<1>0. t = "svc" /\ thr[t].op = "readonly" /\ thr[t].pc = "readonly" /\ thr[t].op \in Ops
  BY OpAt DEF doMakeReadonly, At, Ops
<1>1. /\ Types /\ thr[t] \in Thrs /\ nt \in Nts /\ tag \in Tags /\ sem \in Sems
      /\ jobs \in Seq(Jobs(tag.ep)) /\ Notes(thr[t]) /\ OwnWaits(t)
      /\ thr[t].pc # "idle" /\ thr[t].pc \notin ReSelecting /\ ~nt.checking
  <2>1. thr[t].pc \in Own(thr[t].op) /\ thr[t].pc # "opEnd"
    BY <1>0 DEF Own
  <2> QED
    BY <1>0, <2>1, AtWork
<1>2. UNCHANGED <<card, tag, jobs, vtimer, watch, count>> /\ sem' \in Sems
  BY <1>1 DEF doMakeReadonly, Sems
<1>3. /\ nt' \in Nts /\ SameFlags(nt')
      /\ nt'.ckWait = nt.ckWait /\ nt'.wrWait = nt.wrWait /\ nt'.roWait /\ nt'.checking = nt.checking
      /\ nt'.wrOk = nt.wrOk /\ nt'.fmOk = nt.fmOk /\ nt'.rx = nt.rx /\ nt'.reading = nt.reading
  <2> DEFINE a == [nt EXCEPT !.roWait = TRUE]
  <2>1. a \in Nts
    BY <1>1, NtBools
  <2>2. /\ a.mutex = nt.mutex /\ a.deact = nt.deact /\ a.sel = nt.sel
        /\ a.recon = nt.recon /\ a.conWait = nt.conWait
        /\ a.ckWait = nt.ckWait /\ a.wrWait = nt.wrWait /\ a.roWait /\ a.checking = nt.checking
        /\ a.wrOk = nt.wrOk /\ a.fmOk = nt.fmOk /\ a.rx = nt.rx /\ a.reading = nt.reading
    BY <1>1, NtFields
  <2>3. nt' = a
    BY DEF doMakeReadonly
  <2> HIDE DEF a
  <2> QED
    BY <2>1, <2>2, <2>3 DEF SameFlags
<1>4. Still(t) /\ ~nt'.checking
  BY <1>1, <1>2, <1>3 DEF Still
<1>5. CASE Call(t, "reconnect", "roSend")
  BY <1>0, <1>1, <1>3, <1>4, <1>5, OwnCall DEF Own, Returns
<1>6. CASE To(t, "roSend")
  <2>1. thr'[t].pc = "roSend" /\ thr'[t].op = thr[t].op => OwnWaits(t)'
    BY <1>0, <1>3 DEF OwnWaits, At
  <2> QED
    BY <1>0, <1>1, <1>4, <1>6, <2>1, OwnTo DEF Own
<1> QED
  BY <1>5, <1>6 DEF doMakeReadonly

LEMMA SecondKeyKeeps ==
    ASSUME Inv, NEW t \in Threads, t = "svc", thr[t].op = "readonly", thr[t].op \in Ops,
           thr[t].pc # "idle", thr[t].pc \notin ReSelecting, ~nt.checking,
           Types, sem' \in Sems, UNCHANGED <<card, tag, vtimer, watch, count>>, RoSecondKey(t)
    PROVE  Inv'
<1>1. nt \in Nts /\ tag \in Tags /\ jobs \in Seq(Jobs(tag.ep)) /\ UNCHANGED jobs
  BY DEF Types, RoSecondKey
<1>2. /\ nt' \in Nts /\ SameFlags(nt')
      /\ nt'.ckWait = nt.ckWait /\ nt'.wrWait = nt.wrWait /\ nt'.roWait /\ nt'.checking = nt.checking
      /\ nt'.wrOk = nt.wrOk /\ nt'.fmOk = nt.fmOk /\ nt'.rx = nt.rx /\ nt'.reading = nt.reading
  <2> DEFINE a == [nt EXCEPT !.roWait = TRUE]
  <2>1. a \in Nts
    BY <1>1, NtBools
  <2>2. /\ a.mutex = nt.mutex /\ a.deact = nt.deact /\ a.sel = nt.sel
        /\ a.recon = nt.recon /\ a.conWait = nt.conWait
        /\ a.ckWait = nt.ckWait /\ a.wrWait = nt.wrWait /\ a.roWait /\ a.checking = nt.checking
        /\ a.wrOk = nt.wrOk /\ a.fmOk = nt.fmOk /\ a.rx = nt.rx /\ a.reading = nt.reading
    BY <1>1, NtFields
  <2>3. nt' = a
    BY DEF RoSecondKey
  <2> HIDE DEF a
  <2> QED
    BY <2>1, <2>2, <2>3 DEF SameFlags
<1>3. Still(t) /\ ~nt'.checking
  BY <1>1, <1>2 DEF Still
<1> DEFINE a == [thr[t] EXCEPT !.key2 = TRUE]
           b == [a EXCEPT !.pc = "reconnect"]
           c == [b EXCEPT !.k = "roSend"]
<1>4. thr[t] \in Thrs /\ "reconnect" \in Places /\ "roSend" \in Returns
  BY DEF Types, Places, Called, Returns
<1>5. a \in Thrs
  BY <1>4, ThrTypes
<1>6. b \in Thrs
  BY <1>4, <1>5, ThrTypes
<1>7. c \in Thrs
  BY <1>4, <1>6, ThrTypes
<1>8. c.pc = "reconnect" /\ c.k = "roSend" /\ c.op = thr[t].op
  BY <1>4, ThrTypes
<1>9. thr' = [thr EXCEPT ![t] = c]
  BY DEF RoSecondKey
<1> HIDE DEF a, b, c
<1>10. thr' \in [Threads -> Thrs] /\ thr'[t] = c /\ Others(t)
  BY <1>7, <1>9, RunOne
<1>11. "roSend" \in Own(thr[t].op) \cap Returns
  BY <1>4 DEF Own
<1>12. nt'.mutex # t
  BY <1>3, StillAround
<1>13. Fit(t)'
  BY <1>2, <1>3, <1>8, <1>10, <1>11, <1>12, Entering
<1> QED
  BY <1>3, <1>10, <1>13, StepAfter

LEMMA RoSendKeeps ==
    ASSUME Inv, NEW t \in Threads, RoSend(t)
    PROVE  Inv'
<1>0. t = "svc" /\ thr[t].op = "readonly" /\ thr[t].pc = "roSend" /\ thr[t].op \in Ops
  BY OpAt DEF RoSend, At, Ops
<1>1. /\ Types /\ thr[t] \in Thrs /\ nt \in Nts /\ tag \in Tags /\ sem \in Sems
      /\ jobs \in Seq(Jobs(tag.ep)) /\ Notes(thr[t]) /\ OwnWaits(t)
      /\ thr[t].pc # "idle" /\ thr[t].pc \notin ReSelecting /\ ~nt.checking
  <2>1. thr[t].pc \in Own(thr[t].op) /\ thr[t].pc # "opEnd"
    BY <1>0 DEF Own
  <2> QED
    BY <1>0, <2>1, AtWork
<1>2. UNCHANGED <<card, tag, sem, vtimer, watch, count>> /\ (sem["r"] \/ nt.roWait)
  BY <1>0, <1>1 DEF RoSend, OwnWaits
<1>3. CASE Request("readonly") /\ To(t, "roWait") /\ UNCHANGED nt
  <2>1. jobs' \in Seq(Jobs(tag.ep)) /\ Ahead("readonly")'
    BY <1>1, <1>3, OwnRequest DEF Requests, Rw
  <2>2. Still(t) /\ ~nt'.checking
    BY <1>1, <1>2, <1>3, <2>1 DEF Still, SameFlags
  <2>3. thr'[t].pc = "roWait" /\ thr'[t].op = thr[t].op => OwnWaits(t)'
    BY <1>0, <1>2, <1>3, <2>1 DEF OwnWaits, At
  <2> QED
    BY <1>0, <1>1, <1>3, <2>2, <2>3, OwnTo DEF Own
<1>4. CASE RoSecondKey(t)
  BY <1>0, <1>1, <1>2, <1>4, SecondKeyKeeps
<1>5. CASE Fin(t, "fail") /\ nt' = [nt EXCEPT !.roWait = FALSE] /\ UNCHANGED jobs
  <2>1. /\ nt' \in Nts /\ SameFlags(nt')
        /\ nt'.ckWait = nt.ckWait /\ nt'.wrWait = nt.wrWait /\ ~nt'.roWait /\ nt'.checking = nt.checking
        /\ nt'.wrOk = nt.wrOk /\ nt'.fmOk = nt.fmOk /\ nt'.rx = nt.rx /\ nt'.reading = nt.reading
    <3> DEFINE a == [nt EXCEPT !.roWait = FALSE]
    <3>1. a \in Nts
      BY <1>1, NtBools
    <3>2. /\ a.mutex = nt.mutex /\ a.deact = nt.deact /\ a.sel = nt.sel
          /\ a.recon = nt.recon /\ a.conWait = nt.conWait
          /\ a.ckWait = nt.ckWait /\ a.wrWait = nt.wrWait /\ ~a.roWait /\ a.checking = nt.checking
          /\ a.wrOk = nt.wrOk /\ a.fmOk = nt.fmOk /\ a.rx = nt.rx /\ a.reading = nt.reading
      BY <1>1, NtFields
    <3>3. nt' = a
      BY <1>5
    <3> HIDE DEF a
    <3> QED
      BY <3>1, <3>2, <3>3 DEF SameFlags
  <2>2. Still(t) /\ ~nt'.checking
    BY <1>1, <1>2, <1>5, <2>1 DEF Still
  <2> QED
    BY <1>0, <1>1, <1>5, <2>2, OwnFin DEF Results
<1> QED
  BY <1>3, <1>4, <1>5 DEF RoSend

LEMMA RoEndKeeps ==
    ASSUME Inv, NEW t \in Threads, RoEnd(t)
    PROVE  Inv'
<1>0. t = "svc" /\ thr[t].op = "readonly" /\ thr[t].pc = "roWait" /\ thr[t].op \in Ops
  BY OpAt DEF RoEnd, At, Ops
<1>1. /\ Types /\ thr[t] \in Thrs /\ nt \in Nts /\ tag \in Tags /\ sem \in Sems
      /\ jobs \in Seq(Jobs(tag.ep)) /\ Notes(thr[t]) /\ OwnWaits(t)
      /\ thr[t].pc # "idle" /\ thr[t].pc \notin ReSelecting /\ ~nt.checking
  <2>1. thr[t].pc \in Own(thr[t].op) /\ thr[t].pc # "opEnd"
    BY <1>0 DEF Own
  <2> QED
    BY <1>0, <2>1, AtWork
<1>2. UNCHANGED <<card, tag, vtimer, watch, count>> /\ sem' \in Sems
  BY <1>1 DEF RoEnd, Sems
<1>3. CASE RoSecondKey(t)
  BY <1>0, <1>1, <1>2, <1>3, SecondKeyKeeps
<1>4. CASE /\ nt' = [nt EXCEPT !.roWait = FALSE] /\ Fin(t, IF nt.roSt THEN "ok" ELSE "fail")
           /\ UNCHANGED jobs
  <2>1. /\ nt' \in Nts /\ SameFlags(nt')
        /\ nt'.ckWait = nt.ckWait /\ nt'.wrWait = nt.wrWait /\ ~nt'.roWait /\ nt'.checking = nt.checking
        /\ nt'.wrOk = nt.wrOk /\ nt'.fmOk = nt.fmOk /\ nt'.rx = nt.rx /\ nt'.reading = nt.reading
    <3> DEFINE a == [nt EXCEPT !.roWait = FALSE]
    <3>1. a \in Nts
      BY <1>1, NtBools
    <3>2. /\ a.mutex = nt.mutex /\ a.deact = nt.deact /\ a.sel = nt.sel
          /\ a.recon = nt.recon /\ a.conWait = nt.conWait
          /\ a.ckWait = nt.ckWait /\ a.wrWait = nt.wrWait /\ ~a.roWait /\ a.checking = nt.checking
          /\ a.wrOk = nt.wrOk /\ a.fmOk = nt.fmOk /\ a.rx = nt.rx /\ a.reading = nt.reading
      BY <1>1, NtFields
    <3>3. nt' = a
      BY <1>4
    <3> HIDE DEF a
    <3> QED
      BY <3>1, <3>2, <3>3 DEF SameFlags
  <2>2. Still(t) /\ ~nt'.checking
    BY <1>1, <1>2, <1>4, <2>1 DEF Still
  <2> DEFINE rv == IF nt.roSt THEN "ok" ELSE "fail"
  <2>3. rv \in Results /\ Fin(t, rv)
    BY <1>4 DEF Results
  <2> HIDE DEF rv
  <2> QED
    BY <1>0, <1>1, <2>2, <2>3, OwnFin
<1> QED
  BY <1>3, <1>4 DEF RoEnd

\* The watchdog disconnects while an operation may run: what it requests takes nothing from
\* whoever waits.
LEMMA DisconnectKeeps ==
    ASSUME Inv, NEW t \in Threads, doDisconnect(t)
    PROVE  Inv'
<1>1. /\ Types /\ thr[t] \in Thrs /\ nt \in Nts /\ tag \in Tags /\ sem \in Sems /\ vtimer \in Timers
      /\ thr[t].pc = "disconnect" /\ thr[t].pc # "idle" /\ thr[t].pc \notin ReSelecting
      /\ UNCHANGED <<card, tag, nt, sem, vtimer, count>> /\ Fin(t, "ok") /\ "ok" \in Results
  BY DEF doDisconnect, At, Inv, Types, ReSelecting, Results
<1>2. /\ jobs' \in Seq(Jobs(tag.ep))
      /\ \A r \in Requests : Ahead(r) => Ahead(r)'
      /\ \A e : RawFor(jobs, e) => RawFor(jobs', e)
  <2>1. CASE Request("idle")
    <3>1. "idle" \in Requests
      BY DEF Requests
    <3> QED
      BY <1>1, <2>1, <3>1, Requested
  <2>2. CASE UNCHANGED jobs
    BY <1>1, <2>2, Untouched
  <2> QED
    BY <2>1, <2>2 DEF doDisconnect
<1>3. CASE t = "svc"
  <2>1. thr[t].op = "disconnect" /\ Notes(thr[t])
    BY <1>1, <1>3, OpAt DEF Inv, Fit
  <2>2. ~nt'.checking
    BY <1>1, <2>1 DEF Notes
  <2>3. Still(t)
    BY <1>1, <1>2, <1>3 DEF Still, SameFlags, doDisconnect
  <2> QED
    BY <1>1, <1>3, <2>1, <2>2, <2>3, OwnFin
<1>4. CASE t = "dog"
  <2>1. /\ thr' \in [Threads -> Thrs] /\ Others(t)
        /\ thr'[t].pc = "idle" /\ thr'[t].k = "opEnd" /\ thr'[t].op = thr[t].op
    BY <1>1, FinRuns
  <2>2. watch' \in Watches
    BY <1>4 DEF doDisconnect, Watches
  <2>3. Types'
    BY <1>1, <1>2, <2>1, <2>2 DEF Types
  <2>4. nt.mutex # t
    BY <1>1, NotHeld
  <2>5. Fit("dog")'
    BY <1>1, <1>4, <2>1, <2>4, Finishing
  <2>6. "svc" \in Threads /\ thr'["svc"] = thr["svc"] /\ Woke(thr["svc"], thr'["svc"])
    BY <1>4, <2>1, WokeSelf DEF Others, Threads
  <2>7. CallWaits("svc")' /\ OwnWaits("svc")'
    <3> DEFINE G == {}
    <3>1. \A r \in Requests \ G : Ahead(r) => Ahead(r)'
      BY <1>2
    <3>2. G = {}
      OBVIOUS
    <3> HIDE DEF G
    <3> QED
      BY <1>1, <2>6, <3>1, <3>2, EventWaits
  <2>8. Notes(thr["svc"])'
    BY <1>1, <1>2, <2>6, EventNotes
  <2>9. Place("svc")'
    BY <1>1, <2>6 DEF Inv, Fit, Place
  <2>10. Fit("svc")'
    BY <2>7, <2>8, <2>9 DEF Fit
  <2>11. Free' /\ Apart'
    BY <1>1, <1>4, <2>1 DEF Inv, Free, Apart, At
  <2> QED
    BY <2>3, <2>5, <2>10, <2>11 DEF Inv, Threads
<1> QED
  BY <1>3, <1>4 DEF Threads

-----------------------------------------------------------------------------
(* Operations start, and the watchdog checks.                              *)

\* What a step that only moves a thread from rest, or the watchdog, leaves alone.
LEMMA DogStep ==
    ASSUME Inv, NEW t \in Threads, NEW u \in Threads, u # t,
           UNCHANGED <<card, tag, nt, sem, jobs, vtimer>>,
           thr' \in [Threads -> Thrs], Others(t), Fit(t)', Apart',
           watch' \in Watches, count' \in Counts, count'.tags = count.tags
    PROVE  Inv'
<1>1. Types /\ Free /\ Fit(u)
  BY DEF Inv
<1>2. Types' /\ Free'
  BY <1>1 DEF Types, Free
<1>3. thr'[u] = thr[u]
  BY DEF Others
<1>4. Fit(u)'
  <2>1. Place(u)'
    BY <1>1, <1>3 DEF Fit, Place
  <2>2. \A x : Ahead(x) <=> Ahead(x)'
    BY <1>1, Untouched
  <2>3. CallWaits(u)' /\ OwnWaits(u)'
    BY <1>1, <1>3, <2>2 DEF Fit, CallWaits, OwnWaits, At
  <2>4. u = "svc" => Notes(thr[u])'
    BY <1>1, <1>3 DEF Fit, Notes
  <2> QED
    BY <2>1, <2>3, <2>4 DEF Fit
<1>5. \A v \in Threads : v = t \/ v = u
  BY DEF Threads
<1> QED
  BY <1>2, <1>4, <1>5 DEF Inv

\* Where an operation starts.
LEMMA StartPlaces ==
    ASSUME NEW op \in Ops
    PROVE  /\ op \in Own(op) \/ (op \in {"reconnect", "presence"} /\ "opEnd" \in Own(op) \cap Returns /\ op \in Called)
           /\ op \notin ReSelecting /\ op # "idle"
BY DEF Ops, Own, Returns, Called, Checking, ReSelecting

LEMMA StartKeeps ==
    ASSUME Inv, NEW op \in Ops, NEW h \in {0, 1}, StartOp(op, h)
    PROVE  Inv'
<1> DEFINE y == [thr["svc"] EXCEPT !.pc = op, !.op = op, !.h = h, !.k = "opEnd", !.rv = "ok",
                                   !.ep = tag.ep, !.key2 = FALSE, !.ans = FALSE]
<1>1. /\ Types /\ "svc" \in Threads /\ "dog" \in Threads /\ thr["svc"] \in Thrs
      /\ tag.ep \in 0 .. MaxTags /\ thr["svc"].pc = "idle" /\ thr["dog"].pc \in {"idle", "disconnect"}
      /\ Notes(thr["svc"]) /\ Place("svc")
      /\ UNCHANGED <<card, tag, nt, sem, jobs, vtimer, watch>>
  BY DEF StartOp, At, Inv, Types, Tags, Threads, Fit
<1>2. thr' = [thr EXCEPT !["svc"] = y]
  BY DEF StartOp
<1>3. y \in Thrs /\ y.pc = op /\ y.op = op /\ y.k = "opEnd"
  <2>1. op \in Places /\ "opEnd" \in Returns
    BY DEF Places, Own, Ops, Called, Checking, Returns
  <2>2. y \in Thrs
    BY <1>1, <2>1 DEF Thrs
  <2> QED
    BY <1>1, <2>2 DEF Thrs
<1> HIDE DEF y
<1>4. thr' \in [Threads -> Thrs] /\ thr'["svc"] = y /\ Others("svc")
  BY <1>1, <1>2, <1>3, RunOne
<1>5. /\ op \in Own(op) \/ (op \in {"reconnect", "presence"} /\ "opEnd" \in Own(op) \cap Returns /\ op \in Called)
      /\ op \notin ReSelecting /\ op # "idle"
  BY StartPlaces
<1>6. Place("svc")'
  BY <1>1, <1>3, <1>4, <1>5 DEF Place, SvcPlace, ReSelecting
<1>7. CallWaits("svc")' /\ OwnWaits("svc")'
  BY <1>3, <1>4 DEF CallWaits, OwnWaits, At, Ops
<1>8. Notes(thr["svc"])'
  BY <1>1, <1>3, <1>4 DEF Notes, Ops
<1>9. Apart'
  BY <1>1, <1>4 DEF Apart, At, Others, Threads
<1>10. watch \in Watches /\ count' \in Counts /\ count'.tags = count.tags
  <2>1. count \in Counts /\ count.ops < MaxOps /\ count' = [count EXCEPT !.ops = @ + 1]
    BY <1>1 DEF StartOp, Types
  <2>2. count.ops + 1 \in 0 .. MaxOps
    BY <2>1, NativeTagAssumption DEF Counts
  <2> QED
    BY <1>1, <2>1, <2>2 DEF Counts, Types
<1>11. Fit("svc")'
  BY <1>6, <1>7, <1>8 DEF Fit
<1> QED
  BY <1>1, <1>4, <1>9, <1>10, <1>11, DogStep

LEMMA DogChecksKeeps ==
    ASSUME Inv, DogChecks
    PROVE  Inv'
<1> DEFINE a == [thr["dog"] EXCEPT !.pc = "presence"]
           b == [a EXCEPT !.op = "presence"]
           c == [b EXCEPT !.k = "dogEnd"]
<1>1. /\ Types /\ "svc" \in Threads /\ "dog" \in Threads /\ thr["dog"] \in Thrs
      /\ thr["svc"].pc = "idle" /\ thr["dog"].pc = "idle" /\ Place("dog")
      /\ UNCHANGED <<card, tag, nt, sem, jobs, vtimer, watch, count>>
      /\ watch \in Watches /\ count \in Counts
  BY DEF DogChecks, At, Inv, Types, Threads, Fit
<1>2. "presence" \in Places /\ "presence" \in Ops /\ "dogEnd" \in Returns
  BY DEF Places, Called, Checking, Ops, Returns
<1>3. a \in Thrs
  BY <1>1, <1>2, ThrTypes
<1>4. b \in Thrs
  <2> HIDE DEF a
  <2> QED
    BY <1>2, <1>3 DEF Thrs
<1>5. c \in Thrs
  BY <1>2, <1>4, ThrTypes
<1>6. c.pc = "presence" /\ c.op = "presence" /\ c.k = "dogEnd"
  BY <1>4 DEF Thrs
<1>7. thr' = [thr EXCEPT !["dog"] = c]
  BY DEF DogChecks
<1> HIDE DEF a, b, c
<1>8. thr' \in [Threads -> Thrs] /\ thr'["dog"] = c /\ Others("dog")
  BY <1>1, <1>5, <1>7, RunOne
<1>9. Place("dog")'
  BY <1>1, <1>6, <1>8 DEF Place, DogPlace, Checking, ReSelecting
<1>10. CallWaits("dog")' /\ OwnWaits("dog")'
  BY <1>6, <1>8 DEF CallWaits, OwnWaits, At
<1>11. Apart'
  BY <1>1, <1>8 DEF Apart, At, Others
<1>12. Fit("dog")'
  BY <1>9, <1>10 DEF Fit
<1> QED
  BY <1>1, <1>8, <1>11, <1>12, DogStep

LEMMA DogEndKeeps ==
    ASSUME Inv, DogEnd
    PROVE  Inv'
<1>1. /\ Types /\ "svc" \in Threads /\ "dog" \in Threads /\ thr["dog"] \in Thrs
      /\ thr["dog"].pc = "dogEnd" /\ Place("dog") /\ Apart
      /\ UNCHANGED <<card, tag, nt, sem, jobs, vtimer, count>>
      /\ watch' \in Watches /\ count \in Counts
  BY DEF DogEnd, At, Inv, Types, Threads, Fit, Watches
<1>2. CASE Fin("dog", "ok")
  <2>1. /\ thr' \in [Threads -> Thrs] /\ Others("dog")
        /\ thr'["dog"].pc = "idle" /\ thr'["dog"].k = "opEnd" /\ thr'["dog"].op = thr["dog"].op
    BY <1>1, <1>2, FinRuns DEF Results
  <2>2. Fit("dog")'
    BY <1>1, <2>1, NotHeld, Finishing DEF ReSelecting
  <2>3. Apart'
    BY <2>1 DEF Apart, At
  <2> QED
    BY <1>1, <2>1, <2>2, <2>3, DogStep
<1>3. CASE To("dog", "disconnect")
  <2>1. "disconnect" \in Places
    BY DEF Places, Own, Ops
  <2>2. thr' \in [Threads -> Thrs] /\ Others("dog") /\ SameOp("dog") /\ thr'["dog"].pc = "disconnect"
    BY <1>1, <1>3, <2>1, ToRuns
  <2>3. Place("dog")'
    BY <1>1, <2>2 DEF Place, DogPlace, ReSelecting, SameOp
  <2>4. CallWaits("dog")' /\ OwnWaits("dog")'
    BY <1>1, <2>2 DEF CallWaits, OwnWaits, At, SameOp, Place, DogPlace
  <2>5. Fit("dog")' /\ Apart'
    BY <2>2, <2>3, <2>4 DEF Fit, Apart, At
  <2> QED
    BY <1>1, <2>2, <2>5, DogStep
<1> QED
  BY <1>2, <1>3 DEF DogEnd

-----------------------------------------------------------------------------
(* The theorems.                                                           *)

LEMMA StepsKeep ==
    ASSUME Inv, NEW t \in Threads, Step(t)
    PROVE  Inv'
<1>1. CASE reSelect(t) \/ RsAsleep(t) \/ RsSelecting(t) \/ RsSelected(t)
  BY <1>1, ReSelects, RsAsleepKeeps, RsSelectingKeeps, RsSelectedKeeps
<1>2. CASE doReconnect(t) \/ VscAnswered(t) \/ VscNotified(t) \/ GoneEnd(t)
  BY <1>2, ReconnectKeeps, VscAnsweredKeeps, VscNotifiedKeeps, EndsKeep
<1>3. CASE doPresenceCheck(t) \/ PresenceEnd(t) \/ T3btEnd(t)
  BY <1>3, PresenceKeeps, EndsKeep
<1>4. CASE doConnect(t) \/ OpEnd(t) \/ doDisconnect(t)
  BY <1>4, ConnectKeeps, OpEndKeeps, DisconnectKeeps
<1>5. CASE doTransceive(t) \/ TxSend(t) \/ TxEnd(t) \/ TxNack(t)
  BY <1>5, TransceiveKeeps, TxSendKeeps, TxEndKeeps, TxNackKeeps
<1>6. CASE doCheckNdef(t) \/ CkSend(t) \/ CkEnd(t) \/ CkAbsent(t)
  BY <1>6, CheckKeeps, CkSendKeeps, CkEndKeeps, CkAbsentKeeps
<1>7. CASE doRead(t) \/ ReadEnd(t) \/ ReadAbsent(t)
  BY <1>7, ReadKeeps, ReadEndKeeps, ReadAbsentKeeps
<1>8. CASE doWrite(t) \/ WrFormatted(t) \/ WrSent(t) \/ WrEnd(t)
  BY <1>8, WriteKeeps, WrFormattedKeeps, WrSentKeeps, WrEndKeeps
<1>9. CASE doNdefFormat(t) \/ FmSend(t) \/ FmEnd(t) \/ FmKey2(t) \/ FmReconnected(t)
  BY <1>9, FormatKeeps, FmSendKeeps, FmEndKeeps, FmKey2Keeps, FmReconnectedKeeps
<1>10. CASE doMakeReadonly(t) \/ RoSend(t) \/ RoEnd(t)
  BY <1>10, ReadonlyKeeps, RoSendKeeps, RoEndKeeps
<1> QED
  BY <1>1, <1>2, <1>3, <1>4, <1>5, <1>6, <1>7, <1>8, <1>9, <1>10 DEF Step

LEMMA InitInv == Init => Inv
<1> SUFFICES ASSUME Init PROVE Inv
  OBVIOUS
<1>1. 0 \in 0 .. MaxTags /\ 0 \in 0 .. MaxOps
  BY NativeTagAssumption
<1>2. card \in Cards /\ tag \in Tags /\ tag.ep = 0
  BY <1>1 DEF Init, Cards, Tags
<1>3. nt \in Nts /\ nt.mutex = "free" /\ ~nt.checking /\ Free
  BY <1>1 DEF Init, Nts, Intfs, Free
<1>4. sem \in Sems /\ jobs = << >> /\ vtimer \in Timers /\ watch \in Watches
  BY DEF Init, Sems, Timers, Watches
<1>5. count \in Counts /\ tag.ep <= count.tags
  BY <1>1, <1>2 DEF Init, Counts
<1>6. "idle" \in Places /\ "opEnd" \in Returns
  BY DEF Places, Returns
<1>7. /\ thr \in [Threads -> Thrs]
      /\ \A t \in Threads : thr[t].pc = "idle" /\ thr[t].op = "none" /\ thr[t].k = "opEnd"
  BY <1>1, <1>6 DEF Init, Thrs
<1>8. Types
  BY <1>2, <1>3, <1>4, <1>5, <1>7 DEF Types
<1>9. Apart
  BY <1>7 DEF Apart, At, Threads
<1>10. ASSUME NEW t \in Threads PROVE Fit(t)
  <2>1. Place(t)
    BY <1>3, <1>7 DEF Place, SvcPlace, DogPlace, ReSelecting, Threads
  <2>2. CallWaits(t) /\ OwnWaits(t) /\ Notes(thr[t])
    BY <1>3, <1>7 DEF CallWaits, OwnWaits, Notes, At
  <2> QED
    BY <2>1, <2>2 DEF Fit
<1> QED
  BY <1>3, <1>8, <1>9, <1>10 DEF Inv

LEMMA StutterKeeps ==
    ASSUME Inv, UNCHANGED vars
    PROVE  Inv'
<1>1. "svc" \in Threads /\ "dog" \in Threads /\ UNCHANGED <<card, tag, nt, sem, thr, jobs, vtimer, watch, count>>
  BY DEF Threads, vars
<1>2. Types /\ Apart /\ Fit("svc")
  BY <1>1 DEF Inv
<1>3. thr' \in [Threads -> Thrs] /\ Others("svc") /\ watch' \in Watches /\ count' \in Counts
  BY <1>1, <1>2 DEF Types, Others
<1>4. Apart'
  BY <1>1, <1>2 DEF Apart, At
<1>5. \A x : Ahead(x) <=> Ahead(x)'
  BY <1>1, <1>2, Untouched
<1>6. Fit("svc")'
  <2>1. Place("svc")'
    BY <1>1, <1>2 DEF Fit, Place
  <2>2. CallWaits("svc")' /\ OwnWaits("svc")'
    BY <1>1, <1>2, <1>5 DEF Fit, CallWaits, OwnWaits, At
  <2>3. Notes(thr["svc"])'
    BY <1>1, <1>2 DEF Fit, Notes
  <2> QED
    BY <2>1, <2>2, <2>3 DEF Fit
<1> QED
  BY <1>1, <1>3, <1>4, <1>6, DogStep

LEMMA NextKeeps ==
    ASSUME Inv, [Next]_vars
    PROVE  Inv'
<1>1. ASSUME NEW t \in Threads, Step(t) \/ WaitTimesOut(t) PROVE Inv'
  BY <1>1, StepsKeep, WaitTimesOutKeeps
<1>2. ASSUME NEW op \in Ops, NEW h \in {0, 1}, StartOp(op, h) PROVE Inv'
  BY <1>2, StartKeeps
<1>3. CASE DogChecks \/ DogEnd \/ VscTimer \/ NfaTask \/ TagLeaves
  BY <1>3, DogChecksKeeps, DogEndKeeps, VscTimerKeeps, NfaTaskKeeps, TagLeavesKeeps
<1>4. ASSUME NEW k \in Kinds, TagArrives(k) PROVE Inv'
  BY <1>4, TagArrivesKeeps
<1>5. CASE UNCHANGED vars
  BY <1>5, StutterKeeps
<1> QED
  BY <1>1, <1>2, <1>3, <1>4, <1>5 DEF Next

\* The flags, semaphores and requests of NativeNfcTag.cpp fit the places its threads are at,
\* whatever the operations, the watchdog and the NFA task do to each other.
THEOREM Invariance == Spec => []IndInv
<1>1. Spec => []Inv
  BY InitInv, NextKeeps, PTL DEF Spec
<1>2. Inv => IndInv
  BY IndInvParts
<1> QED
  BY <1>1, <1>2, PTL

\* The state keeps its shape, and every request is of the tag that is out.
THEOREM TypeCorrect == Spec => []TypeOK
<1>1. IndInv => TypeOK
  BY DEF IndInv
<1> QED
  BY <1>1, Invariance, PTL

\* No wait without a time limit in NativeNfcTag.cpp for a request the stack took is left
\* without the event, post or timer that ends it.
THEOREM WaitsAnswered == Spec => []WaitsAreAnswered
<1>1. ASSUME IndInv PROVE WaitsAreAnswered
  <2>1. \A r : Ahead(r) => Pending(r)
    BY DEF Ahead, Pending
  <2>2. WaitsAreCovered
    BY <1>1 DEF IndInv
  <2>3. SUFFICES ASSUME NEW t \in Threads
                 PROVE  /\ At(t, "readW") => Pending("read")
                        /\ At(t, "presenceW") => Pending("presence")
                        /\ At(t, "goneW") => Pending("idle")
                        /\ At(t, "vscRspW") => Pending("vsc")
                        /\ At(t, "vscNtfW") => Pending("vntf") \/ vtimer # "off"
                        /\ At(t, "ckWait") => sem["c"] \/ Pending("check")
                        /\ thr[t].pc \in {"wrFormat", "fmWait"} => sem["f"] \/ Pending("format")
                        /\ thr[t].pc \in {"wrWait", "wrSent"} => sem["w"] \/ Pending("write")
                        /\ At(t, "roWait") => sem["r"] \/ Pending("readonly")
    BY DEF WaitsAreAnswered
  <2> QED
    BY <2>1, <2>2 DEF WaitsAreCovered, At
<1> QED
  BY <1>1, Invariance, PTL

\* A write or a format that reports success was acknowledged by the tag during that operation,
\* and data that a transceive returns came from the tag it was sent to.
THEOREM SuccessAnswered == Spec => []SuccessIsAnswered
<1>1. IndInv => SuccessIsAnswered
  BY DEF IndInv
<1> QED
  BY <1>1, Invariance, PTL

=============================================================================
