------------------------------- MODULE LibNfc -------------------------------
(***************************************************************************)
(* The JNI over the older libnfc (nxp/jni).  Every native method follows    *)
(* one pattern: take the concurrency mutex, put a callback record with a    *)
(* semaphore on the stack, hand libnfc a request under the reentrance       *)
(* mutex, wait for the semaphore, look at the status, release.  libnfc      *)
(* completes a request by a deferred call that the "message" thread of      *)
(* nfc_jni_client_thread runs; the callback fills the record and posts.     *)
(*                                                                          *)
(* The threads are "svc", in which NfcService calls the manager and the     *)
(* secure element (one call at a time, under its own lock), "tag", which    *)
(* works on the target Java was told of last, and "sock", which uses the    *)
(* LLCP sockets and takes no mutex while it waits.  libnfc is external: it  *)
(* takes or refuses a request and completes what it took in any order.      *)
(***************************************************************************)
EXTENDS Integers, FiniteSets, Sequences, SequencesExt

CONSTANTS
  MaxFound,      \* targets that come near
  MaxCalls,      \* calls on targets and on LLCP sockets
  MaxFails,      \* requests libnfc refuses or answers with an error
  MaxClients,    \* LLCP connections the peer opens
  MaxServiceOps, \* calls of the service
  BadTimeouts,   \* whether an application asks for a timeout of 0
  Orderly        \* whether the service stops the stack only without a target

ASSUME BoundsAssumption ==
  /\ {MaxFound, MaxCalls, MaxFails, MaxClients, MaxServiceOps} \subseteq Nat
  /\ {BadTimeouts, Orderly} \subseteq BOOLEAN

VARIABLES
  lock,   \* the thread that holds concurrency_mutex, or "none"
  th,     \* per thread: its call, where it is, and its callback record
  jobs,   \* what libnfc will call back, and the message that ends its thread
  loop,   \* [alive: message threads, running: nat->running, late: history, was a
          \*  wait of the initialization given up before its answer came?]
  drv,    \* [conf: driverConfigured, stack: libnfc is up, on: the service's
          \*  view, ntf: the callback registered for targets, poll]
  tgt,    \* [near: libnfc's target, told: Java's, conn, flag, buf,
          \*  kinds: what the targets that came are, lost: history, is polling held
          \*  for a target nobody will drop?]
  llcp,   \* [link, clients: incoming_socket_head, woken: the condition variable]
  dead,   \* abort() was called
  cnt     \* budgets used

vars == <<lock, th, jobs, loop, drv, tgt, llcp, dead, cnt>>

Threads == {"svc", "tag", "sock"}
Ids == 0 .. MaxFound
Kinds == {"tag", "p2p"}

\* A thread outside every native method.  sem holds the requests whose
\* callbacks posted the semaphore of its record, ok the status they left.
Idle == [op |-> "none", at |-> "idle", req |-> "none", id |-> 0, n |-> 0,
         sem |-> <<>>, ok |-> FALSE]

\* What libnfc will call back: the request, the thread whose record it was
\* given and that thread's method, and which connection it is about.
Job(r, to, op) == [req |-> r, to |-> to, op |-> op, n |-> 0]

Init ==
  /\ lock = "none"
  /\ th = [t \in Threads |-> Idle]
  /\ jobs = {}
  /\ loop = [alive |-> 0, running |-> FALSE, late |-> FALSE]
  /\ drv = [conf |-> FALSE, stack |-> FALSE, on |-> FALSE, ntf |-> "none", poll |-> "off"]
  /\ tgt = [near |-> 0, told |-> 0, conn |-> 0, flag |-> FALSE, buf |-> 0,
          kinds |-> <<>>, lost |-> FALSE]
  /\ llcp = [link |-> "down", clients |-> <<>>, woken |-> FALSE]
  /\ dead = FALSE
  /\ cnt = [calls |-> 0, fails |-> 0, found |-> 0, clients |-> 0, svc |-> 0]

-----------------------------------------------------------------------------
(* The shared shape of the native methods. *)

\* A thread enters a method and asks for the concurrency mutex.
Enters(t, op) ==
  /\ ~dead
  /\ th[t] = Idle
  /\ th' = [th EXCEPT ![t] = [Idle EXCEPT !.op = op, !.at = "lock", !.id = tgt.told]]
  /\ UNCHANGED <<lock, jobs, loop, drv, tgt, llcp, dead>>

\* The mutex is free for a thread that waits for it; stage is the request it
\* had answered last ("none" at the beginning of the method).
Gets(t, op, stage) ==
  /\ ~dead
  /\ lock = "none"
  /\ th[t].op = op /\ th[t].at = "lock" /\ th[t].req = stage

\* sem_wait returns to a thread that had made this request.
Woken(t, op, r) ==
  /\ ~dead
  /\ th[t].op = op /\ th[t].at = "wait" /\ th[t].req = r /\ th[t].sem # <<>>

\* The record after one semaphore was consumed.
Consumed(f) == [f EXCEPT !.sem = IF @ = <<>> THEN @ ELSE Tail(@)]

\* What libnfc needs before it takes a request.
Accepts(r) ==
  CASE r = "init" -> drv.conf /\ ~drv.stack
    [] r = "load" -> drv.conf
    [] OTHER -> drv.stack

\* libnfc returns NFCSTATUS_PENDING: the thread waits, the callback is due.
Pending(t, r) ==
  /\ Accepts(r)
  /\ th' = [th EXCEPT ![t] = [Consumed(@) EXCEPT !.at = "wait", !.req = r]]
  /\ jobs' = jobs \cup {Job(r, t, th[t].op)}
  /\ UNCHANGED cnt

\* libnfc returns anything else.
Refuses(r) ==
  IF Accepts(r) THEN /\ cnt.fails < MaxFails
                     /\ cnt' = [cnt EXCEPT !.fails = @ + 1]
                ELSE UNCHANGED cnt

\* The method returns and gives the mutex back if it held it.
Returns(t) ==
  /\ th' = [th EXCEPT ![t] = Idle]
  /\ lock' = IF lock = t THEN "none" ELSE lock

\* A method of one request: taken, or refused and over.
OneRequest(t, op) ==
  /\ Gets(t, op, "none")
  /\ \/ Pending(t, op) /\ lock' = t
     \/ Refuses(op) /\ Returns(t) /\ UNCHANGED jobs
  /\ UNCHANGED <<loop, drv, tgt, llcp, dead>>

\* The answer came: the method looks at the status and returns.
Answered(t, op) == Woken(t, op, op) /\ Returns(t)

\* emergency_recovery: a software reset, and the process ends.
EmergencyRecovery ==
  /\ dead' = TRUE
  /\ UNCHANGED <<lock, th, jobs, loop, drv, tgt, llcp>>

-----------------------------------------------------------------------------
(* The message thread. *)

\* kill_client: a message for the thread that makes it leave its loop.
KillMessage == Job("kill", "loop", "kill")

\* The frame that holds a thread's record: its method, or within initialize
\* nfc_jni_download_locked ("update"), which has a record for each of its tries.
Frame(f) ==
  IF f.op = "initialize" /\ (f.req \in {"deinit", "load"} \/ (f.req = "init" /\ f.n > 0))
  THEN "update" ELSE f.op

\* A target announced to the record doOpenSecureElementConnection registered
\* for its secure element and waits on no more.
Astray == Job("found", "svc", "seOpen")

\* The frame a callback was given is one of a call that may look at it.
Finds(j) == j.to \in Threads /\ Frame(th[j.to]) = j.op /\ j # Astray

\* Posts, were the semaphore forgotten when the status is an error.
PostsSuccess(j, ok) ==
  IF Finds(j) /\ ok
  THEN [th EXCEPT ![j.to].sem = Append(@, j.req),
                  ![j.to].ok = IF th[j.to].req = "load" /\ j.req # "load" THEN @ ELSE ok]
  ELSE th

\* The callback of a request: status into the record, sem_post.  A late answer
\* of nfc_jni_download_locked does not reach the record of its download.
Posts(j, ok) ==
  IF Finds(j) THEN [th EXCEPT ![j.to].sem = Append(@, j.req),
                              ![j.to].ok = IF th[j.to].req = "load" /\ j.req # "load" THEN @ ELSE ok]
              ELSE th

\* What a callback, or libnfc before it, changes besides the record.
DriverAfter(j, ok) ==
  CASE j.req = "init" /\ ok -> [drv EXCEPT !.stack = TRUE]
    [] j.req = "deinit" /\ ok -> [drv EXCEPT !.stack = FALSE, !.poll = "off", !.ntf = "none"]
    [] j.req \in {"configure", "disconnect", "p2pDisconnect"} /\ ok ->
         [drv EXCEPT !.poll = "on"]
    [] j.req = "stop" /\ ok -> [drv EXCEPT !.poll = "off"]
    [] OTHER -> drv

\* checkndef allocates the buffer doRead fills, disconnect frees it; a
\* notification stores the handle, raises the flag and tells Java, unless it goes
\* to the record of a secure element.
TargetAfter(j, ok) ==
  CASE j = Astray -> [tgt EXCEPT !.lost = TRUE]
    [] j.req = "found" /\ j # Astray ->
         [tgt EXCEPT !.flag = TRUE, !.told = tgt.near, !.conn = 0]
    [] j.req = "linkUp" -> [tgt EXCEPT !.flag = TRUE]
    [] j.req = "linkDown" -> [tgt EXCEPT !.flag = FALSE]
    [] j.req = "checkNdef" /\ ok -> [tgt EXCEPT !.buf = th[j.to].id]
    [] j.req \in {"disconnect", "p2pDisconnect"} /\ ok ->
         [tgt EXCEPT !.near = 0, !.buf = IF j.req = "disconnect" THEN 0 ELSE @, !.lost = FALSE]
    [] j.req \in {"configure", "stop", "deinit"} /\ ok ->
         [tgt EXCEPT !.near = 0, !.lost = FALSE]
    [] OTHER -> tgt

\* LinkAfter, were the broadcast forgotten.
LinkAfterInSilence(j, ok) ==
  CASE j.req = "linkUp" -> [llcp EXCEPT !.link = "up"]
    [] j.req = "linkDown" -> [llcp EXCEPT !.link = "down", !.clients = <<>>]
    [] j.req = "listen" -> [llcp EXCEPT !.clients = <<j.n>> \o @]
    [] OTHER -> llcp

\* nfc_jni_llcp_transport_listen_socket_callback puts the newest first and
\* broadcasts; the end of the link empties the list.
LinkAfter(j, ok) ==
  CASE j.req = "linkUp" -> [llcp EXCEPT !.link = "up"]
    [] j.req = "linkDown" -> [llcp EXCEPT !.link = "down", !.clients = <<>>]
    [] j.req = "listen" -> [llcp EXCEPT !.clients = <<j.n>> \o @, !.woken = TRUE]
    [] OTHER -> llcp

\* Requests libnfc may complete with an error.  A disconnect resumes the
\* polling and a configuration is completed whatever the target does.
MayFail == {"init", "load", "mem", "connect", "checkNdef", "read", "write",
            "transceive", "presence", "format", "readonly", "p2pConnect", "p2pSend",
            "checkLlcp", "seWired", "seConnect", "sockConnect", "sockSend",
            "sockReceive", "accept"}

\* nfc_jni_client_thread takes a deferred call and runs the callback under
\* the reentrance mutex.
Callback(j, ok) ==
  /\ ~dead /\ loop.alive > 0
  /\ j \in jobs /\ j # KillMessage
  /\ ok \/ (j.req \in MayFail /\ cnt.fails < MaxFails)
  /\ jobs' = jobs \ {j}
  /\ th' = Posts(j, ok)
  /\ drv' = DriverAfter(j, ok)
  /\ tgt' = TargetAfter(j, ok)
  /\ llcp' = LinkAfter(j, ok)
  /\ cnt' = [cnt EXCEPT !.fails = @ + (IF ok THEN 0 ELSE 1)]
  /\ UNCHANGED <<lock, loop, dead>>

\* client_kill_deferred_call: running becomes FALSE and the loop ends.
LoopEnds ==
  /\ ~dead /\ loop.alive > 0 /\ KillMessage \in jobs
  /\ jobs' = jobs \ {KillMessage}
  /\ loop' = [loop EXCEPT !.alive = @ - 1, !.running = FALSE]
  /\ UNCHANGED <<lock, th, drv, tgt, llcp, dead, cnt>>

-----------------------------------------------------------------------------
(* Starting and stopping the stack. *)

\* nfc_jni_configure_driver: a queue and a new message thread.
Configured ==
  IF drv.conf THEN UNCHANGED <<drv, loop>>
  ELSE /\ drv' = [drv EXCEPT !.conf = TRUE]
       /\ loop' = [loop EXCEPT !.alive = @ + 1, !.running = TRUE]

\* nfc_jni_initialize gave up: the message thread is told to end and
\* driverConfigured stays as it is.
InitFails(t) ==
  /\ jobs' = jobs \cup {KillMessage}
  /\ Returns(t)
  /\ UNCHANGED <<drv, tgt>>

\* nfc_jni_initialize up to its first answer; a request that is not taken is
\* handled as one that fails.
Initialize(t) ==
  /\ Gets(t, "initialize", "none")
  /\ lock' = t
  /\ tgt' = [tgt EXCEPT !.flag = FALSE]
  /\ Configured
  /\ th' = [th EXCEPT ![t].at = "wait", ![t].req = "init", ![t].n = 0]
  /\ jobs' = jobs \cup {Job("init", t, "initialize")}
  /\ UNCHANGED <<llcp, dead, cnt>>

\* One more try of nfc_jni_download_locked, with a record of its own:
\* performDownload asks for the firmware to be loaded; after the third the
\* initialization has failed.
TriesDownload(t) ==
  IF th[t].n < 3 THEN
    /\ th' = [th EXCEPT ![t].sem = <<>>, ![t].at = "wait", ![t].req = "load", ![t].n = @ + 1]
    /\ jobs' = jobs \cup {Job("load", t, "update")}
    /\ UNCHANGED <<lock, drv, tgt>>
  ELSE InitFails(t)

\* The first request after phLibNfc_Mgt_Initialize succeeded: on with the
\* settings; or, at the first try, the firmware is out of date and the stack is
\* stopped to load another, which is waited for if libnfc refuses it, too.
AfterInit(t) ==
  \/ /\ drv.stack
     /\ th' = [th EXCEPT ![t].sem = <<>>, ![t].req = "mem"]
     /\ jobs' = jobs \cup {Job("mem", t, "initialize")}
     /\ UNCHANGED <<lock, drv, tgt, cnt>>
  \/ ~drv.stack /\ InitFails(t) /\ UNCHANGED cnt
  \/ /\ th[t].n = 0
     /\ th' = [th EXCEPT ![t].sem = <<>>, ![t].req = "deinit"]
     /\ \/ jobs' = jobs \cup {Job("deinit", t, "update")} /\ UNCHANGED cnt
        \/ Refuses("deinit") /\ UNCHANGED jobs
     /\ UNCHANGED <<lock, drv, tgt>>

\* Answer to phLibNfc_Mgt_Initialize.  A chip that does not start needs its
\* firmware loaded at once.
InitAnswered(t) ==
  /\ Woken(t, "initialize", "init")
  /\ IF th[t].ok THEN AfterInit(t) ELSE TriesDownload(t) /\ UNCHANGED cnt
  /\ UNCHANGED <<loop, llcp, dead>>

\* sem_timedwait of nfc_jni_download_locked: 5 s for the stack to stop, and
\* the download is tried whatever came of it.
StoppedForDownload(t) ==
  /\ ~dead /\ th[t].op = "initialize" /\ th[t].at = "wait" /\ th[t].req = "deinit"
  /\ TriesDownload(t)
  /\ loop' = [loop EXCEPT !.late = @ \/ Job("deinit", t, "update") \in jobs]
  /\ UNCHANGED <<llcp, dead, cnt>>

\* The firmware is loaded: phLibNfc_Mgt_Initialize again; or not, or libnfc does
\* not take the request: next try.
LoadAnswered(t) ==
  /\ ~dead /\ th[t].op = "initialize" /\ th[t].at = "wait" /\ th[t].req = "load"
  /\ Contains(th[t].sem, "load")
  /\ IF th[t].ok /\ Accepts("init")
     THEN /\ th' = [th EXCEPT ![t].sem = RemoveAt(@, CHOOSE i \in DOMAIN @ : @[i] = "load"),
                              ![t].req = "init"]
          /\ jobs' = jobs \cup {Job("init", t, "update")}
          /\ UNCHANGED <<lock, drv, tgt>>
     ELSE TriesDownload(t)
  /\ UNCHANGED <<loop, llcp, dead, cnt>>

\* SettingsAnswered, were the mode of the secure element not waited for.
SettingsNotAwaited(t, r, nextOne) ==
  /\ ~dead /\ th[t].op = "initialize" /\ th[t].at = "wait" /\ th[t].req = r
  /\ r = "mem" => th[t].sem # <<>>
  /\ \/ /\ r = "mem" => th[t].ok
        /\ Pending(t, nextOne)
        /\ UNCHANGED <<lock, drv, loop, tgt>>
     \/ /\ IF r = "mem" /\ ~th[t].ok THEN UNCHANGED cnt ELSE Refuses(nextOne)
        /\ InitFails(t) /\ UNCHANGED loop
  /\ UNCHANGED <<llcp, dead>>

\* The settings, one request each: EEPROM (its status counts), the mode of
\* the secure element and the LLCP parameters (theirs do not).
SettingsAnswered(t, r, nextOne) ==
  /\ Woken(t, "initialize", r)
  /\ \/ /\ r = "mem" => th[t].ok
        /\ Pending(t, nextOne)
        /\ UNCHANGED <<lock, drv, loop, tgt>>
     \/ /\ IF r = "mem" /\ ~th[t].ok THEN UNCHANGED cnt ELSE Refuses(nextOne)
        /\ InitFails(t) /\ UNCHANGED loop
  /\ UNCHANGED <<llcp, dead>>

\* The last answer: phLibNfc_SE_NtfRegister, and the stack is up.
Initialized(t) ==
  /\ Woken(t, "initialize", "llcpConfig")
  /\ Returns(t)
  /\ drv' = [drv EXCEPT !.on = TRUE]
  /\ UNCHANGED <<jobs, loop, tgt, llcp, dead, cnt>>

\* Unconfigured, were the queue kept.
UnconfiguredQueueKept ==
  /\ drv' = [drv EXCEPT !.conf = FALSE, !.on = FALSE]
  /\ UNCHANGED <<loop, jobs>>

\* nfc_jni_unconfigure_driver: the queue is gone with what is in it.  A thread
\* that was not told to end stays blocked on it for good.
Unconfigured ==
  /\ drv' = [drv EXCEPT !.conf = FALSE, !.on = FALSE]
  /\ loop' = [loop EXCEPT !.alive = 0]
  /\ jobs' = {}

\* doDownload of NativeNfcManager.checkFirmware, before the stack is first
\* initialized: the driver is configured for the download alone.
DoDownload(t) ==
  /\ Gets(t, "download", "none")
  /\ lock' = t
  /\ Configured
  /\ th' = [th EXCEPT ![t].at = "wait", ![t].req = "load"]
  /\ jobs' = jobs \cup {Job("load", t, "download")}
  /\ UNCHANGED <<tgt, llcp, dead, cnt>>

Downloaded(t) ==
  /\ Woken(t, "download", "load")
  /\ Unconfigured
  /\ Returns(t)
  /\ UNCHANGED <<tgt, llcp, dead, cnt>>

\* doDeinitialize: the stack is asked to stop.
Deinitialize(t) ==
  /\ Gets(t, "deinitialize", "none")
  /\ \/ Pending(t, "deinit") /\ lock' = t /\ UNCHANGED <<loop, drv, tgt, llcp, dead>>
     \/ Refuses("deinit") /\ EmergencyRecovery

\* It stopped within 5 s: the message thread is told to end.  If it did not, the
\* process is aborted instead.
Deinitialized(t) ==
  \/ /\ Woken(t, "deinitialize", "deinit")
     /\ th' = [th EXCEPT ![t].at = "killing"]
     /\ jobs' = jobs \cup {KillMessage}
     /\ UNCHANGED <<lock, loop, drv, tgt, llcp, dead, cnt>>
  \/ /\ ~dead
     /\ th[t].op = "deinitialize" /\ th[t].at = "wait" /\ th[t].sem = <<>>
     /\ EmergencyRecovery
     /\ UNCHANGED cnt

\* The driver is unconfigured, whether or not the thread has read the message
\* kill_client posted just before.
DriverGone(t) ==
  /\ ~dead /\ th[t].op = "deinitialize" /\ th[t].at = "killing"
  /\ Unconfigured
  /\ Returns(t)
  /\ UNCHANGED <<tgt, llcp, dead, cnt>>

-----------------------------------------------------------------------------
(* Discovery. *)

\* nfc_jni_start_discovery_locked in a method that holds the mutex: the flag
\* falls and the polling is configured.  A BUSY answer is tried again three
\* times; anything else than PENDING then aborts the process.
StartsDiscovery(t) ==
  \/ /\ Pending(t, "configure")
     /\ tgt' = [tgt EXCEPT !.flag = FALSE]
     /\ UNCHANGED <<loop, llcp, dead>>
  \/ /\ Refuses("configure")
     /\ dead' = TRUE
     /\ UNCHANGED <<th, jobs, loop, tgt, llcp>>

\* enableDiscovery registers for targets and starts the polling.
EnableDiscovery(t) ==
  /\ Gets(t, "enableDiscovery", "none")
  /\ drv' = [drv EXCEPT !.ntf = IF drv.stack THEN "nat" ELSE @]
  /\ IF drv.stack THEN lock' = t /\ StartsDiscovery(t)
                  ELSE Returns(t) /\ UNCHANGED <<jobs, loop, tgt, llcp, dead, cnt>>

\* doEnableReaderMode and doDisableReaderMode set what to poll for and start.
SetReaderMode(t) ==
  /\ Gets(t, "readerMode", "none")
  /\ lock' = t
  /\ StartsDiscovery(t)
  /\ UNCHANGED drv

\* disableDiscovery: nfc_jni_stop_discovery_locked.
DisableDiscovery(t) ==
  /\ Gets(t, "disableDiscovery", "none")
  /\ \/ Pending(t, "stop") /\ lock' = t /\ UNCHANGED dead
     \/ Refuses("stop") /\ dead' = TRUE /\ UNCHANGED <<lock, th, jobs>>
  /\ UNCHANGED <<loop, drv, tgt, llcp>>

\* The polling is as asked; the status is not looked at.
DiscoveryAnswered(t, op, r) ==
  /\ Woken(t, op, r)
  /\ Returns(t)
  /\ UNCHANGED <<jobs, loop, drv, tgt, llcp, dead, cnt>>

\* doSetTimeout, doGetTimeout and doResetTimeouts change the chip's timeouts
\* under the mutex; a timeout that is not positive returns before it is
\* given back.
SetTimeout(t) ==
  /\ Gets(t, "timeout", "none")
  /\ \/ Returns(t)
     \/ BadTimeouts /\ lock' = t /\ th' = [th EXCEPT ![t] = Idle]
  /\ UNCHANGED <<jobs, loop, drv, tgt, llcp, dead, cnt>>

\* libnfc finds a target and stops polling.  The callback registered is
\* nfc_jni_Discovery_notification_callback or, once a secure element was opened
\* and until targets are registered for again, that of the secure element.
TargetFound ==
  /\ ~dead /\ drv.stack /\ drv.poll = "on" /\ drv.ntf # "none"
  /\ cnt.found < MaxFound
  /\ cnt' = [cnt EXCEPT !.found = @ + 1]
  /\ \E kind \in Kinds :
       tgt' = [tgt EXCEPT !.near = cnt.found + 1, !.kinds = Append(@, kind)]
  /\ drv' = [drv EXCEPT !.poll = "held"]
  /\ jobs' = jobs \cup {IF drv.ntf = "nat" THEN Job("found", "manager", "ntf") ELSE Astray}
  /\ UNCHANGED <<lock, th, loop, llcp, dead>>

-----------------------------------------------------------------------------
(* The tag Java was told of. *)

\* Methods of NativeNfcTag and NativeP2pDevice of one request whose result
\* nothing else depends on.
PlainTagOps == {"presence", "transceive", "write", "format", "readonly"}

DoTransceive(t) == OneRequest(t, "transceive")
DoPresenceCheck(t) == OneRequest(t, "presence")
DoWrite(t) == OneRequest(t, "write")
DoNdefFormat(t) == OneRequest(t, "format")
DoMakeReadonly(t) == OneRequest(t, "readonly")

\* doCheckNdef: its callback allocates the buffer for the message.
DoCheckNdef(t) == OneRequest(t, "checkNdef")

\* doRead gives libnfc the buffer of the last check.
DoRead(t) == OneRequest(t, "read")

\* doConnect and doHandleReconnect (doReconnect calls doConnect).
DoConnect(t) == OneRequest(t, "connect")

\* Their answers; connected, Java keeps the handle.
TagAnswered(t, op) ==
  /\ op \in PlainTagOps \cup {"checkNdef", "read", "connect"}
  /\ Answered(t, op)
  /\ tgt' = IF op = "connect" /\ th[t].ok THEN [tgt EXCEPT !.conn = th[t].id] ELSE tgt
  /\ UNCHANGED <<jobs, loop, drv, llcp, dead, cnt>>

\* Java drops the object it called the method on, unless it was told of
\* another target meanwhile; device_connected_flag falls in either case.
Forgotten(id) ==
  IF tgt.told = id THEN [tgt EXCEPT !.told = 0, !.conn = 0, !.flag = FALSE]
                   ELSE [tgt EXCEPT !.flag = FALSE]

\* nfc_jni_restart_discovery_locked from a method that holds the mutex; with
\* the stack down libnfc does not take it and the process is aborted.
ResumesDiscovery(t) ==
  IF drv.stack
  THEN /\ lock' = t
       /\ th' = [th EXCEPT ![t] = [Consumed(@) EXCEPT !.at = "wait", !.req = "configure"]]
       /\ jobs' = jobs \cup {Job("configure", t, th[t].op)}
       /\ tgt' = [tgt EXCEPT !.flag = FALSE]
       /\ UNCHANGED <<loop, llcp, dead>>
  ELSE EmergencyRecovery \* it was the last chance

\* libnfc says the target is not connected: that is taken for the end of it, and
\* a polling that is held stays so.
NotConnected(t, op) ==
  /\ Accepts(op) /\ Refuses(op)
  /\ Returns(t)
  /\ tgt' = [Forgotten(th[t].id) EXCEPT !.lost = @ \/ drv.poll = "held"]
  /\ UNCHANGED <<jobs, loop, llcp, dead>>

\* DoDisconnect, were the polling not resumed for a tag that was never connected.
DoDisconnectOnly(t, op) ==
  /\ op \in {"disconnect", "p2pDisconnect"}
  /\ Gets(t, op, "none")
  /\ IF op = "disconnect" /\ tgt.conn = 0
     THEN Returns(t) /\ tgt' = Forgotten(th[t].id) /\ UNCHANGED <<cnt, jobs, loop, llcp, dead>>
     ELSE \/ Pending(t, op) /\ lock' = t /\ UNCHANGED <<loop, tgt, llcp, dead>>
          \/ NotConnected(t, op)
          \/ Refuses(op) /\ ResumesDiscovery(t)
  /\ UNCHANGED drv

\* doDisconnect of a tag or a P2P device.  A target that was never connected
\* only resumes the polling; so does a disconnect that libnfc does not take,
\* unless it says that the target is not connected.
DoDisconnect(t, op) ==
  /\ op \in {"disconnect", "p2pDisconnect"}
  /\ Gets(t, op, "none")
  /\ IF op = "disconnect" /\ tgt.conn = 0
     THEN UNCHANGED cnt /\ ResumesDiscovery(t)
     ELSE \/ Pending(t, op) /\ lock' = t /\ UNCHANGED <<loop, tgt, llcp, dead>>
          \/ NotConnected(t, op)
          \/ Refuses(op) /\ ResumesDiscovery(t)
  /\ UNCHANGED drv

\* doDisconnect and the P2P doDisconnect after their answer.
Disconnected(t, op, r) ==
  /\ Woken(t, op, r)
  /\ Returns(t)
  /\ tgt' = Forgotten(th[t].id)
  /\ UNCHANGED <<jobs, loop, drv, llcp, dead, cnt>>

-----------------------------------------------------------------------------
(* The peer Java was told of, and the LLCP link. *)

\* NativeP2pDevice.doConnect; a connect that fails resumes the polling.
P2pConnect(t) ==
  /\ Gets(t, "p2pConnect", "none")
  /\ \/ Pending(t, "p2pConnect") /\ lock' = t /\ UNCHANGED <<loop, tgt, llcp, dead>>
     \/ Refuses("p2pConnect") /\ ResumesDiscovery(t)
  /\ UNCHANGED drv

P2pConnected(t) ==
  /\ Woken(t, "p2pConnect", "p2pConnect")
  /\ IF th[t].ok
     THEN /\ Returns(t)
          /\ tgt' = [tgt EXCEPT !.conn = th[t].id]
          /\ UNCHANGED <<jobs, loop, llcp, dead>>
     ELSE ResumesDiscovery(t)
  /\ UNCHANGED <<drv, cnt>>

\* doCheckLlcp: its record is on the heap and stays for the link's status.
CheckLlcp(t) == OneRequest(t, "checkLlcp")

\* doActivateLlcp after it, in the same step of the service.
LlcpChecked(t) ==
  /\ Answered(t, "checkLlcp")
  /\ jobs' = IF th[t].ok /\ drv.stack /\ llcp.link = "down" /\ tgt.near = th[t].id
             THEN jobs \cup {Job("linkUp", "manager", "llcp")}
             ELSE jobs
  /\ UNCHANGED <<loop, drv, tgt, llcp, dead, cnt>>

\* The link goes down with the peer (nfc_jni_llcp_linkStatus_callback).
LinkLost ==
  /\ ~dead /\ llcp.link = "up"
  /\ jobs' = jobs \cup {Job("linkDown", "manager", "llcp")}
  /\ llcp' = [llcp EXCEPT !.link = "falling"]
  /\ UNCHANGED <<lock, th, loop, drv, tgt, dead, cnt>>

\* The peer connects to a service socket.
ClientConnects ==
  /\ ~dead /\ llcp.link = "up" /\ cnt.clients < MaxClients
  /\ cnt' = [cnt EXCEPT !.clients = @ + 1]
  /\ jobs' = jobs \cup {[Job("listen", "manager", "ntf") EXCEPT !.n = cnt.clients + 1]}
  /\ UNCHANGED <<lock, th, loop, drv, tgt, llcp, dead>>

-----------------------------------------------------------------------------
(* The LLCP sockets: no mutex is held while a socket waits. *)

SocketOps == {"sockConnect", "sockSend", "sockReceive"}

\* A request of a socket: its record is on the stack of "sock".
SocketRequest(op) ==
  /\ ~dead /\ th["sock"] = Idle /\ llcp.link = "up"
  /\ cnt.calls < MaxCalls
  /\ \/ /\ th' = [th EXCEPT !["sock"] = [Idle EXCEPT !.op = op, !.at = "wait", !.req = op]]
        /\ jobs' = jobs \cup {Job(op, "sock", op)}
        /\ cnt' = [cnt EXCEPT !.calls = @ + 1]
     \/ Refuses(op) /\ UNCHANGED <<th, jobs>>
  /\ UNCHANGED <<lock, loop, drv, tgt, llcp, dead>>

\* doConnect and doConnectBy; doSend and doSendTo; doReceive and doReceiveFrom.
SocketConnects == SocketRequest("sockConnect")
SocketSends == SocketRequest("sockSend")
SocketReceives == SocketRequest("sockReceive")

SocketAnswered(op) ==
  /\ op \in SocketOps
  /\ Answered("sock", op)
  /\ UNCHANGED <<jobs, loop, drv, tgt, llcp, dead, cnt>>

\* doAccept enters its loop; before the link is up it would only wait.
DoAccept ==
  /\ ~dead /\ th["sock"] = Idle /\ llcp.link = "up"
  /\ th' = [th EXCEPT !["sock"] = [Idle EXCEPT !.op = "accept", !.at = "look"]]
  /\ UNCHANGED <<lock, jobs, loop, drv, tgt, llcp, dead, cnt>>

\* getIncomingSocket finds nothing: pthread_cond_wait.  Broadcasts from
\* before do not count.
NobodyWaits ==
  /\ ~dead /\ th["sock"].op = "accept" /\ th["sock"].at = "look"
  /\ llcp.clients = <<>>
  /\ th' = [th EXCEPT !["sock"].at = "cond"]
  /\ llcp' = [llcp EXCEPT !.woken = FALSE]
  /\ UNCHANGED <<lock, jobs, loop, drv, tgt, dead, cnt>>

\* The broadcast lets it look again.
AcceptWakes ==
  /\ ~dead /\ th["sock"].op = "accept" /\ th["sock"].at = "cond" /\ llcp.woken
  /\ th' = [th EXCEPT !["sock"].at = "look"]
  /\ UNCHANGED <<lock, jobs, loop, drv, tgt, llcp, dead, cnt>>

\* The newest connection is taken off the list and accepted; if libnfc does
\* not take the accept the loop looks for the next one.
AcceptsClient ==
  /\ ~dead /\ th["sock"].op = "accept" /\ th["sock"].at = "look"
  /\ llcp.clients # <<>>
  /\ llcp' = [llcp EXCEPT !.clients = Tail(@)]
  /\ \/ Pending("sock", "accept")
     \/ Refuses("accept") /\ UNCHANGED <<th, jobs>>
  /\ UNCHANGED <<lock, loop, drv, tgt, dead>>

\* Accepted: the method returns the new socket; otherwise it goes on looking.
Accepted ==
  /\ Woken("sock", "accept", "accept")
  /\ th' = [th EXCEPT !["sock"] =
              IF @.ok THEN Idle ELSE [Consumed(@) EXCEPT !.at = "look"]]
  /\ UNCHANGED <<lock, jobs, loop, drv, tgt, llcp, dead, cnt>>

-----------------------------------------------------------------------------
(* The secure element. *)

\* doOpenSecureElementConnection and doDisconnect give the mutex back between
\* some of their requests and take it again.  SeSteps says, for each request,
\* the one after its answer and whether the mutex is given back before it.
SeOpenSteps ==
  [seField |-> <<"seWired", FALSE>>, seFound |-> <<"seConnect", TRUE>>,
   seConnect |-> <<"seRead", TRUE>>, seRead |-> <<"seWrite", FALSE>>]
SeCloseSteps ==
  [seRelease |-> <<"seRead", TRUE>>, seRead |-> <<"seWrite", FALSE>>]
StepsOf(op) == IF op = "seOpen" THEN SeOpenSteps ELSE SeCloseSteps

\* The first request.  A connected device refuses the secure element.
SeBegins(t, op) ==
  /\ op \in {"seOpen", "seClose"}
  /\ Gets(t, op, "none")
  /\ IF op = "seOpen" /\ tgt.flag THEN Returns(t) /\ UNCHANGED <<jobs, cnt>>
     ELSE LET r == IF op = "seOpen" THEN "seField" ELSE "seRelease" IN
          \/ Pending(t, r) /\ lock' = t
          \/ Refuses(r) /\ Returns(t) /\ UNCHANGED jobs
  /\ UNCHANGED <<loop, drv, tgt, llcp, dead>>

\* The next request of this method, at once or after the mutex is taken again.
\* Opening reads the register at the end without looking whether the request
\* was taken: it then waits for good, with the mutex.
SeNext(t, op, r) ==
  /\ \/ Pending(t, r) /\ lock' = t
     \/ /\ Refuses(r)
        /\ IF op = "seOpen" /\ r = "seRead"
           THEN /\ lock' = t
                /\ th' = [th EXCEPT ![t] = [Consumed(@) EXCEPT !.at = "wait", !.req = r]]
           ELSE Returns(t)
        /\ UNCHANGED jobs
  /\ UNCHANGED <<loop, tgt, llcp, dead>>

\* A field outside may make the first answer the last.  Before the wired mode
\* is asked for, the notifications of targets are directed to this call.
SeAnswered(t, op, r) ==
  /\ r \in DOMAIN StepsOf(op)
  /\ Woken(t, op, r)
  /\ LET s == StepsOf(op)[r] IN
     \/ /\ th[t].ok /\ ~s[2]
        /\ SeNext(t, op, s[1])
        /\ drv' = IF s[1] = "seWired" THEN [drv EXCEPT !.ntf = "se", !.poll = "off"] ELSE drv
     \/ /\ th[t].ok /\ s[2]
        /\ th' = [th EXCEPT ![t] = [Consumed(@) EXCEPT !.at = "lock"]]
        /\ lock' = "none"
        /\ UNCHANGED <<jobs, loop, drv, tgt, llcp, dead, cnt>>
     \/ /\ ~th[t].ok \/ r = "seField"
        /\ Returns(t)
        /\ UNCHANGED <<jobs, loop, drv, tgt, llcp, dead, cnt>>

SeGoesOn(t, op, r) ==
  /\ r \in DOMAIN StepsOf(op)
  /\ Gets(t, op, r)
  /\ SeNext(t, op, StepsOf(op)[r][1])
  /\ UNCHANGED drv

\* The secure element is in wired mode: libnfc announces it as a target to
\* the second record of the call, which waits for that.
SeWired(t) ==
  /\ Woken(t, "seOpen", "seWired")
  /\ IF th[t].ok
     THEN /\ th' = [th EXCEPT ![t] = [Consumed(@) EXCEPT !.req = "seFound"]]
          /\ jobs' = jobs \cup {Job("seFound", t, "seOpen")}
          /\ UNCHANGED lock
     ELSE Returns(t) /\ UNCHANGED jobs
  /\ UNCHANGED <<loop, drv, tgt, llcp, dead, cnt>>

\* The last register is written and the method returns.
SeDone(t, op) ==
  /\ op \in {"seOpen", "seClose"}
  /\ Woken(t, op, "seWrite")
  /\ Returns(t)
  /\ UNCHANGED <<jobs, loop, drv, tgt, llcp, dead, cnt>>

\* doTransceive of the secure element.
SeTransceive(t) == OneRequest(t, "seTransceive")

\* doSelectSecureElement and doDeselectSecureElement: targets are told to the
\* manager again, then the mode of the element is set.
SetsMode(t, op) ==
  /\ Gets(t, op, "none")
  /\ drv' = [drv EXCEPT !.ntf = IF drv.stack THEN "nat" ELSE @]
  /\ \/ Pending(t, op) /\ lock' = t
     \/ Refuses(op) /\ Returns(t) /\ UNCHANGED jobs
  /\ UNCHANGED <<loop, tgt, llcp, dead>>

SeSelect(t) == SetsMode(t, "seOn")
SeDeselect(t) == SetsMode(t, "seOff")

SeRequestAnswered(t, op) ==
  /\ op \in {"seTransceive", "seOn", "seOff"}
  /\ Answered(t, op)
  /\ UNCHANGED <<jobs, loop, drv, tgt, llcp, dead, cnt>>

-----------------------------------------------------------------------------
(* What the service, the holder of the target and the system call. *)

\* One call at a time, and each only where NfcService makes it.  The message
\* of a failed initialization is read before the user tries again.
ServiceCalls(op) ==
  /\ cnt.svc < MaxServiceOps
  /\ CASE op = "initialize" -> ~drv.on /\ KillMessage \notin jobs
       [] op = "download" -> ~drv.conf
       [] op = "deinitialize" -> drv.on /\ (Orderly => tgt.told = 0 /\ (tgt.near = 0 \/ tgt.lost))
       [] op \in {"seClose", "seTransceive"} -> drv.on /\ drv.ntf = "se"
       [] OTHER -> drv.on
  /\ Enters("svc", op)
  /\ cnt' = [cnt EXCEPT !.svc = @ + 1]

ServiceOps == {"initialize", "download", "deinitialize", "enableDiscovery",
               "readerMode", "disableDiscovery", "timeout", "seOpen", "seClose",
               "seTransceive", "seOn", "seOff"}

\* A tag is connected before it is used; it is read after a check.  A peer is
\* connected or not, then its link is checked and activated.
TagCalls(op) ==
  /\ cnt.calls < MaxCalls
  /\ tgt.told # 0
  /\ CASE tgt.kinds[tgt.told] = "tag" ->
            \/ tgt.conn = 0 /\ op = "connect"
            \/ tgt.conn # 0 /\ op \in PlainTagOps \cup {"checkNdef"}
            \/ tgt.conn # 0 /\ op = "read" /\ tgt.buf = tgt.told
       [] OTHER -> op \in {"p2pConnect", "checkLlcp"}
  /\ Enters("tag", op)
  /\ cnt' = [cnt EXCEPT !.calls = @ + IF op = "connect" THEN 0 ELSE 1]

\* The presence check, the end of the link or the next target ends it.
TagIsDropped ==
  /\ tgt.told # 0
  /\ Enters("tag", IF tgt.kinds[tgt.told] = "tag" THEN "disconnect" ELSE "p2pDisconnect")
  /\ UNCHANGED cnt

\* WatchDogThread of NfcService: a call of the service that hangs ends in
\* doAbort.
Hangs ==
  /\ ~dead /\ th["svc"].at \in {"lock", "wait"}
  /\ loop.alive = 0 \/ (lock # "none" /\ th[lock] = Idle)

WatchDogBites ==
  /\ Hangs
  /\ EmergencyRecovery
  /\ UNCHANGED cnt

\* The process is started again.
Restarts ==
  /\ dead
  /\ lock' = "none" /\ dead' = FALSE
  /\ th' = [t \in Threads |-> Idle]
  /\ jobs' = {}
  /\ loop' = [alive |-> 0, running |-> FALSE, late |-> FALSE]
  /\ drv' = [conf |-> FALSE, stack |-> FALSE, on |-> FALSE, ntf |-> "none", poll |-> "off"]
  /\ tgt' = [tgt EXCEPT !.near = 0, !.told = 0, !.conn = 0, !.flag = FALSE, !.buf = 0,
                          !.lost = FALSE]
  /\ llcp' = [link |-> "down", clients |-> <<>>, woken |-> FALSE]
  /\ UNCHANGED cnt

\* The steps a thread takes inside a native method.
Steps(t) ==
  IF t = "svc" THEN
    \/ Initialize(t) \/ InitAnswered(t) \/ StoppedForDownload(t) \/ LoadAnswered(t)
    \/ SettingsAnswered(t, "mem", "seOff") \/ SettingsAnswered(t, "seOff", "llcpConfig")
    \/ Initialized(t) \/ DoDownload(t) \/ Downloaded(t)
    \/ Deinitialize(t) \/ Deinitialized(t) \/ DriverGone(t)
    \/ EnableDiscovery(t) \/ SetReaderMode(t) \/ DisableDiscovery(t)
    \/ DiscoveryAnswered(t, "enableDiscovery", "configure")
    \/ DiscoveryAnswered(t, "readerMode", "configure")
    \/ DiscoveryAnswered(t, "disableDiscovery", "stop")
    \/ SetTimeout(t) \/ SeWired(t)
    \/ \E op \in {"seOpen", "seClose"} :
         \/ SeBegins(t, op) \/ SeDone(t, op)
         \/ \E r \in {"seField", "seFound", "seConnect", "seRead", "seRelease"} :
              SeAnswered(t, op, r) \/ SeGoesOn(t, op, r)
    \/ SeTransceive(t) \/ SeSelect(t) \/ SeDeselect(t)
    \/ \E op \in {"seTransceive", "seOn", "seOff"} : SeRequestAnswered(t, op)
  ELSE
    \/ DoTransceive(t) \/ DoPresenceCheck(t) \/ DoWrite(t)
    \/ DoNdefFormat(t) \/ DoMakeReadonly(t)
    \/ DoCheckNdef(t) \/ DoRead(t) \/ DoConnect(t)
    \/ \E op \in PlainTagOps \cup {"checkNdef", "read", "connect"} : TagAnswered(t, op)
    \/ \E op \in {"disconnect", "p2pDisconnect"} :
         \/ DoDisconnect(t, op)
         \/ \E r \in {op, "configure"} : Disconnected(t, op, r)
    \/ P2pConnect(t) \/ P2pConnected(t)
    \/ DiscoveryAnswered(t, "p2pConnect", "configure")
    \/ CheckLlcp(t) \/ LlcpChecked(t)

SocketSteps ==
  \/ SocketConnects \/ SocketSends \/ SocketReceives
  \/ \E op \in SocketOps : SocketAnswered(op)
  \/ DoAccept \/ NobodyWaits \/ AcceptWakes \/ AcceptsClient \/ Accepted

LoopSteps == LoopEnds \/ \E j \in jobs, ok \in BOOLEAN : Callback(j, ok)

Next ==
  \/ \E op \in ServiceOps : ServiceCalls(op)
  \/ \E op \in PlainTagOps \cup {"connect", "checkNdef", "read", "p2pConnect", "checkLlcp"} :
       TagCalls(op)
  \/ TagIsDropped
  \/ Steps("svc") \/ Steps("tag")
  \/ SocketSteps
  \/ LoopSteps
  \/ TargetFound \/ LinkLost \/ ClientConnects
  \/ WatchDogBites \/ Restarts

Spec == Init /\ [][Next]_vars

\* Threads run, waits with a limit end, the message thread reads its queue, the watchdog and the
\* system do their part, and a target is dropped in the end.  Nobody can take
\* steps for ever without waiting for another, so that for each of them weak
\* fairness is not to be ready for ever.
Ready(t) ==
  /\ ~dead
  /\ \/ th[t].at = "lock" /\ lock = "none"
     \/ th[t].at = "wait" /\ (th[t].sem # <<>> \/ th[t].req = "deinit")
     \/ th[t].at = "killing"
     \/ th[t].at = "look"
     \/ th[t].at = "cond" /\ llcp.woken

FairSpec ==
  /\ Spec
  /\ \A t \in Threads : []<>~Ready(t)
  /\ []<>(dead \/ loop.alive = 0 \/ jobs = {})
  /\ []<>(dead \/ tgt.told = 0 \/ th["tag"] # Idle)
  /\ []<>~Hangs
  /\ []<>~dead

-----------------------------------------------------------------------------
(* Properties. *)

\* The native methods, and what they ask libnfc for: most for what they are
\* named after.
TagMethods == PlainTagOps \cup {"connect", "checkNdef", "read", "disconnect"}
PeerMethods == {"p2pConnect", "p2pDisconnect", "checkLlcp"}
SocketMethods == SocketOps \cup {"accept"}
Methods == ServiceOps \cup TagMethods \cup PeerMethods \cup SocketMethods

Requests ==
  TagMethods \cup PeerMethods \cup SocketMethods
    \cup {"init", "found", "load", "mem", "llcpConfig", "deinit", "configure", "stop"}
    \cup {"seOn", "seOff", "seTransceive", "seField", "seWired", "seFound", "seConnect",
          "seRead", "seWrite", "seRelease"}

Calls ==
  [op : Methods \cup {"none"}, at : {"idle", "lock", "wait", "killing", "look", "cond"},
   req : Requests \cup {"none"}, id : Ids, n : 0 .. 3, sem : Seq(Requests), ok : BOOLEAN]

\* Answers to a thread, news for the manager, and the end of the loop.
Answers == [req : Requests, to : Threads, op : Methods \cup {"update"}, n : {0}]
News == [req : {"found", "linkUp", "linkDown", "listen"}, to : {"manager"},
         op : {"llcp", "ntf"}, n : Nat]
Jobs == Answers \cup News \cup {KillMessage}

TypeOK ==
  /\ lock \in Threads \cup {"none"}
  /\ th \in [Threads -> Calls]
  /\ jobs \subseteq Jobs
  /\ loop \in [alive : Nat, running : BOOLEAN, late : BOOLEAN]
  /\ drv \in [conf : BOOLEAN, stack : BOOLEAN, on : BOOLEAN, ntf : {"none", "nat", "se"},
              poll : {"off", "on", "held"}]
  /\ tgt \in [near : Ids, told : Ids, conn : Ids, flag : BOOLEAN, buf : Ids, kinds : Seq(Kinds),
              lost : BOOLEAN]
  /\ llcp \in [link : {"down", "up", "falling"}, clients : Seq(Nat), woken : BOOLEAN]
  /\ dead \in BOOLEAN
  /\ cnt \in [calls : Nat, fails : Nat, found : Ids, clients : Nat, svc : Nat]

\* A callback whose record is gone, or is another call's by then: that of a
\* secure element once it is open, and once a download did not await the end of
\* the stack, those of nfc_jni_download_locked.
Stray(j) == j = Astray \/ (loop.late /\ j.op = "update")
Disturbed(t) == loop.late /\ Frame(th[t]) = "update"

\* Apart from those two cases, a semaphore is posted by the callback of the
\* request its thread waits for: no callback fills a record that is gone, none is
\* due twice, and no answer is left over for the next request of a method that
\* makes several (initialize makes up to nine with one record).
CallbacksFindTheirCall ==
  /\ \A j \in jobs : j.to \in Threads /\ ~Stray(j) =>
       /\ Finds(j) /\ th[j.to].at = "wait" /\ th[j.to].req = j.req
       /\ th[j.to].sem = <<>>
  /\ \A t \in Threads : ~Disturbed(t) => th[t].sem \in {<<>>, <<th[t].req>>}

\* Requests made under concurrency_mutex go to libnfc one at a time, from the
\* thread that holds it.
OneAtATime ==
  \A j \in jobs : j.to \in {"svc", "tag"} /\ ~Stray(j) => lock = j.to

\* While the stack is initialized and not being taken down, exactly one
\* message thread serves its queue: callbacks run, and in their order.
OneLoopServesTheStack ==
  drv.on /\ ~dead /\ th["svc"].at # "killing" => loop.alive = 1 /\ loop.running

\* A thread that waits for an answer, or for the message thread to end, holds
\* the concurrency mutex; the socket's thread takes none.
WaitersHoldTheLock ==
  \A t \in {"svc", "tag"} : th[t].at \in {"wait", "killing"} => lock = t

\* The message thread lives on a configured driver.  It is told to end when an
\* initialization gave up or once the stack has stopped, never while the stack
\* is started; the stack is up only with the thread there.
LoopFollowsTheService ==
  /\ loop.alive \in {0, 1} /\ (loop.alive = 1 => loop.running /\ drv.conf)
  /\ KillMessage \in jobs =>
       /\ drv.conf /\ th["svc"].op \notin {"initialize", "download"}
       /\ drv.on => th["svc"].at = "killing"
  /\ drv.on =>
       /\ drv.conf /\ th["svc"].op \notin {"initialize", "download"}
       /\ th["svc"].at # "killing" => loop.alive = 1
  /\ th["svc"].at = "killing" => th["svc"].op = "deinitialize"
  /\ th["svc"].op = "deinitialize" => drv.conf
  /\ th["svc"].op = "initialize" =>
       /\ th["svc"].at = "wait" => drv.conf
       /\ th["svc"].sem # <<>> => loop.alive = 1
       /\ th["svc"].req = "load" => th["svc"].n > 0

\* What the callbacks and the mutex keep: a semaphore that was posted, or that a
\* late answer may post, has a thread waiting for it.
AnswersAreAwaited ==
  /\ CallbacksFindTheirCall /\ OneAtATime
  /\ \A t \in Threads :
       th[t].sem # <<>> \/ Frame(th[t]) = "update" => th[t].at \in {"wait", "killing"}

\* The invariant the steps keep: one request under the mutex, one message
\* thread for the answers.
IndInv ==
  TypeOK /\ WaitersHoldTheLock /\ LoopFollowsTheService /\ AnswersAreAwaited
  /\ OneLoopServesTheStack

\* doOpenSecureElementConnection waits for a request that was not taken
\* (com_android_nfc_NativeNfcSecureElement.cpp:405).
SeOpenHangs ==
  /\ th["svc"].op = "seOpen" /\ th["svc"].at = "wait" /\ th["svc"].req = "seRead"
  /\ th["svc"].sem = <<>> /\ ~\E j \in jobs : j.to = "svc"

\* Every native method of the service and of the holder of a target returns,
\* or the process is started again.
MethodsReturn ==
  \A t \in {"svc", "tag"} : th[t].at # "idle" ~> th[t].at = "idle" \/ SeOpenHangs

\* A connection of the peer that is in the list while a thread accepts is
\* taken off it or goes with the link: no broadcast is missed.
ClientsAreAccepted ==
  llcp.clients # <<>> /\ th["sock"].op = "accept"
    ~> llcp.clients = <<>> \/ th["sock"].op # "accept"

\* After a target is gone the chip polls again, unless the service directs it
\* elsewhere: the disconnect resumes the polling whatever libnfc says.  Two
\* cases leave it held (lost): a disconnect answered with "not connected", and a
\* target that was announced to a secure element's record and to nobody else.
PollingComesBack ==
  drv.poll = "held" ~> drv.poll # "held" \/ tgt.lost \/ SeOpenHangs
=============================================================================
