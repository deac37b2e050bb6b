----------------------------- MODULE NativeTag -----------------------------
(***************************************************************************)
(* The JNI operations on a tag (NativeNfcTag.cpp) over the state of the    *)
(* activated tag (NfcTag.cpp).  The service thread runs one operation at a *)
(* time; the presence-check watchdog of NativeNfcTag.java checks between   *)
(* operations and disconnects when the tag is gone, which an operation can *)
(* overlap; the NFA task answers requests and runs nfaConnectionCallback.  *)
(* One action is the code between two waits; a handler of the callback is  *)
(* one action.  A condition variable wakes only who already waits on it.   *)
(***************************************************************************)
EXTENDS Naturals, Sequences, SequencesExt

CONSTANTS Kinds,        \* the tags that come near
          MaskHits,     \* kinds whose protocol number shares a bit with the tested one
          LaterKinds,   \* bound: what a later tag may be
          LaterOps,     \* bound: kind of tag, operation and handle of a later operation
          MaxTags,      \* bound: activations of new tags
          MaxOps,       \* bound: operations the service starts
          MaxTotal      \* bound: tags and operations together

ASSUME NativeTagAssumption ==
    /\ Kinds \subseteq {"T2T", "MIFARE", "ISO_A", "ISO_B", "T3BT", "KOVIO"}
    /\ MaskHits \subseteq Kinds /\ LaterKinds \subseteq Kinds
    /\ {MaxTags, MaxOps, MaxTotal} \subseteq Nat

VARIABLES
    card,   \* external: the RF state of the controller, the tag, and whether it is near
    tag,    \* NfcTag: activation state, what the tech arrays and mActivationParams_t hold
    nt,     \* the static flags and results of NativeNfcTag.cpp
    sem,    \* sWriteSem, sFormatSem, sCheckNdefSem, sMakeReadonlySem: posted or not
    thr,    \* the threads inside the JNI functions
    jobs,   \* requests the NFA task has accepted, in order
    vtimer, \* sPresenceCheckTimer or sReconnectNtfTimer is armed
    watch,  \* NativeNfcTag.java: the watchdog is "off", "on" or "ended" (it saw no tag)
    count   \* tags and operations so far

vars == <<card, tag, nt, sem, thr, jobs, vtimer, watch, count>>
----------------------------------------------------------------------------
Threads == {"svc", "dog"}
Ops == {"connect", "reconnect", "transceive", "checkNdef", "read", "write", "format",
        "readonly", "presence", "disconnect"}
Iso == {"ISO_A", "ISO_B"}
Rw == {"check", "read", "write", "format", "readonly", "presence", "raw"}
Requests == Rw \cup {"sleep", "idle", "select", "stop", "start", "vsc", "vntf"}
Intfs == {"iso", "frame", "mifare"}

\* A thread is at "readRefused" or "wrRefused" when the stack refused its request and it
\* waits all the same, for doRead and doWrite do not look at the status.
\* The functions that operations and the watchdog call, and where they return to.
ReSelecting == {"rsSleepW", "rsAsleep", "rsSelecting", "rsSelectW", "rsSelected"}
Checking == {"presence", "presenceW", "presenceEnd", "t3btW", "t3btEnd",
             "vscRspW", "vscRsp", "vscNtfW", "vscNtf"}
Called == ReSelecting \cup Checking \cup {"reconnect", "reSelect", "goneW", "goneEnd"}
Returns == {"opEnd", "dogEnd", "txSend", "txNack", "ckSend", "ckAbsent", "readAbsent",
            "fmSend", "fmKey2", "fmOk", "fmFailed", "roSend"}
\* The places of an operation in its own code.
Own(op) ==
    CASE op = "connect" -> {"connect", "opEnd"}
      [] op \in {"reconnect", "presence"} -> {"opEnd"}
      [] op = "transceive" -> {"transceive", "txSend", "txW", "txEnd", "txNack"}
      [] op = "checkNdef" -> {"checkNdef", "ckSend", "ckWait", "ckAbsent"}
      [] op = "read" -> {"read", "readW", "readRefused", "readEnd", "readAbsent"}
      [] op = "write" -> {"write", "wrFormat", "wrRefused", "wrSent", "wrWait"}
      [] op = "format" -> {"format", "fmSend", "fmWait", "fmKey2", "fmOk", "fmFailed"}
      [] op = "readonly" -> {"readonly", "roSend", "roWait"}
      [] op = "disconnect" -> {"disconnect"}
      [] OTHER -> {}
Places == {"idle", "dogEnd"} \cup Called \cup UNION {Own(op) : op \in Ops}

\* The state has its shape, and requests are of the tag that is out.
TypeOK ==
    /\ card \in [rf : {"disc", "stopped", "active", "sleep"}, kind : Kinds \cup {"none"}, near : BOOLEAN]
    /\ tag \in [act : {"Idle", "Sleep", "Active"}, isActivated : BOOLEAN, timedOut : BOOLEAN,
                kind : Kinds \cup {"none"}, params : Kinds \cup {"none"},
                special : {"no", "cashbee", "ezlink"}, ep : 0..MaxTags]
    /\ nt \in [handle : {0, 1}, rfIntf : Intfs, mutex : Threads \cup {"free"},
               deact : BOOLEAN, sel : BOOLEAN, recon : BOOLEAN, conWait : BOOLEAN, conOk : BOOLEAN,
               txWait : BOOLEAN, txTimeout : BOOLEAN, rx : 0..MaxTags,
               reading : BOOLEAN, readSt : {"ok", "fail", "timeout"},
               checking : BOOLEAN, ckWait : BOOLEAN, ckSt : {"ok", "fail", "timeout"},
               size : BOOLEAN, capable : BOOLEAN,
               wrWait : BOOLEAN, wrOk : BOOLEAN, fmOk : BOOLEAN, roWait : BOOLEAN, roSt : BOOLEAN,
               present : BOOLEAN, vscRsp : BOOLEAN, inField : BOOLEAN, reconnecting : BOOLEAN,
               again : BOOLEAN]
    /\ sem \in [{"w", "f", "c", "r"} -> BOOLEAN]
    /\ thr \in [Threads -> [pc : Places, op : Ops \cup {"none"}, h : {0, 1}, k : Returns,
                            rv : {"ok", "fail", "lost"}, ep : 0..MaxTags, ntf : BOOLEAN,
                            woken : BOOLEAN, key2 : BOOLEAN, ans : BOOLEAN]]
    /\ jobs \in Seq([r : Requests, ep : {tag.ep}])
    /\ vtimer \in {"off", "presence", "reconnect"} /\ watch \in {"off", "on", "ended"}
    /\ count \in [tags : 0..MaxTags, ops : 0..MaxOps] /\ tag.ep <= count.tags

Init ==
    /\ card = [rf |-> "disc", kind |-> "none", near |-> FALSE]
    /\ tag = [act |-> "Idle", isActivated |-> FALSE, timedOut |-> FALSE, kind |-> "none",
              params |-> "none", special |-> "no", ep |-> 0]
    \* What the check of an earlier tag left behind: a message, or none and capable or not.
    /\ \E ckSt \in {"ok", "fail"}, capable \in BOOLEAN :
       /\ ckSt = "ok" => capable
       /\ nt = [handle |-> 0, rfIntf |-> "iso", mutex |-> "free", deact |-> FALSE, sel |-> FALSE,
             recon |-> FALSE, conWait |-> FALSE, conOk |-> FALSE, txWait |-> FALSE, txTimeout |-> FALSE,
             rx |-> 0, reading |-> FALSE, readSt |-> "ok", checking |-> FALSE, ckWait |-> FALSE,
             ckSt |-> ckSt, size |-> ckSt = "ok", capable |-> capable, wrWait |-> FALSE, wrOk |-> FALSE,
             fmOk |-> FALSE, roWait |-> FALSE, roSt |-> FALSE, present |-> TRUE, vscRsp |-> FALSE,
             inField |-> FALSE, reconnecting |-> FALSE, again |-> FALSE]
    /\ sem = [x \in {"w", "f", "c", "r"} |-> FALSE]
    /\ thr = [t \in Threads |-> [pc |-> "idle", op |-> "none", h |-> 0, k |-> "opEnd", rv |-> "ok",
                                 ep |-> 0, ntf |-> FALSE, woken |-> FALSE, key2 |-> FALSE, ans |-> FALSE]]
    /\ jobs = <<>> /\ vtimer = "off" /\ watch = "off" /\ count = [tags |-> 0, ops |-> 0]
----------------------------------------------------------------------------
(* Waiting.  Every wait below names the SyncEvent it is on.                *)
WaitsOn(e) == CASE e = "reconnect" -> {"rsSleepW", "rsSelectW"} [] e = "transceive" -> {"txW", "t3btW"}
                [] e = "read" -> {"readW", "readRefused"} [] e = "presence" -> {"presenceW"} [] e = "vscRsp" -> {"vscRspW"}
                [] e = "vscNtf" -> {"vscNtfW"} [] e = "deactivated" -> {"goneW"}
After(pc) == CASE pc = "rsSleepW" -> "rsAsleep" [] pc = "rsSelectW" -> "rsSelected" [] pc = "txW" -> "txEnd"
               [] pc = "t3btW" -> "t3btEnd" [] pc \in {"readW", "readRefused"} -> "readEnd" [] pc = "presenceW" -> "presenceEnd"
               [] pc = "vscRspW" -> "vscRsp" [] pc = "vscNtfW" -> "vscNtf" [] pc = "goneW" -> "goneEnd"
\* notifyOne on each event of E: at most one thread waits on an event.
Notified(th, E) ==
    [t \in Threads |-> IF \E e \in E : th[t].pc \in WaitsOn(e)
                       THEN [th[t] EXCEPT !.pc = After(@), !.woken = TRUE] ELSE th[t]]

To(t, pc) == thr' = [thr EXCEPT ![t].pc = pc]
\* A function of the module returns rv to its caller.
Return(t, rv) == thr' = [thr EXCEPT ![t].pc = thr[t].k, ![t].rv = rv]
Idle(th, rv) == [th EXCEPT !.pc = "idle", !.rv = rv, !.h = 0, !.k = "opEnd", !.ep = 0, !.woken = FALSE, !.key2 = FALSE]
Fin(t, rv) == thr' = [thr EXCEPT ![t] = Idle(@, rv)]
Call(t, pc, k) == thr' = [thr EXCEPT ![t].pc = pc, ![t].k = k]
Request(r) == jobs' = Append(jobs, [r |-> r, ep |-> tag.ep])
At(t, pc) == thr[t].pc = pc
Answered(th, op) == [t \in Threads |-> IF th[t].op = op /\ th[t].pc # "idle" THEN [th[t] EXCEPT !.ans = TRUE] ELSE th[t]]
----------------------------------------------------------------------------
(* reSelect, under sRfInterfaceMutex: put the tag to sleep, select it again *)
(* with the wanted RF interface; the tag may answer late or never.          *)
Wanted(t) == IF thr[t].op = "connect" THEN (IF thr[t].h = 1 THEN "frame" ELSE "iso")
             ELSE CASE tag.kind \in Iso -> "iso" [] tag.kind = "MIFARE" -> "mifare" [] OTHER -> "frame"
\* Mutant of RsEnd: the reconnect flag stays up.
RsEndKeepsReconnect(n) == [n EXCEPT !.conWait = FALSE, !.deact = FALSE, !.sel = FALSE, !.mutex = "free"]

RsEnd(n) == [n EXCEPT !.recon = FALSE, !.conWait = FALSE, !.deact = FALSE, !.sel = FALSE, !.mutex = "free"]

reSelect(t) ==
    /\ At(t, "reSelect") /\ nt.mutex = "free"
    /\ IF thr[t].op = "connect" /\ Wanted(t) = nt.rfIntf
       THEN Return(t, "ok") /\ UNCHANGED <<nt, jobs>>
       ELSE IF tag.timedOut
       THEN Return(t, "lost") /\ nt' = RsEnd(nt) /\ UNCHANGED jobs
       ELSE /\ nt' = [nt EXCEPT !.mutex = t, !.deact = TRUE, !.recon = tag.special # "no"]
            /\ Request(IF tag.special # "no" THEN "stop" ELSE "sleep")
            /\ To(t, "rsSleepW")
    /\ UNCHANGED <<card, tag, sem, vtimer, watch, count>>

RsAsleep(t) ==
    /\ At(t, "rsAsleep")
    /\ LET special == IF tag.act = "Idle" /\ tag.params = "ISO_A" THEN "cashbee"
                      ELSE IF tag.act = "Idle" /\ tag.params = "ISO_B" THEN "ezlink" ELSE tag.special
       IN /\ tag' = [tag EXCEPT !.special = special]
          /\ IF special = "no" /\ tag.act # "Sleep"
             THEN Return(t, "lost") /\ nt' = RsEnd(nt) /\ UNCHANGED jobs
             ELSE /\ nt' = [nt EXCEPT !.deact = FALSE, !.sel = TRUE, !.conWait = TRUE, !.recon = special # "no"]
                  /\ Request(IF special # "no" THEN "start" ELSE "select")
                  /\ To(t, "rsSelecting")
    /\ UNCHANGED <<card, sem, vtimer, watch, count>>

\* sConnectOk is cleared after the request was made, while doConnectStatus sets it before
\* it takes the guard: ntf says the callback is waiting for the guard.
RsSelecting(t) ==
    /\ At(t, "rsSelecting")
    /\ nt' = [nt EXCEPT !.conOk = FALSE]
    /\ thr' = [thr EXCEPT ![t].pc = IF thr[t].ntf THEN "rsSelected" ELSE "rsSelectW",
                          ![t].woken = thr[t].ntf, ![t].ntf = FALSE]
    /\ UNCHANGED <<card, tag, sem, jobs, vtimer, watch, count>>

RsSelected(t) ==
    /\ At(t, "rsSelected")
    /\ IF ~thr[t].woken     \* no answer in time: give the tag up
       THEN Return(t, "fail") /\ nt' = RsEnd(nt) /\ Request("idle") /\ UNCHANGED tag
       ELSE /\ UNCHANGED jobs
            /\ IF tag.act # "Active"
               THEN Return(t, "lost") /\ nt' = RsEnd(nt) /\ UNCHANGED tag
               ELSE /\ tag' = [tag EXCEPT !.special = IF @ = "ezlink" THEN "no" ELSE @]
                    /\ Return(t, IF nt.conOk THEN "ok" ELSE "fail")
                    /\ nt' = RsEnd([nt EXCEPT !.rfIntf = IF nt.conOk THEN Wanted(t) ELSE @])
    /\ UNCHANGED <<card, sem, vtimer, watch, count>>

\* The waits of reSelect and of transceive are bounded: 1000 ms, gGeneralTransceiveTimeout.
WaitTimesOut(t) ==
    /\ thr[t].pc \in {"rsSleepW", "rsSelectW", "txW", "t3btW"}
    /\ thr' = [thr EXCEPT ![t].pc = After(thr[t].pc), ![t].woken = FALSE]
    /\ UNCHANGED <<card, tag, nt, sem, jobs, vtimer, watch, count>>
----------------------------------------------------------------------------
(* The vendor command that asks whether an ISO-DEP tag is in the field.    *)
UsesVsc == nt.rfIntf # "frame" /\ tag.kind = "ISO_B"

doReconnect(t) ==
    /\ At(t, "reconnect")
    /\ IF tag.act # "Active" THEN Return(t, "fail") /\ UNCHANGED <<jobs, vtimer, nt>>
       ELSE IF tag.kind \in {"KOVIO", "T3BT"} THEN Return(t, "ok") /\ UNCHANGED <<jobs, vtimer, nt>>
       ELSE IF tag.timedOut THEN Return(t, "lost") /\ UNCHANGED <<jobs, vtimer, nt>>
       ELSE IF UsesVsc
            THEN /\ vtimer' = "reconnect" /\ Request("vsc") /\ To(t, "vscRspW")
                 /\ nt' = [nt EXCEPT !.reconnecting = TRUE]
            ELSE To(t, "reSelect") /\ UNCHANGED <<jobs, vtimer, nt>>
    /\ UNCHANGED <<card, tag, sem, watch, count>>

\* A refused command leaves the timer armed.
VscAnswered(t) ==
    /\ At(t, "vscRsp")
    /\ IF nt.vscRsp THEN To(t, "vscNtfW") /\ UNCHANGED nt
       ELSE /\ Return(t, "fail")
            /\ nt' = IF thr[t].op = "presence" THEN nt ELSE [nt EXCEPT !.reconnecting = FALSE]
    /\ UNCHANGED <<card, tag, sem, jobs, vtimer, watch, count>>

VscNotified(t) ==
    /\ At(t, "vscNtf")
    /\ vtimer' = "off"
    /\ IF thr[t].op = "presence" \/ nt.inField
       THEN Return(t, IF nt.inField THEN "ok" ELSE "fail") /\ UNCHANGED jobs
       ELSE Request("idle") /\ To(t, "goneW")
    /\ nt' = IF thr[t].op = "presence" THEN nt ELSE [nt EXCEPT !.reconnecting = FALSE]
    /\ UNCHANGED <<card, tag, sem, watch, count>>

GoneEnd(t) ==
    /\ At(t, "goneEnd") /\ Return(t, "lost")
    /\ UNCHANGED <<card, tag, nt, sem, jobs, vtimer, watch, count>>

\* presenceCheckTimerProc, sReconnectTimerProc.  Assumption: 500 ms are longer than the
\* controller takes to answer the command, so a timer that rescues finds its waiter.
VscTimer ==
    /\ vtimer # "off" /\ \A t \in Threads : thr[t].pc \notin {"vscRspW", "vscRsp"}
    /\ vtimer' = "off"
    /\ nt' = IF vtimer = "presence" THEN [nt EXCEPT !.inField = FALSE, !.reconnecting = FALSE] ELSE nt
    /\ thr' = Notified(thr, {"vscNtf"})
    /\ UNCHANGED <<card, tag, sem, jobs, watch, count>>
----------------------------------------------------------------------------
(* doPresenceCheck, called by the watchdog, the service or an operation.   *)
doPresenceCheck(t) ==
    /\ At(t, "presence")
    /\ \/ /\ nt.checking \/ (tag.kind # "KOVIO" /\ nt.mutex # "free")
          /\ Return(t, "ok") /\ UNCHANGED <<tag, nt, sem, jobs, vtimer>>
       \/ \* A Kovio tag answers nothing: it is treated as deactivated.
          /\ ~nt.checking /\ tag.kind = "KOVIO"
          /\ tag' = [tag EXCEPT !.act = "Idle", !.timedOut = FALSE, !.isActivated = FALSE,
                                !.kind = "none", !.special = "no"]
          /\ nt' = [nt EXCEPT !.present = TRUE, !.rfIntf = "iso"]
          /\ sem' = [x \in DOMAIN sem |-> TRUE]
          /\ thr' = [Notified(thr, {"read", "transceive", "reconnect", "presence", "deactivated"})
                     EXCEPT ![t].pc = thr[t].k, ![t].rv = "fail"]
          /\ UNCHANGED <<jobs, vtimer>>
       \/ /\ ~nt.checking /\ tag.kind # "KOVIO" /\ nt.mutex = "free"
          /\ UNCHANGED <<tag, sem>>
          /\ IF ~tag.isActivated
             THEN Return(t, "fail") /\ UNCHANGED <<nt, jobs, vtimer>>
             ELSE IF tag.kind \in Iso
             THEN IF nt.reconnecting THEN Return(t, "ok") /\ UNCHANGED <<nt, jobs, vtimer>>
                  ELSE vtimer' = "presence" /\ Request("vsc") /\ To(t, "vscRspW") /\ UNCHANGED nt
             ELSE /\ UNCHANGED vtimer
                  /\ IF tag.kind = "T3BT"
                     THEN /\ nt' = [nt EXCEPT !.txTimeout = FALSE, !.txWait = TRUE]
                          /\ Request("raw") /\ To(t, "t3btW")
                     ELSE Request("presence") /\ To(t, "presenceW") /\ UNCHANGED nt
    /\ UNCHANGED <<card, watch, count>>

PresenceEnd(t) ==
    /\ At(t, "presenceEnd") /\ Return(t, IF nt.present THEN "ok" ELSE "fail")
    /\ UNCHANGED <<card, tag, nt, sem, jobs, vtimer, watch, count>>

\* sWaitingForTransceive stays set.
T3btEnd(t) ==
    /\ At(t, "t3btEnd")
    /\ Return(t, IF thr[t].woken /\ ~nt.txTimeout THEN "ok" ELSE "fail")
    /\ UNCHANGED <<card, tag, nt, sem, jobs, vtimer, watch, count>>
----------------------------------------------------------------------------
(* doConnect, doHandleReconnect, doReconnect, doDisconnect, doPresenceCheck *)
(* as the service calls them.                                              *)
doConnect(t) ==
    /\ At(t, "connect")
    /\ IF tag.act # "Active" THEN Fin(t, "fail") /\ UNCHANGED nt
       ELSE IF tag.kind = "T3BT" THEN Fin(t, "ok") /\ UNCHANGED nt
       ELSE /\ nt' = [nt EXCEPT !.handle = thr[t].h]
            /\ IF tag.kind \in Iso /\ nt.rfIntf # Wanted(t) THEN Call(t, "reSelect", "opEnd") ELSE Fin(t, "ok")
    /\ UNCHANGED <<card, tag, sem, jobs, vtimer, watch, count>>

OpEnd(t) ==
    /\ At(t, "opEnd") /\ Fin(t, thr[t].rv)
    /\ UNCHANGED <<card, tag, nt, sem, jobs, vtimer, watch, count>>

doDisconnect(t) ==
    /\ At(t, "disconnect")
    /\ IF tag.act = "Active" THEN Request("idle") ELSE UNCHANGED jobs
    /\ watch' = IF t = "dog" THEN "off" ELSE watch
    /\ Fin(t, "ok")
    /\ UNCHANGED <<card, tag, nt, sem, vtimer, count>>

\* doTransceive: a MIFARE tag is reconnected once after a check for NDEF.
doTransceive(t) ==
    /\ At(t, "transceive")
    /\ IF tag.kind = "MIFARE" /\ ~nt.again
       THEN Call(t, "reconnect", "txSend") /\ nt' = [nt EXCEPT !.again = TRUE]
       ELSE To(t, "txSend") /\ UNCHANGED nt
    /\ UNCHANGED <<card, tag, sem, jobs, vtimer, watch, count>>

TxSend(t) ==
    /\ At(t, "txSend")
    /\ IF tag.act # "Active" THEN Fin(t, "lost") /\ UNCHANGED <<nt, jobs>>
       ELSE /\ nt' = [nt EXCEPT !.txTimeout = FALSE, !.txWait = TRUE, !.rx = 0]
            /\ Request("raw") /\ thr' = [thr EXCEPT ![t].pc = "txW", ![t].ep = tag.ep]
    /\ UNCHANGED <<card, tag, sem, vtimer, watch, count>>

\* A NACK of a Type 2 tag, or a failure reported by a MIFARE tag, gives no data: reconnect.
TxEnd(t) ==
    /\ At(t, "txEnd")
    /\ IF ~thr[t].woken \/ nt.txTimeout \/ tag.act # "Active"
       THEN Fin(t, "lost") /\ nt' = [nt EXCEPT !.txWait = FALSE]
       ELSE \/ /\ thr' = [thr EXCEPT ![t] = Idle([@ EXCEPT !.ans = nt.rx = thr[t].ep],
                                              IF nt.rx = 0 THEN "fail" ELSE "ok")]
               /\ nt' = [nt EXCEPT !.txWait = FALSE]
            \/ /\ nt.rx # 0 /\ tag.kind \in {"T2T", "MIFARE"}
               /\ Call(t, "reconnect", "txNack") /\ UNCHANGED nt
    /\ UNCHANGED <<card, tag, sem, jobs, vtimer, watch, count>>

TxNack(t) ==
    /\ At(t, "txNack") /\ Fin(t, "fail") /\ nt' = [nt EXCEPT !.txWait = FALSE]
    /\ UNCHANGED <<card, tag, sem, jobs, vtimer, watch, count>>

doCheckNdef(t) ==
    /\ At(t, "checkNdef")
    /\ IF tag.kind \in {"T3BT", "KOVIO"}
       THEN Fin(t, "fail") /\ UNCHANGED nt
       ELSE /\ nt' = [nt EXCEPT !.checking = TRUE]
            /\ IF tag.kind = "MIFARE" THEN Call(t, "reconnect", "ckSend") ELSE To(t, "ckSend")
    /\ UNCHANGED <<card, tag, sem, jobs, vtimer, watch, count>>

CkSend(t) ==
    /\ At(t, "ckSend")
    /\ sem' = [sem EXCEPT !["c"] = FALSE]
    /\ \/ \* The tag is gone, or the stack refuses the request.
          Fin(t, "fail") /\ nt' = [nt EXCEPT !.again = FALSE, !.checking = FALSE, !.ckWait = FALSE] /\ UNCHANGED jobs
       \/ /\ tag.act = "Active"
          /\ nt' = [nt EXCEPT !.again = FALSE, !.ckWait = TRUE] /\ Request("check") /\ To(t, "ckWait")
    /\ UNCHANGED <<card, tag, vtimer, watch, count>>

\* A failed check asks whether the tag is absent; while checking, the answer is "present".
CkEnd(t) ==
    /\ At(t, "ckWait") /\ sem["c"]
    /\ sem' = [sem EXCEPT !["c"] = FALSE]
    /\ IF nt.ckSt = "fail" /\ tag.kind \in MaskHits
       THEN Call(t, "presence", "ckAbsent") /\ UNCHANGED nt
       ELSE /\ Fin(t, CASE nt.ckSt = "ok" -> "ok" [] nt.ckSt = "timeout" -> "lost" [] OTHER -> "fail")
            /\ nt' = [nt EXCEPT !.checking = FALSE, !.ckWait = FALSE]
    /\ UNCHANGED <<card, tag, jobs, vtimer, watch, count>>

CkAbsent(t) ==
    /\ At(t, "ckAbsent")
    /\ tag' = IF thr[t].rv = "ok" THEN tag ELSE [tag EXCEPT !.timedOut = TRUE]
    /\ Fin(t, IF thr[t].rv = "ok" THEN "fail" ELSE "lost")
    /\ nt' = [nt EXCEPT !.checking = FALSE, !.ckWait = FALSE]
    /\ UNCHANGED <<card, sem, jobs, vtimer, watch, count>>

\* The wait begins whether or not the request was taken.
doRead(t) ==
    /\ At(t, "read")
    /\ IF nt.size
       THEN /\ nt' = [nt EXCEPT !.readSt = "ok", !.reading = TRUE]
            /\ \/ Request("read") /\ To(t, "readW")
               \/ To(t, "readRefused") /\ UNCHANGED jobs
       ELSE nt' = [nt EXCEPT !.readSt = "ok"] /\ Fin(t, "ok") /\ UNCHANGED jobs
    /\ UNCHANGED <<card, tag, sem, vtimer, watch, count>>

ReadEnd(t) ==
    /\ At(t, "readEnd")
    /\ nt' = [nt EXCEPT !.reading = FALSE]
    /\ tag' = [tag EXCEPT !.timedOut = @ \/ nt.readSt = "timeout"]
    /\ IF nt.readSt = "fail" /\ tag.kind \in MaskHits THEN Call(t, "presence", "readAbsent")
       ELSE Fin(t, IF nt.readSt = "ok" THEN "ok" ELSE "fail")
    /\ UNCHANGED <<card, sem, jobs, vtimer, watch, count>>

ReadAbsent(t) ==
    /\ At(t, "readAbsent")
    /\ tag' = [tag EXCEPT !.timedOut = @ \/ thr[t].rv # "ok"] /\ Fin(t, "fail")
    /\ UNCHANGED <<card, nt, sem, jobs, vtimer, watch, count>>
----------------------------------------------------------------------------
\* doWrite: a capable tag that has no NDEF is formatted first, MIFARE with a second key
\* when the first fails; the format is waited for whatever the status of its request, a
\* write whose request is refused is not.
WrFails(t) == Fin(t, "fail") /\ UNCHANGED jobs

doWrite(t) ==
    /\ At(t, "write")
    /\ LET format == nt.ckSt = "fail" /\ nt.capable IN
       /\ sem' = [sem EXCEPT !["w"] = FALSE, !["f"] = IF format THEN FALSE ELSE @]
       /\ \/ /\ nt' = [nt EXCEPT !.wrWait = TRUE, !.fmOk = IF format THEN FALSE ELSE @]
             /\ Request(IF format THEN "format" ELSE "write")
             /\ To(t, IF format THEN "wrFormat" ELSE "wrSent")
          \/ /\ format /\ nt' = [nt EXCEPT !.wrWait = TRUE, !.fmOk = FALSE]
             /\ To(t, "wrRefused") /\ UNCHANGED jobs
          \/ ~format /\ WrFails(t) /\ nt' = [nt EXCEPT !.wrWait = FALSE]
    /\ UNCHANGED <<card, tag, vtimer, watch, count>>

WrFormatted(t) ==
    /\ thr[t].pc \in {"wrFormat", "wrRefused"} /\ sem["f"]
    /\ sem' = [sem EXCEPT !["f"] = FALSE]
    /\ LET again == ~nt.fmOk /\ tag.kind = "MIFARE" /\ ~thr[t].key2 IN
       \/ nt.fmOk /\ Request("write") /\ To(t, "wrSent") /\ UNCHANGED nt
       \/ /\ again /\ Request("format") /\ UNCHANGED nt
          /\ thr' = [thr EXCEPT ![t].key2 = TRUE, ![t].pc = "wrFormat"]
       \/ /\ again /\ thr' = [thr EXCEPT ![t].key2 = TRUE, ![t].pc = "wrRefused"]
          /\ UNCHANGED <<nt, jobs>>
       \/ ~again /\ WrFails(t) /\ nt' = [nt EXCEPT !.wrWait = FALSE]
    /\ UNCHANGED <<card, tag, vtimer, watch, count>>

\* sWriteOk is cleared only now: an answer that was quicker is lost.
WrSent(t) ==
    /\ At(t, "wrSent") /\ nt' = [nt EXCEPT !.wrOk = FALSE] /\ To(t, "wrWait")
    /\ UNCHANGED <<card, tag, sem, jobs, vtimer, watch, count>>

\* Mutant of WrEnd: that the wait ended is taken for success.
WrEndTakesWake(t) ==
    /\ At(t, "wrWait") /\ sem["w"]
    /\ sem' = [sem EXCEPT !["w"] = FALSE]
    /\ Fin(t, "ok") /\ nt' = [nt EXCEPT !.wrWait = FALSE]
    /\ UNCHANGED <<card, tag, jobs, vtimer, watch, count>>

WrEnd(t) ==
    /\ At(t, "wrWait") /\ sem["w"]
    /\ sem' = [sem EXCEPT !["w"] = FALSE]
    /\ Fin(t, IF nt.wrOk THEN "ok" ELSE "fail") /\ nt' = [nt EXCEPT !.wrWait = FALSE]
    /\ UNCHANGED <<card, tag, jobs, vtimer, watch, count>>

doNdefFormat(t) ==
    /\ At(t, "format")
    /\ IF ~tag.isActivated THEN Fin(t, "fail") /\ UNCHANGED <<nt, sem>>
       ELSE /\ sem' = [sem EXCEPT !["f"] = FALSE] /\ nt' = [nt EXCEPT !.fmOk = FALSE]
            /\ IF tag.kind = "MIFARE" THEN Call(t, "reconnect", "fmSend") ELSE To(t, "fmSend")
    /\ UNCHANGED <<card, tag, jobs, vtimer, watch, count>>

\* A refused request is not waited for, and fails like a format the tag does not acknowledge.
FmSend(t) ==
    /\ At(t, "fmSend")
    /\ \/ Request("format") /\ To(t, "fmWait")
       \/ /\ UNCHANGED jobs
          /\ IF tag.kind = "MIFARE" /\ ~nt.fmOk THEN Call(t, "reconnect", "fmKey2")
             ELSE IF tag.kind \in Iso THEN Call(t, "reconnect", "fmFailed") ELSE Fin(t, "fail")
    /\ UNCHANGED <<card, tag, nt, sem, vtimer, watch, count>>

\* The second key is tried after a failure whose status is or-ed into the second one's:
\* the second format is requested and not waited for.
FmEnd(t) ==
    /\ At(t, "fmWait") /\ sem["f"]
    /\ sem' = [sem EXCEPT !["f"] = FALSE]
    /\ IF tag.kind = "MIFARE" /\ ~nt.fmOk THEN Call(t, "reconnect", "fmKey2")
       ELSE IF tag.kind \in Iso
       THEN thr' = [thr EXCEPT ![t].pc = "reconnect", ![t].k = IF nt.fmOk THEN "fmOk" ELSE "fmFailed"]
       ELSE Fin(t, IF nt.fmOk THEN "ok" ELSE "fail")
    /\ UNCHANGED <<card, tag, nt, jobs, vtimer, watch, count>>

FmKey2(t) ==
    /\ At(t, "fmKey2") /\ (Request("format") \/ UNCHANGED jobs) /\ Fin(t, "fail")
    /\ UNCHANGED <<card, tag, nt, sem, vtimer, watch, count>>

FmReconnected(t) ==
    /\ thr[t].pc \in {"fmOk", "fmFailed"} /\ Fin(t, IF At(t, "fmOk") THEN "ok" ELSE "fail")
    /\ UNCHANGED <<card, tag, nt, sem, jobs, vtimer, watch, count>>

doMakeReadonly(t) ==
    /\ At(t, "readonly")
    /\ sem' = [sem EXCEPT !["r"] = FALSE] /\ nt' = [nt EXCEPT !.roWait = TRUE]
    /\ IF tag.kind = "MIFARE" THEN Call(t, "reconnect", "roSend") ELSE To(t, "roSend")
    /\ UNCHANGED <<card, tag, jobs, vtimer, watch, count>>

RoSecondKey(t) ==
    /\ thr' = [thr EXCEPT ![t].key2 = TRUE, ![t].pc = "reconnect", ![t].k = "roSend"]
    /\ nt' = [nt EXCEPT !.roWait = TRUE] /\ UNCHANGED jobs

\* A request may be refused (the tag does not allow it); MIFARE tries a second key.
RoSend(t) ==
    /\ At(t, "roSend")
    /\ \/ /\ tag.kind = "MIFARE" => thr[t].rv = "ok"
          /\ Request("readonly") /\ To(t, "roWait") /\ UNCHANGED nt
       \/ /\ tag.kind = "MIFARE" /\ ~thr[t].key2 /\ thr[t].rv = "ok" /\ RoSecondKey(t)
       \/ /\ tag.kind # "MIFARE" \/ thr[t].key2 \/ thr[t].rv # "ok"
          /\ Fin(t, "fail") /\ nt' = [nt EXCEPT !.roWait = FALSE] /\ UNCHANGED jobs
    /\ UNCHANGED <<card, tag, sem, vtimer, watch, count>>


RoEnd(t) ==
    /\ At(t, "roWait") /\ sem["r"]
    /\ sem' = [sem EXCEPT !["r"] = FALSE]
    /\ IF ~nt.roSt /\ tag.kind = "MIFARE" /\ ~thr[t].key2
       THEN RoSecondKey(t)
       ELSE nt' = [nt EXCEPT !.roWait = FALSE] /\ Fin(t, IF nt.roSt THEN "ok" ELSE "fail") /\ UNCHANGED jobs
    /\ UNCHANGED <<card, tag, vtimer, watch, count>>
----------------------------------------------------------------------------
(* NativeNfcTag.java: an operation pauses the watchdog, which takes its    *)
(* monitor and so waits for a running check; the watchdog checks between   *)
(* operations, ends when the tag is absent, and then disconnects.          *)
StartOp(op, h) ==
    /\ At("svc", "idle") /\ tag.ep > 0 /\ count.ops < MaxOps /\ count.tags + count.ops < MaxTotal
    /\ count.ops > 0 => <<tag.kind, op, h>> \in LaterOps
    /\ op = "disconnect" => watch = "off"
    /\ thr["dog"].pc \in {"idle", "disconnect"}
    /\ h # 0 => op = "connect"
    /\ count' = [count EXCEPT !.ops = @ + 1]
    /\ thr' = [thr EXCEPT !["svc"] = [@ EXCEPT !.pc = op, !.op = op, !.h = h, !.k = "opEnd", !.rv = "ok",
                                               !.ep = tag.ep, !.key2 = FALSE, !.ans = FALSE]]
    /\ UNCHANGED <<card, tag, nt, sem, jobs, vtimer, watch>>

DogChecks ==
    /\ watch = "on" /\ At("dog", "idle") /\ At("svc", "idle")
    /\ thr' = [thr EXCEPT !["dog"] = [@ EXCEPT !.pc = "presence", !.op = "presence", !.k = "dogEnd"]]
    /\ UNCHANGED <<card, tag, nt, sem, jobs, vtimer, watch, count>>

DogEnd ==
    /\ At("dog", "dogEnd")
    /\ watch' = IF thr["dog"].rv = "ok" THEN "on" ELSE "ended"
    /\ IF thr["dog"].rv = "ok" THEN Fin("dog", "ok") ELSE To("dog", "disconnect")
    /\ UNCHANGED <<card, tag, nt, sem, jobs, vtimer, count>>
----------------------------------------------------------------------------
(* The NFA task: it answers its first request and runs the callback.  The  *)
(* callback's handlers, on what is left of the jobs:                       *)

\* Mutants of Deactivated: the reader, or those who wait on semaphores, are not woken.
Downed == tag' = [tag EXCEPT !.act = "Idle", !.timedOut = FALSE, !.isActivated = FALSE, !.kind = "none", !.special = "no"]
DeactivatedForgetsRead(type, rest) ==
    /\ jobs' = rest /\ Downed /\ sem' = [x \in DOMAIN sem |-> TRUE]
    /\ thr' = Notified(thr, {"deactivated", "transceive", "reconnect", "presence"})
    /\ UNCHANGED <<vtimer, nt>>
DeactivatedForgetsPosts(type, rest) ==
    /\ jobs' = rest /\ Downed
    /\ thr' = Notified(thr, {"deactivated", "read", "transceive", "reconnect", "presence"})
    /\ UNCHANGED <<vtimer, nt, sem>>

\* NFA_DEACTIVATED_EVT: while the reconnect flag is set it is ignored.
Deactivated(type, rest) ==
    /\ jobs' = rest
    /\ UNCHANGED vtimer
    /\ IF nt.recon THEN UNCHANGED <<tag, nt, sem, thr>>
       ELSE IF type = "sleep"
       THEN /\ tag' = [tag EXCEPT !.act = "Sleep", !.timedOut = FALSE,
                                  !.isActivated = IF nt.deact THEN FALSE ELSE @]
            /\ thr' = IF nt.deact THEN Notified(thr, {"reconnect"}) ELSE thr
            /\ UNCHANGED <<nt, sem>>
       ELSE /\ tag' = [tag EXCEPT !.act = "Idle", !.timedOut = FALSE, !.isActivated = FALSE,
                                  !.kind = "none", !.special = "no"]
            /\ nt' = [nt EXCEPT !.present = TRUE, !.rfIntf = "iso"]
            /\ sem' = [x \in DOMAIN sem |-> TRUE]
            /\ thr' = Notified(thr, {"deactivated", "read", "transceive", "reconnect", "presence"})

\* doConnectStatus: to a thread that has not reached its wait yet the notification
\* comes once that thread releases the guard.
ConnectStatus(n, th) ==
    IF ~n.conWait THEN th
    ELSE [t \in Threads |-> IF th[t].pc = "rsSelecting" THEN [th[t] EXCEPT !.ntf = TRUE]
                            ELSE Notified(th, {"reconnect"})[t]]

\* NFA_ACTIVATED_EVT of the tag that was selected again, or of a new tag.
Reactivated(intf, rest) ==
    /\ tag' = [tag EXCEPT !.isActivated = TRUE, !.act = "Active", !.timedOut = FALSE,
                          !.kind = IF tag.special # "no" THEN card.kind ELSE @]
    /\ nt' = [nt EXCEPT !.rfIntf = intf, !.conOk = IF nt.conWait THEN nt.sel ELSE @,
                        !.conWait = IF nt.sel THEN FALSE ELSE @,
                        !.present = IF nt.sel THEN @ ELSE TRUE]
    /\ thr' = IF nt.sel THEN ConnectStatus(nt, thr) ELSE thr
    /\ jobs' = rest /\ UNCHANGED <<sem, vtimer>>

SelectFailed(rest) ==
    /\ nt' = [nt EXCEPT !.conOk = IF nt.sel /\ nt.conWait THEN FALSE ELSE @,
                        !.conWait = IF nt.sel THEN FALSE ELSE @]
    /\ thr' = IF nt.sel THEN ConnectStatus(nt, thr) ELSE thr
    /\ jobs' = Append(rest, [r |-> "idle", ep |-> tag.ep])
    /\ UNCHANGED <<tag, sem, vtimer>>

TagArrives(k) ==
    /\ card.rf = "disc" /\ jobs = <<>> /\ count.tags < MaxTags
    /\ count.tags + count.ops < MaxTotal
    /\ count.tags > 0 => k \in LaterKinds
    /\ \A t \in Threads : ~thr[t].ntf
    /\ card' = [rf |-> "active", kind |-> k, near |-> TRUE]
    /\ count' = [count EXCEPT !.tags = @ + 1]
    /\ nt' = [nt EXCEPT !.rfIntf = CASE k \in Iso -> "iso" [] k = "MIFARE" -> "mifare" [] OTHER -> "frame",
                        !.conOk = IF nt.sel /\ nt.conWait THEN TRUE ELSE @,
                        !.conWait = IF nt.sel THEN FALSE ELSE @, !.present = IF nt.sel THEN @ ELSE TRUE]
    /\ IF nt.sel    \* taken for the tag that was being selected
       THEN /\ tag' = [tag EXCEPT !.isActivated = TRUE, !.act = "Active", !.timedOut = FALSE]
            /\ thr' = ConnectStatus(nt, thr) /\ UNCHANGED watch
       ELSE /\ tag' = [act |-> "Active", isActivated |-> TRUE, timedOut |-> FALSE, kind |-> k,
                       params |-> k, special |-> "no", ep |-> tag.ep + 1]
            /\ watch' = IF watch = "off" THEN "on" ELSE watch
            /\ UNCHANGED thr
    /\ UNCHANGED <<sem, jobs, vtimer>>

TagLeaves ==
    /\ card.near /\ card' = [card EXCEPT !.near = FALSE]
    /\ UNCHANGED <<tag, nt, sem, thr, jobs, vtimer, watch, count>>

Job == Head(jobs).r
Rest == Tail(jobs)
Quiet == jobs # <<>> /\ \A t \in Threads : ~thr[t].ntf

\* NFA_Deactivate, NFA_StopRfDiscovery: a request for the tag that is out is dropped
\* when the link goes down.
LinkDown(i) ==
    /\ i \in DOMAIN jobs /\ jobs[i].r \in {"sleep", "idle", "stop"}
    /\ \A j \in 1..(i - 1) : jobs[j].r \in Rw
    /\ UNCHANGED <<watch, count>>
    /\ LET rest == SubSeq(jobs, i + 1, Len(jobs)) IN
       CASE card.rf \notin {"active", "sleep"} ->   \* NFA_DEACTIVATE_FAIL_EVT
                /\ jobs' = RemoveAt(jobs, i) /\ thr' = Notified(thr, {"deactivated"})
                /\ UNCHANGED <<card, tag, nt, sem, vtimer>>
         [] card.rf \in {"active", "sleep"} /\ jobs[i].r = "stop" ->   \* NFA_RF_DISCOVERY_STOPPED_EVT
                /\ card' = [card EXCEPT !.rf = "stopped"] /\ jobs' = rest
                /\ IF nt.recon
                   THEN /\ tag' = [tag EXCEPT !.act = "Sleep", !.timedOut = FALSE,
                                              !.isActivated = IF nt.deact THEN FALSE ELSE @]
                        /\ thr' = IF nt.deact THEN Notified(thr, {"reconnect"}) ELSE thr
                   ELSE UNCHANGED <<tag, thr>>
                /\ UNCHANGED <<nt, sem, vtimer>>
         [] card.rf \in {"active", "sleep"} /\ jobs[i].r = "sleep" ->
                \/ card' = [card EXCEPT !.rf = "sleep"] /\ Deactivated("sleep", rest)
                \/ card' = [card EXCEPT !.rf = "disc"] /\ Deactivated("idle", rest)
         [] OTHER -> card' = [card EXCEPT !.rf = "disc"] /\ Deactivated("idle", rest)

\* NFA_Select and NFA_StartRfDiscovery: the tag answers, is refused, or nothing is heard.
Selected ==
    /\ Quiet /\ Job \in {"select", "start"}
    /\ UNCHANGED <<watch, count>>
    /\ \/ /\ card.near /\ card.rf \in (IF Job = "select" THEN {"sleep"} ELSE {"stopped", "disc"})
          /\ card' = [card EXCEPT !.rf = "active"]
          /\ \E t \in Threads : nt.mutex = t /\ Reactivated(Wanted(t), Rest)
       \/ /\ Job = "select" /\ SelectFailed(Rest) /\ UNCHANGED card
       \/ /\ Job = "start" \/ card.rf # "sleep"
          /\ card' = [card EXCEPT !.rf = IF @ = "stopped" THEN "disc" ELSE @]
          /\ jobs' = Rest /\ UNCHANGED <<tag, nt, sem, thr, vtimer>>
       \/ /\ card.near /\ card.rf = "sleep" /\ nt.mutex = "free"    \* nobody waits for it any more
          /\ card' = [card EXCEPT !.rf = "active"] /\ Reactivated(nt.rfIntf, Rest)

\* The outcome of a tag operation: the tag is near and the link is up, or it fails.
Outcomes == IF card.near /\ card.rf = "active" THEN {"ok", "fail"} ELSE {"fail", "timeout"}

TagAnswers ==
    /\ Quiet /\ Job \in Rw \ {"raw"} /\ jobs' = Rest
    /\ UNCHANGED <<card, vtimer, watch, count>>
    /\ \E out \in Outcomes :
       CASE Job = "check" ->    \* doCheckNdefResult
            /\ tag' = [tag EXCEPT !.timedOut = out = "timeout"]
            /\ UNCHANGED thr
            /\ IF nt.ckWait
               THEN \E size, capable \in BOOLEAN :
                    /\ nt' = [nt EXCEPT !.ckWait = FALSE, !.ckSt = out, !.size = size /\ out = "ok",
                                        !.capable = out = "ok" \/ (out = "fail" /\ capable)]
                    /\ sem' = [sem EXCEPT !["c"] = TRUE]
               ELSE UNCHANGED <<nt, sem>>
         [] Job = "read" ->     \* doReadCompleted
            /\ nt' = IF nt.reading THEN [nt EXCEPT !.readSt = out] ELSE nt
            /\ thr' = IF nt.reading THEN Notified(thr, {"read"}) ELSE thr
            /\ UNCHANGED <<tag, sem>>
         [] Job = "write" ->    \* doWriteStatus
            /\ nt' = IF nt.wrWait THEN [nt EXCEPT !.wrWait = FALSE, !.wrOk = out = "ok"] ELSE nt
            /\ sem' = IF nt.wrWait THEN [sem EXCEPT !["w"] = TRUE] ELSE sem
            /\ thr' = IF nt.wrWait /\ out = "ok" THEN Answered(thr, "write") ELSE thr
            /\ UNCHANGED tag
         [] Job = "format" ->   \* formatStatus
            /\ nt' = [nt EXCEPT !.fmOk = out = "ok"] /\ sem' = [sem EXCEPT !["f"] = TRUE]
            /\ thr' = IF out = "ok" THEN Answered(thr, "format") ELSE thr
            /\ UNCHANGED tag
         [] Job = "readonly" -> \* doMakeReadonlyResult
            /\ nt' = IF nt.roWait THEN [nt EXCEPT !.roWait = FALSE, !.roSt = out = "ok"] ELSE nt
            /\ sem' = IF nt.roWait THEN [sem EXCEPT !["r"] = TRUE] ELSE sem
            /\ thr' = IF nt.roWait /\ out = "ok" THEN Answered(thr, "readonly") ELSE thr
            /\ UNCHANGED tag
         [] Job = "presence" -> \* doPresenceCheckResult
            /\ nt' = [nt EXCEPT !.present = out = "ok"]
            /\ thr' = Notified(thr, {"presence"}) /\ UNCHANGED <<tag, sem>>

\* doTransceiveStatus, notifyRfTimeout; without a link the frame is thrown away.
RawAnswers ==
    /\ Quiet /\ Job = "raw" /\ jobs' = Rest
    /\ UNCHANGED <<card, tag, sem, vtimer, watch, count>>
    /\ \/ card.rf # "active" /\ UNCHANGED <<nt, thr>>
       \/ /\ card.rf = "active" /\ card.near
          /\ nt' = IF nt.txWait THEN [nt EXCEPT !.rx = Head(jobs).ep] ELSE nt
          /\ thr' = IF nt.txWait THEN Notified(thr, {"transceive"}) ELSE thr
       \/ /\ card.rf = "active"     \* NFA_RW_INTF_ERROR_EVT
          /\ nt' = [nt EXCEPT !.txTimeout = IF nt.txWait THEN TRUE ELSE @,
                              !.readSt = IF nt.reading THEN "timeout" ELSE @]
          /\ thr' = Notified(thr, (IF nt.txWait THEN {"transceive"} ELSE {})
                                  \cup (IF nt.reading THEN {"read"} ELSE {}))

\* nfaVSCCallback and nfaVSCNtfCallback; the latter sleeps 100 ms before it notifies, for
\* the thread that got the response to reach its wait.
VscAnswers ==
    /\ Quiet /\ Job \in {"vsc", "vntf"}
    /\ UNCHANGED <<card, tag, sem, vtimer, watch, count>>
    /\ IF Job = "vsc"
       THEN \E ok \in BOOLEAN :
            /\ nt' = [nt EXCEPT !.vscRsp = ok]
            /\ thr' = Notified(thr, {"vscRsp"})
            /\ \/ ok /\ jobs' = Append(Rest, [r |-> "vntf", ep |-> tag.ep])
               \/ jobs' = Rest
       ELSE /\ \A t \in Threads : ~At(t, "vscRsp")
            /\ nt' = [nt EXCEPT !.inField = card.near]
            /\ thr' = Notified(thr, {"vscNtf"}) /\ jobs' = Rest

NfaTask == Selected \/ TagAnswers \/ RawAnswers \/ VscAnswers
           \/ (Quiet /\ \E i \in 1..Len(jobs) : LinkDown(i))
----------------------------------------------------------------------------
Step(t) ==
    \/ reSelect(t) \/ RsAsleep(t) \/ RsSelecting(t) \/ RsSelected(t)
    \/ doReconnect(t) \/ VscAnswered(t) \/ VscNotified(t) \/ GoneEnd(t)
    \/ doPresenceCheck(t) \/ PresenceEnd(t) \/ T3btEnd(t) \/ doConnect(t) \/ OpEnd(t) \/ doDisconnect(t)
    \/ doTransceive(t) \/ TxSend(t) \/ TxEnd(t) \/ TxNack(t)
    \/ doCheckNdef(t) \/ CkSend(t) \/ CkEnd(t) \/ CkAbsent(t) \/ doRead(t) \/ ReadEnd(t) \/ ReadAbsent(t)
    \/ doWrite(t) \/ WrFormatted(t) \/ WrSent(t) \/ WrEnd(t)
    \/ doNdefFormat(t) \/ FmSend(t) \/ FmEnd(t) \/ FmKey2(t) \/ FmReconnected(t)
    \/ doMakeReadonly(t) \/ RoSend(t) \/ RoEnd(t)

Next ==
    \/ \E t \in Threads : Step(t) \/ WaitTimesOut(t)
    \/ \E op \in Ops, h \in {0, 1} : StartOp(op, h)
    \/ DogChecks \/ DogEnd \/ VscTimer \/ NfaTask \/ TagLeaves
    \/ \E k \in Kinds : TagArrives(k)

\* A thread that can run runs, the NFA task serves its requests, armed timers expire.
Fairness ==
    /\ WF_vars(Step("svc") \/ WaitTimesOut("svc"))
    /\ WF_vars(Step("dog") \/ WaitTimesOut("dog") \/ DogEnd)
    /\ WF_vars(NfaTask) /\ WF_vars(VscTimer)

Spec == Init /\ [][Next]_vars /\ Fairness
----------------------------------------------------------------------------
Pending(r) == \E i \in DOMAIN jobs : jobs[i].r = r

\* No wait for a request the stack took is left without the event, post or timer that ends
\* it, however requests, deactivations and the wait itself interleave.  After a refused
\* read or format nothing is to come, and doRead and doWrite wait all the same
\* (NativeNfcTag.cpp:398, 676, 685): those waits are at places of their own, which a thread
\* reaches in no other way.
WaitsAreAnswered ==
    \A t \in Threads :
        /\ At(t, "readW") => Pending("read")
        /\ At(t, "presenceW") => Pending("presence")
        /\ At(t, "goneW") => Pending("idle")
        /\ At(t, "vscRspW") => Pending("vsc")
        /\ At(t, "vscNtfW") => Pending("vntf") \/ vtimer # "off"
        /\ At(t, "ckWait") => sem["c"] \/ Pending("check")
        /\ thr[t].pc \in {"wrFormat", "fmWait"} => sem["f"] \/ Pending("format")
        /\ thr[t].pc \in {"wrWait", "wrSent"} => sem["w"] \/ Pending("write")
        /\ At(t, "roWait") => sem["r"] \/ Pending("readonly")

\* An operation and the watchdog's check exclude each other, and each is where it can be.
OneAtWork ==
    /\ At("svc", "idle") \/ thr["dog"].pc \in {"idle", "disconnect"}
    /\ LET th == thr["svc"]
       IN  th.pc = "idle" \/ th.pc \in Own(th.op) \/ (th.pc \in Called /\ th.k \in Own(th.op) \cap Returns)
    /\ LET th == thr["dog"]
       IN  /\ th.op \in {"none", "presence"}
           /\ th.pc \in {"idle", "dogEnd", "disconnect"} \/ (th.pc \in Checking /\ th.op = "presence" /\ th.k = "dogEnd")

\* Outside reSelect its flags are down: a reconnect flag left up would make
\* nfaConnectionCallback ignore every later deactivation.
FlagsOnlyInReSelect ==
    /\ nt.mutex = "free" => ~nt.deact /\ ~nt.sel /\ ~nt.recon /\ ~nt.conWait
    /\ \A t \in Threads : thr[t].pc \in ReSelecting <=> nt.mutex = t

\* A write or a format that reports success was acknowledged by the tag during the
\* operation, and data a transceive returns came from the tag it was sent to, although
\* deactivation wakes every waiter.
SuccessIsAnswered ==
    At("svc", "idle") /\ thr["svc"].rv = "ok" =>
        (thr["svc"].op \in {"write", "format", "transceive"} => thr["svc"].ans)

\* sIsCheckingNDef makes every presence check succeed: it is up only during a check.
CheckingOnlyDuringCheck ==
    nt.checking => thr["svc"].op = "checkNdef" /\ thr["svc"].pc \notin {"idle", "checkNdef"}

\* A request of that kind is out, and no request comes after it that takes the link down
\* without waking whom it waits for.
Ahead(r) ==
    \E i \in DOMAIN jobs : /\ jobs[i].r = r
                           /\ \A j \in DOMAIN jobs : j > i => jobs[j].r \notin {"sleep", "stop"}

\* What WaitsAreAnswered rests on: the callback looks at a flag before it posts, and a
\* timer covers the vendor command from its request to its notification.
WaitsAreCovered ==
    \A t \in Threads :
        /\ At(t, "readW") => nt.reading /\ Ahead("read")
        /\ At(t, "presenceW") => Ahead("presence")
        /\ At(t, "goneW") => Ahead("idle")
        /\ At(t, "vscRspW") => Ahead("vsc")
        /\ thr[t].pc \in {"vscRspW", "vscRsp", "vscNtfW"} => vtimer # "off"
        /\ At(t, "ckWait") => sem["c"] \/ (nt.ckWait /\ Ahead("check"))
        /\ thr[t].pc \in {"wrFormat", "fmWait"} => sem["f"] \/ Ahead("format")
        /\ thr[t].op = "write" /\ thr[t].pc \notin {"idle", "write"} => sem["w"] \/ nt.wrWait
        /\ thr[t].pc \in {"wrWait", "wrSent"} => sem["w"] \/ Ahead("write")
        /\ thr[t].op = "readonly" /\ thr[t].pc \notin {"idle", "readonly"} => sem["r"] \/ nt.roWait
        /\ At(t, "roWait") => sem["r"] \/ Ahead("readonly")

\* What SuccessIsAnswered rests on: an "ok" that is still around when an operation looks at
\* it is the answer to this operation.
AnswersAreNoted ==
    LET th == thr["svc"]
    IN  /\ th.pc = "wrWait" /\ nt.wrOk => th.ans
        /\ th.op = "format" /\ th.pc \notin {"idle", "format"} /\ nt.fmOk => th.ans
        /\ "fmOk" \in {th.pc, th.k} => th.ans
        /\ th.pc \in {"txW", "txEnd"} =>
             /\ nt.rx \in {0, th.ep}
             /\ \A i \in DOMAIN jobs : jobs[i].r = "raw" => jobs[i].ep = th.ep

\* The flags, semaphores and requests by which the threads and the callback know of each
\* other fit the places the threads are at.
IndInv ==
    /\ TypeOK
    /\ OneAtWork
    /\ FlagsOnlyInReSelect
    /\ CheckingOnlyDuringCheck
    /\ WaitsAreCovered
    /\ AnswersAreNoted
    /\ SuccessIsAnswered

\* Every operation and every presence check returns, but for a read or a write that from
\* some time on waits for a request that was refused.
OperationsReturn ==
    \A t \in Threads : \/ ~At(t, "idle") ~> At(t, "idle")
                        \/ <>[](thr[t].pc \in {"readRefused", "wrRefused"})
============================================================================
