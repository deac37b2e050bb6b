---------------------------- MODULE TagDiscovery ----------------------------
(***************************************************************************)
(* Discovery: several targets answer the poll, nfaConnectionCallback       *)
(* (NativeNfcManager.cpp) counts their notifications, selects one tag      *)
(* after the other and NfcTag.cpp collects their technologies, so that the *)
(* service is told of one tag object.  Outside reader mode the first such  *)
(* detection makes a thread poll for peers only, and timers undo that.     *)
(* The service enables and disables discovery meanwhile.  Every thread     *)
(* waits on one event, sNfaEnableDisablePollingEvent: a notification wakes *)
(* any one of them.  One action is the code between two waits, or one      *)
(* handler of the callback.                                                *)
(***************************************************************************)
EXTENDS Naturals, Sequences, FiniteSets, SequencesExt

CONSTANTS Fields,      \* what may be near the reader: sequences of kinds of targets
          MaxTech,     \* MAX_NUM_TECHNOLOGY
          Behind,      \* what is read one place behind the technology arrays
          Prompt,      \* a woken thread runs on before a target answers or a timer expires, and the
                       \* service does not call while targets are being told apart
          Modes,       \* the calls of enableDiscovery: in reader mode or not, which technologies
          MaxInputs,   \* bound: calls of enableDiscovery and disableDiscovery, and changes of what is
                       \* near the reader, together
          MaxNtf       \* bound: mNumDiscNtf when targets are discovered

Kinds == {"T2T", "UL", "TNP", "ISO", "MFC", "T3T", "P2PA", "P2PF"}

ASSUME TagDiscoveryAssumption ==
    /\ Fields \subseteq Seq(Kinds) /\ <<>> \in Fields
    /\ Behind \in [h : Nat, p : {"none", "T2T", "ISO", "MIFARE", "T3T", "DEPA", "DEPF"}]
    /\ Modes \subseteq [reader : BOOLEAN, tech : {"all", "F", "none"}] /\ Modes # {}
    /\ Prompt \in BOOLEAN /\ MaxTech \in Nat \ {0} /\ {MaxInputs, MaxNtf} \subseteq Nat

VARIABLES
    nfa,    \* external: RF state, active target, results to come, enabled polling, work queued
    field,  \* external: the targets near the reader; a target's discovery ID is its place
    tag,    \* NfcTag.cpp: the technology arrays, their counters and what the service was told
    nm,     \* NativeNfcManager.cpp: the static flags
    svc,    \* the service's thread in enableDiscovery or disableDiscovery
    prio,   \* how many threads of p2p_prio_logic_multiprotocol are where
    t3t,    \* pollT3TThread
    count   \* calls and changes so far

vars == <<nfa, field, tag, nm, svc, prio, t3t, count>>
----------------------------------------------------------------------------
Dep == {"DEPA", "DEPF"}
Protocols == {"none", "T2T", "ISO", "MIFARE", "T3T"} \cup Dep
Protocol(k) == CASE k \in {"T2T", "UL", "TNP"} -> "T2T" [] k = "ISO" -> "ISO" [] k = "MFC" -> "MIFARE"
                 [] k = "T3T" -> "T3T" [] k = "P2PA" -> "DEPA" [] k = "P2PF" -> "DEPF"
Zero == [h |-> 0, p |-> "none"]
Commands == {"stop", "start", "disable", "enable", "select", "sleep", "idle"}
PrioPcs == {"begin", "stopW", "disable", "disableW", "enable", "enableW", "start", "startW", "end"}
SvcPcs == {"idle", "stopW", "disable", "disableW", "enable", "enableW", "mode", "startW", "started",
           "offW", "offDisable", "offDisableW", "offEnd"}
\* A target's discovery ID, or 0; an entry of the technology arrays; a target that answered.
Handles == Nat
Entries == [h : Handles, p : Protocols]
Results == [h : Handles, k : Kinds]
\* What NFA is asked for: by the callback's handlers, and by the threads.
Requests == [c : {"sleep", "idle"}] \cup [c : {"select"}, h : Handles, p : Protocols]
Orders == [c : {"stop", "start", "disable"}] \cup [c : {"enable"}, m : {"all", "F"}]
\* What it reports.
Events == [c : {"STOPPED", "STARTED", "POLL", "SELECT_OK", "SELECT_FAIL", "DEACTIVATE_FAIL"}]
          \cup [c : {"ACTIVATED"}, h : Handles \ {0}, p : Protocols, k : Kinds]
          \cup [c : {"DEACTIVATED"}, type : {"idle", "sleep", "discovery"}]

Controllers == [rf : {"idle", "poll", "results", "select", "active", "sleep"}, on : Entries,
                todo : SUBSET Results, mask : {"none", "all", "F"}, q : Seq(Requests \cup Orders \cup Events)]
Tags == [arr : [0..MaxTech -> Entries], num : 0..(MaxTech + 1), disc : 0..(MaxTech + 1),
         idx : 0..MaxTech, sel : 0..MaxTech, ntf : Nat, prev : 0..2, active : BOOLEAN,
         saved : Seq(Handles), live : BOOLEAN, stale : BOOLEAN, told : Seq([h : Handles, b : Handles]),
         out : Seq(Requests)]
Flags == [flag : BOOLEAN, detected : BOOLEAN, timer : {"off", "reconfigure", "clear"},
          rfEnabled : BOOLEAN, enabled : BOOLEAN, polling : BOOLEAN, reader : BOOLEAN,
          tech : {"all", "F"}, p2p : BOOLEAN, felica : {"idle", "dep", "asleep", "selected"},
          awaited : BOOLEAN]   \* history: the timer was stopped for a peer, and nothing came up since
T3ts == [pc : {"idle", "begin", "sleepW", "select", "selectW"}, h : Handles]

\* Every variable has its type; what the handlers ask for has been passed on to NFA, and
\* only who enables a technology goes on to set the mode.
TypeOK ==
    /\ nfa \in Controllers
    /\ field \in Fields
    /\ tag \in Tags /\ tag.out = <<>>
    /\ nm \in Flags
    /\ svc \in [pc : SvcPcs, mode : Modes] /\ (svc.pc \in {"enableW", "mode"} => svc.mode.tech # "none")
    /\ prio \in [PrioPcs -> Nat]
    /\ t3t \in T3ts
    /\ count \in [calls : Nat, changes : Nat]

Init ==
    /\ nfa = [rf |-> "idle", on |-> Zero, todo |-> {}, mask |-> "none", q |-> <<>>]
    /\ field \in Fields
    /\ tag = [arr |-> [i \in 0..MaxTech |-> IF i = MaxTech THEN Behind ELSE Zero], num |-> 0, disc |-> 0,
              idx |-> 0, sel |-> 0, ntf |-> 0, prev |-> 0, active |-> FALSE, saved |-> <<>>,
              live |-> FALSE, stale |-> FALSE, told |-> <<>>, out |-> <<>>]
    /\ nm = [flag |-> TRUE, detected |-> FALSE, timer |-> "off", rfEnabled |-> FALSE, enabled |-> FALSE,
             polling |-> FALSE, reader |-> FALSE, tech |-> "all", p2p |-> FALSE, felica |-> "idle",
             awaited |-> FALSE]
    /\ svc \in [pc : {"idle"}, mode : {CHOOSE m \in Modes : TRUE}]
    /\ prio = [pc \in PrioPcs |-> 0] /\ t3t = [pc |-> "idle", h |-> 0]
    /\ count = [calls |-> 0, changes |-> 0]
----------------------------------------------------------------------------
(* NfcTag.cpp.  Its state carries what it asks of NFA in "out".            *)
Ask(t, c) == [t EXCEPT !.out = Append(@, c)]
SelectOf(e) == [c |-> "select", h |-> e.h, p |-> e.p]
\* Entries i .. i + n - 1 become e.
Fill(arr, i, n, e) == [j \in DOMAIN arr |-> IF j \in i..(i + n - 1) THEN e ELSE arr[j]]
\* A second entry needs a free place behind the first.
Places(num, n) == IF num < MaxTech - 1 THEN n ELSE 1
Least(S) == CHOOSE i \in S : \A j \in S : i <= j

resetTechnologies(t) ==
    [t EXCEPT !.num = 0, !.idx = 0, !.arr = [i \in 0..MaxTech |-> IF i = MaxTech THEN Behind ELSE Zero]]

\* discoverTechnologies of a discovery notification: behind what the list holds.  A MIFARE
\* target takes two entries whether there is room or not, and sets only the first.
Discovered(t, r) ==
    LET two == CASE r.k \in {"UL", "ISO"} -> Places(t.num, 2) [] r.k = "MFC" -> 2 [] OTHER -> 1
        filled == IF r.k = "MFC" THEN 1 ELSE two
    IN IF t.num >= MaxTech THEN t
       ELSE [t EXCEPT !.arr = Fill(@, t.num, filled, [h |-> r.h, p |-> Protocol(r.k)]),
                      !.num = t.num + two, !.disc = t.num + two]

\* discoverTechnologies of an activation: over the list, from mTechListIndex on.
Activated(t, e, k) ==
    LET n == IF k \in {"UL", "TNP", "ISO", "MFC"} THEN Places(t.idx, 2) ELSE 1
    IN IF t.idx >= MaxTech THEN [t EXCEPT !.num = t.idx]
       ELSE [t EXCEPT !.num = t.idx + n,
                      !.arr = Fill(@, t.idx, n, IF k = "TNP" THEN [e EXCEPT !.p = "MIFARE"] ELSE e)]

isP2pDiscovered(t) == \E i \in 0..(t.num - 1) : t.arr[i].p \in Dep

selectP2p(t) ==
    LET peers == {i \in 0..(t.num - 1) : t.arr[i].p \in Dep}
        peersF == {i \in peers : t.arr[i].p = "DEPF"}
        i == IF peersF # {} THEN Least(peersF) ELSE Least(peers)
    IN resetTechnologies(IF t.arr[i].h > 0 THEN Ask(t, SelectOf(t.arr[i])) ELSE t)

selectFirstTag(t) ==
    LET S == {i \in 0..(t.num - 1) : t.arr[i].p \notin Dep}
    IN IF S = {} THEN t ELSE Ask([t EXCEPT !.sel = Least(S)], SelectOf(t.arr[Least(S)]))

Others(t) == {i \in 0..(t.disc - 1) : t.arr[t.sel].h # t.arr[i].h /\ t.arr[i].p \notin Dep}
checkNextValidProtocol(t) == Others(t) # {}

selectNextTag(t) ==
    IF Others(t) = {} THEN t ELSE Ask([t EXCEPT !.sel = Least(Others(t))], SelectOf(t.arr[Least(Others(t))]))

\* fillNativeNfcTagMembers: entry i comes with the bytes of its activation; those of the
\* tags activated before are taken from the saved array, which must still be there.
Bytes(t) == [i \in 1..t.num |-> IF i <= t.idx /\ i <= Len(t.saved) THEN t.saved[i] ELSE t.arr[i - 1].h]
FillMembers(t) ==
    [t EXCEPT !.stale = @ \/ (t.idx # 0 /\ (~t.live \/ t.idx > Len(t.saved))),
              !.saved = Bytes(t), !.live = TRUE, !.idx = IF t.ntf = 0 THEN 0 ELSE t.num]
NotifyInTheMiddle(t) ==
    [t EXCEPT !.live = FALSE,
              !.told = [i \in 1..t.num |-> [h |-> t.arr[i - 1].h, b |-> t.saved[i]]]]
Notify(t) ==
    [t EXCEPT !.ntf = 0, !.live = FALSE,
              !.told = [i \in 1..t.num |-> [h |-> t.arr[i - 1].h, b |-> t.saved[i]]]]
NotifyOrForget(t) == IF t.ntf = 0 \/ ~checkNextValidProtocol(t) THEN Notify(t) ELSE [t EXCEPT !.live = FALSE]
NotifyOrNext(t) == IF t.ntf = 0 \/ ~checkNextValidProtocol(t) THEN Notify(t) ELSE t
createNativeNfcTag(t) == NotifyOrNext(FillMembers(t))
----------------------------------------------------------------------------
(* nfaConnectionCallback.  A handler maps the state x of the native code:  *)
(* x.t of NfcTag.cpp, x.m of NativeNfcManager.cpp, x.new threads started.  *)
ClearMultiprotocol(x) == [x EXCEPT !.m.detected = FALSE, !.new = @ + 1]

handleRfDiscoveryEvent(x, more) ==
    IF more = 2 THEN x
    ELSE IF ~x.m.reader /\ isP2pDiscovered(x.t)
    THEN [x EXCEPT !.t = selectP2p(x.t), !.m.timer = IF x.m.detected THEN "off" ELSE x.m.timer,
                   !.m.awaited = x.m.detected]
    ELSE IF ~x.m.reader /\ x.m.flag
    THEN [x EXCEPT !.m.flag = FALSE, !.m.detected = TRUE, !.new = @ + 1, !.m.timer = "reconfigure"]
    ELSE [x EXCEPT !.t = selectFirstTag([x.t EXCEPT !.ntf = IF x.m.reader THEN 0 ELSE x.t.ntf - 1]),
                   !.m.flag = TRUE]

\* One more notification (mNumDiscNtf), and whether more were announced (prev_more_val).
Counted(t, more) == [t EXCEPT !.prev = more, !.ntf = t.ntf + 1]
OnDiscResult(x, r, more) ==
    IF more = 1 /\ x.t.prev # 2 THEN [x EXCEPT !.t.ntf = 0]
    ELSE handleRfDiscoveryEvent(
           [x EXCEPT !.t = Counted(Discovered(x.t, r), more)], more)

\* A peer in reader mode: pollT3TThread tries it as a Felica tag, every other time.
PeerInReaderMode(x, h) ==
    IF x.m.felica \in {"idle", "selected"} THEN [x EXCEPT !.m.felica = "dep", !.t3t = [pc |-> "begin", h |-> h]]
    ELSE [x EXCEPT !.m.felica = "idle", !.t = Ask(x.t, [c |-> "idle"])]
SleepForNext(t) == IF t.ntf # 0 THEN Ask(t, [c |-> "sleep"]) ELSE t
RestoredForPeers(x, p) == IF x.m.detected /\ p \in Dep \cup {"T3T"} THEN [x EXCEPT !.m.timer = "off"] ELSE x
Restored(x, p) ==
    IF ~x.m.detected THEN x
    ELSE IF p \in Dep THEN [x EXCEPT !.m.timer = "off"]
    ELSE IF p = "T3T" THEN ClearMultiprotocol([x EXCEPT !.m.timer = "off"]) ELSE x
ActivatedTag(x, e, k) ==
    IF e.p \notin Dep
    THEN [x EXCEPT !.t = SleepForNext(createNativeNfcTag(Activated([x.t EXCEPT !.active = TRUE], e, k)))]
    ELSE IF x.m.reader THEN PeerInReaderMode([x EXCEPT !.t.active = TRUE], e.h)
    ELSE [x EXCEPT !.t.active = TRUE, !.m.p2p = TRUE]
OnActivated(x, e, k) == ActivatedTag(Restored([x EXCEPT !.m.awaited = FALSE], e.p), e, k)

NextTag(t) == IF t.ntf # 0 THEN selectNextTag([t EXCEPT !.ntf = @ - 1]) ELSE t
Gone(t, type) ==
    IF type = "sleep" THEN t
    ELSE resetTechnologies([t EXCEPT !.ntf = 0, !.active = FALSE, !.told = <<>>])
AfterPeer(x) == IF x.m.detected /\ x.m.p2p THEN ClearMultiprotocol([x EXCEPT !.m.flag = TRUE]) ELSE x
FelicaAsleep(x, type) ==
    IF ~x.m.reader \/ type # "sleep" THEN x
    ELSE IF x.m.felica = "dep"
    THEN [x EXCEPT !.m.felica = "asleep", !.t3t.pc = IF x.t3t.pc = "sleepW" THEN "select" ELSE x.t3t.pc]
    ELSE [x EXCEPT !.m.felica = "idle"]
OnDeactivated(x, type) ==
    LET y == AfterPeer(x) IN
    FelicaAsleep([y EXCEPT !.t = Gone(NextTag(y.t), type), !.m.p2p = y.m.p2p /\ type = "sleep"], type)

OnSelectResultIgnored(x, ok) == IF ok THEN x ELSE [x EXCEPT !.t.idx = 0]
OnSelectResult(x, ok) ==
    IF ~ok THEN [x EXCEPT !.t = Ask([x.t EXCEPT !.idx = 0], [c |-> "idle"])]
    ELSE IF x.m.reader /\ x.m.felica = "asleep"
    THEN [x EXCEPT !.m.felica = "selected", !.t3t.pc = IF x.t3t.pc = "selectW" THEN "idle" ELSE x.t3t.pc]
    ELSE x
----------------------------------------------------------------------------
(* sNfaEnableDisablePollingEvent.  Whoever asks NFA waits under the event's *)
(* mutex, so no notification precedes the wait; but it may be another's.    *)
Queue(q, c) == [nfa EXCEPT !.q = Append(q, c)]
AskNfa(c) == nfa' = Queue(nfa.q, c)
Cmd(c) == [c |-> c]
Enable(m) == [c |-> "enable", m |-> m]
PrioTo(from, to) == [prio EXCEPT ![from] = @ - 1, ![to] = @ + 1]
PrioEnds(from) == [prio EXCEPT ![from] = @ - 1]
AfterWait(pc) == CASE pc = "stopW" -> "disable" [] pc = "disableW" -> "enable" [] pc = "enableW" -> "start"
                   [] pc = "startW" -> "end"
SvcAfterWait(pc) == CASE pc = "stopW" -> "disable" [] pc = "disableW" -> "enable" [] pc = "enableW" -> "mode"
                      [] pc = "startW" -> "started" [] pc = "offW" -> "offDisable" [] pc = "offDisableW" -> "offEnd"
PrioWaits == {pc \in {"stopW", "disableW", "enableW", "startW"} : prio[pc] > 0}
SvcWaits == svc.pc \in {"stopW", "disableW", "enableW", "startW", "offW", "offDisableW"}
NotifyTheService ==
    \/ SvcWaits /\ svc' = [svc EXCEPT !.pc = SvcAfterWait(@)] /\ UNCHANGED prio
    \/ ~SvcWaits /\ UNCHANGED <<svc, prio>>
NotifyOne ==
    \/ \E pc \in PrioWaits : prio' = PrioTo(pc, AfterWait(pc)) /\ UNCHANGED svc
    \/ SvcWaits /\ svc' = [svc EXCEPT !.pc = SvcAfterWait(@)] /\ UNCHANGED prio
    \/ PrioWaits = {} /\ ~SvcWaits /\ UNCHANGED <<svc, prio>>
\* No call is under way and no thread has anything to do but wait.
Resting == /\ svc.pc = "idle"
           /\ \A pc \in {"begin", "disable", "enable", "start", "end"} : prio[pc] = 0
           /\ t3t.pc \notin {"begin", "select"}
----------------------------------------------------------------------------
(* p2p_prio_logic_multiprotocol and startRfDiscovery.                      *)
PrioBegins ==
    /\ prio["begin"] > 0
    /\ IF nm.rfEnabled THEN AskNfa(Cmd("stop")) /\ prio' = PrioTo("begin", "stopW")
       ELSE AskNfa(Cmd("disable")) /\ prio' = PrioTo("begin", "disableW")
    /\ UNCHANGED <<field, tag, nm, svc, t3t, count>>
PrioStopped ==
    /\ prio["disable"] > 0
    /\ nm' = [nm EXCEPT !.rfEnabled = FALSE] /\ AskNfa(Cmd("disable")) /\ prio' = PrioTo("disable", "disableW")
    /\ UNCHANGED <<field, tag, svc, t3t, count>>
PrioDisabled ==
    /\ prio["enable"] > 0
    /\ AskNfa(Enable(IF nm.detected THEN "F" ELSE "all")) /\ prio' = PrioTo("enable", "enableW")
    /\ UNCHANGED <<field, tag, nm, svc, t3t, count>>
PrioEnabled ==
    /\ prio["start"] > 0
    /\ IF nm.rfEnabled THEN prio' = PrioEnds("start") /\ UNCHANGED nfa
       ELSE AskNfa(Cmd("start")) /\ prio' = PrioTo("start", "startW")
    /\ UNCHANGED <<field, tag, nm, svc, t3t, count>>
PrioStarted ==
    /\ prio["end"] > 0
    /\ nm' = [nm EXCEPT !.rfEnabled = TRUE] /\ prio' = PrioEnds("end")
    /\ UNCHANGED <<nfa, field, tag, svc, t3t, count>>

\* multiprotocol_timer: reconfigure_poll_cb, then multiprotocol_clear_flag.
TimerFires ==
    /\ nm.timer # "off" /\ (Prompt => Resting /\ PrioWaits = {})
    /\ IF nm.timer = "reconfigure"
       THEN /\ nm' = [nm EXCEPT !.detected = FALSE, !.timer = "clear"]
            /\ prio' = [prio EXCEPT !["begin"] = @ + 1]
       ELSE nm' = [nm EXCEPT !.flag = TRUE, !.timer = "off"] /\ UNCHANGED prio
    /\ UNCHANGED <<nfa, field, tag, svc, t3t, count>>
----------------------------------------------------------------------------
(* nfcManager_enableDiscovery and nfcManager_disableDiscovery.             *)
Undisturbed == Prompt => nm.timer = "off" /\ nfa.rf # "results" /\ prio = [pc \in PrioPcs |-> 0]
EnableDiscovery(mode) ==
    /\ svc.pc = "idle" /\ count.calls + count.changes < MaxInputs /\ Undisturbed
    /\ count' = [count EXCEPT !.calls = @ + 1]
    /\ IF nm.rfEnabled
       THEN AskNfa(Cmd("stop")) /\ svc' = [pc |-> "stopW", mode |-> mode] /\ UNCHANGED nm
       ELSE /\ AskNfa(Cmd("disable")) /\ svc' = [pc |-> "disableW", mode |-> mode]
            /\ nm' = [nm EXCEPT !.polling = FALSE]
    /\ UNCHANGED <<field, tag, prio, t3t>>
SvcStopped ==
    /\ svc.pc = "disable"
    /\ nm' = [nm EXCEPT !.rfEnabled = FALSE, !.polling = FALSE]
    /\ AskNfa(Cmd("disable")) /\ svc' = [svc EXCEPT !.pc = "disableW"]
    /\ UNCHANGED <<field, tag, prio, t3t, count>>
SvcDisabled ==
    /\ svc.pc = "enable" /\ svc.mode.tech # "none"
    /\ nm' = [nm EXCEPT !.polling = TRUE]
    /\ AskNfa(Enable(svc.mode.tech)) /\ svc' = [svc EXCEPT !.pc = "enableW"]
    /\ UNCHANGED <<field, tag, prio, t3t, count>>
SvcListensOnly ==
    /\ svc.pc = "enable" /\ svc.mode.tech = "none"
    /\ AskNfa(Cmd("start")) /\ svc' = [svc EXCEPT !.pc = "startW"]
    /\ UNCHANGED <<field, tag, nm, prio, t3t, count>>
\* sTechMask is set only when reader mode is entered.
SvcEnabled ==
    /\ svc.pc = "mode"
    /\ nm' = [nm EXCEPT !.reader = svc.mode.reader,
                        !.tech = IF svc.mode.reader /\ ~nm.reader THEN svc.mode.tech ELSE @,
                        !.felica = IF ~svc.mode.reader /\ nm.reader THEN "idle" ELSE @]
    /\ AskNfa(Cmd("start")) /\ svc' = [svc EXCEPT !.pc = "startW"]
    /\ UNCHANGED <<field, tag, prio, t3t, count>>
SvcStarted ==
    /\ svc.pc = "started"
    /\ nm' = [nm EXCEPT !.rfEnabled = TRUE, !.enabled = TRUE] /\ svc' = [svc EXCEPT !.pc = "idle"]
    /\ UNCHANGED <<nfa, field, tag, prio, t3t, count>>

DisableDiscovery ==
    /\ svc.pc = "idle" /\ count.calls + count.changes < MaxInputs /\ nm.enabled /\ Undisturbed
    /\ count' = [count EXCEPT !.calls = @ + 1]
    /\ AskNfa(Cmd("stop")) /\ svc' = [svc EXCEPT !.pc = "offW"]
    /\ UNCHANGED <<field, tag, nm, prio, t3t>>
SvcOff ==
    /\ svc.pc = "offDisable"
    /\ IF nm.polling
       THEN /\ nm' = [nm EXCEPT !.rfEnabled = FALSE, !.polling = FALSE]
            /\ AskNfa(Cmd("disable")) /\ svc' = [svc EXCEPT !.pc = "offDisableW"]
       ELSE nm' = [nm EXCEPT !.rfEnabled = FALSE] /\ svc' = [svc EXCEPT !.pc = "offEnd"] /\ UNCHANGED nfa
    /\ UNCHANGED <<field, tag, prio, t3t, count>>
SvcOffEnd ==
    /\ svc.pc = "offEnd"
    /\ nm' = [nm EXCEPT !.enabled = FALSE] /\ svc' = [svc EXCEPT !.pc = "idle"]
    /\ UNCHANGED <<nfa, field, tag, prio, t3t, count>>
----------------------------------------------------------------------------
(* pollT3TThread: the peer is put to sleep and selected as a Felica tag.   *)
\* Its waits last two seconds: longer than NFA needs for what it has been asked.
T3tBegins ==
    /\ t3t.pc = "begin"
    /\ IF nm.reader /\ nm.tech = "F" THEN AskNfa(Cmd("sleep")) /\ t3t' = [t3t EXCEPT !.pc = "sleepW"]
       ELSE t3t' = [t3t EXCEPT !.pc = "idle"] /\ UNCHANGED nfa
    /\ UNCHANGED <<field, tag, nm, svc, prio, count>>
T3tSelects ==
    /\ t3t.pc = "select"
    /\ AskNfa(SelectOf([h |-> t3t.h, p |-> "T3T"])) /\ t3t' = [t3t EXCEPT !.pc = "selectW"]
    /\ UNCHANGED <<field, tag, nm, svc, prio, count>>
T3tTimesOut ==
    /\ t3t.pc \in {"sleepW", "selectW"} /\ nfa.q = <<>>
    /\ t3t' = [t3t EXCEPT !.pc = IF @ = "sleepW" THEN "select" ELSE "idle"]
    /\ UNCHANGED <<nfa, field, tag, nm, svc, prio, count>>
----------------------------------------------------------------------------
(* External: NFA and the controller.  The head of the queue is an event to *)
(* report or a request to carry out; a request's events come first.        *)
Job == Head(nfa.q).c
Rest == Tail(nfa.q)
Working == nfa.q # <<>>
Free == IF Working THEN Job \in Commands ELSE TRUE
Ev(c) == [c |-> c]
Down(type) == [c |-> "DEACTIVATED", type |-> type]
Up(e, k) == [c |-> "ACTIVATED", h |-> e.h, p |-> e.p, k |-> k]
\* A target answers to its protocol, a phone with Felica to that as well.
Answers(e) ==
    /\ e.h \in 1..Len(field)
    /\ \/ e.p = Protocol(field[e.h]) \/ (field[e.h] = "P2PF" /\ e.p = "T3T")
       \/ (field[e.h] = "TNP" /\ e.p = "MIFARE")
KindAs(e) == IF e.p = "T3T" THEN "T3T" ELSE field[e.h]
To(rf, events) == nfa' = [nfa EXCEPT !.rf = rf, !.todo = {}, !.q = events \o Rest,
                                     !.on = IF rf = "active" THEN @ ELSE Zero]
External == UNCHANGED <<field, tag, nm, svc, prio, t3t, count>>

\* What is reported when what was selected is left: of a sleeping target, or not.
Left == IF nfa.rf = "active" THEN {<<Down("idle")>>} ELSE IF nfa.rf = "sleep" THEN {<<>>, <<Down("idle")>>} ELSE {<<>>}

NfaStops == /\ Working /\ Job = "stop" /\ External
            /\ \E d \in Left : To("idle", Append(d, Ev("STOPPED")))
NfaStarts == /\ Working /\ Job = "start" /\ External
             /\ IF nfa.rf = "idle" THEN To("poll", <<Ev("STARTED")>>) ELSE nfa' = [nfa EXCEPT !.q = <<Ev("STARTED")>> \o Rest]
\* Polling is changed only while discovery is stopped.
NfaPolling ==
    /\ Working /\ Job \in {"disable", "enable"} /\ External
    /\ nfa' = [nfa EXCEPT !.q = <<Ev("POLL")>> \o Rest,
                          !.mask = IF nfa.rf # "idle" THEN @ ELSE IF Job = "disable" THEN "none"
                                   ELSE IF @ = "none" THEN Head(nfa.q).m ELSE @]
NfaSelects ==
    /\ Working /\ Job = "select" /\ External
    /\ LET e == [h |-> Head(nfa.q).h, p |-> Head(nfa.q).p] IN
       IF nfa.rf \in {"select", "sleep"} /\ Answers(e)
       THEN nfa' = [nfa EXCEPT !.rf = "active", !.on = e, !.q = <<Ev("SELECT_OK"), Up(e, KindAs(e))>> \o Rest]
       ELSE nfa' = [nfa EXCEPT !.q = <<Ev("SELECT_FAIL")>> \o Rest]
NfaDeactivates ==
    /\ Working /\ Job \in {"sleep", "idle"} /\ External
    /\ CASE nfa.rf = "idle" -> nfa' = [nfa EXCEPT !.q = <<Ev("DEACTIVATE_FAIL")>> \o Rest]
         [] nfa.rf = "active" /\ Job = "sleep" ->
              IF Answers(nfa.on) THEN To("sleep", <<Down("sleep")>>) ELSE To("poll", <<Down("discovery")>>)
         [] nfa.rf # "active" /\ Job = "sleep" -> nfa' = [nfa EXCEPT !.q = <<Ev("DEACTIVATE_FAIL")>> \o Rest]
         [] nfa.rf # "idle" /\ Job = "idle" -> \E d \in Left : To("poll", d)

\* The targets in the field that the enabled polling finds, each with its kind.
Found == {r \in {[h |-> i, k |-> field[i]] : i \in 1..Len(field)} :
             nfa.mask = "all" \/ r.k \in {"T3T", "P2PF"}}
TargetsAnswer ==
    /\ nfa.rf = "poll" /\ nfa.mask # "none" /\ ~Working /\ Found # {} /\ tag.ntf <= MaxNtf
    /\ (Prompt => Resting)
    /\ \/ \E r \in Found : LET e == [h |-> r.h, p |-> Protocol(r.k)] IN
          Found = {r} /\ nfa' = [nfa EXCEPT !.rf = "active", !.on = e, !.q = <<Up(e, r.k)>>]
       \/ (\A r \in Found : Found # {r}) /\ nfa' = [nfa EXCEPT !.rf = "results", !.todo = Found]
    /\ External

\* The link is lost: the service's presence check or LLCP takes it down.
TargetLost ==
    /\ nfa.rf = "active" /\ ~Working /\ ~Answers(nfa.on) /\ t3t.pc = "idle"
    /\ AskNfa(Cmd("idle")) /\ External
FieldChanges(f) ==
    /\ f # field /\ count.calls + count.changes < MaxInputs
    /\ field' = f /\ count' = [count EXCEPT !.changes = @ + 1]
    /\ UNCHANGED <<nfa, tag, nm, svc, prio, t3t>>
----------------------------------------------------------------------------
(* The callback's steps: x is what its handler leaves, n the rest of NFA.  *)
Here == [t |-> tag, m |-> nm, new |-> 0, t3t |-> t3t]
Callback(x, n) ==
    \E y \in {x} :  \* TLC evaluates the handler once
    /\ nfa' = [n EXCEPT !.q = @ \o y.t.out] /\ tag' = [y.t EXCEPT !.out = <<>>] /\ nm' = y.m
    /\ prio' = [prio EXCEPT !["begin"] = @ + y.new] /\ t3t' = y.t3t
    /\ UNCHANGED <<field, svc, count>>
Reports(c) == Working /\ Job = c
Popped == [nfa EXCEPT !.q = Rest]

\* The targets are reported in the order of their IDs.
ResultIsReported ==
    /\ nfa.rf = "results" /\ Free
    /\ \E r \in nfa.todo : LET last == nfa.todo = {r} IN
       /\ \A o \in nfa.todo : r.h <= o.h
       /\ \E more \in IF last THEN {0, 1} ELSE {2} :
          Callback(OnDiscResult(Here, r, more),
                   [nfa EXCEPT !.todo = @ \ {r}, !.rf = IF last THEN "select" ELSE @])
ActivationIsReported ==
    /\ Reports("ACTIVATED")
    /\ Callback(OnActivated(Here, [h |-> Head(nfa.q).h, p |-> Head(nfa.q).p], Head(nfa.q).k), Popped)
DeactivationIsReported ==
    Reports("DEACTIVATED") /\ Callback(OnDeactivated(Here, Head(nfa.q).type), Popped)
SelectResultIsReported ==
    \E ok \in BOOLEAN : /\ Reports(IF ok THEN "SELECT_OK" ELSE "SELECT_FAIL")
                        /\ Callback(OnSelectResult(Here, ok), Popped)
\* The answers to start, stop, enable and disable, and a refused deactivation.
AnswerIsReported ==
    /\ Working /\ Job \in {"STOPPED", "STARTED", "POLL", "DEACTIVATE_FAIL"}
    /\ NotifyOne /\ nfa' = Popped
    /\ UNCHANGED <<field, tag, nm, t3t, count>>

PrioSteps == PrioBegins \/ PrioStopped \/ PrioDisabled \/ PrioEnabled \/ PrioStarted
SvcSteps == SvcStopped \/ SvcDisabled \/ SvcListensOnly \/ SvcEnabled \/ SvcStarted \/ SvcOff \/ SvcOffEnd
T3tSteps == T3tBegins \/ T3tSelects \/ T3tTimesOut
NfaSteps == NfaStops \/ NfaStarts \/ NfaPolling \/ NfaSelects \/ NfaDeactivates \/ TargetsAnswer \/ TargetLost
Reported == ResultIsReported \/ ActivationIsReported \/ DeactivationIsReported \/ SelectResultIsReported
            \/ AnswerIsReported

Next ==
    \/ \E m \in Modes : EnableDiscovery(m)
    \/ DisableDiscovery
    \/ \E f \in Fields : FieldChanges(f)
    \/ SvcSteps \/ PrioSteps \/ T3tSteps \/ TimerFires \/ NfaSteps \/ Reported

\* Threads run, NFA works off its queue, timers expire, a target in the field answers the poll.
Fairness == /\ WF_vars(PrioSteps) /\ WF_vars(SvcSteps) /\ WF_vars(T3tSteps) /\ WF_vars(TimerFires)
            /\ WF_vars(NfaSteps) /\ WF_vars(Reported)
Spec == Init /\ [][Next]_vars /\ Fairness
----------------------------------------------------------------------------
Running == svc.pc # "idle" \/ \E pc \in PrioPcs : prio[pc] > 0
\* The poll and activation bytes the service was given for a handle are that handle's
\* (fillNativeNfcTagMembers3 and 4).
BytesAreTheirs == \A i \in DOMAIN tag.told : tag.told[i].b = tag.told[i].h

\* What the service is told of is the tag it can talk to: the active target is the last of
\* the list unless that was full before, each entry's bytes are its own, none come from an
\* array that was given back (fillNativeNfcTagMembers3 and 4, deleteglobaldata).
ToldOfTheActiveTag ==
    /\ ~tag.stale /\ BytesAreTheirs
    /\ tag.told # <<>> /\ nfa.rf = "active" =>
           tag.told[Len(tag.told)].h = nfa.on.h \/ Len(tag.told) >= MaxTech

\* A tag the service knows is left alone: nothing of the walk over the discovered targets
\* (SleepForNext, selectNextTag) is under way any more.  A select may be left once
\* pollT3TThread has been at work, which does not know of the walk.
Asked(c) == \E i \in DOMAIN nfa.q : nfa.q[i].c = c
ToldTagIsLeftAlone ==
    tag.told # <<>> /\ nfa.rf = "active" =>
        tag.ntf = 0 /\ ~Asked("sleep") /\ (t3t.h = 0 => ~Asked("select"))

\* The walk never stops half way: when NFA and all threads rest, the active target is known
\* to the service and no target is left asleep or unselected.
WalkEnds ==
    ~Working /\ ~Running /\ t3t.pc = "idle" /\ nm.timer # "reconfigure" =>
        /\ nfa.rf \notin {"sleep", "select"}
        /\ nfa.rf = "active" => tag.told # <<>> \/ nm.p2p \/ (nm.reader /\ nfa.on.p \in Dep)

\* Whoever waits for NFA is woken: no thread is left behind on the event they all share
\* (sNfaEnableDisablePollingEvent), so the service's call returns.
ThreadsEnd == Running ~> ~Running

\* Whoever waits on the event they all share was not forgotten: for every thread that waits,
\* NFA has an order to work off or an answer to report, of whichever of them.
Answered == {"stop", "start", "disable", "enable", "STOPPED", "STARTED", "POLL"}
ToCome(q) == Cardinality({i \in 1..Len(q) : q[i].c \in Answered})
Waiters == prio["stopW"] + prio["disableW"] + prio["enableW"] + prio["startW"] + IF SvcWaits THEN 1 ELSE 0
WaitersAreAnswered == Waiters <= ToCome(nfa.q)

\* The entries up to mTechListIndex are those the saved array was filled with: nothing writes
\* before that index, and who makes the list shorter puts it back.
EntriesAreSaved ==
    /\ tag.idx <= tag.num /\ tag.idx <= Len(tag.saved)
    /\ \A i \in 1..tag.idx : tag.saved[i] = tag.arr[i - 1].h

\* NFA reports before it carries out the next request: an activation or deactivation is
\* the next event, only "selected" comes before "activated".
EventsComeFirst ==
    \A i \in DOMAIN nfa.q :
        /\ nfa.q[i].c = "DEACTIVATED" => i = 1
        /\ nfa.q[i].c = "ACTIVATED" => i = 1 \/ (i = 2 /\ nfa.q[1].c = "SELECT_OK")
        /\ nfa.q[i].c = "SELECT_OK" => i = 1 /\ Len(nfa.q) > 1 /\ nfa.q[2].c = "ACTIVATED"

\* What is reported of the link is still so: no request has been carried out since.
EventsAreOfTheLink ==
    /\ nfa.rf = "active" => nfa.on.h # 0
    /\ \A i \in DOMAIN nfa.q :
        /\ nfa.q[i].c = "ACTIVATED" => nfa.rf = "active" /\ nfa.q[i].h = nfa.on.h
        /\ nfa.q[i].c = "DEACTIVATED" =>
               nfa.rf \in IF nfa.q[i].type = "sleep" THEN {"sleep"} ELSE {"idle", "poll"}

\* The service knows a tag only while it is active, until its deactivation is reported.
ToldUntilGone ==
    /\ Asked("ACTIVATED") => tag.told = <<>>
    /\ tag.told # <<>> =>
        /\ tag.ntf = 0
        /\ nfa.rf = "active" \/ (nfa.q # <<>> /\ nfa.q[1].c = "DEACTIVATED" /\ nfa.q[1].type # "sleep")

\* At most one request to put the target to sleep is under way, and none before its activation
\* has been reported; pollT3TThread begins only where there is none.
OneSleep ==
    /\ nfa.rf \in {"results", "select", "sleep"} \/ Asked("ACTIVATED") => ~Asked("sleep")
    /\ nfa.rf = "active" =>
           \A i, j \in DOMAIN nfa.q : nfa.q[i].c = "sleep" /\ nfa.q[j].c = "sleep" => i = j
    /\ t3t.pc = "begin" => /\ nfa.rf \in {"idle", "poll", "active"} /\ ~Asked("ACTIVATED")
                           /\ nfa.rf = "active" => ~Asked("sleep") /\ tag.told = <<>>

\* Without pollT3TThread at most one target is being selected, and none while one is active.
OneSelect ==
    t3t.h = 0 =>
        /\ t3t.pc = "idle"
        /\ nfa.rf \in {"results", "active"} \/ (nfa.rf = "sleep" /\ Asked("DEACTIVATED")) => ~Asked("select")
        /\ nfa.rf \in {"select", "sleep"} =>
               \A i, j \in DOMAIN nfa.q : nfa.q[i].c = "select" /\ nfa.q[j].c = "select" => i = j

\* The saved array exists as long as entries are to be filled from it.
SavedIsThere == tag.idx # 0 /\ tag.told = <<>> => tag.live

WalkInv == EventsComeFirst /\ EventsAreOfTheLink /\ ToldUntilGone /\ OneSleep /\ OneSelect /\ SavedIsThere

\* The state has its types, no thread is forgotten, the list and the saved array agree, and a
\* tag the service was told of is left alone.
DiscoveryInv == TypeOK /\ WaitersAreAnswered /\ EntriesAreSaved /\ (Prompt \/ t3t.h = 0 => WalkInv /\ ToldTagIsLeftAlone)

\* Polling for peers only is undone: while the service has discovery enabled and no timer,
\* thread or peer is left to undo it, not only Felica is polled (reconfigure_poll_cb,
\* clear_multiprotocol and who calls them), unless the timer was stopped for a peer that was
\* selected among several targets (NativeNfcManager.cpp:511) and no target came up since.
AllTechnologiesAgain ==
    nm.enabled /\ ~Working /\ ~Running /\ nm.timer = "off" /\ ~nm.p2p /\ ~nm.awaited =>
        nfa.mask # "F" \/ nm.reader
=============================================================================
