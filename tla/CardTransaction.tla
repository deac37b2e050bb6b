--------------------------- MODULE CardTransaction ---------------------------
(***************************************************************************)
(* What nci/jni/NativeNfcManager.cpp does to keep a payment undisturbed:   *)
(* checkforTranscation follows the reader through the events of the stack, *)
(* and while a transaction is in progress a change of the screen or of the *)
(* discovery is stored in transaction_data.  When the reader is gone, at   *)
(* once or after a timer, enableThread performs what was stored.           *)
(* A call that reconfigures the radio looks at transaction_data first and  *)
(* holds the RF mutex afterwards: two actions.  As built for the PN548C2.  *)
(***************************************************************************)
EXTENDS Integers, FiniteSets

CONSTANTS SeSelected,  \* is a secure element routed to (sIsSecElemSelected)?
          MaxTaps,     \* bound on the activations by a reader
          MaxCalls,    \* bound on what the service asks for
          MaxThreads   \* bound on the enableThreads at a time

ASSUME TransactionAssumption ==
    /\ SeSelected \in BOOLEAN
    /\ MaxThreads \in Nat \ {0}

VARIABLES
    td,      \* transaction_data
    timer,   \* is scleanupTimerProc_transaction set?
    threads, \* the enableThreads
    svc,     \* where NfcService is: screen state first, routing afterwards
    wish,    \* what NfcService last asked for
    dev,     \* the static variables of NativeNfcManager and what the chip polls
    reader,  \* the reader in front of the device
    hist     \* history: which of the cases of Races have happened

vars == <<td, timer, threads, svc, wish, dev, reader, hist>>

-----------------------------------------------------------------------------
(* Screen states 1 off, 2 locked, 3 unlocked; 0 is the default. *)
Screens == 1 .. 3

(* computeDiscoveryParameters: discovery with host routing only when locked;
   peers or a reader application when unlocked. *)
Off == [enable |-> FALSE, poll |-> FALSE, p2p |-> FALSE, reader |-> FALSE]
HostOnly == [Off EXCEPT !.enable = TRUE]
Polls == [HostOnly EXCEPT !.poll = TRUE, !.p2p = TRUE]
ReaderMode == [HostOnly EXCEPT !.poll = TRUE, !.reader = TRUE]
Params == {Off, HostOnly, Polls, ReaderMode}
Wanted(screen) == CASE screen = 3 -> {Polls, ReaderMode}
                    [] screen = 2 -> {HostOnly}
                    [] OTHER -> {Off}

(* A call of the native manager. *)
NoCall == [op |-> "none", screen |-> 0, params |-> Off, restart |-> FALSE]
SetScreen(s) == [NoCall EXCEPT !.op = "screen", !.screen = s]
Enable(p, restart) == [NoCall EXCEPT !.op = "enable", !.params = p, !.restart = restart]
Disable == [NoCall EXCEPT !.op = "disable"]

Fresh == [inProgress |-> FALSE, request |-> 0, screen |-> 0, state |-> "default",
          params |-> Off, restart |-> FALSE]
Gone == [at |-> "none", request |-> 0, screen |-> 0, call |-> NoCall]

Init ==
    /\ td = Fresh
    /\ timer = FALSE
    /\ threads = [i \in 1 .. MaxThreads |-> Gone]
    /\ svc = [at |-> "idle", call |-> NoCall, force |-> FALSE, route |-> "set", calls |-> 0]
    /\ wish = [screen |-> 0, params |-> Off]
    /\ dev = [on |-> TRUE, screen |-> 0, discovery |-> FALSE, polling |-> FALSE, rf |-> FALSE,
              chipPolls |-> FALSE, p2p |-> FALSE, p2pListens |-> FALSE, reader |-> FALSE]
    /\ reader = [field |-> FALSE, card |-> FALSE, alone |-> FALSE, taps |-> 0]
    /\ hist = [raced |-> FALSE, returned |-> FALSE]

Running == {i \in 1 .. MaxThreads : threads[i].at # "none"}

(* The threads that have read what was stored, and those that perform it. *)
Reading == {i \in Running : threads[i].at = "read"}
AtWork == {i \in Running : threads[i].at \notin {"made", "read"}}
Held == td.request # 0 \/ td.screen # 0

(* The cases in which nothing is promised of what was stored, each of which the code
   lets happen: a call of the service beside a thread, a reader back in a
   transaction or NFC off beside a thread at work, two threads at once, NFC off
   with something stored. *)
Races ==
    \/ Reading \cup AtWork # {} /\ svc.at # "idle"
    \/ AtWork # {} /\ (td.inProgress \/ ~dev.on)
    \/ \E i, j \in Reading \cup AtWork : i # j
    \/ ~dev.on /\ Held

(* The history: has such a case happened, and has a reader come back to a thread? *)
Notes == hist' = [raced |-> hist.raced \/ Races',
                  returned |-> hist.returned \/ (reader'.card /\ Running' # {})]

-----------------------------------------------------------------------------
(* The calls, up to the RF mutex and under it. *)

Ignored(call, d) ==
    CASE call.op = "screen" -> ~d.on \/ (~td.inProgress /\ d.screen = call.screen)
      [] call.op = "enable" -> ~td.inProgress /\ d.discovery /\ ~call.restart
      [] call.op = "disable" -> ~td.inProgress /\ ~d.discovery

(* Mutant: a screen state is set at once. *)
IsHeldButScreens(call, d) == td.inProgress /\ ~Ignored(call, d) /\ call.op # "screen"
IsHeld(call, d) == td.inProgress /\ ~Ignored(call, d)

(* set_last_request, set_lastScreenStateRequest.
   Mutant: the screen state is stored as the request. *)
StoredMixed(call) ==
    CASE call.op = "screen" -> [td EXCEPT !.request = call.screen]
      [] call.op = "disable" -> [td EXCEPT !.request = 2]
      [] OTHER -> [td EXCEPT !.request = 1, !.params = call.params, !.restart = call.restart]
Stored(call) ==
    CASE call.op = "screen" -> [td EXCEPT !.screen = call.screen]
      [] call.op = "disable" -> [td EXCEPT !.request = 2]
      [] OTHER -> [td EXCEPT !.request = 1, !.params = call.params, !.restart = call.restart]

(* nfcManager_doSetScreenState: discovery ends, and begins again only between
   off and locked. *)
ScreenSet(d, s) ==
    [d EXCEPT !.screen = s,
              !.chipPolls = @ /\ s = 3,
              !.rf = (d.screen = 1 /\ s = 2) \/ (d.screen = 2 /\ s = 1 /\ SeSelected)]

(* nfcManager_enableDiscovery.  An all-zero mask leaves the reader mode alone,
   and the peers' part below it is reached when discovery was on already. *)
Enabled(d, p) ==
    [d EXCEPT !.polling = p.poll, !.chipPolls = p.poll,
              !.p2p = IF p.poll THEN p.p2p ELSE @,
              !.reader = IF p.poll THEN p.reader ELSE @,
              !.p2pListens = IF d.discovery \/ ~p.poll THEN d.screen = 3 ELSE p.p2p /\ ~d.p2p,
              !.rf = TRUE, !.discovery = TRUE]

(* nfcManager_disableDiscovery. *)
Disabled(d) ==
    [d EXCEPT !.polling = FALSE, !.chipPolls = @ /\ ~d.polling, !.discovery = FALSE,
              !.p2p = FALSE, !.p2pListens = FALSE, !.rf = SeSelected]

Performed(d, call) ==
    CASE ~d.on -> d
      [] call.op = "screen" -> ScreenSet(d, call.screen)
      [] call.op = "enable" -> Enabled(d, call.params)
      [] OTHER -> Disabled(d)

-----------------------------------------------------------------------------
(* NfcService: applyRouting, after a change of the screen or by itself. *)

(* The call is stored, ignored, or goes on to the RF mutex. *)
Asks(call, ready, next) ==
    /\ td' = IF IsHeld(call, dev) THEN Stored(call) ELSE td
    /\ svc' = [svc EXCEPT !.at = IF IsHeld(call, dev) \/ Ignored(call, dev) THEN next ELSE ready,
                          !.call = IF IsHeld(call, dev) \/ Ignored(call, dev) THEN NoCall ELSE call]

ScreenChanges(s) ==
    /\ svc.at = "idle" /\ dev.on
    /\ svc.calls < MaxCalls
    /\ s # wish.screen
    /\ wish' = [wish EXCEPT !.screen = s]
    /\ Asks(SetScreen(s), "screen", "routing")
    /\ UNCHANGED <<timer, threads, dev, reader>>
    /\ Notes

ScreenIsSet ==
    /\ svc.at = "screen"
    /\ dev' = Performed(dev, svc.call)
    /\ svc' = [svc EXCEPT !.at = "routing", !.call = NoCall]
    /\ UNCHANGED <<td, timer, threads, wish, reader>>
    /\ Notes

(* MSG_COMMIT_ROUTING: the routing table is set again while discovery is on. *)
CommitsRouting ==
    /\ svc.at = "idle" /\ dev.on
    /\ svc.calls < MaxCalls
    /\ wish.params.enable
    /\ svc' = [svc EXCEPT !.at = "commit", !.route = "dirty"]
    /\ UNCHANGED <<td, timer, threads, wish, dev, reader>>
    /\ Notes

(* nfcManager_setDefaultRoute, from computeDiscoveryParameters when the table is
   dirty: discovery ends and begins again, whatever transaction_data holds. *)
EndsDiscovery ==
    /\ svc.at \in {"routing", "commit"} /\ svc.route = "dirty"
    /\ dev' = [dev EXCEPT !.rf = FALSE]
    /\ svc' = [svc EXCEPT !.route = "setting"]
    /\ UNCHANGED <<td, timer, threads, wish, reader>>
    /\ Notes
DefaultRouteIsSet ==
    /\ svc.route = "setting"
    /\ dev' = [dev EXCEPT !.rf = TRUE]
    /\ svc' = [svc EXCEPT !.route = "set"]
    /\ UNCHANGED <<td, timer, threads, wish, reader>>
    /\ Notes

(* applyRouting: unless it is forced, equal parameters are not sent again. *)
AppliesRouting(p) ==
    /\ svc.at \in {"routing", "commit"} /\ svc.route = "set"
    /\ p \in Wanted(wish.screen)
    /\ wish' = [wish EXCEPT !.params = p]
    /\ IF p = wish.params /\ ~svc.force
       THEN /\ svc' = [svc EXCEPT !.at = "idle", !.calls = @ + 1]
            /\ UNCHANGED td
       ELSE Asks(IF p.enable THEN Enable(p, wish.params.enable) ELSE Disable, "routed", "done")
    /\ UNCHANGED <<timer, threads, dev, reader>>
    /\ Notes

ForcesRouting(p) ==
    /\ svc.at = "idle" /\ dev.on
    /\ svc.calls < MaxCalls
    /\ p \in Wanted(wish.screen)
    /\ wish' = [wish EXCEPT !.params = p]
    /\ Asks(IF p.enable THEN Enable(p, wish.params.enable) ELSE Disable, "routed", "done")
    /\ UNCHANGED <<timer, threads, dev, reader>>
    /\ Notes

RoutingIsApplied ==
    /\ svc.at = "routed"
    /\ dev' = Performed(dev, svc.call)
    /\ svc' = [svc EXCEPT !.at = "done", !.call = NoCall]
    /\ UNCHANGED <<td, timer, threads, wish, reader>>
    /\ Notes

Returns ==
    /\ svc.at = "done"
    /\ svc' = [svc EXCEPT !.at = "idle", !.force = FALSE, !.calls = @ + 1]
    /\ UNCHANGED <<td, timer, threads, wish, dev, reader>>
    /\ Notes

(* nfcManager_doDeinitialize: transaction_data survives. *)
NfcOff ==
    /\ svc.at = "idle" /\ dev.on
    /\ svc.calls < MaxCalls
    /\ dev' = [dev EXCEPT !.on = FALSE, !.discovery = FALSE, !.polling = FALSE, !.rf = FALSE,
                          !.chipPolls = FALSE, !.p2p = FALSE, !.p2pListens = FALSE]
    /\ wish' = [wish EXCEPT !.params = Off]
    /\ reader' = [reader EXCEPT !.field = FALSE, !.card = FALSE]
    /\ UNCHANGED <<td, timer, threads, svc>>
    /\ Notes

(* nfcManager_doInitialize, and what enableInternal calls: the screen state, and
   applyRouting by force with the routing table dirty. *)
NfcOn(s) ==
    /\ ~dev.on
    /\ dev' = [dev EXCEPT !.on = TRUE]
    /\ td' = [td EXCEPT !.inProgress = FALSE]
    /\ wish' = [wish EXCEPT !.screen = s]
    /\ svc' = [svc EXCEPT !.at = IF s = dev.screen THEN "routing" ELSE "screen",
                          !.call = IF s = dev.screen THEN NoCall ELSE SetScreen(s),
                          !.force = TRUE, !.route = "dirty"]
    /\ UNCHANGED <<timer, threads, reader>>
    /\ Notes

-----------------------------------------------------------------------------
(* checkforTranscation: the events of the stack. *)

(* cleanup_timer: a thread, and the transaction is over. *)
CleanupTimer ==
    LET free == {i \in 1 .. MaxThreads : threads[i].at = "none"}
    IN /\ free # {}
       /\ threads' = [threads EXCEPT ![CHOOSE i \in free : \A j \in free : i <= j].at = "made"]
       /\ td' = [td EXCEPT !.state = "end"]

(* NFA_DM_RF_FIELD_EVT, the field is on. *)
FieldOn ==
    /\ dev.rf /\ ~reader.field
    /\ reader.taps < MaxTaps
    /\ reader' = [reader EXCEPT !.field = TRUE]
    /\ td' = IF td.state = "field_off" THEN [td EXCEPT !.state = "start"] ELSE td
    /\ timer' = (timer /\ td.state # "field_off")
    /\ UNCHANGED <<threads, svc, wish, dev>>
    /\ Notes

(* NFA_ACTIVATED_EVT in listen mode, not for a peer. *)
ActivatedEvt ==
    /\ reader.field /\ ~reader.card /\ dev.on
    /\ reader.taps < MaxTaps
    /\ reader' = [reader EXCEPT !.card = TRUE, !.alone = Running = {} /\ ~timer, !.taps = @ + 1]
    /\ td' = [td EXCEPT !.state = "activated", !.inProgress = TRUE]
    /\ UNCHANGED <<timer, threads, svc, wish, dev>>
    /\ Notes

(* NFA_EE_ACTION_EVT and NFA_CE_ACTIVATED_EVT. *)
ActionEvt(new) ==
    /\ reader.card \/ (reader.field /\ new = "ee_action")
    /\ td.state \in {"default", "activated"}
    /\ td' = [td EXCEPT !.state = new, !.inProgress = TRUE]
    /\ UNCHANGED <<timer, threads, svc, wish, dev, reader>>
    /\ Notes

(* NFA_CE_DEACTIVATED_EVT and NFA_DEACTIVATED_EVT. *)
DeactivatedEvt ==
    /\ reader.card
    /\ reader' = [reader EXCEPT !.card = FALSE]
    /\ td' = IF td.state = "ce_activated" THEN [td EXCEPT !.state = "ce_deactivated"] ELSE td
    /\ UNCHANGED <<timer, threads, svc, wish, dev>>
    /\ Notes

(* NFA_DM_RF_FIELD_EVT, the field is off.  Mutant: an activation without a
   transaction is forgotten. *)
FieldOffUnlessActivated ==
    /\ reader.field /\ ~reader.card
    /\ reader' = [reader EXCEPT !.field = FALSE]
    /\ \/ /\ td.state \in {"ee_action", "ce_deactivated"}
          /\ td' = [td EXCEPT !.state = "field_off"]
          /\ timer' = TRUE
          /\ UNCHANGED threads
       \/ td.state = "start" /\ CleanupTimer /\ UNCHANGED timer
       \/ /\ td.state \notin {"ee_action", "ce_deactivated", "start"}
          /\ UNCHANGED <<td, timer, threads>>
    /\ UNCHANGED <<svc, wish, dev>>
    /\ Notes
FieldOff ==
    /\ reader.field /\ ~reader.card
    /\ reader' = [reader EXCEPT !.field = FALSE]
    /\ \/ /\ td.state \in {"ee_action", "ce_deactivated"}
          /\ td' = [td EXCEPT !.state = "field_off"]
          /\ timer' = TRUE
          /\ UNCHANGED threads
       \/ td.state \in {"start", "activated"} /\ CleanupTimer /\ UNCHANGED timer
       \/ /\ td.state \notin {"ee_action", "ce_deactivated", "start", "activated"}
          /\ UNCHANGED <<td, timer, threads>>
    /\ UNCHANGED <<svc, wish, dev>>
    /\ Notes

TimerFires ==
    /\ timer
    /\ timer' = FALSE
    /\ CleanupTimer
    /\ UNCHANGED <<svc, wish, dev, reader>>
    /\ Notes

-----------------------------------------------------------------------------
(* enableThread. *)

(* What was stored is read, *)
Reads(i) ==
    /\ threads[i].at = "made"
    /\ threads' = [threads EXCEPT ![i] =
          [Gone EXCEPT !.at = "read", !.request = td.request, !.screen = td.screen]]
    /\ UNCHANGED <<td, timer, svc, wish, dev, reader>>
    /\ Notes

(* and the transaction ends. *)
Begins(i) ==
    /\ threads[i].at = "read"
    /\ td' = [td EXCEPT !.inProgress = FALSE]
    /\ threads' = IF ~dev.on THEN [threads EXCEPT ![i] = Gone]
                  ELSE [threads EXCEPT ![i].at = IF threads[i].screen # 0 THEN "screen" ELSE "request"]
    /\ UNCHANGED <<timer, svc, wish, dev, reader>>
    /\ Notes

(* What a thread asks for is stored again if a reader has come back. *)
ThreadAsks(i, call, d, ready, next) ==
    /\ td' = IF IsHeld(call, d) THEN Stored(call) ELSE td
    /\ threads' = IF IsHeld(call, d) \/ Ignored(call, d) THEN [threads EXCEPT ![i].at = next]
                  ELSE [threads EXCEPT ![i].at = ready, ![i].call = call]

SetsScreen(i) ==
    /\ threads[i].at = "screen"
    /\ ThreadAsks(i, SetScreen(threads[i].screen), dev, "set", "request")
    /\ UNCHANGED <<timer, svc, wish, dev, reader>>
    /\ Notes

(* The discovery is forgotten first, so that an enable is not ignored.
   Mutant: the stored enable is ignored while discovery is on. *)
RequestsAsIs(i) ==
    /\ threads[i].at = "request" /\ threads[i].request = 1
    /\ ThreadAsks(i, Enable(td.params, td.restart), dev, "perform", "clear")
    /\ UNCHANGED <<timer, svc, wish, dev, reader>>
    /\ Notes
RequestsEnable(i) ==
    LET forgotten == [dev EXCEPT !.discovery = FALSE, !.polling = FALSE]
    IN /\ threads[i].at = "request" /\ threads[i].request = 1
       /\ dev' = forgotten
       /\ ThreadAsks(i, Enable(td.params, td.restart), forgotten, "perform", "clear")
       /\ UNCHANGED <<timer, svc, wish, reader>>
       /\ Notes

RequestsDisable(i) ==
    /\ threads[i].at = "request" /\ threads[i].request = 2
    /\ ThreadAsks(i, Disable, dev, "perform", "clear")
    /\ UNCHANGED <<timer, svc, wish, dev, reader>>
    /\ Notes

RequestsNothing(i) ==
    /\ threads[i].at = "request" /\ threads[i].request = 0
    /\ threads' = [threads EXCEPT ![i].at = "clear"]
    /\ UNCHANGED <<td, timer, svc, wish, dev, reader>>
    /\ Notes

Performs(i) ==
    /\ threads[i].at \in {"set", "perform"}
    /\ dev' = Performed(dev, threads[i].call)
    /\ threads' = [threads EXCEPT ![i].at = IF @ = "set" THEN "request" ELSE "clear",
                                  ![i].call = NoCall]
    /\ UNCHANGED <<td, timer, svc, wish, reader>>
    /\ Notes

(* The last steps: discovery again when the screen was locked, and
   transaction_data is wiped, whatever it holds by now. *)
Clears(i) ==
    /\ threads[i].at = "clear"
    /\ dev' = [dev EXCEPT !.rf = @ \/ (dev.on /\ threads[i].screen = 2 /\ threads[i].request = 2)]
    /\ td' = Fresh
    /\ threads' = [threads EXCEPT ![i] = Gone]
    /\ UNCHANGED <<timer, svc, wish, reader>>
    /\ Notes

-----------------------------------------------------------------------------
ServiceStep ==
    \/ \E s \in Screens : ScreenChanges(s) \/ NfcOn(s)
    \/ \E p \in Params : AppliesRouting(p) \/ ForcesRouting(p)
    \/ ScreenIsSet \/ RoutingIsApplied \/ Returns
    \/ CommitsRouting \/ EndsDiscovery \/ DefaultRouteIsSet
    \/ NfcOff

ReaderStep ==
    \/ FieldOn \/ ActivatedEvt \/ DeactivatedEvt \/ FieldOff
    \/ \E new \in {"ee_action", "ce_activated"} : ActionEvt(new)

ThreadStep(i) ==
    \/ Reads(i) \/ Begins(i) \/ SetsScreen(i) \/ Performs(i) \/ Clears(i)
    \/ RequestsEnable(i) \/ RequestsDisable(i) \/ RequestsNothing(i)

Next == ServiceStep \/ ReaderStep \/ TimerFires \/ \E i \in 1 .. MaxThreads : ThreadStep(i)

Spec == Init /\ [][Next]_vars

(* Fairness: threads run, the timer expires, and a reader goes away. *)
FairSpec ==
    /\ Spec
    /\ WF_vars(ScreenIsSet \/ RoutingIsApplied \/ Returns)
    /\ WF_vars(EndsDiscovery \/ DefaultRouteIsSet \/ \E p \in Params : AppliesRouting(p))
    /\ WF_vars(DeactivatedEvt) /\ WF_vars(FieldOff)
    /\ WF_vars(TimerFires)
    /\ \A i \in 1 .. MaxThreads : WF_vars(ThreadStep(i))

-----------------------------------------------------------------------------
Calls == [op : {"none", "screen", "enable", "disable"}, screen : 0 .. 3,
          params : Params, restart : BOOLEAN]

Requests == 0 .. 2
TransactionData ==
    [inProgress : BOOLEAN, request : Requests, screen : 0 .. 3, params : Params, restart : BOOLEAN,
     state : {"default", "activated", "ee_action", "ce_activated", "ce_deactivated",
              "field_off", "start", "end"}]
Threads ==
    [at : {"none", "made", "read", "screen", "set", "request", "perform", "clear"},
     request : Requests, screen : 0 .. 3, call : Calls]

Devices ==
    [on : BOOLEAN, screen : 0 .. 3, discovery : BOOLEAN, polling : BOOLEAN, rf : BOOLEAN,
     chipPolls : BOOLEAN, p2p : BOOLEAN, p2pListens : BOOLEAN, reader : BOOLEAN]

Services ==
    [at : {"idle", "screen", "routing", "commit", "routed", "done"}, call : Calls,
     force : BOOLEAN, route : {"set", "dirty", "setting"}, calls : Nat]

(* The types of the state: a stored request and a stored screen never take each
   other's values (transaction_data, NativeNfcManager.cpp). *)
TypeOK ==
    /\ td \in TransactionData
    /\ timer \in BOOLEAN
    /\ threads \in [1 .. MaxThreads -> Threads]
    /\ svc \in Services
    /\ wish \in [screen : 0 .. 3, params : Params]
    /\ dev \in Devices
    /\ reader \in [field : BOOLEAN, card : BOOLEAN, alone : BOOLEAN, taps : Nat]
    /\ hist \in [raced : BOOLEAN, returned : BOOLEAN]

(* A reader talks to the card only through its field, and with NFC on. *)
CardHasField == reader.card => reader.field /\ dev.on

(* The routing table is set before anything else is asked for. *)
RouteIsSetFirst ==
    /\ svc.route # "set" => svc.at \in {"screen", "routing", "commit"}
    /\ svc.route = "setting" => svc.at # "screen"

(* While a reader that came to no thread talks to the card, a transaction is in
   progress and nothing that was stored is performed, or will be. *)
TransactionCoversTheCard ==
    reader.card /\ reader.alone => td.inProgress /\ Running = {} /\ ~timer

(* The timer runs between one field and the next. *)
TimerBetweenFields == timer => td.state = "field_off" /\ ~reader.field

(* One thread at a time, after the end of the transaction. *)
OneThreadAfterTheEnd ==
    /\ \A i, j \in Running : i = j
    /\ Running # {} => td.state = "end"

(* The device does what parameters p ask for; discovery is off while the routing
   table is being set. *)
AsAsked(p) ==
    /\ dev.discovery = p.enable
    /\ dev.chipPolls = p.poll
    /\ p.enable => dev.rf \/ svc.route = "setting"
    /\ p.poll => dev.reader = p.reader

(* A call brings the device there. *)
AsksFor(call, p) ==
    IF p.enable THEN call.op = "enable" /\ call.params = p ELSE call.op = "disable"

(* A thread has the device for itself, and what it performs is what
   transaction_data still holds. *)
ThreadHasTheDevice ==
    /\ ~Races
    /\ \A i \in Reading \cup AtWork :
          threads[i].request = td.request /\ threads[i].screen = td.screen

(* Something is stored only for a transaction, or the thread that follows it. *)
StoredForATransaction ==
    (~td.inProgress /\ AtWork = {}) \/ svc.at \in {"screen", "routed"} => ~Held

(* What is stored is what the service asked for last. *)
StoredIsWished ==
    /\ td.screen # 0 => td.screen = wish.screen
    /\ td.request = 1 => td.params = wish.params /\ wish.params.enable
    /\ td.request = 2 => ~wish.params.enable

(* applyRouting has followed the screen, or is about to; only switched off does
   routing stay as it is when the screen changes. *)
RoutingFollowsScreen ==
    IF ~dev.on THEN svc.at = "idle" /\ ~wish.params.enable
    ELSE IF svc.at \in {"screen", "routing"}
    THEN wish.params \in Wanted(wish.screen) => ~wish.params.enable
    ELSE wish.params \in Wanted(wish.screen)

(* A screen state that is neither stored nor on its way is set. *)
ScreenIsCarried ==
    /\ svc.at = "screen" => svc.call = SetScreen(wish.screen)
    /\ dev.on /\ svc.at # "screen" /\ td.screen = 0 => dev.screen = wish.screen
    /\ \A i \in AtWork :
          /\ threads[i].at \in {"screen", "set"} => td.screen # 0
          /\ threads[i].at = "set" => threads[i].call = SetScreen(wish.screen)
          /\ threads[i].at \in {"request", "perform", "clear"} => dev.screen = wish.screen

(* Parameters that are neither stored nor on their way are in force, and the chip
   polls only as the static variables say. *)
RoutingIsCarried ==
    /\ dev.chipPolls => \/ dev.polling /\ dev.discovery
                        \/ \E i \in AtWork : threads[i].at = "perform" /\ wish.params.enable
    /\ svc.at = "routed" => AsksFor(svc.call, wish.params)
    /\ td.request = 0 /\ svc.at # "routed" => dev.discovery = wish.params.enable
    /\ td.request = 0 /\ svc.at \in {"idle", "commit", "done"} =>
          AsAsked(wish.params) /\ (td.screen # 0 => ~wish.params.enable)
    /\ \A i \in AtWork :
          /\ threads[i].at = "perform" => AsksFor(threads[i].call, wish.params)
          /\ threads[i].at = "clear" => AsAsked(wish.params)

(* What the events, the timer, the threads and the service keep among themselves,
   the inductive invariant of RequestsAreHeld and of DeviceFollowsService:
   checkforTranscation, cleanup_timer and enableThread of NativeNfcManager.cpp,
   applyRouting of NfcService. *)
IndInv ==
    /\ TypeOK
    /\ CardHasField /\ RouteIsSetFirst /\ TransactionCoversTheCard
    /\ ~hist.returned => TimerBetweenFields /\ OneThreadAfterTheEnd
    /\ ~hist.raced => /\ ThreadHasTheDevice /\ StoredForATransaction /\ StoredIsWished
                      /\ RoutingFollowsScreen /\ ScreenIsCarried /\ RoutingIsCarried

(* A request made while a reader talks to the card is held.  Under a payment that
   found no enableThread and no timer, no call passes the test of the transaction,
   and the radio is reconfigured in two ways only: by a call that had passed it
   before the reader came, and by setDefaultRoute, which does not test it. *)
RequestsAreHeld ==
    [][reader.card /\ reader.alone =>
          /\ svc'.at \in {"screen", "routed"} => svc'.at = svc.at
          /\ \A i \in 1 .. MaxThreads :
                threads'[i].at \in {"set", "perform"} => threads'[i].at = threads[i].at
          /\ dev' # dev /\ dev'.on => svc.at \in {"screen", "routed"} \/ svc'.route # svc.route]_vars

Quiescent == dev.on /\ svc.at = "idle" /\ Running = {} /\ ~td.inProgress

(* When the reader is gone the device is as the service last asked for, in
   whatever order its requests were stored, merged and performed: the screen,
   whether discovery is on, what is polled and in which mode.  A request that came
   beside a thread, or was still stored when NFC was switched off, may have been
   lost, and with it this promise (Races). *)
DeviceFollowsService ==
    Quiescent /\ ~hist.raced => dev.screen = wish.screen /\ AsAsked(wish.params)

(* A device that polls and may beam also listens for peers. *)
PeersAreListenedFor == Quiescent /\ ~hist.raced /\ wish.params.p2p => dev.p2pListens

(* A request that was stored is performed, or one of the cases of Races happens. *)
RequestsAreServed ==
    /\ td.request # 0 ~> td.request = 0 \/ hist.raced
    /\ td.screen # 0 ~> td.screen = 0 \/ hist.raced
=============================================================================
