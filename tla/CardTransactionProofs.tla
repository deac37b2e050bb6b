----------------------- MODULE CardTransactionProofs -----------------------
(***************************************************************************)
(* Proofs about CardTransaction: its types, the inductive invariant that   *)
(* relates the reader, the timer and the threads, and that a request made  *)
(* while a reader talks to the card never reaches the radio.               *)
(***************************************************************************)
EXTENDS CardTransaction, FiniteSetTheorems, WellFoundedInduction, TLAPS

USE TransactionAssumption

(* The records of the module have the types TypeOK gives them. *)
LEMMA CallTypes ==
    /\ Off \in Params
    /\ NoCall \in Calls /\ Disable \in Calls
    /\ \A s \in 0 .. 3 : SetScreen(s) \in Calls
    /\ \A p \in Params, restart \in BOOLEAN : Enable(p, restart) \in Calls
<1>1. Off \in Params
  BY DEF Params
<1>2. NoCall \in Calls
  BY <1>1 DEF NoCall, Calls
<1>3. QED
  BY <1>1, <1>2 DEF Disable, SetScreen, Enable, Calls

LEMMA StateTypes ==
    /\ Fresh \in TransactionData
    /\ Gone \in Threads
BY CallTypes DEF Fresh, Gone, TransactionData, Threads, Requests

(* What the routing asks for has the fields computeDiscoveryParameters sets. *)
LEMMA ParamTypes ==
    ASSUME NEW p \in Params
    PROVE  /\ p.enable \in BOOLEAN /\ p.poll \in BOOLEAN
           /\ p.p2p \in BOOLEAN /\ p.reader \in BOOLEAN
<1>1. Params \subseteq [enable : BOOLEAN, poll : BOOLEAN, p2p : BOOLEAN, reader : BOOLEAN]
  <2>1. Off \in [enable : BOOLEAN, poll : BOOLEAN, p2p : BOOLEAN, reader : BOOLEAN]
    BY DEF Off
  <2>2. HostOnly \in [enable : BOOLEAN, poll : BOOLEAN, p2p : BOOLEAN, reader : BOOLEAN]
    BY <2>1 DEF HostOnly
  <2>3. Polls \in [enable : BOOLEAN, poll : BOOLEAN, p2p : BOOLEAN, reader : BOOLEAN]
    BY <2>2 DEF Polls
  <2>4. ReaderMode \in [enable : BOOLEAN, poll : BOOLEAN, p2p : BOOLEAN, reader : BOOLEAN]
    BY <2>2 DEF ReaderMode
  <2>5. QED
    BY <2>1, <2>2, <2>3, <2>4 DEF Params
<1>2. QED
  BY <1>1

(* Every call that is made keeps the types of the static variables. *)
LEMMA PerformedType ==
    ASSUME NEW d \in Devices, NEW call \in Calls
    PROVE  Performed(d, call) \in Devices
<1>1. call.screen \in 0 .. 3 /\ call.params \in Params
  BY DEF Calls
<1>2. ScreenSet(d, call.screen) \in Devices
  BY <1>1 DEF ScreenSet, Devices
<1>3. Enabled(d, call.params) \in Devices
  <2>1. PICK p \in Params : p = call.params
    BY <1>1
  <2>2. PICK listens \in BOOLEAN :
          listens = IF d.discovery \/ ~p.poll THEN d.screen = 3 ELSE p.p2p /\ ~d.p2p
    OBVIOUS
  <2>3. [d EXCEPT !.polling = p.poll, !.chipPolls = p.poll,
                  !.p2p = IF p.poll THEN p.p2p ELSE @,
                  !.reader = IF p.poll THEN p.reader ELSE @,
                  !.p2pListens = listens, !.rf = TRUE, !.discovery = TRUE] \in Devices
    BY ParamTypes DEF Devices
  <2>4. QED
    BY <2>1, <2>2, <2>3, Zenon DEF Enabled
<1>4. Disabled(d) \in Devices
  BY DEF Disabled, Devices
<1>5. QED
  BY <1>2, <1>3, <1>4 DEF Performed

(* What a held request leaves in transaction_data. *)
LEMMA StoredType ==
    ASSUME NEW call \in Calls, td \in TransactionData
    PROVE  /\ Stored(call) \in TransactionData
           /\ Stored(call).inProgress = td.inProgress
           /\ Stored(call).state = td.state
<1>1. call.screen \in 0 .. 3 /\ call.params \in Params /\ call.restart \in BOOLEAN
  BY DEF Calls
<1>2. CASE call.op = "screen"
  BY <1>1, <1>2 DEF Stored, TransactionData
<1>3. CASE call.op = "disable"
  BY <1>1, <1>3 DEF Stored, TransactionData, Requests
<1>4. CASE call.op # "screen" /\ call.op # "disable"
  <2>1. Stored(call) = [td EXCEPT !.request = 1, !.params = call.params, !.restart = call.restart]
    BY <1>4, Zenon DEF Stored
  <2>2. [td EXCEPT !.request = 1, !.params = call.params, !.restart = call.restart]
            \in TransactionData
    <3> DEFINE t == [td EXCEPT !.request = 1]
               u == [t EXCEPT !.params = call.params]
    <3>1. t \in TransactionData
      BY DEF TransactionData, Requests
    <3> HIDE DEF t
    <3>2. u \in TransactionData
      BY <1>1, <3>1 DEF TransactionData
    <3> HIDE DEF u
    <3>3. [u EXCEPT !.restart = call.restart] \in TransactionData
      BY <1>1, <3>2 DEF TransactionData
    <3>4. [u EXCEPT !.restart = call.restart]
            = [td EXCEPT !.request = 1, !.params = call.params, !.restart = call.restart]
      BY DEF t, u
    <3>5. QED
      BY <3>3, <3>4
  <2>3. QED
    BY <2>1, <2>2 DEF TransactionData
<1>5. QED
  BY <1>2, <1>3, <1>4

(* A call of the service is stored, or changes nothing but where the service is. *)
LEMMA AsksType ==
    ASSUME TypeOK, NEW call \in Calls, NEW ready, NEW next,
           ready \in {"screen", "routed"}, next \in {"routing", "done"},
           Asks(call, ready, next)
    PROVE  /\ td' \in TransactionData
           /\ td'.inProgress = td.inProgress /\ td'.state = td.state
           /\ svc' \in Services
           /\ svc'.route = svc.route /\ svc'.at \in {ready, next}
           /\ IsHeld(call, dev) \/ Ignored(call, dev) => svc'.at = next
<1>1. td' \in TransactionData /\ td'.inProgress = td.inProgress /\ td'.state = td.state
  BY StoredType DEF Asks, TypeOK
<1>2. svc' \in Services
  BY CallTypes DEF Asks, TypeOK, Services
<1>3. /\ svc'.route = svc.route /\ svc'.at \in {ready, next}
      /\ IsHeld(call, dev) \/ Ignored(call, dev) => svc'.at = next
  BY DEF Asks, TypeOK, Services
<1>4. QED
  BY <1>1, <1>2, <1>3

(* So is what a thread asks for. *)
LEMMA ThreadAsksType ==
    ASSUME TypeOK, NEW i \in 1 .. MaxThreads, NEW call \in Calls, NEW d, NEW ready, NEW next,
           {ready, next} \subseteq {"set", "request", "perform", "clear"},
           i \in Running, ThreadAsks(i, call, d, ready, next)
    PROVE  /\ td' \in TransactionData
           /\ td'.inProgress = td.inProgress /\ td'.state = td.state
           /\ threads' \in [1 .. MaxThreads -> Threads]
           /\ Running' = Running
<1>1. td' \in TransactionData /\ td'.inProgress = td.inProgress /\ td'.state = td.state
  BY StoredType DEF ThreadAsks, TypeOK
<1>2. threads' \in [1 .. MaxThreads -> Threads]
  <2>1. threads[i] \in Threads
    BY DEF TypeOK
  <2>2. [threads[i] EXCEPT !.at = next] \in Threads
    BY <2>1 DEF Threads
  <2>3. [threads[i] EXCEPT !.at = ready, !.call = call] \in Threads
    BY <2>1 DEF Threads
  <2>4. \/ threads' = [threads EXCEPT ![i] = [threads[i] EXCEPT !.at = next]]
        \/ threads' = [threads EXCEPT ![i] = [threads[i] EXCEPT !.at = ready, !.call = call]]
    BY DEF ThreadAsks, TypeOK
  <2>5. QED
    BY <2>2, <2>3, <2>4 DEF TypeOK
<1>3. \A j \in 1 .. MaxThreads : j # i => threads'[j].at = threads[j].at
  BY DEF ThreadAsks, TypeOK
<1>4. threads'[i].at # "none" /\ threads[i].at # "none"
  BY DEF ThreadAsks, TypeOK, Running, Threads
<1>5. QED
  BY <1>1, <1>2, <1>3, <1>4 DEF Running

(* cleanup_timer makes one thread at the end of the transaction. *)
LEMMA CleanupType ==
    ASSUME TypeOK, CleanupTimer
    PROVE  /\ td' \in TransactionData
           /\ td'.inProgress = td.inProgress /\ td'.state = "end"
           /\ threads' \in [1 .. MaxThreads -> Threads]
           /\ \E k : Running' \subseteq Running \cup {k}
<1>1. PICK k : threads' = [threads EXCEPT ![k].at = "made"]
  BY DEF CleanupTimer
<1>2. threads' \in [1 .. MaxThreads -> Threads]
  <2>1. \A j \in 1 .. MaxThreads : [threads[j] EXCEPT !.at = "made"] \in Threads
    BY DEF TypeOK, Threads
  <2>2. QED
    BY <1>1, <2>1 DEF TypeOK
<1>3. Running' \subseteq Running \cup {k}
  BY <1>1 DEF TypeOK, Running
<1>4. td' \in TransactionData /\ td'.inProgress = td.inProgress /\ td'.state = "end"
  BY DEF CleanupTimer, TypeOK, TransactionData
<1>5. QED
  BY <1>2, <1>3, <1>4

Histories == [raced : BOOLEAN, returned : BOOLEAN]

(* Every step notes what it does, and what was noted stays. *)
LEMMA StepNotes ==
    /\ ServiceStep => Notes
    /\ ReaderStep => Notes
    /\ TimerFires => Notes
    /\ \A i \in 1 .. MaxThreads : ThreadStep(i) => Notes
<1>1. ServiceStep => Notes
  BY Zenon DEF ServiceStep, ScreenChanges, NfcOn, AppliesRouting, ForcesRouting, ScreenIsSet,
     RoutingIsApplied, Returns, CommitsRouting, EndsDiscovery, DefaultRouteIsSet, NfcOff
<1>2. ReaderStep => Notes
  BY Zenon DEF ReaderStep, FieldOn, ActivatedEvt, DeactivatedEvt, FieldOff, ActionEvt
<1>3. TimerFires => Notes
  BY Zenon DEF TimerFires
<1>4. \A i \in 1 .. MaxThreads : ThreadStep(i) => Notes
  BY Zenon DEF ThreadStep, Reads, Begins, SetsScreen, Performs, Clears, RequestsEnable,
     RequestsDisable, RequestsNothing
<1> QED
  BY <1>1, <1>2, <1>3, <1>4

LEMMA NotesAre ==
    ASSUME Notes
    PROVE  /\ hist' \in Histories
           /\ ~hist'.returned => ~hist.returned /\ (Running' # {} => ~reader'.card)
           /\ ~hist'.raced => ~hist.raced /\ ~Races'
<1> DEFINE raced == hist.raced \/ Races'
           returned == hist.returned \/ (reader'.card /\ Running' # {})
<1>1. raced \in BOOLEAN /\ returned \in BOOLEAN
  OBVIOUS
<1>2. hist' = [raced |-> raced, returned |-> returned]
  BY DEF Notes
<1>3. hist'.raced = raced /\ hist'.returned = returned
  <2> HIDE DEF raced, returned
  <2> QED
    BY <1>2
<1>4. hist' \in Histories
  <2> HIDE DEF raced, returned
  <2> QED
    BY <1>1, <1>2 DEF Histories
<1> QED
  BY <1>3, <1>4

-----------------------------------------------------------------------------
(* The part of IndInv that is inductive by itself. *)
Base ==
    /\ TypeOK
    /\ CardHasField /\ RouteIsSetFirst /\ TransactionCoversTheCard
    /\ ~hist.returned => TimerBetweenFields /\ OneThreadAfterTheEnd

(* The parts of Base hold at the beginning. *)
LEMMA InitBase == Init => Base
<1> SUFFICES ASSUME Init PROVE Base
  OBVIOUS
<1>1. \A i \in 1 .. MaxThreads : threads[i] = Gone
  BY DEF Init
<1>2. Running = {}
  BY <1>1 DEF Running, Gone
<1>3. TypeOK
  <2>1. td \in TransactionData /\ threads \in [1 .. MaxThreads -> Threads]
    BY StateTypes DEF Init
  <2>2. timer \in BOOLEAN /\ dev \in Devices
    <3>1. dev = [on |-> TRUE, screen |-> 0, discovery |-> FALSE, polling |-> FALSE, rf |-> FALSE,
                 chipPolls |-> FALSE, p2p |-> FALSE, p2pListens |-> FALSE, reader |-> FALSE]
      BY DEF Init
    <3>2. dev \in Devices
      BY <3>1 DEF Devices
    <3>3. QED
      BY <3>2 DEF Init
  <2>3. svc \in Services
    BY CallTypes DEF Init, Services
  <2>4. wish \in [screen : 0 .. 3, params : Params]
    BY CallTypes DEF Init
  <2>5. reader \in [field : BOOLEAN, card : BOOLEAN, alone : BOOLEAN, taps : Nat]
    BY DEF Init
  <2>6. hist \in [raced : BOOLEAN, returned : BOOLEAN]
    BY DEF Init
  <2>7. QED
    BY <2>1, <2>2, <2>3, <2>4, <2>5, <2>6 DEF TypeOK
<1>4. /\ CardHasField /\ RouteIsSetFirst /\ TransactionCoversTheCard
      /\ TimerBetweenFields /\ OneThreadAfterTheEnd
  BY <1>2 DEF Init, CardHasField, RouteIsSetFirst, TimerBetweenFields, OneThreadAfterTheEnd,
              TransactionCoversTheCard
<1>5. QED
  BY <1>3, <1>4 DEF Base

(* A step that leaves the events, the timer and the threads alone keeps the
   parts of Base that relate them. *)
LEMMA ServiceKeeps ==
    ASSUME Base, TypeOK', RouteIsSetFirst', Notes,
           reader' = reader, timer' = timer, Running' = Running, dev'.on = dev.on,
           td'.inProgress = td.inProgress, td'.state = td.state
    PROVE  Base'
BY NotesAre DEF Base, CardHasField, TimerBetweenFields, OneThreadAfterTheEnd, TransactionCoversTheCard

(* Every call keeps NFC on or off. *)
LEMMA PerformedKeepsOn ==
    ASSUME NEW d \in Devices, NEW call
    PROVE  Performed(d, call).on = d.on
BY DEF Performed, ScreenSet, Enabled, Disabled, Devices

(* What the service may ask for are calls. *)
LEMMA RoutingType ==
    ASSUME NEW p \in Params, TypeOK
    PROVE  (IF p.enable THEN Enable(p, wish.params.enable) ELSE Disable) \in Calls
<1>1. wish.params.enable \in BOOLEAN
  BY ParamTypes DEF TypeOK
<1>2. QED
  BY <1>1, CallTypes

(* A call that has returned is counted. *)
LEMMA CountedType ==
    ASSUME TypeOK
    PROVE  /\ [svc EXCEPT !.at = "idle", !.calls = @ + 1] \in Services
           /\ [svc EXCEPT !.at = "idle", !.force = FALSE, !.calls = @ + 1] \in Services
<1>1. svc.calls + 1 \in Nat
  BY DEF TypeOK, Services
<1>2. \A n \in Nat : /\ [svc EXCEPT !.at = "idle", !.calls = n] \in Services
                     /\ [svc EXCEPT !.at = "idle", !.force = FALSE, !.calls = n] \in Services
  BY DEF TypeOK, Services
<1>3. QED
  BY <1>1, <1>2

(* The service's steps keep the invariant. *)
LEMMA ServiceInv == Base /\ ServiceStep => Base'
<1> SUFFICES ASSUME Base, ServiceStep PROVE Base'
  OBVIOUS
<1>t. TypeOK /\ RouteIsSetFirst
  BY DEF Base
<1>h. Notes /\ hist' \in [raced : BOOLEAN, returned : BOOLEAN]
  BY StepNotes, NotesAre DEF Histories
<1>1. ASSUME NEW s \in Screens, ScreenChanges(s) PROVE Base'
  <2>1. s \in 0 .. 3 /\ SetScreen(s) \in Calls
    BY CallTypes DEF Screens
  <2>2. Asks(SetScreen(s), "screen", "routing") /\ svc.at = "idle"
    BY <1>1 DEF ScreenChanges
  <2>3. td' \in TransactionData /\ td'.inProgress = td.inProgress /\ td'.state = td.state
        /\ svc' \in Services /\ svc'.route = svc.route /\ svc'.at \in {"screen", "routing"}
    BY <1>t, <2>1, <2>2, AsksType
  <2>4. TypeOK'
    BY <1>t, <1>1, <1>h, <2>1, <2>3 DEF ScreenChanges, TypeOK
  <2>5. RouteIsSetFirst'
    BY <1>t, <2>2, <2>3 DEF RouteIsSetFirst
  <2>6. QED
    BY <1>1, <1>h, <2>3, <2>4, <2>5, ServiceKeeps DEF ScreenChanges, Running
<1>2. ASSUME NEW p \in Params, AppliesRouting(p) \/ ForcesRouting(p) PROVE Base'
  <2> DEFINE call == IF p.enable THEN Enable(p, wish.params.enable) ELSE Disable
  <2>1. call \in Calls
    BY <1>t, RoutingType
  <2> HIDE DEF call
  <2>2. \/ Asks(call, "routed", "done")
        \/ td' = td /\ svc' = [svc EXCEPT !.at = "idle", !.calls = @ + 1]
    BY <1>2 DEF AppliesRouting, ForcesRouting, call
  <2>3. td' \in TransactionData /\ td'.inProgress = td.inProgress /\ td'.state = td.state
        /\ svc' \in Services /\ svc'.route = svc.route
    <3>1. CASE Asks(call, "routed", "done")
      BY <1>t, <2>1, <3>1, AsksType
    <3>2. CASE td' = td /\ svc' = [svc EXCEPT !.at = "idle", !.calls = @ + 1]
      BY <1>t, <3>2, CountedType DEF TypeOK, Services
    <3>3. QED
      BY <2>2, <3>1, <3>2
  <2>4. UNCHANGED <<timer, threads, dev, reader>> /\ wish' = [wish EXCEPT !.params = p]
    BY <1>2 DEF AppliesRouting, ForcesRouting
  <2>5. TypeOK'
    BY <1>t, <1>h, <2>3, <2>4 DEF TypeOK
  <2>6. svc.route = "set"
    BY <1>2, <1>t DEF AppliesRouting, ForcesRouting, RouteIsSetFirst
  <2>7. RouteIsSetFirst'
    BY <2>3, <2>6 DEF RouteIsSetFirst
  <2>8. QED
    BY <1>h, <2>3, <2>4, <2>5, <2>7, ServiceKeeps DEF Running
<1>3. CASE ScreenIsSet \/ RoutingIsApplied
  <2>1. dev' = Performed(dev, svc.call)
    BY <1>3 DEF ScreenIsSet, RoutingIsApplied
  <2>2. dev' \in Devices /\ dev'.on = dev.on
    BY <1>t, <2>1, PerformedType, PerformedKeepsOn DEF TypeOK, Services
  <2>3. /\ svc' \in Services /\ svc'.route = svc.route
        /\ \/ svc.at = "screen" /\ svc'.at = "routing"
           \/ svc.at = "routed" /\ svc'.at = "done"
    BY <1>t, <1>3, CallTypes DEF ScreenIsSet, RoutingIsApplied, TypeOK, Services
  <2>4. UNCHANGED <<td, timer, threads, wish, reader>>
    BY <1>3 DEF ScreenIsSet, RoutingIsApplied
  <2>5. TypeOK'
    BY <1>t, <1>h, <2>2, <2>3, <2>4 DEF TypeOK
  <2>6. RouteIsSetFirst'
    BY <1>t, <2>3 DEF RouteIsSetFirst
  <2>7. QED
    BY <1>h, <2>2, <2>4, <2>5, <2>6, ServiceKeeps DEF Running
<1>4. CASE Returns
  <2>1. svc' \in Services /\ svc'.route = svc.route /\ svc.at = "done"
    BY <1>t, <1>4, CountedType DEF Returns, TypeOK, Services
  <2>2. TypeOK'
    BY <1>t, <1>4, <1>h, <2>1 DEF Returns, TypeOK
  <2>3. RouteIsSetFirst'
    BY <1>t, <2>1 DEF RouteIsSetFirst
  <2>4. QED
    BY <1>4, <1>h, <2>2, <2>3, ServiceKeeps DEF Returns, Running
<1>5. CASE CommitsRouting \/ EndsDiscovery \/ DefaultRouteIsSet
  <2>1. svc' \in Services /\ RouteIsSetFirst'
    BY <1>t, <1>5 DEF CommitsRouting, EndsDiscovery, DefaultRouteIsSet, TypeOK, Services,
                      RouteIsSetFirst
  <2>2. dev' \in Devices /\ dev'.on = dev.on
    BY <1>t, <1>5 DEF CommitsRouting, EndsDiscovery, DefaultRouteIsSet, TypeOK, Devices
  <2>3. UNCHANGED <<td, timer, threads, wish, reader>>
    BY <1>5 DEF CommitsRouting, EndsDiscovery, DefaultRouteIsSet
  <2>4. TypeOK'
    BY <1>t, <1>h, <2>1, <2>2, <2>3 DEF TypeOK
  <2>5. QED
    BY <1>h, <2>1, <2>2, <2>3, <2>4, ServiceKeeps DEF Running
<1>6. CASE NfcOff
  <2>1. TypeOK'
    <3>1. dev' \in Devices
      BY <1>t, <1>6 DEF NfcOff, TypeOK, Devices
    <3>2. QED
      BY <1>t, <1>6, <1>h, <3>1, CallTypes DEF NfcOff, TypeOK
  <2>2. ~reader'.card /\ ~reader'.field
    BY <1>t, <1>6 DEF NfcOff, TypeOK
  <2>3. td' = td /\ timer' = timer /\ svc' = svc /\ Running' = Running
    BY <1>6 DEF NfcOff, Running
  <2>4. QED
    BY <1>h, <2>1, <2>2, <2>3, NotesAre
       DEF Base, CardHasField, RouteIsSetFirst, TimerBetweenFields, OneThreadAfterTheEnd,
           TransactionCoversTheCard
<1>7. ASSUME NEW s \in Screens, NfcOn(s) PROVE Base'
  <2>1. s \in 0 .. 3 /\ SetScreen(s) \in Calls
    BY CallTypes DEF Screens
  <2>2. ~reader.card
    BY <1>7 DEF NfcOn, Base, CardHasField
  <2>3. td' \in TransactionData /\ td'.state = td.state
    BY <1>t, <1>7 DEF NfcOn, TypeOK, TransactionData
  <2>4. dev' \in Devices
    BY <1>t, <1>7 DEF NfcOn, TypeOK, Devices
  <2>5. svc' \in Services /\ RouteIsSetFirst'
    <3>1. PICK at \in {"screen", "routing"}, call \in Calls :
            svc' = [svc EXCEPT !.at = at, !.call = call, !.force = TRUE, !.route = "dirty"]
      BY <1>7, <2>1, CallTypes DEF NfcOn
    <3>2. QED
      BY <1>t, <3>1 DEF TypeOK, Services, RouteIsSetFirst
  <2>6. TypeOK'
    BY <1>t, <1>7, <1>h, <2>1, <2>3, <2>4, <2>5 DEF NfcOn, TypeOK
  <2>7. timer' = timer /\ reader' = reader /\ Running' = Running
    BY <1>7 DEF NfcOn, Running
  <2>8. QED
    BY <1>h, <2>2, <2>3, <2>5, <2>6, <2>7, NotesAre
       DEF Base, CardHasField, TimerBetweenFields, OneThreadAfterTheEnd, TransactionCoversTheCard
<1>8. QED
  BY <1>1, <1>2, <1>3, <1>4, <1>5, <1>6, <1>7 DEF ServiceStep

(* The events of the stack keep the invariant. *)
LEMMA ReaderInv == Base /\ ReaderStep => Base'
<1> SUFFICES ASSUME Base, ReaderStep PROVE Base'
  OBVIOUS
<1> USE DEF CardHasField, RouteIsSetFirst, TimerBetweenFields, OneThreadAfterTheEnd,
            TransactionCoversTheCard
<1>t. TypeOK /\ CardHasField /\ RouteIsSetFirst /\ TransactionCoversTheCard
      /\ (~hist.returned => TimerBetweenFields /\ OneThreadAfterTheEnd)
  BY DEF Base
<1>s. svc' = svc
  BY DEF ReaderStep, FieldOn, ActivatedEvt, DeactivatedEvt, FieldOff, ActionEvt
<1>h. /\ hist' \in [raced : BOOLEAN, returned : BOOLEAN]
      /\ ~hist'.returned => ~hist.returned /\ (Running' # {} => ~reader'.card)
  BY StepNotes, NotesAre DEF Histories
<1>1. CASE FieldOn
  <2>1. TypeOK'
    BY <1>t, <1>h, <1>1 DEF FieldOn, TypeOK, TransactionData
  <2>2. reader'.field /\ reader'.card = reader.card /\ reader'.alone = reader.alone
    BY <1>t, <1>1 DEF FieldOn, TypeOK
  <2>3. dev' = dev /\ threads' = threads /\ td'.inProgress = td.inProgress
        /\ (td'.state = td.state \/ td.state = "field_off")
        /\ (timer' => timer /\ td.state # "field_off")
    BY <1>t, <1>1 DEF FieldOn, TypeOK, TransactionData
  <2>4. QED
    BY <1>t, <1>s, <1>h, <2>1, <2>2, <2>3 DEF Base, Running
<1>2. CASE ActivatedEvt
  <2>1. TypeOK'
    <3>1. reader.taps + 1 \in Nat
      BY <1>t DEF TypeOK
    <3>2. reader' \in [field : BOOLEAN, card : BOOLEAN, alone : BOOLEAN, taps : Nat]
      BY <1>t, <1>2, <3>1 DEF ActivatedEvt, TypeOK
    <3>3. QED
      BY <1>t, <1>h, <1>2, <3>2 DEF ActivatedEvt, TypeOK, TransactionData
  <2>2. reader'.field /\ reader'.card /\ td'.inProgress /\ reader.field
    BY <1>t, <1>2 DEF ActivatedEvt, TypeOK, TransactionData
  <2>3. /\ dev' = dev /\ dev.on /\ threads' = threads /\ timer' = timer /\ svc' = svc
        /\ reader'.alone => Running = {} /\ ~timer
    BY <1>t, <1>2 DEF ActivatedEvt, TypeOK
  <2>4. QED
    BY <1>t, <1>s, <1>h, <2>1, <2>2, <2>3 DEF Base, Running
<1>3. ASSUME NEW state \in {"ee_action", "ce_activated"}, ActionEvt(state) PROVE Base'
  <2>1. TypeOK'
    BY <1>t, <1>h, <1>3 DEF ActionEvt, TypeOK, TransactionData
  <2>2. td.state # "end" /\ td.state # "field_off" /\ td'.inProgress
    BY <1>t, <1>3 DEF ActionEvt, TypeOK, TransactionData
  <2>3. UNCHANGED <<timer, threads, dev, reader>>
    BY <1>3 DEF ActionEvt
  <2>4. QED
    BY <1>t, <1>s, <1>h, <2>1, <2>2, <2>3 DEF Base, Running
<1>4. CASE DeactivatedEvt
  <2>1. TypeOK'
    BY <1>t, <1>h, <1>4 DEF DeactivatedEvt, TypeOK, TransactionData
  <2>2. ~reader'.card /\ reader'.field = reader.field
    BY <1>t, <1>4 DEF DeactivatedEvt, TypeOK
  <2>3. UNCHANGED <<timer, threads, dev>> /\ (td'.state = td.state \/ td.state = "ce_activated")
    BY <1>4 DEF DeactivatedEvt
  <2>4. QED
    BY <1>t, <1>s, <1>h, <2>1, <2>2, <2>3 DEF Base, Running
<1>5. CASE FieldOff
  <2>1. reader' \in [field : BOOLEAN, card : BOOLEAN, alone : BOOLEAN, taps : Nat]
        /\ ~reader'.card /\ ~reader'.field
    BY <1>t, <1>5 DEF FieldOff, TypeOK
  <2>2. UNCHANGED <<svc, wish, dev>>
    BY <1>5 DEF FieldOff
  <2>3. CASE td.state \in {"ee_action", "ce_deactivated"}
    <3>1. td' = [td EXCEPT !.state = "field_off"] /\ timer' = TRUE /\ threads' = threads
      BY <1>5, <2>3 DEF FieldOff
    <3>2. TypeOK' /\ td'.state = "field_off"
      BY <1>t, <1>h, <2>1, <2>2, <3>1 DEF TypeOK, TransactionData
    <3>3. QED
      BY <1>t, <1>s, <1>h, <2>1, <2>3, <3>1, <3>2 DEF Base, Running
  <2>4. CASE td.state \in {"start", "activated"}
    <3>1. CleanupTimer /\ timer' = timer
      BY <1>5, <2>4 DEF FieldOff
    <3>2. TypeOK'
      BY <1>t, <1>h, <2>1, <2>2, <3>1, CleanupType DEF TypeOK
    <3>3. ~hist'.returned => Running = {} /\ ~timer
      BY <1>t, <1>h, <2>4
    <3>4. QED
      BY <1>t, <1>s, <1>h, <2>1, <3>1, <3>2, <3>3, CleanupType DEF Base
  <2>5. CASE td.state \notin {"ee_action", "ce_deactivated", "start", "activated"}
    <3>1. UNCHANGED <<td, timer, threads>>
      BY <1>5, <2>5 DEF FieldOff
    <3>2. TypeOK'
      BY <1>t, <1>h, <2>1, <2>2, <3>1 DEF TypeOK
    <3>3. QED
      BY <1>t, <1>s, <1>h, <2>1, <2>2, <3>1, <3>2 DEF Base, Running
  <2>6. QED
    BY <2>3, <2>4, <2>5
<1>6. QED
  BY <1>1, <1>2, <1>3, <1>4, <1>5 DEF ReaderStep

(* So does the timer. *)
LEMMA TimerInv == Base /\ TimerFires => Base'
<1> SUFFICES ASSUME Base, TimerFires PROVE Base'
  OBVIOUS
<1>h. /\ hist' \in [raced : BOOLEAN, returned : BOOLEAN]
      /\ ~hist'.returned => ~hist.returned /\ (Running' # {} => ~reader'.card)
  BY StepNotes, NotesAre DEF Histories
<1>1. TypeOK /\ CleanupTimer /\ timer /\ timer' = FALSE /\ UNCHANGED <<svc, wish, dev, reader>>
  BY DEF Base, TimerFires
<1>2. TypeOK'
  BY <1>1, <1>h, CleanupType DEF TypeOK
<1>3. /\ ~hist'.returned => Running = {} /\ ~reader.card
      /\ ~(reader.card /\ reader.alone)
  BY <1>1, <1>h DEF Base, TimerBetweenFields, OneThreadAfterTheEnd, CardHasField,
                    TransactionCoversTheCard
<1>4. QED
  BY <1>1, <1>2, <1>3, <1>h, CleanupType
     DEF Base, CardHasField, RouteIsSetFirst, TimerBetweenFields, OneThreadAfterTheEnd, TransactionCoversTheCard

(* The steps of enableThread keep the invariant. *)
LEMMA ThreadInv ==
    ASSUME Base, NEW i \in 1 .. MaxThreads, ThreadStep(i)
    PROVE  Base'
<1> USE DEF CardHasField, RouteIsSetFirst, TimerBetweenFields, OneThreadAfterTheEnd,
            TransactionCoversTheCard
<1>t. TypeOK /\ CardHasField /\ RouteIsSetFirst /\ TransactionCoversTheCard
      /\ (~hist.returned => TimerBetweenFields /\ OneThreadAfterTheEnd)
  BY DEF Base
<1>s. Notes /\ svc' = svc /\ RouteIsSetFirst'
  <2>1. svc' = svc
    BY DEF ThreadStep, Reads, Begins, SetsScreen, Performs, Clears, RequestsEnable,
           RequestsDisable, RequestsNothing
  <2> QED
    BY <1>t, <2>1, StepNotes
<1>h. /\ hist' \in [raced : BOOLEAN, returned : BOOLEAN]
      /\ ~hist'.returned => ~hist.returned /\ (Running' # {} => ~reader'.card)
  BY StepNotes, NotesAre DEF Histories
<1>r. i \in Running
  BY DEF ThreadStep, Reads, Begins, SetsScreen, Performs, Clears, RequestsEnable, RequestsDisable,
         RequestsNothing, Running
<1>c. threads[i].call \in Calls /\ threads[i].screen \in 0 .. 3 /\ threads[i] \in Threads
  BY <1>t DEF TypeOK, Threads
<1>1. CASE Reads(i) \/ Begins(i)
  <2>1. td' \in TransactionData /\ td'.state = td.state
    BY <1>t, <1>1 DEF Reads, Begins, TypeOK, TransactionData
  <2>2. PICK g \in Threads : threads' = [threads EXCEPT ![i] = g]
    <3>1. CASE Reads(i)
      <4>1. td.request \in Requests /\ td.screen \in 0 .. 3
        BY <1>t DEF TypeOK, TransactionData
      <4>2. [Gone EXCEPT !.at = "read", !.request = td.request, !.screen = td.screen] \in Threads
        BY <4>1, StateTypes DEF Threads
      <4>3. QED
        BY <3>1, <4>2 DEF Reads
    <3>2. CASE Begins(i)
      <4>1. \A at \in {"screen", "request"} : [threads[i] EXCEPT !.at = at] \in Threads
        BY <1>c DEF Threads
      <4>2. \/ threads' = [threads EXCEPT ![i] = Gone]
            \/ \E at \in {"screen", "request"} :
                  threads' = [threads EXCEPT ![i] = [threads[i] EXCEPT !.at = at]]
        BY <1>t, <3>2 DEF Begins, TypeOK
      <4>3. QED
        BY <4>1, <4>2, StateTypes
    <3>3. QED
      BY <1>1, <3>1, <3>2
  <2>3. threads' \in [1 .. MaxThreads -> Threads]
    BY <1>t, <2>2 DEF TypeOK
  <2>4. Running' \subseteq Running
    BY <1>t, <2>2, <1>r DEF TypeOK, Running
  <2>5. UNCHANGED <<timer, svc, wish, dev, reader>>
    BY <1>1 DEF Reads, Begins
  <2>6. TypeOK'
    BY <1>t, <1>h, <2>1, <2>3, <2>5 DEF TypeOK
  <2>7. QED
    BY <1>t, <1>h, <1>r, <2>1, <2>4, <2>5, <2>6 DEF Base
<1>2. ASSUME NEW call \in Calls, NEW d, NEW ready, NEW next,
             {ready, next} \subseteq {"set", "request", "perform", "clear"},
             ThreadAsks(i, call, d, ready, next), UNCHANGED <<timer, svc, wish, reader>>,
             dev' \in Devices, dev'.on = dev.on
      PROVE  Base'
  <2>1. td' \in TransactionData /\ td'.inProgress = td.inProgress /\ td'.state = td.state
        /\ threads' \in [1 .. MaxThreads -> Threads] /\ Running' = Running
    BY <1>t, <1>r, <1>2, ThreadAsksType
  <2>2. TypeOK'
    BY <1>t, <1>h, <1>2, <2>1 DEF TypeOK
  <2>3. QED
    BY <1>2, <2>1, <2>2, <1>s, ServiceKeeps
<1>3. CASE SetsScreen(i)
  <2>1. SetScreen(threads[i].screen) \in Calls
    BY <1>c, CallTypes
  <2>2. QED
    BY <1>2, <1>3, <1>t, <2>1 DEF SetsScreen, TypeOK
<1>4. CASE RequestsEnable(i)
  <2>1. Enable(td.params, td.restart) \in Calls
    <3>1. td.params \in Params /\ td.restart \in BOOLEAN
      BY <1>t DEF TypeOK, TransactionData
    <3>2. QED
      BY <3>1, CallTypes
  <2>2. dev' \in Devices /\ dev'.on = dev.on
    BY <1>t, <1>4 DEF RequestsEnable, TypeOK, Devices
  <2>3. QED
    BY <1>2, <1>4, <2>1, <2>2 DEF RequestsEnable
<1>5. CASE RequestsDisable(i)
  BY <1>2, <1>5, <1>t, CallTypes DEF RequestsDisable, TypeOK
<1>6. CASE RequestsNothing(i)
  <2>1. [threads[i] EXCEPT !.at = "clear"] \in Threads
    BY <1>c DEF Threads
  <2>2. threads' = [threads EXCEPT ![i] = [threads[i] EXCEPT !.at = "clear"]]
    BY <1>t, <1>6 DEF RequestsNothing, TypeOK
  <2>3. TypeOK'
    BY <1>t, <1>h, <1>6, <2>1, <2>2 DEF RequestsNothing, TypeOK
  <2>4. Running' = Running
    BY <1>t, <1>r, <1>c, <2>2 DEF Running, TypeOK, Threads
  <2>5. QED
    BY <1>6, <2>3, <2>4, <1>s, ServiceKeeps DEF RequestsNothing
<1>7. CASE Performs(i)
  <2>1. dev' \in Devices /\ dev'.on = dev.on
    BY <1>t, <1>7, <1>c, PerformedType, PerformedKeepsOn DEF Performs, TypeOK
  <2>2. \A at \in {"request", "clear"} : [threads[i] EXCEPT !.at = at, !.call = NoCall] \in Threads
    BY <1>c, CallTypes DEF Threads
  <2>3. PICK at \in {"request", "clear"} :
          threads' = [threads EXCEPT ![i] = [threads[i] EXCEPT !.at = at, !.call = NoCall]]
    BY <1>t, <1>7 DEF Performs, TypeOK
  <2>4. threads' \in [1 .. MaxThreads -> Threads]
    BY <1>t, <2>2, <2>3 DEF TypeOK
  <2>5. Running' = Running
    BY <1>t, <1>r, <1>c, <2>3 DEF Running, TypeOK, Threads
  <2>6. UNCHANGED <<td, timer, svc, wish, reader>>
    BY <1>7 DEF Performs
  <2>7. TypeOK'
    BY <1>t, <1>h, <2>1, <2>4, <2>6 DEF TypeOK
  <2>8. QED
    BY <2>1, <2>5, <2>6, <2>7, <1>s, ServiceKeeps
<1>8. CASE Clears(i)
  <2>1. td' = Fresh /\ threads' = [threads EXCEPT ![i] = Gone]
        /\ UNCHANGED <<timer, svc, wish, reader>>
    BY <1>8 DEF Clears
  <2>2. dev' \in Devices /\ dev'.on = dev.on
    <3>1. PICK b \in BOOLEAN : dev' = [dev EXCEPT !.rf = b]
      <4>1. dev.rf \in BOOLEAN
        BY <1>t DEF TypeOK, Devices
      <4>2. QED
        BY <1>8, <4>1 DEF Clears
    <3>2. QED
      BY <1>t, <1>h, <3>1 DEF TypeOK, Devices
  <2>3. TypeOK'
    BY <1>t, <1>h, <2>1, <2>2, StateTypes DEF TypeOK
  <2>4. Running' = Running \ {i}
    BY <1>t, <2>1 DEF Running, TypeOK, Gone
  <2>5. /\ ~hist'.returned => Running' = {} /\ ~timer
        /\ ~(reader.card /\ reader.alone)
    BY <1>t, <1>h, <1>r, <2>4
  <2>6. QED
    BY <1>t, <1>h, <2>1, <2>2, <2>3, <2>5 DEF Base
<1>9. QED
  BY <1>1, <1>3, <1>4, <1>5, <1>6, <1>7, <1>8 DEF ThreadStep

(* Every step keeps the invariant. *)
LEMMA StepBase == Base /\ [Next]_vars => Base'
<1> SUFFICES ASSUME Base, [Next]_vars PROVE Base'
  OBVIOUS
<1>1. CASE Next
  BY <1>1, ServiceInv, ReaderInv, TimerInv, ThreadInv DEF Next
<1>2. CASE UNCHANGED vars
  BY <1>2 DEF vars, Base, TypeOK, CardHasField, RouteIsSetFirst, TimerBetweenFields,
              OneThreadAfterTheEnd, TransactionCoversTheCard, Running
<1>3. QED
  BY <1>1, <1>2

-----------------------------------------------------------------------------
(* What the service asks for is carried to the device. *)
Carried ==
    /\ ThreadHasTheDevice
    /\ StoredForATransaction
    /\ StoredIsWished
    /\ RoutingFollowsScreen
    /\ ScreenIsCarried
    /\ RoutingIsCarried

LEMMA IndInvParts == IndInv <=> Base /\ (~hist.raced => Carried)
BY DEF IndInv, Base, Carried

(* What a thread has read is still what is stored. *)
ReadIsStored ==
    \A i \in Reading : threads[i].request = td.request /\ threads[i].screen = td.screen

(* Carried while no thread is at work, *)
Settled ==
    /\ ~td.inProgress \/ svc.at \in {"screen", "routed"} \/ ~dev.on => td.request = 0 /\ td.screen = 0
    /\ StoredIsWished
    /\ RoutingFollowsScreen
    /\ svc.at = "screen" => svc.call = SetScreen(wish.screen)
    /\ dev.on /\ svc.at # "screen" /\ td.screen = 0 => dev.screen = wish.screen
    /\ dev.chipPolls => dev.polling /\ dev.discovery
    /\ svc.at = "routed" => AsksFor(svc.call, wish.params)
    /\ td.request = 0 /\ svc.at # "routed" => dev.discovery = wish.params.enable
    /\ td.request = 0 /\ svc.at \in {"idle", "commit", "done"} =>
          AsAsked(wish.params) /\ (td.screen # 0 => ~wish.params.enable)

(* and while one is. *)
Working(i) ==
    /\ dev.on /\ svc.at = "idle" /\ ~td.inProgress
    /\ threads[i].request = td.request /\ threads[i].screen = td.screen
    /\ StoredIsWished
    /\ RoutingFollowsScreen
    /\ td.screen = 0 => dev.screen = wish.screen
    /\ threads[i].at \in {"screen", "set"} => td.screen # 0
    /\ threads[i].at = "set" => threads[i].call = SetScreen(wish.screen)
    /\ threads[i].at \in {"request", "perform", "clear"} => dev.screen = wish.screen
    /\ dev.chipPolls => \/ dev.polling /\ dev.discovery
                        \/ threads[i].at = "perform" /\ wish.params.enable
    /\ td.request = 0 => /\ dev.discovery = wish.params.enable
                         /\ AsAsked(wish.params) /\ (td.screen # 0 => ~wish.params.enable)
    /\ threads[i].at = "perform" => AsksFor(threads[i].call, wish.params)
    /\ threads[i].at = "clear" => AsAsked(wish.params)

LEMMA SettledIs == AtWork = {} /\ ~Races => (Carried <=> Settled /\ ReadIsStored)
BY DEF Carried, Settled, ReadIsStored, ThreadHasTheDevice, StoredForATransaction, ScreenIsCarried,
       RoutingIsCarried, Races, Held

EachWorking ==
    \A i \in 1 .. MaxThreads : AtWork = {i} /\ ~Races => (Carried <=> Working(i))

LEMMA WorkingIs == EachWorking
<1> SUFFICES ASSUME NEW i \in 1 .. MaxThreads, AtWork = {i}, ~Races PROVE Carried <=> Working(i)
  BY DEF EachWorking
<1>1. /\ Reading \cup AtWork = {i}
      /\ dev.on /\ svc.at = "idle" /\ ~td.inProgress
  BY DEF Races
<1> QED
  BY <1>1 DEF Carried, Working, ThreadHasTheDevice, StoredForATransaction, ScreenIsCarried,
              RoutingIsCarried, RoutingFollowsScreen

(* What computeDiscoveryParameters asks for in each screen state. *)
LEMMA ParamFields ==
    /\ ~Off.enable /\ ~Off.poll
    /\ HostOnly.enable /\ ~HostOnly.poll
    /\ Polls.enable /\ Polls.poll
    /\ ReaderMode.enable /\ ReaderMode.poll
<1>1. Off \in [enable : BOOLEAN, poll : BOOLEAN, p2p : BOOLEAN, reader : BOOLEAN]
      /\ ~Off.enable /\ ~Off.poll
  BY DEF Off
<1>2. HostOnly \in [enable : BOOLEAN, poll : BOOLEAN, p2p : BOOLEAN, reader : BOOLEAN]
      /\ HostOnly.enable /\ ~HostOnly.poll
  BY <1>1 DEF HostOnly
<1>3. Polls.enable /\ Polls.poll /\ ReaderMode.enable /\ ReaderMode.poll
  BY <1>2 DEF Polls, ReaderMode
<1> QED
  BY <1>1, <1>2, <1>3

LEMMA WantedIs ==
    ASSUME NEW s, NEW p \in Wanted(s)
    PROVE  /\ p.enable <=> s \in {2, 3}
           /\ p.poll <=> s = 3
<1>1. CASE s = 3
  BY <1>1, ParamFields DEF Wanted
<1>2. CASE s = 2
  BY <1>2, ParamFields DEF Wanted
<1>3. CASE s \notin {2, 3}
  BY <1>3, ParamFields DEF Wanted
<1> QED
  BY <1>1, <1>2, <1>3

LEMMA PollsIsEnabled ==
    ASSUME NEW p \in Params
    PROVE  p.poll => p.enable
BY ParamFields DEF Params

(* The calls as records. *)
LEMMA CallFields ==
    /\ \A s \in 0 .. 3 : SetScreen(s).op = "screen" /\ SetScreen(s).screen = s
    /\ \A p \in Params, r \in BOOLEAN :
          Enable(p, r).op = "enable" /\ Enable(p, r).params = p /\ Enable(p, r).restart = r
    /\ Disable.op = "disable"
<1>1. NoCall \in Calls
  BY CallTypes
<1> QED
  BY <1>1 DEF SetScreen, Enable, Disable, Calls

(* What the calls do to the device. *)
LEMMA ScreenSetIs ==
    ASSUME NEW d \in Devices, NEW s \in 0 .. 3, d.on, NEW e, e = Performed(d, SetScreen(s))
    PROVE  /\ e.on /\ e.screen = s /\ e.discovery = d.discovery /\ e.polling = d.polling
           /\ e.reader = d.reader /\ (e.chipPolls => d.chipPolls)
<1>1. e = ScreenSet(d, s)
  BY CallFields DEF Performed
<1> QED
  BY <1>1 DEF ScreenSet, Devices

LEMMA EnabledIs ==
    ASSUME NEW d \in Devices, NEW p \in Params, NEW e, e = Enabled(d, p)
    PROVE  /\ e.on = d.on /\ e.screen = d.screen /\ e.discovery /\ e.rf
           /\ e.polling = p.poll /\ e.chipPolls = p.poll
           /\ p.poll => e.reader = p.reader
<1> DEFINE l == IF d.discovery \/ ~p.poll THEN d.screen = 3 ELSE p.p2p /\ ~d.p2p
<1>1. e = [d EXCEPT !.polling = p.poll, !.chipPolls = p.poll,
                    !.p2p = IF p.poll THEN p.p2p ELSE @,
                    !.reader = IF p.poll THEN p.reader ELSE @,
                    !.p2pListens = l, !.rf = TRUE, !.discovery = TRUE]
  BY DEF Enabled
<1> HIDE DEF l
<1> QED
  BY <1>1, ParamTypes DEF Devices

LEMMA RoutedIs ==
    ASSUME NEW d \in Devices, NEW p \in Params, NEW call, AsksFor(call, p), d.on,
           d.chipPolls => d.polling \/ p.enable, NEW e, e = Performed(d, call)
    PROVE  /\ e.on /\ e.screen = d.screen
           /\ e.discovery = p.enable /\ e.chipPolls = p.poll
           /\ p.enable => e.rf
           /\ p.poll => e.reader = p.reader
           /\ e.chipPolls => e.polling /\ e.discovery
<1>0. p.enable \in BOOLEAN /\ p.poll \in BOOLEAN /\ (p.poll => p.enable)
  BY ParamTypes, PollsIsEnabled
<1>1. CASE p.enable
  <2>1. e = Enabled(d, p)
    BY <1>1 DEF AsksFor, Performed
  <2> QED
    BY <1>0, <1>1, <2>1, EnabledIs
<1>2. CASE ~p.enable
  <2>1. e = Disabled(d)
    BY <1>2 DEF AsksFor, Performed
  <2>2. /\ e.on = d.on /\ e.screen = d.screen /\ ~e.discovery
        /\ e.chipPolls = (d.chipPolls /\ ~d.polling)
    BY <2>1 DEF Disabled, Devices
  <2>3. e.chipPolls = FALSE
    BY <1>2, <2>2
  <2>4. e.discovery = FALSE
    BY <2>1 DEF Disabled, Devices
  <2>5. p.enable = FALSE /\ p.poll = FALSE
    BY <1>0, <1>2
  <2> QED
    BY <2>2, <2>3, <2>4, <2>5
<1> QED
  BY <1>1, <1>2

-----------------------------------------------------------------------------
(* At the beginning nothing is asked for. *)
LEMMA InitCarried == Init => Carried
<1> SUFFICES ASSUME Init PROVE Carried
  OBVIOUS
<1>1. AtWork = {} /\ Reading = {}
  BY DEF Init, AtWork, Reading, Running, Gone
<1>2. /\ td.request = 0 /\ td.screen = 0 /\ svc.at = "idle" /\ dev.on /\ dev.screen = 0
      /\ ~dev.discovery /\ ~dev.chipPolls /\ wish.screen = 0 /\ wish.params = Off
  BY DEF Init, Fresh
<1>3. Off \in Wanted(0) /\ Off.enable = FALSE /\ Off.poll = FALSE
  BY ParamFields, ParamTypes, CallTypes DEF Wanted
<1>d. dev.discovery = FALSE /\ dev.chipPolls = FALSE
  BY DEF Init
<1>a. AsAsked(wish.params)
  BY <1>2, <1>3, <1>d DEF AsAsked
<1>b. StoredIsWished
  BY <1>2 DEF StoredIsWished
<1>c. RoutingFollowsScreen
  BY <1>2, <1>3 DEF RoutingFollowsScreen
<1>e. dev.discovery = wish.params.enable
  BY <1>2, <1>3, <1>d
<1>4. Settled
  BY <1>2, <1>a, <1>b, <1>c, <1>d, <1>e DEF Settled
<1>5. ~Races /\ ReadIsStored
  BY <1>1, <1>2 DEF Races, ReadIsStored
<1> QED
  BY <1>1, <1>4, <1>5, SettledIs

(* The events leave to the device and the service what is stored. *)
LEMMA EventCarries ==
    ASSUME Carried, UNCHANGED <<svc, wish, dev>>,
           td'.request = td.request, td'.screen = td.screen, td'.params = td.params,
           AtWork' = AtWork, Reading' = Reading,
           \A i \in Reading \cup AtWork : threads'[i] = threads[i],
           td.inProgress => td'.inProgress, ~Races'
    PROVE  Carried'
<1>1. ThreadHasTheDevice' /\ StoredForATransaction'
  BY DEF Carried, ThreadHasTheDevice, StoredForATransaction, Held
<1>2. StoredIsWished' /\ RoutingFollowsScreen'
  BY DEF Carried, StoredIsWished, RoutingFollowsScreen
<1>3. ScreenIsCarried'
  BY DEF Carried, ScreenIsCarried
<1>4. RoutingIsCarried'
  BY DEF Carried, RoutingIsCarried, AsAsked
<1> QED
  BY <1>1, <1>2, <1>3, <1>4 DEF Carried

(* A set of numbers has a first one. *)
LEMMA SomeIsFirst ==
    ASSUME NEW n \in Nat, NEW T \in SUBSET (1 .. n), T # {}
    PROVE  \E x \in T : \A y \in T : x <= y
<1> DEFINE upTo(x) == {y \in T : y <= x}
           S == SUBSET (1 .. n)
           R == StrictSubsetOrdering(1 .. n)
           F == {upTo(x) : x \in T}
<1>1. IsWellFoundedOn(R, S)
  <2>1. IsFiniteSet(1 .. n)
    BY FS_Interval
  <2> QED
    BY <2>1, FS_FiniteSubsetsOfFinite, FS_StrictSubsetOrderingWellFounded
<1>2. F \subseteq S /\ F # {}
  OBVIOUS
<1>3. PICK A \in F : \A B \in F : ~(<<B, A>> \in R)
  <2> HIDE DEF R, S, F
  <2> QED
    BY <1>1, <1>2, WFMin
<1>4. PICK x \in T : A = upTo(x)
  BY <1>3
<1>5. ASSUME NEW y \in T, ~(x <= y)
      PROVE  FALSE
  <2>1. upTo(y) \in F /\ upTo(y) \in S /\ A \in S
    BY <1>2, <1>3
  <2>2. upTo(y) \subseteq A /\ x \in A /\ x \notin upTo(y)
    <3>1. x \in Int /\ y \in Int /\ y < x
      BY <1>5
    <3>2. \A z \in T : z \in Int
      OBVIOUS
    <3>3. x \in upTo(x) /\ x \notin upTo(y)
      BY <3>1
    <3>4. ASSUME NEW z \in T, z <= y
          PROVE  z <= x
      BY <3>1, <3>2, <3>4
    <3>5. upTo(y) \subseteq upTo(x)
      BY <3>4
    <3> HIDE DEF upTo
    <3> QED
      BY <1>4, <3>3, <3>5
  <2>3. <<upTo(y), A>> \in R
    BY <2>1, <2>2 DEF StrictSubsetOrdering
  <2> QED
    BY <1>3, <2>1, <2>3
<1> QED
  BY <1>5

LEMMA CleanupCarries ==
    ASSUME TypeOK, CleanupTimer
    PROVE  /\ td'.request = td.request /\ td'.screen = td.screen /\ td'.params = td.params
           /\ td'.inProgress = td.inProgress
           /\ AtWork' = AtWork /\ Reading' = Reading
           /\ \A i \in Reading \cup AtWork : threads'[i] = threads[i]
<1>1. PICK k \in 1 .. MaxThreads : threads[k].at = "none" /\ threads' = [threads EXCEPT ![k].at = "made"]
  <2> DEFINE free == {i \in 1 .. MaxThreads : threads[i].at = "none"}
             first == CHOOSE i \in free : \A j \in free : i <= j
  <2>1. free # {} /\ free \in SUBSET (1 .. MaxThreads)
    BY DEF CleanupTimer
  <2>2. \E i \in free : \A j \in free : i <= j
    <3> HIDE DEF free
    <3> QED
      BY <2>1, SomeIsFirst
  <2>3. first \in free /\ threads' = [threads EXCEPT ![first].at = "made"]
    BY <2>2 DEF CleanupTimer
  <2> HIDE DEF first
  <2> QED
    BY <2>3
<1>2. \A i \in 1 .. MaxThreads : i # k => threads'[i] = threads[i]
  BY <1>1 DEF TypeOK
<1>3. threads'[k].at = "made"
  BY <1>1 DEF TypeOK, Threads
<1>4. /\ AtWork' = AtWork /\ Reading' = Reading
      /\ \A i \in Reading \cup AtWork : threads'[i] = threads[i]
  BY <1>1, <1>2, <1>3 DEF AtWork, Reading, Running
<1> QED
  BY <1>4 DEF CleanupTimer, TypeOK, TransactionData

LEMMA ReaderCarries ==
    ASSUME Base, Carried, ReaderStep \/ TimerFires, ~Races'
    PROVE  Carried'
<1>t. TypeOK /\ td \in TransactionData /\ UNCHANGED <<svc, wish, dev>>
  BY DEF Base, TypeOK, ReaderStep, TimerFires, FieldOn, ActivatedEvt, ActionEvt, DeactivatedEvt,
         FieldOff
<1>1. CASE CleanupTimer
  BY <1>1, <1>t, CleanupCarries, EventCarries
<1>2. CASE threads' = threads /\ (td.inProgress => td'.inProgress)
           /\ td'.request = td.request /\ td'.screen = td.screen /\ td'.params = td.params
  BY <1>2, <1>t, EventCarries DEF AtWork, Reading, Running
<1>3. CASE FieldOn \/ DeactivatedEvt
  BY <1>2, <1>3, <1>t DEF FieldOn, DeactivatedEvt, TransactionData
<1>4. CASE FieldOff
  BY <1>1, <1>2, <1>4, <1>t DEF FieldOff, TransactionData
<1>5. CASE TimerFires
  BY <1>1, <1>5 DEF TimerFires
<1>6. CASE ActivatedEvt
  BY <1>2, <1>6, <1>t DEF ActivatedEvt, TransactionData
<1>7. ASSUME NEW new \in {"ee_action", "ce_activated"}, ActionEvt(new) PROVE Carried'
  BY <1>2, <1>7, <1>t DEF ActionEvt, TransactionData
<1> QED
  BY <1>3, <1>4, <1>5, <1>6, <1>7 DEF ReaderStep

-----------------------------------------------------------------------------
(* The service moves only while no thread is at work. *)
LEMMA ServiceRests ==
    ASSUME TypeOK, RouteIsSetFirst, Carried, ServiceStep, ~Races'
    PROVE  AtWork = {} /\ AtWork' = {} /\ Settled /\ ReadIsStored'
<1>1. threads' = threads /\ AtWork' = AtWork /\ Reading' = Reading
  <2>1. threads' = threads
    BY DEF ServiceStep, ScreenChanges, NfcOn, AppliesRouting, ForcesRouting, ScreenIsSet,
           RoutingIsApplied, Returns, CommitsRouting, EndsDiscovery, DefaultRouteIsSet, NfcOff
  <2> QED
    BY <2>1 DEF AtWork, Reading, Running
<1>2. ~Races /\ ReadIsStored
  BY DEF Carried, ThreadHasTheDevice, ReadIsStored
<1>3. CASE NfcOff
  <2>1. ~dev'.on /\ td' = td
    BY <1>3 DEF NfcOff, TypeOK, Devices
  <2>2. AtWork = {}
    BY <1>1, <2>1 DEF Races
  <2> QED
    BY <1>1, <1>2, <2>1, <2>2, SettledIs DEF ReadIsStored
<1>4. CASE svc.at # "idle" \/ svc'.at # "idle"
  <2>1. AtWork = {} /\ Reading = {}
    BY <1>1, <1>2, <1>4 DEF Races
  <2> QED
    BY <1>1, <1>2, <2>1, SettledIs DEF ReadIsStored
<1>5. CASE ~NfcOff
  <2>1. ASSUME NEW s \in Screens, ScreenChanges(s) \/ NfcOn(s) PROVE svc'.at # "idle"
    BY <2>1 DEF ScreenChanges, NfcOn, Asks, TypeOK, Services
  <2>2. ASSUME NEW p \in Params, AppliesRouting(p) \/ ForcesRouting(p)
        PROVE  svc.at # "idle" \/ svc'.at # "idle"
    BY <2>2 DEF AppliesRouting, ForcesRouting, Asks, TypeOK, Services
  <2>3. CASE ScreenIsSet \/ RoutingIsApplied \/ Returns \/ CommitsRouting \/ EndsDiscovery
    BY <2>3, <1>4 DEF ScreenIsSet, RoutingIsApplied, Returns, CommitsRouting, EndsDiscovery,
                      TypeOK, Services
  <2>4. CASE DefaultRouteIsSet
    BY <2>4, <1>4 DEF DefaultRouteIsSet, RouteIsSetFirst
  <2> QED
    BY <1>4, <1>5, <2>1, <2>2, <2>3, <2>4 DEF ServiceStep
<1> QED
  BY <1>3, <1>5

(* A call of the service is stored, or ignored, or goes on. *)
LEMMA AsksIs ==
    ASSUME TypeOK, NEW call \in Calls, NEW ready, NEW next, Asks(call, ready, next)
    PROVE  \/ IsHeld(call, dev) /\ td' = Stored(call) /\ svc'.at = next
           \/ ~IsHeld(call, dev) /\ Ignored(call, dev) /\ td' = td /\ svc'.at = next
           \/ ~td.inProgress /\ td' = td /\ svc'.at = ready /\ svc'.call = call
BY DEF Asks, IsHeld, TypeOK, Services

(* What a held call leaves in transaction_data. *)
LEMMA StoredIs ==
    ASSUME td \in TransactionData, NEW call \in Calls, NEW t, t = Stored(call)
    PROVE  /\ call.op = "screen" =>
                 t.screen = call.screen /\ t.request = td.request /\ t.params = td.params
           /\ call.op = "disable" => t.request = 2 /\ t.screen = td.screen
           /\ call.op = "enable" => t.request = 1 /\ t.params = call.params /\ t.screen = td.screen
<1>1. CASE call.op = "screen"
  BY <1>1 DEF Stored, TransactionData
<1>2. CASE call.op = "disable"
  BY <1>2 DEF Stored, TransactionData
<1>3. CASE call.op = "enable"
  <2>1. t = [td EXCEPT !.request = 1, !.params = call.params, !.restart = call.restart]
    BY <1>3 DEF Stored
  <2> QED
    BY <1>3, <2>1 DEF TransactionData
<1> QED
  BY <1>1, <1>2, <1>3

(* Parameters that are in force in one screen state are in force in no other. *)
LEMMA ScreenSettles ==
    ASSUME TypeOK, Settled, NEW s \in Screens, ScreenChanges(s)
    PROVE  Settled'
<1>1. /\ s \in 0 .. 3 /\ s # 0 /\ SetScreen(s) \in Calls
      /\ SetScreen(s).op = "screen" /\ SetScreen(s).screen = s
  BY CallTypes, CallFields DEF Screens
<1>2. svc.at = "idle" /\ dev.on /\ dev' = dev /\ wish'.screen = s /\ wish'.params = wish.params
      /\ s # wish.screen /\ Asks(SetScreen(s), "screen", "routing")
  BY DEF ScreenChanges, TypeOK
<1>3. wish.params \in Wanted(s) => ~wish.params.enable
  <2>1. wish.params \in Wanted(wish.screen)
    BY <1>2 DEF Settled, RoutingFollowsScreen
  <2> QED
    BY <1>2, <2>1, WantedIs
<1>4. td' \in TransactionData /\ td'.inProgress = td.inProgress
  BY <1>1, <1>2, AsksType
<1>5. CASE td.inProgress /\ svc'.at = "routing" /\ td' = Stored(SetScreen(s))
  <2>1. td'.screen = s /\ td'.request = td.request /\ td'.params = td.params
    BY <1>1, <1>5, StoredIs DEF TypeOK
  <2> QED
    BY <1>1, <1>2, <1>3, <1>4, <1>5, <2>1 DEF Settled, StoredIsWished, RoutingFollowsScreen
<1>6. CASE ~td.inProgress /\ td' = td /\ svc'.at = "routing" /\ dev.screen = s
  BY <1>1, <1>2, <1>3, <1>4, <1>6 DEF Settled, StoredIsWished, RoutingFollowsScreen
<1>7. CASE ~td.inProgress /\ td' = td /\ svc'.at = "screen" /\ svc'.call = SetScreen(s)
  BY <1>1, <1>2, <1>3, <1>4, <1>7 DEF Settled, StoredIsWished, RoutingFollowsScreen
<1>8. \/ IsHeld(SetScreen(s), dev) /\ td' = Stored(SetScreen(s)) /\ svc'.at = "routing"
      \/ ~IsHeld(SetScreen(s), dev) /\ Ignored(SetScreen(s), dev) /\ td' = td /\ svc'.at = "routing"
      \/ ~td.inProgress /\ td' = td /\ svc'.at = "screen" /\ svc'.call = SetScreen(s)
  BY <1>1, <1>2, AsksIs
<1>9. Ignored(SetScreen(s), dev) => ~td.inProgress /\ dev.screen = s
  BY <1>1, <1>2 DEF Ignored
<1> QED
  BY <1>5, <1>6, <1>7, <1>8, <1>9 DEF IsHeld

(* An enable that must restart discovery is not ignored, and a disable is only
   when there is none. *)
LEMMA RoutingSettles ==
    ASSUME TypeOK, Settled, dev.on, svc.at \in {"idle", "routing", "commit"}, NEW p \in Params,
           p \in Wanted(wish.screen), wish' = [wish EXCEPT !.params = p], dev' = dev,
           Asks(IF p.enable THEN Enable(p, wish.params.enable) ELSE Disable, "routed", "done")
    PROVE  Settled'
<1> DEFINE call == IF p.enable THEN Enable(p, wish.params.enable) ELSE Disable
<1>1. call \in Calls /\ AsksFor(call, p) /\ call.op \in {"enable", "disable"}
      /\ (call.op = "enable" <=> p.enable) /\ (p.enable => call.restart = wish.params.enable)
  <2>1. wish.params.enable \in BOOLEAN /\ wish.params \in Params
    BY ParamTypes DEF TypeOK
  <2> QED
    BY <2>1, RoutingType, CallFields DEF AsksFor
<1>2. Asks(call, "routed", "done")
  OBVIOUS
<1> HIDE DEF call
<1>3. wish'.params = p /\ wish'.screen = wish.screen
  BY DEF TypeOK
<1>4. td' \in TransactionData /\ td'.inProgress = td.inProgress
  BY <1>1, <1>2, AsksType
<1>5. p.enable \in BOOLEAN /\ p.poll \in BOOLEAN /\ (p.poll => p.enable) /\ dev \in Devices
  BY ParamTypes, PollsIsEnabled DEF TypeOK
<1>6. CASE td.inProgress /\ svc'.at = "done" /\ td' = Stored(call)
  <2>1. td'.screen = td.screen /\ td'.request = (IF p.enable THEN 1 ELSE 2)
        /\ (p.enable => td'.params = p)
    BY <1>1, <1>5, <1>6, StoredIs DEF AsksFor, TypeOK
  <2>2. StoredIsWished'
    BY <1>3, <2>1 DEF Settled, StoredIsWished
  <2> QED
    BY <1>3, <1>4, <1>6, <2>1, <2>2 DEF Settled, RoutingFollowsScreen
<1>7. CASE ~td.inProgress /\ td' = td /\ svc'.at = "done" /\ Ignored(call, dev)
  <2>1. td.request = 0 /\ td.screen = 0 /\ dev.discovery = wish.params.enable
    BY <1>7 DEF Settled
  <2>2. ~p.enable /\ ~dev.discovery
    BY <1>1, <1>7, <2>1 DEF Ignored
  <2>3. AsAsked(p)
    BY <1>5, <2>2 DEF AsAsked, Settled, Devices
  <2> QED
    BY <1>3, <1>7, <2>1, <2>2, <2>3 DEF Settled, StoredIsWished, RoutingFollowsScreen, AsAsked
<1>8. CASE ~td.inProgress /\ td' = td /\ svc'.at = "routed" /\ svc'.call = call
  BY <1>1, <1>3, <1>8 DEF Settled, StoredIsWished, RoutingFollowsScreen, AsksFor
<1>9. \/ IsHeld(call, dev) /\ td' = Stored(call) /\ svc'.at = "done"
      \/ ~IsHeld(call, dev) /\ Ignored(call, dev) /\ td' = td /\ svc'.at = "done"
      \/ ~td.inProgress /\ td' = td /\ svc'.at = "routed" /\ svc'.call = call
  BY <1>1, <1>2, AsksIs
<1>10. Ignored(call, dev) => ~td.inProgress
  BY <1>1 DEF Ignored
<1> QED
  BY <1>6, <1>7, <1>8, <1>9, <1>10 DEF IsHeld

(* Parameters that are not sent again are all off: the screen has changed. *)
LEMMA SameRoutingSettles ==
    ASSUME TypeOK, Settled, svc.at \in {"routing", "commit"}, dev.on,
           wish.params \in Wanted(wish.screen),
           UNCHANGED <<td, wish, dev>>, svc'.at = "idle", svc'.route = svc.route
    PROVE  Settled'
<1>1. wish.params.enable \in BOOLEAN /\ wish.params.poll \in BOOLEAN /\ dev \in Devices
  BY ParamTypes DEF TypeOK
<1>2. CASE svc.at = "routing"
  <2>1. ~wish.params.enable /\ ~wish.params.poll
    BY <1>2, PollsIsEnabled DEF Settled, RoutingFollowsScreen, TypeOK
  <2>2. td.request = 0 => AsAsked(wish.params)'
    BY <1>1, <1>2, <2>1 DEF Settled, AsAsked, Devices
  <2> QED
    BY <1>2, <2>1, <2>2 DEF Settled, StoredIsWished, RoutingFollowsScreen
<1>3. CASE svc.at = "commit"
  BY <1>3 DEF Settled, StoredIsWished, RoutingFollowsScreen, AsAsked
<1> QED
  BY <1>2, <1>3

(* The other steps of the service. *)
LEMMA ServiceSettles ==
    ASSUME TypeOK, TypeOK', RouteIsSetFirst, Settled, ServiceStep, ~Races'
    PROVE  Settled'
<1>1. ASSUME NEW p \in Params, AppliesRouting(p) PROVE Settled'
  <2>1. svc.at \in {"routing", "commit"} /\ dev.on /\ p \in Wanted(wish.screen) /\ dev' = dev
        /\ wish' = [wish EXCEPT !.params = p]
    BY <1>1 DEF AppliesRouting, Settled, RoutingFollowsScreen
  <2>2. CASE p = wish.params /\ ~svc.force
    <3>0. td' = td /\ wish' = [wish EXCEPT !.params = wish.params]
          /\ svc' = [svc EXCEPT !.at = "idle", !.calls = @ + 1]
      BY <1>1, <2>2, Zenon DEF AppliesRouting
    <3>1. td' = td /\ wish' = wish /\ svc'.at = "idle" /\ svc'.route = svc.route
      BY <3>0 DEF TypeOK, Services
    <3> QED
      BY <2>1, <2>2, <3>1, SameRoutingSettles
  <2>3. CASE ~(p = wish.params /\ ~svc.force)
    BY <1>1, <2>1, <2>3, RoutingSettles DEF AppliesRouting
  <2> QED
    BY <2>2, <2>3
<1>2. ASSUME NEW p \in Params, ForcesRouting(p) PROVE Settled'
  BY <1>2, RoutingSettles DEF ForcesRouting
<1>3. CASE ScreenIsSet
  <2>1. svc.at = "screen" /\ dev.on /\ dev' = Performed(dev, SetScreen(wish.screen))
        /\ td' = td /\ wish' = wish /\ svc'.at = "routing" /\ td.request = 0 /\ td.screen = 0
    BY <1>3 DEF ScreenIsSet, Settled, RoutingFollowsScreen, TypeOK, Services
  <2>2. dev'.on /\ dev'.screen = wish.screen /\ dev'.discovery = dev.discovery
        /\ dev'.polling = dev.polling /\ (dev'.chipPolls => dev.chipPolls)
    <3>1. dev \in Devices /\ wish.screen \in 0 .. 3
      BY DEF TypeOK
    <3> QED
      BY <2>1, <3>1, ScreenSetIs
  <2> QED
    BY <2>1, <2>2 DEF Settled, StoredIsWished, RoutingFollowsScreen
<1>4. CASE RoutingIsApplied
  <2>1. svc.at = "routed" /\ dev.on /\ dev' = Performed(dev, svc.call)
        /\ AsksFor(svc.call, wish.params) /\ td' = td /\ wish' = wish /\ svc'.at = "done"
        /\ td.request = 0 /\ td.screen = 0
    BY <1>4 DEF RoutingIsApplied, Settled, RoutingFollowsScreen, TypeOK, Services
  <2>2. /\ dev'.on /\ dev'.screen = dev.screen
        /\ dev'.discovery = wish.params.enable /\ dev'.chipPolls = wish.params.poll
        /\ wish.params.enable => dev'.rf
        /\ wish.params.poll => dev'.reader = wish.params.reader
        /\ dev'.chipPolls => dev'.polling /\ dev'.discovery
    <3>1. dev \in Devices /\ wish.params \in Params /\ (dev.chipPolls => dev.polling)
      BY DEF TypeOK, Settled
    <3> QED
      BY <2>1, <3>1, RoutedIs
  <2>3. AsAsked(wish.params)'
    BY <2>1, <2>2 DEF AsAsked
  <2> QED
    BY <2>1, <2>2, <2>3 DEF Settled, StoredIsWished, RoutingFollowsScreen
<1>5. CASE Returns
  <2>1. /\ svc.at = "done" /\ svc'.at = "idle" /\ svc'.route = svc.route
        /\ UNCHANGED <<td, wish, dev>>
    BY <1>5 DEF Returns, TypeOK, Services
  <2> QED
    BY <2>1 DEF Settled, StoredIsWished, RoutingFollowsScreen, AsAsked
<1>6. CASE NfcOff
  <2>1. /\ svc' = svc /\ svc.at = "idle" /\ td' = td /\ td.request = 0 /\ td.screen = 0
        /\ wish'.params = Off /\ ~dev'.on /\ ~dev'.discovery /\ ~dev'.chipPolls
    BY <1>6 DEF NfcOff, Races, Held, TypeOK, TransactionData, Devices
  <2>2. ~Off.enable /\ ~Off.poll /\ dev' \in Devices /\ Off.enable \in BOOLEAN /\ Off.poll \in BOOLEAN
    BY ParamFields, ParamTypes, CallTypes DEF TypeOK
  <2>3. AsAsked(wish.params)'
    BY <2>1, <2>2 DEF AsAsked, Devices
  <2> QED
    BY <2>1, <2>2, <2>3 DEF Settled, StoredIsWished, RoutingFollowsScreen, Devices
<1>7. ASSUME NEW s \in Screens, NfcOn(s) PROVE Settled'
  <2>1. svc.at = "idle" /\ ~wish.params.enable /\ td.request = 0 /\ td.screen = 0
        /\ dev.discovery = wish.params.enable
    BY <1>7 DEF NfcOn, Settled, RoutingFollowsScreen
  <2>2. td'.request = 0 /\ td'.screen = 0 /\ wish'.screen = s /\ wish'.params = wish.params
    BY <1>7, <2>1 DEF NfcOn, TypeOK, TransactionData
  <2>3. dev'.screen = dev.screen /\ dev'.discovery = dev.discovery /\ dev'.polling = dev.polling
        /\ dev'.chipPolls = dev.chipPolls /\ dev'.on
    BY <1>7 DEF NfcOn, TypeOK, Devices
  <2>4. \/ svc'.at = "routing" /\ dev.screen = s
        \/ svc'.at = "screen" /\ svc'.call = SetScreen(s)
    BY <1>7 DEF NfcOn, TypeOK, Services
  <2> QED
    BY <2>1, <2>2, <2>3, <2>4 DEF Settled, StoredIsWished, RoutingFollowsScreen
<1>8. CASE CommitsRouting
  <2>1. /\ svc.at = "idle" /\ dev.on /\ svc.route = "set" /\ svc'.at = "commit"
        /\ td' = td /\ wish' = wish /\ dev' = dev
    BY <1>8 DEF CommitsRouting, RouteIsSetFirst, TypeOK, Services
  <2>2. StoredIsWished' /\ RoutingFollowsScreen'
    <3>1. wish.params \in Wanted(wish.screen)
      BY <2>1 DEF Settled, RoutingFollowsScreen
    <3>2. wish.params \in Wanted(wish.screen)'
      BY <3>1, <2>1
    <3> QED
      BY <2>1, <3>2 DEF Settled, StoredIsWished, RoutingFollowsScreen
  <2>3. td.request = 0 => AsAsked(wish.params)' /\ (td.screen # 0 => ~wish.params.enable)
    BY <2>1 DEF Settled, AsAsked
  <2> QED
    BY <2>1, <2>2, <2>3 DEF Settled
<1>9. CASE EndsDiscovery \/ DefaultRouteIsSet
  <2>1. /\ svc.at \in {"routing", "commit"} /\ svc'.at = svc.at
        /\ UNCHANGED <<td, wish>>
    BY <1>9 DEF EndsDiscovery, DefaultRouteIsSet, RouteIsSetFirst, TypeOK, Services
  <2>2. /\ dev'.on = dev.on /\ dev'.screen = dev.screen /\ dev'.discovery = dev.discovery
        /\ dev'.polling = dev.polling /\ dev'.chipPolls = dev.chipPolls
        /\ dev'.reader = dev.reader
        /\ dev'.rf \/ svc'.route = "setting"
    BY <1>9 DEF EndsDiscovery, DefaultRouteIsSet, TypeOK, Services, Devices
  <2>3. AsAsked(wish.params) => AsAsked(wish.params)'
    BY <2>1, <2>2 DEF AsAsked
  <2> QED
    BY <2>1, <2>2, <2>3 DEF Settled, StoredIsWished, RoutingFollowsScreen
<1> QED
  BY <1>1, <1>2, <1>3, <1>4, <1>5, <1>6, <1>7, <1>8, <1>9, ScreenSettles DEF ServiceStep

-----------------------------------------------------------------------------
(* The one thread stays the only one. *)
LEMMA WorkerStays ==
    ASSUME NEW i \in 1 .. MaxThreads, Reading \cup AtWork = {i},
           \A j \in 1 .. MaxThreads : j # i => threads'[j] = threads[j]
    PROVE  /\ threads'[i].at \notin {"none", "made", "read"} => AtWork' = {i} /\ Reading' = {}
           /\ threads'[i].at = "none" => AtWork' = {} /\ Reading' = {}
<1>1. \A j \in 1 .. MaxThreads : j # i => threads[j].at \in {"none", "made"}
  BY DEF Reading, AtWork, Running
<1>2. \A j \in 1 .. MaxThreads : j # i => threads'[j].at \in {"none", "made"}
  BY <1>1
<1> QED
  BY <1>2 DEF AtWork, Reading, Running

(* A thread that has what was stored finds everything settled. *)
LEMMA ReadsCarries ==
    ASSUME TypeOK, TypeOK', Carried, ~Races', NEW i \in 1 .. MaxThreads, Reads(i)
    PROVE  Carried'
<1>1. /\ threads[i].at = "made" /\ UNCHANGED <<td, svc, wish, dev>>
      /\ threads' = [threads EXCEPT ![i] =
            [Gone EXCEPT !.at = "read", !.request = td.request, !.screen = td.screen]]
  BY DEF Reads
<1>2. /\ threads'[i].at = "read"
      /\ threads'[i].request = td.request /\ threads'[i].screen = td.screen
      /\ \A j \in 1 .. MaxThreads : j # i => threads'[j] = threads[j]
  BY <1>1, StateTypes DEF TypeOK, Threads
<1>3. i \in Reading'
  BY <1>2 DEF Reading, Running
<1>4. \A j \in Reading' \cup AtWork' : j = i
  BY <1>3 DEF Races
<1>5. AtWork' = {}
  BY <1>2, <1>4 DEF AtWork
<1>6. AtWork = {}
  <2>1. ASSUME NEW j \in AtWork PROVE FALSE
    <3>1. j # i /\ j \in 1 .. MaxThreads
      BY <1>1, <2>1 DEF AtWork, Running
    <3>2. j \in AtWork'
      BY <1>2, <2>1, <3>1 DEF AtWork, Running
    <3> QED
      BY <1>5, <3>2
  <2> QED
    BY <2>1
<1>7. Settled
  BY <1>6, SettledIs DEF Carried, ThreadHasTheDevice
<1>8. Settled'
  BY <1>1, <1>7 DEF Settled, StoredIsWished, RoutingFollowsScreen, AsAsked
<1>9. ReadIsStored'
  BY <1>1, <1>2, <1>4 DEF ReadIsStored
<1>10. (AtWork = {} /\ ~Races => (Carried <=> Settled /\ ReadIsStored))'
  BY SettledIs, PTL
<1> QED
  BY <1>5, <1>8, <1>9, <1>10

LEMMA BeginsCarries ==
    ASSUME TypeOK, TypeOK', Carried, ~Races', NEW i \in 1 .. MaxThreads, Begins(i)
    PROVE  Carried'
<1>1. /\ threads[i].at = "read" /\ svc' = svc /\ wish' = wish /\ dev' = dev
      /\ td'.request = td.request /\ td'.screen = td.screen /\ td'.params = td.params
      /\ ~td'.inProgress
  BY DEF Begins, TypeOK, TransactionData
<1>2. \A j \in 1 .. MaxThreads : j # i => threads'[j] = threads[j]
  BY DEF Begins, TypeOK
<1>3. /\ Reading \cup AtWork = {i} /\ AtWork = {} /\ svc.at = "idle" /\ ~Races
      /\ threads[i].request = td.request /\ threads[i].screen = td.screen
  <2>1. i \in Reading /\ ~Races
    BY <1>1 DEF Reading, Running, Carried, ThreadHasTheDevice
  <2>2. Reading \cup AtWork = {i}
    BY <2>1 DEF Races
  <2>3. AtWork = {}
    BY <1>1, <2>2 DEF AtWork
  <2> QED
    BY <2>1, <2>2, <2>3 DEF Races, Carried, ThreadHasTheDevice
<1>4. Settled
  BY <1>3, SettledIs
<1>5. CASE ~dev.on
  <2>1. threads'[i].at = "none"
    BY <1>5 DEF Begins, TypeOK, Gone
  <2>2. AtWork' = {} /\ Reading' = {}
    BY <1>2, <1>3, <2>1, WorkerStays
  <2>3. Settled'
    BY <1>1, <1>4, <1>5 DEF Settled, StoredIsWished, RoutingFollowsScreen, AsAsked
  <2>4. (AtWork = {} /\ ~Races => (Carried <=> Settled /\ ReadIsStored))'
    BY SettledIs, PTL
  <2>5. ReadIsStored'
    BY <2>2 DEF ReadIsStored
  <2> QED
    BY <2>2, <2>3, <2>4, <2>5
<1>6. CASE dev.on
  <2>1. /\ threads'[i].request = td.request /\ threads'[i].screen = td.screen
        /\ threads'[i].at = IF td.screen # 0 THEN "screen" ELSE "request"
    BY <1>3, <1>6 DEF Begins, TypeOK, Threads
  <2>2. AtWork' = {i}
    BY <1>2, <1>3, <2>1, WorkerStays
  <2>3. Working(i)'
    BY <1>1, <1>3, <1>4, <1>6, <2>1
       DEF Settled, Working, StoredIsWished, RoutingFollowsScreen, AsAsked
  <2>4. EachWorking'
    BY WorkingIs, PTL
  <2> QED
    BY <2>2, <2>3, <2>4 DEF EachWorking
<1> QED
  BY <1>5, <1>6

(* A thread at work stores nothing again: no transaction has begun. *)
LEMMA WorkerAsks ==
    ASSUME TypeOK, ~td.inProgress, NEW i \in 1 .. MaxThreads, NEW call, NEW d, NEW ready, NEW next,
           ThreadAsks(i, call, d, ready, next)
    PROVE  /\ td' = td
           /\ \A j \in 1 .. MaxThreads : j # i => threads'[j] = threads[j]
           /\ threads'[i].request = threads[i].request /\ threads'[i].screen = threads[i].screen
           /\ \/ Ignored(call, d) /\ threads'[i].at = next
              \/ ~Ignored(call, d) /\ threads'[i].at = ready /\ threads'[i].call = call
<1>1. ~IsHeld(call, d)
  BY DEF IsHeld
<1>2. threads[i] \in Threads
  BY DEF TypeOK
<1>3. CASE Ignored(call, d)
  BY <1>1, <1>2, <1>3 DEF ThreadAsks, TypeOK, Threads
<1>4. CASE ~Ignored(call, d)
  <2>1. threads'[i] = [threads[i] EXCEPT !.at = ready, !.call = call]
        /\ \A j \in 1 .. MaxThreads : j # i => threads'[j] = threads[j]
    BY <1>1, <1>4 DEF ThreadAsks, TypeOK
  <2>2. threads'[i].at = ready /\ threads'[i].call = call
        /\ threads'[i].request = threads[i].request /\ threads'[i].screen = threads[i].screen
    BY <1>2, <2>1 DEF Threads
  <2>3. td' = td
    BY <1>1 DEF ThreadAsks
  <2> QED
    BY <1>4, <2>1, <2>2, <2>3
<1> QED
  BY <1>3, <1>4

(* The steps of a thread at work. *)
LEMMA WorkerSets ==
    ASSUME TypeOK, TypeOK', NEW i \in 1 .. MaxThreads, Working(i), SetsScreen(i)
    PROVE  Working(i)' /\ threads'[i].at \notin {"none", "made", "read"}
           /\ \A j \in 1 .. MaxThreads : j # i => threads'[j] = threads[j]
<1>1. /\ threads[i].at = "screen" /\ ~td.inProgress /\ UNCHANGED <<svc, wish, dev>>
      /\ ThreadAsks(i, SetScreen(threads[i].screen), dev, "set", "request")
  BY DEF SetsScreen, Working
<1>2. td.screen # 0 /\ threads[i].screen = td.screen /\ td.screen = wish.screen /\ dev.on
  BY <1>1 DEF Working, StoredIsWished
<1>3. SetScreen(wish.screen).op = "screen" /\ SetScreen(wish.screen).screen = wish.screen
  BY CallFields DEF TypeOK
<1>4. Ignored(SetScreen(wish.screen), dev) => dev.screen = wish.screen
  BY <1>2, <1>3 DEF Ignored
<1>5. /\ td' = td
      /\ \A j \in 1 .. MaxThreads : j # i => threads'[j] = threads[j]
      /\ threads'[i].request = threads[i].request /\ threads'[i].screen = threads[i].screen
      /\ \/ dev.screen = wish.screen /\ threads'[i].at = "request"
         \/ threads'[i].at = "set" /\ threads'[i].call = SetScreen(wish.screen)
  BY <1>1, <1>2, <1>4, WorkerAsks
<1>6. Working(i)'
  BY <1>1, <1>2, <1>5 DEF Working, StoredIsWished, RoutingFollowsScreen, AsAsked
<1> QED
  BY <1>5, <1>6

LEMMA WorkerEnables ==
    ASSUME TypeOK, TypeOK', NEW i \in 1 .. MaxThreads, Working(i), RequestsEnable(i)
    PROVE  Working(i)' /\ threads'[i].at \notin {"none", "made", "read"}
           /\ \A j \in 1 .. MaxThreads : j # i => threads'[j] = threads[j]
<1> DEFINE d == [dev EXCEPT !.discovery = FALSE, !.polling = FALSE]
<1>1. /\ threads[i].at = "request" /\ threads[i].request = 1 /\ ~td.inProgress
      /\ UNCHANGED <<svc, wish>> /\ dev' = d
      /\ ThreadAsks(i, Enable(td.params, td.restart), d, "perform", "clear")
  BY DEF RequestsEnable, Working
<1>2. td.request = 1 /\ td.params = wish.params /\ wish.params.enable
  BY <1>1 DEF Working, StoredIsWished
<1>3. d.on = dev.on /\ d.screen = dev.screen /\ d.chipPolls = dev.chipPolls
      /\ d.discovery = FALSE
  BY DEF TypeOK, Devices
<1>4. Enable(td.params, td.restart).op = "enable" /\ Enable(td.params, td.restart).params = td.params
  BY CallFields DEF TypeOK, TransactionData
<1> HIDE DEF d
<1>5. ~Ignored(Enable(td.params, td.restart), d)
  BY <1>3, <1>4 DEF Ignored
<1>6. /\ td' = td
      /\ \A j \in 1 .. MaxThreads : j # i => threads'[j] = threads[j]
      /\ threads'[i].request = threads[i].request /\ threads'[i].screen = threads[i].screen
      /\ threads'[i].at = "perform" /\ threads'[i].call = Enable(td.params, td.restart)
  BY <1>1, <1>5, WorkerAsks
<1>7. AsksFor(threads[i].call, wish.params)'
  BY <1>1, <1>2, <1>4, <1>6 DEF AsksFor
<1>8. Working(i)'
  BY <1>1, <1>2, <1>3, <1>6, <1>7 DEF Working, StoredIsWished, RoutingFollowsScreen
<1> QED
  BY <1>6, <1>8

LEMMA WorkerDisables ==
    ASSUME TypeOK, TypeOK', NEW i \in 1 .. MaxThreads, Working(i), RequestsDisable(i)
    PROVE  Working(i)' /\ threads'[i].at \notin {"none", "made", "read"}
           /\ \A j \in 1 .. MaxThreads : j # i => threads'[j] = threads[j]
<1>1. /\ threads[i].at = "request" /\ threads[i].request = 2 /\ ~td.inProgress
      /\ UNCHANGED <<svc, wish, dev>> /\ ThreadAsks(i, Disable, dev, "perform", "clear")
  BY DEF RequestsDisable, Working
<1>2. td.request = 2 /\ ~wish.params.enable /\ ~wish.params.poll
      /\ wish.params.enable \in BOOLEAN /\ wish.params.poll \in BOOLEAN /\ dev \in Devices
  BY <1>1, ParamTypes, PollsIsEnabled DEF Working, StoredIsWished, TypeOK
<1>3. Disable.op = "disable"
  BY CallFields
<1>4. Ignored(Disable, dev) => ~dev.discovery
  BY <1>3 DEF Ignored
<1>5. ~dev.discovery => AsAsked(wish.params)
  BY <1>1, <1>2 DEF AsAsked, Working, Devices
<1>6. /\ td' = td
      /\ \A j \in 1 .. MaxThreads : j # i => threads'[j] = threads[j]
      /\ threads'[i].request = threads[i].request /\ threads'[i].screen = threads[i].screen
      /\ \/ AsAsked(wish.params) /\ threads'[i].at = "clear"
         \/ threads'[i].at = "perform" /\ threads'[i].call = Disable
  BY <1>1, <1>4, <1>5, WorkerAsks
<1>7. threads'[i].at = "perform" => AsksFor(threads[i].call, wish.params)'
  BY <1>1, <1>2, <1>3, <1>6 DEF AsksFor
<1>8. Working(i)'
  BY <1>1, <1>2, <1>6, <1>7 DEF Working, StoredIsWished, RoutingFollowsScreen, AsAsked
<1> QED
  BY <1>6, <1>8

LEMMA WorkerGoesOn ==
    ASSUME TypeOK, TypeOK', NEW i \in 1 .. MaxThreads, Working(i), RequestsNothing(i)
    PROVE  Working(i)' /\ threads'[i].at \notin {"none", "made", "read"}
           /\ \A j \in 1 .. MaxThreads : j # i => threads'[j] = threads[j]
<1>1. /\ threads[i].at = "request" /\ threads[i].request = 0 /\ UNCHANGED <<td, svc, wish, dev>>
      /\ threads'[i] = [threads[i] EXCEPT !.at = "clear"]
      /\ \A j \in 1 .. MaxThreads : j # i => threads'[j] = threads[j]
  BY DEF RequestsNothing, TypeOK
<1>2. threads'[i].at = "clear" /\ threads'[i].request = threads[i].request
      /\ threads'[i].screen = threads[i].screen
  BY <1>1 DEF TypeOK, Threads
<1>3. td.request = 0 /\ AsAsked(wish.params)
  BY <1>1 DEF Working
<1>4. Working(i)'
  BY <1>1, <1>2, <1>3 DEF Working, StoredIsWished, RoutingFollowsScreen, AsAsked
<1> QED
  BY <1>1, <1>2, <1>4

LEMMA WorkerPerforms ==
    ASSUME TypeOK, TypeOK', NEW i \in 1 .. MaxThreads, Working(i), Performs(i)
    PROVE  Working(i)' /\ threads'[i].at \notin {"none", "made", "read"}
           /\ \A j \in 1 .. MaxThreads : j # i => threads'[j] = threads[j]
<1>1. /\ threads[i].at \in {"set", "perform"} /\ UNCHANGED <<td, svc, wish>>
      /\ dev' = Performed(dev, threads[i].call) /\ dev.on /\ ~td.inProgress
      /\ threads[i].request = td.request /\ threads[i].screen = td.screen /\ svc.at = "idle"
  BY DEF Performs, Working
<1>2. /\ threads'[i].at = (IF threads[i].at = "set" THEN "request" ELSE "clear")
      /\ threads'[i].request = threads[i].request /\ threads'[i].screen = threads[i].screen
      /\ \A j \in 1 .. MaxThreads : j # i => threads'[j] = threads[j]
  <2>1. threads[i] \in Threads
    BY DEF TypeOK
  <2>2. threads'[i] = [threads[i] EXCEPT !.at = IF threads[i].at = "set" THEN "request" ELSE "clear",
                                         !.call = NoCall]
        /\ \A j \in 1 .. MaxThreads : j # i => threads'[j] = threads[j]
    BY DEF Performs, TypeOK
  <2> QED
    BY <2>1, <2>2 DEF Threads
<1>p. wish.params \in Params /\ wish.params.enable \in BOOLEAN /\ wish.params.poll \in BOOLEAN
      /\ (wish.params.poll => wish.params.enable) /\ dev \in Devices /\ dev' \in Devices
      /\ wish.screen \in 0 .. 3
  BY ParamTypes, PollsIsEnabled DEF TypeOK
<1>3. CASE threads[i].at = "set"
  <2>1. td.screen # 0 /\ dev' = Performed(dev, SetScreen(wish.screen))
    BY <1>1, <1>3 DEF Working
  <2>2. dev'.on /\ dev'.screen = wish.screen /\ dev'.discovery = dev.discovery
        /\ dev'.polling = dev.polling /\ (dev'.chipPolls => dev.chipPolls)
    BY <1>1, <1>p, <2>1, ScreenSetIs
  <2>3. dev'.chipPolls => dev'.polling /\ dev'.discovery
    BY <1>3, <2>2 DEF Working
  <2>4. td.request = 0 => dev'.discovery = wish.params.enable /\ AsAsked(wish.params)'
                          /\ ~wish.params.enable
    <3>1. td.request = 0 => dev.discovery = wish.params.enable /\ ~wish.params.enable
      BY <2>1 DEF Working
    <3> QED
      BY <1>1, <1>p, <2>2, <2>3, <3>1 DEF AsAsked, Devices
  <2> QED
    BY <1>1, <1>2, <1>3, <2>1, <2>2, <2>3, <2>4 DEF Working, StoredIsWished, RoutingFollowsScreen
<1>4. CASE threads[i].at = "perform"
  <2>1. AsksFor(threads[i].call, wish.params) /\ (dev.chipPolls => dev.polling \/ wish.params.enable)
        /\ dev.screen = wish.screen
    BY <1>4 DEF Working
  <2>2. /\ dev'.on /\ dev'.screen = dev.screen
        /\ dev'.discovery = wish.params.enable /\ dev'.chipPolls = wish.params.poll
        /\ wish.params.enable => dev'.rf
        /\ wish.params.poll => dev'.reader = wish.params.reader
        /\ dev'.chipPolls => dev'.polling /\ dev'.discovery
    BY <1>1, <1>p, <2>1, RoutedIs
  <2>3. AsAsked(wish.params)'
    BY <1>1, <2>2 DEF AsAsked
  <2> QED
    BY <1>1, <1>2, <1>4, <2>1, <2>2, <2>3 DEF Working, StoredIsWished, RoutingFollowsScreen
<1> QED
  BY <1>1, <1>3, <1>4

(* What is wiped at the end has been performed. *)
LEMMA WorkerClears ==
    ASSUME TypeOK, TypeOK', NEW i \in 1 .. MaxThreads, Working(i), Clears(i)
    PROVE  Settled' /\ threads'[i].at = "none"
           /\ \A j \in 1 .. MaxThreads : j # i => threads'[j] = threads[j]
<1>1. /\ threads[i].at = "clear" /\ td' = Fresh /\ UNCHANGED <<svc, wish>>
      /\ threads' = [threads EXCEPT ![i] = Gone]
  BY DEF Clears
<1>2. threads'[i].at = "none" /\ \A j \in 1 .. MaxThreads : j # i => threads'[j] = threads[j]
  BY <1>1 DEF TypeOK, Gone
<1>3. td'.request = 0 /\ td'.screen = 0
  BY <1>1 DEF Fresh
<1>4. /\ dev'.on = dev.on /\ dev'.screen = dev.screen /\ dev'.discovery = dev.discovery
      /\ dev'.polling = dev.polling /\ dev'.chipPolls = dev.chipPolls /\ dev'.reader = dev.reader
      /\ dev.rf => dev'.rf
  <2>1. PICK b \in BOOLEAN : dev' = [dev EXCEPT !.rf = b] /\ (dev.rf => b)
    <3>1. dev.rf \in BOOLEAN
      BY DEF TypeOK, Devices
    <3> QED
      BY <3>1 DEF Clears
  <2> QED
    BY <2>1 DEF TypeOK, Devices
<1>5. dev.on /\ svc.at = "idle" /\ dev.screen = wish.screen /\ AsAsked(wish.params)
      /\ (dev.chipPolls => dev.polling /\ dev.discovery)
      /\ RoutingFollowsScreen
  BY <1>1 DEF Working
<1>6. AsAsked(wish.params)'
  BY <1>1, <1>4, <1>5 DEF AsAsked
<1>7. StoredIsWished' /\ RoutingFollowsScreen'
  BY <1>1, <1>3, <1>4, <1>5 DEF StoredIsWished, RoutingFollowsScreen
<1>8. dev'.discovery = wish.params.enable
  BY <1>4, <1>5 DEF AsAsked
<1>9. Settled'
  BY <1>1, <1>3, <1>4, <1>5, <1>6, <1>7, <1>8 DEF Settled
<1> QED
  BY <1>2, <1>9

LEMMA ThreadCarries ==
    ASSUME TypeOK, TypeOK', Carried, ~Races', NEW i \in 1 .. MaxThreads, ThreadStep(i)
    PROVE  Carried'
<1>1. CASE Reads(i)
  BY <1>1, ReadsCarries
<1>2. CASE Begins(i)
  BY <1>2, BeginsCarries
<1>3. CASE ~Reads(i) /\ ~Begins(i)
  <2>1. i \in AtWork
    BY <1>3 DEF ThreadStep, SetsScreen, Performs, Clears, RequestsEnable, RequestsDisable,
                RequestsNothing, AtWork, Running
  <2>2. ~Races
    BY DEF Carried, ThreadHasTheDevice
  <2>3. Reading \cup AtWork = {i}
    BY <2>1, <2>2 DEF Races
  <2>4. AtWork = {i}
    BY <2>1, <2>3
  <2>5. Working(i)
    BY <2>2, <2>4, WorkingIs DEF EachWorking
  <2>6. CASE Clears(i)
    <3>1. Settled' /\ threads'[i].at = "none"
          /\ \A j \in 1 .. MaxThreads : j # i => threads'[j] = threads[j]
      BY <2>5, <2>6, WorkerClears
    <3>2. AtWork' = {} /\ Reading' = {}
      BY <2>3, <3>1, WorkerStays
    <3>3. ReadIsStored'
      BY <3>2 DEF ReadIsStored
    <3>4. (AtWork = {} /\ ~Races => (Carried <=> Settled /\ ReadIsStored))'
      BY SettledIs, PTL
    <3> QED
      BY <3>1, <3>2, <3>3, <3>4
  <2>7. CASE ~Clears(i)
    <3>1. Working(i)' /\ threads'[i].at \notin {"none", "made", "read"}
          /\ \A j \in 1 .. MaxThreads : j # i => threads'[j] = threads[j]
      BY <1>3, <2>5, <2>7, WorkerSets, WorkerEnables, WorkerDisables, WorkerGoesOn,
         WorkerPerforms DEF ThreadStep
    <3>2. AtWork' = {i}
      BY <2>3, <3>1, WorkerStays
    <3>3. EachWorking'
      BY WorkingIs, PTL
    <3> QED
      BY <3>1, <3>2, <3>3 DEF EachWorking
  <2> QED
    BY <2>6, <2>7
<1> QED
  BY <1>1, <1>2, <1>3

(* Every step that is no race carries on what the service asked for. *)
LEMMA StepCarries ==
    ASSUME Base, Base', ~hist.raced => Carried, ~hist'.raced, [Next]_vars
    PROVE  Carried'
<1>t. TypeOK /\ TypeOK' /\ RouteIsSetFirst
  BY DEF Base
<1>1. CASE UNCHANGED vars
  <2>1. Carried /\ UNCHANGED <<td, timer, threads, svc, wish, dev, reader>>
    BY <1>1 DEF vars
  <2>2. AtWork' = AtWork /\ Reading' = Reading
    BY <2>1 DEF AtWork, Reading, Running
  <2>3. ~Races'
    BY <2>1, <2>2 DEF Races, Held, Carried, ThreadHasTheDevice
  <2> QED
    BY <2>1, <2>2, <2>3, EventCarries
<1>2. CASE Next
  <2>n. Notes
    BY <1>2, StepNotes DEF Next
  <2>r. Carried /\ ~Races'
    BY <2>n, NotesAre
  <2>1. CASE ServiceStep
    <3>1. AtWork = {} /\ AtWork' = {} /\ Settled /\ ReadIsStored'
      BY <1>t, <2>r, <2>1, ServiceRests
    <3>2. Settled'
      BY <1>t, <2>r, <2>1, <3>1, ServiceSettles
    <3>3. (AtWork = {} /\ ~Races => (Carried <=> Settled /\ ReadIsStored))'
      BY SettledIs, PTL
    <3> QED
      BY <2>r, <3>1, <3>2, <3>3
  <2>2. CASE ReaderStep \/ TimerFires
    BY <2>r, <2>2, ReaderCarries
  <2>3. ASSUME NEW i \in 1 .. MaxThreads, ThreadStep(i) PROVE Carried'
    BY <1>t, <2>r, <2>3, ThreadCarries
  <2> QED
    BY <1>2, <2>1, <2>2, <2>3 DEF Next
<1> QED
  BY <1>1, <1>2

-----------------------------------------------------------------------------
(* In every reachable state, for any bounds: the reader, the timer and the threads
   are related as IndInv says, and what the service asked for is stored, on its way
   or in force until a request comes beside a thread (checkforTranscation,
   cleanup_timer, enableThread, applyRouting of NfcService). *)
THEOREM Invariance == Spec => []IndInv
<1>1. Init => Base /\ (~hist.raced => Carried)
  BY InitBase, InitCarried
<1>2. Base /\ (~hist.raced => Carried) /\ [Next]_vars => Base' /\ (~hist'.raced => Carried')
  BY StepBase, StepCarries
<1>3. Base' /\ (~hist'.raced => Carried') => (Base /\ (~hist.raced => Carried))'
  OBVIOUS
<1>4. IndInv <=> Base /\ (~hist.raced => Carried)
  BY IndInvParts
<1> QED
  BY <1>1, <1>2, <1>3, <1>4, PTL DEF Spec

(* Every variable keeps its type: transaction_data never takes a screen for a
   request or a request for a screen. *)
THEOREM TypeCorrect == Spec => []TypeOK
<1>1. IndInv => TypeOK
  BY DEF IndInv
<1>2. QED
  BY Invariance, <1>1, PTL

(* Whatever was stored, merged and performed, and however many readers came back:
   when the reader is gone and the last enableThread has ended, the device has the
   screen state and the discovery NfcService asked for last, unless a request came
   beside a thread or was switched off with NFC. *)
THEOREM DeviceIsAsAsked == Spec => []DeviceFollowsService
<1>1. IndInv => DeviceFollowsService
  <2> SUFFICES ASSUME IndInv, Quiescent, ~hist.raced
               PROVE  dev.screen = wish.screen /\ AsAsked(wish.params)
    BY DEF DeviceFollowsService
  <2>1. AtWork = {} /\ dev.on /\ svc.at = "idle" /\ ~td.inProgress
    BY DEF Quiescent, AtWork
  <2>2. Carried /\ ~Races
    BY IndInvParts DEF Carried, ThreadHasTheDevice
  <2>3. Settled
    BY <2>1, <2>2, SettledIs
  <2> QED
    BY <2>1, <2>3 DEF Settled
<1> QED
  BY Invariance, <1>1, PTL

(* What a step may not do while a reader talks to the card. *)
HeldStep ==
    reader.card /\ reader.alone =>
        /\ svc'.at \in {"screen", "routed"} => svc'.at = svc.at
        /\ \A i \in 1 .. MaxThreads :
              threads'[i].at \in {"set", "perform"} => threads'[i].at = threads[i].at
        /\ dev' # dev /\ dev'.on => svc.at \in {"screen", "routed"} \/ svc'.route # svc.route

(* A call is held, or dropped, while a transaction is in progress. *)
LEMMA CallIsHeld ==
    ASSUME td.inProgress, NEW call
    PROVE  IsHeld(call, dev) \/ Ignored(call, dev)
BY DEF IsHeld

(* No step of the service, the events, the timer or the threads lets one through. *)
LEMMA StepHolds ==
    ASSUME Base, [Next]_vars
    PROVE  [HeldStep]_vars
<1> SUFFICES ASSUME Next, reader.card, reader.alone
             PROVE  /\ svc'.at \in {"screen", "routed"} => svc'.at = svc.at
                    /\ \A i \in 1 .. MaxThreads :
                          threads'[i].at \in {"set", "perform"} => threads'[i].at = threads[i].at
                    /\ dev' # dev /\ dev'.on =>
                          svc.at \in {"screen", "routed"} \/ svc'.route # svc.route
  BY DEF HeldStep
<1>t. TypeOK /\ td.inProgress /\ Running = {} /\ dev.on /\ reader.field /\ ~timer
  BY DEF Base, CardHasField, TransactionCoversTheCard
<1>1. ASSUME NEW call, NEW ready, NEW next,
             Asks(call, ready, next), next \in {"routing", "done"}
      PROVE  svc'.at \notin {"screen", "routed"}
  <2>1. svc'.at = next
    BY <1>t, <1>1, CallIsHeld DEF Asks, TypeOK, Services
  <2>2. QED
    BY <1>1, <2>1
<1>2. CASE ServiceStep
  <2>1. threads' = threads
    BY <1>2 DEF ServiceStep, ScreenChanges, NfcOn, AppliesRouting, ForcesRouting, ScreenIsSet,
                RoutingIsApplied, Returns, CommitsRouting, EndsDiscovery, DefaultRouteIsSet, NfcOff
  <2>2. ASSUME NEW s \in Screens, ScreenChanges(s)
        PROVE  svc'.at \notin {"screen", "routed"} /\ dev' = dev
    BY <1>1, <2>2 DEF ScreenChanges
  <2>3. ASSUME NEW p \in Params, AppliesRouting(p) \/ ForcesRouting(p)
        PROVE  svc'.at \notin {"screen", "routed"} /\ dev' = dev
    <3>0. dev' = dev
      BY <2>3 DEF AppliesRouting, ForcesRouting
    <3>1. CASE svc' = [svc EXCEPT !.at = "idle", !.calls = @ + 1]
      BY <1>t, <3>0, <3>1 DEF TypeOK, Services
    <3>2. CASE Asks(IF p.enable THEN Enable(p, wish.params.enable) ELSE Disable, "routed", "done")
      BY <1>1, <3>0, <3>2
    <3>3. QED
      BY <2>3, <3>1, <3>2 DEF AppliesRouting, ForcesRouting
  <2>4. ASSUME NEW s \in Screens PROVE ~NfcOn(s)
    BY <1>t DEF NfcOn
  <2>5. CASE ScreenIsSet \/ RoutingIsApplied \/ Returns \/ CommitsRouting
    BY <1>t, <2>1, <2>5 DEF ScreenIsSet, RoutingIsApplied, Returns, CommitsRouting, TypeOK, Services
  <2>6. CASE EndsDiscovery \/ DefaultRouteIsSet
    BY <1>t, <2>1, <2>6 DEF EndsDiscovery, DefaultRouteIsSet, TypeOK, Services
  <2>7. CASE NfcOff
    BY <1>t, <2>1, <2>7 DEF NfcOff, TypeOK, Devices
  <2>8. QED
    BY <1>2, <2>1, <2>2, <2>3, <2>4, <2>5, <2>6, <2>7 DEF ServiceStep
<1>3. CASE ReaderStep
  <2>1. svc' = svc /\ dev' = dev
    BY <1>3 DEF ReaderStep, FieldOn, ActivatedEvt, DeactivatedEvt, FieldOff, ActionEvt
  <2>2. threads' = threads
    BY <1>t, <1>3 DEF ReaderStep, FieldOn, ActivatedEvt, DeactivatedEvt, FieldOff, ActionEvt
  <2>3. QED
    BY <2>1, <2>2
<1>4. CASE TimerFires
  BY <1>t, <1>4 DEF TimerFires
<1>5. ASSUME NEW i \in 1 .. MaxThreads PROVE ~ThreadStep(i)
  BY <1>t DEF ThreadStep, Reads, Begins, SetsScreen, Performs, Clears, RequestsEnable,
              RequestsDisable, RequestsNothing, Running
<1>6. QED
  BY <1>2, <1>3, <1>4, <1>5 DEF Next

(* However many readers, calls and threads: under a payment that found no thread and
   no timer no call passes the test of the transaction, and nothing reconfigures the
   radio but a call that had passed it before and setDefaultRoute. *)
THEOREM HeldWhileTheCardTalks == Spec => RequestsAreHeld
<1>1. Base /\ [Next]_vars => [HeldStep]_vars
  BY StepHolds
<1>2. Spec => []Base
  BY InitBase, StepBase, PTL DEF Spec
<1>3. QED
  BY <1>1, <1>2, PTL DEF Spec, RequestsAreHeld, HeldStep
=============================================================================
