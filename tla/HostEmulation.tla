--------------------------- MODULE HostEmulation ---------------------------
(***************************************************************************)
(* HostEmulationManager: which card-emulation service gets the reader's    *)
(* APDUs.  Three threads meet on mLock: the NFC stack's thread (activation,*)
(* data, deactivation), the main thread (service connection callbacks,     *)
(* answers of services, off-host selection) and whichever thread reports a *)
(* new preferred service.  Android's activity manager and the services are *)
(* the environment: binds complete later, services crash and come back.    *)
(*                                                                         *)
(* An APDU is abstracted to what routing tells apart: a SELECT carries the *)
(* service it was resolved to, and a plain APDU carries nothing.           *)
(***************************************************************************)
EXTENDS Integers, FiniteSets

CONSTANTS Service,          \* components of the registered APDU services
          NoSvc,            \* null (a Messenger, a ComponentName or an APDU)
          RequiresUnlock,   \* services with requiresUnlock()
          OnHost,           \* services with isOnHost()
          PaymentService,   \* services with CATEGORY_PAYMENT: the possible payment defaults
          BindMayFail,      \* whether bindServiceAsUser may return false
          MaxTaps,          \* bound: taps of a behaviour
          MaxCrash,         \* bound: service process crashes of a behaviour
          MaxCmds           \* bound: commands a service has yet to answer

ASSUME ServiceAssumption ==
    /\ NoSvc \notin Service
    /\ RequiresUnlock \subseteq Service
    /\ OnHost \subseteq Service
    /\ PaymentService \subseteq Service
    /\ BindMayFail \in BOOLEAN
    /\ MaxTaps \in Nat /\ MaxCrash \in Nat /\ MaxCmds \in Nat

VARIABLES
    mState, mSelectApdu,
    mService, mServiceBound, mServiceName,
    mPaymentService, mPaymentServiceBound, mPaymentServiceName,
    mActiveService, mActiveServiceName,
    conn,       \* activity manager: state of mConnection's bind to each service
    payConn,    \* the same for mPaymentConnection
    instance,   \* instance[s]: process instance of s, counted by its crashes
    crashes,    \* crashes of service processes so far
    reply,      \* the answer MessageHandler is handling on the main thread
    cmds,       \* commands the services got and have not answered
    inSession,  \* instances that got an APDU and no MSG_DEACTIVATED since
    left,       \* instances onOffHostAidSelected dropped without a word
    field,      \* the stack reported an activation and no deactivation since
    tap         \* number of the tap: the first activation of each starts one

selection == <<mState, mSelectApdu>>
regular   == <<mService, mServiceBound, mServiceName>>
payment   == <<mPaymentService, mPaymentServiceBound, mPaymentServiceName>>
active    == <<mActiveService, mActiveServiceName>>
platform  == <<conn, payConn, instance, crashes>>
services  == <<cmds, inSession, left>>
reader    == <<field, tap>>
vars == <<selection, regular, payment, active, platform, services, reply, reader>>
----------------------------------------------------------------------------
States == {"IDLE", "W4_SELECT", "W4_SERVICE", "W4_DEACTIVATE", "XFER"}
Binders == [comp : Service, inst : Nat]
\* A Messenger is an object of its own around a binder: sendDataToServiceLocked
\* compares objects.  "obj" keeps a new one apart from the active one.
Messengers == [comp : Service, inst : Nat, via : {"regular", "payment"}, obj : {0, 1}]
Selects == [kind : {"select"}, want : Service]
Plain == [kind |-> "plain", want |-> NoSvc]
Commands == [comp : Service, inst : Nat, tap : Nat, queued : BOOLEAN,
             kind : {"select", "plain"}, want : Service \cup {NoSvc}]
BindStates == {"none", "pending", "connected", "lost"}

\* What mAidCache.resolveAid or mNfcid2Cache.resolveNfcid2Prefix may return.
ResolveInfos ==
    {r \in [default : Service \cup {NoSvc}, services : SUBSET Service] :
        r.default = NoSvc \/ r.default \in r.services}

ASSUME NullAssumption ==
    NoSvc \notin Messengers \cup Selects \cup [cmd : Commands, stage : {"checked", "ready"}]

Binder(m) == [comp |-> m.comp, inst |-> m.inst]
BindersOf(m) == IF m = NoSvc THEN {} ELSE {Binder(m)}
Alive(m) == instance[m.comp] = m.inst

NewMessenger(s, via) ==
    [comp |-> s, inst |-> instance[s], via |-> via,
     obj |-> IF mActiveService # NoSvc /\ mActiveService.obj = 0 THEN 1 ELSE 0]

Init ==
    /\ mState = "IDLE" /\ mSelectApdu = NoSvc
    /\ mService = NoSvc /\ mServiceBound = FALSE /\ mServiceName = NoSvc
    /\ mPaymentService = NoSvc /\ mPaymentServiceBound = FALSE /\ mPaymentServiceName = NoSvc
    /\ mActiveService = NoSvc /\ mActiveServiceName = NoSvc
    /\ conn = [s \in Service |-> "none"]
    /\ payConn = [s \in Service |-> "none"]
    /\ instance = [s \in Service |-> 0] /\ crashes = 0
    /\ reply = NoSvc
    /\ cmds = {} /\ inSession = {} /\ left = {}
    /\ field = FALSE /\ tap = 0
----------------------------------------------------------------------------
(* The helpers that run under mLock. *)

\* sendDeactivateToActiveServiceLocked: MSG_DEACTIVATED ends the service's session.
Told(m) == inSession \ BindersOf(m)

\* sendDataToServiceLocked(m, apdu); svcName is mServiceName at that point, and
\* queued says that the APDU is the mSelectApdu that waited for the bind.
sendDataToServiceLocked(m, apdu, svcName, queued) ==
    /\ IF m = mActiveService
       THEN UNCHANGED active
       ELSE /\ mActiveService' = m
            /\ mActiveServiceName' =
                 IF mPaymentService # NoSvc /\ Binder(m) = Binder(mPaymentService)
                 THEN mPaymentServiceName ELSE svcName
    /\ LET told == IF m = mActiveService THEN inSession ELSE Told(mActiveService)
       IN  IF Alive(m)
           THEN /\ inSession' = told \cup {Binder(m)}
                /\ cmds' = cmds \cup {[comp |-> m.comp, inst |-> m.inst, tap |-> tap,
                                       queued |-> queued, kind |-> apdu.kind,
                                       want |-> apdu.want]}
           ELSE inSession' = told /\ UNCHANGED cmds   \* RemoteException
    /\ left' = left \ BindersOf(m)

\* The bind of s through a ServiceConnection; one that is already there yields
\* no second onServiceConnected for the same binder.
Bound(c, s) == [c EXCEPT ![s] = IF @ = "none" THEN "pending" ELSE @]
NoBinds == [s \in Service |-> "none"]

\* Mutant: the fields are cleared and unbindService is not called.
unbindServiceIfNeededLocked_NoCall ==
    /\ UNCHANGED conn
    /\ mServiceBound' = FALSE
    /\ mService' = IF mServiceBound THEN NoSvc ELSE mService
    /\ mServiceName' = IF mServiceBound THEN NoSvc ELSE mServiceName

unbindServiceIfNeededLocked ==
    /\ conn' = IF mServiceBound THEN NoBinds ELSE conn
    /\ mServiceBound' = FALSE
    /\ mService' = IF mServiceBound THEN NoSvc ELSE mService
    /\ mServiceName' = IF mServiceBound THEN NoSvc ELSE mServiceName

\* Mutant: the payment bind is taken whatever service it is for.
BoundMessenger_AnyPayment(s) ==
    IF mPaymentServiceBound THEN mPaymentService
    ELSE IF mServiceBound /\ mServiceName = s THEN mService
    ELSE NoSvc

\* The Messenger bindServiceIfNeededLocked returns when s is bound already.
BoundMessenger(s) ==
    IF mPaymentServiceBound /\ mPaymentServiceName = s THEN mPaymentService
    ELSE IF mServiceBound /\ mServiceName = s THEN mService
    ELSE NoSvc

\* The rest of bindServiceIfNeededLocked: drop the regular bind and ask for s.
BindServiceLocked(s) ==
    /\ \E ok \in {TRUE} \cup (IF BindMayFail THEN {FALSE} ELSE {}) :
         LET kept == IF mServiceBound THEN NoBinds ELSE conn
         IN  conn' = IF ok THEN Bound(kept, s) ELSE kept
    /\ mServiceBound' = FALSE
    /\ mService' = IF mServiceBound THEN NoSvc ELSE mService
    /\ mServiceName' = IF mServiceBound THEN NoSvc ELSE mServiceName

\* resolvedService of onHostEmulationData, NoSvc when the user must choose.
ResolvedService(r) ==
    IF r.default # NoSvc THEN r.default
    ELSE IF mActiveServiceName \in r.services THEN mActiveServiceName
    ELSE NoSvc
----------------------------------------------------------------------------
(* The NFC stack's thread. *)

onHostEmulationActivated ==
    /\ IF field THEN UNCHANGED tap ELSE tap < MaxTaps /\ tap' = tap + 1
    /\ field' = TRUE
    /\ mState' = "W4_SELECT"
    /\ UNCHANGED <<mSelectApdu, regular, payment, active, platform, services, reply>>

\* The reader's SELECT of an AID, or a FeliCa command that carries an NFCID2,
\* before the switch on mState.
Accepting == field /\ mState \notin {"IDLE", "W4_DEACTIVATE"} /\ Cardinality(cmds) < MaxCmds
NeedsUnlock(r, locked) == r.default # NoSvc /\ r.default \in RequiresUnlock /\ locked
MisroutedOffHost(r, locked) ==
    r.default # NoSvc /\ ~NeedsUnlock(r, locked) /\ r.default \notin OnHost

\* Nobody handles the AID, or it should have gone off-host: an error answer.
SelectRefused(r, locked) ==
    /\ Accepting
    /\ r.services = {} \/ MisroutedOffHost(r, locked)
    /\ UNCHANGED vars

\* The keyguard or the choice of a service needs the user: TapAgainDialog or
\* AppChooserActivity, and all further APDUs are to be ignored.
SelectNeedsUser(r, locked) ==
    /\ Accepting
    /\ r.services # {}
    /\ NeedsUnlock(r, locked) \/ ResolvedService(r) = NoSvc
    /\ mState' = "W4_DEACTIVATE"
    /\ UNCHANGED <<mSelectApdu, regular, payment, active, platform, services, reply, reader>>

SelectRouted(r, locked) ==
    /\ Accepting
    /\ r.services # {} /\ ResolvedService(r) # NoSvc
    /\ ~NeedsUnlock(r, locked) /\ ~MisroutedOffHost(r, locked)

\* The service is bound already: it gets the SELECT at once.
SelectForwarded(r, locked) ==
    /\ SelectRouted(r, locked)
    /\ mState \in {"W4_SELECT", "XFER"}
    /\ LET s == ResolvedService(r)
       IN  /\ BoundMessenger(s) # NoSvc
           /\ sendDataToServiceLocked(BoundMessenger(s), [kind |-> "select", want |-> s],
                                      mServiceName, FALSE)
    /\ mState' = "XFER"
    /\ UNCHANGED <<mSelectApdu, regular, payment, platform, reply, reader>>

\* The service must be bound first: the SELECT waits in mSelectApdu.
SelectQueued(r, locked) ==
    /\ SelectRouted(r, locked)
    /\ mState \in {"W4_SELECT", "XFER"}
    /\ LET s == ResolvedService(r)
       IN  /\ BoundMessenger(s) = NoSvc
           /\ BindServiceLocked(s)
           /\ mSelectApdu' = [kind |-> "select", want |-> s]
    /\ mState' = "W4_SERVICE"
    /\ UNCHANGED <<payment, active, payConn, instance, crashes, services, reply, reader>>

\* "Unexpected APDU in STATE_W4_SERVICE": a reader that timed out tries again.
SelectIgnored(r, locked) ==
    /\ SelectRouted(r, locked)
    /\ mState = "W4_SERVICE"
    /\ UNCHANGED vars

\* Any other APDU.
PlainForwarded ==
    /\ Accepting
    /\ mState = "XFER" /\ mActiveService # NoSvc
    /\ sendDataToServiceLocked(mActiveService, Plain, mServiceName, FALSE)
    /\ UNCHANGED <<selection, regular, payment, platform, reply, reader>>

\* Answered with UNKNOWN_ERROR, or dropped.
PlainDropped ==
    /\ field
    /\ mState # "XFER" \/ mActiveService = NoSvc
    /\ UNCHANGED vars

onHostEmulationData ==
    \/ \E r \in ResolveInfos, locked \in BOOLEAN :
         \/ SelectRefused(r, locked)
         \/ SelectNeedsUser(r, locked)
         \/ SelectForwarded(r, locked)
         \/ SelectQueued(r, locked)
         \/ SelectIgnored(r, locked)
    \/ PlainForwarded
    \/ PlainDropped

\* Mutant: the active service is dropped without MSG_DEACTIVATED.
onHostEmulationDeactivated_Silent ==
    /\ mActiveService' = NoSvc /\ mActiveServiceName' = NoSvc
    /\ unbindServiceIfNeededLocked
    /\ mState' = "IDLE"
    /\ field' = FALSE
    /\ UNCHANGED <<mSelectApdu, payment, payConn, instance, crashes, services, reply, tap>>

onHostEmulationDeactivated ==
    /\ inSession' = Told(mActiveService)
    /\ mActiveService' = NoSvc /\ mActiveServiceName' = NoSvc
    /\ unbindServiceIfNeededLocked
    /\ mState' = "IDLE"
    /\ field' = FALSE
    /\ UNCHANGED <<mSelectApdu, payment, payConn, instance, crashes, cmds, left, reply, tap>>
----------------------------------------------------------------------------
(* The main thread: one callback at a time, none while a reply is handled. *)

MainIdle == reply = NoSvc

\* MSG_CARD_EMULATION: an AID was selected on a secure element.
onOffHostAidSelected ==
    /\ MainIdle
    /\ IF mState # "XFER" \/ mActiveService = NoSvc
       THEN /\ UNCHANGED inSession
            /\ left' = left \cup (BindersOf(mActiveService) \cap inSession)
       ELSE inSession' = Told(mActiveService) /\ UNCHANGED left
    /\ mActiveService' = NoSvc /\ mActiveServiceName' = NoSvc
    /\ unbindServiceIfNeededLocked
    /\ mState' = "W4_SELECT"
    /\ UNCHANGED <<mSelectApdu, payment, payConn, instance, crashes, cmds, reply, reader>>

\* Mutant: the connection does not end W4_SERVICE.
onServiceConnected_KeepsState(s) ==
    /\ MainIdle
    /\ conn[s] = "pending"
    /\ conn' = [conn EXCEPT ![s] = "connected"]
    /\ mService' = NewMessenger(s, "regular")
    /\ mServiceBound' = TRUE
    /\ mServiceName' = s
    /\ UNCHANGED <<selection, active, services, payment, payConn, instance, crashes, reply, reader>>

\* mConnection.onServiceConnected
onServiceConnected(s) ==
    /\ MainIdle
    /\ conn[s] = "pending"
    /\ conn' = [conn EXCEPT ![s] = "connected"]
    /\ mService' = NewMessenger(s, "regular")
    /\ mServiceBound' = TRUE
    /\ mServiceName' = s
    /\ mState' = "XFER"
    /\ IF mSelectApdu # NoSvc
       THEN sendDataToServiceLocked(NewMessenger(s, "regular"), mSelectApdu, s, TRUE)
       ELSE UNCHANGED <<active, services>>
    /\ mSelectApdu' = NoSvc
    /\ UNCHANGED <<payment, payConn, instance, crashes, reply, reader>>

\* mConnection.onServiceDisconnected: the activity manager restarts the service.
onServiceDisconnected(s) ==
    /\ MainIdle
    /\ conn[s] = "lost"
    /\ conn' = [conn EXCEPT ![s] = "pending"]
    /\ mService' = NoSvc
    /\ mServiceBound' = FALSE
    /\ UNCHANGED <<selection, mServiceName, payment, active, payConn, instance,
                   crashes, services, reply, reader>>

onPaymentServiceConnected(s) ==
    /\ MainIdle
    /\ payConn[s] = "pending"
    /\ payConn' = [payConn EXCEPT ![s] = "connected"]
    /\ mPaymentServiceName' = s
    /\ mPaymentService' = NewMessenger(s, "payment")
    /\ mPaymentServiceBound' = TRUE
    /\ UNCHANGED <<selection, regular, active, conn, instance, crashes, services, reply, reader>>

onPaymentServiceDisconnected(s) ==
    /\ MainIdle
    /\ payConn[s] = "lost"
    /\ payConn' = [payConn EXCEPT ![s] = "pending"]
    /\ mPaymentService' = NoSvc
    /\ mPaymentServiceBound' = FALSE
    /\ mPaymentServiceName' = NoSvc
    /\ UNCHANGED <<selection, regular, active, conn, instance, crashes, services, reply, reader>>

\* MessageHandler.handleMessage takes mLock twice and sends without it.
handleMessageCheck(c) ==
    /\ MainIdle
    /\ c \in cmds
    /\ cmds' = cmds \ {c}
    /\ reply' = IF mActiveService # NoSvc /\ Binder(c) = Binder(mActiveService)
                THEN [cmd |-> c, stage |-> "checked"] ELSE NoSvc
    /\ UNCHANGED <<selection, regular, payment, active, platform, inSession, left, reader>>

handleMessageReadState ==
    /\ reply # NoSvc /\ reply.stage = "checked"
    /\ reply' = IF mState = "XFER" THEN [reply EXCEPT !.stage = "ready"] ELSE NoSvc
    /\ UNCHANGED <<selection, regular, payment, active, platform, services, reader>>

\* MSG_UNHANDLED only opens a chooser; an empty R-APDU is dropped.
handleMessageOther ==
    /\ reply # NoSvc /\ reply.stage = "checked"
    /\ reply' = NoSvc
    /\ UNCHANGED <<selection, regular, payment, active, platform, services, reader>>

handleMessageSendData ==
    /\ reply # NoSvc /\ reply.stage = "ready"
    /\ reply' = NoSvc
    /\ UNCHANGED <<selection, regular, payment, active, platform, services, reader>>
----------------------------------------------------------------------------
(* PreferredServices, on the thread that changed the preference. *)

onPreferredForegroundServiceChanged(s) ==
    /\ IF s = NoSvc
       THEN unbindServiceIfNeededLocked
       ELSE IF BoundMessenger(s) = NoSvc
            THEN BindServiceLocked(s)
            ELSE UNCHANGED <<regular, conn>>
    /\ UNCHANGED <<selection, payment, active, payConn, instance, crashes, services, reply, reader>>

onPreferredPaymentServiceChanged(s) ==
    /\ \E ok \in {TRUE} \cup (IF BindMayFail THEN {FALSE} ELSE {}) :
         LET kept == IF mPaymentServiceBound THEN NoBinds ELSE payConn
         IN  payConn' = IF s # NoSvc /\ ok THEN Bound(kept, s) ELSE kept
    /\ mPaymentServiceBound' = FALSE
    /\ mPaymentService' = IF mPaymentServiceBound THEN NoSvc ELSE mPaymentService
    /\ mPaymentServiceName' = IF mPaymentServiceBound THEN NoSvc ELSE mPaymentServiceName
    /\ UNCHANGED <<selection, regular, active, conn, instance, crashes, services, reply, reader>>

\* The process of a service dies; its connections will be told.
ServiceCrash(s) ==
    /\ crashes < MaxCrash /\ crashes' = crashes + 1
    /\ instance' = [instance EXCEPT ![s] = @ + 1]
    /\ conn' = [conn EXCEPT ![s] = IF @ = "connected" THEN "lost" ELSE @]
    /\ payConn' = [payConn EXCEPT ![s] = IF @ = "connected" THEN "lost" ELSE @]
    /\ inSession' = {b \in inSession : b.comp # s}
    /\ left' = {b \in left : b.comp # s}
    /\ UNCHANGED <<selection, regular, payment, active, cmds, reply, reader>>

StackThread == onHostEmulationActivated \/ onHostEmulationData \/ onHostEmulationDeactivated

MainThread ==
    \/ onOffHostAidSelected
    \/ \E s \in Service :
         \/ onServiceConnected(s)
         \/ onServiceDisconnected(s)
         \/ onPaymentServiceConnected(s)
         \/ onPaymentServiceDisconnected(s)
    \/ \E c \in cmds : handleMessageCheck(c)
    \/ handleMessageReadState
    \/ handleMessageOther
    \/ handleMessageSendData

Preference ==
    \/ \E s \in Service \cup {NoSvc} : onPreferredForegroundServiceChanged(s)
    \/ \E s \in PaymentService \cup {NoSvc} : onPreferredPaymentServiceChanged(s)

Next == StackThread \/ MainThread \/ Preference \/ \E s \in Service : ServiceCrash(s)

Spec == Init /\ [][Next]_vars

\* The activity manager completes a bind it accepted: the main thread's looper is
\* a queue, so its callback runs however many answers are handled before it.
Fairness ==
    /\ \A s \in Service : SF_vars(onServiceConnected(s))
    /\ WF_vars(handleMessageReadState)
    /\ WF_vars(handleMessageSendData)

FairSpec == Spec /\ Fairness
----------------------------------------------------------------------------
TypeOK ==
    /\ mState \in States
    /\ mSelectApdu \in Selects \cup {NoSvc}
    /\ mService \in Messengers \cup {NoSvc} /\ mServiceBound \in BOOLEAN
    /\ mServiceName \in Service \cup {NoSvc}
    /\ mPaymentService \in Messengers \cup {NoSvc} /\ mPaymentServiceBound \in BOOLEAN
    /\ mPaymentServiceName \in Service \cup {NoSvc}
    /\ mActiveService \in Messengers \cup {NoSvc}
    /\ mActiveServiceName \in Service \cup {NoSvc}
    /\ conn \in [Service -> BindStates] /\ payConn \in [Service -> BindStates]
    /\ instance \in [Service -> Nat] /\ crashes \in Nat
    /\ reply \in [cmd : Commands, stage : {"checked", "ready"}] \cup {NoSvc}
    /\ cmds \subseteq Commands
    /\ inSession \subseteq Binders /\ left \subseteq Binders
    /\ field \in BOOLEAN /\ tap \in Nat

\* The name and the Messenger of the active service name the same service, over
\* every switch between the regular bind, the payment bind and restarts of either
\* (sendDataToServiceLocked): the chooser and the next SELECT go by the name.
ActiveServiceIsNamed ==
    IF mActiveService = NoSvc THEN mActiveServiceName = NoSvc
    ELSE mActiveServiceName = mActiveService.comp

\* A queued SELECT is never left without the bind it waits for: nothing unbinds
\* mConnection between the SELECT and its onServiceConnected, whatever preference
\* changes, other connections and crashes come between.
QueuedSelectKeepsItsBind ==
    mState = "W4_SERVICE" =>
        /\ mSelectApdu # NoSvc
        /\ ~mServiceBound
        /\ BindMayFail \/ conn[mSelectApdu.want] # "none"

\* While no service has crashed, the callback that ends W4_SERVICE is still to
\* come: a bind of mConnection that is already connected would call nobody back.
QueuedSelectAwaitsCallback ==
    (mState = "W4_SERVICE" /\ crashes = 0 /\ ~BindMayFail) => conn[mSelectApdu.want] = "pending"

\* The services that got an APDU and were not told MSG_DEACTIVATED are the active
\* one, and those onOffHostAidSelected dropped (it is silent outside XFER, although a
\* service of an earlier SELECT is active); the active one is among them.
SessionsAreAccountedFor ==
    /\ inSession \subseteq BindersOf(mActiveService) \cup left
    /\ mActiveService # NoSvc /\ Alive(mActiveService) => Binder(mActiveService) \in inSession

\* A SELECT that did not have to wait reaches the service it resolved to, although
\* the Messenger comes from one of two binds that the callbacks replace.
DirectSelectReachesItsService ==
    \A c \in cmds : (c.kind = "select" /\ ~c.queued) => c.comp = c.want

\* The inductive invariant behind the five above.
BindsAreConsistent ==
    /\ IF mServiceBound
       THEN mService # NoSvc /\ mService.comp = mServiceName
       ELSE mService = NoSvc
    /\ IF mPaymentServiceBound
       THEN mPaymentService # NoSvc /\ mPaymentService.comp = mPaymentServiceName
       ELSE mPaymentService = NoSvc

InstancesAreKnown ==
    \A m \in {mService, mPaymentService, mActiveService} \ {NoSvc} : m.inst <= instance[m.comp]

\* Until a service crashes, a bind that is connected is the one mServiceBound tells of.
ConnectedIsBound ==
    crashes = 0 => \A s \in Service : conn[s] # "lost" /\ (conn[s] = "connected" => mServiceBound)

\* What the theorems rest on: every invariant above, and how the fields of the two
\* binds, the processes and the activity manager's state fit together.
IndInv ==
    /\ TypeOK
    /\ BindsAreConsistent
    /\ InstancesAreKnown
    /\ ConnectedIsBound
    /\ ActiveServiceIsNamed
    /\ QueuedSelectKeepsItsBind
    /\ QueuedSelectAwaitsCallback
    /\ SessionsAreAccountedFor
    /\ DirectSelectReachesItsService

\* A queued SELECT is delivered, or its tap ends, or the user is asked: the reader is
\* not left waiting in W4_SERVICE, as long as the activity manager accepts the bind.
QueuedSelectEnds == (mState = "W4_SERVICE") ~> (mState # "W4_SERVICE")
============================================================================
