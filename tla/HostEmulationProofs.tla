------------------------ MODULE HostEmulationProofs ------------------------
(***************************************************************************)
(* Proofs about HostEmulation for any set of services, any number of taps, *)
(* crashes and outstanding commands.                                       *)
(***************************************************************************)
EXTENDS HostEmulation, TLAPS

\* A Messenger made by a connection callback is well-formed and is not null.
LEMMA NewMessengerType ==
    ASSUME TypeOK, NEW s \in Service, NEW via \in {"regular", "payment"}
    PROVE  /\ NewMessenger(s, via) \in Messengers
           /\ NewMessenger(s, via) # NoSvc
           /\ NewMessenger(s, via).comp = s
           /\ NewMessenger(s, via).inst = instance[s]
           /\ Binder(NewMessenger(s, via)) = [comp |-> s, inst |-> instance[s]]
  <1>1. instance[s] \in Nat
    BY DEF TypeOK
  <1>2. NewMessenger(s, via) \in Messengers
    BY <1>1 DEF NewMessenger, Messengers
  <1>3. NewMessenger(s, via) # NoSvc
    BY <1>2, NullAssumption
  <1> QED
    BY <1>2, <1>3 DEF NewMessenger, Binder

\* bindServiceIfNeededLocked only returns a Messenger it holds, of that service.
LEMMA BoundMessengerFacts ==
    ASSUME TypeOK, BindsAreConsistent, NEW s \in Service, BoundMessenger(s) # NoSvc
    PROVE  /\ BoundMessenger(s) \in {mService, mPaymentService}
           /\ BoundMessenger(s) \in Messengers
           /\ BoundMessenger(s).comp = s
           /\ BoundMessenger(s) = mPaymentService \/ (BoundMessenger(s) = mService /\ mServiceName = s)
  BY DEF TypeOK, BindsAreConsistent, BoundMessenger

\* sendDataToServiceLocked keeps the types of what it writes.
LEMMA SendDataType ==
    ASSUME TypeOK, NEW m \in Messengers, NEW apdu \in Selects \cup {Plain},
           NEW name \in Service \cup {NoSvc}, NEW queued \in BOOLEAN,
           sendDataToServiceLocked(m, apdu, name, queued)
    PROVE  /\ mActiveService' \in Messengers \cup {NoSvc}
           /\ mActiveServiceName' \in Service \cup {NoSvc}
           /\ cmds' \subseteq Commands
           /\ inSession' \subseteq Binders
           /\ left' \subseteq Binders
  <1>1. /\ mActiveService' \in Messengers \cup {NoSvc}
        /\ mActiveServiceName' \in Service \cup {NoSvc}
    BY DEF TypeOK, sendDataToServiceLocked, active
  <1>2. Binder(m) \in Binders
    BY DEF Binder, Binders, Messengers
  <1>3. Told(mActiveService) \subseteq Binders
    BY DEF TypeOK, Told
  <1>4. inSession' \subseteq Binders
    BY <1>2, <1>3 DEF TypeOK, sendDataToServiceLocked
  <1>5. [comp |-> m.comp, inst |-> m.inst, tap |-> tap, queued |-> queued,
         kind |-> apdu.kind, want |-> apdu.want] \in Commands
    BY DEF Commands, Messengers, Selects, Plain, TypeOK
  <1>6. cmds' \subseteq Commands
    BY <1>5 DEF TypeOK, sendDataToServiceLocked
  <1> QED
    BY <1>1, <1>4, <1>6 DEF TypeOK, sendDataToServiceLocked

----------------------------------------------------------------------------
\* Init establishes the inductive invariant.
LEMMA InitIndInv == Init => IndInv
  <1> SUFFICES ASSUME Init PROVE IndInv
    OBVIOUS
  <1>1. TypeOK
    BY DEF Init, TypeOK, States, BindStates
  <1> QED
    BY <1>1 DEF Init, IndInv, BindsAreConsistent, InstancesAreKnown, ConnectedIsBound,
       ActiveServiceIsNamed, QueuedSelectKeepsItsBind, QueuedSelectAwaitsCallback,
       SessionsAreAccountedFor, DirectSelectReachesItsService, BindersOf

\* Every step keeps the types.
LEMMA NextTypeOK == TypeOK /\ BindsAreConsistent /\ [Next]_vars => TypeOK'
  <1> SUFFICES ASSUME TypeOK, BindsAreConsistent, [Next]_vars PROVE TypeOK'
    OBVIOUS
  <1> USE DEF TypeOK, selection, regular, payment, active, platform, services, reader
  <1>1. ASSUME onHostEmulationActivated PROVE TypeOK'
    BY <1>1 DEF onHostEmulationActivated, States
  <1>2. ASSUME NEW r \in ResolveInfos, NEW locked \in BOOLEAN, SelectNeedsUser(r, locked)
        PROVE  TypeOK'
    BY <1>2 DEF SelectNeedsUser, States
  <1>3. ASSUME NEW r \in ResolveInfos, NEW locked \in BOOLEAN, SelectForwarded(r, locked)
        PROVE  TypeOK'
    <2> DEFINE s == ResolvedService(r)
    <2>1. s \in Service
      BY <1>3 DEF SelectForwarded, SelectRouted, ResolvedService, ResolveInfos
    <2>2. BoundMessenger(s) \in Messengers
      BY <1>3, <2>1, BoundMessengerFacts DEF SelectForwarded
    <2>3. [kind |-> "select", want |-> s] \in Selects \cup {Plain}
      BY <2>1 DEF Selects
    <2>4. sendDataToServiceLocked(BoundMessenger(s), [kind |-> "select", want |-> s],
                                  mServiceName, FALSE)
      BY <1>3 DEF SelectForwarded
    <2> HIDE DEF s
    <2>5. /\ mActiveService' \in Messengers \cup {NoSvc}
          /\ mActiveServiceName' \in Service \cup {NoSvc}
          /\ cmds' \subseteq Commands /\ inSession' \subseteq Binders /\ left' \subseteq Binders
      BY <2>2, <2>3, <2>4, SendDataType
    <2> QED
      BY <1>3, <2>5 DEF SelectForwarded, States
  <1>4. ASSUME NEW r \in ResolveInfos, NEW locked \in BOOLEAN, SelectQueued(r, locked)
        PROVE  TypeOK'
    <2>1. ResolvedService(r) \in Service
      BY <1>4 DEF SelectQueued, SelectRouted, ResolvedService, ResolveInfos
    <2>2. mSelectApdu' \in Selects
      BY <1>4, <2>1 DEF SelectQueued, Selects
    <2>3. conn' \in [Service -> BindStates]
      BY <1>4, <2>1 DEF SelectQueued, BindServiceLocked, Bound, NoBinds, BindStates
    <2> QED
      BY <1>4, <2>2, <2>3 DEF SelectQueued, BindServiceLocked, States
  <1>5. ASSUME PlainForwarded PROVE TypeOK'
    <2>1. sendDataToServiceLocked(mActiveService, Plain, mServiceName, FALSE)
      BY <1>5 DEF PlainForwarded
    <2>2. mActiveService \in Messengers
      BY <1>5 DEF PlainForwarded
    <2>3. /\ mActiveService' \in Messengers \cup {NoSvc}
          /\ mActiveServiceName' \in Service \cup {NoSvc}
          /\ cmds' \subseteq Commands /\ inSession' \subseteq Binders /\ left' \subseteq Binders
      BY <2>1, <2>2, SendDataType
    <2> QED
      BY <1>5, <2>3 DEF PlainForwarded
  <1>6. ASSUME onHostEmulationDeactivated PROVE TypeOK'
    BY <1>6 DEF onHostEmulationDeactivated, unbindServiceIfNeededLocked, NoBinds, BindStates,
       States, Told
  <1>7. ASSUME onOffHostAidSelected PROVE TypeOK'
    <2>1. inSession' \subseteq Binders /\ left' \subseteq Binders
      BY <1>7 DEF onOffHostAidSelected, Told
    <2> QED
      BY <1>7, <2>1 DEF onOffHostAidSelected, unbindServiceIfNeededLocked, NoBinds, BindStates,
         States
  <1>8. ASSUME NEW s \in Service, onServiceConnected(s) PROVE TypeOK'
    <2>1. NewMessenger(s, "regular") \in Messengers
      BY NewMessengerType
    <2>2. conn' \in [Service -> BindStates]
      BY <1>8 DEF onServiceConnected, BindStates
    <2>3. /\ mActiveService' \in Messengers \cup {NoSvc}
          /\ mActiveServiceName' \in Service \cup {NoSvc}
          /\ cmds' \subseteq Commands /\ inSession' \subseteq Binders /\ left' \subseteq Binders
      <3>1. CASE mSelectApdu = NoSvc
        BY <1>8, <3>1 DEF onServiceConnected
      <3>2. CASE mSelectApdu # NoSvc
        <4>1. sendDataToServiceLocked(NewMessenger(s, "regular"), mSelectApdu, s, TRUE)
          BY <1>8, <3>2 DEF onServiceConnected
        <4>2. mSelectApdu \in Selects \cup {Plain}
          BY <3>2
        <4> QED
          BY <2>1, <4>1, <4>2, SendDataType
      <3> QED
        BY <3>1, <3>2
    <2> QED
      BY <1>8, <2>1, <2>2, <2>3 DEF onServiceConnected, States
  <1>9. ASSUME NEW s \in Service, onServiceDisconnected(s) PROVE TypeOK'
    BY <1>9 DEF onServiceDisconnected, BindStates
  <1>10. ASSUME NEW s \in Service, onPaymentServiceConnected(s) PROVE TypeOK'
    <2>1. NewMessenger(s, "payment") \in Messengers
      BY NewMessengerType
    <2> QED
      BY <1>10, <2>1 DEF onPaymentServiceConnected, BindStates
  <1>11. ASSUME NEW s \in Service, onPaymentServiceDisconnected(s) PROVE TypeOK'
    BY <1>11 DEF onPaymentServiceDisconnected, BindStates
  <1>12. ASSUME NEW c \in cmds, handleMessageCheck(c) PROVE TypeOK'
    <2>1. reply' \in [cmd : Commands, stage : {"checked", "ready"}] \cup {NoSvc}
      BY <1>12 DEF handleMessageCheck
    <2> QED
      BY <1>12, <2>1 DEF handleMessageCheck
  <1>13. ASSUME handleMessageReadState PROVE TypeOK'
    <2>1. reply' \in [cmd : Commands, stage : {"checked", "ready"}] \cup {NoSvc}
      BY <1>13 DEF handleMessageReadState
    <2> QED
      BY <1>13, <2>1 DEF handleMessageReadState
  <1>14. ASSUME handleMessageOther \/ handleMessageSendData PROVE TypeOK'
    BY <1>14 DEF handleMessageOther, handleMessageSendData
  <1>15. ASSUME NEW s \in Service \cup {NoSvc}, onPreferredForegroundServiceChanged(s)
         PROVE  TypeOK'
    <2>1. /\ conn' \in [Service -> BindStates]
          /\ mService' \in Messengers \cup {NoSvc} /\ mServiceBound' \in BOOLEAN
          /\ mServiceName' \in Service \cup {NoSvc}
      BY <1>15 DEF onPreferredForegroundServiceChanged, unbindServiceIfNeededLocked,
         BindServiceLocked, Bound, NoBinds, BindStates
    <2> QED
      BY <1>15, <2>1 DEF onPreferredForegroundServiceChanged
  <1>16. ASSUME NEW s \in PaymentService \cup {NoSvc}, onPreferredPaymentServiceChanged(s)
         PROVE  TypeOK'
    <2>1. payConn' \in [Service -> BindStates]
      BY <1>16, ServiceAssumption DEF onPreferredPaymentServiceChanged, Bound, NoBinds, BindStates
    <2> QED
      BY <1>16, <2>1 DEF onPreferredPaymentServiceChanged
  <1>17. ASSUME NEW s \in Service, ServiceCrash(s) PROVE TypeOK'
    BY <1>17 DEF ServiceCrash, BindStates
  <1>18. CASE UNCHANGED vars
    BY <1>18 DEF vars
  <1> QED
    BY <1>1, <1>2, <1>3, <1>4, <1>5, <1>6, <1>7, <1>8, <1>9, <1>10, <1>11, <1>12, <1>13, <1>14,
       <1>15, <1>16, <1>17, <1>18
    DEF Next, StackThread, MainThread, Preference, onHostEmulationData, SelectRefused,
        SelectIgnored, PlainDropped

----------------------------------------------------------------------------
\* After unbindServiceIfNeededLocked the fields and the binds still fit.
LEMMA UnbindFacts ==
    ASSUME TypeOK, BindsAreConsistent, ConnectedIsBound, unbindServiceIfNeededLocked,
           UNCHANGED payment, UNCHANGED crashes
    PROVE  BindsAreConsistent' /\ ConnectedIsBound' /\ (mService' \in {mService, NoSvc})
  BY DEF TypeOK, BindsAreConsistent, ConnectedIsBound, unbindServiceIfNeededLocked, NoBinds,
     payment, BindStates

\* So they do after bindServiceIfNeededLocked asked for a bind.
LEMMA BindFacts ==
    ASSUME TypeOK, BindsAreConsistent, ConnectedIsBound, NEW s \in Service,
           BindServiceLocked(s), UNCHANGED payment, UNCHANGED crashes
    PROVE  BindsAreConsistent' /\ ConnectedIsBound' /\ (mService' \in {mService, NoSvc})
  <1>1. BindsAreConsistent' /\ mService' \in {mService, NoSvc}
    BY DEF BindsAreConsistent, BindServiceLocked, payment
  <1>2. ConnectedIsBound'
    BY DEF TypeOK, ConnectedIsBound, BindServiceLocked, Bound, NoBinds, BindStates
  <1> QED
    BY <1>1, <1>2

\* The service that gets an APDU is in a session, and the one it replaces is told.
LEMMA SendDataSessions ==
    ASSUME TypeOK, SessionsAreAccountedFor, UNCHANGED instance,
           NEW m \in Messengers, NEW apdu, NEW name, NEW queued,
           sendDataToServiceLocked(m, apdu, name, queued)
    PROVE  SessionsAreAccountedFor' /\ mActiveService' = m
  <1>1. mActiveService' = m
    BY DEF sendDataToServiceLocked, active
  <1>2. m # NoSvc
    BY NullAssumption
  <1>3. inSession' \subseteq {Binder(m)} \cup left'
    <2>1. CASE m = mActiveService
      BY <1>2, <2>1 DEF sendDataToServiceLocked, SessionsAreAccountedFor, BindersOf
    <2>2. CASE m # mActiveService
      BY <1>2, <2>2 DEF sendDataToServiceLocked, SessionsAreAccountedFor, BindersOf, Told
    <2> QED
      BY <2>1, <2>2
  <1>4. Alive(m) => Binder(m) \in inSession'
    BY DEF sendDataToServiceLocked
  <1> QED
    BY <1>1, <1>2, <1>3, <1>4 DEF SessionsAreAccountedFor, BindersOf, Alive, Binder

\* The name follows the Messenger when the active service is replaced.
LEMMA SendDataNames ==
    ASSUME TypeOK, BindsAreConsistent, ActiveServiceIsNamed,
           NEW m \in Messengers, NEW apdu, NEW name, NEW queued,
           m = mActiveService \/ m = mPaymentService \/ name = m.comp,
           sendDataToServiceLocked(m, apdu, name, queued)
    PROVE  ActiveServiceIsNamed'
  <1>1. m # NoSvc
    BY NullAssumption
  <1>2. CASE m = mActiveService
    BY <1>1, <1>2 DEF sendDataToServiceLocked, ActiveServiceIsNamed, active
  <1>3. CASE m # mActiveService
    <2>1. mActiveService' = m
      BY <1>3 DEF sendDataToServiceLocked
    <2>2. CASE mPaymentService # NoSvc /\ Binder(m) = Binder(mPaymentService)
      <3>1. mActiveServiceName' = mPaymentServiceName
        BY <1>3, <2>2 DEF sendDataToServiceLocked
      <3>2. mPaymentService.comp = mPaymentServiceName
        BY <2>2 DEF BindsAreConsistent
      <3>3. m.comp = mPaymentService.comp
        BY <2>2 DEF Binder
      <3> QED
        BY <1>1, <2>1, <3>1, <3>2, <3>3 DEF ActiveServiceIsNamed
    <2>3. CASE ~(mPaymentService # NoSvc /\ Binder(m) = Binder(mPaymentService))
      BY <1>1, <1>3, <2>1, <2>3 DEF sendDataToServiceLocked, ActiveServiceIsNamed
    <2> QED
      BY <2>2, <2>3
  <1> QED
    BY <1>2, <1>3

\* A command added to cmds reached its service, unless it had waited.
LEMMA SendDataDelivers ==
    ASSUME DirectSelectReachesItsService,
           NEW m, NEW apdu, NEW name, NEW queued,
           apdu.kind = "select" /\ ~queued => m.comp = apdu.want,
           sendDataToServiceLocked(m, apdu, name, queued)
    PROVE  DirectSelectReachesItsService'
  BY DEF DirectSelectReachesItsService, sendDataToServiceLocked

----------------------------------------------------------------------------
\* Every step keeps the inductive invariant: one step per action, and under it the
\* parts that read what the action writes.
LEMMA NextIndInv == IndInv /\ [Next]_vars => IndInv'
  <1> SUFFICES ASSUME IndInv, [Next]_vars PROVE IndInv'
    OBVIOUS
  <1>0. TypeOK'
    BY NextTypeOK DEF IndInv
  <1> USE DEF IndInv, selection, regular, payment, active, platform, services, reader
  <1> DEFINE Parts == /\ BindsAreConsistent /\ InstancesAreKnown /\ ConnectedIsBound
                      /\ ActiveServiceIsNamed /\ QueuedSelectKeepsItsBind
                      /\ QueuedSelectAwaitsCallback /\ SessionsAreAccountedFor
                      /\ DirectSelectReachesItsService
  <1>a. ASSUME UNCHANGED <<regular, payment, active, platform, services>>,
               mState' # "W4_SERVICE" \/ UNCHANGED selection
        PROVE  Parts'
    BY <1>a DEF BindsAreConsistent, InstancesAreKnown, ConnectedIsBound, ActiveServiceIsNamed,
       QueuedSelectKeepsItsBind, QueuedSelectAwaitsCallback, SessionsAreAccountedFor,
       DirectSelectReachesItsService, BindersOf, Binder, Alive
  <1>b. ASSUME mState' # "W4_SERVICE" PROVE QueuedSelectKeepsItsBind' /\ QueuedSelectAwaitsCallback'
    BY <1>b DEF QueuedSelectKeepsItsBind, QueuedSelectAwaitsCallback
  <1>c. ASSUME UNCHANGED <<regular, payment>> PROVE BindsAreConsistent'
    BY <1>c DEF BindsAreConsistent
  <1>d. ASSUME UNCHANGED <<active, instance, inSession, left>>
        PROVE  SessionsAreAccountedFor' /\ ActiveServiceIsNamed'
    BY <1>d DEF SessionsAreAccountedFor, ActiveServiceIsNamed, BindersOf, Binder, Alive
  <1>e. ASSUME UNCHANGED cmds PROVE DirectSelectReachesItsService'
    BY <1>e DEF DirectSelectReachesItsService
  <1>f. ASSUME UNCHANGED instance, mService' \in {mService, NoSvc},
               mPaymentService' \in {mPaymentService, NoSvc},
               mActiveService' \in {mActiveService, mService, mPaymentService, NoSvc}
        PROVE  InstancesAreKnown'
    BY <1>f DEF InstancesAreKnown
  <1>1. ASSUME onHostEmulationActivated PROVE Parts'
    BY <1>1, <1>a DEF onHostEmulationActivated
  <1>2. ASSUME NEW r \in ResolveInfos, NEW locked \in BOOLEAN, SelectNeedsUser(r, locked)
        PROVE  Parts'
    BY <1>2, <1>a DEF SelectNeedsUser
  <1>3. ASSUME NEW r \in ResolveInfos, NEW locked \in BOOLEAN, SelectForwarded(r, locked)
        PROVE  Parts'
    <2> DEFINE s == ResolvedService(r)
               m == BoundMessenger(s)
    <2>1. s \in Service
      BY <1>3 DEF SelectForwarded, SelectRouted, ResolvedService, ResolveInfos
    <2>2. /\ m \in Messengers /\ m \in {mService, mPaymentService} /\ m.comp = s
          /\ m = mPaymentService \/ mServiceName = m.comp
      BY <1>3, <2>1, BoundMessengerFacts DEF SelectForwarded
    <2>3. sendDataToServiceLocked(m, [kind |-> "select", want |-> s], mServiceName, FALSE)
      BY <1>3 DEF SelectForwarded
    <2>4. /\ UNCHANGED <<regular, payment, platform>> /\ mState' # "W4_SERVICE"
      BY <1>3 DEF SelectForwarded
    <2> HIDE DEF s, m
    <2>5. SessionsAreAccountedFor' /\ mActiveService' = m
      BY <2>2, <2>3, <2>4, SendDataSessions
    <2>6. ActiveServiceIsNamed'
      BY <2>2, <2>3, SendDataNames
    <2>7. DirectSelectReachesItsService'
      BY <2>2, <2>3, SendDataDelivers
    <2>8. BindsAreConsistent' /\ ConnectedIsBound'
      BY <2>4, <1>c DEF ConnectedIsBound
    <2>9. InstancesAreKnown'
      BY <2>2, <2>4, <2>5, <1>f
    <2> QED
      BY <2>4, <2>5, <2>6, <2>7, <2>8, <2>9, <1>b
  <1>4. ASSUME NEW r \in ResolveInfos, NEW locked \in BOOLEAN, SelectQueued(r, locked)
        PROVE  Parts'
    <2> DEFINE s == ResolvedService(r)
    <2>1. s \in Service
      BY <1>4 DEF SelectQueued, SelectRouted, ResolvedService, ResolveInfos
    <2>2. BindServiceLocked(s) /\ mSelectApdu' = [kind |-> "select", want |-> s]
      BY <1>4 DEF SelectQueued
    <2>3. UNCHANGED <<payment, active, payConn, instance, crashes, services>>
      BY <1>4 DEF SelectQueued
    <2> HIDE DEF s
    <2>4. BindsAreConsistent' /\ ConnectedIsBound' /\ mService' \in {mService, NoSvc}
      BY <2>1, <2>2, <2>3, BindFacts
    <2>5. mSelectApdu' # NoSvc /\ mSelectApdu'.want = s
      BY <2>1, <2>2, NullAssumption DEF Selects
    <2>6. ~mServiceBound'
      BY <2>2 DEF BindServiceLocked
    <2>7. BindMayFail \/ conn'[s] # "none"
      BY <2>1, <2>2 DEF BindServiceLocked, Bound, NoBinds, TypeOK
    <2>8. QueuedSelectKeepsItsBind'
      BY <2>5, <2>6, <2>7 DEF QueuedSelectKeepsItsBind
    <2>9. QueuedSelectAwaitsCallback'
      BY <2>1, <2>4, <2>5, <2>6, <2>7, <1>0 DEF QueuedSelectAwaitsCallback, ConnectedIsBound, TypeOK,
         BindStates
    <2> QED
      BY <2>3, <2>4, <2>8, <2>9, <1>d, <1>e, <1>f
  <1>5. ASSUME PlainForwarded PROVE Parts'
    <2>1. /\ sendDataToServiceLocked(mActiveService, Plain, mServiceName, FALSE)
          /\ mActiveService \in Messengers
      BY <1>5 DEF PlainForwarded, TypeOK
    <2>2. UNCHANGED <<selection, regular, payment, platform>> /\ mState' # "W4_SERVICE"
      BY <1>5 DEF PlainForwarded
    <2>3. SessionsAreAccountedFor' /\ mActiveService' = mActiveService
      BY <2>1, <2>2, SendDataSessions
    <2>4. ActiveServiceIsNamed'
      BY <2>1, SendDataNames
    <2>5. DirectSelectReachesItsService'
      BY <2>1, SendDataDelivers DEF Plain
    <2> QED
      BY <2>2, <2>3, <2>4, <2>5, <1>b, <1>c, <1>f DEF ConnectedIsBound
  <1>6. ASSUME onHostEmulationDeactivated PROVE Parts'
    <2>1. BindsAreConsistent' /\ ConnectedIsBound' /\ (mService' \in {mService, NoSvc})
      BY <1>6, UnbindFacts DEF onHostEmulationDeactivated
    <2>2. SessionsAreAccountedFor' /\ ActiveServiceIsNamed'
      BY <1>6 DEF onHostEmulationDeactivated, SessionsAreAccountedFor, ActiveServiceIsNamed, Told,
         BindersOf
    <2> QED
      BY <1>6, <2>1, <2>2, <1>b, <1>e, <1>f DEF onHostEmulationDeactivated
  <1>7. ASSUME onOffHostAidSelected PROVE Parts'
    <2>1. BindsAreConsistent' /\ ConnectedIsBound' /\ (mService' \in {mService, NoSvc})
      BY <1>7, UnbindFacts DEF onOffHostAidSelected
    <2>2. SessionsAreAccountedFor' /\ ActiveServiceIsNamed'
      BY <1>7 DEF onOffHostAidSelected, SessionsAreAccountedFor, ActiveServiceIsNamed, Told,
         BindersOf
    <2> QED
      BY <1>7, <2>1, <2>2, <1>b, <1>e, <1>f DEF onOffHostAidSelected
  <1>8. ASSUME NEW s \in Service, onServiceConnected(s) PROVE Parts'
    <2> DEFINE m == NewMessenger(s, "regular")
    <2>1. m \in Messengers /\ m # NoSvc /\ m.comp = s /\ m.inst = instance[s]
      BY NewMessengerType
    <2>2. /\ mService' = m /\ mServiceBound' = TRUE /\ mServiceName' = s
          /\ mState' # "W4_SERVICE"
          /\ conn' = [conn EXCEPT ![s] = "connected"]
          /\ UNCHANGED <<payment, instance, crashes>>
      BY <1>8 DEF onServiceConnected
    <2>3. mSelectApdu # NoSvc => sendDataToServiceLocked(m, mSelectApdu, s, TRUE)
      BY <1>8 DEF onServiceConnected
    <2>4. mSelectApdu = NoSvc => UNCHANGED <<active, services>>
      BY <1>8 DEF onServiceConnected
    <2> HIDE DEF m
    <2>5. BindsAreConsistent'
      BY <2>1, <2>2 DEF BindsAreConsistent
    <2>6. ConnectedIsBound'
      BY <2>2 DEF ConnectedIsBound, TypeOK, BindStates
    <2>7. SessionsAreAccountedFor' /\ mActiveService' \in {m, mActiveService}
      BY <2>1, <2>2, <2>3, <2>4, <1>d, SendDataSessions
    <2>8. ActiveServiceIsNamed'
      BY <2>1, <2>2, <2>3, <2>4, <1>d, SendDataNames
    <2>9. DirectSelectReachesItsService'
      BY <2>3, <2>4, <1>e, SendDataDelivers
    <2>10. InstancesAreKnown'
      BY <2>1, <2>2, <2>7 DEF InstancesAreKnown, TypeOK
    <2> QED
      BY <2>2, <2>5, <2>6, <2>7, <2>8, <2>9, <2>10, <1>b
  <1>9. ASSUME NEW s \in Service, onServiceDisconnected(s) PROVE Parts'
    <2> USE DEF onServiceDisconnected
    <2>1. crashes # 0
      BY <1>9 DEF ConnectedIsBound
    <2>2. BindsAreConsistent' /\ ConnectedIsBound'
      BY <1>9, <2>1 DEF BindsAreConsistent, ConnectedIsBound
    <2>3. QueuedSelectKeepsItsBind' /\ QueuedSelectAwaitsCallback'
      BY <1>9, <2>1 DEF QueuedSelectKeepsItsBind, QueuedSelectAwaitsCallback, TypeOK, Selects
    <2> QED
      BY <1>9, <2>2, <2>3, <1>d, <1>e, <1>f
  <1>10. ASSUME NEW s \in Service, onPaymentServiceConnected(s) PROVE Parts'
    <2> USE DEF onPaymentServiceConnected
    <2>1. /\ NewMessenger(s, "payment") # NoSvc /\ NewMessenger(s, "payment").comp = s
          /\ NewMessenger(s, "payment").inst = instance[s]
      BY NewMessengerType
    <2>2. BindsAreConsistent' /\ ConnectedIsBound'
      BY <1>10, <2>1 DEF BindsAreConsistent, ConnectedIsBound
    <2>3. QueuedSelectKeepsItsBind' /\ QueuedSelectAwaitsCallback'
      BY <1>10 DEF QueuedSelectKeepsItsBind, QueuedSelectAwaitsCallback
    <2>4. InstancesAreKnown'
      BY <1>10, <2>1 DEF InstancesAreKnown, TypeOK
    <2> QED
      BY <1>10, <2>2, <2>3, <2>4, <1>d, <1>e
  <1>11. ASSUME NEW s \in Service, onPaymentServiceDisconnected(s) PROVE Parts'
    <2> USE DEF onPaymentServiceDisconnected
    <2>1. BindsAreConsistent' /\ ConnectedIsBound'
      BY <1>11 DEF BindsAreConsistent, ConnectedIsBound
    <2>2. QueuedSelectKeepsItsBind' /\ QueuedSelectAwaitsCallback'
      BY <1>11 DEF QueuedSelectKeepsItsBind, QueuedSelectAwaitsCallback
    <2> QED
      BY <1>11, <2>1, <2>2, <1>d, <1>e, <1>f
  <1>12. ASSUME NEW c \in cmds, handleMessageCheck(c) PROVE Parts'
    <2> USE DEF handleMessageCheck
    <2>1. QueuedSelectKeepsItsBind' /\ QueuedSelectAwaitsCallback' /\ ConnectedIsBound'
      BY <1>12 DEF QueuedSelectKeepsItsBind, QueuedSelectAwaitsCallback, ConnectedIsBound
    <2>2. DirectSelectReachesItsService'
      BY <1>12 DEF DirectSelectReachesItsService
    <2> QED
      BY <1>12, <2>1, <2>2, <1>c, <1>d, <1>f
  <1>13. ASSUME handleMessageReadState \/ handleMessageOther \/ handleMessageSendData
         PROVE  Parts'
    BY <1>13, <1>a DEF handleMessageReadState, handleMessageOther, handleMessageSendData
  <1>15. ASSUME NEW s \in Service \cup {NoSvc}, onPreferredForegroundServiceChanged(s)
         PROVE  Parts'
    <2>1. UNCHANGED <<selection, payment, active, instance, crashes, services>>
      BY <1>15 DEF onPreferredForegroundServiceChanged
    <2>2. \/ unbindServiceIfNeededLocked
          \/ s \in Service /\ BindServiceLocked(s)
          \/ UNCHANGED <<regular, conn>>
      BY <1>15 DEF onPreferredForegroundServiceChanged
    <2>3. BindsAreConsistent' /\ ConnectedIsBound' /\ (mService' \in {mService, NoSvc})
      <3>1. CASE unbindServiceIfNeededLocked
        BY <2>1, <3>1, UnbindFacts
      <3>2. CASE s \in Service /\ BindServiceLocked(s)
        BY <2>1, <3>2, BindFacts
      <3>3. CASE UNCHANGED <<regular, conn>>
        BY <2>1, <3>3 DEF BindsAreConsistent, ConnectedIsBound
      <3> QED
        BY <2>2, <3>1, <3>2, <3>3
    <2>4. QueuedSelectKeepsItsBind' /\ QueuedSelectAwaitsCallback'
      <3> SUFFICES ASSUME mState = "W4_SERVICE"
                   PROVE  QueuedSelectKeepsItsBind' /\ QueuedSelectAwaitsCallback'
        BY <2>1 DEF QueuedSelectKeepsItsBind, QueuedSelectAwaitsCallback
      <3>1. mSelectApdu # NoSvc /\ mSelectApdu.want \in Service /\ ~mServiceBound
        BY DEF QueuedSelectKeepsItsBind, TypeOK, Selects
      <3>2. ~mServiceBound' /\ (conn' = conn \/ (s \in Service /\ conn' = Bound(conn, s)))
        <4>1. CASE unbindServiceIfNeededLocked
          BY <3>1, <4>1 DEF unbindServiceIfNeededLocked
        <4>2. CASE s \in Service /\ BindServiceLocked(s)
          <5>1. PICK ok : conn' = IF ok THEN Bound(conn, s) ELSE conn
            BY <3>1, <4>2 DEF BindServiceLocked
          <5> QED
            BY <4>2, <5>1 DEF BindServiceLocked
        <4>3. CASE UNCHANGED <<regular, conn>>
          BY <3>1, <4>3
        <4> QED
          BY <2>2, <4>1, <4>2, <4>3
      <3>3. /\ conn[mSelectApdu.want] # "none" => conn'[mSelectApdu.want] # "none"
            /\ conn[mSelectApdu.want] = "pending" => conn'[mSelectApdu.want] = "pending"
        BY <3>1, <3>2 DEF Bound, TypeOK
      <3> QED
        BY <2>1, <3>1, <3>2, <3>3 DEF QueuedSelectKeepsItsBind, QueuedSelectAwaitsCallback
    <2> QED
      BY <2>1, <2>3, <2>4, <1>d, <1>e, <1>f
  <1>16. ASSUME NEW s \in PaymentService \cup {NoSvc}, onPreferredPaymentServiceChanged(s)
         PROVE  Parts'
    <2> USE DEF onPreferredPaymentServiceChanged
    <2>1. BindsAreConsistent' /\ ConnectedIsBound'
      BY <1>16 DEF BindsAreConsistent, ConnectedIsBound
    <2>2. QueuedSelectKeepsItsBind' /\ QueuedSelectAwaitsCallback'
      BY <1>16 DEF QueuedSelectKeepsItsBind, QueuedSelectAwaitsCallback
    <2>3. mPaymentService' \in {mPaymentService, NoSvc}
      BY <1>16
    <2> QED
      BY <1>16, <2>1, <2>2, <2>3, <1>d, <1>e, <1>f
  <1>17. ASSUME NEW s \in Service, ServiceCrash(s) PROVE Parts'
    <2> USE DEF ServiceCrash
    <2>1. crashes' # 0
      BY <1>17 DEF TypeOK
    <2>2. QueuedSelectKeepsItsBind' /\ QueuedSelectAwaitsCallback' /\ ConnectedIsBound'
      BY <1>17, <2>1 DEF QueuedSelectKeepsItsBind, QueuedSelectAwaitsCallback, ConnectedIsBound,
         TypeOK, Selects
    <2>3. InstancesAreKnown'
      BY <1>17 DEF InstancesAreKnown, TypeOK, Messengers
    <2>4. ActiveServiceIsNamed'
      BY <1>17 DEF ActiveServiceIsNamed
    <2>5. SessionsAreAccountedFor'
      <3>1. inSession' \subseteq BindersOf(mActiveService)' \cup left'
        BY <1>17 DEF SessionsAreAccountedFor, BindersOf, Binder
      <3>2. ASSUME mActiveService # NoSvc, Alive(mActiveService)'
            PROVE  Binder(mActiveService) \in inSession'
        <4>1. mActiveService.inst <= instance[mActiveService.comp] /\ mActiveService \in Messengers
          BY <3>2 DEF InstancesAreKnown, TypeOK
        <4>2. mActiveService.comp # s /\ Alive(mActiveService)
          BY <1>17, <3>2, <4>1 DEF Alive, TypeOK, Messengers
        <4> QED
          BY <1>17, <3>2, <4>2 DEF SessionsAreAccountedFor, Binder
      <3> QED
        BY <1>17, <3>1, <3>2 DEF SessionsAreAccountedFor, Binder, Alive
    <2> QED
      BY <1>17, <2>2, <2>3, <2>4, <2>5, <1>c, <1>e
  <1>18. ASSUME UNCHANGED vars PROVE Parts'
    BY <1>18, <1>a DEF vars
  <1>19. Parts'
    BY <1>1, <1>2, <1>3, <1>4, <1>5, <1>6, <1>7, <1>8, <1>9, <1>10, <1>11, <1>12, <1>13, <1>15,
       <1>16, <1>17, <1>18
    DEF Next, StackThread, MainThread, Preference, onHostEmulationData, SelectRefused,
        SelectIgnored, PlainDropped
  <1> QED
    BY <1>0, <1>19
----------------------------------------------------------------------------
\* IndInv holds in every state of every run.
THEOREM Invariance == Spec => []IndInv
  <1>1. Init => IndInv
    BY InitIndInv
  <1>2. IndInv /\ [Next]_vars => IndInv'
    BY NextIndInv
  <1> QED
    BY <1>1, <1>2, PTL DEF Spec

\* The fields of HostEmulationManager keep their types.
THEOREM TypeCorrect == Spec => []TypeOK
  <1>1. IndInv => TypeOK
    BY DEF IndInv
  <1> QED
    BY Invariance, <1>1, PTL

\* mActiveService and mActiveServiceName, written by sendDataToServiceLocked and cleared by
\* the deactivations, always name the same service.
THEOREM ActiveNameFollowsService == Spec => []ActiveServiceIsNamed
  <1>1. IndInv => ActiveServiceIsNamed
    BY DEF IndInv
  <1> QED
    BY Invariance, <1>1, PTL

\* In W4_SERVICE there is a queued SELECT and the bind it waits for has not been dropped.
THEOREM QueuedSelectIsBound == Spec => []QueuedSelectKeepsItsBind
  <1>1. IndInv => QueuedSelectKeepsItsBind
    BY DEF IndInv
  <1> QED
    BY Invariance, <1>1, PTL

\* Until a service crashes, the onServiceConnected that ends W4_SERVICE is still to come.
THEOREM QueuedSelectWillBeCalled == Spec => []QueuedSelectAwaitsCallback
  <1>1. IndInv => QueuedSelectAwaitsCallback
    BY DEF IndInv
  <1> QED
    BY Invariance, <1>1, PTL

\* A service that got an APDU is told MSG_DEACTIVATED before another one is active, but for
\* those that onOffHostAidSelected drops.
THEOREM SessionsAccounted == Spec => []SessionsAreAccountedFor
  <1>1. IndInv => SessionsAreAccountedFor
    BY DEF IndInv
  <1> QED
    BY Invariance, <1>1, PTL

\* A SELECT that found its service bound is delivered to that service.
THEOREM DirectSelectRouted == Spec => []DirectSelectReachesItsService
  <1>1. IndInv => DirectSelectReachesItsService
    BY DEF IndInv
  <1> QED
    BY Invariance, <1>1, PTL
============================================================================
