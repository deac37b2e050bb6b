-------------------------- MODULE LlcpServerProofs --------------------------
(***************************************************************************)
(* Proofs about LlcpServer for any number of threads, handles, connections *)
(* and blocks.                                                             *)
(***************************************************************************)
EXTENDS LlcpServer, TLAPS, FiniteSetTheorems

\* The parts of IndInv that speak of one ServerThread.
ThreadInv(t) ==
    /\ thread[t].at \in {"new", "begin", "create", "recheck", "ended"} => thread[t].socket = Null
    /\ thread[t].at \in {"accept", "drowsy", "asleep", "woken"} /\ ~thread[t].running
           => thread[t].socket = Null
    /\ thread[t].at \in {"drowsy", "asleep", "woken"} => thread[t].srv # Null

\* The parts that speak of connections.
ConnInv ==
    /\ \A h \in Blocks : mNfaConnHandle[h] # Null => stack[mNfaConnHandle[h]] # "idle"
    /\ OneBlockPerConnection

\* The parts that speak of the registration.
RegInv == (mServer # Null => mJniHandle # Null) /\ RegistrationHasOwner

\* The parts that speak of the blocks accept() has allocated.
Accepting == {"drowsy", "asleep", "woken", "close"}
Held ==
    /\ \A t \in ServerThreads :
         /\ thread[t].at \notin Accepting => thread[t].conn = Null
         /\ thread[t].conn # Null => handler[thread[t].conn] = "none"
    /\ \A t, u \in ServerThreads : thread[t].conn = thread[u].conn => t = u \/ thread[t].conn = Null
AcceptInv == (mServer = Null => Blocks = {}) /\ Held

\* IndInv by these parts.
LEMMA IndInvParts ==
    IndInv <=> TypeOK /\ RegInv /\ ConnInv /\ AcceptInv /\ \A t \in ServerThreads : ThreadInv(t)
  BY DEF IndInv, RegInv, ConnInv, AcceptInv, Held, Accepting, ThreadInv

\* A notification of mConnRequestEvent may wake one sleeping thread and changes nothing else.
LEMMA NotifiedKeeps ==
    ASSUME TypeOK, NEW srv, NEW w \in Notified(srv)
    PROVE  /\ w \in [ServerThreads -> ThreadStates]
           /\ \A t \in ServerThreads :
                \/ w[t] = thread[t]
                \/ thread[t].at = "asleep" /\ w[t] = [thread[t] EXCEPT !.at = "woken"]
  <1>1. CASE w = thread
    BY <1>1 DEF TypeOK
  <1>2. CASE \E t \in AsleepOn(srv) : w = [thread EXCEPT ![t].at = "woken"]
    <2>1. PICK t \in AsleepOn(srv) : w = [thread EXCEPT ![t].at = "woken"]
      BY <1>2
    <2>2. t \in ServerThreads /\ thread[t].at = "asleep"
      BY DEF AsleepOn
    <2>3. [thread[t] EXCEPT !.at = "woken"] \in ThreadStates
      BY <2>2 DEF TypeOK, ThreadStates, Places
    <2> QED
      BY <2>1, <2>2, <2>3 DEF TypeOK
  <1> QED
    BY <1>1, <1>2 DEF Notified

\* So does closing a socket.
LEMMA ClosedKeeps ==
    ASSUME TypeOK, NEW socket, NEW w \in ClosedThreads(socket)
    PROVE  /\ w \in [ServerThreads -> ThreadStates]
           /\ \A t \in ServerThreads :
                \/ w[t] = thread[t]
                \/ thread[t].at = "asleep" /\ w[t] = [thread[t] EXCEPT !.at = "woken"]
  <1>1. CASE Owns(socket)
    BY <1>1, NotifiedKeeps DEF ClosedThreads
  <1>2. CASE ~Owns(socket)
    BY <1>2 DEF ClosedThreads, TypeOK
  <1> QED
    BY <1>1, <1>2

\* Init establishes the inductive invariant.
LEMMA InitIndInv == Init => IndInv
  <1> SUFFICES ASSUME Init PROVE IndInv
    OBVIOUS
  <1>1. TypeOK
    BY DEF Init, TypeOK, NewThread, NoConns, ThreadStates, Places, HandlerPlaces
  <1>2. Blocks = {}
    BY DEF Init, Blocks, NoConns
  <1>3. \A r \in Slots : mServerConn[r] = Null
    BY DEF Init, NoConns
  <1> QED
    BY <1>1, <1>2, <1>3 DEF Init, IndInv, RegistrationHasOwner, OneBlockPerConnection, NewThread

\* A ServerThread that moves to another place keeps its type.
LEMMA GoesType ==
    ASSUME TypeOK, NEW t \in ServerThreads, NEW from, NEW to \in Places, Goes(t, from, to)
    PROVE  thread' \in [ServerThreads -> ThreadStates]
  <1>1. [thread[t] EXCEPT !.at = to] \in ThreadStates
    BY DEF TypeOK, ThreadStates
  <1> QED
    BY <1>1 DEF TypeOK, Goes

\* Its places, one by one.
LEMMA PlacesFacts ==
    /\ "begin" \in Places /\ "create" \in Places /\ "check" \in Places /\ "accept" \in Places
    /\ "drowsy" \in Places /\ "asleep" \in Places /\ "woken" \in Places /\ "close" \in Places
    /\ "recheck" \in Places /\ "ended" \in Places
  BY DEF Places

\* Every step of a ServerThread keeps the types.
LEMMA ServerThreadTypeOK ==
    ASSUME TypeOK, NEW t \in ServerThreads, ServerThreadStep(t)
    PROVE  TypeOK'
  <1>1. SUFFICES thread' \in [ServerThreads -> ThreadStates]
    <2>1. /\ mServer' \in Handles \cup {Null} /\ mJniHandle' \in Handles \cup {Null}
          /\ mServerConn' \in [Slots -> Handles \cup {Null}]
      BY DEF TypeOK, server, ServerThreadStep, ChecksRunning, CreatesSocket, CreatesNoSocket,
         TakesSocket, AllocatesConnection, WaitsForRequest, AcceptsNothing, AcceptsConnection,
         FailsToAccept, ClosesSocket, CloseSocket, NoConns, WithoutBlock, NewJniHandles
    <2>2. /\ mNfaConnHandle' \in [Handles -> NfaConns \cup {Null}]
          /\ handler' \in [Handles -> HandlerPlaces]
          /\ stack' \in [NfaConns -> {"idle", "requested", "open"}]
      BY DEF TypeOK, ServerThreadStep, ChecksRunning, CreatesSocket, CreatesNoSocket,
         TakesSocket, AllocatesConnection, WaitsForRequest, AcceptsNothing, AcceptsConnection,
         FailsToAccept, ClosesSocket, HandlerPlaces
    <2>3. UNCHANGED <<java, unread>>
      BY DEF ServerThreadStep, ChecksRunning, CreatesSocket, CreatesNoSocket,
         TakesSocket, AllocatesConnection, WaitsForRequest, AcceptsNothing, AcceptsConnection,
         FailsToAccept, ClosesSocket
    <2> QED
      BY <2>1, <2>2, <2>3 DEF TypeOK, java
  <1>2. thread[t] \in ThreadStates
    BY DEF TypeOK
  <1>3. CASE ChecksRunning(t)
    BY <1>3, GoesType, PlacesFacts DEF ChecksRunning
  <1>4. CASE CreatesSocket(t)
    <2>1. PICK h \in Handles : thread' = [thread EXCEPT ![t].at = "check", ![t].socket = h]
      BY <1>4 DEF CreatesSocket, NewJniHandles
    <2>2. thread' = [thread EXCEPT ![t] = [@ EXCEPT !.at = "check", !.socket = h]]
      BY <2>1 DEF TypeOK
    <2>3. [thread[t] EXCEPT !.at = "check", !.socket = h] \in ThreadStates
      BY <1>2, PlacesFacts DEF ThreadStates
    <2> QED
      BY <2>2, <2>3 DEF TypeOK
  <1>5. CASE CreatesNoSocket(t)
    BY <1>5, GoesType, PlacesFacts DEF CreatesNoSocket
  <1>6. CASE TakesSocket(t)
    <2>1. [thread[t] EXCEPT !.at = "accept", !.serverSocket = thread[t].socket] \in ThreadStates
      BY <1>2, PlacesFacts DEF ThreadStates
    <2>2. [thread[t] EXCEPT !.at = "close"] \in ThreadStates
      BY <1>2, PlacesFacts DEF ThreadStates
    <2>3. \/ thread' = [thread EXCEPT ![t] = [@ EXCEPT !.at = "accept",
                                                 !.serverSocket = thread[t].socket]]
          \/ thread' = [thread EXCEPT ![t] = [@ EXCEPT !.at = "close"]]
      BY <1>6 DEF TakesSocket, TypeOK
    <2> QED
      BY <2>1, <2>2, <2>3 DEF TypeOK
  <1>7. CASE AllocatesConnection(t)
    <2>1. CASE \E h \in Handles :
                 thread' = [thread EXCEPT ![t] = [@ EXCEPT !.at = "drowsy", !.srv = mServer, !.conn = h]]
      <3>1. PICK h \in Handles :
              thread' = [thread EXCEPT ![t] = [@ EXCEPT !.at = "drowsy", !.srv = mServer, !.conn = h]]
        BY <2>1
      <3>2. [thread[t] EXCEPT !.at = "drowsy", !.srv = mServer, !.conn = h] \in ThreadStates
        BY <1>2, PlacesFacts DEF ThreadStates, TypeOK
      <3> QED
        BY <3>1, <3>2 DEF TypeOK
    <2>2. CASE thread' = [thread EXCEPT ![t] = [@ EXCEPT !.at = "close"]]
      <3>1. [thread[t] EXCEPT !.at = "close"] \in ThreadStates
        BY <1>2, PlacesFacts DEF ThreadStates
      <3> QED
        BY <2>2, <3>1 DEF TypeOK
    <2> QED
      BY <1>7, <2>1, <2>2 DEF AllocatesConnection, NewJniHandles, TypeOK
  <1>8. CASE WaitsForRequest(t)
    BY <1>8, GoesType, PlacesFacts DEF WaitsForRequest
  <1>9. CASE AcceptsNothing(t)
    <2>1. [thread[t] EXCEPT !.at = "close", !.conn = Null] \in ThreadStates
      BY <1>2, PlacesFacts DEF ThreadStates
    <2>2. thread' = [thread EXCEPT ![t] = [@ EXCEPT !.at = "close", !.conn = Null]]
      BY <1>9 DEF AcceptsNothing, TypeOK
    <2> QED
      BY <2>1, <2>2 DEF TypeOK
  <1>10. CASE AcceptsConnection(t)
    <2>1. [thread[t] EXCEPT !.at = "check", !.serverSocket = Null, !.srv = Null, !.conn = Null]
            \in ThreadStates
      BY <1>2, PlacesFacts DEF ThreadStates
    <2>2. thread' = [thread EXCEPT ![t] = [@ EXCEPT !.at = "check", !.serverSocket = Null,
                                             !.srv = Null, !.conn = Null]]
      BY <1>10 DEF AcceptsConnection, TypeOK
    <2> QED
      BY <2>1, <2>2 DEF TypeOK
  <1>11. CASE FailsToAccept(t)
    BY <1>11, GoesType, PlacesFacts DEF FailsToAccept, Goes
  <1>12. CASE ClosesSocket(t)
    <2>1. PICK w \in ClosedThreads(thread[t].socket) :
            thread' = [w EXCEPT ![t] = [@ EXCEPT !.at = "recheck", !.socket = Null,
                                          !.serverSocket = Null, !.srv = Null, !.conn = Null]]
      BY <1>12 DEF ClosesSocket
    <2>2. w \in [ServerThreads -> ThreadStates]
      BY ClosedKeeps
    <2>3. [w[t] EXCEPT !.at = "recheck", !.socket = Null, !.serverSocket = Null,
                       !.srv = Null, !.conn = Null] \in ThreadStates
      BY <2>2, PlacesFacts DEF ThreadStates
    <2> QED
      BY <2>1, <2>2, <2>3
  <1> QED
    BY <1>3, <1>4, <1>5, <1>6, <1>7, <1>8, <1>9, <1>10, <1>11, <1>12 DEF ServerThreadStep

\* Every step keeps the types.
LEMMA NextTypeOK == TypeOK /\ [Next]_vars => TypeOK'
  <1> SUFFICES ASSUME TypeOK, [Next]_vars PROVE TypeOK'
    OBVIOUS
  <1>1. CASE start
    <2>1. PICK t \in ServerThreads : /\ mServerThread' = t
                                     /\ thread' = [thread EXCEPT ![t].at = "begin"]
      BY <1>1 DEF start
    <2>2. [thread[t] EXCEPT !.at = "begin"] \in ThreadStates
      BY PlacesFacts DEF TypeOK, ThreadStates
    <2> QED
      BY <1>1, <2>1, <2>2 DEF start, TypeOK, server
  <1>2. CASE stop
    <2>1. PICK w \in ClosedThreads(thread[mServerThread].socket) :
            thread' = [w EXCEPT ![mServerThread].running = FALSE, ![mServerThread].socket = Null]
      BY <1>2 DEF stop
    <2>2. w \in [ServerThreads -> ThreadStates] /\ mServerThread \in ServerThreads
      BY <1>2, ClosedKeeps DEF stop, TypeOK
    <2>3. thread' = [w EXCEPT ![mServerThread] = [@ EXCEPT !.running = FALSE, !.socket = Null]]
      BY <2>1, <2>2
    <2>4. [w[mServerThread] EXCEPT !.running = FALSE, !.socket = Null] \in ThreadStates
      BY <2>2 DEF ThreadStates
    <2>5. thread' \in [ServerThreads -> ThreadStates]
      BY <2>2, <2>3, <2>4
    <2> QED
      BY <1>2, <2>5 DEF stop, CloseSocket, NoConns, TypeOK, server
  <1>3. CASE \E t \in ServerThreads : ServerThreadStep(t)
    BY <1>3, ServerThreadTypeOK
  <1>4. CASE \E h \in Handles : ConnectionThreadStep(h)
    BY <1>4 DEF ConnectionThreadStep, HandlerChecksRunning, Receives, ReceivesNothing,
       HandlesRequest, FindsNoData, WaitsForData, Disconnects, RemovesConnection, WithoutBlock,
       Moves, HandlerPlaces, TypeOK, java, server
  <1>5. CASE \E n \in NfaConns : ConnRequested(n)
    <2>1. PICK n \in NfaConns : ConnRequested(n)
      BY <1>5
    <2>2. mNfaConnHandle' \in [Handles -> NfaConns \cup {Null}]
      BY <2>1 DEF ConnRequested, TypeOK
    <2>3. thread' \in [ServerThreads -> ThreadStates]
      BY <2>1, NotifiedKeeps DEF ConnRequested, TypeOK
    <2> QED
      BY <2>1, <2>2, <2>3 DEF ConnRequested, TypeOK, java, server
  <1>6. CASE \E n \in NfaConns : DataReceived(n) \/ Disconnected(n)
    BY <1>6 DEF DataReceived, Disconnected, Roused, HandlerPlaces, TypeOK, java, server
  <1>7. CASE UNCHANGED vars
    BY <1>7 DEF vars, TypeOK, java, server
  <1> QED
    BY <1>1, <1>2, <1>3, <1>4, <1>5, <1>6, <1>7 DEF Next, StackEvent

----------------------------------------------------------------------------
\* Every step keeps what is said of each ServerThread.
LEMMA NextThreadInv ==
    ASSUME TypeOK, [Next]_vars, \A t \in ServerThreads : ThreadInv(t), NEW u \in ServerThreads
    PROVE  ThreadInv(u)'
  <1>0. ThreadInv(u) /\ thread[u] \in ThreadStates
    BY DEF TypeOK
  <1>1. CASE start
    <2>1. PICK t \in ServerThreads : /\ thread[t].at = "new"
                                     /\ thread' = [thread EXCEPT ![t].at = "begin"]
      BY <1>1 DEF start
    <2> QED
      BY <1>0, <2>1 DEF ThreadInv, TypeOK, ThreadStates
  <1>2. CASE stop
    <2>1. PICK w \in ClosedThreads(thread[mServerThread].socket) :
            thread' = [w EXCEPT ![mServerThread].running = FALSE, ![mServerThread].socket = Null]
      BY <1>2 DEF stop
    <2>2. w \in [ServerThreads -> ThreadStates] /\ mServerThread \in ServerThreads
      BY <1>2, ClosedKeeps DEF stop, TypeOK
    <2>3. \/ w[u] = thread[u]
          \/ thread[u].at = "asleep" /\ w[u] = [thread[u] EXCEPT !.at = "woken"]
      BY ClosedKeeps
    <2>4. \/ thread'[u] = w[u]
          \/ thread'[u] = [w[u] EXCEPT !.running = FALSE, !.socket = Null]
      BY <2>1, <2>2
    <2>5. ThreadInv(u) /\ w[u] \in ThreadStates /\ thread[u] \in ThreadStates
      BY <1>0, <2>2
    <2>6. /\ w[u].srv = thread[u].srv /\ w[u].socket = thread[u].socket
          /\ w[u].running = thread[u].running
          /\ \/ w[u].at = thread[u].at
             \/ thread[u].at = "asleep" /\ w[u].at = "woken"
      BY <2>3, <2>5 DEF ThreadStates
    <2>7. /\ thread'[u].at = w[u].at /\ thread'[u].srv = w[u].srv
          /\ \/ thread'[u].running = w[u].running /\ thread'[u].socket = w[u].socket
             \/ thread'[u].socket = Null
      BY <2>4, <2>5 DEF ThreadStates
    <2> QED
      BY <2>5, <2>6, <2>7 DEF ThreadInv
  <1>3. CASE \E t \in ServerThreads : ServerThreadStep(t)
    <2>1. PICK t \in ServerThreads : ServerThreadStep(t)
      BY <1>3
    <2>2. CASE ChecksRunning(t)
      BY <1>0, <2>2 DEF ChecksRunning, Goes, ThreadInv, TypeOK, ThreadStates
    <2>3. CASE CreatesSocket(t)
      <3>1. PICK h \in Handles : thread' = [thread EXCEPT ![t].at = "check", ![t].socket = h]
        BY <2>3 DEF CreatesSocket, NewJniHandles
      <3> QED
        BY <1>0, <3>1 DEF ThreadInv, TypeOK, ThreadStates
    <2>4. CASE CreatesNoSocket(t)
      BY <1>0, <2>4 DEF CreatesNoSocket, Goes, ThreadInv, TypeOK, ThreadStates
    <2>5. CASE TakesSocket(t)
      BY <1>0, <2>5 DEF TakesSocket, ThreadInv, TypeOK, ThreadStates
    <2>6. CASE AllocatesConnection(t)
      <3>1. thread[t].at = "accept"
        BY <2>6 DEF AllocatesConnection
      <3>2. \/ \E h \in Handles : /\ mServer # Null
                                  /\ thread' = [thread EXCEPT ![t].at = "drowsy", ![t].srv = mServer,
                                                              ![t].conn = h]
            \/ thread' = [thread EXCEPT ![t].at = "close"]
        BY <2>6 DEF AllocatesConnection, NewJniHandles, Owns
      <3>3. thread[t] \in ThreadStates /\ ThreadInv(t)
        BY DEF TypeOK
      <3>4. u = t => \/ thread'[u].at = "close"
                     \/ /\ thread'[u].at = "drowsy" /\ thread'[u].srv # Null
                        /\ thread'[u].running = thread[u].running
                        /\ thread'[u].socket = thread[u].socket
        BY <3>2, <3>3 DEF TypeOK, ThreadStates
      <3>5. u # t => thread'[u] = thread[u]
        BY <3>2 DEF TypeOK
      <3> QED
        BY <1>0, <3>1, <3>4, <3>5 DEF ThreadInv
    <2>7. CASE WaitsForRequest(t)
      BY <1>0, <2>7 DEF WaitsForRequest, Goes, ThreadInv, TypeOK, ThreadStates
    <2>8. CASE AcceptsNothing(t)
      BY <1>0, <2>8 DEF AcceptsNothing, ThreadInv, TypeOK, ThreadStates
    <2>9. CASE AcceptsConnection(t)
      BY <1>0, <2>9 DEF AcceptsConnection, ThreadInv, TypeOK, ThreadStates
    <2>10. CASE FailsToAccept(t)
      BY <1>0, <2>10 DEF FailsToAccept, Goes, ThreadInv, TypeOK, ThreadStates
    <2>11. CASE ClosesSocket(t)
      <3>1. PICK w \in ClosedThreads(thread[t].socket) :
              thread' = [w EXCEPT ![t] = [@ EXCEPT !.at = "recheck", !.socket = Null,
                                            !.serverSocket = Null, !.srv = Null, !.conn = Null]]
        BY <2>11 DEF ClosesSocket
      <3>2. /\ w \in [ServerThreads -> ThreadStates]
            /\ \/ w[u] = thread[u]
               \/ thread[u].at = "asleep" /\ w[u] = [thread[u] EXCEPT !.at = "woken"]
        BY ClosedKeeps
      <3>3. \/ thread'[u] = w[u]
            \/ /\ thread'[u].at = "recheck" /\ thread'[u].socket = Null
        BY <3>1, <3>2 DEF ThreadStates
      <3> QED
        BY <1>0, <3>2, <3>3 DEF ThreadInv, ThreadStates
    <2> QED
      BY <2>1, <2>2, <2>3, <2>4, <2>5, <2>6, <2>7, <2>8, <2>9, <2>10, <2>11 DEF ServerThreadStep
  <1>4. CASE \E n \in NfaConns : ConnRequested(n)
    <2>1. thread' = thread \/ thread' \in Notified(mServer)
      BY <1>4 DEF ConnRequested
    <2>2. \/ thread'[u] = thread[u]
          \/ thread[u].at = "asleep" /\ thread'[u] = [thread[u] EXCEPT !.at = "woken"]
      BY <2>1, NotifiedKeeps
    <2> QED
      BY <1>0, <2>2 DEF ThreadInv, ThreadStates
  <1>5. CASE UNCHANGED thread
    BY <1>0, <1>5 DEF ThreadInv
  <1> QED
    BY <1>1, <1>2, <1>3, <1>4, <1>5 DEF Next, StackEvent, vars, DataReceived, Disconnected,
       ConnectionThreadStep, HandlerChecksRunning, Receives, ReceivesNothing,
       HandlesRequest, FindsNoData, WaitsForData, Disconnects, RemovesConnection

----------------------------------------------------------------------------
\* A step that leaves the registration alone, and the sockets and places of its owners,
\* keeps what is said of it.
LEMMA RegInvKept ==
    ASSUME RegInv, UNCHANGED <<mServer, mJniHandle>>,
           \A u \in ServerThreads :
               thread[u].at \notin {"new", "ended"} /\ thread[u].socket # Null
                   => thread'[u].socket = thread[u].socket /\ thread'[u].at \notin {"new", "ended"}
    PROVE  RegInv'
  BY DEF RegInv, RegistrationHasOwner

\* Every step keeps what is said of the registration.
LEMMA NextRegInv ==
    ASSUME TypeOK, [Next]_vars, \A t \in ServerThreads : ThreadInv(t), RegInv
    PROVE  RegInv'
  <1>0. \A u \in ServerThreads : thread[u] \in ThreadStates
    BY DEF TypeOK
  <1>1. CASE start
    <2>1. PICK t \in ServerThreads : thread' = [thread EXCEPT ![t].at = "begin"]
      BY <1>1 DEF start
    <2> QED
      BY <1>0, <1>1, <2>1, RegInvKept DEF start, server, TypeOK, ThreadStates
  <1>2. CASE stop
    <2>1. PICK w \in ClosedThreads(thread[mServerThread].socket) :
            thread' = [w EXCEPT ![mServerThread].running = FALSE, ![mServerThread].socket = Null]
      BY <1>2 DEF stop
    <2>2. w \in [ServerThreads -> ThreadStates] /\ mServerThread \in ServerThreads
      BY <1>2, ClosedKeeps DEF stop, TypeOK
    <2>3. CASE Owns(thread[mServerThread].socket)
      BY <1>2, <2>3 DEF stop, CloseSocket, RegInv, RegistrationHasOwner
    <2>4. CASE ~Owns(thread[mServerThread].socket)
      <3>1. UNCHANGED <<mServer, mJniHandle>> /\ w = thread
        BY <1>2, <2>4 DEF stop, CloseSocket, server, ClosedThreads
      <3>2. \A u \in ServerThreads \ {mServerThread} : thread'[u] = thread[u]
        BY <2>1, <2>2, <3>1
      <3> QED
        BY <2>4, <3>1, <3>2 DEF RegInv, RegistrationHasOwner, Owns
    <2> QED
      BY <2>3, <2>4
  <1>3. CASE \E t \in ServerThreads : ServerThreadStep(t)
    <2>1. PICK t \in ServerThreads : ServerThreadStep(t)
      BY <1>3
    <2>2. CASE ChecksRunning(t)
      <3>1. thread[t].socket = Null
        BY <2>2 DEF ChecksRunning, Goes, ThreadInv
      <3> QED
        BY <1>0, <2>2, <3>1, RegInvKept DEF ChecksRunning, Goes, server, TypeOK, ThreadStates
    <2>3. CASE CreatesSocket(t)
      <3>1. PICK h \in Handles : /\ thread' = [thread EXCEPT ![t].at = "check", ![t].socket = h]
                                 /\ mJniHandle' = h
        BY <2>3 DEF CreatesSocket, NewJniHandles
      <3>2. thread'[t].socket = h /\ thread'[t].at = "check"
        BY <1>0, <3>1 DEF TypeOK, ThreadStates
      <3> QED
        BY <3>1, <3>2, LlcpAssumption DEF RegInv, RegistrationHasOwner
    <2>4. CASE ClosesSocket(t)
      <3>1. PICK w \in ClosedThreads(thread[t].socket) :
              thread' = [w EXCEPT ![t] = [@ EXCEPT !.at = "recheck", !.socket = Null,
                                            !.serverSocket = Null, !.srv = Null, !.conn = Null]]
        BY <2>4 DEF ClosesSocket
      <3>2. CASE Owns(thread[t].socket)
        BY <2>4, <3>2 DEF ClosesSocket, CloseSocket, RegInv, RegistrationHasOwner
      <3>3. CASE ~Owns(thread[t].socket)
        <4>1. UNCHANGED <<mServer, mJniHandle>> /\ w = thread
          BY <2>4, <3>3 DEF ClosesSocket, CloseSocket, server, ClosedThreads
        <4>2. \A u \in ServerThreads \ {t} : thread'[u] = thread[u]
          BY <3>1, <4>1 DEF TypeOK
        <4> QED
          BY <3>3, <4>1, <4>2 DEF RegInv, RegistrationHasOwner, Owns
      <3> QED
        BY <3>2, <3>3
    <2>5. CASE AllocatesConnection(t)
      <3>1. \/ \E h \in Handles : thread' = [thread EXCEPT ![t].at = "drowsy", ![t].srv = mServer,
                                                           ![t].conn = h]
            \/ thread' = [thread EXCEPT ![t].at = "close"]
        BY <2>5 DEF AllocatesConnection, NewJniHandles
      <3> QED
        BY <1>0, <2>5, <3>1, RegInvKept DEF AllocatesConnection, TypeOK, ThreadStates
    <2>6. CASE \/ CreatesNoSocket(t) \/ TakesSocket(t) \/ WaitsForRequest(t) \/ AcceptsNothing(t)
               \/ AcceptsConnection(t) \/ FailsToAccept(t)
      <3>1. UNCHANGED <<mServer, mJniHandle>>
        BY <2>6 DEF CreatesNoSocket, TakesSocket, WaitsForRequest, AcceptsNothing,
           AcceptsConnection, FailsToAccept, server
      <3>2. \A u \in ServerThreads \ {t} : thread'[u] = thread[u]
        BY <2>6 DEF CreatesNoSocket, TakesSocket, WaitsForRequest, AcceptsNothing,
           AcceptsConnection, FailsToAccept, Goes, TypeOK
      <3>3. thread'[t].socket = thread[t].socket /\ thread'[t].at \notin {"new", "ended"}
        BY <1>0, <2>6 DEF CreatesNoSocket, TakesSocket, WaitsForRequest, AcceptsNothing,
           AcceptsConnection, FailsToAccept, Goes, TypeOK, ThreadStates
      <3> QED
        BY <3>1, <3>2, <3>3, RegInvKept
    <2> QED
      BY <2>1, <2>2, <2>3, <2>4, <2>5, <2>6 DEF ServerThreadStep
  <1>4. CASE \E n \in NfaConns : ConnRequested(n)
    <2>1. thread' = thread \/ thread' \in Notified(mServer)
      BY <1>4 DEF ConnRequested
    <2>2. \A u \in ServerThreads :
            \/ thread'[u] = thread[u]
            \/ thread[u].at = "asleep" /\ thread'[u] = [thread[u] EXCEPT !.at = "woken"]
      BY <2>1, NotifiedKeeps
    <2> QED
      BY <1>0, <1>4, <2>2, RegInvKept DEF ConnRequested, server, ThreadStates
  <1>5. CASE UNCHANGED <<thread, mServer, mJniHandle>>
    BY <1>5, RegInvKept
  <1> QED
    BY <1>1, <1>2, <1>3, <1>4, <1>5 DEF Next, StackEvent, vars, server, DataReceived, Disconnected,
       ConnectionThreadStep, HandlerChecksRunning, Receives, ReceivesNothing,
       HandlesRequest, FindsNoData, WaitsForData, Disconnects, RemovesConnection

----------------------------------------------------------------------------
\* Taking blocks away keeps what is said of connections.
LEMMA FewerBlocks ==
    ASSUME TypeOK, ConnInv, UNCHANGED stack,
           \A s \in Slots : mServerConn'[s] \in {mServerConn[s], Null},
           \A s \in Slots : mServerConn'[s] # Null
               => mNfaConnHandle'[mServerConn[s]] = mNfaConnHandle[mServerConn[s]]
    PROVE  ConnInv'
  <1>1. Blocks' \subseteq Blocks
    BY DEF Blocks
  <1>2. \A h \in Blocks' : mNfaConnHandle'[h] = mNfaConnHandle[h]
    BY DEF Blocks
  <1> QED
    BY <1>1, <1>2 DEF ConnInv, OneBlockPerConnection

\* Every step keeps what is said of connections.
LEMMA NextConnInv ==
    ASSUME TypeOK, [Next]_vars, ConnInv
    PROVE  ConnInv'
  <1> USE DEF server
  <1>1. CASE start
    BY <1>1, FewerBlocks DEF start
  <1>2. CASE stop
    BY <1>2, FewerBlocks DEF stop, CloseSocket, NoConns
  <1>3. CASE \E t \in ServerThreads : ServerThreadStep(t)
    <2>1. PICK t \in ServerThreads : ServerThreadStep(t)
      BY <1>3
    <2>2. CASE AllocatesConnection(t)
      <3>1. CASE UNCHANGED <<mServerConn, mNfaConnHandle>>
        BY <2>2, <3>1, FewerBlocks DEF AllocatesConnection
      <3> DEFINE s == First({r \in Slots : mServerConn[r] = Null})
      <3>2. CASE \E h \in NewJniHandles :
                   /\ mServerConn' = [mServerConn EXCEPT ![s] = h]
                   /\ mNfaConnHandle' = [mNfaConnHandle EXCEPT ![h] = Null]
        <4> HIDE DEF s
        <4>1. PICK h \in NewJniHandles :
                /\ mServerConn' = [mServerConn EXCEPT ![s] = h]
                /\ mNfaConnHandle' = [mNfaConnHandle EXCEPT ![h] = Null]
          BY <3>2
        <4>2. h \in Handles /\ h \notin Blocks /\ h # Null
          BY LlcpAssumption DEF NewJniHandles, InUse
        <4>3. \A r \in Slots : mServerConn[r] # h
          BY <4>2 DEF Blocks
        <4>4. \A r \in Slots : mServerConn'[r] = mServerConn[r] \/ (r = s /\ mServerConn'[r] = h)
          BY <4>1 DEF TypeOK
        <4>5. mNfaConnHandle'[h] = Null /\ \A g \in Handles \ {h} : mNfaConnHandle'[g] = mNfaConnHandle[g]
          BY <4>1, <4>2 DEF TypeOK
        <4>6. Blocks' \subseteq Blocks \cup {h} /\ Blocks \subseteq Handles
          BY <4>4 DEF Blocks, TypeOK
        <4>7. \A g \in Blocks' : mNfaConnHandle'[g] # Null
                  => g \in Blocks /\ mNfaConnHandle'[g] = mNfaConnHandle[g]
          BY <4>5, <4>6
        <4>8. \A r, q \in Slots : mServerConn'[r] = mServerConn'[q] => r = q \/ mServerConn'[r] = Null
          BY <4>3, <4>4 DEF ConnInv, OneBlockPerConnection
        <4>9. UNCHANGED stack
          BY <2>2 DEF AllocatesConnection
        <4> QED
          BY <4>7, <4>8, <4>9 DEF ConnInv, OneBlockPerConnection
      <3> QED
        BY <2>2, <3>1, <3>2 DEF AllocatesConnection
    <2>3. CASE AcceptsConnection(t)
      <3>1. UNCHANGED <<mServerConn, mNfaConnHandle>>
        BY <2>3 DEF AcceptsConnection
      <3>2. PICK n : stack' = [stack EXCEPT ![n] = "open"]
        BY <2>3 DEF AcceptsConnection
      <3>3. \A h \in Blocks : mNfaConnHandle[h] # Null => mNfaConnHandle[h] \in NfaConns
        BY DEF Blocks, TypeOK
      <3>4. \A m \in NfaConns : stack[m] # "idle" => stack'[m] # "idle"
        BY <3>2 DEF TypeOK
      <3> QED
        BY <3>1, <3>3, <3>4 DEF ConnInv, OneBlockPerConnection, Blocks
    <2>4. CASE AcceptsNothing(t)
      BY <2>4, FewerBlocks DEF AcceptsNothing, WithoutBlock
    <2>5. CASE ClosesSocket(t)
      BY <2>5, FewerBlocks DEF ClosesSocket, CloseSocket, NoConns
    <2>6. CASE UNCHANGED <<mServerConn, mNfaConnHandle, stack>>
      BY <2>6, FewerBlocks
    <2> QED
      BY <2>1, <2>2, <2>3, <2>4, <2>5, <2>6 DEF ServerThreadStep, ChecksRunning, CreatesSocket,
         CreatesNoSocket, TakesSocket, WaitsForRequest, FailsToAccept
  <1>4. CASE \E h \in Handles : ConnectionThreadStep(h)
    <2>1. PICK h \in Handles : ConnectionThreadStep(h)
      BY <1>4
    <2>2. CASE RemovesConnection(h)
      <3>1. \A s \in Slots : mServerConn'[s] \in {mServerConn[s], Null}
        BY <2>2 DEF RemovesConnection, WithoutBlock
      <3>2. ASSUME NEW s \in Slots, mServerConn'[s] # Null
            PROVE  mNfaConnHandle'[mServerConn[s]] = mNfaConnHandle[mServerConn[s]]
        BY <2>2, <3>2 DEF RemovesConnection, WithoutBlock, TypeOK
      <3>3. UNCHANGED stack
        BY <2>2 DEF RemovesConnection
      <3> QED
        BY <3>1, <3>2, <3>3, FewerBlocks
    <2>3. CASE UNCHANGED <<mServerConn, mNfaConnHandle, stack>>
      BY <2>3, FewerBlocks
    <2> QED
      BY <2>1, <2>2, <2>3 DEF ConnectionThreadStep, HandlerChecksRunning, Receives,
         ReceivesNothing, HandlesRequest, FindsNoData, WaitsForData, Disconnects
  <1>5. CASE \E n \in NfaConns : ConnRequested(n)
    <2>1. PICK n \in NfaConns : ConnRequested(n)
      BY <1>5
    <2>2. UNCHANGED mServerConn /\ stack[n] = "idle" /\ stack' = [stack EXCEPT ![n] = "requested"]
      BY <2>1 DEF ConnRequested
    <2>3. PICK g : mNfaConnHandle' = mNfaConnHandle \/ mNfaConnHandle' = [mNfaConnHandle EXCEPT ![g] = n]
      BY <2>1 DEF ConnRequested
    <2>4. \A h \in Handles : mNfaConnHandle'[h] = mNfaConnHandle[h] \/ (h = g /\ mNfaConnHandle'[h] = n)
      BY <2>3 DEF TypeOK
    <2>5. Blocks' = Blocks /\ Blocks \subseteq Handles
      BY <2>2 DEF Blocks, TypeOK
    <2>6. \A h \in Blocks : mNfaConnHandle[h] # n
      BY <2>2, LlcpAssumption DEF ConnInv
    <2>7. \A m \in NfaConns : stack'[m] = stack[m] \/ stack'[m] = "requested"
      BY <2>2 DEF TypeOK
    <2>8. stack'[n] = "requested"
      BY <2>2 DEF TypeOK
    <2>9. \A h \in Blocks' : mNfaConnHandle'[h] # Null => stack'[mNfaConnHandle'[h]] # "idle"
      BY <2>4, <2>5, <2>7, <2>8 DEF ConnInv, TypeOK
    <2>10. \A h, k \in Blocks' : mNfaConnHandle'[h] = mNfaConnHandle'[k]
              => h = k \/ mNfaConnHandle'[h] = Null
      BY <2>4, <2>5, <2>6 DEF ConnInv, OneBlockPerConnection
    <2> QED
      BY <2>2, <2>9, <2>10 DEF ConnInv, OneBlockPerConnection
  <1>6. CASE \E n \in NfaConns : DataReceived(n)
    BY <1>6, FewerBlocks DEF DataReceived
  <1>7. CASE \E n \in NfaConns : Disconnected(n)
    <2>1. PICK n \in NfaConns : Disconnected(n)
      BY <1>7
    <2>2. UNCHANGED mServerConn /\ stack' = [stack EXCEPT ![n] = "idle"]
      BY <2>1 DEF Disconnected
    <2>3. Blocks' = Blocks /\ Blocks \subseteq Handles
      BY <2>2 DEF Blocks, TypeOK
    <2>4. \A h \in Blocks : mNfaConnHandle'[h] # Null
              => mNfaConnHandle[h] # n /\ mNfaConnHandle'[h] = mNfaConnHandle[h]
      BY <2>1, <2>3 DEF Disconnected, FindConnection
    <2>5. \A m \in NfaConns \ {n} : stack'[m] = stack[m]
      BY <2>2 DEF TypeOK
    <2>6. \A h \in Blocks : mNfaConnHandle[h] # Null => mNfaConnHandle[h] \in NfaConns
      BY <2>3 DEF TypeOK
    <2> QED
      BY <2>2, <2>3, <2>4, <2>5, <2>6 DEF ConnInv, OneBlockPerConnection
  <1>8. CASE UNCHANGED vars
    BY <1>8, FewerBlocks DEF vars
  <1> QED
    BY <1>1, <1>2, <1>3, <1>4, <1>5, <1>6, <1>7, <1>8 DEF Next, StackEvent
----------------------------------------------------------------------------
\* Threads that keep their blocks or let go of them, and connections whose ConnectionThread
\* has not come, keep what is said of accept().
LEMMA HeldKept ==
    ASSUME Held,
           \A u \in ServerThreads : /\ thread'[u].conn = thread[u].conn \/ thread'[u].conn = Null
                                    /\ thread'[u].conn # Null => thread'[u].at \in Accepting,
           \A u \in ServerThreads : thread'[u].conn # Null /\ handler[thread'[u].conn] = "none"
                                        => handler'[thread'[u].conn] = "none"
    PROVE  Held'
  BY DEF Held

\* A server that goes takes its blocks with it.
LEMMA ServerGoes ==
    ASSUME TypeOK, mServer = Null => Blocks = {}, NEW socket, CloseSocket(socket)
    PROVE  mServer' = Null => Blocks' = {}
  BY DEF CloseSocket, Blocks, NoConns, server

\* A ServerThread that waits for no request has no block to lose.
LEMMA ThreadGoes ==
    ASSUME TypeOK, Held, NEW t \in ServerThreads, NEW new \in ThreadStates,
           NEW w \in [ServerThreads -> ThreadStates], UNCHANGED handler,
           \A u \in ServerThreads :
               \/ w[u] = thread[u]
               \/ thread[u].at = "asleep" /\ w[u] = [thread[u] EXCEPT !.at = "woken"],
           thread' = [w EXCEPT ![t] = new],
           new.conn = Null \/ (new.conn = thread[t].conn /\ new.at \in Accepting)
    PROVE  Held'
  <1>1. \A u \in ServerThreads : thread[u] \in ThreadStates
    BY DEF TypeOK
  <1>2. \A u \in ServerThreads :
          /\ w[u].conn = thread[u].conn
          /\ thread[u].at \in Accepting => w[u].at \in Accepting
    BY <1>1 DEF ThreadStates, Accepting
  <1>3. \A u \in ServerThreads : thread'[u] = IF u = t THEN new ELSE w[u]
    OBVIOUS
  <1>4. \A u \in ServerThreads : /\ thread'[u].conn = thread[u].conn \/ thread'[u].conn = Null
                                 /\ thread'[u].conn # Null => thread'[u].at \in Accepting
    BY <1>2, <1>3 DEF Held
  <1> QED
    BY <1>4, HeldKept

\* Every step of a ServerThread keeps what is said of accept().
LEMMA ServerThreadHeld ==
    ASSUME TypeOK, Held, NEW t \in ServerThreads, ServerThreadStep(t)
    PROVE  Held'
  <1>0. thread \in [ServerThreads -> ThreadStates] /\ thread[t] \in ThreadStates
    BY DEF TypeOK
  <1>1. CASE AllocatesConnection(t)
    <2>1. CASE thread' = [thread EXCEPT ![t].at = "close"]
      <3>1. UNCHANGED handler
        BY <1>1 DEF AllocatesConnection
      <3> QED
        BY <1>0, <2>1, <3>1, HeldKept DEF Held, ThreadStates, Accepting
    <2>2. CASE \E h \in NewJniHandles : thread' = [thread EXCEPT ![t].at = "drowsy", ![t].srv = mServer,
                                                                 ![t].conn = h]
      <3>1. PICK h \in NewJniHandles : thread' = [thread EXCEPT ![t].at = "drowsy", ![t].srv = mServer,
                                                                ![t].conn = h]
        BY <2>2
      <3>2. h \in Handles /\ handler[h] = "none" /\ \A u \in ServerThreads : thread[u].conn # h
        BY DEF NewJniHandles, InUse
      <3>3. thread'[t].at = "drowsy" /\ thread'[t].conn = h
        BY <1>0, <3>1 DEF ThreadStates
      <3>4. \A u \in ServerThreads \ {t} : thread'[u] = thread[u]
        BY <1>0, <3>1
      <3>5. UNCHANGED handler
        BY <1>1 DEF AllocatesConnection
      <3> QED
        BY <3>2, <3>3, <3>4, <3>5 DEF Held, Accepting
    <2> QED
      BY <1>1, <2>1, <2>2 DEF AllocatesConnection
  <1>2. CASE AcceptsConnection(t)
    <2> DEFINE h == thread[t].conn
    <2>1. /\ thread' = [thread EXCEPT ![t].at = "check", ![t].serverSocket = Null,
                                      ![t].srv = Null, ![t].conn = Null]
          /\ handler' = [handler EXCEPT ![h] = "begin"]
      BY <1>2 DEF AcceptsConnection
    <2>2. thread'[t].conn = Null /\ \A u \in ServerThreads \ {t} : thread'[u] = thread[u]
      BY <1>0, <2>1 DEF ThreadStates
    <2>3. \A g \in Handles \ {h} : handler'[g] = handler[g]
      BY <2>1 DEF TypeOK
    <2>4. \A u \in ServerThreads \ {t} : thread[u].conn \in (Handles \ {h}) \cup {Null}
      BY <1>0 DEF Held, ThreadStates
    <2>5. \A u \in ServerThreads : thread'[u].conn # Null => u # t /\ thread'[u].conn \in Handles \ {h}
      BY <2>2, <2>4
    <2>6. \A u \in ServerThreads : /\ thread'[u].conn = thread[u].conn \/ thread'[u].conn = Null
                                   /\ thread'[u].conn # Null => thread'[u].at \in Accepting
      BY <2>2 DEF Held
    <2>7. \A u \in ServerThreads : thread'[u].conn # Null /\ handler[thread'[u].conn] = "none"
                                       => handler'[thread'[u].conn] = "none"
      BY <2>3, <2>5
    <2> QED
      BY <2>6, <2>7, HeldKept
  <1>3. CASE ClosesSocket(t)
    <2>1. PICK w \in ClosedThreads(thread[t].socket) :
            thread' = [w EXCEPT ![t] = [@ EXCEPT !.at = "recheck", !.socket = Null,
                                          !.serverSocket = Null, !.srv = Null, !.conn = Null]]
      BY <1>3 DEF ClosesSocket
    <2> DEFINE new == [w[t] EXCEPT !.at = "recheck", !.socket = Null,
                                   !.serverSocket = Null, !.srv = Null, !.conn = Null]
    <2>2. /\ w \in [ServerThreads -> ThreadStates]
          /\ \A u \in ServerThreads :
               \/ w[u] = thread[u]
               \/ thread[u].at = "asleep" /\ w[u] = [thread[u] EXCEPT !.at = "woken"]
      BY ClosedKeeps
    <2>3. new \in ThreadStates /\ new.conn = Null
      <3>1. w[t] \in ThreadStates
        BY <2>2
      <3> QED
        BY <3>1, PlacesFacts DEF ThreadStates
    <2>4. thread' = [w EXCEPT ![t] = new]
      BY <2>1, <2>2
    <2>5. UNCHANGED handler
      BY <1>3 DEF ClosesSocket
    <2> HIDE DEF new
    <2> QED
      BY <2>2, <2>3, <2>4, <2>5, ThreadGoes
  <1>4. CASE \/ ChecksRunning(t) \/ CreatesSocket(t) \/ CreatesNoSocket(t) \/ TakesSocket(t)
             \/ WaitsForRequest(t) \/ AcceptsNothing(t) \/ FailsToAccept(t)
    <2>1. UNCHANGED handler
      BY <1>4 DEF ChecksRunning, CreatesSocket, CreatesNoSocket, TakesSocket, WaitsForRequest,
         AcceptsNothing, FailsToAccept
    <2>2. \A u \in ServerThreads \ {t} : thread'[u] = thread[u]
      BY <1>0, <1>4 DEF ChecksRunning, CreatesSocket, CreatesNoSocket, TakesSocket, WaitsForRequest,
         AcceptsNothing, FailsToAccept, Goes
    <2>3. \/ thread'[t].conn = Null
          \/ thread'[t].conn = thread[t].conn /\ thread'[t].at \in Accepting
      BY <1>0, <1>4 DEF ChecksRunning, CreatesSocket, CreatesNoSocket, TakesSocket, WaitsForRequest,
         AcceptsNothing, FailsToAccept, Goes, Held, Accepting, ThreadStates
    <2> QED
      BY <2>1, <2>2, <2>3, HeldKept DEF Held
  <1> QED
    BY <1>1, <1>2, <1>3, <1>4 DEF ServerThreadStep

\* Blocks that go do not go before their server does.
LEMMA BlocksGo ==
    ASSUME TypeOK, mServer = Null => Blocks = {}, mServer' = Null => mServer = Null,
           \A s \in Slots : mServerConn'[s] \in {mServerConn[s], Null}
    PROVE  mServer' = Null => Blocks' = {}
  BY DEF Blocks

\* Every step keeps what is said of accept().
LEMMA NextAcceptInv ==
    ASSUME TypeOK, [Next]_vars, AcceptInv
    PROVE  AcceptInv'
  <1>0. /\ thread \in [ServerThreads -> ThreadStates]
        /\ \A u \in ServerThreads : thread[u] \in ThreadStates
        /\ mServer = Null => Blocks = {}
        /\ Held
    BY DEF TypeOK, AcceptInv
  <1>1. CASE start
    <2>1. PICK t \in ServerThreads : thread[t].at = "new" /\ thread' = [thread EXCEPT ![t].at = "begin"]
      BY <1>1 DEF start
    <2>2. \A u \in ServerThreads : /\ thread'[u].conn = thread[u].conn
                                   /\ u # t => thread'[u] = thread[u]
      BY <1>0, <2>1 DEF ThreadStates
    <2>3. thread[t].conn = Null
      BY <1>0, <2>1 DEF Held, Accepting
    <2>4. Held'
      BY <1>0, <1>1, <2>2, <2>3, HeldKept DEF start, Held
    <2> QED
      BY <1>0, <1>1, <2>4 DEF start, server, AcceptInv, Blocks
  <1>2. CASE stop
    <2>1. PICK w \in ClosedThreads(thread[mServerThread].socket) :
            thread' = [w EXCEPT ![mServerThread].running = FALSE, ![mServerThread].socket = Null]
      BY <1>2 DEF stop
    <2>2. /\ w \in [ServerThreads -> ThreadStates] /\ mServerThread \in ServerThreads
          /\ \A u \in ServerThreads :
               \/ w[u] = thread[u]
               \/ thread[u].at = "asleep" /\ w[u] = [thread[u] EXCEPT !.at = "woken"]
      BY <1>2, ClosedKeeps DEF stop, TypeOK
    <2>3. \A u \in ServerThreads : thread'[u].conn = w[u].conn /\ thread'[u].at = w[u].at
      BY <2>1, <2>2 DEF ThreadStates
    <2>4. \A u \in ServerThreads : /\ w[u].conn = thread[u].conn
                                   /\ thread[u].at \in Accepting => w[u].at \in Accepting
      BY <1>0, <2>2 DEF ThreadStates, Accepting
    <2>5. UNCHANGED handler /\ CloseSocket(thread[mServerThread].socket)
      BY <1>2 DEF stop
    <2>6. Held'
      BY <1>0, <2>3, <2>4, <2>5, HeldKept DEF Held
    <2> QED
      BY <1>0, <2>5, <2>6, ServerGoes DEF AcceptInv
  <1>3. CASE \E t \in ServerThreads : ServerThreadStep(t)
    <2>1. PICK t \in ServerThreads : ServerThreadStep(t)
      BY <1>3
    <2>2. Held'
      BY <1>0, <2>1, ServerThreadHeld
    <2> SUFFICES mServer' = Null => Blocks' = {}
      BY <2>2 DEF AcceptInv
    <2>3. CASE AllocatesConnection(t)
      BY <1>0, <2>3, BlocksGo DEF AllocatesConnection, Owns
    <2>4. CASE CreatesSocket(t)
      BY <2>4, LlcpAssumption DEF CreatesSocket, NewJniHandles
    <2>5. CASE ClosesSocket(t)
      BY <1>0, <2>5, ServerGoes DEF ClosesSocket
    <2>6. CASE \/ ChecksRunning(t) \/ CreatesNoSocket(t) \/ TakesSocket(t) \/ WaitsForRequest(t)
               \/ AcceptsNothing(t) \/ AcceptsConnection(t) \/ FailsToAccept(t)
      BY <1>0, <2>6, BlocksGo DEF ChecksRunning, CreatesNoSocket, TakesSocket, WaitsForRequest,
         AcceptsNothing, AcceptsConnection, FailsToAccept, WithoutBlock, server
    <2> QED
      BY <2>1, <2>3, <2>4, <2>5, <2>6 DEF ServerThreadStep
  <1>4. CASE \E h \in Handles : ConnectionThreadStep(h)
    <2>1. PICK h \in Handles : ConnectionThreadStep(h)
      BY <1>4
    <2>2. UNCHANGED <<thread, mServer>>
      BY <2>1 DEF ConnectionThreadStep, HandlerChecksRunning, Receives, ReceivesNothing,
         HandlesRequest, FindsNoData, WaitsForData, Disconnects, RemovesConnection, server
    <2>3. \A g \in Handles : handler[g] = "none" => handler'[g] = "none"
      BY <2>1 DEF ConnectionThreadStep, HandlerChecksRunning, Receives, ReceivesNothing,
         HandlesRequest, FindsNoData, WaitsForData, Disconnects, RemovesConnection, Moves, TypeOK
    <2>4. \A u \in ServerThreads : thread[u].conn # Null => thread[u].conn \in Handles
      BY <1>0 DEF ThreadStates
    <2>5. Held'
      BY <1>0, <2>2, <2>3, <2>4, HeldKept DEF Held
    <2>6. mServer' = Null => Blocks' = {}
      BY <1>0, <2>1, <2>2, BlocksGo DEF ConnectionThreadStep, HandlerChecksRunning, Receives,
         ReceivesNothing, HandlesRequest, FindsNoData, WaitsForData, Disconnects,
         RemovesConnection, WithoutBlock, server
    <2> QED
      BY <2>5, <2>6 DEF AcceptInv
  <1>5. CASE \E n \in NfaConns : ConnRequested(n)
    <2>1. thread' = thread \/ thread' \in Notified(mServer)
      BY <1>5 DEF ConnRequested
    <2>2. \A u \in ServerThreads :
            \/ thread'[u] = thread[u]
            \/ thread[u].at = "asleep" /\ thread'[u] = [thread[u] EXCEPT !.at = "woken"]
      BY <2>1, NotifiedKeeps
    <2>3. \A u \in ServerThreads : /\ thread'[u].conn = thread[u].conn
                                   /\ thread[u].at \in Accepting => thread'[u].at \in Accepting
      BY <1>0, <2>2 DEF ThreadStates, Accepting
    <2>4. UNCHANGED handler /\ UNCHANGED server
      BY <1>5 DEF ConnRequested
    <2>5. Held'
      BY <1>0, <2>3, <2>4, HeldKept DEF Held
    <2> QED
      BY <1>0, <2>4, <2>5 DEF AcceptInv, server, Blocks
  <1>6. CASE \E n \in NfaConns : DataReceived(n) \/ Disconnected(n)
    <2>1. UNCHANGED thread /\ UNCHANGED server
      BY <1>6 DEF DataReceived, Disconnected
    <2>2. \A g \in Handles : handler[g] = "none" => handler'[g] = "none"
      BY <1>6 DEF DataReceived, Disconnected, Roused
    <2>3. \A u \in ServerThreads : thread[u].conn # Null => thread[u].conn \in Handles
      BY <1>0 DEF ThreadStates
    <2>4. Held'
      BY <1>0, <2>1, <2>2, <2>3, HeldKept DEF Held
    <2> QED
      BY <1>0, <2>1, <2>4 DEF AcceptInv, server, Blocks
  <1>7. CASE UNCHANGED vars
    BY <1>0, <1>7 DEF vars, server, AcceptInv, Blocks, Held
  <1> QED
    BY <1>1, <1>2, <1>3, <1>4, <1>5, <1>6, <1>7 DEF Next, StackEvent
----------------------------------------------------------------------------
\* The inductive invariant holds in every reachable state.
THEOREM Invariance == Spec => []IndInv
  <1>1. Init => IndInv
    BY InitIndInv
  <1>2. IndInv /\ [Next]_vars => IndInv'
    <2> SUFFICES ASSUME IndInv, [Next]_vars PROVE IndInv'
      OBVIOUS
    <2>1. TypeOK /\ RegInv /\ ConnInv /\ AcceptInv /\ \A t \in ServerThreads : ThreadInv(t)
      BY IndInvParts
    <2>2. TypeOK' /\ RegInv' /\ ConnInv' /\ \A t \in ServerThreads : ThreadInv(t)'
      BY <2>1, NextTypeOK, NextRegInv, NextConnInv, NextThreadInv
    <2>3. AcceptInv'
      BY <2>1, NextAcceptInv
    <2> QED
      BY <2>2, <2>3 DEF IndInv, RegInv, ConnInv, AcceptInv, Held, Accepting, ThreadInv
  <1> QED
    BY <1>1, <1>2, PTL DEF Spec

\* Every variable keeps its type.
THEOREM TypeCorrect == Spec => []TypeOK
  <1>1. IndInv => TypeOK
    BY DEF IndInv
  <1> QED
    BY <1>1, Invariance, PTL

\* A server that is registered with the stack always has a thread whose socket it is, so
\* that nfaServerCallback never serves a service nobody can close.
THEOREM RegistrationOwned == Spec => []RegistrationHasOwner
  <1>1. IndInv => RegistrationHasOwner
    BY DEF IndInv
  <1> QED
    BY <1>1, Invariance, PTL

\* findConnection never has two blocks to choose from for a connection of the stack, and
\* removeServerConnection never two slots.
THEOREM ConnectionsSeparate == Spec => []OneBlockPerConnection
  <1>1. IndInv => OneBlockPerConnection
    BY DEF IndInv
  <1> QED
    BY <1>1, Invariance, PTL

\* stop() lets go: a stopped thread that is still in accept() has no socket, so the server
\* that is registered is another one or has another owner.
THEOREM StopLetsGo == Spec => []StoppedThreadsLetGo
  <1>1. IndInv => StoppedThreadsLetGo
    <2> SUFFICES ASSUME IndInv, NEW t \in ServerThreads, ~thread[t].running,
                        thread[t].at \in {"drowsy", "asleep", "woken"}, mServer = thread[t].srv
                 PROVE  \E u \in ServerThreads \ {t} : thread[u].socket = mJniHandle
      BY DEF StoppedThreadsLetGo
    <2>1. thread[t].socket = Null /\ mServer # Null
      BY DEF IndInv
    <2>2. PICK u \in ServerThreads : thread[u].socket = mJniHandle
      BY <2>1 DEF IndInv, RegistrationHasOwner
    <2>3. mJniHandle # Null
      BY <2>1 DEF IndInv
    <2> QED
      BY <2>1, <2>2, <2>3
  <1> QED
    BY <1>1, Invariance, PTL
\* The threads that were started, and what BlocksHaveOwners says when there is one.
Started == {t \in ServerThreads : thread[t].at # "new"}
OneStarted == \A t, u \in Started : t = u
Owned ==
    /\ IsFiniteSet(Started)
    /\ OneStarted => \A h \in Blocks : handler[h] = "none" => \E t \in ServerThreads : thread[t].conn = h

LEMMA OwnedSuffices == IndInv /\ Owned => BlocksHaveOwners
  <1> SUFFICES ASSUME IndInv, Owned, Cardinality(Started) = 1, NEW h \in Blocks
               PROVE  handler[h] # "none" <=> \A t \in ServerThreads : thread[t].conn # h
    BY DEF BlocksHaveOwners, Started
  <1>1. OneStarted
    BY FS_Singleton DEF Owned, OneStarted
  <1>2. h # Null
    BY DEF Blocks
  <1> QED
    BY <1>1, <1>2 DEF Owned, IndInv

\* Steps that start no thread, and keep each block its owner.
LEMMA OwnedKept ==
    ASSUME Owned, Started' = Started,
           \A h \in Blocks' : handler'[h] = "none" =>
               \/ \E t \in ServerThreads : thread'[t].conn = h
               \/ /\ h \in Blocks /\ handler[h] = "none"
                  /\ \A t \in ServerThreads : thread[t].conn = h => thread'[t].conn = h
    PROVE  Owned'
  <1> SUFFICES ASSUME OneStarted', NEW h \in Blocks', handler'[h] = "none"
               PROVE  \E t \in ServerThreads : thread'[t].conn = h
    BY DEF Owned
  <1> QED
    BY DEF Owned, OneStarted

\* The only thread there is owns the server, so that its finally block takes the blocks too.
LEMMA OwnedClosed ==
    ASSUME IndInv, IndInv', Owned, NEW t \in ServerThreads, ClosesSocket(t)
    PROVE  Owned'
  <1>0. thread \in [ServerThreads -> ThreadStates] /\ \A u \in ServerThreads : thread[u] \in ThreadStates
    BY DEF IndInv, TypeOK
  <1>1. PICK w \in ClosedThreads(thread[t].socket) :
          thread' = [w EXCEPT ![t] = [@ EXCEPT !.at = "recheck", !.socket = Null,
                                        !.serverSocket = Null, !.srv = Null, !.conn = Null]]
    BY DEF ClosesSocket
  <1>2. /\ w \in [ServerThreads -> ThreadStates]
        /\ \A u \in ServerThreads :
             \/ w[u] = thread[u]
             \/ thread[u].at = "asleep" /\ w[u] = [thread[u] EXCEPT !.at = "woken"]
    BY ClosedKeeps DEF IndInv
  <1>3. \A u \in ServerThreads : w[u].at = "new" <=> thread[u].at = "new"
    BY <1>0, <1>2 DEF ThreadStates
  <1>4. thread[t].at = "close" /\ thread'[t].at = "recheck"
    BY <1>1, <1>2 DEF ClosesSocket, ThreadStates
  <1>5. \A u \in ServerThreads \ {t} : thread'[u] = w[u]
    BY <1>1, <1>2
  <1>6. Started' = Started
    BY <1>3, <1>4, <1>5 DEF Started
  <1>7. OneStarted => Blocks' = {}
    <2> SUFFICES ASSUME OneStarted PROVE Blocks' = {}
      OBVIOUS
    <2>1. \A u \in ServerThreads : thread[u].at # "new" => u = t
      BY <1>4 DEF OneStarted, Started
    <2>2. mServer # Null => thread[t].socket = mJniHandle
      BY <2>1 DEF IndInv, RegistrationHasOwner
    <2>3. CASE Owns(thread[t].socket)
      <3>1. mServer' = Null
        BY <2>3 DEF ClosesSocket, CloseSocket
      <3> QED
        BY <3>1 DEF IndInv
    <2>4. CASE ~Owns(thread[t].socket)
      <3>1. mServer = Null
        BY <2>2, <2>4 DEF Owns
      <3>2. mServer' = Null
        BY <2>4, <3>1 DEF ClosesSocket, CloseSocket, server
      <3> QED
        BY <3>2 DEF IndInv
    <2> QED
      BY <2>3, <2>4
  <1> QED
    BY <1>6, <1>7 DEF Owned, OneStarted

LEMMA NextOwned == IndInv /\ IndInv' /\ Owned /\ [Next]_vars => Owned'
  <1> SUFFICES ASSUME IndInv, IndInv', Owned, [Next]_vars PROVE Owned'
    OBVIOUS
  <1>0. /\ thread \in [ServerThreads -> ThreadStates]
        /\ \A u \in ServerThreads : thread[u] \in ThreadStates
        /\ TypeOK
    BY DEF IndInv, TypeOK
  <1>1. CASE start
    <2>1. PICK t \in ServerThreads : thread[t].at = "new" /\ thread' = [thread EXCEPT ![t].at = "begin"]
      BY <1>1 DEF start
    <2>2. \A u \in ServerThreads : thread'[u].at = IF u = t THEN "begin" ELSE thread[u].at
      BY <1>0, <2>1 DEF ThreadStates
    <2>3. Started' = Started \cup {t} /\ t \notin Started
      BY <2>1, <2>2 DEF Started
    <2>4. IsFiniteSet(Started')
      BY <2>3, FS_AddElement DEF Owned
    <2>5. ASSUME OneStarted' PROVE Blocks' = {}
      <3>1. Started = {}
        BY <2>3, <2>5 DEF OneStarted
      <3>2. mServer = Null
        BY <3>1 DEF IndInv, RegistrationHasOwner, Started
      <3> QED
        BY <1>1, <3>2 DEF start, server, IndInv
    <2> QED
      BY <2>4, <2>5 DEF Owned
  <1>2. CASE stop
    <2>1. PICK w \in ClosedThreads(thread[mServerThread].socket) :
            thread' = [w EXCEPT ![mServerThread].running = FALSE, ![mServerThread].socket = Null]
      BY <1>2 DEF stop
    <2>2. /\ w \in [ServerThreads -> ThreadStates] /\ mServerThread \in ServerThreads
          /\ \A u \in ServerThreads :
               \/ w[u] = thread[u]
               \/ thread[u].at = "asleep" /\ w[u] = [thread[u] EXCEPT !.at = "woken"]
      BY <1>0, <1>2, ClosedKeeps DEF stop, TypeOK
    <2>3. \A u \in ServerThreads : thread'[u].conn = w[u].conn /\ thread'[u].at = w[u].at
      BY <2>1, <2>2 DEF ThreadStates
    <2>4. \A u \in ServerThreads : /\ w[u].conn = thread[u].conn
                                   /\ w[u].at = "new" <=> thread[u].at = "new"
      BY <1>0, <2>2 DEF ThreadStates
    <2>5. Started' = Started
      BY <2>3, <2>4 DEF Started
    <2>6. UNCHANGED handler /\ Blocks' \subseteq Blocks
      BY <1>2 DEF stop, CloseSocket, NoConns, Blocks, server
    <2> QED
      BY <2>3, <2>4, <2>5, <2>6, OwnedKept
  <1>3. CASE \E t \in ServerThreads : ServerThreadStep(t)
    <2>1. PICK t \in ServerThreads : ServerThreadStep(t)
      BY <1>3
    <2>2. CASE ClosesSocket(t)
      BY <2>2, OwnedClosed
    <2>3. CASE AllocatesConnection(t)
      <3>1. UNCHANGED handler
        BY <2>3 DEF AllocatesConnection
      <3>2. CASE UNCHANGED mServerConn /\ thread' = [thread EXCEPT ![t].at = "close"]
        <4>1. /\ thread[t].at = "accept"
              /\ \A u \in ServerThreads : /\ thread'[u].conn = thread[u].conn
                                          /\ thread'[u].at = IF u = t THEN "close" ELSE thread[u].at
          BY <1>0, <2>3, <3>2 DEF AllocatesConnection, ThreadStates
        <4>2. Started' = Started
          BY <4>1 DEF Started
        <4> QED
          BY <3>1, <3>2, <4>1, <4>2, OwnedKept DEF Blocks
      <3>3. CASE \E h \in NewJniHandles :
                   /\ mServerConn' = [mServerConn EXCEPT ![First({s \in Slots : mServerConn[s] = Null})] = h]
                   /\ thread' = [thread EXCEPT ![t].at = "drowsy", ![t].srv = mServer, ![t].conn = h]
        <4>1. PICK h \in NewJniHandles :
                   /\ mServerConn' = [mServerConn EXCEPT ![First({s \in Slots : mServerConn[s] = Null})] = h]
                   /\ thread' = [thread EXCEPT ![t].at = "drowsy", ![t].srv = mServer, ![t].conn = h]
          BY <3>3
        <4>2. thread[t].at = "accept" /\ thread[t].conn = Null
          BY <2>3 DEF AllocatesConnection, IndInv
        <4>3. /\ thread'[t].conn = h
              /\ \A u \in ServerThreads : thread'[u].at = IF u = t THEN "drowsy" ELSE thread[u].at
              /\ \A u \in ServerThreads \ {t} : thread'[u] = thread[u]
          BY <1>0, <4>1 DEF ThreadStates
        <4>4. Started' = Started
          BY <4>2, <4>3 DEF Started
        <4>5. \A s \in Slots : mServerConn'[s] \in {mServerConn[s], h}
          BY <1>0, <4>1 DEF TypeOK
        <4>6. Blocks' \subseteq Blocks \cup {h} /\ Null \notin Blocks
          BY <4>5 DEF Blocks
        <4> QED
          BY <3>1, <4>2, <4>3, <4>4, <4>6, OwnedKept
      <3> QED
        BY <2>3, <3>2, <3>3 DEF AllocatesConnection
    <2>4. CASE AcceptsNothing(t)
      <3>1. /\ thread[t].at = "woken" /\ UNCHANGED handler
            /\ mServerConn' = WithoutBlock(thread[t].conn)
            /\ thread' = [thread EXCEPT ![t].at = "close", ![t].conn = Null]
        BY <2>4 DEF AcceptsNothing
      <3>2. /\ thread[t].at # "new" /\ thread'[t].at # "new"
            /\ \A u \in ServerThreads \ {t} : thread'[u] = thread[u]
        BY <1>0, <3>1 DEF ThreadStates
      <3>3. Started' = Started
        BY <3>2 DEF Started
      <3>4. Blocks' \subseteq Blocks \ {thread[t].conn}
        BY <3>1 DEF Blocks, WithoutBlock
      <3> QED
        BY <3>1, <3>2, <3>3, <3>4, OwnedKept
    <2>5. CASE AcceptsConnection(t)
      <3> DEFINE h == thread[t].conn
      <3>1. /\ thread[t].at = "woken" /\ UNCHANGED mServerConn
            /\ handler' = [handler EXCEPT ![h] = "begin"]
            /\ thread' = [thread EXCEPT ![t].at = "check", ![t].serverSocket = Null,
                                        ![t].srv = Null, ![t].conn = Null]
        BY <2>5 DEF AcceptsConnection, server
      <3>2. /\ thread[t].at # "new" /\ thread'[t].at # "new"
            /\ \A u \in ServerThreads \ {t} : thread'[u] = thread[u]
        BY <1>0, <3>1 DEF ThreadStates
      <3>3. Started' = Started
        BY <3>2 DEF Started
      <3>4. Blocks' = Blocks /\ Blocks \subseteq Handles
        BY <1>0, <3>1 DEF Blocks, TypeOK
      <3>5. \A g \in Handles : handler'[g] = IF g = h THEN "begin" ELSE handler[g]
        BY <1>0, <3>1 DEF TypeOK
      <3> QED
        BY <3>2, <3>3, <3>4, <3>5, OwnedKept
    <2>6. CASE \/ ChecksRunning(t) \/ CreatesSocket(t) \/ CreatesNoSocket(t) \/ TakesSocket(t)
               \/ WaitsForRequest(t) \/ FailsToAccept(t)
      <3>1. UNCHANGED <<handler, mServerConn>>
        BY <2>6 DEF ChecksRunning, CreatesSocket, CreatesNoSocket, TakesSocket, WaitsForRequest,
           FailsToAccept, server
      <3>2. \A u \in ServerThreads \ {t} : thread'[u] = thread[u]
        BY <1>0, <2>6 DEF ChecksRunning, CreatesSocket, CreatesNoSocket, TakesSocket,
               WaitsForRequest, FailsToAccept, Goes
      <3>3. thread'[t].conn = thread[t].conn /\ thread[t].at # "new" /\ thread'[t].at # "new"
        BY <1>0, <2>6 DEF ChecksRunning, CreatesSocket, CreatesNoSocket, TakesSocket,
               WaitsForRequest, FailsToAccept, Goes, ThreadStates
      <3>4. Started' = Started
        BY <3>2, <3>3 DEF Started
      <3>5. Blocks' = Blocks
        BY <3>1 DEF Blocks
      <3>6. \A u \in ServerThreads : thread'[u].conn = thread[u].conn
        BY <3>2, <3>3
      <3> QED
        BY <3>1, <3>4, <3>5, <3>6, OwnedKept
    <2> QED
      BY <2>1, <2>2, <2>3, <2>4, <2>5, <2>6 DEF ServerThreadStep
  <1>4. CASE \E h \in Handles : ConnectionThreadStep(h)
    <2>1. PICK h \in Handles : ConnectionThreadStep(h)
      BY <1>4
    <2>2. UNCHANGED thread
      BY <2>1 DEF ConnectionThreadStep, HandlerChecksRunning, Receives, ReceivesNothing,
         HandlesRequest, FindsNoData, WaitsForData, Disconnects, RemovesConnection
    <2>3. Started' = Started
      BY <2>2 DEF Started
    <2>4. CASE RemovesConnection(h)
      <3>1. mServerConn' = WithoutBlock(h) /\ handler' = [handler EXCEPT ![h] = "none"]
        BY <2>4 DEF RemovesConnection, Moves
      <3>2. Blocks' \subseteq Blocks \ {h} /\ Blocks \subseteq Handles
        BY <1>0, <3>1 DEF Blocks, WithoutBlock, TypeOK
      <3>3. \A g \in Handles \ {h} : handler'[g] = handler[g]
        BY <1>0, <3>1 DEF TypeOK
      <3> QED
        BY <2>2, <2>3, <3>2, <3>3, OwnedKept
    <2>5. CASE \/ HandlerChecksRunning(h) \/ Receives(h) \/ ReceivesNothing(h) \/ HandlesRequest(h)
               \/ FindsNoData(h) \/ WaitsForData(h) \/ Disconnects(h)
      <3>1. UNCHANGED mServerConn
        BY <2>5 DEF HandlerChecksRunning, Receives, ReceivesNothing, HandlesRequest, FindsNoData,
           WaitsForData, Disconnects, server
      <3>2. \A g \in Handles : handler'[g] = "none" => handler[g] = "none"
        BY <1>0, <2>5 DEF HandlerChecksRunning, Receives, ReceivesNothing, HandlesRequest,
           FindsNoData, WaitsForData, Disconnects, Moves, TypeOK
      <3>3. Blocks' = Blocks /\ Blocks \subseteq Handles
        BY <1>0, <3>1 DEF Blocks, TypeOK
      <3> QED
        BY <2>2, <2>3, <3>2, <3>3, OwnedKept
    <2> QED
      BY <2>1, <2>4, <2>5 DEF ConnectionThreadStep
  <1>5. CASE \E n \in NfaConns : ConnRequested(n)
    <2>1. thread' = thread \/ thread' \in Notified(mServer)
      BY <1>5 DEF ConnRequested
    <2>2. \A u \in ServerThreads :
            \/ thread'[u] = thread[u]
            \/ thread[u].at = "asleep" /\ thread'[u] = [thread[u] EXCEPT !.at = "woken"]
      BY <1>0, <2>1, NotifiedKeeps
    <2>3. \A u \in ServerThreads : /\ thread'[u].conn = thread[u].conn
                                   /\ thread'[u].at = "new" <=> thread[u].at = "new"
      BY <1>0, <2>2 DEF ThreadStates
    <2>4. UNCHANGED handler /\ UNCHANGED server
      BY <1>5 DEF ConnRequested
    <2>5. Started' = Started /\ Blocks' = Blocks
      BY <2>3, <2>4 DEF Started, server, Blocks
    <2> QED
      BY <2>3, <2>4, <2>5, OwnedKept
  <1>6. CASE \E n \in NfaConns : DataReceived(n) \/ Disconnected(n)
    <2>1. UNCHANGED thread /\ UNCHANGED server
      BY <1>6 DEF DataReceived, Disconnected
    <2>2. \A g \in Handles : handler'[g] = "none" => handler[g] = "none"
      BY <1>6 DEF DataReceived, Disconnected, Roused
    <2>3. Started' = Started /\ Blocks' = Blocks /\ Blocks \subseteq Handles
      BY <1>0, <2>1 DEF Started, server, Blocks, TypeOK
    <2> QED
      BY <2>1, <2>2, <2>3, OwnedKept
  <1>7. CASE UNCHANGED vars
    <2>1. UNCHANGED <<thread, handler, mServerConn>>
      BY <1>7 DEF vars, server
    <2>2. Started' = Started /\ Blocks' = Blocks
      BY <2>1 DEF Started, Blocks
    <2> QED
      BY <2>1, <2>2, OwnedKept
  <1> QED
    BY <1>1, <1>2, <1>3, <1>4, <1>5, <1>6, <1>7 DEF Next, StackEvent

\* As long as SnepServer was started once, each of its blocks belongs to one accept() or to
\* a ConnectionThread, so that connections which fail do not use up the blocks there are.
THEOREM BlocksOwned == Spec => []BlocksHaveOwners
  <1>1. Init => Owned
    <2> SUFFICES ASSUME Init PROVE Owned
      OBVIOUS
    <2>1. Blocks = {} /\ Started = {}
      BY DEF Init, Blocks, NoConns, Started, NewThread
    <2> QED
      BY <2>1, FS_EmptySet DEF Owned
  <1>2. IndInv /\ IndInv' /\ Owned /\ [Next]_vars => Owned'
    BY NextOwned
  <1>3. IndInv /\ Owned => BlocksHaveOwners
    BY OwnedSuffices
  <1> QED
    BY <1>1, <1>2, <1>3, Invariance, PTL DEF Spec
============================================================================
