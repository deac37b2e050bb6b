----------------------------- MODULE LlcpServer -----------------------------
(***************************************************************************)
(* A connection-oriented LLCP server, from SnepServer's threads down to    *)
(* PeerToPeer's tables: start() and stop() on the caller's thread, one     *)
(* ServerThread per start, one ConnectionThread per accepted connection,   *)
(* and the callbacks of the NFA stack on its own thread.  They meet in     *)
(* SyncEvents, which remember nothing: a notification nobody waits for is  *)
(* lost.  Critical sections of SnepServer.this and of PeerToPeer::mMutex   *)
(* are single actions, and so is each callback.                            *)
(***************************************************************************)
EXTENDS Integers, FiniteSets

CONSTANTS ServerThreads,    \* bound: one for each start()
          Handles,          \* bound: JNI handles; they also name P2pServers and NfaConns
          NfaConns,         \* bound: the stack's connections with peers
          MaxConns,         \* MAX_NFA_CONNS_PER_SERVER
          Null

ASSUME LlcpAssumption ==
    /\ Null \notin Handles \cup NfaConns \cup ServerThreads
    /\ MaxConns \in Nat \ {0}

VARIABLES
    mServerThread, mServerRunning,  \* SnepServer
    thread,         \* the ServerThreads: where they are, their fields and locals
    mServer,        \* PeerToPeer: the P2pServer in mServers for this service, or Null
    mJniHandle,     \* its mJniHandle
    mServerConn,    \* its mServerConn
    mNfaConnHandle, \* of each NfaConn, by its JNI handle
    handler,        \* where the ConnectionThread with that JNI handle is
    stack,          \* the stack's connections
    unread          \* those with data nobody has read

java == <<mServerThread, mServerRunning>>
server == <<mServer, mJniHandle, mServerConn>>
vars == <<java, thread, server, mNfaConnHandle, handler, stack, unread>>
----------------------------------------------------------------------------
Slots == 1 .. MaxConns
Places == {"new", "begin", "create", "check", "accept", "drowsy", "asleep", "woken", "close",
           "recheck", "ended"}
HandlerPlaces == {"none", "begin", "receive", "reading", "drowsy", "asleep", "close",
                  "disconnecting", "remove"}
NewThread == [at |-> "new", running |-> TRUE, socket |-> Null, serverSocket |-> Null,
              srv |-> Null, conn |-> Null]
NoConns == [s \in Slots |-> Null]
First(slots) == CHOOSE s \in slots : \A r \in slots : s <= r

Init ==
    /\ mServerThread = Null /\ mServerRunning = FALSE
    /\ thread = [t \in ServerThreads |-> NewThread]
    /\ mServer = Null /\ mJniHandle = Null /\ mServerConn = NoConns
    /\ mNfaConnHandle = [h \in Handles |-> Null]
    /\ handler = [h \in Handles |-> "none"]
    /\ stack = [n \in NfaConns |-> "idle"]
    /\ unread = {}
----------------------------------------------------------------------------
(* PeerToPeer's helpers. *)

Blocks == {mServerConn[s] : s \in Slots} \ {Null}

\* mNextJniHandle only grows; the model takes a handle that nothing refers to any more.
InUse == {mServer, mJniHandle} \cup Blocks \cup {h \in Handles : handler[h] # "none"}
            \cup UNION {{thread[t].socket, thread[t].serverSocket, thread[t].srv, thread[t].conn} :
                           t \in ServerThreads}
NewJniHandles == Handles \ InUse

\* findConnection, for either handle: the blocks of a removed server are not found.
FindConnection(n) == {h \in Blocks : mNfaConnHandle[h] = n}

\* SyncEvent::notifyOne of mConnRequestEvent: the ServerThreads after it.
AsleepOn(srv) == {t \in ServerThreads : thread[t].at = "asleep" /\ thread[t].srv = srv}
Notified(srv) == IF AsleepOn(srv) = {} THEN {thread}
                 ELSE {[thread EXCEPT ![t].at = "woken"] : t \in AsleepOn(srv)}

\* SyncEvent::notifyOne of the mReadEvent and mDisconnectingEvent of some NfaConns.
Roused(hs, disconnected) ==
    [h \in Handles |->
        CASE h \in hs /\ handler[h] = "asleep" -> "reading"
          [] h \in hs /\ handler[h] = "disconnecting" /\ disconnected -> "remove"
          [] OTHER -> handler[h]]

\* NativeLlcpServiceSocket.close and deregisterServer: accept() is unblocked and the server
\* forgotten, unless another socket has taken it over.
Owns(socket) == mServer # Null /\ mJniHandle = socket
ClosedThreads(socket) == IF Owns(socket) THEN Notified(mServer) ELSE {thread}
CloseSocket(socket) ==
    IF Owns(socket) THEN mServer' = Null /\ mJniHandle' = Null /\ mServerConn' = NoConns
    ELSE UNCHANGED server

\* removeServerConnection
WithoutBlock(h) == [s \in Slots |-> IF mServerConn[s] = h THEN Null ELSE mServerConn[s]]
----------------------------------------------------------------------------
(* SnepServer.start and stop. *)

start ==
    /\ mServerThread = Null
    /\ \E t \in ServerThreads :
         /\ thread[t].at = "new"
         /\ mServerThread' = t
         /\ thread' = [thread EXCEPT ![t].at = "begin"]
    /\ mServerRunning' = TRUE
    /\ UNCHANGED <<server, mNfaConnHandle, handler, stack, unread>>

\* Mutant of stop: shutdown closes the socket and keeps it.
stop_KeepsSocket ==
    /\ mServerThread # Null
    /\ \E w \in ClosedThreads(thread[mServerThread].socket) :
         thread' = [w EXCEPT ![mServerThread].running = FALSE]
    /\ CloseSocket(thread[mServerThread].socket)
    /\ mServerThread' = Null /\ mServerRunning' = FALSE
    /\ UNCHANGED <<mNfaConnHandle, handler, stack, unread>>

\* With ServerThread.shutdown.
stop ==
    /\ mServerThread # Null
    /\ \E w \in ClosedThreads(thread[mServerThread].socket) :
         thread' = [w EXCEPT ![mServerThread].running = FALSE, ![mServerThread].socket = Null]
    /\ CloseSocket(thread[mServerThread].socket)
    /\ mServerThread' = Null /\ mServerRunning' = FALSE
    /\ UNCHANGED <<mNfaConnHandle, handler, stack, unread>>
----------------------------------------------------------------------------
(* ServerThread.run. *)

Goes(t, from, to) == thread[t].at = from /\ thread' = [thread EXCEPT ![t].at = to]

\* At the start, and after the finally block: go on while mThreadRunning.
ChecksRunning(t) ==
    /\ \E from \in {"begin", "recheck"} :
         Goes(t, from, IF thread[t].running THEN "create" ELSE "ended")
    /\ UNCHANGED <<java, server, mNfaConnHandle, handler, stack, unread>>

\* createLlcpServerSocket and registerServer, under the monitor; a service that is
\* registered already gets the new handle.
CreatesSocket(t) ==
    /\ thread[t].at = "create"
    /\ \E h \in NewJniHandles :
         /\ thread' = [thread EXCEPT ![t].at = "check", ![t].socket = h]
         /\ mJniHandle' = h
         /\ mServer' = IF mServer = Null THEN h ELSE mServer
    /\ UNCHANGED mServerConn
    /\ UNCHANGED <<java, mNfaConnHandle, handler, stack, unread>>

\* LlcpException: the stack does not register the server.
CreatesNoSocket(t) ==
    /\ mServer = Null
    /\ Goes(t, "create", "close")
    /\ UNCHANGED <<java, server, mNfaConnHandle, handler, stack, unread>>

\* Mutant of TakesSocket: whether the thread is to run is not asked.
TakesSocket_StoppedToo(t) ==
    /\ thread[t].at = "check" /\ thread[t].socket # Null
    /\ thread' = [thread EXCEPT ![t].at = "accept", ![t].serverSocket = thread[t].socket]
    /\ UNCHANGED <<java, server, mNfaConnHandle, handler, stack, unread>>

\* The accept loop's test, then its copy of mServerSocket.
TakesSocket(t) ==
    /\ thread[t].at = "check"
    /\ thread' = IF thread[t].running /\ thread[t].socket # Null
                 THEN [thread EXCEPT ![t].at = "accept", ![t].serverSocket = thread[t].socket]
                 ELSE [thread EXCEPT ![t].at = "close"]
    /\ UNCHANGED <<java, server, mNfaConnHandle, handler, stack, unread>>

\* PeerToPeer::accept finds the server, and P2pServer::accept allocates a connection in
\* its first free block, or in none.
AllocatesConnection(t) ==
    /\ thread[t].at = "accept"
    /\ LET free == {s \in Slots : mServerConn[s] = Null}
       IN  IF Owns(thread[t].serverSocket) /\ free # {}
           THEN \E h \in NewJniHandles :
                  /\ mServerConn' = [mServerConn EXCEPT ![First(free)] = h]
                  /\ mNfaConnHandle' = [mNfaConnHandle EXCEPT ![h] = Null]
                  /\ thread' = [thread EXCEPT ![t].at = "drowsy", ![t].srv = mServer,
                                              ![t].conn = h]
           ELSE /\ thread' = [thread EXCEPT ![t].at = "close"]
                /\ UNCHANGED <<mServerConn, mNfaConnHandle>>
    /\ UNCHANGED <<java, mServer, mJniHandle, handler, stack, unread>>

\* mConnRequestEvent.wait(), whatever has happened since.
WaitsForRequest(t) ==
    /\ Goes(t, "drowsy", "asleep")
    /\ UNCHANGED <<java, server, mNfaConnHandle, handler, stack, unread>>

\* Mutant of AcceptsNothing: the block is not given back.
AcceptsNothing_KeepsBlock(t) ==
    /\ thread[t].at = "woken" /\ mNfaConnHandle[thread[t].conn] = Null
    /\ thread' = [thread EXCEPT ![t].at = "close", ![t].conn = Null]
    /\ UNCHANGED <<java, server, mNfaConnHandle, handler, stack, unread>>

\* Woken without a handle: give the block back and fail.
AcceptsNothing(t) ==
    /\ thread[t].at = "woken" /\ mNfaConnHandle[thread[t].conn] = Null
    /\ mServerConn' = WithoutBlock(thread[t].conn)
    /\ thread' = [thread EXCEPT ![t].at = "close", ![t].conn = Null]
    /\ UNCHANGED <<java, mServer, mJniHandle, mNfaConnHandle, handler, stack, unread>>

\* NFA_P2pAcceptConn, and the ConnectionThread for the connection.
AcceptsConnection(t) ==
    LET h == thread[t].conn
        n == mNfaConnHandle[h]
    IN  /\ thread[t].at = "woken" /\ n # Null
        /\ stack[n] = "requested"
        /\ stack' = [stack EXCEPT ![n] = "open"]
        /\ handler' = [handler EXCEPT ![h] = "begin"]
        /\ thread' = [thread EXCEPT ![t].at = "check", ![t].serverSocket = Null,
                                    ![t].srv = Null, ![t].conn = Null]
        /\ UNCHANGED <<java, server, mNfaConnHandle, unread>>

\* NFA_P2pAcceptConn fails, and the block stays.
FailsToAccept(t) ==
    /\ thread[t].at = "woken" /\ mNfaConnHandle[thread[t].conn] # Null
    /\ thread' = [thread EXCEPT ![t].at = "close"]
    /\ UNCHANGED <<java, server, mNfaConnHandle, handler, stack, unread>>

\* The finally block; accept()'s locals are gone.
ClosesSocket(t) ==
    /\ thread[t].at = "close"
    /\ \E w \in ClosedThreads(thread[t].socket) :
         thread' = [w EXCEPT ![t] = [@ EXCEPT !.at = "recheck", !.socket = Null,
                                      !.serverSocket = Null, !.srv = Null, !.conn = Null]]
    /\ CloseSocket(thread[t].socket)
    /\ UNCHANGED <<java, mNfaConnHandle, handler, stack, unread>>
----------------------------------------------------------------------------
(* ConnectionThread.run, by the JNI handle of its socket. *)

Moves(h, from, to) == handler[h] = from /\ handler' = [handler EXCEPT ![h] = to]

HandlerChecksRunning(h) ==
    /\ Moves(h, "begin", IF mServerRunning THEN "receive" ELSE "close")
    /\ UNCHANGED <<java, thread, server, mNfaConnHandle, stack, unread>>

\* receive() finds its NfaConn, or fails.
Receives(h) ==
    /\ Moves(h, "receive", IF h \in Blocks THEN "reading" ELSE "close")
    /\ UNCHANGED <<java, thread, server, mNfaConnHandle, stack, unread>>

\* receive()'s loop: disconnected.
ReceivesNothing(h) ==
    /\ mNfaConnHandle[h] = Null
    /\ Moves(h, "reading", "close")
    /\ UNCHANGED <<java, thread, server, mNfaConnHandle, stack, unread>>

\* receive()'s loop: a request, answered or not; a bad one, or a failure to answer it,
\* ends the thread.
HandlesRequest(h) ==
    /\ mNfaConnHandle[h] \in unread
    /\ unread' = unread \ {mNfaConnHandle[h]}
    /\ \E ok \in BOOLEAN : Moves(h, "reading", IF ok THEN "begin" ELSE "close")
    /\ UNCHANGED <<java, thread, server, mNfaConnHandle, stack>>

\* receive()'s loop: no data yet.
FindsNoData(h) ==
    /\ mNfaConnHandle[h] \notin unread \cup {Null}
    /\ Moves(h, "reading", "drowsy")
    /\ UNCHANGED <<java, thread, server, mNfaConnHandle, stack, unread>>

\* mReadEvent.wait(), whatever has happened since.
WaitsForData(h) ==
    /\ Moves(h, "drowsy", "asleep")
    /\ UNCHANGED <<java, thread, server, mNfaConnHandle, stack, unread>>

\* mSock.close() and disconnectConnOriented, up to the wait for NFA_P2P_DISC_EVT.
Disconnects(h) ==
    /\ Moves(h, "close", IF h \in Blocks /\ mNfaConnHandle[h] # Null /\ stack[mNfaConnHandle[h]] = "open"
                         THEN "disconnecting" ELSE "remove")
    /\ UNCHANGED <<java, thread, server, mNfaConnHandle, stack, unread>>

\* removeConn, if the server still has it; nothing refers to the NfaConn any more.
RemovesConnection(h) ==
    /\ Moves(h, "remove", "none")
    /\ mServerConn' = WithoutBlock(h)
    /\ mNfaConnHandle' = [mNfaConnHandle EXCEPT ![h] = Null]
    /\ UNCHANGED <<java, thread, mServer, mJniHandle, stack, unread>>
----------------------------------------------------------------------------
(* nfaServerCallback. *)

\* NFA_P2P_CONN_REQ_EVT goes to the first block with no handle.
ConnRequested(n) ==
    /\ stack[n] = "idle" /\ mServer # Null
    /\ stack' = [stack EXCEPT ![n] = "requested"]
    /\ LET waiting == {s \in Slots : mServerConn[s] # Null /\ mNfaConnHandle[mServerConn[s]] = Null}
       IN  IF waiting = {} THEN UNCHANGED <<mNfaConnHandle, thread>>
           ELSE /\ mNfaConnHandle' = [mNfaConnHandle EXCEPT ![mServerConn[First(waiting)]] = n]
                /\ thread' \in Notified(mServer)
    /\ UNCHANGED <<java, server, handler, unread>>

\* NFA_P2P_DATA_EVT
DataReceived(n) ==
    /\ stack[n] = "open" /\ n \notin unread
    /\ unread' = unread \cup {n}
    /\ handler' = Roused(FindConnection(n), FALSE)
    /\ UNCHANGED <<java, thread, server, mNfaConnHandle, stack>>

\* NFA_P2P_DISC_EVT: the peer leaves, the link is lost, or the server asked for it.
Disconnected(n) ==
    /\ stack[n] # "idle"
    /\ stack' = [stack EXCEPT ![n] = "idle"]
    /\ unread' = unread \ {n}
    /\ mNfaConnHandle' = [h \in Handles |-> IF h \in FindConnection(n) THEN Null
                                            ELSE mNfaConnHandle[h]]
    /\ handler' = Roused(FindConnection(n), TRUE)
    /\ UNCHANGED <<java, thread, server>>
----------------------------------------------------------------------------
ServerThreadStep(t) ==
    \/ ChecksRunning(t) \/ CreatesSocket(t) \/ CreatesNoSocket(t) \/ TakesSocket(t)
    \/ AllocatesConnection(t) \/ WaitsForRequest(t)
    \/ AcceptsNothing(t) \/ AcceptsConnection(t) \/ FailsToAccept(t) \/ ClosesSocket(t)

ConnectionThreadStep(h) ==
    \/ HandlerChecksRunning(h) \/ Receives(h) \/ ReceivesNothing(h) \/ HandlesRequest(h)
    \/ FindsNoData(h) \/ WaitsForData(h) \/ Disconnects(h) \/ RemovesConnection(h)

StackEvent(n) == ConnRequested(n) \/ DataReceived(n) \/ Disconnected(n)

Next ==
    \/ start \/ stop
    \/ \E t \in ServerThreads : ServerThreadStep(t)
    \/ \E h \in Handles : ConnectionThreadStep(h)
    \/ \E n \in NfaConns : StackEvent(n)

Spec == Init /\ [][Next]_vars
----------------------------------------------------------------------------
ThreadStates == [at : Places, running : BOOLEAN, socket : Handles \cup {Null},
                 serverSocket : Handles \cup {Null}, srv : Handles \cup {Null},
                 conn : Handles \cup {Null}]

TypeOK ==
    /\ mServerThread \in ServerThreads \cup {Null} /\ mServerRunning \in BOOLEAN
    /\ thread \in [ServerThreads -> ThreadStates]
    /\ mServer \in Handles \cup {Null} /\ mJniHandle \in Handles \cup {Null}
    /\ mServerConn \in [Slots -> Handles \cup {Null}]
    /\ mNfaConnHandle \in [Handles -> NfaConns \cup {Null}]
    /\ handler \in [Handles -> HandlerPlaces]
    /\ stack \in [NfaConns -> {"idle", "requested", "open"}]
    /\ unread \subseteq NfaConns

\* A registered server has a thread at work whose socket it is, to close it some day.
RegistrationHasOwner ==
    mServer # Null =>
        \E t \in ServerThreads : thread[t].socket = mJniHandle /\ thread[t].at \notin {"new", "ended"}

\* Each block of the server belongs to one accept() or to a ConnectionThread: failed ones
\* do not use up the five there are.  (A stopped thread that registers late is another
\* matter: the one it supersedes fails without closing the server.)
BlocksHaveOwners ==
    Cardinality({t \in ServerThreads : thread[t].at # "new"}) = 1 =>
        \A h \in Blocks : handler[h] # "none" <=> \A t \in ServerThreads : thread[t].conn # h

\* A connection of the stack is in one block, and a block is in one slot.
OneBlockPerConnection ==
    /\ \A g, h \in Blocks : mNfaConnHandle[g] = mNfaConnHandle[h] => g = h \/ mNfaConnHandle[g] = Null
    /\ \A r, s \in Slots : mServerConn[r] = mServerConn[s] => r = s \/ mServerConn[r] = Null

\* After stop(), a thread that is still in accept() does not stand in for the server that
\* is registered: that one is gone, or another thread has taken it over.
StoppedThreadsLetGo ==
    \A t \in ServerThreads :
        ~thread[t].running /\ thread[t].at \in {"drowsy", "asleep", "woken"}
            => mServer # thread[t].srv \/ \E u \in ServerThreads \ {t} : thread[u].socket = mJniHandle

\* The invariants above, but for BlocksHaveOwners, and what they rest on, preserved by every
\* step: a server that is registered has a handle, a ServerThread keeps its socket from
\* registering to its finally block and a stopped one does not, accept() waits for a server,
\* and the stack knows the connections that blocks name.  Blocks go with the server; each
\* accept() has a block of its own, which no ConnectionThread serves.
IndInv ==
    /\ TypeOK
    /\ mServer # Null => mJniHandle # Null
    /\ \A t \in ServerThreads :
         /\ thread[t].at \in {"new", "begin", "create", "recheck", "ended"} => thread[t].socket = Null
         /\ thread[t].at \in {"accept", "drowsy", "asleep", "woken"} /\ ~thread[t].running
                => thread[t].socket = Null
         /\ thread[t].at \in {"drowsy", "asleep", "woken"} => thread[t].srv # Null
    /\ RegistrationHasOwner
    /\ \A h \in Blocks : mNfaConnHandle[h] # Null => stack[mNfaConnHandle[h]] # "idle"
    /\ OneBlockPerConnection
    /\ mServer = Null => Blocks = {}
    /\ \A t \in ServerThreads :
         /\ thread[t].at \notin {"drowsy", "asleep", "woken", "close"} => thread[t].conn = Null
         /\ thread[t].conn # Null => handler[thread[t].conn] = "none"
    /\ \A t, u \in ServerThreads : thread[t].conn = thread[u].conn => t = u \/ thread[t].conn = Null
============================================================================
