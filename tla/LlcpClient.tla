----------------------------- MODULE LlcpClient -----------------------------
(***************************************************************************)
(* The out-bound side of nci/jni/PeerToPeer.cpp: the sockets the service   *)
(* creates to reach a peer.  Each has a thread that creates it, connects   *)
(* it and sends, and another that may close it at any moment; the NFA      *)
(* stack answers with events on a thread of its own.  They meet in         *)
(* SyncEvents, which remember nothing, and in the table mClients.          *)
(* A critical section of mMutex is one action, and so is a request made    *)
(* under the guard of the event that will answer it.                       *)
(***************************************************************************)
EXTENDS Integers, FiniteSets, Sequences

CONSTANTS Sockets,      \* bound: the sockets created; they name JNI handles and registrations
          sMax,         \* the slots of mClients
          Serial,       \* are sockets created one after the other?
          MaxBreaks,    \* bound on the times the link breaks
          MaxCongested, \* bound on the times the link is congested
          MaxSends,     \* bound on what a socket sends
          Null

ASSUME ClientAssumption ==
    /\ Null \notin Sockets
    /\ sMax \in Nat \ {0}
    /\ {MaxBreaks, MaxCongested, MaxSends} \subseteq Nat

VARIABLES
    mClients,   \* slot -> the socket whose P2pClient it holds
    client,     \* the P2pClients: mNfaP2pClientHandle, mNfaConnHandle, mIsConnecting
    owner,      \* where the thread of a socket is, and what it has sent
    closer,     \* where the thread that closes a socket is
    early,      \* the sockets closed in the moment their connection was made
    stack,      \* the NFA stack
    ndefHandler \* is an NDEF type handler registered?

vars == <<mClients, client, owner, closer, early, stack, ndefHandler>>

Slots == 1 .. sMax
NewClient == [reg |-> Null, conn |-> FALSE, isConnecting |-> FALSE]

Init ==
    /\ mClients = [i \in Slots |-> Null]
    /\ client = [s \in Sockets |-> NewClient]
    /\ owner = [s \in Sockets |-> [at |-> "new", sent |-> 0]]
    /\ closer = [s \in Sockets |-> "idle"]
    /\ early = {}
    /\ stack = [on |-> TRUE, link |-> FALSE, asked |-> <<>>, regs |-> {},
                conn |-> [s \in Sockets |-> "none"], congested |-> FALSE,
                breaks |-> 0, congs |-> 0]
    /\ ndefHandler = TRUE

-----------------------------------------------------------------------------
(* PeerToPeer's helpers. *)

Table == {mClients[i] : i \in Slots} \ {Null}

(* findClient of an NFA client handle, or of no handle at all: the first slot. *)
FindClient(reg) ==
    LET slots == {i \in Slots : mClients[i] # Null /\ client[mClients[i]].reg = reg}
    IN IF slots = {} THEN Null ELSE mClients[CHOOSE i \in slots : \A j \in slots : i <= j]

(* findConnection of a connection of the stack, which has its registration. *)
FindConnection(reg) == {s \in Table : client[s].reg = reg /\ client[s].conn}

(* SyncEvent::notifyOne: the thread of s goes on if it waits for the event. *)
Notify(o, s, waits, goesOn) ==
    IF s # Null /\ o[s].at = waits THEN [o EXCEPT ![s].at = goesOn] ELSE o

(* removeConn: the slot is free and the registration withdrawn, with the
   connection the stack still had under it.
   Mutant: WithdrawnNot, where NFA_P2pDeregister is forgotten. *)
Removed(s) == [i \in Slots |-> IF mClients[i] = s THEN Null ELSE mClients[i]]
WithdrawnNot(st, s) == st
Withdrawn(st, s) ==
    IF s \notin Table \/ client[s].reg = Null THEN st
    ELSE [st EXCEPT !.regs = @ \ {client[s].reg}, !.conn[client[s].reg] = "none"]

-----------------------------------------------------------------------------
(* The thread that uses a socket. *)

(* createClient, under mMutex: a slot; without one the socket has no client. *)
CreateClient(s) ==
    LET free == {i \in Slots : mClients[i] = Null}
    IN /\ owner[s].at = "new"
       /\ stack.on
       /\ Serial => \A t \in Sockets : owner[t].at \notin {"slot", "registering", "woken"}
       /\ IF free = {} THEN /\ owner' = [owner EXCEPT ![s].at = "idle"]
                            /\ UNCHANGED <<mClients, client>>
          ELSE /\ mClients' = [mClients EXCEPT ![CHOOSE i \in free : \A j \in free : i <= j] = s]
               /\ client' = [client EXCEPT ![s] = NewClient]
               /\ owner' = [owner EXCEPT ![s].at = "slot"]
       /\ UNCHANGED <<closer, early, stack, ndefHandler>>

(* NFA_P2pRegisterClient and the wait, under the guard of mRegisteringEvent. *)
Registers(s) ==
    /\ owner[s].at = "slot"
    /\ owner' = [owner EXCEPT ![s].at = "registering"]
    /\ stack' = [stack EXCEPT !.asked = Append(@, s)]
    /\ UNCHANGED <<mClients, client, closer, early, ndefHandler>>

(* createClient after its wait: a client that got no handle is removed; the
   socket is made all the same. *)
Registered(s) ==
    /\ owner[s].at = "woken"
    /\ owner' = [owner EXCEPT ![s].at = "idle"]
    /\ mClients' = IF client[s].reg = Null THEN Removed(s) ELSE mClients
    /\ UNCHANGED <<client, closer, early, stack, ndefHandler>>

(* createDataLinkConn up to its wait, under the guard of mConnectingEvent.
   Assumption: the service does not connect a socket it is closing. *)
Connects(s) ==
    LET asks == stack.on /\ client[s].reg \in stack.regs
    IN /\ owner[s].at = "idle"
       /\ s \in Table /\ closer[s] = "idle"
       /\ client' = [client EXCEPT ![s].isConnecting = TRUE]
       /\ owner' = [owner EXCEPT ![s].at = IF asks THEN "connecting" ELSE "refused"]
       /\ stack' = IF asks THEN [stack EXCEPT !.conn[client[s].reg] = "asked"] ELSE stack
       /\ UNCHANGED <<mClients, closer, early, ndefHandler>>

FindsNoClient(s) ==
    /\ owner[s].at = "idle"
    /\ s \notin Table
    /\ owner' = [owner EXCEPT ![s].at = "failed"]
    /\ UNCHANGED <<mClients, client, closer, early, stack, ndefHandler>>

(* createDataLinkConn after its wait: connected, or the client is removed. *)
Connected(s) ==
    /\ owner[s].at = "answered"
    /\ client[s].conn
    /\ client' = [client EXCEPT ![s].isConnecting = FALSE]
    /\ owner' = [owner EXCEPT ![s].at = "open"]
    /\ UNCHANGED <<mClients, closer, early, stack, ndefHandler>>

ConnectFails(s) ==
    /\ owner[s].at = "refused" \/ (owner[s].at = "answered" /\ ~client[s].conn)
    /\ mClients' = Removed(s)
    /\ stack' = Withdrawn(stack, s)
    /\ owner' = [owner EXCEPT ![s].at = "failed"]
    /\ UNCHANGED <<client, closer, early, ndefHandler>>

(* send: one try, under the guard of mCongEvent; the connection is found once
   and kept. *)
Tries(s) ==
    LET live == client[s].conn /\ stack.conn[client[s].reg] = "up"
    IN IF ~live THEN "failed" ELSE IF stack.congested THEN "congested" ELSE "open"

Sends(s) ==
    /\ owner[s].at = "retry" \/ (owner[s].at = "open" /\ owner[s].sent < MaxSends)
    /\ owner[s].at = "open" => s \in Table
    /\ owner' = [owner EXCEPT ![s] = [at |-> Tries(s),
                                      sent |-> @.sent + (IF Tries(s) = "open" THEN 1 ELSE 0)]]
    /\ UNCHANGED <<mClients, client, closer, early, stack, ndefHandler>>

FindsNoConnection(s) ==
    /\ owner[s].at = "open"
    /\ s \notin Table
    /\ owner' = [owner EXCEPT ![s].at = "failed"]
    /\ UNCHANGED <<mClients, client, closer, early, stack, ndefHandler>>

-----------------------------------------------------------------------------
(* The thread that closes it: disconnectConnOriented. *)

(* While the client is connecting its thread is woken and nothing else done. *)
CloseConnecting(s) ==
    /\ owner[s].at \notin {"new", "slot", "registering", "woken"}
    /\ closer[s] = "idle"
    /\ s \in Table /\ client[s].isConnecting
    /\ owner' = Notify(owner, s, "connecting", "answered")
    /\ early' = IF client[s].conn THEN early \cup {s} ELSE early
    /\ closer' = [closer EXCEPT ![s] = "closed"]
    /\ UNCHANGED <<mClients, client, stack, ndefHandler>>

(* Otherwise a send that waits is woken, and a connection is disconnected. *)
Close(s) ==
    /\ owner[s].at \notin {"new", "slot", "registering", "woken"}
    /\ closer[s] = "idle"
    /\ s \in Table /\ ~client[s].isConnecting
    /\ owner' = Notify(owner, s, "congested", "retry")
    /\ closer' = [closer EXCEPT ![s] = "notified"]
    /\ UNCHANGED <<mClients, client, early, stack, ndefHandler>>

CloseNothing(s) ==
    /\ owner[s].at \notin {"new", "slot", "registering", "woken"}
    /\ closer[s] = "idle"
    /\ s \notin Table
    /\ closer' = [closer EXCEPT ![s] = "closed"]
    /\ UNCHANGED <<mClients, client, owner, early, stack, ndefHandler>>

Disconnects(s) ==
    LET live == client[s].conn /\ stack.conn[client[s].reg] = "up"
    IN /\ closer[s] = "notified"
       /\ closer' = [closer EXCEPT ![s] = IF live THEN "disconnecting" ELSE "remove"]
       /\ stack' = IF live THEN [stack EXCEPT !.conn[client[s].reg] = "closing"] ELSE stack
       /\ UNCHANGED <<mClients, client, owner, early, ndefHandler>>

(* removeConn, under mDisconnectMutex. *)
Removes(s) ==
    /\ closer[s] = "remove"
    /\ mClients' = Removed(s)
    /\ stack' = Withdrawn(stack, s)
    /\ closer' = [closer EXCEPT ![s] = "closed"]
    /\ UNCHANGED <<client, owner, early, ndefHandler>>

-----------------------------------------------------------------------------
(* nfaClientCallback. *)

(* NFA_P2P_REG_CLIENT_EVT names no client: the first without a handle gets it.
   A stack that has no room for a registration sends no handle. *)
RegClient ==
    LET s == FindClient(Null)
    IN /\ stack.asked # <<>>
       /\ \E reg \in {Head(stack.asked), Null} :
             /\ stack' = [stack EXCEPT !.asked = Tail(@), !.regs = @ \cup ({reg} \ {Null})]
             /\ client' = IF s = Null THEN client ELSE [client EXCEPT ![s].reg = reg]
       /\ owner' = Notify(owner, s, "registering", "woken")
       /\ UNCHANGED <<mClients, closer, early, ndefHandler>>

(* NFA_P2P_CONNECTED_EVT. *)
ConnectedEvt(r) ==
    LET s == FindClient(r)
    IN /\ stack.conn[r] = "asked" /\ stack.link
       /\ stack' = [stack EXCEPT !.conn[r] = "up"]
       /\ client' = IF s = Null THEN client ELSE [client EXCEPT ![s].conn = TRUE]
       /\ owner' = Notify(owner, s, "connecting", "answered")
       /\ early' = IF s # Null /\ closer[s] = "closed" THEN early \cup {s} ELSE early
       /\ UNCHANGED <<mClients, closer, ndefHandler>>

(* NFA_P2P_DISC_EVT of a connection that was never made: the client is found
   by its own handle. *)
RefusedEvt(r) ==
    /\ stack.conn[r] = "asked"
    /\ stack' = [stack EXCEPT !.conn[r] = "none"]
    /\ owner' = Notify(owner, FindClient(r), "connecting", "answered")
    /\ UNCHANGED <<mClients, client, closer, early, ndefHandler>>

(* Mutant of DiscEvt: a send that waits for the link is not woken. *)
DiscEvtSilent(r) ==
    /\ stack.conn[r] \in {"up", "closing"}
    /\ stack' = [stack EXCEPT !.conn[r] = "none"]
    /\ LET found == FindConnection(r)
       IN /\ client' = [s \in Sockets |-> IF s \in found THEN [client[s] EXCEPT !.conn = FALSE]
                                                          ELSE client[s]]
          /\ closer' = [s \in Sockets |-> IF s \in found /\ closer[s] = "disconnecting"
                                          THEN "remove" ELSE closer[s]]
    /\ UNCHANGED <<mClients, owner, early, ndefHandler>>

(* Mutant of DiscEvt: the handle of the connection is kept. *)
DiscEvtKept(r) ==
    /\ stack.conn[r] \in {"up", "closing"}
    /\ stack' = [stack EXCEPT !.conn[r] = "none"]
    /\ LET found == FindConnection(r)
       IN closer' = [s \in Sockets |-> IF s \in found /\ closer[s] = "disconnecting"
                                       THEN "remove" ELSE closer[s]]
    /\ UNCHANGED <<mClients, client, owner, early, ndefHandler>>

(* NFA_P2P_DISC_EVT of a connection: whoever waits for anything is woken. *)
DiscEvt(r) ==
    /\ stack.conn[r] \in {"up", "closing"}
    /\ stack' = [stack EXCEPT !.conn[r] = "none"]
    /\ LET found == FindConnection(r)
       IN /\ client' = [s \in Sockets |-> IF s \in found THEN [client[s] EXCEPT !.conn = FALSE]
                                                          ELSE client[s]]
          /\ closer' = [s \in Sockets |-> IF s \in found /\ closer[s] = "disconnecting"
                                          THEN "remove" ELSE closer[s]]
          /\ owner' = [s \in Sockets |-> IF s \in found /\ owner[s].at = "congested"
                                         THEN [owner[s] EXCEPT !.at = "retry"] ELSE owner[s]]
    /\ UNCHANGED <<mClients, early, ndefHandler>>

(* NFA_P2P_CONGEST_EVT, for a connection that was congested. *)
CongestEvt ==
    /\ stack.congested
    /\ stack' = [stack EXCEPT !.congested = FALSE]
    /\ owner' = [s \in Sockets |-> IF s \in Table /\ client[s].conn /\ owner[s].at = "congested"
                                   THEN [owner[s] EXCEPT !.at = "retry"] ELSE owner[s]]
    /\ UNCHANGED <<mClients, client, closer, early, ndefHandler>>

-----------------------------------------------------------------------------
(* The link, and the rest of PeerToPeer. *)

Congests ==
    /\ stack.link /\ ~stack.congested
    /\ stack.congs < MaxCongested
    /\ stack' = [stack EXCEPT !.congested = TRUE, !.congs = @ + 1]
    /\ UNCHANGED <<mClients, client, owner, closer, early, ndefHandler>>

(* llcpActivatedHandler: the NDEF type handler gives way to the service. *)
LlcpActivated ==
    /\ stack.on /\ ~stack.link
    /\ stack.breaks < MaxBreaks
    /\ stack' = [stack EXCEPT !.link = TRUE]
    /\ ndefHandler' = FALSE
    /\ UNCHANGED <<mClients, client, owner, closer, early>>

(* llcpDeactivatedHandler; the connections go with events of their own. *)
LlcpDeactivated ==
    /\ stack.link
    /\ \A s \in Sockets : stack.conn[s] \notin {"up", "closing"}
    /\ stack' = [stack EXCEPT !.link = FALSE, !.breaks = @ + 1, !.congested = FALSE]
    /\ ndefHandler' = TRUE
    /\ UNCHANGED <<mClients, client, owner, closer, early>>

(* handleNfcOnOff(false), when the stack has been disabled: it has answered
   everything by then. *)
NfcOff ==
    /\ stack.on /\ ~stack.link
    /\ stack.asked = <<>>
    /\ \A s \in Sockets : stack.conn[s] = "none" /\ owner[s].at # "slot"
    /\ stack' = [stack EXCEPT !.on = FALSE, !.regs = {}]
    /\ client' = [s \in Sockets |-> IF s \in Table THEN [client[s] EXCEPT !.conn = FALSE]
                                                   ELSE client[s]]
    /\ owner' = [s \in Sockets |->
                   CASE s \in Table /\ ~client[s].conn /\ owner[s].at = "connecting" ->
                           [owner[s] EXCEPT !.at = "answered"]
                     [] s \in Table /\ client[s].conn /\ owner[s].at = "congested" ->
                           [owner[s] EXCEPT !.at = "retry"]
                     [] OTHER -> owner[s]]
    /\ UNCHANGED <<mClients, closer, early, ndefHandler>>

(* handleNfcOnOff(true): the table is cleared. *)
NfcOn ==
    /\ ~stack.on
    /\ stack' = [stack EXCEPT !.on = TRUE]
    /\ mClients' = [i \in Slots |-> Null]
    /\ UNCHANGED <<client, owner, closer, early, ndefHandler>>

-----------------------------------------------------------------------------
OwnerStep(s) ==
    \/ CreateClient(s) \/ Registers(s) \/ Registered(s)
    \/ Connects(s) \/ FindsNoClient(s) \/ Connected(s) \/ ConnectFails(s)
    \/ Sends(s) \/ FindsNoConnection(s)

CloserStep(s) == CloseConnecting(s) \/ Close(s) \/ CloseNothing(s) \/ Disconnects(s) \/ Removes(s)

Event(r) == ConnectedEvt(r) \/ RefusedEvt(r) \/ DiscEvt(r)

Next ==
    \/ \E s \in Sockets : OwnerStep(s) \/ CloserStep(s) \/ Event(s)
    \/ RegClient \/ CongestEvt
    \/ Congests \/ LlcpActivated \/ LlcpDeactivated
    \/ NfcOff \/ NfcOn

Spec == Init /\ [][Next]_vars

(* Fairness: a thread that need not wait goes on, and the stack answers. *)
FairSpec ==
    /\ Spec
    /\ \A s \in Sockets :
          /\ WF_vars(Registers(s)) /\ WF_vars(Registered(s))
          /\ WF_vars(Connected(s)) /\ WF_vars(ConnectFails(s))
          /\ WF_vars(owner[s].at = "retry" /\ Sends(s))
          /\ WF_vars(Disconnects(s)) /\ WF_vars(Removes(s))
          /\ WF_vars(ConnectedEvt(s) \/ RefusedEvt(s))
          /\ WF_vars(stack.conn[s] = "closing" /\ DiscEvt(s))
    /\ WF_vars(RegClient) /\ WF_vars(CongestEvt)

-----------------------------------------------------------------------------
At == {"new", "slot", "registering", "woken", "idle", "connecting", "refused", "answered",
       "open", "congested", "retry", "failed"}

(* The state has its shape, no socket has sent more than it was given, and a link
   that is up may still break. *)
TypeOK ==
    /\ mClients \in [Slots -> Sockets \cup {Null}]
    /\ client \in [Sockets -> [reg : Sockets \cup {Null}, conn : BOOLEAN, isConnecting : BOOLEAN]]
    /\ owner \in [Sockets -> [at : At, sent : 0 .. MaxSends]]
    /\ closer \in [Sockets -> {"idle", "notified", "disconnecting", "remove", "closed"}]
    /\ early \subseteq Sockets
    /\ stack \in [on : BOOLEAN, link : BOOLEAN, asked : Seq(Sockets), regs : SUBSET Sockets,
                  conn : [Sockets -> {"none", "asked", "up", "closing"}], congested : BOOLEAN,
                  breaks : 0 .. MaxBreaks, congs : 0 .. MaxCongested]
    /\ stack.link => stack.breaks < MaxBreaks
    /\ ndefHandler \in BOOLEAN

(* A socket whose close has returned has left the stack nothing, once its own
   thread has seen to it: no slot of the table, no registration, no connection.
   It may be closed while it registers its wish to connect, while the peer
   answers, or while the link goes.  The sockets of "early" are the ones
   disconnectConnOriented only notifies although their connection is made. *)
ClosedSocketIsReleased ==
    \A s \in Sockets \ early :
        closer[s] = "closed" /\ owner[s].at \notin {"connecting", "answered", "refused"}
            => s \notin Table /\ s \notin stack.regs /\ stack.conn[s] = "none"

(* PeerToPeer and the stack agree on the connections: the stack has none whose
   events would find no client, and a client holds the handle of none that is gone. *)
ConnectionsAreKnown ==
    \A s \in Sockets :
        /\ stack.conn[s] \in {"up", "closing"} => s \in Table /\ client[s].conn
        /\ s \in Table /\ client[s].conn => stack.conn[s] \in {"up", "closing"}

(* While sockets are created one after the other the event that names no client
   finds the one that asked, and NFC is not switched off before it has come. *)
RegistersAlone ==
    /\ \A s, t \in Sockets :
         {owner[s].at, owner[t].at} \subseteq {"slot", "registering", "woken"} => s = t
    /\ \A s \in Sockets : owner[s].at = "registering" => stack.asked = <<s>>
    /\ stack.asked # <<>> => \E s \in Sockets : owner[s].at = "registering"
    /\ \A s \in Sockets : owner[s].at \in {"slot", "registering"} => stack.on /\ s \in Table

(* A client of the table gets its own registration, and keeps it as long as the
   slot, or is removed by the thread that waited for it; the stack has no
   registration without a client, and no connection before the socket was told
   to connect. *)
ClientsAreRegistered ==
    \A s \in Sockets :
        /\ client[s].reg \in {Null, s}
        /\ s \in Table => /\ owner[s].at # "new"
                          /\ owner[s].at \in {"slot", "registering"} => client[s].reg = Null
                          /\ client[s].reg = Null =>
                               owner[s].at \in {"slot", "registering", "woken"}
        /\ s \in stack.regs => stack.on /\ s \in Table /\ client[s].reg = s
        /\ stack.conn[s] # "none" => s \in stack.regs /\ owner[s].at \notin {"woken", "idle"}

(* mIsConnecting tells disconnectConnOriented what the socket's thread is doing. *)
ConnectingIsMarked ==
    \A s \in Table :
        client[s].isConnecting <=> owner[s].at \in {"connecting", "refused", "answered"}

(* A socket is closed after it was created; what its connection gets when it is closed
   already is told apart, and a send that waits is one of those it was given. *)
ClosesAreLate ==
    \A s \in Sockets :
        /\ owner[s].at \in {"new", "slot", "registering", "woken"} => closer[s] = "idle"
        /\ s \in Table /\ client[s].conn /\ closer[s] = "closed" => s \in early
        /\ owner[s].at \in {"congested", "retry"} => owner[s].sent < MaxSends

(* The threads, the table and the stack fit together. *)
IndInv ==
    /\ TypeOK
    /\ ConnectionsAreKnown
    /\ ClosedSocketIsReleased
    /\ RegistersAlone
    /\ ClientsAreRegistered
    /\ ConnectingIsMarked
    /\ ClosesAreLate

(* createClient, createDataLinkConn, send and disconnectConnOriented return,
   whether the peer answers, refuses, goes away or NFC is switched off, although
   their SyncEvents remember no notification. *)
CallsReturn ==
    \A s \in Sockets :
        /\ owner[s].at \in {"registering", "connecting", "congested"} ~>
              owner[s].at \in {"idle", "open", "failed"}
        /\ closer[s] = "notified" ~> closer[s] = "closed"
=============================================================================
