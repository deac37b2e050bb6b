--------------------------- MODULE LlcpClientProofs ---------------------------
(***************************************************************************)
(* Proofs about LlcpClient, for any number of sockets, slots and breaks of *)
(* the link, as long as sockets are created one after the other: the table *)
(* of clients fits what the NFA stack knows, and a socket that was closed  *)
(* leaves the stack nothing.                                               *)
(***************************************************************************)
EXTENDS LlcpClient, TLAPS, FiniteSetTheorems, WellFoundedInduction

Clients == [reg : Sockets \cup {Null}, conn : BOOLEAN, isConnecting : BOOLEAN]
Owners == [Sockets -> [at : At, sent : 0 .. MaxSends]]
Closers == [Sockets -> {"idle", "notified", "disconnecting", "remove", "closed"}]
Conns == {"none", "asked", "up", "closing"}
Stacks ==
    {st \in [on : BOOLEAN, link : BOOLEAN, asked : Seq(Sockets), regs : SUBSET Sockets,
             conn : [Sockets -> Conns], congested : BOOLEAN,
             breaks : 0 .. MaxBreaks, congs : 0 .. MaxCongested] :
       st.link => st.breaks < MaxBreaks}

Creating == {"slot", "registering", "woken"}

\* IndInv, for one socket.
Fits(s) ==
    /\ stack.conn[s] \in {"up", "closing"} => s \in Table /\ client[s].conn
    /\ s \in Table /\ client[s].conn => stack.conn[s] \in {"up", "closing"}
    /\ s \notin early /\ closer[s] = "closed"
         /\ owner[s].at \notin {"connecting", "answered", "refused"} =>
            s \notin Table /\ s \notin stack.regs /\ stack.conn[s] = "none"
    /\ client[s].reg \in {Null, s}
    /\ s \in Table => owner[s].at # "new"
    /\ s \in Table /\ owner[s].at \in {"slot", "registering"} => client[s].reg = Null
    /\ s \in Table /\ client[s].reg = Null => owner[s].at \in {"slot", "registering", "woken"}
    /\ s \in stack.regs => stack.on /\ s \in Table /\ client[s].reg = s
    /\ stack.conn[s] # "none" => s \in stack.regs /\ owner[s].at \notin {"woken", "idle"}
    /\ s \in Table =>
         (client[s].isConnecting <=> owner[s].at \in {"connecting", "refused", "answered"})
    /\ owner[s].at \in {"new", "slot", "registering", "woken"} => closer[s] = "idle"
    /\ s \in Table /\ client[s].conn /\ closer[s] = "closed" => s \in early
    /\ owner[s].at \in {"congested", "retry"} => owner[s].sent < MaxSends
    /\ owner[s].at = "registering" => stack.asked = <<s>>
    /\ owner[s].at \in {"slot", "registering"} => stack.on /\ s \in Table

\* IndInv, for the sockets together.
Alone ==
    /\ \A s, t \in Sockets : owner[s].at \in Creating /\ owner[t].at \in Creating => s = t
    /\ stack.asked # <<>> => \E s \in Sockets : owner[s].at = "registering"

Types ==
    /\ mClients \in [Slots -> Sockets \cup {Null}]
    /\ client \in [Sockets -> Clients]
    /\ owner \in Owners
    /\ closer \in Closers
    /\ early \subseteq Sockets
    /\ stack \in Stacks
    /\ ndefHandler \in BOOLEAN

Inv == Types /\ Alone /\ \A s \in Sockets : Fits(s)

LEMMA IndInvParts == IndInv <=> Inv
<1>1. TypeOK <=> Types
  BY DEF TypeOK, Types, Clients, Owners, Closers, Stacks, Conns
<1>2. ASSUME Types
      PROVE  Table \subseteq Sockets
  BY <1>2 DEF Types, Table, Slots
<1>3. ASSUME IndInv
      PROVE  Inv
  <2>1. Alone
    BY <1>3 DEF IndInv, RegistersAlone, Alone, Creating
  <2>2. \A s \in Sockets : Fits(s)
    BY <1>3 DEF IndInv, ConnectionsAreKnown, ClosedSocketIsReleased, RegistersAlone,
                ClientsAreRegistered, ConnectingIsMarked, ClosesAreLate, Fits
  <2> QED
    BY <1>1, <1>3, <2>1, <2>2 DEF IndInv, Inv
<1>4. ASSUME Inv
      PROVE  IndInv
  <2>1. RegistersAlone
    BY <1>4 DEF Inv, RegistersAlone, Alone, Creating, Fits
  <2>2. ConnectingIsMarked
    BY <1>2, <1>4 DEF Inv, ConnectingIsMarked, Fits
  <2>3. ConnectionsAreKnown /\ ClosedSocketIsReleased
    BY <1>4 DEF Inv, ConnectionsAreKnown, ClosedSocketIsReleased, Fits
  <2>4. ClientsAreRegistered
    BY <1>4 DEF Inv, ClientsAreRegistered, Fits
  <2>5. ClosesAreLate
    BY <1>4 DEF Inv, ClosesAreLate, Fits
  <2> QED
    BY <1>1, <1>4, <2>1, <2>2, <2>3, <2>4, <2>5 DEF IndInv, Inv
<1> QED
  BY <1>3, <1>4

-----------------------------------------------------------------------------
(* The table and the operators the actions are made of. *)

\* A set of slots that is not empty has a first one.
LEMMA SomeIsFirst ==
    ASSUME NEW n \in Nat, NEW T \in SUBSET (1 .. n), T # {}
    PROVE  \E x \in T : \A y \in T : x <= y
<1> DEFINE upTo(x) == {y \in T : y <= x}
           S == SUBSET (1 .. n)
           R == StrictSubsetOrdering(1 .. n)
           F == {upTo(x) : x \in T}
<1>1. IsWellFoundedOn(R, S)
  <2>1. IsFiniteSet(1 .. n)
    BY FS_Interval
  <2> QED
    BY <2>1, FS_FiniteSubsetsOfFinite, FS_StrictSubsetOrderingWellFounded
<1>2. F \subseteq S /\ F # {}
  OBVIOUS
<1>3. PICK A \in F : \A B \in F : ~(<<B, A>> \in R)
  <2> HIDE DEF R, S, F
  <2> QED
    BY <1>1, <1>2, WFMin
<1>4. PICK x \in T : A = upTo(x)
  BY <1>3
<1>5. ASSUME NEW y \in T, ~(x <= y)
      PROVE  FALSE
  <2>1. upTo(y) \in F /\ upTo(y) \in S /\ A \in S
    BY <1>2, <1>3
  <2>2. upTo(y) \subseteq A /\ x \in A /\ x \notin upTo(y)
    <3>1. x \in Int /\ y \in Int /\ y < x
      BY <1>5
    <3>2. \A z \in T : z \in Int
      OBVIOUS
    <3>3. x \in upTo(x) /\ x \notin upTo(y)
      BY <3>1
    <3>4. ASSUME NEW z \in T, z <= y
          PROVE  z <= x
      BY <3>1, <3>2, <3>4
    <3>5. upTo(y) \subseteq upTo(x)
      BY <3>4
    <3> HIDE DEF upTo
    <3> QED
      BY <1>4, <3>3, <3>5
  <2>3. <<upTo(y), A>> \in R
    BY <2>1, <2>2 DEF StrictSubsetOrdering
  <2> QED
    BY <1>3, <2>1, <2>3
<1> QED
  BY <1>5

LEMMA FirstSlot ==
    ASSUME NEW T \in SUBSET Slots, T # {}
    PROVE  (CHOOSE i \in T : \A j \in T : i <= j) \in T
<1>1. \E i \in T : \A j \in T : i <= j
  BY ClientAssumption, SomeIsFirst DEF Slots
<1> QED
  BY <1>1

LEMMA TableIsOfSockets == Types => Table \subseteq Sockets
BY DEF Types, Table, Slots

LEMMA TableRemoved ==
    ASSUME Types, NEW s \in Sockets, mClients' = Removed(s)
    PROVE  mClients' \in [Slots -> Sockets \cup {Null}] /\ Table' = Table \ {s}
<1>1. \A i \in Slots : mClients'[i] = IF mClients[i] = s THEN Null ELSE mClients[i]
  BY DEF Removed
<1>2. mClients' \in [Slots -> Sockets \cup {Null}]
  BY DEF Removed, Types
<1>3. Table' = Table \ {s}
  BY <1>1, ClientAssumption DEF Table
<1> QED
  BY <1>2, <1>3

LEMMA TableAdded ==
    ASSUME Types, NEW s \in Sockets, NEW i \in Slots, mClients[i] = Null,
           mClients' = [mClients EXCEPT ![i] = s]
    PROVE  mClients' \in [Slots -> Sockets \cup {Null}] /\ Table' = Table \cup {s}
<1>1. mClients' \in [Slots -> Sockets \cup {Null}]
  BY DEF Types
<1>2. \A j \in Slots : mClients'[j] = IF j = i THEN s ELSE mClients[j]
  BY DEF Types
<1>3. Table' = Table \cup {s}
  BY <1>2, ClientAssumption DEF Table
<1> QED
  BY <1>1, <1>3

\* findClient finds a client of the table that has the handle, if there is one.
LEMMA ClientFound ==
    ASSUME Types, NEW reg
    PROVE  \/ FindClient(reg) = Null /\ \A s \in Table : client[s].reg # reg
           \/ FindClient(reg) \in Table /\ client[FindClient(reg)].reg = reg
<1> DEFINE slots == {i \in Slots : mClients[i] # Null /\ client[mClients[i]].reg = reg}
<1>1. CASE slots = {}
  BY <1>1 DEF FindClient, Table
<1>2. CASE slots # {}
  <2> DEFINE f == CHOOSE i \in slots : \A j \in slots : i <= j
  <2>1. f \in slots
    BY <1>2, FirstSlot
  <2>2. FindClient(reg) = mClients[f]
    BY <1>2 DEF FindClient
  <2> HIDE DEF f
  <2> QED
    BY <2>1, <2>2 DEF Table
<1> QED
  BY <1>1, <1>2

\* A client is found by its own handle, as long as each has its own.
LEMMA OwnClientFound ==
    ASSUME Inv, NEW r \in Sockets
    PROVE  FindClient(r) = IF r \in Table /\ client[r].reg = r THEN r ELSE Null
<1>1. \A s \in Sockets : client[s].reg \in {Null, s}
  BY DEF Inv, Fits
<1> QED
  BY <1>1, ClientFound, TableIsOfSockets, ClientAssumption DEF Inv

LEMMA Ats ==
    {"slot", "registering", "woken", "idle", "connecting", "refused", "answered", "open",
     "congested", "retry", "failed"} \subseteq At
BY DEF At

LEMMA Notified ==
    ASSUME NEW o \in Owners, NEW s \in Sockets \cup {Null}, NEW w \in At, NEW a \in At,
           NEW n, n = Notify(o, s, w, a)
    PROVE  /\ n \in Owners
           /\ \A t \in Sockets :
                /\ n[t].at = IF t = s /\ o[t].at = w THEN a ELSE o[t].at
                /\ n[t].sent = o[t].sent
<1>1. CASE s # Null /\ o[s].at = w
  <2>1. s \in Sockets /\ n = [o EXCEPT ![s].at = a]
    BY <1>1 DEF Notify
  <2>2. /\ n \in Owners
        /\ \A t \in Sockets : n[t].at = (IF t = s THEN a ELSE o[t].at) /\ n[t].sent = o[t].sent
    BY <2>1 DEF Owners
  <2> QED
    BY <1>1, <2>2
<1>2. CASE ~(s # Null /\ o[s].at = w)
  BY <1>2, ClientAssumption DEF Notify
<1> QED
  BY <1>1, <1>2

LEMMA ConnectionChanges ==
    ASSUME NEW st \in Stacks, NEW r \in Sockets, NEW c \in Conns,
           NEW n, n = [st EXCEPT !.conn[r] = c]
    PROVE  /\ n \in Stacks
           /\ n.on = st.on /\ n.regs = st.regs /\ n.asked = st.asked
           /\ \A t \in Sockets : n.conn[t] = IF t = r THEN c ELSE st.conn[t]
<1>1. [st.conn EXCEPT ![r] = c] \in [Sockets -> Conns]
  BY DEF Stacks
<1> QED
  BY <1>1 DEF Stacks

\* What the stack has of a socket that leaves the table.
LEMMA StackWithdraws ==
    ASSUME Inv, NEW s \in Sockets, NEW n, n = Withdrawn(stack, s)
    PROVE  /\ n \in Stacks
           /\ n.on = stack.on /\ n.asked = stack.asked
           /\ n.regs = IF s \in Table THEN stack.regs \ {client[s].reg} ELSE stack.regs
           /\ \A t \in Sockets :
                n.conn[t] = IF s \in Table /\ t = client[s].reg THEN "none" ELSE stack.conn[t]
<1>1. stack \in Stacks /\ client[s].reg \in {Null, s}
  BY DEF Inv, Types, Fits
<1>2. CASE s \notin Table \/ client[s].reg = Null
  <2>1. Null \notin stack.regs
    BY <1>1, ClientAssumption DEF Stacks
  <2>2. n = stack
    BY <1>2 DEF Withdrawn
  <2> QED
    BY <1>1, <1>2, <2>1, <2>2, ClientAssumption
<1>3. CASE s \in Table /\ client[s].reg = s
  <2>1. n = [stack EXCEPT !.regs = @ \ {s}, !.conn[s] = "none"]
    BY <1>3, ClientAssumption DEF Withdrawn
  <2>2. [stack.conn EXCEPT ![s] = "none"] \in [Sockets -> Conns]
    BY <1>1 DEF Stacks, Conns
  <2>3. stack.regs \ {s} \in SUBSET Sockets
    BY <1>1 DEF Stacks
  <2>4. n \in Stacks
    BY <1>1, <2>1, <2>2, <2>3 DEF Stacks
  <2>5. /\ n.on = stack.on /\ n.asked = stack.asked /\ n.regs = stack.regs \ {s}
        /\ \A t \in Sockets : n.conn[t] = IF t = s THEN "none" ELSE stack.conn[t]
    BY <1>1, <2>1 DEF Stacks
  <2> QED
    BY <1>3, <2>4, <2>5
<1> QED
  BY <1>1, <1>2, <1>3

-----------------------------------------------------------------------------
(* The thread that uses a socket. *)

LEMMA CreatesClient ==
    ASSUME Inv, NEW s \in Sockets, Serial, CreateClient(s)
    PROVE  Inv'
<1> DEFINE free == {i \in Slots : mClients[i] = Null}
<1>1. /\ owner[s].at = "new" /\ stack.on /\ UNCHANGED <<closer, early, stack, ndefHandler>>
      /\ \A t \in Sockets : owner[t].at \notin Creating
  BY DEF CreateClient, Creating
<1>2. owner \in Owners /\ stack \in Stacks /\ client \in [Sockets -> Clients]
  BY DEF Inv, Types
<1>3. s \notin Table
  BY <1>1 DEF Inv, Fits
<1>4. CASE free = {}
  <2>1. owner' = [owner EXCEPT ![s].at = "idle"] /\ UNCHANGED <<mClients, client>>
    BY <1>4 DEF CreateClient
  <2>2. /\ owner' \in Owners
        /\ \A t \in Sockets : owner'[t].at = (IF t = s THEN "idle" ELSE owner[t].at)
                              /\ owner'[t].sent = owner[t].sent
    BY <1>2, <2>1, Ats DEF Owners
  <2>3. Table' = Table
    BY <2>1 DEF Table
  <2>4. Types'
    BY <1>1, <2>1, <2>2 DEF Inv, Types
  <2>5. Alone'
    BY <1>1, <2>2 DEF Inv, Alone, Creating
  <2>6. ASSUME NEW t \in Sockets PROVE Fits(t)'
    <3>1. Fits(t)
      BY DEF Inv
    <3> QED
      BY <1>1, <1>3, <2>1, <2>2, <2>3, <3>1 DEF Fits
  <2> QED
    BY <2>4, <2>5, <2>6 DEF Inv
<1>5. CASE free # {}
  <2> DEFINE i == CHOOSE i \in free : \A j \in free : i <= j
  <2>1. i \in Slots /\ mClients[i] = Null
    BY <1>5, FirstSlot
  <2>2. /\ mClients' = [mClients EXCEPT ![i] = s] /\ client' = [client EXCEPT ![s] = NewClient]
        /\ owner' = [owner EXCEPT ![s].at = "slot"]
    BY <1>5 DEF CreateClient
  <2> HIDE DEF i
  <2>3. mClients' \in [Slots -> Sockets \cup {Null}] /\ Table' = Table \cup {s}
    BY <2>1, <2>2, TableAdded DEF Inv
  <2>4. /\ client' \in [Sockets -> Clients] /\ client'[s] = NewClient
        /\ \A t \in Sockets : t # s => client'[t] = client[t]
    BY <1>2, <2>2 DEF Clients, NewClient
  <2>5. /\ owner' \in Owners
        /\ \A t \in Sockets : owner'[t].at = (IF t = s THEN "slot" ELSE owner[t].at)
                              /\ owner'[t].sent = owner[t].sent
    BY <1>2, <2>2, Ats DEF Owners
  <2>6. Types'
    BY <1>1, <2>3, <2>4, <2>5 DEF Inv, Types
  <2>7. Alone'
    <3>1. stack.asked = <<>>
      BY <1>1 DEF Inv, Alone, Creating
    <3> QED
      BY <1>1, <2>5, <3>1 DEF Alone, Creating
  <2>8. ASSUME NEW t \in Sockets PROVE Fits(t)'
    <3>1. Fits(t)
      BY DEF Inv
    <3>2. CASE t = s
      BY <1>1, <1>3, <2>3, <2>4, <2>5, <3>1, <3>2 DEF Fits, NewClient
    <3>3. CASE t # s
      BY <1>1, <2>3, <2>4, <2>5, <3>1, <3>3 DEF Fits
    <3> QED
      BY <3>2, <3>3
  <2> QED
    BY <2>6, <2>7, <2>8 DEF Inv
<1> QED
  BY <1>4, <1>5

LEMMA RegistersClient ==
    ASSUME Inv, NEW s \in Sockets, Registers(s)
    PROVE  Inv'
<1>1. /\ owner[s].at = "slot" /\ owner' = [owner EXCEPT ![s].at = "registering"]
      /\ stack' = [stack EXCEPT !.asked = Append(@, s)]
      /\ UNCHANGED <<mClients, client, closer, early, ndefHandler>>
  BY DEF Registers
<1>2. owner \in Owners /\ stack \in Stacks
  BY DEF Inv, Types
<1>3. /\ owner' \in Owners
      /\ \A t \in Sockets : owner'[t].at = (IF t = s THEN "registering" ELSE owner[t].at)
                            /\ owner'[t].sent = owner[t].sent
  BY <1>1, <1>2, Ats DEF Owners
<1>4. stack.asked = <<>>
  BY <1>1 DEF Inv, Alone, Creating
<1>5. /\ stack' \in Stacks /\ stack'.asked = <<s>> /\ stack'.on = stack.on
      /\ stack'.regs = stack.regs /\ stack'.conn = stack.conn
  <2>1. stack' = [stack EXCEPT !.asked = <<s>>] /\ <<s>> \in Seq(Sockets)
    BY <1>1, <1>4
  <2> QED
    BY <1>2, <2>1 DEF Stacks
<1>6. Table' = Table
  BY <1>1 DEF Table
<1>7. Types'
  BY <1>1, <1>3, <1>5 DEF Inv, Types
<1>8. Alone'
  BY <1>1, <1>3 DEF Inv, Alone, Creating
<1>9. ASSUME NEW t \in Sockets PROVE Fits(t)'
  <2>1. Fits(t)
    BY DEF Inv
  <2>2. owner[t].at = "registering" => t = s
    BY <1>1 DEF Inv, Alone, Creating
  <2> QED
    BY <1>1, <1>3, <1>5, <1>6, <2>1, <2>2 DEF Fits
<1> QED
  BY <1>7, <1>8, <1>9 DEF Inv

LEMMA HasRegistered ==
    ASSUME Inv, NEW s \in Sockets, Registered(s)
    PROVE  Inv'
<1>1. /\ owner[s].at = "woken" /\ owner' = [owner EXCEPT ![s].at = "idle"]
      /\ mClients' = IF client[s].reg = Null THEN Removed(s) ELSE mClients
      /\ UNCHANGED <<client, closer, early, stack, ndefHandler>>
  BY DEF Registered
<1>2. owner \in Owners
  BY DEF Inv, Types
<1>3. /\ owner' \in Owners
      /\ \A t \in Sockets : owner'[t].at = (IF t = s THEN "idle" ELSE owner[t].at)
                            /\ owner'[t].sent = owner[t].sent
  BY <1>1, <1>2, Ats DEF Owners
<1>4. /\ mClients' \in [Slots -> Sockets \cup {Null}]
      /\ Table' = IF client[s].reg = Null THEN Table \ {s} ELSE Table
  <2>1. CASE client[s].reg = Null
    BY <1>1, <2>1, TableRemoved DEF Inv
  <2>2. CASE client[s].reg # Null
    BY <1>1, <2>2 DEF Table, Inv, Types
  <2> QED
    BY <2>1, <2>2
<1>5. Types'
  BY <1>1, <1>3, <1>4 DEF Inv, Types
<1>6. Alone'
  BY <1>1, <1>3 DEF Inv, Alone, Creating
<1>7. ASSUME NEW t \in Sockets PROVE Fits(t)'
  <2>1. Fits(t)
    BY DEF Inv
  <2>2. CASE t = s
    <3>1. stack.conn[s] = "none" /\ (client[s].reg = Null => s \notin stack.regs)
      BY <1>1, <2>1, <2>2, ClientAssumption DEF Fits
    <3> QED
      BY <1>1, <1>3, <1>4, <2>1, <2>2, <3>1 DEF Fits
  <2>3. CASE t # s
    BY <1>1, <1>3, <1>4, <2>1, <2>3 DEF Fits
  <2> QED
    BY <2>2, <2>3
<1> QED
  BY <1>5, <1>6, <1>7 DEF Inv

LEMMA HasNoClient ==
    ASSUME Inv, NEW s \in Sockets, FindsNoClient(s)
    PROVE  Inv'
<1>1. /\ owner[s].at = "idle" /\ s \notin Table /\ owner' = [owner EXCEPT ![s].at = "failed"]
      /\ UNCHANGED <<mClients, client, closer, early, stack, ndefHandler>>
  BY DEF FindsNoClient
<1>2. owner \in Owners
  BY DEF Inv, Types
<1>3. /\ owner' \in Owners
      /\ \A t \in Sockets : owner'[t].at = (IF t = s THEN "failed" ELSE owner[t].at)
                            /\ owner'[t].sent = owner[t].sent
  BY <1>1, <1>2, Ats DEF Owners
<1>4. Table' = Table
  BY <1>1 DEF Table
<1>5. Types'
  BY <1>1, <1>3 DEF Inv, Types
<1>6. Alone'
  BY <1>1, <1>3 DEF Inv, Alone, Creating
<1>7. ASSUME NEW t \in Sockets PROVE Fits(t)'
  <2>1. Fits(t)
    BY DEF Inv
  <2> QED
    BY <1>1, <1>3, <1>4, <2>1 DEF Fits
<1> QED
  BY <1>5, <1>6, <1>7 DEF Inv

LEMMA HasNoConnection ==
    ASSUME Inv, NEW s \in Sockets, FindsNoConnection(s)
    PROVE  Inv'
<1>1. /\ owner[s].at = "open" /\ s \notin Table /\ owner' = [owner EXCEPT ![s].at = "failed"]
      /\ UNCHANGED <<mClients, client, closer, early, stack, ndefHandler>>
  BY DEF FindsNoConnection
<1>2. owner \in Owners
  BY DEF Inv, Types
<1>3. /\ owner' \in Owners
      /\ \A t \in Sockets : owner'[t].at = (IF t = s THEN "failed" ELSE owner[t].at)
                            /\ owner'[t].sent = owner[t].sent
  BY <1>1, <1>2, Ats DEF Owners
<1>4. Table' = Table
  BY <1>1 DEF Table
<1>5. Types'
  BY <1>1, <1>3 DEF Inv, Types
<1>6. Alone'
  BY <1>1, <1>3 DEF Inv, Alone, Creating
<1>7. ASSUME NEW t \in Sockets PROVE Fits(t)'
  <2>1. Fits(t)
    BY DEF Inv
  <2> QED
    BY <1>1, <1>3, <1>4, <2>1 DEF Fits
<1> QED
  BY <1>5, <1>6, <1>7 DEF Inv

LEMMA ConnectsClient ==
    ASSUME Inv, NEW s \in Sockets, Connects(s)
    PROVE  Inv'
<1> DEFINE asks == stack.on /\ client[s].reg \in stack.regs
           at == IF asks THEN "connecting" ELSE "refused"
<1>1. /\ owner[s].at = "idle" /\ s \in Table /\ closer[s] = "idle"
      /\ client' = [client EXCEPT ![s].isConnecting = TRUE]
      /\ owner' = [owner EXCEPT ![s].at = at]
      /\ stack' = IF asks THEN [stack EXCEPT !.conn[client[s].reg] = "asked"] ELSE stack
      /\ UNCHANGED <<mClients, closer, early, ndefHandler>>
  BY DEF Connects
<1>2. owner \in Owners /\ stack \in Stacks /\ client \in [Sockets -> Clients]
  BY DEF Inv, Types
<1>3. at \in {"connecting", "refused"}
  OBVIOUS
<1>4. client[s].reg = s /\ Fits(s)
  BY <1>1 DEF Inv, Fits
<1>5. asks => s \in stack.regs
  BY <1>4
<1> HIDE DEF at
<1>6. /\ owner' \in Owners
      /\ \A t \in Sockets : owner'[t].at = (IF t = s THEN at ELSE owner[t].at)
                            /\ owner'[t].sent = owner[t].sent
  BY <1>1, <1>2, <1>3, Ats DEF Owners
<1>7. /\ stack' \in Stacks /\ stack'.on = stack.on /\ stack'.regs = stack.regs
      /\ stack'.asked = stack.asked
      /\ \A t \in Sockets : stack'.conn[t] = IF t = s /\ asks THEN "asked" ELSE stack.conn[t]
  BY <1>1, <1>2, <1>4, ConnectionChanges DEF Conns
<1> HIDE DEF asks
<1>8. /\ client' \in [Sockets -> Clients]
      /\ client'[s].reg = client[s].reg /\ client'[s].conn = client[s].conn
      /\ client'[s].isConnecting
      /\ \A t \in Sockets : t # s => client'[t] = client[t]
  BY <1>1, <1>2 DEF Clients
<1>9. Table' = Table
  BY <1>1 DEF Table
<1>10. Types'
  BY <1>1, <1>6, <1>7, <1>8 DEF Inv, Types
<1>11. Alone'
  BY <1>1, <1>3, <1>6, <1>7 DEF Inv, Alone, Creating
<1>12. ASSUME NEW t \in Sockets PROVE Fits(t)'
  <2>1. CASE t = s
    <3>1. ~client[s].conn
      BY <1>1, <1>4 DEF Fits
    <3> QED
      BY <1>1, <1>3, <1>4, <1>5, <1>6, <1>7, <1>8, <1>9, <2>1, <3>1 DEF Fits
  <2>2. CASE t # s
    <3>1. Fits(t)
      BY DEF Inv
    <3> QED
      BY <1>1, <1>6, <1>7, <1>8, <1>9, <2>2, <3>1 DEF Fits
  <2> QED
    BY <2>1, <2>2
<1> QED
  BY <1>10, <1>11, <1>12 DEF Inv

LEMMA HasConnected ==
    ASSUME Inv, NEW s \in Sockets, Connected(s)
    PROVE  Inv'
<1>1. /\ owner[s].at = "answered" /\ client[s].conn
      /\ client' = [client EXCEPT ![s].isConnecting = FALSE]
      /\ owner' = [owner EXCEPT ![s].at = "open"]
      /\ UNCHANGED <<mClients, closer, early, stack, ndefHandler>>
  BY DEF Connected
<1>2. owner \in Owners /\ client \in [Sockets -> Clients]
  BY DEF Inv, Types
<1>3. /\ owner' \in Owners
      /\ \A t \in Sockets : owner'[t].at = (IF t = s THEN "open" ELSE owner[t].at)
                            /\ owner'[t].sent = owner[t].sent
  BY <1>1, <1>2, Ats DEF Owners
<1>4. /\ client' \in [Sockets -> Clients]
      /\ client'[s].reg = client[s].reg /\ client'[s].conn = client[s].conn
      /\ ~client'[s].isConnecting
      /\ \A t \in Sockets : t # s => client'[t] = client[t]
  BY <1>1, <1>2 DEF Clients
<1>5. Table' = Table
  BY <1>1 DEF Table
<1>6. Types'
  BY <1>1, <1>3, <1>4 DEF Inv, Types
<1>7. Alone'
  BY <1>1, <1>3 DEF Inv, Alone, Creating
<1>8. ASSUME NEW t \in Sockets PROVE Fits(t)'
  <2>1. Fits(t)
    BY DEF Inv
  <2>2. CASE t = s
    BY <1>1, <1>3, <1>4, <1>5, <2>1, <2>2 DEF Fits
  <2>3. CASE t # s
    BY <1>1, <1>3, <1>4, <1>5, <2>1, <2>3 DEF Fits
  <2> QED
    BY <2>2, <2>3
<1> QED
  BY <1>6, <1>7, <1>8 DEF Inv

LEMMA ConnectHasFailed ==
    ASSUME Inv, NEW s \in Sockets, ConnectFails(s)
    PROVE  Inv'
<1>1. /\ owner[s].at = "refused" \/ (owner[s].at = "answered" /\ ~client[s].conn)
      /\ mClients' = Removed(s) /\ stack' = Withdrawn(stack, s)
      /\ owner' = [owner EXCEPT ![s].at = "failed"]
      /\ UNCHANGED <<client, closer, early, ndefHandler>>
  BY DEF ConnectFails
<1>2. owner \in Owners /\ Fits(s)
  BY DEF Inv, Types
<1>3. /\ owner' \in Owners
      /\ \A t \in Sockets : owner'[t].at = (IF t = s THEN "failed" ELSE owner[t].at)
                            /\ owner'[t].sent = owner[t].sent
  BY <1>1, <1>2, Ats DEF Owners
<1>4. mClients' \in [Slots -> Sockets \cup {Null}] /\ Table' = Table \ {s}
  BY <1>1, TableRemoved DEF Inv
<1>5. /\ stack' \in Stacks /\ stack'.on = stack.on /\ stack'.asked = stack.asked
      /\ stack'.regs = IF s \in Table THEN stack.regs \ {client[s].reg} ELSE stack.regs
      /\ \A t \in Sockets :
           stack'.conn[t] = IF s \in Table /\ t = client[s].reg THEN "none" ELSE stack.conn[t]
  BY <1>1, StackWithdraws
<1>6. Types'
  BY <1>1, <1>3, <1>4, <1>5 DEF Inv, Types
<1>7. Alone'
  BY <1>1, <1>3, <1>5 DEF Inv, Alone, Creating
<1>8. ASSUME NEW t \in Sockets PROVE Fits(t)'
  <2>1. Fits(t)
    BY DEF Inv
  <2>2. CASE t = s
    BY <1>1, <1>3, <1>4, <1>5, <2>1, <2>2 DEF Fits
  <2>3. CASE t # s
    <3>1. t # client[s].reg
      BY <1>2, <2>3, ClientAssumption DEF Fits
    <3> QED
      BY <1>1, <1>3, <1>4, <1>5, <2>1, <2>3, <3>1 DEF Fits
  <2> QED
    BY <2>2, <2>3
<1> QED
  BY <1>6, <1>7, <1>8 DEF Inv

LEMMA HasSent ==
    ASSUME Inv, NEW s \in Sockets, Sends(s)
    PROVE  Inv'
<1> DEFINE next == [at |-> Tries(s), sent |-> owner[s].sent + (IF Tries(s) = "open" THEN 1 ELSE 0)]
<1>1. /\ owner[s].at = "retry" \/ (owner[s].at = "open" /\ owner[s].sent < MaxSends)
      /\ owner' = [owner EXCEPT ![s] = next]
      /\ UNCHANGED <<mClients, client, closer, early, stack, ndefHandler>>
  BY DEF Sends
<1>2. owner \in Owners /\ Fits(s) /\ MaxSends \in Nat
  BY ClientAssumption DEF Inv, Types
<1>3. Tries(s) \in {"failed", "congested", "open"}
  BY DEF Tries
<1>4. owner[s].sent \in Nat /\ owner[s].sent < MaxSends
  BY <1>1, <1>2 DEF Fits, Owners
<1>5. /\ next \in [at : At, sent : 0 .. MaxSends] /\ next.at = Tries(s)
      /\ next.at = "congested" => next.sent < MaxSends
  BY <1>2, <1>3, <1>4, Ats
<1> HIDE DEF next
<1>6. /\ owner' \in Owners /\ owner'[s] = next
      /\ \A t \in Sockets : t # s => owner'[t] = owner[t]
  BY <1>1, <1>2, <1>5 DEF Owners
<1>7. Table' = Table
  BY <1>1 DEF Table
<1>8. Types'
  BY <1>1, <1>6 DEF Inv, Types
<1>9. Alone'
  BY <1>1, <1>3, <1>5, <1>6 DEF Inv, Alone, Creating
<1>10. ASSUME NEW t \in Sockets PROVE Fits(t)'
  <2>1. Fits(t)
    BY DEF Inv
  <2>2. CASE t = s
    BY <1>1, <1>3, <1>5, <1>6, <1>7, <2>1, <2>2 DEF Fits
  <2>3. CASE t # s
    BY <1>1, <1>6, <1>7, <2>1, <2>3 DEF Fits
  <2> QED
    BY <2>2, <2>3
<1> QED
  BY <1>8, <1>9, <1>10 DEF Inv

-----------------------------------------------------------------------------
(* The thread that closes it. *)

LEMMA ClosesConnecting ==
    ASSUME Inv, NEW s \in Sockets, CloseConnecting(s)
    PROVE  Inv'
<1>1. /\ s \in Table /\ client[s].isConnecting
      /\ owner[s].at \notin {"new", "slot", "registering", "woken"}
      /\ owner' = Notify(owner, s, "connecting", "answered")
      /\ closer' = [closer EXCEPT ![s] = "closed"]
      /\ early' = IF client[s].conn THEN early \cup {s} ELSE early
      /\ UNCHANGED <<mClients, client, stack, ndefHandler>>
  BY DEF CloseConnecting
<1>2. owner \in Owners /\ closer \in Closers /\ early \subseteq Sockets /\ Fits(s)
  BY DEF Inv, Types
<1>3. /\ owner' \in Owners
      /\ \A t \in Sockets :
           /\ owner'[t].at = IF t = s /\ owner[t].at = "connecting" THEN "answered" ELSE owner[t].at
           /\ owner'[t].sent = owner[t].sent
  <2>1. s \in Sockets \cup {Null} /\ "connecting" \in At /\ "answered" \in At
    BY Ats
  <2> QED
    BY <1>1, <1>2, <2>1, Notified
<1>4. /\ closer' \in Closers
      /\ \A t \in Sockets : closer'[t] = IF t = s THEN "closed" ELSE closer[t]
  BY <1>1, <1>2 DEF Closers
<1>5. Table' = Table
  BY <1>1 DEF Table
<1>6. Types'
  BY <1>1, <1>2, <1>3, <1>4 DEF Inv, Types
<1>7. Alone'
  BY <1>1, <1>3 DEF Inv, Alone, Creating
<1>8. ASSUME NEW t \in Sockets PROVE Fits(t)'
  <2>1. Fits(t)
    BY DEF Inv
  <2>2. CASE t = s
    BY <1>1, <1>3, <1>4, <1>5, <2>1, <2>2 DEF Fits
  <2>3. CASE t # s
    BY <1>1, <1>3, <1>4, <1>5, <2>1, <2>3 DEF Fits
  <2> QED
    BY <2>2, <2>3
<1> QED
  BY <1>6, <1>7, <1>8 DEF Inv

LEMMA Closes ==
    ASSUME Inv, NEW s \in Sockets, Close(s)
    PROVE  Inv'
<1>1. /\ s \in Table /\ ~client[s].isConnecting
      /\ owner[s].at \notin {"new", "slot", "registering", "woken"}
      /\ owner' = Notify(owner, s, "congested", "retry")
      /\ closer' = [closer EXCEPT ![s] = "notified"]
      /\ early' = early
      /\ UNCHANGED <<mClients, client, stack, ndefHandler>>
  BY DEF Close
<1>2. owner \in Owners /\ closer \in Closers /\ early \subseteq Sockets /\ Fits(s)
  BY DEF Inv, Types
<1>3. /\ owner' \in Owners
      /\ \A t \in Sockets :
           /\ owner'[t].at = IF t = s /\ owner[t].at = "congested" THEN "retry" ELSE owner[t].at
           /\ owner'[t].sent = owner[t].sent
  <2>1. s \in Sockets \cup {Null} /\ "congested" \in At /\ "retry" \in At
    BY Ats
  <2> QED
    BY <1>1, <1>2, <2>1, Notified
<1>4. /\ closer' \in Closers
      /\ \A t \in Sockets : closer'[t] = IF t = s THEN "notified" ELSE closer[t]
  BY <1>1, <1>2 DEF Closers
<1>5. Table' = Table
  BY <1>1 DEF Table
<1>6. Types'
  BY <1>1, <1>2, <1>3, <1>4 DEF Inv, Types
<1>7. Alone'
  BY <1>1, <1>3 DEF Inv, Alone, Creating
<1>8. ASSUME NEW t \in Sockets PROVE Fits(t)'
  <2>1. Fits(t)
    BY DEF Inv
  <2>2. CASE t = s
    BY <1>1, <1>3, <1>4, <1>5, <2>1, <2>2 DEF Fits
  <2>3. CASE t # s
    BY <1>1, <1>3, <1>4, <1>5, <2>1, <2>3 DEF Fits
  <2> QED
    BY <2>2, <2>3
<1> QED
  BY <1>6, <1>7, <1>8 DEF Inv

LEMMA ClosesNothing ==
    ASSUME Inv, NEW s \in Sockets, CloseNothing(s)
    PROVE  Inv'
<1>1. /\ s \notin Table /\ owner[s].at \notin {"new", "slot", "registering", "woken"}
      /\ closer' = [closer EXCEPT ![s] = "closed"]
      /\ UNCHANGED <<mClients, client, owner, early, stack, ndefHandler>>
  BY DEF CloseNothing
<1>2. closer \in Closers
  BY DEF Inv, Types
<1>3. /\ closer' \in Closers
      /\ \A t \in Sockets : closer'[t] = IF t = s THEN "closed" ELSE closer[t]
  BY <1>1, <1>2 DEF Closers
<1>4. Table' = Table
  BY <1>1 DEF Table
<1>5. Types'
  BY <1>1, <1>3 DEF Inv, Types
<1>6. Alone'
  BY <1>1 DEF Inv, Alone
<1>7. ASSUME NEW t \in Sockets PROVE Fits(t)'
  <2>1. Fits(t)
    BY DEF Inv
  <2> QED
    BY <1>1, <1>3, <1>4, <2>1 DEF Fits
<1> QED
  BY <1>5, <1>6, <1>7 DEF Inv

LEMMA HasDisconnected ==
    ASSUME Inv, NEW s \in Sockets, Disconnects(s)
    PROVE  Inv'
<1> DEFINE live == client[s].conn /\ stack.conn[client[s].reg] = "up"
           c == IF live THEN "disconnecting" ELSE "remove"
<1>1. /\ closer[s] = "notified" /\ closer' = [closer EXCEPT ![s] = c]
      /\ stack' = IF live THEN [stack EXCEPT !.conn[client[s].reg] = "closing"] ELSE stack
      /\ UNCHANGED <<mClients, client, owner, early, ndefHandler>>
  BY DEF Disconnects
<1>2. closer \in Closers /\ stack \in Stacks /\ Fits(s)
  BY DEF Inv, Types
<1>3. c \in {"disconnecting", "remove"}
  OBVIOUS
<1> HIDE DEF c
<1>4. /\ closer' \in Closers
      /\ \A t \in Sockets : closer'[t] = IF t = s THEN c ELSE closer[t]
  BY <1>1, <1>2, <1>3 DEF Closers
<1>5. /\ stack' \in Stacks /\ stack'.on = stack.on /\ stack'.regs = stack.regs
      /\ stack'.asked = stack.asked
      /\ \A t \in Sockets : \/ stack'.conn[t] = stack.conn[t]
                            \/ stack.conn[t] = "up" /\ stack'.conn[t] = "closing"
  <2>1. CASE live /\ client[s].reg = s
    BY <1>1, <1>2, <2>1, ConnectionChanges DEF Conns
  <2>2. CASE ~live
    BY <1>1, <1>2, <2>2
  <2>3. CASE live /\ client[s].reg # s
    <3>1. client[s].reg = Null
      BY <1>2, <2>3 DEF Fits
    <3>2. stack' = [stack EXCEPT !.conn[Null] = "closing"]
      BY <1>1, <2>3, <3>1
    <3>3. [stack.conn EXCEPT ![Null] = "closing"] = stack.conn
      BY <1>2, ClientAssumption DEF Stacks
    <3> QED
      BY <1>2, <3>2, <3>3 DEF Stacks
  <2> QED
    BY <2>1, <2>2, <2>3
<1> HIDE DEF live
<1>6. Table' = Table
  BY <1>1 DEF Table
<1>7. Types'
  BY <1>1, <1>4, <1>5 DEF Inv, Types
<1>8. Alone'
  BY <1>1, <1>5 DEF Inv, Alone
<1>9. ASSUME NEW t \in Sockets PROVE Fits(t)'
  <2>1. Fits(t)
    BY DEF Inv
  <2> QED
    BY <1>1, <1>3, <1>4, <1>5, <1>6, <2>1 DEF Fits
<1> QED
  BY <1>7, <1>8, <1>9 DEF Inv

LEMMA HasRemoved ==
    ASSUME Inv, NEW s \in Sockets, Removes(s)
    PROVE  Inv'
<1>1. /\ closer[s] = "remove" /\ closer' = [closer EXCEPT ![s] = "closed"]
      /\ mClients' = Removed(s) /\ stack' = Withdrawn(stack, s)
      /\ UNCHANGED <<client, owner, early, ndefHandler>>
  BY DEF Removes
<1>2. closer \in Closers /\ Fits(s)
  BY DEF Inv, Types
<1>3. /\ closer' \in Closers
      /\ \A t \in Sockets : closer'[t] = IF t = s THEN "closed" ELSE closer[t]
  BY <1>1, <1>2 DEF Closers
<1>4. mClients' \in [Slots -> Sockets \cup {Null}] /\ Table' = Table \ {s}
  BY <1>1, TableRemoved DEF Inv
<1>5. /\ stack' \in Stacks /\ stack'.on = stack.on /\ stack'.asked = stack.asked
      /\ stack'.regs = IF s \in Table THEN stack.regs \ {client[s].reg} ELSE stack.regs
      /\ \A t \in Sockets :
           stack'.conn[t] = IF s \in Table /\ t = client[s].reg THEN "none" ELSE stack.conn[t]
  BY <1>1, StackWithdraws
<1>6. Types'
  BY <1>1, <1>3, <1>4, <1>5 DEF Inv, Types
<1>7. Alone'
  BY <1>1, <1>5 DEF Inv, Alone
<1>8. ASSUME NEW t \in Sockets PROVE Fits(t)'
  <2>1. Fits(t)
    BY DEF Inv
  <2>2. CASE t = s
    BY <1>1, <1>3, <1>4, <1>5, <2>1, <2>2 DEF Fits
  <2>3. CASE t # s
    <3>1. t # client[s].reg
      BY <1>2, <2>3, ClientAssumption DEF Fits
    <3> QED
      BY <1>1, <1>3, <1>4, <1>5, <2>1, <2>3, <3>1 DEF Fits
  <2> QED
    BY <2>2, <2>3
<1> QED
  BY <1>6, <1>7, <1>8 DEF Inv

-----------------------------------------------------------------------------
(* The events of the stack, the link and NFC's switch. *)

LEMMA ClientIsRegistered ==
    ASSUME Inv, RegClient
    PROVE  Inv'
<1> DEFINE s == FindClient(Null)
<1>1. PICK r \in Sockets : owner[r].at = "registering" /\ stack.asked = <<r>>
  BY DEF RegClient, Inv, Alone, Fits
<1>2. r \in Table /\ client[r].reg = Null /\ stack.on
  BY <1>1 DEF Inv, Fits
<1>3. \A t \in Table : client[t].reg = Null => t = r
  BY <1>1, TableIsOfSockets DEF Inv, Alone, Creating, Fits
<1>4. s = r
  BY <1>2, <1>3, ClientFound, ClientAssumption DEF Inv, Table
<1>5. r # Null
  BY ClientAssumption
<1>6. Head(stack.asked) = r /\ Tail(stack.asked) = <<>>
  BY <1>1
<1>7. PICK h \in {r, Null} :
        /\ stack' = [stack EXCEPT !.asked = Tail(@), !.regs = @ \cup ({h} \ {Null})]
        /\ client' = [client EXCEPT ![r].reg = h]
        /\ owner' = Notify(owner, r, "registering", "woken")
        /\ UNCHANGED <<mClients, closer, early, ndefHandler>>
  BY <1>4, <1>5, <1>6 DEF RegClient
<1> DEFINE given == {h} \ {Null}
<1>8. owner \in Owners /\ stack \in Stacks /\ client \in [Sockets -> Clients]
  BY DEF Inv, Types
<1>9. /\ stack' \in Stacks /\ stack'.asked = <<>> /\ stack'.on = stack.on
      /\ stack'.regs = stack.regs \cup given /\ stack'.conn = stack.conn
  <2>1. stack' = [stack EXCEPT !.asked = <<>>, !.regs = @ \cup given]
    BY <1>7, <1>6
  <2>2. stack.regs \cup given \in SUBSET Sockets /\ <<>> \in Seq(Sockets)
    BY <1>8 DEF Stacks
  <2> QED
    BY <1>8, <2>1, <2>2 DEF Stacks
<1>10. /\ client' \in [Sockets -> Clients] /\ client'[r].reg = h
       /\ client'[r].conn = client[r].conn /\ client'[r].isConnecting = client[r].isConnecting
       /\ \A t \in Sockets : t # r => client'[t] = client[t]
  BY <1>7, <1>6, <1>8 DEF Clients
<1>11. /\ owner' \in Owners
       /\ \A t \in Sockets :
            /\ owner'[t].at = IF t = r THEN "woken" ELSE owner[t].at
            /\ owner'[t].sent = owner[t].sent
  <2>1. r \in Sockets \cup {Null} /\ "registering" \in At /\ "woken" \in At
    BY Ats
  <2> QED
    BY <1>1, <1>7, <1>8, <2>1, Notified
<1>12. Table' = Table
  BY <1>7 DEF Table
<1>13. Types'
  BY <1>7, <1>9, <1>10, <1>11 DEF Inv, Types
<1>14. Alone'
  BY <1>1, <1>9, <1>11 DEF Inv, Alone, Creating
<1>15. ASSUME NEW t \in Sockets PROVE Fits(t)'
  <2>1. Fits(t)
    BY DEF Inv
  <2>2. CASE t = r
    BY <1>1, <1>2, <1>5, <1>7, <1>9, <1>10, <1>11, <1>12, <2>1, <2>2 DEF Fits
  <2>3. CASE t # r
    <3>1. owner[t].at # "registering"
      BY <1>1, <2>3 DEF Inv, Alone, Creating
    <3> QED
      BY <1>7, <1>9, <1>10, <1>11, <1>12, <2>1, <2>3, <3>1 DEF Fits
  <2> QED
    BY <2>2, <2>3
<1> QED
  BY <1>13, <1>14, <1>15 DEF Inv

LEMMA IsConnected ==
    ASSUME Inv, NEW r \in Sockets, ConnectedEvt(r)
    PROVE  Inv'
<1>1. stack.conn[r] = "asked" /\ Fits(r)
  BY DEF ConnectedEvt, Inv
<1>2. r \in stack.regs /\ r \in Table /\ client[r].reg = r
  BY <1>1 DEF Fits
<1>3. FindClient(r) = r /\ r # Null
  BY <1>2, OwnClientFound, ClientAssumption
<1>4. /\ stack' = [stack EXCEPT !.conn[r] = "up"] /\ client' = [client EXCEPT ![r].conn = TRUE]
      /\ owner' = Notify(owner, r, "connecting", "answered")
      /\ early' = IF closer[r] = "closed" THEN early \cup {r} ELSE early
      /\ UNCHANGED <<mClients, closer, ndefHandler>>
  BY <1>3 DEF ConnectedEvt
<1>5. owner \in Owners /\ stack \in Stacks /\ client \in [Sockets -> Clients] /\ early \subseteq Sockets
  BY DEF Inv, Types
<1>6. /\ stack' \in Stacks /\ stack'.on = stack.on /\ stack'.regs = stack.regs
      /\ stack'.asked = stack.asked
      /\ \A t \in Sockets : stack'.conn[t] = IF t = r THEN "up" ELSE stack.conn[t]
  BY <1>4, <1>5, ConnectionChanges DEF Conns
<1>7. /\ client' \in [Sockets -> Clients] /\ client'[r].reg = r /\ client'[r].conn
      /\ client'[r].isConnecting = client[r].isConnecting
      /\ \A t \in Sockets : t # r => client'[t] = client[t]
  BY <1>2, <1>4, <1>5 DEF Clients
<1>8. /\ owner' \in Owners
      /\ \A t \in Sockets :
           /\ owner'[t].at = IF t = r /\ owner[t].at = "connecting" THEN "answered" ELSE owner[t].at
           /\ owner'[t].sent = owner[t].sent
  <2>1. r \in Sockets \cup {Null} /\ "connecting" \in At /\ "answered" \in At
    BY Ats
  <2> QED
    BY <1>4, <1>5, <2>1, Notified
<1>9. Table' = Table
  BY <1>4 DEF Table
<1>10. Types'
  BY <1>4, <1>5, <1>6, <1>7, <1>8 DEF Inv, Types
<1>11. Alone'
  BY <1>6, <1>8 DEF Inv, Alone, Creating
<1>12. ASSUME NEW t \in Sockets PROVE Fits(t)'
  <2>1. Fits(t)
    BY DEF Inv
  <2>2. CASE t = r
    BY <1>1, <1>2, <1>4, <1>6, <1>7, <1>8, <1>9, <2>2 DEF Fits
  <2>3. CASE t # r
    BY <1>4, <1>6, <1>7, <1>8, <1>9, <2>1, <2>3 DEF Fits
  <2> QED
    BY <2>2, <2>3
<1> QED
  BY <1>10, <1>11, <1>12 DEF Inv

LEMMA IsRefused ==
    ASSUME Inv, NEW r \in Sockets, RefusedEvt(r)
    PROVE  Inv'
<1>1. stack.conn[r] = "asked" /\ Fits(r)
  BY DEF RefusedEvt, Inv
<1>2. FindClient(r) = r
  BY <1>1, OwnClientFound DEF Fits
<1>3. /\ stack' = [stack EXCEPT !.conn[r] = "none"]
      /\ owner' = Notify(owner, r, "connecting", "answered")
      /\ UNCHANGED <<mClients, client, closer, early, ndefHandler>>
  BY <1>2 DEF RefusedEvt
<1>4. owner \in Owners /\ stack \in Stacks
  BY DEF Inv, Types
<1>5. /\ stack' \in Stacks /\ stack'.on = stack.on /\ stack'.regs = stack.regs
      /\ stack'.asked = stack.asked
      /\ \A t \in Sockets : stack'.conn[t] = IF t = r THEN "none" ELSE stack.conn[t]
  BY <1>3, <1>4, ConnectionChanges DEF Conns
<1>6. /\ owner' \in Owners
      /\ \A t \in Sockets :
           /\ owner'[t].at = IF t = r /\ owner[t].at = "connecting" THEN "answered" ELSE owner[t].at
           /\ owner'[t].sent = owner[t].sent
  <2>1. r \in Sockets \cup {Null} /\ "connecting" \in At /\ "answered" \in At
    BY Ats
  <2> QED
    BY <1>3, <1>4, <2>1, Notified
<1>7. Table' = Table
  BY <1>3 DEF Table
<1>8. Types'
  BY <1>3, <1>5, <1>6 DEF Inv, Types
<1>9. Alone'
  BY <1>5, <1>6 DEF Inv, Alone, Creating
<1>10. ASSUME NEW t \in Sockets PROVE Fits(t)'
  <2>1. Fits(t)
    BY DEF Inv
  <2>2. CASE t = r
    BY <1>1, <1>3, <1>5, <1>6, <1>7, <2>2 DEF Fits
  <2>3. CASE t # r
    BY <1>3, <1>5, <1>6, <1>7, <2>1, <2>3 DEF Fits
  <2> QED
    BY <2>2, <2>3
<1> QED
  BY <1>8, <1>9, <1>10 DEF Inv

LEMMA ConnectionEnds ==
    ASSUME Inv, NEW r \in Sockets, DiscEvt(r)
    PROVE  Inv'
<1>1. stack.conn[r] \in {"up", "closing"} /\ Fits(r)
  BY DEF DiscEvt, Inv
<1>2. r \in Table /\ client[r].conn /\ client[r].reg = r
  BY <1>1 DEF Fits
<1>3. \A t \in Sockets : t \in FindConnection(r) <=> t = r
  <2>1. \A t \in Sockets : client[t].reg \in {Null, t}
    BY DEF Inv, Fits
  <2> QED
    BY <1>2, <2>1, ClientAssumption DEF FindConnection
<1>4. /\ stack' = [stack EXCEPT !.conn[r] = "none"]
      /\ client' = [t \in Sockets |-> IF t = r THEN [client[t] EXCEPT !.conn = FALSE] ELSE client[t]]
      /\ closer' = [t \in Sockets |-> IF t = r /\ closer[t] = "disconnecting"
                                      THEN "remove" ELSE closer[t]]
      /\ owner' = [t \in Sockets |-> IF t = r /\ owner[t].at = "congested"
                                     THEN [owner[t] EXCEPT !.at = "retry"] ELSE owner[t]]
      /\ UNCHANGED <<mClients, early, ndefHandler>>
  BY <1>3 DEF DiscEvt
<1>5. /\ owner \in Owners /\ stack \in Stacks /\ client \in [Sockets -> Clients]
      /\ closer \in Closers
  BY DEF Inv, Types
<1>6. /\ stack' \in Stacks /\ stack'.on = stack.on /\ stack'.regs = stack.regs
      /\ stack'.asked = stack.asked
      /\ \A t \in Sockets : stack'.conn[t] = IF t = r THEN "none" ELSE stack.conn[t]
  BY <1>4, <1>5, ConnectionChanges DEF Conns
<1>7. /\ client' \in [Sockets -> Clients] /\ client'[r].reg = r /\ ~client'[r].conn
      /\ client'[r].isConnecting = client[r].isConnecting
      /\ \A t \in Sockets : t # r => client'[t] = client[t]
  BY <1>2, <1>4, <1>5 DEF Clients
<1>8. /\ owner' \in Owners
      /\ \A t \in Sockets :
           /\ owner'[t].at = IF t = r /\ owner[t].at = "congested" THEN "retry" ELSE owner[t].at
           /\ owner'[t].sent = owner[t].sent
  BY <1>4, <1>5, Ats DEF Owners
<1>9. /\ closer' \in Closers
      /\ \A t \in Sockets : closer'[t] = IF t = r /\ closer[t] = "disconnecting"
                                         THEN "remove" ELSE closer[t]
  BY <1>4, <1>5 DEF Closers
<1>10. Table' = Table
  BY <1>4 DEF Table
<1>11. Types'
  BY <1>4, <1>6, <1>7, <1>8, <1>9 DEF Inv, Types
<1>12. Alone'
  BY <1>6, <1>8 DEF Inv, Alone, Creating
<1>13. ASSUME NEW t \in Sockets PROVE Fits(t)'
  <2>1. Fits(t)
    BY DEF Inv
  <2>2. CASE t = r
    BY <1>1, <1>2, <1>4, <1>6, <1>7, <1>8, <1>9, <1>10, <2>2 DEF Fits
  <2>3. CASE t # r
    BY <1>4, <1>6, <1>7, <1>8, <1>9, <1>10, <2>1, <2>3 DEF Fits
  <2> QED
    BY <2>2, <2>3
<1> QED
  BY <1>11, <1>12, <1>13 DEF Inv

\* A stack whose link changes, and threads that are woken from a congestion.
LEMMA LinkChanges ==
    ASSUME Inv, UNCHANGED <<mClients, client, closer, early>>, ndefHandler' \in BOOLEAN,
           stack' \in Stacks, stack'.on = stack.on, stack'.regs = stack.regs,
           stack'.asked = stack.asked, stack'.conn = stack.conn, owner' \in Owners,
           \A t \in Sockets :
             /\ owner[t].at # "congested" \/ owner'[t].at # "retry" => owner'[t].at = owner[t].at
             /\ owner'[t].sent = owner[t].sent
    PROVE  Inv'
<1>1. Table' = Table
  BY DEF Table
<1>2. Types'
  BY DEF Inv, Types
<1>3. Alone'
  BY DEF Inv, Alone, Creating
<1>4. ASSUME NEW t \in Sockets PROVE Fits(t)'
  <2>1. Fits(t)
    BY DEF Inv
  <2> QED
    BY <1>1, <2>1 DEF Fits
<1> QED
  BY <1>2, <1>3, <1>4 DEF Inv

LEMMA CongestionEnds == ASSUME Inv, CongestEvt PROVE Inv'
<1>1. owner \in Owners /\ stack \in Stacks /\ ndefHandler \in BOOLEAN
  BY DEF Inv, Types
<1>2. /\ stack' = [stack EXCEPT !.congested = FALSE]
      /\ owner' = [s \in Sockets |-> IF s \in Table /\ client[s].conn /\ owner[s].at = "congested"
                                     THEN [owner[s] EXCEPT !.at = "retry"] ELSE owner[s]]
      /\ UNCHANGED <<mClients, client, closer, early, ndefHandler>>
  BY DEF CongestEvt
<1>3. /\ owner' \in Owners
      /\ \A t \in Sockets :
           /\ owner[t].at # "congested" \/ owner'[t].at # "retry" => owner'[t].at = owner[t].at
           /\ owner'[t].sent = owner[t].sent
  <2>1. \A t \in Sockets : owner'[t] \in {owner[t], [owner[t] EXCEPT !.at = "retry"]}
    BY <1>2
  <2>2. \A t \in Sockets : owner'[t] # owner[t] => owner[t].at = "congested"
    BY <1>2
  <2>3. \A t \in Sockets : [owner[t] EXCEPT !.at = "retry"] \in [at : At, sent : 0 .. MaxSends]
    BY <1>1, Ats DEF Owners
  <2>4. owner' \in Owners
    BY <1>1, <1>2, <2>1, <2>3 DEF Owners
  <2>5. ASSUME NEW t \in Sockets
        PROVE  /\ owner[t].at # "congested" \/ owner'[t].at # "retry" => owner'[t].at = owner[t].at
               /\ owner'[t].sent = owner[t].sent
    <3>1. owner[t] \in [at : At, sent : 0 .. MaxSends]
      BY <1>1 DEF Owners
    <3>2. CASE owner'[t] = owner[t]
      BY <3>2
    <3>3. CASE owner'[t] = [owner[t] EXCEPT !.at = "retry"] /\ owner'[t] # owner[t]
      BY <2>2, <3>1, <3>3
    <3> QED
      BY <2>1, <3>2, <3>3
  <2> QED
    BY <2>4, <2>5
<1>4. /\ stack' \in Stacks /\ stack'.on = stack.on /\ stack'.regs = stack.regs
      /\ stack'.asked = stack.asked /\ stack'.conn = stack.conn
  BY <1>1, <1>2 DEF Stacks
<1> QED
  BY <1>1, <1>2, <1>3, <1>4, LinkChanges

LEMMA LinkComesAndGoes ==
    ASSUME Inv, Congests \/ LlcpActivated \/ LlcpDeactivated
    PROVE  Inv'
<1>1. owner \in Owners /\ stack \in Stacks /\ ndefHandler \in BOOLEAN
  BY DEF Inv, Types
<1>2. UNCHANGED <<mClients, client, owner, closer, early>> /\ ndefHandler' \in BOOLEAN
  BY <1>1 DEF Congests, LlcpActivated, LlcpDeactivated
<1>3. /\ stack' \in Stacks /\ stack'.on = stack.on /\ stack'.regs = stack.regs
      /\ stack'.asked = stack.asked /\ stack'.conn = stack.conn
  <2>1. CASE LlcpDeactivated
    <3>1. stack.breaks \in 0 .. MaxBreaks /\ stack.breaks < MaxBreaks
      BY <1>1, <2>1 DEF LlcpDeactivated, Stacks
    <3>2. stack.breaks + 1 \in 0 .. MaxBreaks
      BY <3>1, ClientAssumption
    <3> QED
      BY <1>1, <2>1, <3>2 DEF LlcpDeactivated, Stacks
  <2>2. CASE LlcpActivated
    BY <1>1, <2>2 DEF LlcpActivated, Stacks
  <2>3. CASE Congests
    <3>1. stack.congs \in 0 .. MaxCongested /\ stack.congs < MaxCongested
      BY <1>1, <2>3 DEF Congests, Stacks
    <3>2. stack.congs + 1 \in 0 .. MaxCongested
      BY <3>1, ClientAssumption
    <3> QED
      BY <1>1, <2>3, <3>2 DEF Congests, Stacks
  <2> QED
    BY <2>1, <2>2, <2>3
<1>4. UNCHANGED <<mClients, client, closer, early>>
  BY <1>2
<1>5. owner' \in Owners
  BY <1>1, <1>2
<1>6. \A t \in Sockets :
        /\ owner[t].at # "congested" \/ owner'[t].at # "retry" => owner'[t].at = owner[t].at
        /\ owner'[t].sent = owner[t].sent
  BY <1>2
<1> QED
  BY <1>2, <1>3, <1>4, <1>5, <1>6, LinkChanges

LEMMA NfcTurnsOff == ASSUME Inv, NfcOff PROVE Inv'
<1>1. /\ owner \in Owners /\ stack \in Stacks /\ client \in [Sockets -> Clients]
  BY DEF Inv, Types
<1>2. /\ stack.asked = <<>> /\ \A t \in Sockets : stack.conn[t] = "none" /\ owner[t].at # "slot"
      /\ stack' = [stack EXCEPT !.on = FALSE, !.regs = {}]
      /\ client' = [s \in Sockets |-> IF s \in Table THEN [client[s] EXCEPT !.conn = FALSE]
                                                     ELSE client[s]]
      /\ UNCHANGED <<mClients, closer, early, ndefHandler>>
  BY DEF NfcOff
<1>3. \A t \in Sockets : owner[t].at # "registering"
  BY <1>2 DEF Inv, Fits
<1>4. \A t \in Sockets : t \in Table => ~client[t].conn
  BY <1>2 DEF Inv, Fits
<1>5. owner' = [s \in Sockets |-> IF s \in Table /\ owner[s].at = "connecting"
                                  THEN [owner[s] EXCEPT !.at = "answered"] ELSE owner[s]]
  BY <1>4 DEF NfcOff
<1>6. /\ owner' \in Owners
      /\ \A t \in Sockets :
           /\ owner'[t].at = IF t \in Table /\ owner[t].at = "connecting" THEN "answered"
                                                                         ELSE owner[t].at
           /\ owner'[t].sent = owner[t].sent
  BY <1>1, <1>5, Ats DEF Owners
<1>7. /\ client' \in [Sockets -> Clients]
      /\ \A t \in Sockets : /\ client'[t].reg = client[t].reg
                            /\ client'[t].isConnecting = client[t].isConnecting
                            /\ client'[t].conn = (client[t].conn /\ t \notin Table)
  BY <1>1, <1>2 DEF Clients
<1>8. /\ stack' \in Stacks /\ stack'.regs = {} /\ stack'.asked = stack.asked
      /\ stack'.conn = stack.conn
  BY <1>1, <1>2 DEF Stacks
<1>9. Table' = Table
  BY <1>2 DEF Table
<1>10. Types'
  BY <1>2, <1>6, <1>7, <1>8 DEF Inv, Types
<1>11. Alone'
  BY <1>2, <1>6, <1>8 DEF Inv, Alone, Creating
<1>12. ASSUME NEW t \in Sockets PROVE Fits(t)'
  <2>1. Fits(t)
    BY DEF Inv
  <2> QED
    BY <1>2, <1>3, <1>4, <1>6, <1>7, <1>8, <1>9, <2>1 DEF Fits
<1> QED
  BY <1>10, <1>11, <1>12 DEF Inv

LEMMA NfcTurnsOn == ASSUME Inv, NfcOn PROVE Inv'
<1>1. /\ ~stack.on /\ stack' = [stack EXCEPT !.on = TRUE]
      /\ mClients' = [i \in Slots |-> Null]
      /\ UNCHANGED <<client, owner, closer, early, ndefHandler>>
  BY DEF NfcOn
<1>2. stack \in Stacks
  BY DEF Inv, Types
<1>3. /\ stack' \in Stacks /\ stack'.on /\ stack'.regs = stack.regs
      /\ stack'.asked = stack.asked /\ stack'.conn = stack.conn
  BY <1>1, <1>2 DEF Stacks
<1>4. mClients' \in [Slots -> Sockets \cup {Null}] /\ Table' = {}
  BY <1>1 DEF Table
<1>5. Types'
  BY <1>1, <1>3, <1>4 DEF Inv, Types
<1>6. Alone'
  BY <1>1, <1>3 DEF Inv, Alone
<1>7. ASSUME NEW t \in Sockets PROVE Fits(t)'
  <2>1. Fits(t)
    BY DEF Inv
  <2> QED
    BY <1>1, <1>3, <1>4, <2>1 DEF Fits
<1> QED
  BY <1>5, <1>6, <1>7 DEF Inv

-----------------------------------------------------------------------------
(* The theorems. *)

LEMMA InitInv == Init => Inv
<1> SUFFICES ASSUME Init PROVE Inv
  OBVIOUS
<1>1. Table = {}
  BY DEF Init, Table
<1>2. /\ NewClient \in Clients /\ NewClient.reg = Null /\ ~NewClient.conn
      /\ ~NewClient.isConnecting
  BY DEF NewClient, Clients
<1>3. "new" \in At /\ 0 \in 0 .. MaxSends /\ 0 \in 0 .. MaxBreaks /\ 0 \in 0 .. MaxCongested
  BY ClientAssumption DEF At
<1>4. stack \in Stacks
  <2>1. <<>> \in Seq(Sockets) /\ [s \in Sockets |-> "none"] \in [Sockets -> Conns]
    BY DEF Conns
  <2> QED
    BY <1>3, <2>1 DEF Init, Stacks
<1>5. owner \in Owners /\ \A s \in Sockets : owner[s].at = "new"
  BY <1>3 DEF Init, Owners
<1>6. Types
  BY <1>2, <1>4, <1>5 DEF Init, Types, Closers
<1>7. Alone
  BY <1>5 DEF Init, Alone, Creating
<1>8. \A s \in Sockets : Fits(s)
  BY <1>1, <1>2, <1>5 DEF Init, Fits
<1> QED
  BY <1>6, <1>7, <1>8 DEF Inv

LEMMA NextInv == Serial => (Inv /\ [Next]_vars => Inv')
<1> SUFFICES ASSUME Serial, Inv, [Next]_vars PROVE Inv'
  OBVIOUS
<1>1. ASSUME NEW s \in Sockets, OwnerStep(s) PROVE Inv'
  BY <1>1, CreatesClient, RegistersClient, HasRegistered, ConnectsClient, HasNoClient,
     HasConnected, ConnectHasFailed, HasSent, HasNoConnection DEF OwnerStep
<1>2. ASSUME NEW s \in Sockets, CloserStep(s) PROVE Inv'
  BY <1>2, ClosesConnecting, Closes, ClosesNothing, HasDisconnected, HasRemoved DEF CloserStep
<1>3. ASSUME NEW s \in Sockets, Event(s) PROVE Inv'
  BY <1>3, IsConnected, IsRefused, ConnectionEnds DEF Event
<1>4. CASE UNCHANGED vars
  <2>1. Table' = Table
    BY <1>4 DEF vars, Table
  <2>2. Types' /\ Alone'
    BY <1>4 DEF vars, Inv, Types, Alone
  <2>3. ASSUME NEW s \in Sockets PROVE Fits(s)'
    BY <1>4, <2>1 DEF vars, Inv, Fits
  <2> QED
    BY <2>2, <2>3 DEF Inv
<1> QED
  BY <1>1, <1>2, <1>3, <1>4, ClientIsRegistered, CongestionEnds, LinkComesAndGoes, NfcTurnsOff,
     NfcTurnsOn DEF Next

LEMMA InvHolds == ASSUME Serial PROVE Spec => []Inv
<1>1. Init => Inv
  BY InitInv
<1>2. Inv /\ [Next]_vars => Inv'
  BY NextInv
<1> QED
  BY <1>1, <1>2, PTL DEF Spec

\* As long as sockets are created one after the other, which is when the event that
\* names no client finds the right one, the table of clients, the threads and the NFA
\* stack fit together at every step.
THEOREM Invariance == ASSUME Serial PROVE Spec => []IndInv
<1>1. Inv => IndInv
  BY IndInvParts
<1> QED
  BY <1>1, InvHolds, PTL

\* The variables keep their types, and no socket sends more than it was given.
THEOREM TypeCorrect == ASSUME Serial PROVE Spec => []TypeOK
<1>1. IndInv => TypeOK
  BY DEF IndInv
<1> QED
  BY <1>1, Invariance, PTL

\* A socket whose close has returned has left the NFA stack no slot, no registration and
\* no connection, once its own thread has seen to it: for any number of sockets and slots,
\* in whatever step of its connection it was closed.
THEOREM ClosedIsReleased == ASSUME Serial PROVE Spec => []ClosedSocketIsReleased
<1>1. IndInv => ClosedSocketIsReleased
  BY DEF IndInv
<1> QED
  BY <1>1, Invariance, PTL

\* The stack has no connection whose events would find no client, and no client keeps
\* the handle of a connection that is gone.
THEOREM ConnectionsAreAgreed == ASSUME Serial PROVE Spec => []ConnectionsAreKnown
<1>1. IndInv => ConnectionsAreKnown
  BY DEF IndInv
<1> QED
  BY <1>1, Invariance, PTL

=============================================================================
