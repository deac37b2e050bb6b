# NFC service: TLA+ models, model checking and proofs

This directory holds a TLA+ development of the NFC service in this repository: the Java
service (`src/com/android/nfc`), the JNI layer over the NCI stack (`nci/jni`) with its
MIFARE library, and the JNI layer over the older libnfc (`nxp/jni`). It models
the parts whose correctness depends on the order in which threads, callbacks and messages
happen, checks them with TLC on small instances, and proves the main invariants with TLAPS
for every value of the constants. Paths below are relative to the repository, and line
numbers are those of the modelled commit.

- [Inventory](#inventory): the system's parts
- [Modules](#modules): what each module models and how it maps to the code
- [Runs](#runs): what is checked, with which bounds and fairness
- [Proofs](#proofs): what is proved and how
- [Findings](#findings): where the code does not do what it says
- [Limits](#limits): what is abstracted, only model-checked, or left out
- [Plan](#plan): what comes next

## Inventory

### Components, their state and operations

| Component | State | Operations | What makes it correct |
|---|---|---|---|
| HostEmulationManager (`cardemulation/HostEmulationManager.java`) | `mState`, the queued SELECT, two service binds, the active service | activation, data, deactivation, off-host selection, connection callbacks of two binds, answers of services, preference changes | each APDU goes to the service its SELECT was resolved to; a service in session is told when it ends; a queued SELECT is sent or given up |
| P2pLinkManager (`P2pLinkManager.java`) | `mLinkState`, `mSendState`, the message, LLCP clients, ConnectTask and SendTask, two timeouts | LLCP activation, first packet, deactivation; manual beam; user confirmation or cancel; handler messages; enableDisable | what is sent is what was confirmed; clients go with the link; every waiting state has a timeout or a task that ends it |
| P2pEventManager (`P2pEventManager.java`) | `mSending`, `mNdefSent`, `mNdefReceived`, `mInDebounce`, the SendUi screen | callbacks of P2pLinkManager and of SendUi | no screen without a peer, no touch ignored |
| SNEP (`snep/`) | server thread, connection threads, fragment buffers | start, stop, accept, get, put, CONTINUE handshake | a message arrives whole or not at all; stop leaves no server behind |
| PeerToPeer (`nci/jni/PeerToPeer.cpp`) | tables of servers, clients and connection blocks; SyncEvents | register, accept, connect, send, receive, disconnect; callbacks of the stack; NFC on and off | a blocked call is unblocked by its event; blocks and handles are not confused or leaked |
| NativeNfcManager, discovery (`nci/jni/NativeNfcManager.cpp`, `NfcTag.cpp`) | what is polled for, the targets discovered, the list of technologies, four threads that wait on one event | enable and disable discovery, the stack's connection events, selection of one target after the other | the walk ends with a tag the service knows, and polling for peers only is undone |
| NativeNfcManager, card transactions (same file) | `transaction_data`, its timer and thread, screen state, discovery flags | requests of the service, field and listen events, `enableThread` | nothing reconfigures the radio under a payment; what was held is performed |
| NativeNfcTag (`nci/jni/NativeNfcTag.cpp`) | semaphores, SyncEvents and result variables of each operation | connect, reconnect, presence check, transceive, NDEF check, read, write, format, lock | each wait is answered, results belong to the operation |
| MIFARE Classic (`nci/jni/extns/pn54x/src/mifare`) | the mapping structure of an NDEF message on a card, an automaton of card commands, a timer | check, read, write, lock, format, presence check | the message is the old one or the new one; no trailer is overwritten; every operation ends |
| libnfc JNI (`nxp/jni`) | concurrency mutex, callback records, message thread, lists of sockets | initialise, download, discovery, tag, peer, LLCP and secure-element calls | an answer finds the call it belongs to, every call returns, the polling resumes |
| RegisteredAidCache, RegisteredNfcid2Cache (`cardemulation/`) | AID tables per user | rebuild, resolve by exact AID and by prefix | a lookup gives the services of the longest chain of conflicts and the right default |
| PreferredServices, CardEmulationManager (`cardemulation/`) | payment default, foreground preference | settings, screen and foreground changes, package updates | what is announced last is what is set last |
| AidRoutingManager (`cardemulation/`) | table of AIDs by route | configure routing | the table fits the controller |
| RegisteredServicesCache (`cardemulation/`) | services per user | package changes, XML | the cache follows the package manager |
| NfcService (`NfcService.java`) | service state, sessions, watchdogs | enable and disable tasks, polling, routing, binder calls | one state change at a time, watchdogs stopped |
| NfcDispatcher, NfcUnlockManager, RegisteredComponentCache | foreground overrides, unlock handlers | intent dispatch | priority of handlers |
| Beam and handover (`beam/`, `handover/`) | transfers by Bluetooth address | start, progress, cancel | one transfer per device |
| NPP and echo servers (`ndefpush/`, `echoserver/`) | server threads | start, stop, accept | as SNEP's server |
| NFC-EE access control | signature tables | check | table lookup |
| SecureElement, RoutingManager (`nci/jni/*.cpp`) | HCI pipes, gates, routing tables | wired mode, routing commits | each wait is answered |

### How they interact

The NFC stack runs on its own thread and calls the JNI callbacks. They wake threads blocked
in SyncEvents (PeerToPeer) or call `NfcService`, which forwards host-emulation events to
HostEmulationManager on that thread, and link events to P2pLinkManager by way of its
message handler on the main thread. HostEmulationManager binds to services through the
activity manager, whose callbacks come back on the main thread, where the services' answers
arrive too; preferences reach it from CardEmulationManager on whichever thread noticed a
change. P2pLinkManager runs connects and sends in AsyncTasks, serially, and hears of the
peer's pushes from the SNEP, NPP and handover servers' threads; manual beams and
enableDisable come from binder threads or NfcService's tasks. SnepServer's threads block in
PeerToPeer's accept and receive.

A tag is found by the discovery part of NativeNfcManager, which counts notifications,
selects targets and hands a list of technologies to Java. Java then calls NativeNfcTag's
operations from the application's binder threads, one at a time, and its presence-check
watchdog between them; deactivation events wake whoever waits. For MIFARE Classic cards the
operations go on to the extension library, whose automaton issues a card command and is
called again with the answer. While a reader talks to the device as a card, calls of
NfcService that would reconfigure the radio are stored and performed by a thread afterwards.
`nxp/jni` is the same layer over the older libnfc: each call puts a record with a semaphore
on its stack, and a message thread runs the callback that posts it.

### What is hard

- *Interleaving*: two binds of one manager complete in any order; a link is lost before,
  during and after a task that works for it; a request arrives before the thread that is to
  wait for it has gone to sleep.
- *Atomicity*: answers are checked under a lock and sent outside it; `receive` reads, finds
  nothing and then waits.
- *Failure*: services die and are restarted by the platform; connects and sends fail; binds
  may be refused.
- *Timeouts and retries*: a timeout already taken by the looper cannot be removed; a second
  manual beam while the first waits; a debounce that may be followed by the same peer.
- *Lost wake-ups*: SyncEvents and semaphores are waited for without a predicate, sometimes
  several threads for one event; an event before the wait wakes nobody, and one more than
  was waited for ends the next wait.
- *Cut off operations*: a card is taken away between any two commands of a write or a format
  of many commands, and comes back.
- *Stale state*: fields that one flow leaves behind for the next.

`PROJECT.json` lists each of these at the line where it bites, with the properties that
would catch it.

## Modules

| Module | Models | Used by |
|---|---|---|
| `HostEmulation` | HostEmulationManager with the activity manager, the services and the reader as environment | `MCHostEmulation`, `HostEmulationProofs` |
| `P2pLink` | P2pLinkManager and P2pEventManager, with the link, the user, the looper and the serial executor | `MCP2pLink`, `P2pLinkProofs` |
| `LlcpServer` | SnepServer's threads and the server side of PeerToPeer, with the stack as environment | `MCLlcpServer`, `LlcpServerProofs` |
| `LlcpClient` | the client side of PeerToPeer, with the stack, the link and the switch of NFC | `MCLlcpClient`, `LlcpClientProofs` |
| `TagDiscovery` | enable and disable of discovery, the connection callback, the multiprotocol threads, NfcTag's list of technologies | `MCTagDiscovery`, `TagDiscoveryProofs` |
| `NativeTag` | NativeNfcTag's operations, the watchdog, the NFA task and the timers | `MCNativeTag`, `NativeTagProofs` |
| `CardTransaction` | the card transaction of NativeNfcManager and the requests of NfcService it holds | `MCCardTransaction`, `CardTransactionProofs` |
| `MifareMap` | phFriNfc_MifareStdMap.c: the NDEF mapping of MIFARE Classic as an automaton of operators | `MifareExtns` |
| `MifareExtns` | phNxpExtns_MifareStd.c and the calls of NativeNfcTag that use it, over `MifareMap`, with the card | `MCMifare` |
| `NdefStorage` | what the NDEF operations promise: one message, a lock, answers that are true | `MifareExtns` |
| `MifareFormat` | phFriNfc_MifStdFormat.c: the format of a whole card, with the two keys NativeNfcTag tries | `MCMifareFormat` |
| `LibNfc` | the JNI over libnfc and its message thread | `MCLibNfc`, `LibNfcProofs` |

Variables and actions carry the names of the code's fields and methods. One action is one
critical section, or the code between two points at which another thread may run; a handler
whose early returns differ is one action per way through it (`SelectForwarded`,
`SelectQueued` and the others are `onHostEmulationData`). Operators in lower case that are
not actions (`unbindServiceIfNeededLocked`) are helpers of that name. Definitions such as
`stop_KeepsSocket` or `DiscEvtSilent` are variants of the definition after them with a plausible
mistake; `PROJECT.json` lists them under "mutants". They are not part of any specification: they serve to confirm that a property
would notice the mistake.

### HostEmulation

`mState`, `mSelectApdu`, the three pairs of Messenger and name and the two bound flags are
the manager's fields. `conn` and `payConn` say how far the activity manager is with the
binds of `mConnection` and `mPaymentConnection` to each service: `none`, `pending`,
`connected` or, after the process died, `lost`. `cmds` are the commands services have to
answer, and `reply` is the answer the main thread is handling: MessageHandler's two critical
sections and the send outside them are separate actions (`handleMessageCheck`,
`handleMessageReadState`, `handleMessageSendData`), between which the stack's thread may
run. While `reply` is being handled no other main-thread action may happen.

An APDU is abstracted to what routing tells apart: a SELECT carries the service it was
resolved to, any other APDU carries nothing. AID resolution returns anything
RegisteredAidCache may return (`ResolveInfos`). A Messenger is an object and not only a
binder, because the code compares objects; `obj` keeps a new one apart from the active one.
`inSession`, `left` and `tap` are history: which service processes got an APDU and were not
told of the end, which of those were dropped silently, and the number of the tap.

### P2pLink

The UI thread runs link events, posted messages (`posted`, in order), timeouts and the
user's touches. `waitTimer` and `debounceTimer` are scheduled messages; expiry is two steps
(`WaitTimerDue`, then `WaitForLinkTimeout`) since a message the looper has taken can no
longer be removed while a binder thread holds the monitor. `tasks` is the serial executor's
queue. A task is queued, running, delivered (the peer has the message and the task has not
reported it) or done; `ref` says that the manager's field still refers to it, `open` that
its sockets are not closed. `shared`, `offered`, `failed` and `dropped` are history.

A message or a list of URIs is an element of `Content`. A handover that is refused, a send
that fails and a connect that fails are nondeterministic. SendUi is what it shows.

### LlcpServer

`thread` gives each ServerThread the place it has reached in `run` and its fields and
locals; `handler` gives each ConnectionThread its place, by the JNI handle of its socket.
`mServer`, `mJniHandle` and `mServerConn` are the P2pServer of one service; `mNfaConnHandle`
belongs to the NfaConn of a handle. `stack` and `unread` are the stack's connections and
data.

A SyncEvent has no state: `Notified` and `Roused` wake a thread that is asleep and nobody
otherwise. So there is a place between the last look at the state (`drowsy`) and the wait
(`asleep`), as in the code. PeerToPeer's mutex and SnepServer's monitor are held for a
critical section at a time, and each such section is one action.

`BlocksHaveOwners` holds for a single start of the server. After a restart a stopped
thread may take the registration of its successor when it was about to create its socket at
the time it was stopped (`CreatesSocket` does not test whether it is still running, like
the code); the successor's accept then fails without closing the server it no longer owns,
and a block it failed on may stay until the server is closed.

### LlcpClient

`mClients` is the table of slots, `client` what a P2pClient holds, `owner` and `closer` say
how far the thread that created a socket and the one that closes it have come, `stack` is
NFA's view: registrations, connections, congestion, the link. Two events may end
`createClient` and `connect`: the answer and the loss of the link; a close may come in
between. A registration may be refused by an event without a handle; `Registered` then removes
the client, while the socket lives on without one, because `nfcManager_doCreateLlcpSocket` does
not look at the result. Reception is `LlcpServer`'s. A socket that is closed in the moment its connection
is made stays open in the code, although `disconnectConnOriented` returns true (line 1034);
`early` marks it and the properties exempt it.

### TagDiscovery

`prio` counts the threads of `p2p_prio_logic_multiprotocol` at each place, `svc` is the
thread in enableDiscovery or disableDiscovery, `t3t` the one of pollT3TThread; all wait on
`sNfaEnableDisablePollingEvent`, of which `NotifyOne` wakes one. `nfa` is the stack: what it
polls for, the targets it discovered, the one that is active, and its commands and events
on the way. `tag` is NfcTag with its list of technologies. `Prompt` says that a thread that
was woken goes on before the next target answers and before a timer expires, and that the
service does not call while targets are being told apart: the timers of 300 ms and more are
long, and nothing in the code enforces it. Without it WalkEnds and AllTechnologiesAgain fail, and what is
said of the walk holds until pollT3TThread is first started (DiscoveryInv says so, and is proved so).

### NativeTag

`thr` is where the service's thread and the watchdog's are, `nt` the file-scope variables of
NativeNfcTag, `sem` its semaphores and SyncEvents, `jobs` the requests the NFA task has not
answered, `tag` and `card` the activated tag and what is in the field. The stack may refuse a
check, a read, a write, a format or a lock. Contents are
abstracted to whether an operation was acknowledged by the tag that is there.

### MifareMap, MifareExtns, NdefStorage

MifareMap is sequential: every function of phFriNfc_MifareStdMap.c is an operator from the
mapping structure to the structure it leaves, with its status and the command it issues, so
the operator of the same name can be read beside the function. Blocks have their 16 bytes
and the counters their widths, since the TLV's place within blocks is where the code is
intricate. MifareExtns gives the automaton its actions: operations, answers, a timer, a card
that is taken away between any two frames. The result of a check for which nobody waits any
more is dropped by the JNI (`Told`), but what it did to the extension's own state stays. `StorageSpec` says that the composition
implements NdefStorage: under the mapping `Message` and `Locked`, read off the bytes on the
card, each step of the code is a step of the abstract storage or changes nothing, so a write
that is cut off leaves the old message, the new one or none, and every answer is true.

### MifareFormat

Sectors have keys, access bits and what is written in them; a command with its answer is one
step. The automaton tries its keys on each sector, reads and writes trailers, records
contiguous runs of sectors in the MAD and writes an empty message. `job` is doNdefFormat,
which tries two keys.

### CardTransaction

`td` is `transaction_data`, `timer` the clean-up timer, `threads` the runs of
`enableThread`, `svc` where applyRouting is, `wish` what it last asked for, `dev` the
statics of NativeNfcManager and what the chip was told, `reader` the field and the listen
activation. A call is tested against the transaction in one step and reconfigures the radio
in another, as in the code, where the RF mutex is taken after the test. The routing table is
set inside applyRouting when it is dirty (`EndsDiscovery`, `DefaultRouteIsSet`), which ends and
begins discovery without a look at the transaction; `enableThread` reads what was stored
(`Reads`) before it ends the transaction (`Begins`). Readers, calls, threads and the switch of
NFC meet in every order. Where the code may then lose a request (`Races`: a call beside a thread
that has read, a reader or NFC off beside one at work, two of them, NFC off with a request stored)
`hist.raced` records it, and the properties that depend on it say so. `reader.alone` tells a
reader that found no thread and no timer. The chip is a PN548C2, for which the other branches are
compiled out.

### LibNfc

`th` gives each thread its call, place, callback record and locks; `jobs` are the deferred
calls libnfc posted to the message thread, `loop` that thread, `drv` the driver's state,
`tgt` the targets, `llcp` the service socket and its list. A callback carries the frame of the
record it was given; `Frame` tells the records of `nfc_jni_download_locked` from that of
`nfc_jni_initialize`, and a callback whose frame is gone reaches nobody. Two histories record what
the code does not look after: `loop.late`, a download gave up its five seconds before the stack had
stopped, so that the answer is still to come (`Stray`), and `tgt.lost`, polling is held for a target
nobody will drop, because a disconnect was answered with "not connected" or because the target
was announced to the record a secure element was opened with (`Astray`). `BadTimeouts` and `Orderly`
exclude two cases in which the code does not return or aborts (Findings).

## Runs

`tlc -config <cfg> <module>`; `PROJECT.json` names the module and the properties of each.

| Configuration | Asks | Expected |
|---|---|---|
| `HostEmulationSafety` | which service is active, named, bound and in session; does a queued SELECT end; the inductive invariant | pass |
| `P2pLinkSafety` | what is sent, for which link, with which timer, on which screen; does a beam stop waiting | pass |
| `LlcpServerSafety` | who owns registration, blocks and connections; the inductive invariant | pass |
| `LlcpClientSafety` | does a closed socket leave the stack nothing, does every call return | pass |
| `NativeTagSafety` | are waits for requests that were taken answered, is success the tag's, does every operation return | pass |
| `TagDiscoverySafety` | does the walk over the targets end with the right tag, does polling come back in full, do threads end and is none forgotten | pass |
| `CardTransactionSafety` | are requests held while a reader talks, performed afterwards, and is the device then as asked for | pass |
| `CardTransactionPeers` | does a device that may beam listen for peers? | violation |
| `MifareSafety` | does the code implement `NdefStorage`; does a check agree with the card; do checks and writes end | pass |
| `MifareFormatSafety` | is a formatted card an NDEF card, does a card as delivered succeed, does every format end | pass |
| `MifareFormatOverrun` | does a format clear sectors within its array? | violation |
| `LibNfcSafety` | do answers find their call, do calls return, are peers accepted, does polling resume | pass |

The first invariant of each passing run (`IndInv`, `DiscoveryInv`, `FormatInv`, ...) is the
conjunction of the module's type invariant and of named parts, each with its own comment; where it
is called `IndInv` it is the inductive invariant of the proofs, so the run checks that too.

### Bounds

- *HostEmulation*: two services, the least with which one can be mistaken for the other;
  one needs an unlock, one may be the payment default. One tap with one crash: a stale
  service or bind needs one event to become stale and one to be used. `MaxCmds` is one
  command to answer before another APDU comes, which is the reader's protocol. Within a tap,
  SELECTs, preference changes and binds repeat without bound.
- *P2pLink*: two taps, so that anything left by one link can disturb the next, and two
  disturbances, each a manual beam, an activation of a link that is up, a push of the peer or a
  switch of enableDisable: any two of them can meet. Only the presence of a message matters,
  so `Content` has one element.
- *LlcpServer*: two starts, two connections of the stack and two blocks, so that one
  connection can be taken for another and a stopped thread can meet its successor. Three
  handles are the server's and one for each block. JNI handles only grow in the code; here
  one that nothing refers to is used again. No action prefers one handle, connection or
  thread to another, which makes the symmetry reduction sound.
- *LlcpClient*: two sockets for two slots, two breaks of the link or switches of NFC, one
  congestion, one packet. With three sockets, which make one wait for a slot another left,
  the invariants hold as well (5.7 million states, too many for every run).
- *NativeTag*: all six kinds of tag for the first one, a Type 2 tag for a later one, two
  operations; tags and operations together three. An operation, what it left behind and the
  operation that meets it is the longest chain; the later operation on an ISO tag is `connect`
  back to its first technology, which selects the tag again after what the first operation left
  (with `connect` to the second one the properties hold as well, in 370,000 states).
- *TagDiscovery*: none, one or two targets, in six combinations that take every branch of the
  callback. Three inputs, each a call of the service in one of four modes or an exchange of the
  targets: enough to detect two tags, meet a peer among others while polling for peers only, and
  take it away again. `MaxNtf` is 2, so that two targets are discovered again after that has been undone.
  `MaxTech` is 11, so that the list does not overflow.
- *CardTransaction*: three activations, three requests, two threads at a time. Three requests
  are enough to store, overwrite and repeat. States after one of `Races` are not explored further
  (CONSTRAINT `NoRaceYet`): `DeviceFollowsService` and `RequestsAreServed` claim nothing there, and what
  `RequestsAreHeld` and the first part of `IndInv` claim there is proved for all states, and was checked
  without the constraint for two activations and two requests (4.9 million states).
- *Mifare*: two NDEF sectors on a 1K card, and the sectors on both sides of the directory
  sector 16 on a 4K card. `LongFrom` is 20 instead of 255: long TLVs then fit into 96 bytes
  and every place relative to blocks and sectors can be tried. The TLV stands at the
  beginning, across a block, at the end of a sector and across it; new messages fit in a
  block, fill a sector, cross it, and fill the area. Three operations, one loss.
- *MifareFormat*: thirteen whole cards of 1K, 2K and 4K, three operations, two losses.
- *LibNfc*: one target, two calls on targets or sockets, one failure, one client of the
  peer, three calls of the service (such as initialise, enable, deinitialise).
- Deadlock is not checked: taps, beams, starts or operations are exhausted in the end, and
  a server or a stack that has been stopped has nothing left to do.

### Fairness

Invariants need none. The liveness properties assume:

- *HostEmulation*: the activity manager completes a bind it accepted (strong fairness of
  `onServiceConnected`: the main looper is a queue, so the callback is not overtaken for
  ever by answers that keep coming), and the main thread finishes the answer it is handling.
  The bind is accepted (`BindMayFail` is FALSE): the code gives up a refused bind with a log
  message only, and then only the end of the tap leaves W4_SERVICE.
- *P2pLink*: a timeout that stays scheduled expires and is handled. Nothing is assumed of
  the peer, the user or the link.
- *LlcpClient, NativeTag, TagDiscovery, MifareFormat*: a thread that need not wait goes on,
  the stack answers each request it took, timers expire. The stack's own time-outs for a
  peer or tag that is silent justify the second; nothing is assumed of tags, peers or users.
- *MifareExtns*: a card in the field answers, and the controller reports one that does not;
  the check's timer runs; a deactivation is reported.
- *CardTransaction*: threads run (the service's too, with the answers of the stack that
  `DefaultRouteIsSet` waits for), the timer expires, and a reader goes away in the end.
- *LibNfc*: threads run, the message thread reads its queue, the watchdog of NfcService
  aborts a process in which a call hangs and the system starts it again, and the service drops a
  target in the end.

## Proofs

The eight modules `*Proofs` are checked by `tlapm`; their only assumptions are the named ones on the
constants, which TLC also evaluates on every run, and two that a theorem names itself: `Serial` in LlcpClient and,
for the walk of TagDiscovery, `Prompt \/ t3t.h = 0` (below). Neither sets of services, sockets, handles or connections nor the bounds on taps,
crashes, calls and threads are fixed, so the theorems hold without the small instances' bounds. In
each module the theorem `Invariance` is Init => IndInv and IndInv /\ [Next]_vars => IndInv', with a
lemma or step per action, and the others follow from IndInv. Where IndInv has two layers (P2pLink,
CardTransaction, BlocksHaveOwners) the second is proved with the first at hand before and after the
step. TLC checks IndInv as an invariant too, and did so before it was proved.

**HostEmulation.** TypeOK, ActiveServiceIsNamed, QueuedSelectKeepsItsBind,
QueuedSelectAwaitsCallback, SessionsAreAccountedFor and DirectSelectReachesItsService. They are not inductive by
themselves: that the active name matches needs the names of both binds to match
(`BindsAreConsistent`); that a session is known needs Messengers to be of processes that
have existed (`InstancesAreKnown`), since a crash makes a new one; that a queued SELECT will
be called back needs `ConnectedIsBound`, a connected bind being a bound one until the first
crash.

**P2pLink.** TypeOK, SendsWhatWasConfirmed, SendingIsUnderway, ConnectsForTheLink, and the parts of
IndInv on screens and timers. That one ConnectTask is at work needs to know that a task which is not
cancelled is the one `mConnectTask` refers to (`TasksAreReferred`); that the services of a link are
connected when the user confirms needs what may have put it off before (`ConnectsForThePrompt`); that
a send goes on needs a failed attempt to be remembered until the next (`FailureIsKept`). That what can
reach the peer was confirmed is a second layer (`SendInv`): the only new offers come with the link
down or the user still asked, and then no task has its sockets open. A pending
beam keeps its timer, since a second timeout is only under way after a second beam
(`WaitTimersAreBeams`); a prompt that is shown belongs to a tap in which nothing was sent
(`UiShowsTheBeam`), so a touch is not refused for an earlier send.

**LlcpServer.** TypeOK, RegistrationHasOwner, OneBlockPerConnection and StoppedThreadsLetGo. The strengthening
says when a ServerThread has a socket: not before it registers nor after its finally block,
and not while it waits in accept after having been stopped; that an accept in progress has a
server; and that the stack still knows every connection that a block names, so a new
connection cannot be in a block already. StoppedThreadsLetGo is then a consequence: a
stopped thread has no socket, so the registration, which has an owner, has another one.
BlocksHaveOwners is about a server that was started once. Its cardinality is turned into "any two
started threads are the same" (the set of started threads is finite, as one more is added at a
time), and then a block without a handler is the one that the only thread's accept is about: only a
start, a new accept or the end of a ConnectionThread could change that.

**LlcpClient.** TypeOK, ClosedSocketIsReleased and ConnectionsAreKnown, for any number of sockets
and slots, under `Serial`: sockets are created one after the other. The assumption is what the code
relies on, since NFA_P2P_REG_CLIENT_EVT names no client and goes to the first slot without a handle
(Findings); NfcService and the SNEP client create one at a time. "The first slot" is a CHOOSE over
numbers; `SomeIsFirst` shows that there is one, from the library's well-founded induction. The
invariant says that only one socket registers (`RegistersAlone`), so the answer finds it; that a
client in the table without a registration is the one that is waiting for it, or is about to be
removed by the thread that was refused one (`ClientsAreRegistered`); that a connection under way is marked as such in its client, so that a
close in between is seen (`ConnectingIsMarked`); and that a close comes after the socket exists
(`ClosesAreLate`).

**NativeTag.** TypeOK, WaitsAreAnswered and SuccessIsAnswered. Nearly every wait of NativeNfcTag.cpp
has no predicate, so the proof is about where threads are. The operation and the watchdog's check
exclude each other (`OneAtWork`); each flag the callback tests is up only while the
operation that sets it is at the places that need it (`FlagsOnlyInReSelect`, `CheckingOnlyDuringCheck`);
at each place that waits, the request to be answered is among those the NFA task has, and behind it
none that takes the link down without waking the waiter, or what ends the wait is posted already
(`WaitsAreCovered`). SuccessIsAnswered needs in addition that an "ok" which is still around when an
operation looks at it is the answer to this operation (`AnswersAreNoted`): the raw frames on
their way and the data received belong to the tag the transceive was called for, and a
status of an earlier operation is cleared by the one that looks at it.

**CardTransaction.** TypeOK, and `RequestsAreHeld`, with no assumption on the order of events: under
a payment that found no thread and no timer, no call passes the test of the transaction, and
the device changes in two ways only: by a call that had passed the test before the reader came (the
code takes the RF mutex only afterwards) and by setDefaultRoute, which does not test. It relates three
actors. Such a reader implies a transaction in progress, no thread and no timer
(`TransactionCoversTheCard`): activation starts a transaction, and a thread or a timer comes only from a
field that ends. Until a reader has come back to a thread (`hist.returned`), in addition, a thread runs
only once the transaction's state is "end" (`OneThreadAfterTheEnd`), and the timer only between
fields (`TimerBetweenFields`).

`DeviceFollowsService` says that, until one of `Races` has happened, the device ends as the service
asked, although a request may be stored, merged with a later one, performed by a thread or
applied at once. The invariant follows the wish on its way: what is stored is what was
asked for last (`StoredIsWished`); something is stored only for a transaction or the thread after it
(`StoredForATransaction`); what is neither stored nor on its way is in force (`ScreenIsCarried`,
`RoutingIsCarried`), a thread at work has the device to itself and performs what is still
stored (`ThreadHasTheDevice`). That an enable which is "ignored" changes nothing needs the code of
three places: `applyRouting` restarts discovery exactly if it was enabled, which
`RoutingFollowsScreen` ties to the device's own flag; `enableThread` clears the flag first; and a
disable is ignored only when nothing polls. `Settled` and `Working(i)` restate the invariant
for the two situations, no thread at work or thread i, and each action is treated in its own.

**LibNfc.** TypeOK, OneLoopServesTheStack, CallbacksFindTheirCall and OneAtATime for all constants,
answers that come after the five seconds of `nfc_jni_download_locked` included. A thread that waits holds
the mutex (`WaitersHoldTheLock`), so that a thread which takes it finds no other one waiting; a posted
semaphore has its thread waiting (`AnswersAreAwaited`), so that a thread which begins a request has no
old answer; and two calls due to one thread would be for the same request, hence the same. A wait that is
given up makes the answer stray, and nothing else does: a stray answer posts only the record of a
later try of that download (`Disturbed`), never one of another request, which `Awaits` carries through
every step of a thread. That one message thread serves the stack follows the service
through its calls (`LoopFollowsTheService`): the thread is told to end only when an
initialization gave up or the stack was stopped, and an initialization begins only after the
message was read; that the stack is up means that the last answer came, for which the thread had
to be alive.

**TagDiscovery.** DiscoveryInv for every field of targets, length of the technology arrays and
contents behind them: TypeOK, WaitersAreAnswered and EntriesAreSaved in every state; the walk's part, and
ToldOfTheActiveTag, for every order of threads, targets and timers until pollT3TThread is first started
(`t3t.h = 0`), and with that thread at work only under `Prompt`. BytesAreTheirs needs neither.
TypeOK says here that every entry that NfcTag writes or reads is inside the arrays or the one
behind them, which a MIFARE target in the last place reaches. WaitersAreAnswered is what makes waits on an
event without a predicate safe, and ThreadsEnd possible: the waiting threads are never more than
the orders and answers on their way, whichever thread an answer wakes. It counts the places of a
sequence, so the module begins with lemmas on that count in a sequence that grows and shrinks.
That the bytes of an entry are its own needs EntriesAreSaved: the entries
before `mTechListIndex` are the ones the saved array was filled with, since a discovery
writes behind the list, an activation from the index on, and who makes the list shorter sets the
index to 0 (`OwnTags` is the set of tag records with both, and each handler maps it to itself).

That the service knows the active target, and that nothing disturbs a target it knows, are about
which requests of the walk can be in NFA's queue together. Neither is inductive: a "sleep" that
SleepForNext asked for is harmless as long as the target it was meant for is still active, and a stale
"activated" would report the wrong target. The second invariant (`WalkIndInv`, of which the run checks the consequence `WalkInv`) therefore follows the queue. Events stand before requests and are of the link as it is
now, so a handler reports what is true. The service knows a target only from its activation until its
deactivation is reported. At most one "sleep" is under way, and none before the
activation it answers was reported. At most one "select" is under way, and none while a target is active,
until pollT3TThread has been at work (`t3t.h`). That thread selects by itself, knows nothing of the walk, and begins only
where no "sleep" is pending. The proof treats the queue as the set of what is in it (`In`, `None`, `OnlyOne`),
with lemmas on what a handler appends, then each step of threads, NFA and callback.
`Prompt` enters in one place: no target answers while pollT3TThread has yet to begin. That thread exists
only for a peer that was activated in reader mode, and once it has been given a target `t3t.h` stays set
(`WalkedBefore`), so where it is 0 it always was and the place cannot be reached: there `Prompt` is not needed.

Only model-checked, and why:

- WalkEnds is about the technologies of the targets themselves, so it holds for the instance's
  combinations and not for any: of two peers in reader mode none is selected (see below).
- AllTechnologiesAgain needs to know which of two threads' orders NFA carries out while discovery is
  stopped, when answers wake either thread and a refused deactivation wakes one early. No invariant that
  follows single orders through the queue has been stated. In simulations with every pair of six kinds
  and eight inputs it held.
- The properties of MifareExtns and MifareFormat rest on computations over a card's blocks and sectors
  (the TLV chain, the longest run of sectors) and on what cards are presented; MifareExtns and the
  refinement StorageSpec reach a recursive operator (`ScanTLVs`).
- All liveness properties need fairness.

## Findings

Each of the two is a run that TLC ends with a counterexample, against a sentence of the code or
its comments.

1. `MifareFormatOverrun`. A sector the automaton was refused is counted although nothing was
   recorded for it; the second `memset` of the update of the MAD then gets a negative length
   (`phFriNfc_MifStdFormat.c:974`).
2. `CardTransactionPeers`. `enableThread` clears `sDiscoveryEnabled` while `sP2pEnabled` stays
   true (`NativeNfcManager.cpp:5010`). The next enableDiscovery switches P2P listening off
   (2110) and, since it believes it is on, not on again (against the comment at 2230).

### Disagreements without a run of their own

Met while modelling; each behaviour is in the model, or excluded by a constant that is named
here. The hazards of `PROJECT.json` give the lines.

- `HostEmulationManager.java:604`, against 230: `onServiceConnected` sets STATE_XFER in any
  state, so a bind that completes late leaves STATE_W4_DEACTIVATE within the tap whose APDUs
  were to be ignored. 649, against 130: the answer to a command of one tap can reach the reader of
  the next. 607, against 127-129: a queued SELECT goes to whichever service connects first.
- `P2pLinkManager.java:1196`: a send that completes just before the link is lost removes the
  debounce timeout, and the link stays in debounce until another tap. 439, against 440: a manual
  beam keeps the message of an earlier one that was cancelled or timed out. 468, against 508 ("Duplicate"):
  a second activation of a link that is up clears `mLlcpConnectDelayed`, though it is otherwise
  ignored; the send the user then confirms stays SENDING with nobody connecting, until the link is lost
  (SendingIsUnderway exempts exactly this, with the history variable `dropped`).
- `PeerToPeer.cpp:1725`, against 1356: a request between accept's allocation of a block and its
  wait wakes nobody. 1345, against 1344: a request is given to the first block without a handle,
  which may be that of a connection just lost.
- `PeerToPeer.cpp:1462`: the answer to a registration goes to the first slot without a handle;
  two threads that create sockets at once (`Serial` FALSE in LlcpClient) may exchange them, and one
  then waits for ever.
- `NativeNfcTag.cpp:2408`, against 2354: making a tag read-only reports the status of an
  earlier operation. 731: the result of a write is cleared after the write was requested, so a
  quick answer is lost and a failure reported. 2291: a format with the second key is not waited
  for. 398, 676 and 685: `doRead` and `doWrite` do not look at the status of a read or format request
  before they wait without a limit (398: "wait for NFA_READ_CPLT_EVT"). When it was refused, as
  `Mfc_ReadNdef` or a raw frame may be, only the end of the activation wakes them. The model has these
  waits as the places `readRefused` and `wrRefused`, which WaitsAreAnswered and OperationsReturn exempt.
- `phFriNfc_MifareStdMap.c:5536`: a lock after a read runs the read's completion. 5487: a
  message that ends within the announced size is cut off and reported stored. Without a new check, a write after a
  failed read reports success and writes nothing, a retry after a failed partial block
  stores a truncated message, and a read after a write uses the old length. A lock after an
  aborted check converts only the sectors that were read again.
- The check of a MIFARE card finds no TLV, or the wrong one, when a short one starts at byte 14
  of a block, a long one at 12, any at 15, or a long message replaces one after two NULLs at the
  beginning of a block; the instance leaves these places out.
- `phFriNfc_MifStdFormat.c`: a 4K card with a foreign sector 16 fails at block 64 (against
  1065-1068); sectors whose keys are unknown are not passed over, so the card stays half formatted;
  the MAD's key is not tried for block 67 (`< 67`).
- `NativeNfcManager.cpp:546`, against 2289: the thread of the priority logic restarts
  discovery after disableDiscovery. Without the assumption `Prompt` the walk over the
  targets may not end, and polling may stay restricted to peers. 511: it stays so with `Prompt` too when a
  peer found among several targets, for which the timer that would undo it is stopped, is gone when it
  is selected (AllTechnologiesAgain exempts the time until something is activated, `awaited`). `mNumDiscNtf` and the list of
  technologies are not reset between targets; the list may exceed its maximum by one entry. Of three targets the third is
  never selected. 540: of two peers in reader mode none is, and nobody polls any more.
- `NfcService.java:3845`: setDefaultRoute stops discovery, waits for the controller and starts it
  again under a payment (`NativeNfcManager.cpp:1675-1698`), against 2306 and its like, where
  every other call is held; with the screen off it leaves discovery running (RequestsAreHeld names this
  way). A request that was stored when NFC was switched off survives that, and one stored while
  `enableThread` performs the others is wiped with them at 5031, so the device does not do what was
  asked last (DeviceFollowsService exempts exactly the cases of `Races`). Leaving reader mode with a zero mask, and
  the provision mode on a locked and unlocked screen, leave listening or the whole discovery off.
- `com_android_nfc_NativeNfcManager.cpp:1585`: a time-out that is not positive leaves the
  mutex locked (`BadTimeouts`). A secure-element open lacks a `goto` after an error and waits for ever
  (`com_android_nfc_NativeNfcSecureElement.cpp:405`; the liveness property exempts it).
- `com_android_nfc_NativeNfcManager.cpp:189`: when the stack takes longer than five seconds to stop
  for a download, the download goes on with a record on the stack, and the late answer is given
  the address of one that is gone, or posts that of the next try; CallbacksFindTheirCall names these (`Stray`).
- `com_android_nfc_NativeNfcSecureElement.cpp:314`, against 466: the notification of targets stays registered with
  a record of the call that opened the secure element, and polling may be started with it
  (`com_android_nfc_NativeNfcManager.cpp:2465` and 2483). The callback then fills a record that is gone, and the
  target is told to nobody.
- `com_android_nfc_NativeNfcTag.cpp:625` and `com_android_nfc_NativeP2pDevice.cpp:231`: a disconnect
  answered with "not connected" returns without restarting discovery, unlike every other refusal; if polling is
  held it stays so until the service configures it again (PollingComesBack exempts both ways, `tgt.lost`).
- A disconnect after deinitialisation aborts the process (`Orderly`).

## Limits

What the models leave out of the code they cover:

- *HostEmulation*: `setScreenState` is not modelled because nothing calls it
  (`NfcService.java:5002` is a TODO), so the screen-off branch is dead. Dialogs and the tap
  chooser change no state. FeliCa resolution is treated like AID resolution.
- *P2pLink*: DTA mode, the extended DTA server and client, the echo server (disabled by a
  constant) and user switches. `mSendFlags` is a free choice wherever it is tested. The
  device has SendUi (not an appliance) and Bluetooth (`isHandoverSupported`).
- *LlcpServer*: one service; sending and congestion are part of `HandlesRequest`, whose
  outcome is free; spurious wakeups of condition variables do not occur; restarting
  discovery around a deregistration is left out; blocks of a server that was closed are no
  longer tracked; callbacks of the stack are atomic; switching NFC off is not modelled.
- *LlcpClient*: `enableP2pListening` and the getters of the remote side. NFC is switched off
  when every request was answered and not between slot and registration; the service does not
  connect a socket it is closing. What a cleared slot leaks is not counted.
- *TagDiscovery*: technologies are numbers in a list; poll bytes and activation parameters
  appear only as far as they choose a branch. JNI references are not counted. What the thread of
  pollT3TThread does to a tag that replaced its own is exempted.
- *NativeTag*: the details of Type 1 tags and all contents; deactivations, selections, raw frames,
  presence checks and vendor commands are not refused (the code gives these up without waiting).
- *CardTransaction*: PowerSwitch, UICC listening, the special case of `isTagPresent` and the
  branches for other chips; creating the thread and the state "end" are one action. The service
  makes one call at a time: its background task and its message handler are not told apart.
- *Mifare*: raw transceive; keys are right or wrong. The ranges above are left out.
- *MifareFormat*: a refusal is a property of the sector and not a passing error; a new
  operation waits until a format in the background has ended.
- *LibNfc*: `doTransceive`, `doSend` and `doReceive` of a peer, which the service never
  calls; the two callbacks that only log. Pointers that are not valid any more are errors of the
  code and not modelled.

The build is the one of `nci/jni/Android.mk`: NFC_NXP_NOT_OPEN_INCLUDED is set,
NFC_NXP_NON_STD_CARD, NFC_NXP_HFO_SETTINGS and NFC_NXP_ESE are not, and the chip is PN548C2;
code under the other settings is not modelled.

Not modelled, and why: registered-services parsing, NFC-EE access control and dispatch are
table lookups and platform calls; SecureElement, RoutingManager and DwpChannel are for the most part
code for a secure element, which the build leaves out, and translations of configuration into calls
of the stack; the beam and handover services are dialogues with the Bluetooth stack, which is not
in the repository. The others are in the plan.

## Plan

The modules of the table under *Modules* are done. What is left, in order of importance:

| Module | Of | Properties and theorems |
|---|---|---|
| `TagDiscoveryProofs` (more) | TagDiscovery | AllTechnologiesAgain, under `Prompt` and for Felica only in reader mode: which "disable" in NFA's queue will find discovery stopped |
| `SnepTransfer`, `SnepFragments` | SnepMessenger, SnepClient, handleRequest | abstract: a message arrives whole or the transfer fails; detailed: fragments, CONTINUE and REJECT, a connection that breaks, shown to implement it. Fragments are contiguous ranges, so that no recursion is needed and the refinement can be proved |
| `AidCache` | RegisteredAidCache, AidRoutingManager | conflict resolution and prefix lookup against a reference definition; lemmas on the operators |
| `Preferences` | PreferredServices, CardEmulationManager | announcements computed under a lock and made outside it; composed with HostEmulation's two preference actions |
| `NfcServiceState` | NfcService's enable and disable tasks, P2pLinkManager.enableDisable | at most one state change at a time, watchdogs cancelled; composed with CardTransaction's requests |
| `SecureElementEvents` | SecureElement, RoutingManager | each wait for a stack event is answered; pipes and gates follow the host's |

Abstract specifications worth stating besides the SNEP transfer: a card-emulation session as
the reader sees it (each APDU answered by the service selected last), which the disagreements
above show the code implements only while binds are not shared; and a beam as the user sees
it (offered, confirmed, sent once or reported failed).
