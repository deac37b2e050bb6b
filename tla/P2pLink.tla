------------------------------ MODULE P2pLink ------------------------------
(***************************************************************************)
(* P2pLinkManager and P2pEventManager: Android Beam over an LLCP link that *)
(* comes and goes.  The UI thread handles link events, messages posted to  *)
(* mHandler and the user; AsyncTask's serial executor connects the LLCP    *)
(* clients (ConnectTask) and sends (SendTask); servers post what the peer  *)
(* pushed; invokeBeam and enableDisable come on binder threads.  Every     *)
(* action is one critical section of the manager's monitor.                *)
(***************************************************************************)
EXTENDS Integers, Sequences, SequencesExt

CONSTANTS Content,      \* what applications share
          Null,
          MaxTaps,      \* bound: LLCP activations of a behaviour
          MaxDisturbances \* bound: manual beams, activations of a link that is up, messages
                          \* the peer pushes and calls of enableDisable, together

ASSUME P2pAssumption ==
    /\ Null \notin Content
    /\ {MaxTaps, MaxDisturbances} \subseteq Nat

VARIABLES
    mLinkState, mSendState,
    mToSend,                \* mMessageToSend and mUrisToSend
    mIsSendEnabled, mIsReceiveEnabled,
    mLlcpServicesConnected, mLlcpConnectDelayed,
    clients,                \* whether LLCP clients are assigned (mSnepClient...)
    tasks,                  \* the serial executor's queue, its head running
    posted,                 \* mHandler's messages, in order
    waitTimer,              \* MSG_WAIT_FOR_LINK_TIMEOUT is scheduled
    debounceTimer,          \* MSG_DEBOUNCE_TIMEOUT is scheduled
    looper,                 \* the timeout the looper took and has not yet handled
    mSending, mNdefSent, mNdefReceived, mInDebounce,    \* P2pEventManager
    sendUi,                 \* what SendUi shows
    shared,                 \* history: what the last manual beam was asked to send
    offered,                \* history: what was last confirmed, or needed no confirmation
    failed,                 \* history: the last attempt to connect or to send failed
    dropped,                \* history: an activation too many dropped the connect of this link
    counts                  \* how often each bounded action has happened

link    == <<mLinkState, mLlcpServicesConnected, mLlcpConnectDelayed, clients>>
enabled == <<mIsSendEnabled, mIsReceiveEnabled>>
timers  == <<waitTimer, debounceTimer, looper>>
ui      == <<mSending, mNdefSent, mNdefReceived, mInDebounce, sendUi>>
history == <<shared, offered, failed, dropped>>
vars == <<link, mSendState, mToSend, enabled, tasks, posted, timers, ui, history, counts>>
----------------------------------------------------------------------------
LinkStates == {"DOWN", "WAITING_PDU", "UP", "DEBOUNCE"}
SendStates == {"NOTHING_TO_SEND", "NEED_CONFIRMATION", "PENDING", "SENDING", "COMPLETE", "CANCELED"}
Offers == [ndef : Content \cup {Null}, uris : Content \cup {Null}]
Nothing == [ndef |-> Null, uris |-> Null]
\* A share menu gives URIs or a message.
Shares == {o \in Offers : o.ndef = Null \/ o.uris = Null}

\* "ref": mConnectTask or mSendTask refers to it; "open": its sockets are not closed.
Tasks == [kind : {"connect", "send"}, at : {"queued", "running", "delivered", "done"},
          ref : BOOLEAN, cancelled : BOOLEAN, open : BOOLEAN, ok : BOOLEAN, data : Offers]
\* REFUSED is HANDOVER_NOT_SUPPORTED and HANDOVER_BUSY, RECEIVE is RECEIVE_COMPLETE and
\* RECEIVE_HANDOVER: they differ in sounds and toasts.
Messages == {"SEND_COMPLETE", "REFUSED", "RECEIVE"}
UiIdle == looper = "idle"
Count(what, bound) == counts[what] < bound /\ counts' = [counts EXCEPT ![what] = @ + 1]
Disturb(what) ==
    /\ counts.beams + counts.repeats + counts.receives + counts.switches < MaxDisturbances
    /\ counts' = [counts EXCEPT ![what] = @ + 1]

NewTask(kind) == [kind |-> kind, at |-> "queued", ref |-> TRUE, cancelled |-> FALSE,
                  open |-> TRUE, ok |-> FALSE, data |-> Nothing]

\* After enableDisable(true, true), when NFC is switched on.
Init ==
    /\ mLinkState = "DOWN" /\ mSendState = "NOTHING_TO_SEND" /\ mToSend = Nothing
    /\ mIsSendEnabled = TRUE /\ mIsReceiveEnabled = TRUE
    /\ mLlcpServicesConnected = FALSE /\ mLlcpConnectDelayed = FALSE
    /\ clients = FALSE /\ tasks = <<>> /\ posted = <<>>
    /\ waitTimer = FALSE /\ debounceTimer = FALSE /\ looper = "idle"
    /\ mSending = FALSE /\ mNdefSent = FALSE /\ mNdefReceived = FALSE /\ mInDebounce = FALSE
    /\ sendUi = "none"
    /\ shared = Nothing /\ offered = Nothing /\ failed = FALSE /\ dropped = FALSE
    /\ counts = [taps |-> 0, repeats |-> 0, beams |-> 0, receives |-> 0, switches |-> 0]
----------------------------------------------------------------------------
(* Helpers that run under the monitor; each names the queue it makes. *)

\* Cancels the task that mSendTask or mConnectTask refers to; one that has not started
\* never will.
Cancelled(q, kind) ==
    LET referred == {i \in DOMAIN q : q[i].kind = kind /\ q[i].ref}
        it       == CHOOSE i \in referred : TRUE
    IN  IF referred = {} THEN q
        ELSE IF q[it].at = "queued" THEN RemoveAt(q, it)
        ELSE [q EXCEPT ![it].cancelled = TRUE]

\* cancelSendNdefMessage
SendCancelled(q) == Cancelled(q, "send")

\* Mutant of ConnectCancelled: mConnectTask is dropped, not cancelled.
ConnectCancelled_Forgets(q) ==
    [i \in DOMAIN q |-> IF q[i].kind = "connect" THEN [q[i] EXCEPT !.ref = FALSE]
                        ELSE [q[i] EXCEPT !.open = FALSE]]

\* disconnectLlcpServices: cancel the ConnectTask, close the clients, under a SendTask too.
ConnectCancelled(q) ==
    LET some == Cancelled(q, "connect")
    IN  [i \in DOMAIN some |-> IF some[i].kind = "connect" THEN [some[i] EXCEPT !.ref = FALSE]
                               ELSE [some[i] EXCEPT !.open = FALSE]]

\* mSendTask or mConnectTask no longer refers to its task.
Unreferenced(q, kind) ==
    [i \in DOMAIN q |-> IF q[i].kind = kind THEN [q[i] EXCEPT !.ref = FALSE] ELSE q[i]]

\* connectLlcpServices
WithConnect(q) == Append(Unreferenced(q, "connect"), NewTask("connect"))

\* sendNdefMessage
WithSend(q) == Append(Unreferenced(SendCancelled(q), "send"), NewTask("send"))

\* P2pEventManager.onP2pInRange, and what onP2pNfcTapRequested has in common with it
onP2pInRange == mNdefSent' = FALSE /\ mNdefReceived' = FALSE /\ mInDebounce' = FALSE

\* P2pEventManager.onP2pOutOfRange leaves the interface alone after a success.
UiOutOfRange == IF mNdefSent \/ mNdefReceived THEN sendUi ELSE "none"

onP2pOutOfRange == mSending' = FALSE /\ mInDebounce' = FALSE /\ sendUi' = UiOutOfRange

\* onP2pSendConfirmed past its guard.
SendConfirmed(linkState, what) ==
    LET connects == \/ linkState = "WAITING_PDU"
                    \/ linkState = "UP" /\ ~mLlcpServicesConnected /\ mLlcpConnectDelayed
        sends    == linkState = "UP" /\ mLlcpServicesConnected
    IN  /\ mSendState' = "SENDING"
        /\ offered' = what
        /\ failed' = IF connects \/ sends THEN FALSE ELSE failed
        /\ mLinkState' = IF linkState = "WAITING_PDU" THEN "UP" ELSE linkState
        /\ tasks' = IF connects THEN WithConnect(tasks)
                    ELSE IF sends THEN WithSend(tasks) ELSE tasks
        /\ debounceTimer' = (debounceTimer \/ linkState = "DEBOUNCE")
----------------------------------------------------------------------------
(* Link events, on the UI thread. *)

\* DOWN: a manual beam was waiting for the link.
onLlcpActivatedPending ==
    /\ UiIdle /\ Count("taps", MaxTaps)
    /\ mLinkState = "DOWN" /\ mSendState = "PENDING"
    /\ mLlcpConnectDelayed' = FALSE
    /\ waitTimer' = FALSE
    /\ onP2pInRange
    /\ SendConfirmed("WAITING_PDU", mToSend)
    /\ UNCHANGED <<mToSend, enabled, mLlcpServicesConnected, clients, posted, looper, mSending,
                   sendUi, shared, dropped>>

\* DOWN: prepareMessageToSend(true), then ask the user unless mSendFlags say otherwise.
\* The flags may be those of an earlier callback: they are not read with the message.
onLlcpActivatedDown ==
    /\ UiIdle /\ Count("taps", MaxTaps)
    /\ mLinkState = "DOWN" /\ mSendState # "PENDING"
    /\ mLlcpConnectDelayed' = FALSE
    /\ onP2pInRange
    /\ \E o \in IF mIsSendEnabled THEN Offers ELSE {Nothing} :
         /\ mToSend' = o
         /\ \/ /\ o = Nothing
               /\ mLinkState' = "WAITING_PDU" /\ mSendState' = "NOTHING_TO_SEND"
               /\ UNCHANGED <<tasks, debounceTimer, sendUi, offered, failed>>
            \/ /\ o # Nothing
               /\ SendConfirmed("WAITING_PDU", o)
               /\ UNCHANGED sendUi
            \/ /\ o # Nothing
               /\ mLinkState' = "WAITING_PDU" /\ mSendState' = "NEED_CONFIRMATION"
               /\ sendUi' = "asking"
               /\ UNCHANGED <<tasks, debounceTimer, offered, failed>>
    /\ UNCHANGED <<enabled, mLlcpServicesConnected, clients, posted, waitTimer, looper, mSending,
                   shared, dropped>>

\* DEBOUNCE: the devices are back together.
onLlcpActivatedDebounce ==
    /\ UiIdle /\ Count("taps", MaxTaps)
    /\ mLinkState = "DEBOUNCE"
    /\ mLlcpConnectDelayed' = FALSE
    /\ IF mSendState = "SENDING"
       THEN mLinkState' = "UP" /\ tasks' = WithConnect(tasks) /\ failed' = FALSE
       ELSE mLinkState' = "WAITING_PDU" /\ UNCHANGED <<tasks, failed>>
    /\ debounceTimer' = FALSE
    /\ UNCHANGED <<mLlcpServicesConnected, clients, mSendState, mToSend, enabled, posted,
                   waitTimer, looper, ui, shared, offered, dropped>>

\* WAITING_PDU or UP: an activation too many; what waits for the user is not connected then.
onLlcpActivatedTwice ==
    /\ UiIdle /\ Disturb("repeats")
    /\ mLinkState \in {"WAITING_PDU", "UP"}
    /\ mLlcpConnectDelayed' = FALSE
    /\ dropped' = (dropped \/ (mLlcpConnectDelayed /\ mSendState = "NEED_CONFIRMATION"))
    /\ UNCHANGED <<mLinkState, mLlcpServicesConnected, clients, mSendState, mToSend, enabled,
                   tasks, posted, timers, ui, shared, offered, failed>>

\* Mutant of onLlcpFirstPacketReceived: the delayed connect is forgotten.
onLlcpFirstPacketReceived_Forgets ==
    /\ UiIdle
    /\ mLinkState = "WAITING_PDU"
    /\ mLinkState' = "UP"
    /\ \E fast \in BOOLEAN :
         IF mSendState # "NOTHING_TO_SEND" /\ (fast \/ mSendState = "SENDING")
         THEN tasks' = WithConnect(tasks) /\ failed' = FALSE
         ELSE UNCHANGED <<tasks, failed>>
    /\ UNCHANGED <<mLlcpServicesConnected, mLlcpConnectDelayed, clients, mSendState, mToSend,
                   enabled, posted, timers, ui, shared, offered, dropped, counts>>

\* "fast": within LINK_FIRST_PDU_LIMIT_MS of the activation.
onLlcpFirstPacketReceived ==
    /\ UiIdle
    /\ mLinkState = "WAITING_PDU"
    /\ mLinkState' = "UP"
    /\ \E fast \in BOOLEAN :
         IF mSendState = "NOTHING_TO_SEND" THEN UNCHANGED <<tasks, mLlcpConnectDelayed, failed>>
         ELSE IF fast \/ mSendState = "SENDING"
         THEN tasks' = WithConnect(tasks) /\ failed' = FALSE /\ UNCHANGED mLlcpConnectDelayed
         ELSE mLlcpConnectDelayed' = TRUE /\ UNCHANGED <<tasks, failed>>
    /\ UNCHANGED <<mLlcpServicesConnected, clients, mSendState, mToSend, enabled, posted, timers,
                   ui, shared, offered, dropped, counts>>

\* onLlcpDeactivated when the link was up.
LinkLost ==
    /\ mLinkState' = "DEBOUNCE"
    /\ debounceTimer' = TRUE
    /\ mInDebounce' = (mInDebounce \/ mSendState = "SENDING")
    /\ tasks' = ConnectCancelled(SendCancelled(tasks))
    /\ clients' = FALSE /\ mLlcpServicesConnected' = FALSE
    /\ dropped' = FALSE
    /\ UNCHANGED <<mLlcpConnectDelayed, mSendState, mToSend, posted, waitTimer, looper, mSending,
                   mNdefSent, mNdefReceived, sendUi, shared, offered, failed>>

onLlcpDeactivated ==
    /\ UiIdle
    /\ mLinkState \in {"WAITING_PDU", "UP"}
    /\ LinkLost
    /\ UNCHANGED <<enabled, counts>>
----------------------------------------------------------------------------
(* Binder threads. *)

\* Switching receiving off gives up the link with the servers.
enableDisable(send, receive) ==
    /\ Disturb("switches")
    /\ mIsSendEnabled' = send /\ mIsReceiveEnabled' = receive
    /\ IF mIsReceiveEnabled /\ ~receive /\ mLinkState \in {"WAITING_PDU", "UP"}
       THEN LinkLost
       ELSE UNCHANGED <<link, mSendState, mToSend, tasks, posted, timers, ui, history>>

\* scheduleTimeoutLocked(MSG_WAIT_FOR_LINK_TIMEOUT); mutant: removed, never sent again.
ScheduleWait_OnlyRemoves == waitTimer' = FALSE

ScheduleWait == waitTimer' = TRUE

\* "foreground": the application of the NDEF callback is, and o is what its callback
\* gives; s is the data of the share menu.
onManualBeamInvoke(foreground, o, s) ==
    /\ Disturb("beams")
    /\ mLinkState = "DOWN"
    /\ o # Nothing => foreground /\ mIsSendEnabled
    /\ LET prepared == IF foreground THEN o ELSE mToSend
           now      == IF prepared # Nothing THEN prepared ELSE s
       IN  /\ mToSend' = now
           /\ IF now = Nothing
              THEN UNCHANGED <<mSendState, waitTimer, mNdefSent, mNdefReceived, mInDebounce, sendUi>>
              ELSE /\ mSendState' = "PENDING"
                   /\ ScheduleWait
                   /\ onP2pInRange /\ sendUi' = "waiting"     \* onP2pNfcTapRequested
    /\ shared' = IF o # Nothing THEN o ELSE IF s # Nothing THEN s ELSE shared
    /\ UNCHANGED <<link, enabled, tasks, posted, debounceTimer, looper, mSending, offered, failed,
                   dropped>>

\* invokeBeam brings no share data and calls on its binder thread; invokeBeamInternal
\* brings some and goes over NfcService's handler, on the UI thread.
invokeBeam ==
    \E foreground \in BOOLEAN, o \in Offers, s \in Shares :
        /\ s # Nothing => UiIdle
        /\ onManualBeamInvoke(foreground, o, s)
----------------------------------------------------------------------------
(* The user, at SendUi. *)

\* P2pEventManager.onSendConfirmed: a touch, while the interface asks for one.
onSendConfirmed ==
    /\ UiIdle
    /\ sendUi = "asking"
    /\ mSending' = TRUE
    /\ sendUi' = IF mSending THEN sendUi ELSE "sending"
    /\ IF mSending \/ mLinkState = "DOWN" \/ mSendState # "NEED_CONFIRMATION"
       THEN UNCHANGED <<mLinkState, mSendState, tasks, debounceTimer, offered, failed, mInDebounce>>
       ELSE /\ SendConfirmed(mLinkState, mToSend)
            /\ mInDebounce' = (mInDebounce \/ mLinkState = "DEBOUNCE")
    /\ UNCHANGED <<mLlcpServicesConnected, mLlcpConnectDelayed, clients, mToSend, enabled, posted,
                   waitTimer, looper, mNdefSent, mNdefReceived, shared, dropped, counts>>

\* P2pEventManager.onCanceled and P2pLinkManager.onP2pCanceled
onCanceled ==
    /\ UiIdle
    /\ sendUi # "none"
    /\ sendUi' = "none"
    /\ mSendState' = "CANCELED"
    /\ waitTimer' = (waitTimer /\ mLinkState # "DOWN")
    /\ debounceTimer' = (debounceTimer \/ mLinkState = "DEBOUNCE")
    /\ UNCHANGED <<link, mToSend, enabled, tasks, posted, looper, mSending, mNdefSent,
                   mNdefReceived, mInDebounce, history, counts>>
----------------------------------------------------------------------------
(* mHandler's timeouts: the looper takes one, then waits for the monitor. *)

WaitTimerDue ==
    /\ UiIdle /\ waitTimer
    /\ waitTimer' = FALSE /\ looper' = "wait"
    /\ UNCHANGED <<link, mSendState, mToSend, enabled, tasks, posted, debounceTimer, ui, history, counts>>

\* Mutant of WaitForLinkTimeout: only the interface is told.
WaitForLinkTimeout_KeepsState ==
    /\ looper = "wait"
    /\ looper' = "idle"
    /\ sendUi' = "none"
    /\ UNCHANGED <<link, mSendState, mToSend, enabled, tasks, posted, waitTimer, debounceTimer,
                   mSending, mNdefSent, mNdefReceived, mInDebounce, history, counts>>

WaitForLinkTimeout ==
    /\ looper = "wait"
    /\ looper' = "idle"
    /\ mSendState' = "NOTHING_TO_SEND"
    /\ sendUi' = "none"
    /\ UNCHANGED <<link, mToSend, enabled, tasks, posted, waitTimer, debounceTimer, mSending,
                   mNdefSent, mNdefReceived, mInDebounce, history, counts>>

DebounceTimerDue ==
    /\ UiIdle /\ debounceTimer
    /\ debounceTimer' = FALSE /\ looper' = "debounce"
    /\ UNCHANGED <<link, mSendState, mToSend, enabled, tasks, posted, waitTimer, ui, history, counts>>

\* Mutant of DebounceTimeout: the send survives the link.
DebounceTimeout_KeepsState ==
    /\ looper = "debounce"
    /\ looper' = "idle"
    /\ IF mLinkState # "DEBOUNCE"
       THEN UNCHANGED <<mLinkState, mToSend, mSending, mInDebounce, sendUi>>
       ELSE mLinkState' = "DOWN" /\ mToSend' = Nothing /\ onP2pOutOfRange
    /\ UNCHANGED <<mLlcpServicesConnected, mLlcpConnectDelayed, clients, mSendState, enabled,
                   tasks, posted, waitTimer, debounceTimer, mNdefSent, mNdefReceived, history,
                   counts>>

DebounceTimeout ==
    /\ looper = "debounce"
    /\ looper' = "idle"
    /\ IF mLinkState # "DEBOUNCE"
       THEN UNCHANGED <<mLinkState, mSendState, mToSend, mSending, mInDebounce, sendUi>>
       ELSE /\ mLinkState' = "DOWN"
            /\ mSendState' = "NOTHING_TO_SEND"
            /\ mToSend' = Nothing
            /\ onP2pOutOfRange
    /\ UNCHANGED <<mLlcpServicesConnected, mLlcpConnectDelayed, clients, enabled, tasks, posted,
                   waitTimer, debounceTimer, mNdefSent, mNdefReceived, history, counts>>
----------------------------------------------------------------------------
(* mHandler's other messages, in the order they were posted. *)

Handles(m) == UiIdle /\ posted # <<>> /\ Head(posted) = m /\ posted' = Tail(posted)

HandleReceive ==
    /\ Handles("RECEIVE")
    /\ IF mLinkState = "DOWN"
       THEN UNCHANGED <<mSendState, tasks, mNdefReceived, sendUi>>
       ELSE /\ tasks' = IF mSendState = "SENDING" THEN SendCancelled(tasks) ELSE tasks
            /\ mSendState' = "NOTHING_TO_SEND"
            /\ mNdefReceived' = TRUE
            /\ sendUi' = "none"
    /\ UNCHANGED <<link, mToSend, enabled, timers, mSending, mNdefSent, mInDebounce, history, counts>>

HandleSendComplete ==
    /\ Handles("SEND_COMPLETE")
    /\ tasks' = Unreferenced(tasks, "send")
    /\ IF mLinkState = "DOWN" \/ mSendState # "SENDING"
       THEN UNCHANGED <<mSendState, debounceTimer, mSending, mNdefSent, sendUi>>
       ELSE /\ mSendState' = "COMPLETE"
            /\ debounceTimer' = FALSE
            /\ mSending' = FALSE /\ mNdefSent' = TRUE
            /\ sendUi' = "none"
    /\ UNCHANGED <<link, mToSend, enabled, waitTimer, looper, mNdefReceived, mInDebounce, history,
                   counts>>

HandleHandoverRefused ==
    /\ Handles("REFUSED")
    /\ tasks' = Unreferenced(tasks, "send")
    /\ IF mLinkState = "DOWN" \/ mSendState # "SENDING"
       THEN UNCHANGED <<mSendState, mSending, mNdefSent, sendUi>>
       ELSE /\ mSendState' = "NOTHING_TO_SEND"
            /\ mSending' = FALSE /\ mNdefSent' = FALSE
            /\ sendUi' = "none"
    /\ UNCHANGED <<link, mToSend, enabled, timers, mNdefReceived, mInDebounce, history, counts>>

\* A server thread posts what the peer pushed over a link, up or lost meanwhile.
PeerPushes ==
    /\ Disturb("receives")
    /\ counts.taps > 0
    /\ posted' = Append(posted, "RECEIVE")
    /\ UNCHANGED <<link, mSendState, mToSend, enabled, tasks, timers, ui, history>>
----------------------------------------------------------------------------
(* The serial executor.  A ConnectTask that has returned stays in the queue *)
(* until its onPostExecute, and no longer holds up the others.              *)

Current(i) == /\ i \in DOMAIN tasks /\ tasks[i].at # "done"
              /\ \A j \in 1 .. i - 1 : tasks[j].at = "done"
Runs(i, kind, at) == Current(i) /\ tasks[i].kind = kind /\ tasks[i].at = at
InBackground == UNCHANGED <<mLinkState, mLlcpServicesConnected, mLlcpConnectDelayed, mSendState,
                            mToSend, enabled, timers, ui, shared, offered, dropped, counts>>

\* Off the lock: connect to the handover, SNEP or NPP server.
ConnectTaskStarts(i) ==
    /\ Runs(i, "connect", "queued")
    /\ tasks' = [tasks EXCEPT ![i].at = "running"]
    /\ InBackground /\ UNCHANGED <<clients, posted, failed>>

\* Under the lock: hand the clients over, or close them when cancelled.
ConnectTaskReturns(i) ==
    /\ Runs(i, "connect", "running")
    /\ IF tasks[i].cancelled
       THEN tasks' = RemoveAt(tasks, i) /\ UNCHANGED <<clients, failed>>
       ELSE \E ok \in BOOLEAN :
              /\ tasks' = [tasks EXCEPT ![i].at = "done", ![i].ok = ok]
              /\ clients' = ok
              /\ failed' = ~ok
    /\ InBackground /\ UNCHANGED posted

\* onPostExecute and onLlcpServicesConnected, on the UI thread.
ConnectTaskPosts(i) ==
    /\ UiIdle
    /\ i \in DOMAIN tasks /\ tasks[i].at = "done"
    /\ LET rest == RemoveAt(tasks, i)
           serves == ~tasks[i].cancelled /\ tasks[i].ok /\ mLinkState = "UP"
           resumes == serves /\ mSendState = "SENDING"
       IN  /\ mLlcpServicesConnected' = (mLlcpServicesConnected \/ serves)
           /\ tasks' = IF resumes THEN WithSend(rest) ELSE rest
           /\ sendUi' = IF resumes /\ mInDebounce THEN "sending" ELSE sendUi
           /\ mInDebounce' = (mInDebounce /\ ~resumes)
    /\ UNCHANGED <<mLinkState, mLlcpConnectDelayed, clients, mSendState, mToSend, enabled, posted,
                   timers, mSending, mNdefSent, mNdefReceived, history, counts>>

\* Under the lock: take what to send, unless there is nothing to send any more.
SendTaskStarts(i) ==
    /\ Runs(i, "send", "queued")
    /\ tasks' = IF mLinkState = "UP" /\ mSendState = "SENDING"
                THEN [tasks EXCEPT ![i].at = "running", ![i].data = mToSend]
                ELSE RemoveAt(tasks, i)
    /\ InBackground /\ UNCHANGED <<clients, posted, failed>>

\* Off the lock: a handover is refused; a message, if there is one, is tried next.
SendTaskHandoverRefused(i) ==
    /\ Runs(i, "send", "running")
    /\ tasks[i].data.uris # Null
    /\ posted' = Append(posted, "REFUSED")
    /\ tasks' = IF tasks[i].data.ndef = Null
                THEN RemoveAt(tasks, i) ELSE [tasks EXCEPT ![i].data.uris = Null]
    /\ InBackground /\ UNCHANGED <<clients, failed>>

\* Off the lock: the peer says it has it.
SendTaskDelivers(i) ==
    /\ Runs(i, "send", "running") /\ tasks[i].open
    /\ tasks' = [tasks EXCEPT ![i].at = "delivered"]
    /\ InBackground /\ UNCHANGED <<clients, posted, failed>>

\* Off the lock: the connection breaks, or the peer does not take it.
SendTaskFails(i) ==
    /\ Runs(i, "send", "running")
    /\ tasks' = RemoveAt(tasks, i)
    /\ failed' = TRUE
    /\ InBackground /\ UNCHANGED <<clients, posted>>

\* onSendComplete posts, even when the task was cancelled meanwhile.
SendTaskCompletes(i) ==
    /\ Runs(i, "send", "delivered")
    /\ posted' = Append(posted, "SEND_COMPLETE")
    /\ tasks' = RemoveAt(tasks, i)
    /\ InBackground /\ UNCHANGED <<clients, failed>>
----------------------------------------------------------------------------
LinkEvent ==
    \/ onLlcpActivatedPending \/ onLlcpActivatedDown \/ onLlcpActivatedDebounce
    \/ onLlcpActivatedTwice \/ onLlcpFirstPacketReceived \/ onLlcpDeactivated

BinderCall ==
    \/ \E send, receive \in BOOLEAN : (send => receive) /\ enableDisable(send, receive)
    \/ invokeBeam

Timeout == WaitTimerDue \/ WaitForLinkTimeout \/ DebounceTimerDue \/ DebounceTimeout

Handler == HandleReceive \/ HandleSendComplete \/ HandleHandoverRefused

Executor == \E i \in DOMAIN tasks :
    \/ ConnectTaskStarts(i) \/ ConnectTaskReturns(i) \/ ConnectTaskPosts(i)
    \/ SendTaskStarts(i) \/ SendTaskHandoverRefused(i) \/ SendTaskDelivers(i)
    \/ SendTaskFails(i) \/ SendTaskCompletes(i)

Next == LinkEvent \/ BinderCall \/ onSendConfirmed \/ onCanceled \/ Timeout \/ Handler
            \/ PeerPushes \/ Executor

Spec == Init /\ [][Next]_vars

\* A timeout that stays scheduled expires, and the looper gets the monitor.
Fairness == /\ WF_vars(WaitTimerDue) /\ WF_vars(WaitForLinkTimeout)
            /\ WF_vars(DebounceTimerDue) /\ WF_vars(DebounceTimeout)

FairSpec == Spec /\ Fairness
----------------------------------------------------------------------------
Live(t) == ~t.cancelled

TypeOK ==
    /\ mLinkState \in LinkStates /\ mSendState \in SendStates
    /\ mToSend \in Offers
    /\ {mIsSendEnabled, mIsReceiveEnabled, mLlcpServicesConnected, mLlcpConnectDelayed, clients,
        waitTimer, debounceTimer, mSending, mNdefSent, mNdefReceived, mInDebounce, failed,
        dropped} \subseteq BOOLEAN
    /\ looper \in {"idle", "wait", "debounce"}
    /\ sendUi \in {"none", "waiting", "asking", "sending"}
    /\ shared \in Offers /\ offered \in Offers
    /\ counts \in [{"taps", "repeats", "beams", "receives", "switches"} -> Nat]
    /\ tasks \in Seq(Tasks) /\ posted \in Seq(Messages)

\* SENDING stands for one offer from the moment it was confirmed: nothing that happens
\* over lost links, second taps and manual beams lets a SendTask take another one.
SendsWhatWasConfirmed ==
    mSendState = "SENDING" => mToSend = offered /\ mLinkState # "DOWN"

\* A SendTask that is off the lock with its sockets open can reach the peer.
Sending(t) == t.kind = "send" /\ t.at = "running" /\ t.open

\* Nothing is sent before it was confirmed: a task that can reach the peer carries what the
\* user confirmed last, for the link that is up, and no other offer waits.  And a SENDING
\* link that is up is being worked on (connecting, sending, or reporting the end) until an
\* attempt fails, or an activation too many dropped the connect that waited for the user:
\* then P2pLinkManager.java:468 leaves the send with nobody working on it.
SendingIsUnderway ==
    /\ \A i \in DOMAIN tasks : Sending(tasks[i]) =>
         /\ mLinkState = "UP" /\ mSendState \notin {"NEED_CONFIRMATION", "PENDING"}
         /\ tasks[i].data.ndef = offered.ndef /\ tasks[i].data.uris \in {offered.uris, Null}
    /\ (mSendState = "SENDING" /\ mLinkState = "UP" /\ ~failed /\ ~dropped) =>
         \/ \E i \in DOMAIN tasks : Live(tasks[i]) \/ tasks[i].at = "delivered"
         \/ \E i \in DOMAIN posted : posted[i] \in {"SEND_COMPLETE", "REFUSED"}

\* Clients are only held for a link that is up: one ConnectTask at a time makes them, and
\* what it hands over is released with the link, wherever the task was when it was lost.
ConnectsForTheLink ==
    /\ clients \/ mLlcpServicesConnected => mLinkState = "UP"
    /\ \A i, j \in DOMAIN tasks :
         (tasks[i].kind = "connect" /\ Live(tasks[i])) =>
            /\ mLinkState = "UP"
            /\ tasks[j].kind = "connect" /\ Live(tasks[j]) => i = j

\* The interface is not left on the screen when the peer is gone and no beam waits.
UiGoneWhenOutOfRange ==
    (mLinkState = "DOWN" /\ sendUi # "none") => mSendState = "PENDING"

\* A touch on the prompt is not lost: mSending of an earlier send is not still set.
TouchIsTaken ==
    sendUi = "asking" => ~mSending /\ mSendState = "NEED_CONFIRMATION" /\ mLinkState # "DOWN"

\* A manual beam that waits for the link waits for a timeout too.
PendingHasTimer ==
    mSendState = "PENDING" => mLinkState = "DOWN" /\ (waitTimer \/ looper = "wait")

\* A debounce waits for a timeout, unless the send it interrupted completed after all.
DebounceHasTimerUnlessSent ==
    mLinkState = "DEBOUNCE" => debounceTimer \/ looper = "debounce" \/ mNdefSent

\* P2pLinkManager.java:1127-1128: the timeout is for a link that did not come up; the
\* timer of a manual beam stops with it, until a second one is invoked.
WaitTimerMeansPending ==
    (waitTimer /\ counts.beams = 1) => mSendState = "PENDING"

\* mSendTask and mConnectTask refer to one task each, a ConnectTask that is not cancelled is
\* the one mConnectTask refers to, and none is at work once the services are connected.
\* Only a ConnectTask waits for its onPostExecute.
TasksAreReferred ==
    /\ \A i \in DOMAIN tasks : tasks[i].at = "done" => tasks[i].kind = "connect"
    /\ \A i, j \in DOMAIN tasks :
         tasks[i].ref /\ tasks[j].ref /\ tasks[i].kind = tasks[j].kind => i = j
    /\ \A i \in DOMAIN tasks : tasks[i].kind = "connect" /\ Live(tasks[i]) =>
         tasks[i].ref /\ ~mLlcpServicesConnected

\* While the user is asked the services of a link that is up are connected, or being
\* connected, or will be once the user has answered; and in the last case not before.
\* Only a first packet puts that off.
ConnectsForThePrompt ==
    /\ mLinkState = "WAITING_PDU" => ~mLlcpConnectDelayed
    /\ mLinkState = "UP" /\ mSendState = "NEED_CONFIRMATION" =>
         LET connecting == \E i \in DOMAIN tasks : tasks[i].kind = "connect" /\ Live(tasks[i])
         IN  /\ ~failed /\ ~dropped =>
                  mLlcpServicesConnected \/ mLlcpConnectDelayed \/ connecting
             /\ mLlcpConnectDelayed => ~connecting

\* A connection that failed is known to have failed until a new attempt begins.
FailureIsKept ==
    \A i \in DOMAIN tasks :
        tasks[i].kind = "connect" /\ Live(tasks[i]) /\ tasks[i].at = "done" /\ ~tasks[i].ok => failed

\* The interface shows a beam that is waiting, asked for or being sent, and such a beam
\* belongs to a tap in which nothing was sent or received yet.
UiShowsTheBeam ==
    /\ mLinkState = "DOWN" => ~mSending /\ mSendState # "NEED_CONFIRMATION"
    /\ sendUi # "none" => mSendState \in {"NEED_CONFIRMATION", "PENDING", "SENDING"}
    /\ mSendState \in {"NEED_CONFIRMATION", "PENDING", "SENDING"} => ~mNdefSent /\ ~mNdefReceived

\* A timeout of a manual beam is there since a beam, and a second one since a second beam.
WaitTimersAreBeams ==
    /\ waitTimer \/ looper = "wait" => counts.beams > 0
    /\ waitTimer /\ looper = "wait" => counts.beams > 1

\* The link, the tasks, the interface, the timers and what waits for them fit together.
IndInv ==
    /\ TypeOK
    /\ SendsWhatWasConfirmed
    /\ SendingIsUnderway
    /\ ConnectsForTheLink
    /\ UiGoneWhenOutOfRange
    /\ TouchIsTaken
    /\ PendingHasTimer
    /\ DebounceHasTimerUnlessSent
    /\ WaitTimerMeansPending
    /\ TasksAreReferred
    /\ ConnectsForThePrompt
    /\ FailureIsKept
    /\ UiShowsTheBeam
    /\ WaitTimersAreBeams

\* A manual beam stops waiting for its link, however links and messages come and go.
BeamEnds == (mSendState = "PENDING") ~> (mSendState # "PENDING")
============================================================================
