---------------------------- MODULE MifareExtns ----------------------------
(***************************************************************************)
(* The NDEF operations on a Mifare Classic card, from the call the JNI     *)
(* waits for to the bytes on the card:                                     *)
(*   nci/jni/NativeNfcTag.cpp starts an operation and waits for its event; *)
(*   extns/.../mifare/phNxpExtns_MifareStd.c starts the automaton of       *)
(*     MifareMap, sends its commands as frames, feeds it the answers and   *)
(*     posts the event from a completion routine;                          *)
(*   the card (not part of the repository) obeys the frames.               *)
(* The card may be taken away and brought back between any two of them.    *)
(* Raw commands of an application (Mfc_Transceive) are left out.           *)
(***************************************************************************)
EXTENDS MifareMap

CONSTANTS Cards,      \* the cards that may be presented
          Contents,   \* the messages an application may write
          Keys,       \* key1 and key2 of NativeNfcTag.cpp, in that order
          Careful,    \* does the application check again after a failure, and after a
                      \* write before it reads?
          MaxOps,     \* bound on the operations started
          MaxLosses   \* bound on the times the card is taken away

VARIABLES map,    \* NdefMap
          ext,    \* gphNxpExtns_Context, NdefInfo, gAuthCmdBuf, mTimerInfo
          out,    \* the frames sent to the card and not yet answered
          card,   \* the card
          jni     \* the operation NativeNfcTag.cpp waits for and its last event

vars == <<map, ext, out, card, jni>>

NoEvent == [name |-> "none"]
NoMessage == <<0 - 1>>
NoBlock == 999

(* card.auth when no sector is authenticated. *)
NoSector == 100
Halted == 101

-----------------------------------------------------------------------------
(* What is on a card: mem are the bytes of its NDEF area in order, a function
   from 0 on; Message the message its TLV holds, by the definition of the NDEF
   TLV and not as the code finds it. *)

Area(c) == UNION {FirstBlock(s) .. TrailerOf(s) - 1 : s \in c.dir \ {16}}
PlaceOf(c, b) == 16 * Cardinality({x \in Area(c) : x < b})

Message(c) ==
    LET after == {i \in DOMAIN c.mem : c.mem[i] # NULLTLV}
        t == Least(after)
        long == c.mem[t + 1] = LONG
        len == IF long THEN 256 * c.mem[t + 2] + c.mem[t + 3] ELSE c.mem[t + 1]
        from == t + (IF long THEN 4 ELSE 2)
    IN IF after = {} \/ c.mem[t] # NDEFTLV \/ from + len - 1 \notin DOMAIN c.mem
       THEN NoMessage
       ELSE [i \in 1 .. len |-> c.mem[from + i - 1]]

Locked(c) == \A s \in c.dir : c.tr[s].acs = "ro"

-----------------------------------------------------------------------------
(* The card.  A failed authentication or a refused command halts it until it *)
(* is selected again; a write is a command and then the sixteen bytes.       *)

KeyFits(key, s) ==
    CASE key = "mad" -> s \in {0, 16}
      [] key = "nfc" -> s \in card.dir
      [] OTHER -> s \in card.dir /\ card.tr[s].keyB = key

Obeyed(f) ==
    /\ card.near
    /\ CASE f.cmd = "auth" -> card.auth # Halted /\ KeyFits(f.key, SectorOf(f.block))
         [] f.cmd = "read" -> card.auth = SectorOf(f.block)
         [] f.cmd = "write" ->
               /\ card.auth = SectorOf(f.block)
               /\ IF IsTrailer(f.block) THEN card.key \in {"key1", "key2"}
                                        ELSE card.tr[SectorOf(f.block)].acs = "rw"
         [] f.cmd = "payload" -> card.awaits # NoBlock /\ f.fresh

Answer(f) ==
    CASE f.cmd # "read" -> "none"
      [] f.cmd = "read" /\ IsTrailer(f.block) -> card.tr[SectorOf(f.block)]
      [] f.cmd = "read" /\ f.block \in MadBlocks -> card.dir
      [] OTHER -> [i \in Bytes |-> card.mem[PlaceOf(card, f.block) + i]]

Obeying(f) ==
    IF ~Obeyed(f) THEN [card EXCEPT !.auth = Halted, !.key = "none", !.awaits = NoBlock]
    ELSE CASE f.cmd = "auth" -> [card EXCEPT !.auth = SectorOf(f.block), !.key = f.key]
           [] f.cmd = "write" -> [card EXCEPT !.awaits = f.block]
           [] f.cmd = "payload" /\ IsTrailer(card.awaits) ->
                 [card EXCEPT !.tr[SectorOf(card.awaits)] =
                     [acs |-> f.data.acs, gpb |-> f.data.gpb, keyB |-> card.key],
                     !.awaits = NoBlock]
           [] f.cmd = "payload" /\ ~IsTrailer(card.awaits) ->
                 LET p == PlaceOf(card, card.awaits)
                 IN [card EXCEPT !.mem = [i \in DOMAIN @ |-> IF i \in p .. p + 15
                                                              THEN f.data[i - p] ELSE @[i]],
                                 !.awaits = NoBlock]
           [] OTHER -> card

(* Selected: authenticated for nothing. *)
Selected(c) == [c EXCEPT !.auth = NoSector, !.key = "none", !.awaits = NoBlock]

-----------------------------------------------------------------------------
(* Sending: phFriNfc_ExtnsTransceive and what it calls.  An authentication is
   kept in gAuthCmdBuf; a write leaves its payload in sSendData and sets
   writecmdFlag; any other command overwrites sSendData. *)

Frame(e, req) == IF req.cmd = "auth" /\ req.key = "userB" THEN [req EXCEPT !.key = e.key]
                                                          ELSE req

Sent(e, req) ==
    CASE req.cmd = "auth" -> [e EXCEPT !.lastAuth = Frame(e, req), !.fresh = FALSE]
      [] req.cmd = "read" -> [e EXCEPT !.fresh = FALSE]
      [] req.cmd = "write" -> [e EXCEPT !.writecmd = TRUE, !.payload = req.data,
                                          !.fresh = TRUE]
      [] OTHER -> e

Sends(e, q, req) == IF req = NoReq THEN q ELSE Append(q, Frame(e, req))

-----------------------------------------------------------------------------
(* Completion, and the event the JNI gets. *)

(* phFrinfc_MifareClassic_GetContainerSize. *)
ContainerSize(m) ==
    LET first == Least(m.aid)
        run == {s \in m.aid : \A t \in first .. s : t \in m.aid \/ t = 16}
        big == {s \in run : m.cardType # "1K" /\ s >= 32}
        n == 48 * Cardinality(run \ big) + 240 * Cardinality(big)
    IN IF n >= LongFrom THEN n - 4 ELSE n - 2

(* An event ends the operation that waits for it; the result of a check that
   nobody waits for is dropped. *)
AwaitedBy(name) ==
    CASE name = "detect" -> "check" [] name \in {"data", "readCplt"} -> "read"
      [] name = "writeCplt" -> "write" [] name = "setRo" -> "lock" [] OTHER -> "presence"

(* Mutant: a failure ends no operation. *)
ToldSuccess(j, ev) ==
    IF ev.ok THEN [j EXCEPT !.ev = ev, !.forOp = j.op, !.op = "none"] ELSE j

Told(j, ev) ==
    LET mine == j.op = AwaitedBy(ev.name)
        again == mine /\ j.op = "lock" /\ ~ev.ok /\ j.tries = 1
    IN IF ev.name = "detect" /\ ~mine THEN j
       ELSE [j EXCEPT !.ev = ev, !.forOp = j.op,
                 !.op = IF mine /\ ~again THEN "none" ELSE @,
                 !.retry = again,
                 !.fresh = @ \/ ev.name = "detect",
                 !.checked = @ \/ (ev.name = "detect" /\ ev.ok),
                 !.sound = ev.ok /\ (@ \/ ev.name = "detect"),
                 !.size = IF ev.name = "detect" THEN ev.cur ELSE @]

(* Mfc_CheckNdef_Completion_Routine. *)
CheckDone(m, e, j) ==
    LET ok == m.res = "ok"
        max == IF ok THEN ContainerSize(m) ELSE 0
        cur == IF ok THEN m.bytesRem ELSE 0
    IN [ext |-> [e EXCEPT !.isNdef = ok, !.actual = cur, !.max = IF ok THEN max ELSE @,
                          !.timers = @ \ {"latest"}],
        jni |-> Told(j, [name |-> "detect", ok |-> ok, cur |-> cur, max |-> max,
                         ro |-> ok /\ m.cardState = "readOnly"])]

(* Mfc_ReadNdef_Completion_Routine: hands the buffer over and frees it. *)
ReadDone(m, e, j) ==
    [ext |-> [e EXCEPT !.buffer = FALSE],
     jni |-> Told(j, IF m.res = "ok" THEN [name |-> "data", ok |-> e.buffer, data |-> m.got]
                                     ELSE [name |-> "readCplt", ok |-> FALSE])]

(* Mfc_WriteNdef_Completion_Routine and Mfc_SetRdOnly_Completion_Routine. *)
WriteDone(m, e, j) ==
    [ext |-> e, jni |-> Told(j, [name |-> "writeCplt", ok |-> m.res = "ok"])]
LockDone(m, e, j) ==
    [ext |-> e, jni |-> Told(j, [name |-> "setRo", ok |-> m.res = "ok"])]

(* phFriNfc_MifStd_H_Complete: the completion routine CRIndex selects. *)
Completed(m, e, j) ==
    CASE m.crIndex = 1 -> ReadDone(m, e, j)
      [] m.crIndex = 2 -> WriteDone(m, e, j)
      [] m.crIndex = 0 /\ e.cr0 = "check" -> CheckDone(m, e, j)
      [] OTHER -> LockDone(m, e, j)

(* The automaton has moved on to m: its next frame, or its completion. *)
MovesOn(m, e, j, q) ==
    LET c == IF m.done THEN Completed(m, e, j) ELSE [ext |-> Sent(e, m.req), jni |-> j]
    IN /\ map' = [m EXCEPT !.done = FALSE, !.req = NoReq]
       /\ ext' = c.ext
       /\ jni' = c.jni
       /\ out' = IF m.done THEN q ELSE Sends(e, q, m.req)

-----------------------------------------------------------------------------
(* The operations.  None starts before the last has ended (NativeNfcTag.java *)
(* is synchronized).                                                         *)

Starts(j, op) == [j EXCEPT !.op = op, !.ev = NoEvent, !.forOp = "none", !.ops = @ + 1,
                           !.tries = 1, !.lost = FALSE, !.clean = TRUE, !.data = <<>>]

MayStart == jni.op = "none" /\ jni.active /\ jni.ops < MaxOps

(* nativeNfcTag_doCheckNdef and Mfc_CheckNdef: the card is selected anew,
   which ends what was outstanding; mTimerInfo is cleared, a timer still
   running is not stopped. *)
CheckNdef ==
    LET m == ChkNdef(HReset(map), card.type)
        e == [ext EXCEPT !.cr0 = "check",
                         !.timers = IF "latest" \in @ THEN {"latest", "stale"}
                                                      ELSE @ \cup {"latest"}]
        j == Starts(jni, "check")
    IN /\ MayStart
       /\ card.near
       /\ card' = Selected(card)
       /\ MovesOn([m EXCEPT !.done = FALSE], e,
                  [j EXCEPT !.clean = ~ext.writecmd /\ ext.timers = {} /\ ~map.found],
                  <<>>)

(* nativeNfcTag_doRead and Mfc_ReadNdef with phFriNfc_ValidateParams: a card
   found empty is not read; whether the read was started is not looked at. *)
ReadNdef ==
    LET legal == ext.isNdef /\ ext.actual > 0
                 /\ map.cardState \notin {"invalid", "initialized"}
        m == [RdNdef([map EXCEPT !.idx = 0, !.dataCount = 0], ext.actual)
                EXCEPT !.done = FALSE]
        started == legal /\ m.res = "pending"
        e == [ext EXCEPT !.buffer = started]
        j == Starts(jni, "read")
    IN /\ MayStart
       /\ jni.size > 0
       /\ Careful => jni.sound /\ jni.fresh
       /\ UNCHANGED card
       /\ IF legal THEN MovesOn(m, e, j, out)
          ELSE /\ ext' = e
               /\ jni' = j
               /\ UNCHANGED <<map, out>>

(* nativeNfcTag_doWrite and Mfc_WriteNdef. *)
WriteNdef(data) ==
    LET legal == ext.isNdef /\ Len(data) <= ext.max
                 /\ map.cardState \notin {"invalid", "readOnly"}
        m == [WrNdef([map EXCEPT !.idx = 0, !.dataCount = 0], data) EXCEPT !.done = FALSE]
        j == [Starts(jni, "write") EXCEPT !.data = data, !.fresh = FALSE]
    IN /\ MayStart
       /\ jni.checked
       /\ Careful => jni.sound
       /\ UNCHANGED card
       /\ IF legal
          THEN MovesOn(m, ext, IF m.res = "pending" THEN j ELSE [j EXCEPT !.op = "none"], out)
          ELSE /\ jni' = [j EXCEPT !.op = "none"]
               /\ UNCHANGED <<map, ext, out>>

(* Mfc_SetReadOnly with one of the keys: on an empty message nothing is done,
   and that is success. *)
SetReadOnly(j, key) ==
    LET e == [ext EXCEPT !.cr0 = "readonly", !.key = key]
        m == [ConvertToReadOnly(map) EXCEPT !.done = FALSE]
        pending == ext.isNdef /\ ext.actual > 0 /\ m.res = "pending"
        waits == pending \/ (ext.isNdef /\ ext.actual = 0)
    IN /\ card' = Selected(card)
       /\ IF pending THEN MovesOn(m, e, j, <<>>)
          ELSE /\ ext' = e
               /\ out' = <<>>
               /\ jni' = [j EXCEPT !.op = IF waits THEN @ ELSE "none"]
               /\ UNCHANGED map

(* nativeNfcTag_doMakeReadonly: with key1, and when that has failed with key2,
   each time on the card selected anew. *)
MakeReadonly ==
    /\ MayStart
    /\ card.near
    /\ Careful => jni.sound
    /\ SetReadOnly(Starts(jni, "lock"), Keys[1])

MakeReadonlyAgain ==
    /\ jni.op = "lock"
    /\ jni.retry
    /\ card.near
    /\ SetReadOnly([jni EXCEPT !.retry = FALSE, !.tries = 2, !.ev = NoEvent], Keys[2])

(* Mfc_PresenceCheck: the last authentication once more.  Not while another
   command is outstanding. *)
PresenceCheck ==
    /\ MayStart
    /\ ext.authStatus
    /\ out = <<>>
    /\ jni' = Starts(jni, "presence")
    /\ ext' = [ext EXCEPT !.authSent = TRUE]
    /\ out' = Append(out, ext.lastAuth)
    /\ UNCHANGED <<map, card>>

(* EXTNS_GetPresenceCheckStatus gives up after a tenth of a second. *)
PresenceTimesOut ==
    /\ jni.op = "presence"
    /\ ~card.near
    /\ jni' = [jni EXCEPT !.op = "none", !.sound = FALSE]
    /\ UNCHANGED <<map, ext, out, card>>

-----------------------------------------------------------------------------
(* The answers. *)

(* gAuthCmdBuf and ExtnsCallBack after phNciNfc_RecvMfResp saw the answer to f. *)
AuthSeen(f, ok) ==
    IF f.cmd # "auth" THEN ext
    ELSE IF ext.authSent THEN [ext EXCEPT !.authStatus = @ /\ ok]
    ELSE [ext EXCEPT !.authStatus = ok, !.lastAuth = IF ok THEN @ ELSE NoReq]

(* nativeNfcTag_doTransceiveStatus and Mfc_RecvPacket: the answer to a presence
   check goes no further; the payload follows the write command; everything
   else is for the automaton. *)
CardAnswers ==
    /\ out # <<>>
    /\ LET f == Head(out)
           ok == Obeyed(f)
           e == AuthSeen(f, ok)
           rest == Tail(out)
           payload == [cmd |-> "payload", data |-> ext.payload, fresh |-> ext.fresh]
       IN /\ card' = Obeying(f)
          /\ IF ext.authSent
             THEN /\ ext' = [e EXCEPT !.authSent = FALSE]
                  /\ out' = rest
                  /\ jni' = IF f.cmd = "auth"
                            THEN Told(jni, [name |-> "present", ok |-> ok]) ELSE jni
                  /\ UNCHANGED map
             ELSE IF ok /\ ext.writecmd
             THEN /\ ext' = [e EXCEPT !.writecmd = FALSE]
                  /\ out' = Append(rest, payload)
                  /\ UNCHANGED <<map, jni>>
             ELSE MovesOn(Process(map, ok, Answer(f)), e, jni, rest)

(* An RF error: the frame is lost, the card halts. *)
CardGlitches ==
    /\ out # <<>>
    /\ card.near
    /\ jni.losses < MaxLosses
    /\ LET f == Head(out)
           e == AuthSeen(f, FALSE)
           j == [jni EXCEPT !.losses = @ + 1, !.lost = TRUE]
       IN /\ card' = [Selected(card) EXCEPT !.auth = Halted]
          /\ IF ext.authSent
             THEN /\ ext' = [e EXCEPT !.authSent = FALSE]
                  /\ jni' = IF f.cmd = "auth"
                            THEN Told(j, [name |-> "present", ok |-> FALSE]) ELSE j
                  /\ out' = Tail(out)
                  /\ UNCHANGED map
             ELSE MovesOn(Process(map, FALSE, "none"), e, j, Tail(out))

(* nativeNfcTag_doReconnect on its own: the application connects again. *)
Reconnect ==
    /\ jni.op = "none"
    /\ jni.active
    /\ card.near
    /\ card.auth = Halted
    /\ card' = Selected(card)
    /\ out' = <<>>
    /\ UNCHANGED <<map, ext, jni>>

(* Mfc_CheckNdef_timeoutcb_Routine, two seconds after a check began: the
   latest timer, or one of an earlier check that nothing stopped. *)
CheckTimesOut(timer) ==
    /\ timer \in ext.timers
    /\ timer = "latest" => (jni.op = "check" => ~card.near \/ out = <<>>)
    /\ ext' = [ext EXCEPT !.timers = @ \ {timer}, !.isNdef = FALSE, !.actual = 0]
    /\ jni' = Told(jni, [name |-> "detect", ok |-> FALSE, cur |-> 0, max |-> 0, ro |-> FALSE])
    /\ UNCHANGED <<map, out, card>>

-----------------------------------------------------------------------------
(* The card comes and goes. *)

CardLeaves ==
    /\ card.near
    /\ jni.losses < MaxLosses
    /\ card' = [Selected(card) EXCEPT !.near = FALSE]
    /\ jni' = [jni EXCEPT !.losses = @ + 1, !.lost = TRUE]
    /\ UNCHANGED <<map, ext, out>>

(* nfaConnectionCallback NFA_DEACTIVATED_EVT: nativeNfcTag_resetPresenceCheck
   and nativeNfcTag_abortWaits.  The automaton is not told. *)
Deactivated ==
    /\ ~card.near
    /\ jni.active
    /\ out' = <<>>
    /\ ext' = [ext EXCEPT !.authSent = FALSE]
    /\ jni' = [jni EXCEPT !.op = "none", !.active = FALSE, !.retry = FALSE, !.size = 0,
                       !.checked = FALSE, !.sound = FALSE]
    /\ UNCHANGED <<map, card>>

(* NFA_ACTIVATED_EVT: the card is back, and connected. *)
Activated ==
    /\ ~card.near
    /\ ~jni.active
    /\ card' = [card EXCEPT !.near = TRUE]
    /\ jni' = [jni EXCEPT !.active = TRUE]
    /\ ext' = [ext EXCEPT !.authSent = FALSE]
    /\ out' = <<>>
    /\ UNCHANGED map

Init ==
    /\ map = InitMap
    /\ ext = [writecmd |-> FALSE, payload |-> <<>>, fresh |-> FALSE, authSent |-> FALSE,
              authStatus |-> FALSE, lastAuth |-> NoReq, cr0 |-> "none",
              isNdef |-> FALSE, actual |-> 0, max |-> 0, buffer |-> FALSE, key |-> "none",
              timers |-> {}]
    /\ out = <<>>
    /\ card \in {[type |-> c.type, dir |-> c.dir, mem |-> c.mem, tr |-> c.tr, near |-> TRUE,
                  auth |-> NoSector, key |-> "none", awaits |-> NoBlock] : c \in Cards}
    /\ jni = [op |-> "none", ev |-> NoEvent, forOp |-> "none", size |-> 0, tries |-> 0,
              retry |-> FALSE, active |-> TRUE, data |-> <<>>, ops |-> 0, losses |-> 0,
              lost |-> FALSE, clean |-> TRUE, fresh |-> FALSE, checked |-> FALSE,
              sound |-> FALSE]

Next ==
    \/ CheckNdef
    \/ ReadNdef
    \/ \E data \in Contents : WriteNdef(data)
    \/ MakeReadonly
    \/ MakeReadonlyAgain
    \/ PresenceCheck
    \/ PresenceTimesOut
    \/ CardAnswers
    \/ CardGlitches
    \/ Reconnect
    \/ \E timer \in {"latest", "stale"} : CheckTimesOut(timer)
    \/ CardLeaves
    \/ Deactivated
    \/ Activated

Spec == Init /\ [][Next]_vars
(* Fairness: a card in the field answers and the NFC controller reports one
   that does not; the timers run; a deactivation is reported.  The first is
   WF_vars(CardAnswers), with the condition of CardAnswers written out. *)
FairSpec ==
    /\ Spec
    /\ []<>(out = <<>>) \/ []<><<CardAnswers>>_vars
    /\ WF_vars(CheckTimesOut("latest"))
    /\ WF_vars(Deactivated)

-----------------------------------------------------------------------------
(* Properties. *)

TypeOK ==
    /\ map.cardState \in {"invalid", "initialized", "readWrite", "readOnly"}
    /\ map.cur \in 0 .. 255
    /\ map.remaining \in 0 .. 65535
    /\ map.crIndex \in 0 .. 2
    /\ map.aid \subseteq 0 .. 39
    /\ ~map.done /\ map.req = NoReq
    /\ ext.timers \subseteq {"latest", "stale"}
    /\ ext.cr0 \in {"none", "check", "readonly"}
    /\ \A i \in DOMAIN out : out[i].cmd \in {"auth", "read", "write", "payload"}
    /\ jni.op \in {"none", "check", "read", "write", "lock", "presence"}

Reply ==
    LET own == jni.ev.name # "none" /\ jni.forOp = AwaitedBy(jni.ev.name)
    IN IF ~own THEN [op |-> "none"]
       ELSE [op |-> jni.forOp, ok |-> jni.ev.ok,
             data |-> IF jni.ev.name = "data" THEN jni.ev.data ELSE <<>>,
             size |-> IF jni.ev.name = "detect" THEN jni.ev.cur ELSE 0,
             ro |-> jni.ev.name = "detect" /\ jni.ev.ro]

Storage ==
    INSTANCE NdefStorage WITH
        message <- Message(card), locked <- Locked(card),
        doing <- [op |-> jni.op, data |-> jni.data], reply <- Reply

(* The operations do what they say, wherever the card is taken away: a read
   returns the message on the card, a write that reports success has stored
   the new message and one that is cut off leaves the old, the new or an empty
   one, a check reports the size and the lock as they are, and a card reported
   locked has no writable sector left in its NDEF area. *)
StorageSpec == Storage!Spec

(* A check that nothing disturbed finds a message exactly when there is one. *)
CheckAgreesWithTheCard ==
    jni.ev.name = "detect" /\ jni.forOp = "check" /\ jni.clean /\ ~jni.lost
        => (jni.ev.ok <=> Message(card) # NoMessage)

(* No frame ever writes outside the blocks of the NDEF application, and a
   sector trailer is written by the conversion alone. *)
WritesStayInTheArea ==
    \A i \in DOMAIN out :
        out[i].cmd = "write" =>
            IF IsTrailer(out[i].block)
            THEN ext.cr0 = "readonly" /\ SectorOf(out[i].block) \in card.dir
            ELSE out[i].block \in Area(card)

(* The state has its types, and the card keeps what is not of its message. *)
MifareInv == TypeOK /\ WritesStayInTheArea

(* A check or a write does not leave its caller waiting for ever. *)
CheckAndWriteEnd == jni.op \in {"check", "write"} ~> jni.op = "none"
=============================================================================
