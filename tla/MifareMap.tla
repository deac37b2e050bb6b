----------------------------- MODULE MifareMap -----------------------------
(***************************************************************************)
(* The NDEF mapping of Mifare Classic cards,                               *)
(* nci/jni/extns/pn54x/src/mifare/phFriNfc_MifareStdMap.c: checking,       *)
(* reading, writing and locking the NDEF message of a card whose NFC Forum *)
(* sectors the Mifare Application Directory names.                         *)
(*                                                                         *)
(* The C code is an automaton: an entry point (ChkNdef, RdNdef, WrNdef,    *)
(* ConvertToReadOnly) issues one card command and returns PENDING; the     *)
(* answer to it calls Process, which issues the next command or ends the   *)
(* operation by calling a completion routine.  Here m is the structure     *)
(* phFriNfc_NdefMap_t.  Every function of the C code is an operator from m *)
(* to the m it leaves; m.res is the status it returns ("ok", "pending" or  *)
(* "fail"), m.req the command it has issued, m.done whether Process called *)
(* the completion routine.  MifareExtns makes the actions of them.         *)
(*                                                                         *)
(* Bytes are numbers.  A data block is a function on 0 .. 15, SendRecvBuf  *)
(* one on 0 .. 16 as in the code: position 0 holds the block number when a *)
(* block is written.  Of a sector trailer (keys, access bits, general      *)
(* purpose byte) only what the code tells apart is kept.  The operations   *)
(* are those the extension library asks for, which always start at the     *)
(* beginning of the message (PH_FRINFC_NDEFMAP_SEEK_BEGIN).                *)
(***************************************************************************)
EXTENDS Integers, Sequences, FiniteSets

CONSTANT LongFrom   \* the shortest message with a three byte length (255)

ASSUME LongFromAssumption == LongFrom \in 3 .. 255

NULLTLV == 0
NDEFTLV == 3
TERMTLV == 254
LONG == 255      \* PH_FRINFC_MIFARESTD_NDEFTLV_L

Bytes == 0 .. 15
Word(n) == n % 65536      \* uint16_t
Least(S) == CHOOSE x \in S : \A y \in S : x <= y
Lower(a, b) == IF a < b THEN a ELSE b

-----------------------------------------------------------------------------
(* The geometry of the cards. *)

Sectors(type) == CASE type = "1K" -> 16 [] type = "2K" -> 32 [] OTHER -> 40
BlockCount(type) == CASE type = "1K" -> 64 [] type = "2K" -> 128 [] OTHER -> 256

SectorOf(b) == IF b >= 128 THEN 32 + (b - 128) \div 16 ELSE b \div 4
FirstBlock(s) == IF s < 32 THEN 4 * s ELSE 128 + 16 * (s - 32)
TrailerOf(s) == IF s < 32 THEN 4 * s + 3 ELSE 128 + 16 * (s - 32) + 15
IsTrailer(b) == b = TrailerOf(SectorOf(b))
MadBlocks == {0, 1, 2, 64, 65, 66}

CompBlocks(type) == CASE type = "1K" -> 45 [] type = "2K" -> 90 [] OTHER -> 210

-----------------------------------------------------------------------------
(* phFriNfc_NdefMap_t as phNxpExtns_MfcModuleInit leaves it. *)

NoReq == [cmd |-> "none"]

InitMap ==
    [state |-> "reset", prevOp |-> "none", crIndex |-> 0, cardType |-> "none",
     cardState |-> "invalid", size |-> 0, idx |-> 0, apdu |-> <<>>, got |-> <<>>,
     numWritten |-> 0, dataCount |-> 0,
     cur |-> 0, aid |-> {}, ilen |-> 0,
     authDone |-> FALSE, ndefBlocks |-> 0, nComp |-> 0, readAcs |-> FALSE,
     remSizeUpd |-> FALSE, remaining |-> 0, readNdef |-> FALSE, wrNdef |-> FALSE,
     chkNdef |-> FALSE, aidComplete |-> FALSE, nfcSect |-> FALSE, propSect |-> 1,
     readComplete |-> FALSE, chkComplete |-> FALSE, remBufFlag |-> FALSE,
     rdBeforeWr |-> FALSE, rdAfterWr |-> FALSE, tempBlock |-> 0,
     roSector |-> 0, trailer |-> 0, writeAcs |-> FALSE, readFlag |-> FALSE,
     noL |-> 0, prevLen |-> 0, bytesRem |-> 0, tlvBlock |-> 0, tlvByte |-> 0,
     nulls |-> 0, found |-> FALSE, tlvAuth |-> FALSE, setTerm |-> FALSE,
     buf |-> [i \in 0 .. 16 |-> 0], cr |-> FALSE, req |-> NoReq, res |-> "ok", done |-> FALSE]

Ok(m) == [m EXCEPT !.res = "ok"]
Fail(m) == [m EXCEPT !.res = "fail"]
Transceive(m, req) == [m EXCEPT !.req = req, !.res = "pending"]

(* phFriNfc_MifareStdMap_H_Reset.  NdefTLVFoundFlag is not among the fields
   it clears. *)
HReset(m) ==
    [m EXCEPT !.cur = 0, !.aid = {}, !.ilen = 0, !.cardState = "initialized",
              !.remBufFlag = FALSE, !.authDone = FALSE,
              !.ndefBlocks = 0, !.nComp = 0, !.readAcs = FALSE,
              !.remSizeUpd = FALSE, !.noL = 0, !.prevLen = 0, !.bytesRem = 0,
              !.tlvBlock = 0, !.tlvByte = 0, !.nulls = 0, !.remaining = 0,
              !.readNdef = FALSE, !.wrNdef = FALSE, !.chkNdef = FALSE,
              !.aidComplete = FALSE, !.nfcSect = FALSE, !.propSect = 1,
              !.readComplete = FALSE, !.chkComplete = FALSE, !.roSector = 0,
              !.trailer = 0, !.res = "ok"]

(* The converted sector's trailer is the current block. *)
AtConvertedTrailer(m) == m.roSector # 0 /\ m.trailer = m.cur

(* phFriNfc_MapTool_SetCardState: the card state once the length is known. *)
SetCardState(m, len) ==
    LET st == CASE m.cardState = "readOnly" -> IF len = 0 THEN "invalid" ELSE "readOnly"
                [] m.cardState = "initialized" -> IF len = 0 THEN "initialized" ELSE "readWrite"
                [] m.cardState = "readWrite" /\ len = 0 -> "initialized"
                [] m.cardState = "readWrite" /\ len # 0 ->
                      IF AtConvertedTrailer(m) THEN "readOnly" ELSE "readWrite"
                [] OTHER -> "invalid"
    IN [m EXCEPT !.cardState = st, !.res = IF st = "invalid" THEN "fail" ELSE "ok"]

-----------------------------------------------------------------------------
(* Which block comes next, and the commands. *)

(* phFriNfc_MifStd_H_BlkChk: from the current block to the first block of the
   message area at or after it: no trailer, no sector without the NDEF
   application, no directory sector.  At the first block of a sector the card
   has to be authenticated again, unless bytes are kept back in internalBuf.
   currentBlock is a uint8_t: on a 4K card the search wraps to block 0. *)
MessageBlocks(m) ==
    {b \in 0 .. BlockCount(m.cardType) - 1 :
        ~IsTrailer(b) /\ SectorOf(b) \in m.aid \ {16}}

(* Mutant: a whole block is written wherever the last one ended. *)
BlkChkNotForWholeBlocks(m) ==
    LET area == MessageBlocks(m)
        next == Least({b \in area : b >= m.cur} \cup {Least(area)})
    IN IF m.prevOp = "write" /\ m.size - m.idx >= 16 THEN [m EXCEPT !.res = "ok"]
       ELSE [m EXCEPT !.cur = next, !.res = "ok"]

BlkChk(m) ==
    LET area == MessageBlocks(m)
        ahead == {b \in area : b >= m.cur}
        next == IF ahead # {} THEN Least(ahead) ELSE Least(area)
    IN IF ahead = {} /\ (m.cardType # "4K" \/ area = {})
       THEN Fail([m EXCEPT !.cur = BlockCount(m.cardType) % 256])
       ELSE [m EXCEPT !.cur = next, !.res = "ok",
                      !.authDone = @ /\ ~(next = FirstBlock(SectorOf(next)) /\ m.ilen = 0)]

(* phFriNfc_MifStd_H_AuthSector: the directory key for the directory blocks,
   the caller's key B for the trailer of a sector being converted, else the
   public NFC key. *)
AuthSector(m) ==
    LET key == IF AtConvertedTrailer(m) THEN "userB"
               ELSE IF m.cur \notin MadBlocks \/ m.tlvAuth THEN "nfc" ELSE "mad"
    IN Transceive([m EXCEPT !.state = "auth"],
                  [cmd |-> "auth", key |-> key,
                   block |-> IF m.tlvAuth THEN m.tlvBlock ELSE m.cur])

(* phFriNfc_MifStd_H_Rd16Bytes. *)
Rd16Bytes(m, b) == Transceive(m, [cmd |-> "read", block |-> b])

(* The write of the sixteen bytes that follow the block number in
   SendRecvBuf (phFriNfc_MifStd_H_WrTLV and its like). *)
WrTLV(m) ==
    Transceive(m, [cmd |-> "write", block |-> m.buf[0],
                   data |-> [i \in Bytes |-> m.buf[i + 1]]])

(* The next step of an operation on a block the card may have to be
   authenticated for. *)
AuthOr(m, next) ==
    IF m.res # "ok" THEN m ELSE IF m.authDone THEN next ELSE AuthSector(m)

(* phFriNfc_MifStd_H_GetActCardLen. *)
GetActCardLen(m) ==
    LET n == [m EXCEPT !.state = "getActCardSize", !.prevOp = "getActSize"]
    IN IF n.authDone THEN Rd16Bytes(n, n.cur) ELSE AuthSector(n)

(* phFriNfc_MifStd_H_RdAcsBit: after an authentication the trailer of the
   sector, otherwise the current block itself. *)
RdAcsBit(m) ==
    LET n == [m EXCEPT !.state = IF AtConvertedTrailer(m) THEN "rdSecAcsBit"
                                                          ELSE "rdAcsBit"]
    IN Rd16Bytes(n, IF m.readAcs THEN TrailerOf(SectorOf(m.cur)) ELSE m.cur)

(* phFriNfc_MifStd_H_RdABlock (nothing is kept back while a read that began at
   the beginning goes on). *)
RdABlock(m) ==
    LET n == [m EXCEPT !.state = "read", !.prevOp = "read"]
    IN IF n.idx < n.size THEN Rd16Bytes(n, n.cur)
       ELSE Ok(n)

(* phFriNfc_MifStd_H_RdTLV and phFriNfc_MifStd_H_RdBeforeWr. *)
RdTLV(m) == Rd16Bytes([m EXCEPT !.state = "rdTlv", !.prevOp = "read"], m.cur)
RdBeforeWr(m) == Rd16Bytes([m EXCEPT !.state = "rdBefWr", !.prevOp = "write"], m.cur)

(* phFriNfc_MifStd_H_SetNdefBlkAuth: is the block of the NDEF TLV in another
   sector than the current one? *)
SetNdefBlkAuth(m) ==
    [m EXCEPT !.tlvAuth = SectorOf(m.tlvBlock) # SectorOf(m.cur)]

(* phFriNfc_MifStd_H_RdtoWrNdefLen: reads the block the length goes to. *)
RdtoWrNdefLen(m) ==
    LET n == [m EXCEPT !.state = "rdToWrNdefLen"]
    IN IF n.tlvAuth THEN AuthSector([n EXCEPT !.authDone = FALSE])
                    ELSE Rd16Bytes(n, n.cur)

NextBlock(m) == [m EXCEPT !.cur = (@ + 1) % 256, !.ndefBlocks = @ + 1]

-----------------------------------------------------------------------------
(* The entry points. *)

(* phFriNfc_MifareStdMap_ChkNdef: called for the card and again for every
   directory block. *)
ChkNdef(m, type) ==
    LET n == [m EXCEPT !.prevOp = "check", !.crIndex = 0, !.nComp = CompBlocks(type),
                       !.remaining = IF m.cardType = "none" THEN CompBlocks(type) * 16
                                                            ELSE @,
                       !.cardType = type]
    IN IF n.cur \notin MadBlocks THEN Fail(n)
       ELSE IF ~n.authDone THEN AuthSector([n EXCEPT !.cur = IF @ = 0 THEN 1 ELSE @])
       ELSE Rd16Bytes([n EXCEPT !.state = "chkNdefComp", !.chkNdef = TRUE], n.cur)

(* phFriNfc_MifareStdMap_RdNdef with phFriNfc_MifStd_H_RdWrReset. *)
RdNdef(m, size) ==
    LET n == [m EXCEPT !.size = size, !.idx = 0, !.got = <<>>, !.prevOp = "read",
                       !.crIndex = 1]
        r == [n EXCEPT !.cur = 4, !.ndefBlocks = 1, !.bytesRem = 0, !.tlvAuth = FALSE,
                       !.tlvBlock = 0, !.tlvByte = 0, !.noL = 0, !.nulls = 0,
                       !.ilen = 0, !.authDone = FALSE, !.nfcSect = FALSE,
                       !.remaining = n.nComp * 16,
                       !.readNdef = TRUE, !.found = FALSE]
        b == BlkChk(r)
    IN IF n.cardState \in {"invalid", "initialized"} THEN Fail(n)
       ELSE AuthOr(b, RdABlock(b))

(* phFriNfc_MifareStdMap_WrNdef. *)
WrNdef(m, data) ==
    LET n == [m EXCEPT !.apdu = data, !.size = Len(data), !.idx = 0,
                       !.prevOp = "write", !.crIndex = 2]
        w == [n EXCEPT !.found = FALSE, !.rdBeforeWr = TRUE, !.wrNdef = TRUE,
                       !.ilen = 0, !.rdAfterWr = FALSE, !.authDone = FALSE,
                       !.nulls = 0, !.tlvByte = 0, !.tlvAuth = FALSE,
                       !.remaining = n.nComp * 16, !.cur = 4, !.ndefBlocks = 1,
                       !.nfcSect = FALSE]
        b == BlkChk(w)
    IN IF n.cardState \in {"invalid", "readOnly"} THEN Fail(n)
       ELSE AuthOr(b, RdBeforeWr(b))

(* phFriNfc_MifareStdMap_ConvertToReadOnly: starts with the first sector of
   the NDEF application.  CRIndex is not set. *)
ConvertToReadOnly(m) ==
    LET n == [m EXCEPT !.found = FALSE, !.rdBeforeWr = FALSE, !.wrNdef = FALSE,
                       !.ilen = 0, !.rdAfterWr = FALSE, !.authDone = FALSE,
                       !.nfcSect = FALSE, !.writeAcs = FALSE]
        todo == {s \in 1 .. Sectors(m.cardType) - 1 : s # 16 /\ s \in m.aid}
        s == Least(todo)
    IN IF m.cardState = "invalid" \/ todo = {} THEN Fail(m)
       ELSE AuthSector([n EXCEPT !.roSector = s, !.cur = TrailerOf(s),
                                 !.trailer = TrailerOf(s)])

-----------------------------------------------------------------------------
(* The application directory. *)

DirectorySectors(b) ==
    CASE b = 1 -> 1 .. 7 [] b = 2 -> 8 .. 15 [] b = 64 -> 17 .. 23
      [] b = 65 -> 24 .. 31 [] OTHER -> 32 .. 39

(* phFriNfc_MifStd_H_fillAIDarray: names are the sectors the directory gives
   to the NDEF application.  Only the first run of them counts. *)
FillAid(m, names) ==
    LET all == DirectorySectors(m.cur)
        on == all \cap names
        from == IF m.nfcSect THEN 0 ELSE IF on = {} THEN 255 ELSE Least(on)
        run == {s \in on : \A t \in all : t \in from .. s => t \in on}
        ended == \E t \in all \ on : t >= from
    IN [m EXCEPT !.aid = @ \cup run, !.aidComplete = ended,
                 !.nfcSect = ~ended /\ (@ \/ on # {})]

(* The end of phFriNfc_MifStd_H_ProChkNdef with
   phFriNfc_MifStd_H_ChkNdefCmpltSects: on to the first sector of the area. *)
EnterNdefSectors(m) ==
    LET area == m.aid \cap (1 .. Sectors(m.cardType) - 1)
        n == [m EXCEPT !.chkComplete = TRUE,
                       !.nComp = 3 * Cardinality({s \in area : s < 32})
                                 + 15 * Cardinality({s \in area : s >= 32})]
        b == BlkChk([n EXCEPT !.aidComplete = FALSE, !.nfcSect = FALSE, !.cur = 4])
    IN IF n.nComp = 0 THEN Fail(n) ELSE IF b.res = "ok" THEN AuthSector(b) ELSE b

(* phFriNfc_MifStd_H_ProChkNdef with phFriNfc_MifStd4k_H_CheckNdef: blocks 1
   and 2, and on a large card 64 to 66, which need another authentication. *)
ProChkNdef(m, names) ==
    LET f == FillAid(m, names)
        large == m.cardType # "1K"
        next == CASE m.cur = 1 -> [f EXCEPT !.cur = 2]
                  [] m.cur = 2 -> [f EXCEPT !.cur = 64, !.authDone = FALSE]
                  [] m.cur = 64 -> [f EXCEPT !.cur = 65]
                  [] OTHER -> [f EXCEPT !.cur = 66]
    IN IF f.aidComplete \/ m.cur = 66 \/ (m.cur = 2 /\ ~large)
       THEN EnterNdefSectors([Ok(f) EXCEPT !.cur = IF m.cur = 1 THEN 2 ELSE @])
       ELSE ChkNdef(next, m.cardType)

-----------------------------------------------------------------------------
(* Authentication and access conditions.  A sector trailer is a record:  acs
   are its access bits ("rw", "ro" or "other"), gpb the general purpose byte
   ("rw", "ro" or "none"), keyB its key B. *)

(* phFriNfc_MifStd_H_ProAuth. *)
ProAuth(m) ==
    LET n == [m EXCEPT !.authDone = TRUE]
    IN IF m.tlvAuth THEN RdtoWrNdefLen([n EXCEPT !.tlvAuth = FALSE])
                    ELSE RdAcsBit([n EXCEPT !.readAcs = TRUE])

(* phFriNfc_MifStd_H_ChkAcsBit and phFriNfc_MifStd_H_GPBChk: the access bits
   only set ReadFlag, the general purpose byte decides the card's state. *)
ChkAcsBit(m, t) ==
    LET open == IF m.chkNdef \/ m.readNdef \/ m.wrNdef THEN "initialized"
                                                       ELSE "readWrite"
    IN IF m.cur \in MadBlocks \cup {3} THEN [Ok(m) EXCEPT !.cardState = "initialized"]
       ELSE [Ok(m) EXCEPT !.readFlag = t.acs \in {"rw", "ro"},
                          !.cardState = CASE t.gpb = "rw" -> open
                                          [] t.gpb = "ro" -> "readOnly"
                                          [] OTHER -> "invalid"]

(* phFriNfc_MifStd_H_ProStatNotValid during a check: a sector the directory
   names and the general purpose byte forbids is skipped, unless a good one
   came before it. *)
ProStatNotValid(m) ==
    LET p == [m EXCEPT !.propSect = 3]
        past == CASE m.cur >= 128 -> m.cur + 15 > 254
                  [] m.cardType = "1K" -> m.cur < 4 \/ m.cur + 4 > 63
                  [] OTHER -> m.cur <= 67
        b == BlkChk(IF m.cur < 128
                    THEN [p EXCEPT !.remaining = Word(@ - 48), !.cur = @ + 4]
                    ELSE [p EXCEPT !.remaining = Word(@ - 240), !.cur = @ + 16])
    IN CASE m.nfcSect -> Fail([m EXCEPT !.propSect = 2])
         [] ~m.nfcSect /\ past -> Fail(p)
         [] OTHER -> IF b.res = "ok" THEN AuthSector(b) ELSE b

-----------------------------------------------------------------------------
(* Writing data blocks. *)

Payload(m, n) == [i \in 1 .. n |-> m.apdu[m.idx + i]]

(* Positions `from` .. 16 of SendRecvBuf: n bytes of the message, a terminator
   and NULLs. *)
Filled(m, from, n) ==
    [i \in 0 .. 16 |->
        CASE i < from -> m.buf[i]
          [] i \in from .. from + n - 1 -> Payload(m, n)[i - from + 1]
          [] OTHER -> IF i = from + n THEN TERMTLV ELSE NULLTLV]

(* phFriNfc_MifStd_H_fillSendBuf: the message from position len + 1 on. *)
FillSendBuf(m, len) ==
    LET n == Lower(Lower(m.remaining, m.size - m.idx), 16 - len)
    IN WrTLV([m EXCEPT !.buf = [Filled(m, len + 1, n) EXCEPT ![0] = m.cur],
                       !.numWritten = n, !.dataCount = n + len, !.setTerm = TRUE,
                       !.state = "wrTlv"])

(* phFriNfc_MifStd_H_WrABlock (internalLength is 0): a whole block of the
   message. *)
WrABlock(m) ==
    LET n == Lower(Lower(m.size - m.idx, m.remaining), 16)
        w == [m EXCEPT !.state = "write", !.prevOp = "write"]
    IN CASE m.idx < m.size ->
              WrTLV([w EXCEPT !.buf = [Filled(m, 1, n) EXCEPT ![0] = m.cur],
                              !.numWritten = n, !.dataCount = n,
                              !.remBufFlag = @ \/ n < 16, !.setTerm = @ \/ n < 16])
         [] OTHER -> IF m.ndefBlocks > m.nComp \/ m.idx = m.size THEN Ok(w) ELSE Fail(w)

(* phFriNfc_MifStd_H_WrTermTLV: a block of its own for the terminator. *)
WrTermTLV(m) ==
    WrTLV([m EXCEPT !.state = "termTlv", !.setTerm = FALSE,
                    !.buf = [i \in 0 .. 16 |-> CASE i = 0 -> m.cur [] i = 1 -> TERMTLV
                                                 [] OTHER -> NULLTLV]])

(* The data is written: a terminator, or the length. *)
ToLength(m) == RdtoWrNdefLen([SetNdefBlkAuth([m EXCEPT !.tempBlock = m.cur])
                                EXCEPT !.cur = m.tlvBlock])
Finish(m) ==
    CASE m.res = "ok" /\ ~m.setTerm /\ m.remaining > 0 -> WrTermTLV(m)
      [] m.res = "ok" /\ m.setTerm -> ToLength(m)
      [] OTHER -> m

(* NumOfBytesWritten bytes are on the card. *)
Advance(m) == [m EXCEPT !.idx = @ + m.numWritten, !.remaining = Word(@ - m.numWritten)]
MessageDone(m) == m.remaining = 0 \/ m.idx = m.size

(* The next data block of the message, counted only when there is one. *)
WriteOn(m) ==
    LET b == BlkChk([m EXCEPT !.cur = (@ + 1) % 256])
        n == [b EXCEPT !.ndefBlocks = @ + 1]
    IN IF b.res = "ok" THEN AuthOr(n, WrABlock(n)) ELSE b

(* phFriNfc_MifStd_H_ProWrTLV: the block of the TLV is written; its length may
   be in the block after it. *)
ProWrTLV(m) ==
    LET split == m.cur = m.tlvBlock
                 /\ \/ m.tlvByte = 15 /\ m.nulls >= 2
                    \/ m.tlvByte >= 13 /\ m.nulls = 0
        s == BlkChk(NextBlock([m EXCEPT !.rdBeforeWr = TRUE]))
        w == [m EXCEPT !.rdBeforeWr = FALSE]
        a == Advance([w EXCEPT !.ilen = IF m.dataCount < 16 THEN m.dataCount ELSE @])
        d == [a EXCEPT !.setTerm = @ \/ a.remaining = 0]
        e == IF a.ilen = 0
             THEN [BlkChk([d EXCEPT !.cur = (@ + 1) % 256]) EXCEPT !.ndefBlocks = @ + 1]
             ELSE Ok(d)
    IN CASE split -> AuthOr(s, RdBeforeWr(s))
         [] ~split /\ m.idx < m.size -> Finish(IF MessageDone(a) THEN e ELSE WriteOn(a))
         [] OTHER -> Finish(Ok(w))

(* phFriNfc_MifStd_H_ProWrABlock. *)
ProWrABlock(m) ==
    LET a == Advance([m EXCEPT !.ilen = IF m.remBufFlag THEN m.dataCount ELSE 0,
                               !.remBufFlag = FALSE])
        d == [Ok(a) EXCEPT !.setTerm = @ \/ a.remaining = 0]
        next == [d EXCEPT !.cur = (@ + 1) % 256]
        e == [IF a.remaining = 0 THEN next ELSE BlkChk(next) EXCEPT !.ndefBlocks = @ + 1]
    IN CASE m.idx >= m.size -> Fail(m)
         [] m.idx < m.size /\ m.remBufFlag -> Finish(d)
         [] OTHER -> Finish(IF MessageDone(a) THEN e ELSE WriteOn(a))

-----------------------------------------------------------------------------
(* Reserving and writing the TLV.  SendRecvBuf is one based here: position
   i + 1 holds byte i of the block.  While the data is written the TLV has
   length 0 and room for its final form: with two NULLs before it a long one
   grows backwards, otherwise a short one leaves two NULLs before it. *)

Put(m, p, s) ==
    [m EXCEPT !.buf = [i \in 0 .. 16 |-> IF i \in p .. p + Len(s) - 1 THEN s[i - p + 1]
                                                                     ELSE @[i]]]

(* phFriNfc_MifStd_H_UpdateTLV, and phFriNfc_MifStd_H_UpdRemTLV for the block
   that follows: the bytes that reserve the TLV. *)
Reserved(m) ==
    LET left == 15 - m.tlvByte
        parts == IF m.nulls >= 2
                 THEN [first |-> IF left = 0 THEN <<NDEFTLV>> ELSE <<NDEFTLV, 0>>,
                       second |-> <<0>>]
                 ELSE [first |-> SubSeq(<<NULLTLV, NULLTLV, NDEFTLV, 0>>, 1, Lower(left + 1, 4)),
                       second |-> IF left = 0 THEN <<NULLTLV, NDEFTLV, 0>>
                                  ELSE IF left = 1 THEN <<NDEFTLV, 0>> ELSE <<0>>]
    IN IF m.cur = m.tlvBlock THEN parts.first ELSE parts.second

(* phFriNfc_MifStd_H_ProBytesToWr. *)
ProBytesToWr(m) ==
    LET s == Reserved(m)
        from == IF m.cur = m.tlvBlock THEN m.tlvByte + 1 ELSE 1
        len == from + Len(s) - 1
        shifted == [m EXCEPT !.buf = [i \in 0 .. 16 |-> IF i = 0 THEN m.cur ELSE @[i - 1]],
                             !.remaining = IF m.remSizeUpd THEN Word(@ - 2) ELSE @,
                             !.remSizeUpd = FALSE, !.state = "wrTlv"]
        w == Put(shifted, from, s)
    IN IF len = 16 THEN WrTLV(w) ELSE FillSendBuf(w, len)

Hi(n) == n \div 256
Lo(n) == n % 256

(* phFriNfc_MifStd_H_fillTLV1: two NULLs stand before the TLV. *)
FillTLV1(m) ==
    LET p == m.tlvByte + 1
        len == m.idx
        long == len >= LongFrom
        n == [m EXCEPT !.prevLen = len, !.rdAfterWr = long \/ m.tlvByte = 15]
        back == [n EXCEPT !.nulls = 0, !.tlvBlock = m.cur, !.tlvByte = p - 3]
        form == <<NDEFTLV, LONG, Hi(len), Lo(len)>>
    IN IF ~long THEN Put(n, p, IF m.tlvByte = 15 THEN <<NDEFTLV>> ELSE <<NDEFTLV, Lo(len)>>)
       ELSE CASE m.tlvByte = 0 -> Put(n, p, <<Hi(len), Lo(len)>>)
              [] m.tlvByte = 1 -> Put(n, p - 1, <<LONG, Hi(len), Lo(len)>>)
              [] m.tlvByte = 15 -> Put(back, p - 2, SubSeq(form, 1, 3))
              [] OTHER -> Put([back EXCEPT !.rdAfterWr = FALSE], p - 2, form)

(* phFriNfc_MifStd_H_fillTLV2: fewer than two NULLs before it. *)
FillTLV2(m) ==
    LET p == m.tlvByte + 1
        len == m.idx
        long == len >= LongFrom
        n == [m EXCEPT !.prevLen = len, !.rdAfterWr = m.tlvByte >= 13]
        forward == [n EXCEPT !.nulls = 2, !.tlvBlock = m.cur, !.tlvByte = p + 1]
        form == <<NDEFTLV, LONG, Hi(len), Lo(len)>>
    IN IF long THEN Put(n, p, SubSeq(form, 1, Lower(4, 17 - p)))
       ELSE CASE m.tlvByte = 15 -> Put(n, p, <<NULLTLV>>)
              [] m.tlvByte = 14 -> Put(n, p, <<NULLTLV, NULLTLV>>)
              [] m.tlvByte = 13 -> Put(forward, p, <<NULLTLV, NULLTLV, NDEFTLV>>)
              [] OTHER -> Put(forward, p, <<NULLTLV, NULLTLV, NDEFTLV, Lo(len)>>)

(* phFriNfc_MifStd_H_fillTLV1_1: the block before or after, with NULLs. *)
FillTLV1Next(m) ==
    LET n == [m EXCEPT !.rdAfterWr = FALSE]
        back == [n EXCEPT !.nulls = 0, !.tlvBlock = m.cur]
    IN CASE m.tlvByte = 0 -> Put([back EXCEPT !.tlvByte = 14], 15, <<NDEFTLV, LONG>>)
         [] m.tlvByte = 1 -> Put([back EXCEPT !.tlvByte = 15], 16, <<NDEFTLV>>)
         [] OTHER -> Put(n, 1, <<Lo(m.prevLen)>>)

(* phFriNfc_MifStd_H_fillTLV2_1: the block after, without NULLs. *)
FillTLV2Next(m) ==
    LET n == [m EXCEPT !.rdAfterWr = FALSE]
        long == m.prevLen >= LongFrom
        form == <<LONG, Hi(m.prevLen), Lo(m.prevLen)>>
        short(at) == [n EXCEPT !.nulls = 2, !.tlvBlock = m.cur, !.tlvByte = at]
    IN IF m.tlvByte = 13 THEN Put(n, 1, <<Lo(m.prevLen)>>)
       ELSE IF m.tlvByte = 14
       THEN IF long THEN Put(n, 1, Tail(form))
            ELSE Put(short(0), 1, <<NDEFTLV, Lo(m.prevLen)>>)
       ELSE IF long THEN Put(n, 1, form)
            ELSE Put(short(1), 1, <<NULLTLV, NDEFTLV, Lo(m.prevLen)>>)

(* phFriNfc_MifStd_H_WriteNdefLen. *)
WriteNdefLen(m) ==
    LET s == [m EXCEPT !.state = "wrNdefLen",
                       !.buf = [i \in 0 .. 16 |-> IF i = 0 THEN m.cur ELSE @[i - 1]]]
        own == m.cur = m.tlvBlock
        two == m.nulls >= 2
    IN WrTLV(CASE own /\ two -> FillTLV1(s) [] own /\ ~two -> FillTLV2(s)
               [] ~own /\ two -> FillTLV1Next(s) [] OTHER -> FillTLV2Next(s))

(* phFriNfc_MifStd_H_BlkChk_1: one block back. *)
BlkChk1(m) ==
    LET every == IF m.cur > 128 THEN 16 ELSE 4
        n == [Ok(m) EXCEPT !.tlvAuth = (m.cur + 1) % every = 0]
    IN IF SectorOf(m.cur) \notin m.aid THEN Fail(m)
       ELSE IF m.cur > 128 THEN IF n.tlvAuth THEN [n EXCEPT !.cur = @ - 1] ELSE n
       ELSE IF (m.cur + 1) % 4 = 1 THEN [n EXCEPT !.cur = @ - 1] ELSE n

(* phFriNfc_MifStd_H_CallWrNdefLen: the rest of the TLV. *)
CallWrNdefLen(m) ==
    LET after == BlkChk([m EXCEPT !.cur = (@ + 1) % 256])
        b == IF m.nulls >= 2
             THEN IF m.tlvByte \in {0, 1} THEN BlkChk1([m EXCEPT !.cur = @ - 1]) ELSE after
             ELSE IF m.tlvByte >= 13 THEN after ELSE Ok(m)
    IN IF b.res = "ok" THEN RdtoWrNdefLen(b) ELSE b

(* The end of a write, in phFriNfc_MifareStdMap_Process. *)
ProWrNdefLen(m) ==
    IF m.rdAfterWr THEN CallWrNdefLen(m)
    ELSE [Ok(m) EXCEPT !.cur = m.tempBlock,
                       !.cardState = IF @ = "initialized" THEN "readWrite" ELSE @]

-----------------------------------------------------------------------------
(* Reading. *)

(* Mutant: the rest of a block behind the message is handed over too. *)
RemainTLVWholeBlock(m, t) ==
    LET n == Lower(m.bytesRem + 1, 16 - t)
        took == [m EXCEPT !.got = @ \o [i \in 1 .. n |-> m.buf[t + i - 1]],
                          !.idx = @ + n, !.bytesRem = 0]
    IN Ok(took)

(* phFriNfc_MifStd_H_RemainTLV: the bytes of the message in the block that was
   read, from position t on. *)
RemainTLV(m, t) ==
    LET room == 16 - t
        r == Lower(m.size - m.idx, m.remaining)
        n == Lower(r, Lower(m.bytesRem, room))
        took == [m EXCEPT !.got = @ \o [i \in 1 .. n |-> m.buf[t + i - 1]],
                          !.idx = @ + n, !.remaining = Word(@ - n), !.bytesRem = @ - n]
        last == [Ok(took) EXCEPT !.found = @ \/ took.bytesRem = 0,
                                 !.ilen = IF n # m.bytesRem THEN room - n ELSE @]
        more == BlkChk(NextBlock([took EXCEPT !.found = FALSE]))
    IN IF m.bytesRem <= room
       THEN IF r <= m.bytesRem /\ last.ilen = 0 THEN NextBlock(last) ELSE last
       ELSE IF r <= room
       THEN IF n = room THEN NextBlock([Ok(took) EXCEPT !.ilen = 0, !.found = FALSE])
                        ELSE [Ok(took) EXCEPT !.ilen = room - n, !.found = FALSE]
       ELSE AuthOr(more, RdABlock(more))

(* phFriNfc_MifStd_H_ProRdTLV: the block that ends the head of the TLV. *)
ProRdTLV(m) ==
    LET t == (m.tlvByte + (IF m.bytesRem < LongFrom THEN 2 ELSE 4)) % 16
    IN IF m.idx < m.size /\ m.bytesRem # 0 THEN RemainTLV(m, t) ELSE Fail(m)

-----------------------------------------------------------------------------
(* Finding the TLV. *)

(* phFriNfc_MifStd_H_Chk16Bytes at the end of a block: the search goes on in
   the next one.  The result of BlkChk is overwritten. *)
SearchOn(m) ==
    LET b == BlkChk(NextBlock(m))
    IN IF b.authDone THEN GetActCardLen(b) ELSE AuthSector(b)

Cr(m) == [m EXCEPT !.cr = m.res # "pending"]
Room(m, p) == (m.nComp - m.ndefBlocks) * 16 + 16 - p

(* phFriNfc_MifStd_H_ChkTLVs at the length of the TLV, byte p. *)
TLVLength(m, p) ==
    LET n == [m EXCEPT !.nulls = 0]
        len == m.buf[p + 1] * 256 + m.buf[p + 2]
    IN IF p = 16 THEN Cr(SearchOn([m EXCEPT !.noL = 3]))
       ELSE IF m.buf[p] # LONG
       THEN [SetCardState(m, m.buf[p]) EXCEPT !.bytesRem = m.buf[p], !.cr = TRUE,
                                              !.remaining = Word(@ - 2),
                                              !.remSizeUpd = m.nulls < 2]
       ELSE IF p = 15 THEN SearchOn([n EXCEPT !.noL = 2])
       ELSE IF p = 14 THEN SearchOn([n EXCEPT !.noL = 1, !.prevLen = m.buf[15]])
       ELSE IF Room(m, p + 2) < len THEN Fail(n)
       ELSE [SetCardState(n, len) EXCEPT !.bytesRem = len, !.cr = TRUE,
                                         !.remaining = Word(@ - 4)]

(* The loop of phFriNfc_MifStd_H_ChkTLVs, from byte p on.  cr says that the
   caller may complete the operation: an error met after a NULL leaves it
   unset.  An NdefTLVFoundFlag left over from the last operation lets any
   byte begin a TLV, and lets a terminator be passed; past the last byte the
   code would read on behind the block, here the search fails. *)
RECURSIVE ScanTLVs(_, _)
ScanTLVs(m, p) ==
    LET t == m.buf[p]
        null == [Ok(m) EXCEPT !.nulls = @ + 1, !.remaining = Word(@ - 1)]
    IN IF t \notin {NULLTLV, NDEFTLV, TERMTLV} /\ ~m.found
       THEN [Fail(m) EXCEPT !.bytesRem = 0, !.cardState = "invalid", !.cr = TRUE]
       ELSE IF t = NDEFTLV
       THEN TLVLength([m EXCEPT !.tlvBlock = m.cur, !.tlvByte = p, !.found = TRUE,
                                !.nulls = IF @ = 1 THEN 0 ELSE @], p + 1)
       ELSE IF t \notin {NULLTLV, TERMTLV} THEN TLVLength([m EXCEPT !.nulls = 0], p + 1)
       ELSE IF t = TERMTLV
       THEN IF m.found /\ p < 15 THEN ScanTLVs([Ok(m) EXCEPT !.remaining = Word(@ - 1)], p + 1)
                                 ELSE Fail(m)
       ELSE IF null.remaining < m.buf[p + 1] THEN Fail(null)
       ELSE IF p = 15 THEN [SearchOn(null) EXCEPT !.tlvByte = 0]
       ELSE ScanTLVs(null, p + 1)

(* phFriNfc_MifStd_H_ChkTLVs, after its loop. *)
Scanned(s) ==
    IF s.bytesRem > s.remaining THEN Fail(s)
    ELSE IF s.remaining = 0 THEN IF s.found THEN Ok(s) ELSE Fail(s)
    ELSE s

ChkTLVs(m) == Scanned(ScanTLVs([m EXCEPT !.prevOp = "getActSize"], m.tlvByte))

(* Mutant: the two bytes of a length that crosses a block are swapped. *)
ChkRemainTLVsSwapped(m) ==
    LET len == m.buf[0] * 256 + m.prevLen
    IN IF Room(m, 0) < len THEN [Fail(m) EXCEPT !.cr = TRUE]
       ELSE [Ok(m) EXCEPT !.bytesRem = len, !.cr = TRUE]

(* phFriNfc_MifStd_H_ChkRemainTLVs: the TLV began in the block before.  With
   its length byte here the result is overwritten by 1, and the TLV refused. *)
ChkRemainTLVs(m) ==
    LET len == IF m.noL = 1 THEN m.prevLen * 256 + m.buf[0]
                            ELSE m.buf[0] * 256 + m.buf[1]
        n == [Ok(m) EXCEPT !.remaining = Word(@ - 2), !.bytesRem = len, !.cr = TRUE]
    IN IF m.noL = 3 THEN [Fail(SetCardState(m, m.buf[0])) EXCEPT !.cr = TRUE]
       ELSE IF Room(m, 0) < len THEN [Fail(m) EXCEPT !.cr = TRUE]
       ELSE IF len > n.remaining THEN Fail(n) ELSE n

(* phFriNfc_MifStd_H_ProActCardLen: a read or a write goes on whatever the
   search said. *)
Searched(s) ==
    LET g == [s EXCEPT !.nfcSect = TRUE, !.readNdef = FALSE, !.wrNdef = FALSE,
                       !.cr = FALSE]
        n == IF ~(s.readNdef \/ s.wrNdef) \/ s.res = "pending" THEN s
             ELSE IF ~s.authDone THEN AuthSector(g)
             ELSE IF s.readNdef THEN RdTLV(g) ELSE RdBeforeWr(g)
    IN IF s.chkNdef THEN Cr(n) ELSE n

ProActCardLen(m) ==
    Searched(IF m.noL > 0 THEN [ChkRemainTLVs(m) EXCEPT !.noL = 0] ELSE ChkTLVs(m))

-----------------------------------------------------------------------------
(* What a trailer read leads to. *)

(* phFriNfc_MifStd_H_ChkRdWr. *)
ChkRdWr(m) ==
    LET refused == m.cardState = "invalid"
        write == IF m.cardState \in {"invalid", "readOnly"} THEN Fail(m)
                 ELSE IF m.wrNdef THEN GetActCardLen(m)
                 ELSE IF m.rdBeforeWr THEN RdBeforeWr(m)
                 ELSE IF m.rdAfterWr THEN RdtoWrNdefLen(m)
                 ELSE IF m.tlvBlock = m.cur THEN RdBeforeWr(m) ELSE WrABlock(m)
    IN CASE m.prevOp = "check" ->
              IF refused THEN Fail(m)
              ELSE IF m.cur > 3 /\ m.chkComplete /\ m.cur \notin {65, 66}
              THEN IF m.readAcs THEN AuthSector(m) ELSE RdAcsBit(m)
              ELSE ChkNdef(m, m.cardType)
         [] m.prevOp = "read" ->
              IF refused THEN Fail(m)
              ELSE IF m.readNdef THEN GetActCardLen(m) ELSE RdABlock(m)
         [] m.prevOp = "write" -> write
         [] m.prevOp = "getActSize" -> IF m.readFlag THEN GetActCardLen(m) ELSE Fail(m)

(* phFriNfc_MifStd_H_ProAcsBits for a trailer t: its access bits, the verdict
   on its sector, and what is read next. *)
SectorJudged(c) ==
    LET less == [c EXCEPT !.nComp = @ - (IF c.cur >= 128 THEN 15 ELSE 3)]
        good == [c EXCEPT !.nfcSect = @ \/ c.cardType = "1K"
                                        \/ (c.cardType = "4K" /\ c.cur # 64)]
    IN IF ~c.chkNdef THEN c
       ELSE IF c.cardState = "invalid" THEN ProStatNotValid(less) ELSE good

TrailerDone(v) ==
    LET whole == v.readComplete \/ v.cur + 4 >= (IF v.cardType = "1K" THEN 63 ELSE 254)
        w == [v EXCEPT !.readAcs = FALSE, !.readComplete = whole,
                       !.cur = IF whole THEN 4 ELSE @]
    IN IF ~v.chkNdef \/ v.propSect = 2 THEN v ELSE IF whole THEN BlkChk(w) ELSE w

GoesOn(x) == IF x.res = "ok" THEN ChkRdWr(x) ELSE x

ProAcsBits(m, t) == GoesOn(TrailerDone(SectorJudged(ChkAcsBit(m, t))))

(* phFriNfc_MifStd_H_ProWrSectorTrailor: on to the next sector of the area;
   the first one without the application ends the conversion. *)
ProWrSectorTrailor(m) ==
    LET s == IF m.roSector + 1 = 16 THEN 17 ELSE m.roSector + 1
        n == [m EXCEPT !.roSector = s]
    IN IF s >= Sectors(m.cardType) \/ s \notin m.aid THEN Ok(n)
       ELSE AuthSector([n EXCEPT !.cur = TrailerOf(s), !.trailer = TrailerOf(s)])

(* phFriNfc_MifStd_H_WrSectorTrailorBlock: read access only, the write bits of
   the general purpose byte set. *)
WrSectorTrailorBlock(m, t) ==
    Transceive([m EXCEPT !.prevOp = "write", !.state = "writeSec"],
               [cmd |-> "write", block |-> m.cur,
                data |-> [acs |-> "ro", keyB |-> "user",
                          gpb |-> IF t.gpb = "rw" THEN "ro" ELSE t.gpb]])

(* phFriNfc_MifStd_H_ProSectorTrailorAcsBits; without a trailer written before
   the conversion cannot end well. *)
ProSectorTrailorAcsBits(m, t) ==
    LET c == ChkAcsBit(m, t)
        n == IF c.cardState = "readOnly" THEN ProWrSectorTrailor(c)
                                         ELSE WrSectorTrailorBlock(c, t)
    IN IF n.res # "pending" /\ ~n.writeAcs THEN Fail(n) ELSE n

(* PH_FRINFC_NDEFMAP_MIFARESTD_STATE_WRITE_SEC in phFriNfc_MifareStdMap_Process. *)
ProWriteSec(m) ==
    LET w == [Ok(m) EXCEPT !.writeAcs = TRUE]
        s == IF w.cardState = "readOnly" THEN w ELSE SetCardState(w, w.bytesRem)
    IN IF s.res = "ok" THEN ProWrSectorTrailor(s) ELSE s

-----------------------------------------------------------------------------
(* phFriNfc_MifareStdMap_Process.  ok says whether the command was done; a is
   what a read returned: the sectors a directory block names, a trailer, or
   the sixteen bytes of a data block.  phFriNfc_MifStd_H_Complete ends the
   operation when cr says so. *)

Read(m, a) == [m EXCEPT !.buf = [i \in 0 .. 16 |-> IF i < 16 THEN a[i] ELSE @[16]]]

Step(m, a) ==
    CASE m.state = "chkNdefComp" -> Cr(ProChkNdef(m, a))
      [] m.state = "auth" -> Cr(ProAuth(m))
      [] m.state = "rdAcsBit" /\ m.readAcs -> Cr(ProAcsBits(m, a))
      [] m.state = "rdAcsBit" /\ ~m.readAcs ->
            Cr(ChkTLVs([Read(m, a) EXCEPT !.chkNdef = FALSE]))
      [] m.state = "getActCardSize" -> ProActCardLen(Read(m, a))
      [] m.state = "rdTlv" -> Cr(ProRdTLV(Read(m, a)))
      [] m.state = "read" -> Cr(RemainTLV(Read(m, a), 0))
      [] m.state = "rdBefWr" -> Cr(ProBytesToWr(Read(m, a)))
      [] m.state = "wrTlv" -> Cr(ProWrTLV(m))
      [] m.state = "write" -> Cr(ProWrABlock(m))
      [] m.state = "termTlv" -> Cr(ToLength(m))
      [] m.state = "rdToWrNdefLen" -> Cr(WriteNdefLen(Read(m, a)))
      [] m.state = "wrNdefLen" -> Cr(ProWrNdefLen(m))
      [] m.state = "rdSecAcsBit" -> Cr(ProSectorTrailorAcsBits(m, a))
      [] m.state = "writeSec" -> Cr(ProWriteSec(m))
      [] OTHER -> [Fail(m) EXCEPT !.cr = TRUE]

Complete(r) == IF r.cr THEN [r EXCEPT !.state = "reset", !.done = TRUE] ELSE r

Process(m, ok, a) ==
    LET n == [m EXCEPT !.req = NoReq, !.cr = FALSE]
    IN Complete(IF ok THEN Step(n, a) ELSE [Fail(n) EXCEPT !.cr = TRUE])
=============================================================================
