---------------------------- MODULE MifareFormat ----------------------------
(***************************************************************************)
(* Formatting a Mifare Classic card for NDEF:                              *)
(*   nci/jni/NativeNfcTag.cpp starts a format, with key1 and then with     *)
(*     key2, and waits for NFA_FORMAT_CPLT_EVT;                            *)
(*   extns/pn54x/src/mifare/phFriNfc_MifStdFormat.c is the automaton: it   *)
(*     tries its keys on each sector, writes the sector trailers, collects *)
(*     the sectors that took theirs, writes the MAD and an empty message.  *)
(* A command of the automaton and its answer are one step; the card may be *)
(* taken away before any answer.                                           *)
(***************************************************************************)
EXTENDS Integers, FiniteSets, FiniteSetsExt, Functions

CONSTANTS Cards,      \* the cards that may be presented
          MaxOps,     \* bound on the operations started
          MaxLosses   \* bound on the times the card is taken away

VARIABLES fmt,       \* NdefSmtCrdFmt
          keyState,  \* FormatKeyState, a global of phNxpExtns_MifareStd.c
          card,      \* the card
          job        \* what NativeNfcTag.cpp waits for, and what it told

vars == <<fmt, keyState, card, job>>

(* The key a state of AuthState offers, in the order of the constants. *)
AuthStates == <<"def", "nfc", "mad", "keyB", "secret">>
Idle == [st |-> "init", auth |-> "nfc", cur |-> 0, upd |-> 0, flag |-> FALSE,
         compl |-> {}, secret |-> "def", failed |-> FALSE]

Sectors(type) == 0 .. (CASE type = "1K" -> 15 [] type = "2K" -> 31 [] OTHER -> 39)
Blocks(type) == CASE type = "1K" -> 64 [] type = "2K" -> 128 [] OTHER -> 256

(* PH_FRINFC_MFSTD_FMT_SECT_INDEX_CALC. *)
SectorOf(b) == IF b >= 128 THEN 32 + ((b - 128) \div 16) ELSE b \div 4

(* PH_FRINFC_MFSTD_FMT_CUR_BLK_INC: from a trailer to the next. *)
NextTrailer(b) == IF b >= 127 THEN b + 16 ELSE b + 4

-----------------------------------------------------------------------------
(* The card.  A refused command puts it to sleep until it is selected again. *)

(* phFriNfc_MfStd_H_FillSendBuf, an authentication: key A or B and its value. *)
Offered(f) ==
    CASE f.auth = "def" -> <<"a", "def">>
      [] f.auth = "nfc" -> <<"a", "nfc">>
      [] f.auth = "mad" -> <<"a", "mad">>
      [] f.auth = "keyB" -> <<"b", "def">>
      [] OTHER -> <<"b", f.secret>>

(* The same, a sector trailer: what it makes of the sector. *)
TrailerFor(f) ==
    LET kind == IF f.cur \in {3, 67} THEN "mad" ELSE "nfc"
    IN [a |-> kind, b |-> f.secret, acs |-> kind]

(* Who may write a trailer, and who the other blocks, under the access bits. *)
TrailerWriters(acs) ==
    CASE acs = "transport" -> {"a"} [] acs \in {"nfc", "mad"} -> {"b"} [] OTHER -> {}
DataWriters(acs) ==
    CASE acs = "transport" -> {"a"} [] acs = "nfc" -> {"a", "b"}
      [] acs = "mad" -> {"b"} [] OTHER -> {}

Obeyed(f) ==
    LET s == SectorOf(f.cur)
        t == card.sec[s]
    IN /\ card.awake
       /\ IF f.st = "auth" THEN t[Offered(f)[1]] = Offered(f)[2]
          ELSE /\ card.at = s
               /\ f.st = "wrTr" => card.as \in TrailerWriters(t.acs)
               /\ f.st \in {"wrMad", "updMad", "wrTlv"} => card.as \in DataWriters(t.acs)

(* The sectors a block of the MAD speaks of. *)
MadSectors(b) ==
    CASE b = 1 -> 1 .. 7 [] b = 2 -> 8 .. 15 [] b = 64 -> 17 .. 23
      [] b = 65 -> 24 .. 31 [] OTHER -> 32 .. 39

(* StrNdefData writes the sectors found compliant into the MAD; the block that
   is written before the trailers names them all. *)
Marking(f) ==
    LET these == MadSectors(f.cur) \cap Sectors(card.type)
        found == IF f.st = "wrMad" THEN these ELSE these \cap f.compl
    IN (card.mad \ these) \cup found

Obeying(f) ==
    CASE f.st = "auth" -> [card EXCEPT !.at = SectorOf(f.cur), !.as = Offered(f)[1]]
      [] f.st = "wrTr" -> [card EXCEPT !.sec[SectorOf(f.cur)] = TrailerFor(f)]
      [] f.st \in {"wrMad", "updMad"} -> [card EXCEPT !.mad = Marking(f)]
      [] f.st = "wrTlv" -> [card EXCEPT !.tlv = @ \cup {f.cur}]
      [] OTHER -> card

Selected(c) == [c EXCEPT !.awake = TRUE, !.at = 100, !.as = "none"]

-----------------------------------------------------------------------------
(* The end of the card. *)

(* The next sector index: the sector of the second MAD is left out. *)
NextSector(s) == IF s + 1 = 16 THEN 17 ELSE s + 1

(* phFriNfc_MfStd_H_NdefComplSect looks for the longest run of compliant sectors.
   Where a run may begin, and its length as it counts it: the sector before a
   run is counted too, unless the run begins with the first sector. *)
Starts(type, compl) == {1} \cup {NextSector(s) : s \in Sectors(type) \ (compl \cup {0, 16})}
Length(type, compl, t) ==
    Cardinality({s \in Sectors(type) \ {16} : s >= t /\ (t .. s) \ {16} \subseteq compl})
        + (IF t = 1 THEN 0 ELSE 1)

(* Mutant: the sectors outside the run stay compliant. *)
ComplSectAll(type, compl) == [compl |-> compl, overrun |-> FALSE]

(* The two memsets keep that run alone.  The length of the second is negative
   when the counted run ends behind the last sector. *)
ComplSect(type, compl) ==
    LET n == Cardinality(Sectors(type))
        starts == Starts(type, compl)
        count == Max({Length(type, compl, t) : t \in starts})
        max == Min({t \in starts : Length(type, compl, t) = count})
        clears == /\ count \in 1 .. (IF type = "1K" THEN n - 2 ELSE n - 3)
                  /\ max \in 1 .. n - 3
    IN IF ~clears THEN [compl |-> compl, overrun |-> FALSE]
       ELSE [compl |-> compl \ ((1 .. max - 1) \cup (max + count .. n - 1)),
             overrun |-> max + count > n]

(* PH_FRINFC_MFSTD_FMT_CHK_END_OF_CARD: with a sector to offer, the MAD is
   brought up to date; without one the format fails. *)
EndOfCard(f) ==
    LET r == ComplSect(card.type, f.compl)
        g == [f EXCEPT !.compl = r.compl]
    IN IF r.overrun THEN [g EXCEPT !.st = "overrun"]
       ELSE IF r.compl \ {0, 16} = {} THEN [g EXCEPT !.st = "done", !.failed = TRUE]
       ELSE [g EXCEPT !.st = "auth", !.cur = 1, !.upd = 1, !.auth = "secret"]

(* BlkNoToWrTLV: the first block of the first compliant sector. *)
TlvBlock(f) ==
    IF f.compl \ {0} = {} THEN f.cur
    ELSE LET s == Min(f.compl \ {0}) IN IF s >= 32 THEN 128 + (s % 32) * 16 ELSE s * 4

-----------------------------------------------------------------------------
(* The automaton: what follows an answer. *)

Auth(f, state) == [f EXCEPT !.st = "auth", !.auth = state]
Fails(f) == [f EXCEPT !.st = "done", !.failed = TRUE]

(* A sector is settled: compliant or not, and on to the next. *)
Settled(f, ok) ==
    LET s == SectorOf(f.cur)
        g == [f EXCEPT !.compl = IF ok THEN @ \cup {s} ELSE @ \ {s},
                       !.cur = NextTrailer(f.cur)]
    IN IF g.cur >= Blocks(card.type) THEN EndOfCard(g) ELSE Auth(g, "def")

(* ProAuth: the trailer is read with key A of a formatted sector and written
   otherwise; the MAD comes before the trailer of its sector. *)
ProAuth(f) ==
    CASE f.auth = "def" ->
            IF f.cur \in {3, 67} /\ ~f.flag
            THEN [f EXCEPT !.st = "wrMad", !.cur = IF f.cur = 3 THEN 1 ELSE 64]
            ELSE [f EXCEPT !.st = "wrTr", !.flag = FALSE]
      [] f.auth \in {"keyB", "secret"} ->
            IF f.upd # 0 THEN [f EXCEPT !.st = "updMad", !.cur = f.upd]
                         ELSE [f EXCEPT !.st = "wrTr"]
      [] OTHER ->
            IF f.upd \in {2, 66} THEN [f EXCEPT !.st = "wrTlv", !.upd = 0]
                                 ELSE [f EXCEPT !.st = "rdTr"]

(* The access bits of a formatted sector. *)
ChkAcsBit(block, acs) == acs = IF block \in {3, 67} THEN "mad" ELSE "nfc"
ProRdSectTr(f) == Settled(f, ChkAcsBit(f.cur, card.sec[SectorOf(f.cur)].acs))

ProWrMADBlk(f) ==
    IF f.cur \in {1, 64, 65} THEN [f EXCEPT !.cur = @ + 1]
    ELSE [f EXCEPT !.st = "wrTr", !.flag = TRUE, !.cur = @ + 1]

ProUpdMADBlk(f) ==
    CASE f.upd \in {1, 64, 65} -> [f EXCEPT !.upd = @ + 1, !.cur = f.upd + 1]
      [] card.type = "1K" \/ f.cur = 66 -> Auth([f EXCEPT !.cur = TlvBlock(f)], "nfc")
      [] OTHER -> Auth([f EXCEPT !.upd = 64, !.cur = 64], "secret")

(* Mutant: after the last key the first is tried again. *)
NextAuthRound(f) ==
    CASE f.auth = "def" -> "nfc" [] f.auth = "nfc" -> "keyB" [] OTHER -> "def"

(* NXT_AUTH_STATE: the key to try when one has failed. *)
NextAuth(f) ==
    CASE f.auth = "def" -> IF f.cur <= 3 \/ f.cur \in 64 .. 66 THEN "mad" ELSE "nfc"
      [] f.auth = "mad" -> "nfc"
      [] f.auth = "nfc" -> "keyB"
      [] f.auth = "keyB" -> "secret"
      [] OTHER -> "def"

(* ChangeAuthSt: the next key, of the next sector when there is none left. *)
ChangeAuthSt(f) ==
    LET g == IF f.auth = "secret"
             THEN [f EXCEPT !.compl = @ \ {SectorOf(f.cur)}, !.cur = NextTrailer(f.cur)]
             ELSE f
    IN [g EXCEPT !.auth = NextAuth(g)]

ProCon(f) ==
    LET g == ChangeAuthSt(f)
    IN IF g.cur >= Blocks(card.type) THEN EndOfCard(g) ELSE Auth(g, g.auth)

(* ProErrAuth: a sector that refuses every key fails the format, but for the
   second MAD sector, which leaves the sectors behind it out. *)
ProErrAuth(f) ==
    IF f.cur = 67 /\ f.auth = "secret" THEN EndOfCard([f EXCEPT !.compl = @ \cap 0 .. 15])
    ELSE IF f.cur >= 3 /\ f.auth # "secret" THEN [f EXCEPT !.st = "disCon"]
    ELSE Fails(f)

(* A trailer that is refused: key B after the default key A, or given up. *)
ErrWrSectTr(f) == IF f.auth = "def" THEN Auth(f, "keyB") ELSE Settled(f, FALSE)
ErrRdSectTr(f) == ErrWrSectTr(f)

(* Mutant: a restart keeps the NFC Forum key. *)
FirstKeyNfc(state) == "nfc"

(* phFriNfc_MfStd_Reset and phFriNfc_MfStd_Format: begin at the first trailer,
   with the default key if the NFC Forum key has just failed. *)
FirstKey(state) == IF state = "def" THEN "def" ELSE "nfc"
NextKeyState(state) == IF state = "def" THEN "init" ELSE "nfc"
Formats(key) == [Idle EXCEPT !.st = "auth", !.auth = FirstKey(keyState), !.cur = 3,
                              !.secret = key]

(* phFriNfc_MfStd_Process. *)
Process(f, ok) ==
    CASE f.st = "auth" -> IF ok THEN ProAuth(f) ELSE ProErrAuth(f)
      [] f.st = "rdTr" -> IF ok THEN ProRdSectTr(f) ELSE ErrRdSectTr(f)
      [] f.st = "wrTr" -> IF ok THEN Settled(f, TRUE) ELSE ErrWrSectTr(f)
      [] f.st = "wrMad" -> IF ok THEN ProWrMADBlk(f) ELSE Fails(f)
      [] f.st = "updMad" -> IF ok THEN ProUpdMADBlk(f) ELSE Fails(f)
      [] OTHER -> [f EXCEPT !.st = "done", !.failed = ~ok]

KeyStateAfter(f, ok) ==
    IF f.st = "auth" /\ ~ok /\ keyState = "nfc" THEN "def" ELSE keyState

-----------------------------------------------------------------------------
(* NativeNfcTag.cpp. *)

(* nativeNfcTag_doNdefFormat: reconnect, then the first key. *)
DoNdefFormat ==
    /\ job.op = "none" /\ fmt.st = "init"
    /\ card.near
    /\ job.ops < MaxOps
    /\ fmt' = Formats("def")
    /\ keyState' = NextKeyState(keyState)
    /\ card' = Selected(card)
    /\ job' = [op |-> "format", told |-> "none", lost |-> FALSE, ops |-> job.ops + 1,
               losses |-> job.losses]

(* nativeNfcTag_doWrite on a card without a message: formatted where it is. *)
DoWrite ==
    /\ job.op = "none" /\ fmt.st = "init"
    /\ card.near
    /\ job.ops < MaxOps
    /\ fmt' = Formats("def")
    /\ keyState' = NextKeyState(keyState)
    /\ job' = [op |-> "write", told |-> "none", lost |-> FALSE, ops |-> job.ops + 1,
               losses |-> job.losses]
    /\ UNCHANGED card

(* The card answers a command of the automaton. *)
CardAnswers ==
    /\ fmt.st \in {"auth", "rdTr", "wrTr", "wrMad", "updMad", "wrTlv"}
    /\ card.near
    /\ LET ok == Obeyed(fmt)
       IN /\ fmt' = Process(fmt, ok)
          /\ keyState' = KeyStateAfter(fmt, ok)
          /\ card' = IF ok THEN Obeying(fmt) ELSE [card EXCEPT !.awake = FALSE]
    /\ UNCHANGED job

(* CallDisCon and CallCon: the card is deactivated and selected twice. *)
Reconnected ==
    /\ fmt.st = "disCon"
    /\ card.near
    /\ fmt' = [fmt EXCEPT !.st = "con"]
    /\ card' = Selected(card)
    /\ UNCHANGED <<keyState, job>>

(* Connected again: another key, or all over again if it was the NFC Forum key
   that failed. *)
ConnectedAgain ==
    /\ fmt.st = "con"
    /\ card.near
    /\ card' = Selected(card)
    /\ IF keyState = "def" THEN fmt' = Formats(fmt.secret) /\ keyState' = NextKeyState(keyState)
       ELSE fmt' = ProCon(fmt) /\ UNCHANGED keyState
    /\ UNCHANGED job

Reports(ok) ==
    job' = [job EXCEPT !.op = "none", !.told = IF ok THEN "yes" ELSE "no"]

(* Mfc_FormatNdef_Completion_Routine, a success. *)
FormatDone ==
    /\ fmt.st = "done" /\ ~fmt.failed
    /\ fmt' = Idle
    /\ IF job.op = "none" THEN UNCHANGED job ELSE Reports(TRUE)
    /\ UNCHANGED <<keyState, card>>

(* The first key has failed and the second follows.  nativeNfcTag_doNdefFormat
   selects the card, starts the second format and does not wait for it;
   nativeNfcTag_doWrite does not select the card and waits. *)
SecondKey ==
    /\ fmt.st = "done" /\ fmt.failed
    /\ fmt.secret = "def"
    /\ fmt' = Formats("nfc")
    /\ keyState' = NextKeyState(keyState)
    /\ IF job.op = "write" THEN UNCHANGED <<card, job>>
       ELSE card' = Selected(card) /\ Reports(FALSE)

SecondKeyFailed ==
    /\ fmt.st = "done" /\ fmt.failed
    /\ fmt.secret = "nfc"
    /\ fmt' = Idle
    /\ IF job.op = "none" THEN UNCHANGED job ELSE Reports(FALSE)
    /\ UNCHANGED <<keyState, card>>

(* The card is gone: nativeNfcTag_abortWaits wakes the operation, whose second
   format is refused after it has set FormatKeyState. *)
CardLeaves ==
    /\ card.near
    /\ job.losses < MaxLosses
    /\ fmt.st # "overrun"
    /\ card' = [Selected(card) EXCEPT !.near = FALSE]
    /\ fmt' = Idle
    /\ keyState' = IF job.op = "none" \/ fmt.secret = "nfc" THEN keyState
                   ELSE NextKeyState(keyState)
    /\ job' = [job EXCEPT !.op = "none", !.losses = @ + 1, !.lost = TRUE,
                       !.told = IF job.op = "none" THEN @ ELSE "no"]

CardReturns ==
    /\ ~card.near
    /\ card' = [card EXCEPT !.near = TRUE]
    /\ UNCHANGED <<fmt, keyState, job>>

Init ==
    /\ fmt = Idle
    /\ keyState = "init"
    /\ card \in {[kind |-> c.kind, type |-> c.type, sec |-> c.sec, mad |-> c.mad, tlv |-> c.tlv,
                  near |-> TRUE, awake |-> TRUE, at |-> 100, as |-> "none"] : c \in Cards}
    /\ job = [op |-> "none", told |-> "none", lost |-> FALSE, ops |-> 0, losses |-> 0]

Next ==
    \/ DoNdefFormat
    \/ DoWrite
    \/ CardAnswers
    \/ Reconnected
    \/ ConnectedAgain
    \/ FormatDone
    \/ SecondKey
    \/ SecondKeyFailed
    \/ CardLeaves
    \/ CardReturns

Spec == Init /\ [][Next]_vars

(* Fairness: a card in the field answers and can be selected again, and the
   thread that waits for the format is woken and goes on. *)
FairSpec ==
    /\ Spec
    /\ WF_vars(CardAnswers) /\ WF_vars(Reconnected) /\ WF_vars(ConnectedAgain)
    /\ WF_vars(FormatDone) /\ WF_vars(SecondKey) /\ WF_vars(SecondKeyFailed)

-----------------------------------------------------------------------------
(* Properties. *)

(* The types, with the sector the automaton is at on the card, and its command
   within the sector. *)
TypeOK ==
    /\ fmt.st \in {"init", "auth", "rdTr", "wrTr", "wrMad", "updMad", "wrTlv", "disCon", "con",
                   "done", "overrun"}
    /\ fmt.auth \in Range(AuthStates)
    /\ SectorOf(fmt.cur) \in Sectors(card.type) \/ fmt.st \in {"overrun", "done"}
    /\ fmt.upd \in {0, 1, 2, 64, 65, 66}
    /\ fmt.compl \subseteq Sectors(card.type)
    /\ keyState \in {"init", "nfc", "def"}
    /\ job.op \in {"none", "format", "write"}
    /\ job.told \in {"none", "yes", "no"}

(* A card reported as formatted is one: its MAD names formatted sectors and
   nothing else, they are one run (the sector of the second MAD aside), and
   the first of them begins with an empty message. *)
SuccessMeansNdef ==
    job.told = "yes" =>
        /\ card.mad # {}
        /\ \A s \in card.mad : card.sec[s].acs = "nfc" /\ card.sec[s].a = "nfc"
        /\ \A s \in Min(card.mad) .. Max(card.mad) : s = 16 \/ s \in card.mad
        /\ card.sec[0].acs = "mad"
        /\ \E b \in card.tlv : SectorOf(b) = Min(card.mad)

(* The state has its types, and a success is one. *)
FormatInv == TypeOK /\ SuccessMeansNdef

(* A card as it was delivered is formatted unless it is taken away, however
   often and wherever earlier formats of it were cut off. *)
FreshCardIsFormatted == card.kind = "fresh" /\ job.told = "no" => job.lost

(* A format ends, whatever the card refuses. *)
FormatEnds == job.op # "none" ~> job.op = "none"

(* The sectors outside the longest run are cleared within SectCompl. *)
ClearsWithinTheArray == fmt.st # "overrun"
=============================================================================
