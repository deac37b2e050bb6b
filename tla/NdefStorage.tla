---------------------------- MODULE NdefStorage ----------------------------
(***************************************************************************)
(* What the NDEF operations on a card promise, without blocks, frames or   *)
(* TLVs: a card holds one message and may be locked.  MifareExtns          *)
(* implements this.  A card taken away in the middle of a write is left    *)
(* with the old message, the new one, or an empty one, and never with a    *)
(* mixture.                                                                *)
(***************************************************************************)
EXTENDS Sequences, Integers

VARIABLES message,  \* what the card holds
          locked,   \* no block of the message can be written any more
          doing,    \* the operation under way and its data
          reply     \* what the last operation answered

(* The absent message is the sequence of one impossible byte. *)
Messages == Seq(Int)

avars == <<message, locked, doing, reply>>

NoReply == [op |-> "none"]

Init ==
    /\ message \in Messages
    /\ locked \in BOOLEAN
    /\ doing = [op |-> "none", data |-> <<>>]
    /\ reply = NoReply

Start ==
    /\ doing.op = "none"
    /\ doing'.op \in {"check", "read", "write", "lock", "presence"}
    /\ doing'.data \in Messages
    /\ reply' = NoReply
    /\ UNCHANGED <<message, locked>>

(* Refused at once. *)
Refuse ==
    /\ doing.op = "none"
    /\ doing'.op = "none"
    /\ doing'.data \in Messages
    /\ reply' = NoReply
    /\ UNCHANGED <<message, locked>>

(* What an operation may do to the card in one step. *)
Effect ==
    /\ IF doing.op = "write" /\ ~locked THEN message' \in {message, <<>>, doing.data}
                                        ELSE message' = message
    /\ IF doing.op = "lock" THEN locked' \in {locked, TRUE} ELSE locked' = locked

Work == Effect /\ UNCHANGED <<doing, reply>>

(* The answer is true of the card. *)
Finish ==
    /\ doing.op # "none"
    /\ Effect
    /\ doing'.op \in {"none", doing.op}
    /\ doing'.data = doing.data
    /\ reply'.op = doing.op
    /\ reply'.ok =>
          CASE doing.op = "check" -> reply'.size = Len(message') /\ (locked' => reply'.ro)
            [] doing.op = "read" -> reply'.data = message'
            [] doing.op = "write" -> message' = doing.data
            [] doing.op = "lock" -> locked'
            [] OTHER -> TRUE

(* The card is gone, or the operation is tried once more. *)
Abandon ==
    /\ doing.op # "none"
    /\ doing'.op \in {"none", doing.op}
    /\ doing'.data = doing.data
    /\ reply' = NoReply
    /\ UNCHANGED <<message, locked>>

Next == Start \/ Refuse \/ Work \/ Finish \/ Abandon

Spec == Init /\ [][Next]_avars
=============================================================================
