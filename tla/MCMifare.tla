------------------------------ MODULE MCMifare ------------------------------
(* Cards whose NDEF application has two sectors of three blocks.  The TLV of
   the old message stands behind some NULL bytes; a message of LongFrom bytes
   or more has a three byte length.  The bytes of a message tell their place. *)
EXTENDS MifareExtns

CONSTANTS ShortAt, LongAt,        \* where a short and a long TLV may stand
          OldShort, OldLong, NewLengths,  \* the lengths of the messages
          BigAt                   \* where a TLV may stand on a 4K card

Old(len) == [i \in 1 .. len |-> 4 + i]
New(len) == [i \in 1 .. len |-> 29 + i]

MCCard(type, dir, n, len) ==
    LET head == IF len >= LongFrom THEN <<3, 255, 0, len>> ELSE <<3, len>>
        s == [i \in 1 .. n |-> 0] \o head \o Old(len) \o <<254>>
    IN [type |-> type, dir |-> dir,
        mem |-> [i \in 0 .. 95 |-> IF i < Len(s) THEN s[i + 1] ELSE 0],
        tr |-> [x \in {0, 16} \cup dir |-> [acs |-> "rw", gpb |-> "rw", keyB |-> "key2"]]]

MCCards ==
    {MCCard("1K", {1, 2}, n, OldShort) : n \in ShortAt}
        \cup {MCCard("1K", {1, 2}, n, OldLong) : n \in LongAt}
        \cup {MCCard("4K", {15, 17}, n, OldShort) : n \in BigAt}
MCContents == {New(len) : len \in NewLengths}
MCKeys == <<"key1", "key2">>
=============================================================================
