--------------------------- MODULE MCMifareFormat ---------------------------
(* Whole cards: as delivered, formatted before (with either key), partly
   locked, and with a sector whose keys are unknown. *)
EXTENDS MifareFormat

Transport == [a |-> "def", b |-> "def", acs |-> "transport"]
Nfc(b) == [a |-> "nfc", b |-> b, acs |-> "nfc"]
Mad(b) == [a |-> "mad", b |-> b, acs |-> "mad"]
Locked == [a |-> "nfc", b |-> "def", acs |-> "ro"]
Foreign == [a |-> "other", b |-> "other", acs |-> "nfc"]

New(type) == [s \in Sectors(type) |-> Transport]
Formatted(type, b) == [s \in Sectors(type) |-> IF s \in {0, 16} THEN Mad(b) ELSE Nfc(b)]

MCCard(kind, type, sec) ==
    [kind |-> kind, type |-> type, sec |-> sec,
     mad |-> {s \in Sectors(type) : sec[s].acs \in {"nfc", "ro"}},
     tlv |-> IF sec[1].acs = "nfc" THEN {4} ELSE {}]

MCCards ==
    {MCCard("fresh", "1K", New("1K")), MCCard("fresh", "2K", New("2K")),
     MCCard("fresh", "4K", New("4K")),
     MCCard("fresh", "1K", Formatted("1K", "def")),
     MCCard("used", "1K", Formatted("1K", "nfc")),
     MCCard("used", "4K", Formatted("4K", "def")),
     MCCard("used", "1K", [Formatted("1K", "def") EXCEPT ![12] = Locked]),
     MCCard("used", "1K", [Formatted("1K", "def") EXCEPT ![1] = Locked]),
     MCCard("used", "2K", [Formatted("2K", "def") EXCEPT ![20] = Locked]),
     MCCard("used", "1K", [s \in Sectors("1K") |-> IF s = 0 THEN Mad("def") ELSE Locked]),
     MCCard("foreign", "4K", [New("4K") EXCEPT ![16] = Foreign]),
     MCCard("foreign", "1K", [New("1K") EXCEPT ![7] = Foreign]),
     MCCard("foreign", "1K", [New("1K") EXCEPT ![0] = Foreign])}

MCPartlyLocked ==
    {MCCard("used", "1K", [Formatted("1K", "def") EXCEPT ![1] = Locked, ![2] = Locked])}
=============================================================================
