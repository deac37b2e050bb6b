------------------------- MODULE MCCardTransaction -------------------------
(* The instances of CardTransaction.  Once one of the cases of Races has happened
   the properties promise nothing of what was stored, and the runs stop there. *)
EXTENDS CardTransaction, TLC

NoRaceYet == ~hist.raced
=============================================================================
