---------------------------- MODULE MCTagDiscovery ----------------------------
(* Small instances of TagDiscovery. *)
EXTENDS TagDiscovery
Mode(r, t) == [reader |-> r, tech |-> t]
MCModes == {Mode(FALSE, "all"), Mode(FALSE, "none"), Mode(TRUE, "all"), Mode(TRUE, "F")}
MCFields == {<<>>, <<"ISO">>, <<"T3T">>, <<"P2PF">>, <<"TNP", "MFC">>, <<"T3T", "P2PF">>}
MCBehind == [h |-> 1, p |-> "T2T"]
=============================================================================
