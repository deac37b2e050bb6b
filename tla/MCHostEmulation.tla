-------------------------- MODULE MCHostEmulation --------------------------
(* Small instances of HostEmulation for TLC. *)
EXTENDS HostEmulation

CONSTANTS s1, s2

MCService == {s1, s2}
MCRequiresUnlock == {s2}
MCPaymentService == {s1}
MCOnHost == {s1, s2}
MCNoService == {}
============================================================================
