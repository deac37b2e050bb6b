---------------------------- MODULE MCNativeTag ----------------------------
(* Small instances of NativeTag for TLC. *)
EXTENDS NativeTag

MCKinds == {"T2T", "MIFARE", "ISO_A", "ISO_B", "T3BT", "KOVIO"}
MCMaskHits == {"T2T"}
MCLaterOps == {<<"ISO_A", "connect", 0>>}
============================================================================
