------------------------------ MODULE MCLibNfc ------------------------------
(***************************************************************************)
(* The instances of LibNfc that TLC checks.  The module has no definitions *)
(* of its own: every constant is a number or a Boolean, given in the cfgs. *)
(***************************************************************************)
EXTENDS LibNfc
=============================================================================
