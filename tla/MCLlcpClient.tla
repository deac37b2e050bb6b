---------------------------- MODULE MCLlcpClient ----------------------------
(* Small instances of LlcpClient: model values for the sockets. *)
EXTENDS LlcpClient, TLC

CONSTANTS s1, s2

MCTwo == {s1, s2}
=============================================================================
