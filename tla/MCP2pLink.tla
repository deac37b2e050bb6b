---------------------------- MODULE MCP2pLink ----------------------------
(* Small instances of P2pLink for TLC. *)
EXTENDS P2pLink

CONSTANT c1

MCContent == {c1}
============================================================================
