---------------------------- MODULE MCLlcpServer ----------------------------
(***************************************************************************)
(* Small instances of LlcpServer for TLC.                                  *)
(***************************************************************************)
EXTENDS LlcpServer, TLC

\* Handles, connections and threads are alike.
Symmetry == Permutations(Handles) \cup Permutations(NfaConns) \cup Permutations(ServerThreads)
============================================================================
