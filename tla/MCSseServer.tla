---------------------------- MODULE MCSseServer ----------------------------
(***************************************************************************)
(* Instances of SseServer for TLC: one session that reconnects twice.      *)
(***************************************************************************)
EXTENDS SseServer, TLC

Symmetry == Permutations(Conns) \cup Permutations(Sends)
=============================================================================
