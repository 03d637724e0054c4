--------------------------- MODULE MCClientCalls ---------------------------
(***************************************************************************)
(* An instance of ClientCalls for TLC: an exec with one frame of output, a *)
(* kill, and a one-shot call, over a stream that may be replaced once.     *)
(***************************************************************************)
EXTENDS ClientCalls

CONSTANTS e, o
=============================================================================
