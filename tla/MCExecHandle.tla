--------------------------- MODULE MCExecHandle ---------------------------
(***************************************************************************)
(* An instance of ExecHandle for TLC: a loop over stdout, one over all     *)
(* output, and two waits.                                                  *)
(***************************************************************************)
EXTENDS ExecHandle, TLC

CONSTANTS i1, i2

MCFilter == (i1 :> {"stdout"}) @@ (i2 :> Kinds)
=============================================================================
