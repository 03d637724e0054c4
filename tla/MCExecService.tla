--------------------------- MODULE MCExecService ---------------------------
(***************************************************************************)
(* Instances of ExecService for TLC.  The execs differ in what they run,   *)
(* so each is a constant of its own.                                       *)
(***************************************************************************)
EXTENDS ExecService, TLC

CONSTANTS plain, shell, sudo, denied
=============================================================================
