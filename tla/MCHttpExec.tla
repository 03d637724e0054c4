----------------------------- MODULE MCHttpExec -----------------------------
(***************************************************************************)
(* Instances of HttpExec for TLC: one exec through the shell, whose pipes  *)
(* may outlive it, and two polls that overlap.                             *)
(***************************************************************************)
EXTENDS HttpExec, TLC

CONSTANTS shell
=============================================================================
