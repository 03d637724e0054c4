-------------------------- MODULE MCReplReconnect --------------------------
(***************************************************************************)
(* An instance of ReplReconnect for TLC: a loop, one disconnect handler,   *)
(* three sessions and two attempts.                                        *)
(***************************************************************************)
EXTENDS ReplReconnect, TLC

=============================================================================
