--------------------------- MODULE MCSessionStore ---------------------------
(***************************************************************************)
(* Instances of SessionStore for TLC.  NoEntry is a model value, so that   *)
(* it differs from every document.                                         *)
(***************************************************************************)
EXTENDS SessionStore, TLC

Symmetry == Permutations(Reqs)
=============================================================================
