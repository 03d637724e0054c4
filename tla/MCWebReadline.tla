--------------------------- MODULE MCWebReadline ---------------------------
(***************************************************************************)
(* An instance of WebReadline for TLC: two characters, lines of two, a     *)
(* history of two and two completions at once.                             *)
(***************************************************************************)
EXTENDS WebReadline, TLC

=============================================================================
