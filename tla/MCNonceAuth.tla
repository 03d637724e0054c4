---------------------------- MODULE MCNonceAuth ----------------------------
(***************************************************************************)
(* Instances of NonceAuth for TLC.  Two keys, one listed in the ACL with   *)
(* its own scopes and one that falls back to the wildcard or to nothing.   *)
(***************************************************************************)
EXTENDS NonceAuth, TLC

CONSTANTS kListed, kOther

\* acl: { kListed: ["exec"] }, with and without a "*" entry.
MCAcl == kListed :> {"exec"}
MCWildcards == {NoAcl, {"fs:read"}}

Symmetry == Permutations(Nonces) \cup Permutations(Reqs)
=============================================================================
