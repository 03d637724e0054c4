------------------------------ MODULE Storage ------------------------------
(***************************************************************************)
(* The key/value store behind nonces and sessions: the Storage interface   *)
(* (src/src/types.ts) with the expiry rule of the default MemoryStorage    *)
(* (src/src/server/_storage.ts).  An entry is its value together with the  *)
(* instant it expires at; a key without an entry holds NoEntry.  External  *)
(* stores (Redis, KV, the playground's Nitro storage) follow the same      *)
(* contract, with the calls taking effect at some moment before the        *)
(* promise they return resolves.                                           *)
(***************************************************************************)
EXTENDS Integers

CONSTANTS
  NoEntry,   \* what a key that is not in the store holds
  Forever    \* Number.MAX_SAFE_INTEGER, the expiry of an entry without ttl

\* set(key, value, ttl): the expiry written with the value.  A ttl of 0 is
\* falsy in the source, so it means "no ttl".
ExpiryFor(ttl, t) == IF ttl = 0 THEN Forever ELSE t + ttl

\* get(key): an entry past its expiry is not returned ...
Lapsed(expiresAt, t) == t > expiresAt

=============================================================================
