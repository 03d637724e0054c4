SPECIFICATION Spec
CONSTANTS
  NoEntry = NoEntry
  Forever = 99
  Nonces = {n1, n2}
  Reqs = {r1, r2}
  kListed = kListed
  kOther = kOther
  Keys = {kListed, kOther}
  Acl <- MCAcl
  NoAcl = NoAcl
  Wildcards <- MCWildcards
  NoBody = NoBody
  NonceTtl = 1
  MaxTime = 3
SYMMETRY Symmetry
INVARIANTS TypeOK AnswerBurnsNonce GrantIsEarned OnlyRacersShare
CHECK_DEADLOCK FALSE
