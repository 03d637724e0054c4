SPECIFICATION Spec
CONSTANTS
  NoEntry = NoEntry
  Forever = 99
  Nonces = {n1}
  Reqs = {r1, r2}
  kListed = kListed
  kOther = kOther
  Keys = {kListed, kOther}
  Acl <- MCAcl
  NoAcl = NoAcl
  Wildcards = {NoAcl}
  NoBody = NoBody
  NonceTtl = 1
  MaxTime = 3
SYMMETRY Symmetry
INVARIANT NonceSingleUse
CHECK_DEADLOCK FALSE
