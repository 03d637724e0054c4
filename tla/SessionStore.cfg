SPECIFICATION Spec
CONSTANTS
  NoEntry = NoEntry
  Forever = 99
  Sessions = {s1}
  Reqs = {r1, r2, r3}
  Home = home
  Paths = {home, dir}
  NoPath = NoPath
  Ttl = 2
  MaxTime = 5
SYMMETRY Symmetry
INVARIANTS TypeOK LiveSessionKept EntriesExpire
PROPERTY ImplementsLease
CHECK_DEADLOCK FALSE
