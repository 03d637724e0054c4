SPECIFICATION FairSpec
CONSTANTS
  e = e
  o = o
  Execs = {e}
  OneShots = {o}
  NoCall = NoCall
  NL = NL
  MaxOut = 1
  MaxConns = 2
INVARIANTS ExitIsComplete OnlyOvertakenOrphans
PROPERTIES SettledOnce WireFaithful Answered
CHECK_DEADLOCK FALSE
