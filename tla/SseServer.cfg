SPECIFICATION FairSpec
CONSTANTS
  Conns = {c1, c2, c3}
  Sends = {r1, r2}
  Events = 2
  NoConn = NoConn
  Connected = Connected
INVARIANTS TypeOK RegistryLive OnlyStaleCancelOrphans GapFree
PROPERTY AcceptedDelivered
CHECK_DEADLOCK FALSE
