SPECIFICATION FairSpec
CONSTANTS
  Loop = Loop
  Handlers = {h1}
  Tasks = {Loop, h1}
  MaxSessions = 3
  Attempts = 2
  Root = Root
  Dest = Dest
INVARIANTS CwdAgrees WatchedOnce
PROPERTIES LostIsReplaced CommandEnds
CHECK_DEADLOCK FALSE
