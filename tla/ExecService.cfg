SPECIFICATION FairSpec
CONSTANTS
  plain = plain
  shell = shell
  sudo = sudo
  denied = denied
  Execs = {shell, sudo, denied}
  Forbidden = {denied}
  Wrapped = {shell}
  Privileged = {sudo}
  Limits = {0, 1}
  MaxChunks = 2
  MaxKills = 2
INVARIANTS TypeOK ActiveUntilReported OrderlyExit
PROPERTY KillEnds
CHECK_DEADLOCK FALSE
