SPECIFICATION Spec
CONSTANTS
  plain = plain
  shell = shell
  sudo = sudo
  denied = denied
  Execs = {plain, sudo}
  Forbidden = {}
  Wrapped = {}
  Privileged = {}
  Limits = {1}
  MaxChunks = 1
  MaxKills = 1
INVARIANT LimitRespected
CHECK_DEADLOCK FALSE
