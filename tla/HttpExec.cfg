SPECIFICATION HttpFairSpec
CONSTANTS
  shell = shell
  Execs = {shell}
  Forbidden = {}
  Wrapped = {shell}
  Privileged = {}
  Limits = {0, 1}
  MaxChunks = 2
  MaxKills = 1
  Polls = {p1, p2}
  NoExec = NoExec
INVARIANTS NoGap NothingForgotten AnswerComplete
PROPERTIES ForgetsOnlyRead Answered PollingStops
CHECK_DEADLOCK FALSE
