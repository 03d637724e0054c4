SPECIFICATION Spec
CONSTANTS
  Requesters = {r1, r2}
  Names = {"a", "b", "f", "r", "s"}
  Root <- MCRoot
  Home <- MCHome
  Cwds <- MCCwds
  Typed <- MCTyped
  Trees <- MCTrees
  Contents <- MCContents
  MaxRead = 2
INVARIANTS PathsAgree AnswersHold
CHECK_DEADLOCK FALSE
