SPECIFICATION Spec
CONSTANTS
  Chars = {"x", "y"}
  Columns = 4
  MaxLine = 2
  MaxHistory = 2
  MaxTabs = 2
INVARIANTS ScreenShows NeverStuck
CHECK_DEADLOCK FALSE
