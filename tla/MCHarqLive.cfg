CONSTANTS
  NumHarq = 2
  Sizes = {1}
  Lossy = FALSE
  Cap = 2
  MaxSwitches = 1
  MaxLocal = 0
SPECIFICATION FairSpec
PROPERTIES UeServed RepeatedUnlessOvertaken
CHECK_DEADLOCK FALSE
