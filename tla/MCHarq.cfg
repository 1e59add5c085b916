CONSTANTS
  NumHarq = 2
  Sizes = {1, 2}
  Lossy = TRUE
  Cap = 2
  MaxSwitches = 1
  MaxLocal = 1
SPECIFICATION Spec
INVARIANTS ProcessConserved IndicatorsInStep RepetitionHasSize
CHECK_DEADLOCK FALSE
