CONSTANTS
  Bandwidth = 50
  NumUe = 2
  Demands = {0, 4}
SPECIFICATION Spec
INVARIANTS WithinAvailable
