CONSTANTS
  Bandwidth = 50
  NumUe = 2
  Demands = {0, 4, 40}
SPECIFICATION Spec
INVARIANTS
  Exclusive
  FairShare
  Accounting
  WithinQuota
  WorkConserving
  BitmapsCarryBlocks
