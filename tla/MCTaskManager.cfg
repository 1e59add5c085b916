CONSTANTS
  NumApps = 3
  MaxExpirations = 3
SPECIFICATION FairSpec
INVARIANTS
  RibUpdaterRunsAlone
  NoJoinableOverwritten
  NoCatchUp
PROPERTIES
  EveryTaskRecurs
