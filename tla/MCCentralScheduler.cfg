CONSTANTS
  Bandwidth = 6
  PhichResource = "one"
  ExtendedPrefix = FALSE
  TBStable <- MCTBStable
  MinRbUnit = 1
  NumUes = 2
  QueueSizes <- MCQueueSizes
  Cqis <- MCCqis
  RbChoices = {1, 4}
  OldBlocks <- MCOldBlocks
  JunkMcs <- MCJunkMcs
  NoCsi = NoCsi
  NoBlock = NoBlock
  TaPeriod = 1
SPECIFICATION Spec
INVARIANTS  OverrunNeedsSecond  TaWaitBounded
