CONSTANTS
  NumFrames = 2
  Agent = {0, 1}
  MaxJump = 2
  MaxApart = 1
  Starts = {0, 19}
  StepTime <- MCStepTime
  EicicAhead = 1
  FlexAhead = 0
  PowerAgents = {1}
SPECIFICATION FairSpec
INVARIANTS StepsInOrder MacroXorPico SubframeOnce PowerStepsSpaced DelegatedLeftAlone
PROPERTY EveryStepTaken
