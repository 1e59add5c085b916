CONSTANTS
  Agent = {0, 1, 2}
  NoAgent = NoAgent
  NumApps = 2
  Flex = 2
  MaxExpirations = 1
SPECIFICATION FairSpec
INVARIANTS
  AppsReadQuietRib
  AtMostOneStaleConfig
  AgentsFollowFlag
PROPERTIES
  
  SwitchTakesEffect
