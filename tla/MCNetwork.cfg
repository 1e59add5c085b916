SPECIFICATION FairSpec
CONSTANTS
  Thread = {t1, t2}
  Msg = {m1}
  Notice = Notice
  Oversized = Oversized
  InCap = 2
  OutCap = 2
  MaxSessions = 2
  MaxPushed = 2
  MaxWire = 1
CHECK_DEADLOCK FALSE
INVARIANTS HandlerPerMessage OneWriteInFlight OnlyLossEndsSessions NothingLost 
PROPERTIES ChannelSpec
