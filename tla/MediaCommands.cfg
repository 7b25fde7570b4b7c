SPECIFICATION FairSpec
CONSTANTS
  MaxPending = 4
  QueueLength = 2
  MaxCommands = 4
CHECK_DEADLOCK FALSE
INVARIANTS
  DownHasCause
  ConnectedFollowsLink
  AdvertisingFollowsRadio
  AirNeedsBoth
PROPERTIES
  PressedInOrder
  EveryCommandSettles
  Reachable
