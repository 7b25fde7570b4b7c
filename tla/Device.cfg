SPECIFICATION FairSpec
CONSTANTS
  MaxFaults = 1
  Breakable = {"mediaTask", "eventGroup", "haptic"}
  QueueDepth = 2
  MaxChunks = 3
  MaxAreas = 1
  Effects = {47}
INVARIANTS
  SentIntact
  DescriptorsDistinct
  FlushEndsWithTransfer
  DriveHasCause
  GoFindsEffect
  TouchPressesPageOnce
  ActivityHasItsParts
PROPERTIES MenuComesUp
