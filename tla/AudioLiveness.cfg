SPECIFICATION FairSpec
CONSTANTS
  MaxWait = 1
  Buttons = {"mic", "loop"}
PROPERTIES
  StopHonoured
  LeavingEndsAudio
  HandOffEnds
