SPECIFICATION Spec
CONSTANTS
  MaxWait = 1
  Buttons = {"mic", "dac", "loop"}
INVARIANTS
  ControllerExclusive
  OpenFindsControllerFree
  NoOrphanedChannel
  ErrorHasCause
PROPERTY ArbiterSpec
