SPECIFICATION Spec
CONSTANTS
  MaxWait = 1
  Buttons = {"mic", "dac", "loop"}
INVARIANT StopRequestSettles
