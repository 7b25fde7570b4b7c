SPECIFICATION Spec
CONSTANT MaxRun = 260
PROPERTY PulseLaw
