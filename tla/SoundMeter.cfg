SPECIFICATION SoundSpec
CONSTANTS
  PowersOfTwo = {1, 2, 4}
  TopRoot = 4
  FullScale = 2
  BlockSize = 2
  Settings = {0, 50, 200}
  Loudness = {0, 32, 33, 63, 64, 4095, 32766, 32768}
INVARIANTS
  RmsIsRoot
  BlockIsUniform
  OrderKept
PROPERTY BarFollowsSound
