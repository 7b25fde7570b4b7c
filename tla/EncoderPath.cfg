SPECIFICATION FairSpec
CONSTANT MaxTurns = 3
INVARIANTS
  DirectionTruthful
PROPERTY RestComesToPage
