SPECIFICATION Spec
CONSTANT MaxTurns = 2
INVARIANT NothingAppliedTwice
