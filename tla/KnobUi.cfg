SPECIFICATION Spec
CONSTANT StackSize = 2
INVARIANTS
  NoDanglingPointer
  FlagsFollowDriver
  PassIsEarned
  LeftoverHasCause
PROPERTY TreeSpec
