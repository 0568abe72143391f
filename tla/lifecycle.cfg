SPECIFICATION Spec
CONSTANTS
  N = 3
  NLocal = 2
  Trivial <- MCTrivial
  Counted = FALSE
  Faults <- AllFaults
INVARIANTS
  AliveWhileInUse
  DestructionMirrors
PROPERTIES
  UnloadEnds
