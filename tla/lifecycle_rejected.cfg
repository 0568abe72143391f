SPECIFICATION Spec
CONSTANTS
  N = 3
  NLocal = 2
  Trivial <- MCTrivial
  Counted = TRUE
  Faults <- MCRejections
INVARIANTS
  StaticsDestroyed
