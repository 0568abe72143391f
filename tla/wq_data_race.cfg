SPECIFICATION Spec
CONSTANTS
  o = o
  p1 = p1
  Owner = o
  Producers <- MCNoProducers
  MaxItems = 2
  MaxBatch = 1
  MaxStarts = 1
  Environments <- MCRunning
INVARIANTS
  NoQueueRace
