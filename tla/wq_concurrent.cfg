SPECIFICATION Spec
CONSTANTS
  o = o
  p1 = p1
  Owner = o
  Producers <- MCOneProducer
  MaxItems = 3
  MaxBatch = 2
  MaxStarts = 2
  Environments <- MCEverything
INVARIANTS
  NoLostWakeup
  ProcessedInOrder
  NoStrayWorker
PROPERTIES
  StopReturns
  ItemsFetched
