SPECIFICATION Spec
CONSTANTS
  o = o
  p1 = p1
  Owner = o
  Producers <- MCNoProducers
  MaxItems = 4
  MaxBatch = 2
  MaxStarts = 3
  Environments <- MCSequential
INVARIANTS
  ExactlyOnceInOrder
  RoutineCallable
PROPERTIES
  ImplementsExecutor
  StopOnlyWhenDrained
  EventuallyProcessed
