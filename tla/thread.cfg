SPECIFICATION Spec
CONSTANTS
  c1 = c1
  t1 = t1
  t2 = t2
  NULL = NULL
  Clients <- MCClients
  Tids <- MCTids
  Environments <- MCEnvironments
INVARIANTS
  TypeOK
  RefsBalanced
  HandlesClosed
  ArgsDelivered
  OneThreadAtATime
  DestroyedOnlyWhenJoined
PROPERTIES
  WaitsReturn
  CycleBroken
  ImplementsThreadSpec
