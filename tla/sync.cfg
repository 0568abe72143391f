SPECIFICATION SyncSpec
CONSTANTS
  t1 = t1
  t2 = t2
  t3 = t3
  Kinds <- MCKinds
  Timeouts <- MCTimeouts
  Callers <- MCCallers
  MaxStarts = 3
  CPUs = 2
INVARIANTS
  QuietAfterStop
  LiveTimersKnown
  IrqlRestored
PROPERTIES
  PeriodicGoesOn
  StopEnds
