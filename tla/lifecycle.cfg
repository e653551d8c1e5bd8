CONSTANTS
  Conns = {c1, c2, c3}
  MaxSignals = 2
SPECIFICATION FairSpec
INVARIANTS TypeOK CleanExitServesAll HandlersHaveDatabase FailureForAReason
PROPERTIES CleanupHasDatabase SignalEndsProcess
CHECK_DEADLOCK FALSE
