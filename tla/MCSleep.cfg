SPECIFICATION FairSpec
CONSTANTS
  W = 4
  Times <- MCTimes
INVARIANTS TypeOK DimIsKnown Wakeable
PROPERTIES IdleBefore SleepsAtLast
