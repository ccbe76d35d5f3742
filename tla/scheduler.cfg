SPECIFICATION FairSchedulerSpec
CONSTANTS
  Timer <- TwoTimers
  Durations <- OneOrThree
  Amounts <- ThreeCycles
  MaxCost = 2
  MaxSlice = 2
  Horizon = 7
INVARIANT TimersOnTime
INVARIANT CallbackOrder
INVARIANT ExactPeriods
PROPERTY RunReturns
CHECK_DEADLOCK FALSE
