SPECIFICATION Spec
CONSTANTS
  Timer <- OneTimer
  Durations <- EachCycle
  Amounts <- ThreeCycles
  MaxCost = 2
  MaxSlice = 2
  Horizon = 6
  Cycles = 5
  Rate = 3
  Levels <- OneLevel
  Rest = 0
  Latency = 2
  FeedCycles = 3
  MaxBytes = 2
  MaxEvents = 2
  MaxResets = 1
INVARIANT ZeroOrderHold
INVARIANT BytesOnce
CHECK_DEADLOCK FALSE
