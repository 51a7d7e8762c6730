CONSTANTS
  SecondMs = 36
  UplinkStart = 7
  UplinkEnd = 15
  Slot0Start = 16
  Slot0End = 29
  Slot1End = 42
  DirectStart = 19
  JitterGuard = 1
  HopGuard = 1
  AirTime = 1
  CompletionGuard = 1
  WorstWrite = 5
  SettleTime = 10
  DeferCeiling = 50
  ViewStale = 5
  LongestStep = 2
  Costs = {1, 3}
SPECIFICATION WriteSpec
INVARIANTS PlacedOwesNothing ForcedOnlyWhenCrowded
CHECK_DEADLOCK FALSE
