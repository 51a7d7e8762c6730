CONSTANTS
  SecondMs = 9
  UplinkStart = 2
  UplinkEnd = 5
  Slot0Start = 5
  Slot0End = 7
  Slot1End = 11
  DirectStart = 5
  JitterGuard = 0
  HopGuard = 0
  AirTime = 1
  CompletionGuard = 0
  MaxBursts = 2
  Faults = TRUE
  Crowded = TRUE
  Horizon = 44
  MaxGap = 2
  Skew = 8
  Holdover = 15
  LostEdges = 1
  OutcomeAge = 3
  CallsignPeriod = 2
  CallsignSecond = 1
SPECIFICATION RadioSpec
INVARIANTS AirsWhereItSays SpeaksInEverySecond CreditIsTrue ListensThrough
CHECK_DEADLOCK FALSE
