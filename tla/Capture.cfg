CONSTANTS
  Capacity = 3
  Ceiling = 2
  Slots = 4
  Pool = 2
  MaxMade = 5
  Faults = TRUE
  Rearms = FALSE
SPECIFICATION FairCaptureSpec
INVARIANTS RecordsAccounted EndCloses
PROPERTIES CaptureCloses
CHECK_DEADLOCK FALSE
