CONSTANTS
  Window = 2
  Backlog = 1
  Targets = 1
  MaxTime = 3
  Erases = TRUE
SPECIFICATION FairFlightSpec
INVARIANTS FileIsAFlight FixesAccounted EventsAccounted
PROPERTIES ClosingEnds
CHECK_DEADLOCK FALSE
