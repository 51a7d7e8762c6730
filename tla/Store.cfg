CONSTANTS
  SectorCount = 3
  FloorSectors = 1
  Sessions = {1, 2}
  MaxSequence = 4
  Slots = 2
  Stores = {"flights", "diagnostics"}
  Refused = {}
  Requests = {}
SPECIFICATION StoreSpec
INVARIANTS WholeOrTruncated NoByteTwice LossesReported
CHECK_DEADLOCK FALSE
