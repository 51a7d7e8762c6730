CONSTANTS
  SectorCount = 2
  FloorSectors = 1
  Sessions = {1}
  MaxSequence = 3
  Slots = 1
  Stores = {"flights", "diagnostics"}
  Refused = {"erase", "header", "slots"}
  Requests = {"erase", "room"}
SPECIFICATION FairStoreSpec
INVARIANTS CursorOwned SpareBlank
PROPERTIES EraseEnds
CHECK_DEADLOCK FALSE
