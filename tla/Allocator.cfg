CONSTANTS
  SectorCount = 3
  FloorSectors = 2
  Sessions = {first, second}
  MaxSequence = 4
  first = first
  second = second
SPECIFICATION Spec
SYMMETRY Names
INVARIANTS  SectorByIndex
PROPERTIES KeepsPromise
CHECK_DEADLOCK FALSE
