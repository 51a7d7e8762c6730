CONSTANTS
  Readings = {3100, 3300, 3640}
  LevelSamples = 1
  LowMv = 3600
  CriticalMv = 3500
  FlatMv = 3200
  Margin = 35
  LockoutMv = 3400
  HoldPasses = 1
  ParkPasses = 1
  ReleasePasses = 1
  RefusalPasses = 2
  MaxTouches = 2
  MaxBoots = 3
SPECIFICATION FairPowerSpec
INVARIANTS GlassRemembered LongPressIsMeant
PROPERTIES NamesItsDarkness RefusalIsSaid GoesDark
CHECK_DEADLOCK FALSE
