CONSTANTS
 Readings = {3100, 3210, 3300, 3520, 3540, 3610, 3640}
 LevelSamples = 3
 LowMv = 3600
 CriticalMv = 3500
 FlatMv = 3200
 Margin = 35
 Aircraft = {a1, a2, a3}
 MaxTargets = 1
 MaxTracked = 2
 RenotifyFloor = 1
 AlertMaxAge = 1
 AirForget = 2
 GroundForget = 3
 GroundPeriod = 2
SPECIFICATION WarningsSpec
SYMMETRY Symmetry
INVARIANTS RunActs ToneIsMeant
PROPERTIES MovesOnARun ToldOnceAndKept
