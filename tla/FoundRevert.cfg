CONSTANTS
  SettlePasses = 0
  CeilingPasses = 1
  Values = {v0, v1}
  Default = v0
  MaxImage = 3
  MaxChanges = 3
  MaxBoots = 4
  MaxRefusals = 0
SPECIFICATION SettingsSpec
PROPERTIES ComesBackAsLeft
CHECK_DEADLOCK FALSE
