CONSTANTS
  SettlePasses = 1
  CeilingPasses = 3
  Values = {v0, v1, v2}
  Default = v0
  MaxImage = 2
  MaxChanges = 3
  MaxBoots = 3
  MaxRefusals = 1
SPECIFICATION SettingsSpec
INVARIANTS ChangeIsPrompt FateTold
PROPERTIES ComesBackAsLeft SwitchedOffIsSaved
CHECK_DEADLOCK FALSE
