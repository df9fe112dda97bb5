SPECIFICATION Spec
CONSTANTS
  Processes = {"p1", "p2", "p3"}
  Settings <- MCSettings
  DefaultConfig <- MCDefaultConfig
  Texts <- MCTexts
  Absent <- MCAbsent
  Torn <- MCTorn
  Infinite = Infinite
  Null = Null
INVARIANTS
  LoadedConfigIsValid
  SettingsKept
CHECK_DEADLOCK FALSE
