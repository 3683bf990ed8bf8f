SPECIFICATION Spec
CONSTANTS
  Timeouts <- MCTimeouts
  NoTimeout <- MCNoTimeout
  Default = 1
  Settings <- MCSettings
  Windows <- MCWindows
  Garbage <- MCGarbage
  MaxCalls = 2
  MaxChatter = 1
INVARIANTS
  ControlDecodes
CHECK_DEADLOCK FALSE
