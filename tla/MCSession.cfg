SPECIFICATION Spec
CONSTANTS
  Timeouts <- MCTimeouts
  NoTimeout <- MCNoTimeout
  Default = 1
  Settings <- MCSettings
  Windows <- MCWindows
  Garbage <- MCGarbage
  MaxCalls = 4
  MaxChatter = 1
INVARIANTS
  TypeOK
  ShakenMeansWhole
  AppMeansAnswered
  WaitsAreTimed
PROPERTIES
  ImplementsNegotiation
  CallsReturn
CHECK_DEADLOCK FALSE
