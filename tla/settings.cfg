SPECIFICATION SettingsSpec
CONSTANTS
  Scenarios <- MCScenarios
  ValueOf <- MCValueOf
  Leds <- MCLeds
  BudgetMilliAmps = 100
  NumberOfFields = 3
  MaxValue = 2
  Accepted <- AllButTheLast
  Width = 256
  InPlace = FALSE
  MaxCommands = 5
INVARIANTS
  LineMeansItsOptions
  LettersWearTheColour
  QuietClockSurvives
PROPERTIES
  LightKeepsItsBounds
  StoreFollowsTheHand
\* A behaviour of lines ends with the lines of its scenario.
CHECK_DEADLOCK FALSE
