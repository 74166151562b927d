SPECIFICATION DSpec
CONSTANTS
  Cells <- MCCells
  OvervoltageMv = 4200
  UndervoltageMv = 3000
  WarningMarginMv = 50
  ImbalanceMv = 150
  OvertempC = 60
  NominalMv = 3700
  MsPerMv = 2
  DriftMod = 4096
  ElapsedMod = 14000
  StepMs = 100
  MaxMove = 1
  GainSteps = 2
  SocEvery = 5
  TickMod = 14000
  DebounceMs = 300
  LatchWindowMs = 2000
  LatchCount = 3
  MaxGap = 1
  Readings <- MCReadingSet
  FirstReading <- SeedReading
  Args <- MCArgs
INVARIANTS
  ScenarioActs
  OnlyDepletes
  SocBacked
  DepletionCaught
PROPERTIES
  WarnsFirst
  FaultKeptUntilWrap
