SPECIFICATION Spec
CONSTANTS
  Cells <- MCCells
  OvervoltageMv = 4200
  UndervoltageMv = 3000
  WarningMarginMv = 50
  ImbalanceMv = 150
  OvertempC = 60
  Readings <- LowReadings
  FirstReading <- Nominal
  TickMod = 64
  DebounceMs = 2
  LatchWindowMs = 4
  LatchCount = 2
  SensorPeriod = 2
  SocPeriod = 4
  FaultPeriod = 1
  CanPeriod = 3
  WatchdogPeriod = 2
  StaleMs = 3
  SimDuration = 4
  Created <- ReportTasks
  Mortal <- NoTask
  LossyBus = TRUE
  MaxLag = 1
  MaxClock = 12
INVARIANTS
  BTypeOK
  ReportConsistent
  ExitsInTime
PROPERTIES
  ImplementsFaultManager
  NoUseAfterDestroy
