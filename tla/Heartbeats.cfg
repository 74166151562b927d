SPECIFICATION Spec
CONSTANTS
  Cells <- MCCells
  OvervoltageMv = 4200
  UndervoltageMv = 3000
  WarningMarginMv = 50
  ImbalanceMv = 150
  OvertempC = 60
  Readings <- OneReading
  FirstReading <- Nominal
  TickMod = 64
  DebounceMs = 2
  LatchWindowMs = 4
  LatchCount = 2
  SensorPeriod = 2
  SocPeriod = 3
  FaultPeriod = 1
  CanPeriod = 2
  WatchdogPeriod = 2
  StaleMs = 4
  SimDuration = 11
  Created <- WatchedTasks
  Mortal <- Monitored
  LossyBus = FALSE
  MaxLag = 1
  MaxClock = 12
INVARIANT StaleCaught
PROPERTY StaleMeansGoneOrRaced
