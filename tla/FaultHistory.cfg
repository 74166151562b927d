SPECIFICATION HSpec
CONSTANTS
  Cells <- MCCells
  OvervoltageMv = 4200
  UndervoltageMv = 3000
  WarningMarginMv = 50
  ImbalanceMv = 150
  OvertempC = 60
  Readings <- AllReadings
  FirstReading <- Nominal
  TickMod = 8
  DebounceMs = 2
  LatchWindowMs = 4
  LatchCount = 3
  MaxGap = 3
  MaxClock = 11
INVARIANTS
  JustifiedUntilWrap
  LatchComplete
  ProtectiveState
  WatchdogHoldUnused
  IInv
  RecoversInTime
PROPERTIES
  ClearOnlyAfterDebounce
  ShutdownLatched
