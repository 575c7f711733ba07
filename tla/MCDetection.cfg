CONSTANTS
  MaxInputs = 3
  Keys = {k1}
  NoKey = NoKey
  Configs <- MCConfigs
  LastArrival = 3
  Nothing = Nothing
  MaxSignals = 2
  Gaps = {1, 3}
  Detectors = {1, 2, 3}
  Settings <- MCSettings
  Measurements <- MCMeasurements
  Outcomes <- MCOutcomes
  Wiring <- MCWiring
  Patterns <- MCPatterns
  Confusion <- MCConfusion
  Window = 2
  DeadTime = 2
  Resolving = FALSE
  MaxClickJitter = 1
  NoClick = NoClick
SPECIFICATION DetectionSpec
INVARIANTS
  EachSignalOnce
  NoMissedPair
  ReportsTrue
PROPERTIES
  WaitingEnds
CHECK_DEADLOCK FALSE
