CONSTANTS
  Positions <- MCPositions
  Configs <- MCConfigs
  LastRequest = 2
  MaxToken = 3
  Arrivals = {TRUE, FALSE}
  MaxAsked = 4
SPECIFICATION ClientSpec
INVARIANTS
  EventsMatchPositions
  LabelsMatch
  ReportsSuffice
PROPERTIES
  ExpiresOnTime
  BusyEnds
CHECK_DEADLOCK FALSE
