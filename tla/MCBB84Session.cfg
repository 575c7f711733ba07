CONSTANTS
  Passes = 3
  NumSlots = 12
  NoEmission = NoEmission
  Prepared <- MCPrepared
  Frames <- MCFrames
  Period = 4
  SlotZero = 10
  AssignmentWindow = 1
  MinSample = 1
  MinRemaining = 9
  SamplePercent = 20
  AbortPercent = 50
  MinBlock = 2
  MaxFirstBlock = 2
  QberFloorPercent = 2
  TagLen = 2
  SecurityMargin <- MCSecurityMargin
  MinFinalKey = 5
  PhaseErrorCost <- MCPhaseErrorCost
  SampleChoices <- MCSampleChoices
  Shuffles <- MCShuffles
  MaxLost = 1
  RawBits = 21
  ErrorPositions <- MCErrors
  MissCounts = {0, 1, 2}
  MaxFinalKey = 9
SPECIFICATION SessionsSpec
INVARIANTS
  PositionsMatch
  FirstPassesMatch
  FinalKeysAgree
  DisclosuresSubtracted
  RaisesUnderstood
PROPERTIES
  SessionsEnd
CHECK_DEADLOCK FALSE
