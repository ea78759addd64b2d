SPECIFICATION Spec
CONSTANTS
  VarUnit = 4
  MeanUnit = 6
  GroupSize = 2
  Alpha <- MCAlpha
  NoiseFloor <- MCNoise
  MinPositive = 1
  HealthNum = 1
  HealthDen = 2
  ReferenceUpdates = 1
  RhoNum = 9
  RhoDen = 10
  MinSelected = 1
  MaxSelected = 2
  Size = 3
  Shuffle <- MCShuffle
  Groups <- MCGroups
  Initial = 2
  WaveSize = 1
  Refill = 1
  Maximum = 3
  ReplacementRounds = 1
  SaveEvery = 1
  MaxAttempts = 2
  MaxLaunches = 2
INVARIANTS StreamIsWhole PoolIsOfThisAttempt SelectedIsMinimalMass ScalesStayAlive
CHECK_DEADLOCK FALSE
