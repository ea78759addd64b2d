SPECIFICATION Spec
CONSTANTS
  WorldSize = 3
  MicroBatch = 1
  Workloads <- MCWorkloads
  MaxRecords = 3
  MaxCost = 130
  MaxTokens = 13
  MaxExtended = 13
  MaxPosition = 13
  MaxBatches = 3
  MinProfiles = 2
  MinDecision = 3
  MinQuery = 3
  Stages <- MCStages
INVARIANTS
  EachTrajectoryWeighsOnce
  EveryTaskScored
  RaisesOnlyForCause
  CalibrationLeavesNoTrace
