SPECIFICATION QueueSpec
CONSTANTS
  Evaluations = 3
  Records = 2
  UnboundNames <- AllNamesBound
  MaxTransient = 2
  MaxDiskFaults = 2
  MaxKills = 1
INVARIANTS
  RecordsWrittenOnce
  CompletedMeansScored
  ScoredInOrder
  FinishedMeansAllScored
CHECK_DEADLOCK FALSE
