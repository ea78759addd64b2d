SPECIFICATION QueueSpec
CONSTANTS
  Evaluations = 3
  Records = 2
  UnboundNames <- AllNamesBound
  MaxTransient = 2
  MaxDiskFaults = 0
  MaxKills = 0
PROPERTIES
  EveryTaskCompletes
  JobEnds
CHECK_DEADLOCK FALSE
