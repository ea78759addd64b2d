SPECIFICATION QueueSpec
CONSTANTS
  Evaluations = 2
  Records = 2
  UnboundNames <- NamesOfTheCode
  MaxTransient = 0
  MaxDiskFaults = 0
  MaxKills = 0
PROPERTY EveryTaskCompletes
CHECK_DEADLOCK FALSE
