SPECIFICATION Spec
CONSTANTS
  Ranks = {r1, r2}
  InitialPrompts = 2
  RefillPrompts = 1
  MaximumPrompts = 3
  MinSelected = 2
  MaxSelected = 2
  TargetUpdates = 2
  AttemptsPerUpdate = 1
  CheckpointEvery = 1
  MaxMicrobatches = 2
  MaxReplacements = 1
  MaxLaunches = 2
INVARIANTS
  ModelMatchesState
  OnPolicy
  GradientsOfThisAttempt
  AbortedMeansUndone
PROPERTIES
  ImplementsLedger
  EveryProcessEnds
CHECK_DEADLOCK FALSE
