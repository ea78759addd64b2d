SPECIFICATION MCSpec
CONSTANTS
  AllowedCounts = {2, 3, 4}
  MinSelected = 1
  MaxSelected = 2
  Checksums = {before, after}
  MaxCursor = 2
  MaxMicrobatches = 2
INVARIANTS
  CommittedMeansOneStep
  AdvancedStateIsEarned
PROPERTY
  NoReturnAfterStep
CHECK_DEADLOCK FALSE
