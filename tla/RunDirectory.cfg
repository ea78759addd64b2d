SPECIFICATION Spec
CONSTANTS
  Ranks = {r1, r2}
  Target = 3
  Limits = {1, 2}
  MaxRuns = 2
SYMMETRY RankSymmetry
INVARIANTS
  ResumableMeansWhole
  PointersResolve
  PublishedIsResumable
  PublishedLast
  NoEvaluationLost
CHECK_DEADLOCK FALSE
