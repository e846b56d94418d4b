\* Every interleaving of a run, the batch that waits for it and two seeds.
CONSTANTS
  seed1 = seed1
  seed2 = seed2
  Waited = Waited
  Original = Original
  None = None
  Seeds <- MCSeeds
SPECIFICATION Spec
INVARIANTS
  CompletedMeansAllRan
  SeedsRestoreTheProgram
PROPERTIES
  BatchEnds
CHECK_DEADLOCK FALSE
