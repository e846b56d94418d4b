\* The wait for a run that is under way.
CONSTANTS
  seed1 = seed1
  seed2 = seed2
  Waited = Waited
  Original = Original
  None = None
  Seeds <- MCSeeds
SPECIFICATION Spec
INVARIANTS
  WaitsForTheRun
CHECK_DEADLOCK FALSE
