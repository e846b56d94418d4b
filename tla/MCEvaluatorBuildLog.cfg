\* The build_error artifact.
CONSTANTS
  good = good
  bad = bad
  Baseline = Baseline
  Torn = Torn
  None = None
  Programs <- MCPrograms
  Compiles <- MCCompiles
  Settings = {1, 2}
  NumScenarios = 2
  MaxCalls = 2
  MaxSessions = 1
SPECIFICATION Spec
INVARIANTS
  BuildErrorIsOfProgram
