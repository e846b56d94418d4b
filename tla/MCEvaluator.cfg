\* Three sessions, any of which may be killed, over two settings.
CONSTANTS
  good = good
  bad = bad
  Baseline = Baseline
  Torn = Torn
  None = None
  Programs <- MCPrograms
  Compiles <- MCCompiles
  Settings = {1, 2}
  NumScenarios = 2
  MaxCalls = 2
  MaxSessions = 3
SPECIFICATION Spec
INVARIANTS
  ScoreIsOfProgram
  BaselineIsBaseline
  InPlaceSourceKept
PROPERTIES
  ValidBaselineKept
  EvaluateReturns
