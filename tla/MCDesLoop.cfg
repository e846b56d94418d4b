CONSTANTS
  disk_bandwidth_table <- MCTable
  num_threads = 2
  num_operations = 4
  MaxAccesses = 2
  Sizes <- MCSizes
  TimeUnit = 2
  HitCost = 1
  InsertCost = 1
  ComputeCosts <- MCComputeCosts
SPECIFICATION Spec
INVARIANTS
  OneRequestAtATime
  ThreadsAreSequential
  NeverFasterThanDisk
