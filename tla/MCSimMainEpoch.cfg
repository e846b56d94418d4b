\* The policy is consulted at the end of every epoch.
CONSTANTS
  upper = upper
  lower = lower
  None = None
  SSTs <- MCSSTs
  Policies <- MCPolicies
  Keys <- MCKeys
  PartOf <- MCPartOf
  Blocks <- MCBlocks
  DataBlocks <- MCDataBlocks
  Size <- MCSize
  TotalSize <- MCTotalSize
  Capacity = 9
  num_shards = 2
  ShardOf <- MCShardOf
  disk_bandwidth_table <- MCTable
  Candidates <- MCCandidates
  num_operations = 2
  num_threads = 2
  BaseCosts <- MCBaseCosts
  reapply_every = 2
SPECIFICATION SimSpec
INVARIANTS
  ReappliesEveryEpoch
