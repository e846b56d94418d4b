\* One shard, every order of lookups of five blocks.
CONSTANTS
  d1 = d1
  d2 = d2
  m1 = m1
  m2 = m2
  huge = huge
  None = None
  Blocks <- MCBlocks
  DataBlocks <- MCDataBlocks
  Size <- MCSize
  Capacity = 4
  TotalSize <- MCTotalSize
  MaxLookups = 8
SPECIFICATION HistorySpec
INVARIANTS
  RingMatchesEntries
  SizeIsExact
  CapacityRespected
  CountersAgree
PROPERTIES
  SurvivalIsExact
  WeakerElderGoesFirst
  InsertReturns
  ImplementsBoundedCache
