\* What sim_engine.hpp says of the sweeps a block survives.
CONSTANTS
  d1 = d1
  d2 = d2
  m1 = m1
  m2 = m2
  huge = huge
  None = None
  Blocks <- MCBlocks
  DataBlocks <- MCDataBlocks
  Size <- MCSize
  Capacity = 4
  TotalSize <- MCTotalSize
  MaxLookups = 6
SPECIFICATION HistorySpec
PROPERTIES
  SweepsAsDeclared
