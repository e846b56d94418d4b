\* Every small layout, cut short anywhere, and the blocks of its files.
CONSTANTS
  Layouts <- MCLayouts
  cfg <- MCcfg
  IntWidth = 16
  TagUnit = 64
  PartitionUnit = 1024
  Word = 8192
  DataSlots = 5
  ShardBytes = 100
  capacity = 301
SPECIFICATION Spec
INVARIANTS
  KeyNamesOneBlock
  FileInOneShard
  PartitionsSplitTheFile
  LoaderReadsTheLayout
CHECK_DEADLOCK FALSE
