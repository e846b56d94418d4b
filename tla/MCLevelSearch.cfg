\* Every key on every tree of three small levels, call after call.
CONSTANTS
  NumLevels <- MCNumLevels
  Files <- MCFiles
  Trees <- MCTrees
  Keys <- MCKeys
SPECIFICATION Spec
INVARIANTS
  ShallowFirst
PROPERTIES
  FindsEveryHolder
  SearchReturns
