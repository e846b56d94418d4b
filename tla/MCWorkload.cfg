\* Every shuffle and every random number.
CONSTANTS
  Weights <- MCWeights
  Denominator = 10
  NumItems <- MCNumItems
  Ratios <- MCRatios
  TypeRange = 10
SPECIFICATION Spec
INVARIANTS
  DrawsFollowAccess
  KeyInDrawnRange
  NoRangeIsLost
  OpMixAsAsked
