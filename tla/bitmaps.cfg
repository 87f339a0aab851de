SPECIFICATION Spec
CONSTANTS
  k1 = k1
  k2 = k2
  ByteBits = 2
  Keys = {k1, k2}
  Offsets = {0, 1, 3, 4}
  SourceLists <- MCSourceLists
  Values <- MCValues
  MaxIndex = 7
INVARIANTS CountsNamedUnits
PROPERTIES ImplementsBitSets
