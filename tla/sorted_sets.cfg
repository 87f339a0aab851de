SPECIFICATION Spec
CONSTANTS
  Members = {1, 2, 3}
  Scores <- MCScores
  MaxEntries = 3
  GridBits = 1
  DecodeBits = 3
  Fine = 2
  Distance <- MCDistance
  Searches <- MCSearches
INVARIANTS LoopsHaveTheClosedForms RanksMatchRanges PositionsComeBack SearchesAreExact
