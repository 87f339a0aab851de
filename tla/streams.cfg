SPECIFICATION Spec
CONSTANTS
  Base = 2
  Digits = 2
  Texts <- MCTexts
  Walls = {0, 3}
  Counts = {0, 1}
  MaxEntries = 3
INVARIANTS MaxIdIsTop NoEntryLostOrRepeated RangeIsExact
PROPERTIES ReaderCatchesUp
CHECK_DEADLOCK FALSE
