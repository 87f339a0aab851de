SPECIFICATION Spec
CONSTANTS
  k1 = k1
  k2 = k2
  a = a
  ByteBits = 1
  Base = 2
  Digits = 1
  IntMin <- MCIntMin
  IntMax = 1
  MaxOffset = 1
  Stoi <- MCStoi
  ToText <- MCToText
  Keys = {k1}
  Elements = {a}
  Members = {1, 2}
  Scores = {1, 2}
  Requests <- OneKeyRequests
  RdbFiles <- SomeRdb
  Walls = {0, 1}
  MaxTime = 3
  MaxListLen = 2
INVARIANTS DeadlinesBelongToStrings IndexesAgree NothingEmpty UnpropagatedLeavesNoTrace LazyExpiryIsInvisible
PROPERTIES OnlyOverlaysMixTypes
