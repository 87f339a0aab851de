SPECIFICATION Spec
CONSTANTS
  k1 = k1
  k2 = k2
  a = a
  ByteBits = 1
  Base = 2
  Digits = 1
  IntMin <- MCIntMin
  IntMax = 1
  MaxOffset = 1
  Stoi <- MCStoi
  ToText <- MCToText
  Keys = {k1, k2}
  Elements = {a}
  Members = {1}
  Scores = {1}
  Requests <- TwoKeyRequests
  RdbFiles <- NoRdb
  Walls = {0}
  MaxTime = 2
  MaxListLen = 1
INVARIANTS UnpropagatedLeavesNoTrace LazyExpiryIsInvisible
