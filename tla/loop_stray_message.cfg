SPECIFICATION Spec
CONSTANTS
  ByteBits = 1
  Base = 2
  Digits = 1
  IntMin <- MCIntMin
  IntMax = 1
  MaxOffset = 1
  Stoi <- MCStoi
  ToText <- MCToText
  Keys = {"k", "s"}
  Elements = {"e"}
  Members = {1}
  Scores = {1}
  Walls = {0}
  INT_MAX = 2
  Workloads <- StrayWorkloads
INVARIANTS MessagesReachTheirSubscribers
