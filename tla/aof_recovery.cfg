SPECIFICATION Spec
CONSTANTS
  k1 = k1
  a = a
  ByteBits = 1
  Base = 2
  Digits = 1
  IntMin <- MCIntMin
  IntMax = 1
  MaxOffset = 1
  Stoi <- MCStoi
  ToText <- MCToText
  Keys = {k1}
  Elements = {a}
  Members = {1}
  Scores = {1}
  Clients = {1}
  Requests <- WriteRequests
  Policies = {"always", "everysec", "no"}
  Walls = {0, 1}
  MaxLog = 4
  MaxInexact = 3
  MaxQueued = 2
  MaxWatched = 1
  MaxTime = 2
  MaxCrashes = 1
INVARIANTS RecoveredWasLive OnlyCutLogsAreRefused AcknowledgedSurvives LossIsBounded
CHECK_DEADLOCK FALSE
