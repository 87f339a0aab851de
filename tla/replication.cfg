SPECIFICATION FairSpec
CONSTANTS
  r1 = r1
  r2 = r2
  Replicas = {r1, r2}
  Clients = {a}
  Counts = {1, 2}
  MaxLinks = 2
  MaxStream = 3
  MaxBatch = 2
  MaxWaits = 1
  Scenarios <- MCScenarios
INVARIANTS TypeOK AppliesTheStream AcksAreHonest
CHECK_DEADLOCK FALSE
PROPERTIES ImplementsLog HandshakeEnds CatchesUp WaitIsAnswered
