CONSTANTS
  w1 = w1
  w2 = w2
  w3 = w3
  c1 = c1
  c2 = c2
  NoRow = NoRow
  Writers <- TwoWriters
  Columns <- TwoColumns
  Versions <- SomeVersions
  MaxCalls = 2
  MaxCrashes = 2
SPECIFICATION TableFairSpec
INVARIANTS ReadyMeansComplete
PROPERTIES OneRowForAll EveryInsertEnds EveryReplicaComesUp
CHECK_DEADLOCK FALSE
