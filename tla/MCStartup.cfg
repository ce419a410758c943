SPECIFICATION FairSpec
CONSTANTS
  a1 = a1
  a2 = a2
  a3 = a3
  w1 = w1
  w2 = w2
  Replicas = {a1, a2, a3}
  Workers = {w1, w2}
  MinAvailable = 2
  MaxFaults = 2
INVARIANTS TypeOK ServesWholeSchema WorkersFindTheirTables
PROPERTIES SomeReplicaServes WorkersJoin
