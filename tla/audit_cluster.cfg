\* Two replicas on one database, leases that lapse, ticks that fail.
SPECIFICATION Spec
CONSTANTS
  w1 = w1  w2 = w2  w3 = w3  r1 = r1  r2 = r2
  None = None
  Writers = {w1, w2, w3}
  Replicas = {r1, r2}
  Cluster = TRUE
  Retentions = {None}
  MaxDay = 0
  MaxCheckpoints = 3
  StorageMayFail = TRUE
SYMMETRY Symmetry
INVARIANTS
  EntriesKept CheckpointsGrow ProofsMatchRoot PublishedAreStored
PROPERTY
  ImplementsTransparencyLog
CHECK_DEADLOCK FALSE
