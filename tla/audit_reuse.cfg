\* Entries that expire at the end of the log.
SPECIFICATION Spec
CONSTANTS
  w1 = w1  w2 = w2  w3 = w3  r1 = r1  r2 = r2
  None = None
  Writers = {w1, w2, w3}
  Replicas = {r1}
  Cluster = FALSE
  Retentions = {1, None}
  MaxDay = 2
  MaxCheckpoints = 3
  StorageMayFail = FALSE
INVARIANT
  ProofsMatchRoot
CHECK_DEADLOCK FALSE
