\* Two entries in a cluster.
SPECIFICATION Spec
CONSTANTS
  w1 = w1  w2 = w2  w3 = w3  r1 = r1  r2 = r2
  None = None
  Writers = {w1, w2}
  Replicas = {r1}
  Cluster = TRUE
  Retentions = {None}
  MaxDay = 0
  MaxCheckpoints = 2
  StorageMayFail = FALSE
INVARIANT
  ChainVerifies
CHECK_DEADLOCK FALSE
