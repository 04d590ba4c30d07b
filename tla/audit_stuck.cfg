\* A replica that is never disturbed, with a third entry to cover.
SPECIFICATION FairSpec
CONSTANTS
  w1 = w1  w2 = w2  w3 = w3  r1 = r1  r2 = r2
  None = None
  Writers = {w1, w2, w3}
  Replicas = {r1}
  Cluster = TRUE
  Retentions = {None}
  MaxDay = 0
  MaxCheckpoints = 3
  StorageMayFail = FALSE
PROPERTY
  EventuallyCovered
CHECK_DEADLOCK FALSE
