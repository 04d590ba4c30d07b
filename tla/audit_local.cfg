\* One process, three entries that may expire after a day.
SPECIFICATION FairSpec
CONSTANTS
  w1 = w1  w2 = w2  w3 = w3  r1 = r1  r2 = r2
  None = None
  Writers = {w1, w2, w3}
  Replicas = {r1}
  Cluster = FALSE
  Retentions = {1, None}
  MaxDay = 2
  MaxCheckpoints = 3
  StorageMayFail = FALSE
INVARIANTS
  TypeOK EntriesKept ChainVerifies SignedByOwner CheckpointsGrow
PROPERTY
  EventuallyCovered
CHECK_DEADLOCK FALSE
