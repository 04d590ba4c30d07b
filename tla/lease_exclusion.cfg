\* Three invocations, statements and heartbeats late by one, processes that die.
SPECIFICATION FairSpec
CONSTANTS
  i1 = i1  i2 = i2  i3 = i3
  None = None
  Invocations = {i1, i2, i3}
  Calls <- AsyncCalls
  Interval = 2
  Delay = 1
  MayCrash = TRUE
INVARIANTS
  TypeOK MutualExclusion
PROPERTIES
  OnlyHolderReleases LeaseComesFree
CHECK_DEADLOCK FALSE
