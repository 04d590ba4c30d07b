\* Two coroutine handlers under an exclusive token, nobody dies.
SPECIFICATION Spec
CONSTANTS
  i1 = i1  i2 = i2  i3 = i3
  None = None
  Invocations = {i1, i2}
  Calls <- AllCalls
  Interval = 2
  Delay = 1
  MayCrash = FALSE
PROPERTY
  RefusedOnlyWhileBusy
CHECK_DEADLOCK FALSE
