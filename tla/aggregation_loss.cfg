SPECIFICATION AggregationSpec
CONSTANTS
  Denials = {d1, d2, d3}
  Groups = {"malformed", "unknown"}
  Window = 2
  Horizon = 4
  MayRefuse = FALSE
INVARIANT
  ClosedWindowsRecorded
CHECK_DEADLOCK FALSE
