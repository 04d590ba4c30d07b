\* Three invocations and two approvers race on one kind of call.
SPECIFICATION Spec
CONSTANTS
  i1 = i1  i2 = i2  i3 = i3  a1 = a1  a2 = a2
  transfer = transfer  refund = refund  p1 = p1  p2 = p2  s1 = s1
  conv1 = conv1  conv2 = conv2
  None = None  Unknown = Unknown
  Invocations = {i1, i2, i3}
  Issues = {a1, a2}
  Capabilities = {transfer, refund}
  Params = {p1, p2}
  Scopes = {s1}
  Sessions = {conv1, conv2}
  Calls <- RaceCalls
  Decisions <- RaceDecisions
  ScopeOf <- MCScopeOf
  PolicyOf <- MCPolicyOf
  MaxClock = 1
  Backend = "postgres"
  StorageMayFail = FALSE
SYMMETRY Symmetry
INVARIANTS
  ApprovedIffGranted UsesBounded RefusalsTruthful
PROPERTIES
  SpentStaysSpent ImplementsLedger
CHECK_DEADLOCK FALSE
