\* Two invocations and one approver with every kind of mismatch.
SPECIFICATION Spec
CONSTANTS
  i1 = i1  i2 = i2  i3 = i3  a1 = a1  a2 = a2
  transfer = transfer  refund = refund  p1 = p1  p2 = p2  s1 = s1
  conv1 = conv1  conv2 = conv2
  None = None  Unknown = Unknown
  Invocations = {i1, i2}
  Issues = {a1}
  Capabilities = {transfer, refund}
  Params = {p1, p2}
  Scopes = {s1}
  Sessions = {conv1, conv2}
  Calls <- BindingCalls
  Decisions <- BindingDecisions
  ScopeOf <- MCScopeOf
  PolicyOf <- MCPolicyOf
  MaxClock = 1
  Backend = "sqlite"
  StorageMayFail = TRUE
SYMMETRY Symmetry
INVARIANTS
  TypeOK UsesBounded RunsOnlyAsApproved RefusalsTruthful NothingUnpersisted
CHECK_DEADLOCK FALSE
