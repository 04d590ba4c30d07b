SPECIFICATION Spec
CONSTANTS
  None = None
  Null = Null
  Ids = {1, 2, 3}
  Principals = {"alice", "bob", "carol"}
  Capabilities = {"book"}
  Scopes <- MCScopes
  Budgets <- MCBudgets
  RootRequests <- MCRootRequests
  ChildRequests <- MCChildRequests
  Backends = {"memory", "sqlite"}
  DefaultDepth = 1
  MaxTime = 2
  Requests = {r1}
  Calls <- MCCalls
  Declared <- MCDeclared
  StepIds = {"find", "use", "none"}
  Declarations <- MCDeclarations
  ParentInputs <- MCInputs
  Answers <- MCAnswers
  Data = {"x", "y"}
  MaxLeaves = 7
  Denials = {d1, d2, d3}
  Groups = {"spam"}
  Window = 2
  Horizon = 4
  MayRefuse = TRUE
  Projects = {"p"}
  Clones = {"q"}
  Names = {"n"}
  Texts <- MCTexts
  Saves = {"s"}
  Abouts <- MCAbouts
  Absent = Null
INVARIANTS
  RuntimeTypeOK
  GenuineBearersResolve
  TermsAreTheRoots
  RunsWithinAllAbove
  ReferencesResolve
  OutcomeFollowsPolicy
  RootIsCanonical
  InclusionIsExact
  ConsistencyIsExact
  OneRecordPerWindow
  OnlyCopiesMislead
PROPERTIES
  AuthorityOnlyShrinks
  AdmittedUnderLiveChain
  EveryRequestDecided
  ClosedWindowsTaken
CHECK_DEADLOCK FALSE
