------------------------ MODULE ApprovalGrantsProofs ------------------------
(***************************************************************************)
(* Proofs about ApprovalGrants, for every number of callers and approvers, *)
(* every policy and every kind of call.                                    *)
(***************************************************************************)
EXTENDS ApprovalGrants, FiniteSetTheorems, TLAPS

-----------------------------------------------------------------------------
(* The inductive invariant                                                 *)

\* An issue in flight works on a stored request, within its policy once past
\* the preflight, and has not stored its grant before it says so.
IssuesInFlight ==
  \A a \in DOMAIN iss :
    /\ iss[a].pc # "done" => iss[a].req \in DOMAIN requests
    /\ iss[a].pc \in {"build", "store"} =>
         PolicyAllows(iss[a].decision, PolicyOf[requests[iss[a].req].cap])
    /\ iss[a].pc \in {"preflight", "build", "store"} => a \notin DOMAIN grants

\* Every row was written by a call that is past the step that writes it.
RowsHaveAuthors ==
  /\ DOMAIN grants \subseteq DOMAIN iss
  /\ \A r \in DOMAIN requests :
       r \in DOMAIN inv /\ inv[r].pc \in {"audit", "link", "done"}

\* A grant says what its request says.
GrantsMatchRequests ==
  \A g \in DOMAIN grants :
    /\ grants[g].request \in DOMAIN requests
    /\ grants[g].cap = requests[grants[g].request].cap
    /\ grants[g].params = requests[grants[g].request].params
    /\ grants[g].scope = ScopeOf[grants[g].cap]

\* What validate_continuation_grant established about invocation i.
Validated(i) ==
  LET g == grants[inv[i].grant]
      c == inv[i].call
  IN /\ inv[i].grant \in DOMAIN grants
     /\ c.cap = g.cap /\ c.params = g.params /\ g.scope \subseteq c.scope
     /\ g.type = "session_bound" => c.session = g.session

\* The grant an invocation names was stored before, nothing is reserved before
\* the reservation step, and the handler runs only after it.
InFlight(i) ==
  LET s == inv[i]
  IN /\ s.grant \in DOMAIN grants \cup {None, Unknown}
     /\ s.pc \in {"validate", "reserve"} => ~ s.reserved /\ s.grant # None
     /\ s.pc \in {"validate", "reserve", "handler", "materialize"} => s.result = "running"
     /\ s.pc = "reserve" \/ s.reserved => Validated(i)
     /\ s.reserved => s.now < grants[s.grant].expires
     /\ s.pc \in {"handler", "materialize"} \/ s.result \in HandlerResults \ {"internal_error"}
          => s.grant = None \/ s.reserved
     /\ s.req # None => s.result = "approval_required"
     /\ s.pc = "link" => s.req # None

InvocationsInFlight ==
  /\ IsFiniteSet(DOMAIN inv)
  /\ \A i \in DOMAIN inv : InFlight(i)

IInv ==
  /\ TypeOK
  /\ IssuesInFlight
  /\ RowsHaveAuthors
  /\ GrantsMatchRequests
  /\ InvocationsInFlight
  /\ ApprovedIffGranted
  /\ UsesBounded

-----------------------------------------------------------------------------
(* Lemmas                                                                  *)

\* Adding a key to a partial function: its domain, its values, its type.
LEMMA PutAdds ==
  ASSUME NEW f, NEW x, NEW y
  PROVE  /\ DOMAIN Put(f, x, y) = DOMAIN f \cup {x}
         /\ Put(f, x, y)[x] = y
         /\ \A z \in DOMAIN f : z # x => Put(f, x, y)[z] = f[z]
  BY DEF Put

\* A row of the right type keeps the type of the table.
LEMMA PutTyped ==
  ASSUME NEW S, NEW D, NEW f, f \in [DOMAIN f -> S], DOMAIN f \subseteq D,
         NEW x \in D, NEW y \in S
  PROVE  /\ DOMAIN Put(f, x, y) \subseteq D
         /\ Put(f, x, y) \in [DOMAIN Put(f, x, y) -> S]
  BY DEF Put

\* Changing one entry of a partial function keeps its domain and its type.
LEMMA ExceptTyped ==
  ASSUME NEW S, NEW f, f \in [DOMAIN f -> S], NEW x \in DOMAIN f, NEW y \in S
  PROVE  LET h == [f EXCEPT ![x] = y]
         IN /\ DOMAIN h = DOMAIN f
            /\ h \in [DOMAIN h -> S]
            /\ h[x] = y
            /\ \A z \in DOMAIN f : z # x => h[z] = f[z]
  OBVIOUS

\* The terms an approver is granted are numbers.
LEMMA EffectiveTyped ==
  ASSUME NEW d \in Decisions, NEW c \in Capabilities
  PROVE  /\ EffectiveExpiresIn(d, PolicyOf[c]) \in Int
         /\ EffectiveMaxUses(d, PolicyOf[c]) \in Int
  BY InputsAssumption, SentinelsAssumption
  DEF EffectiveExpiresIn, EffectiveMaxUses, Decision, GrantPolicy, GrantTypes

\* What the two steps on a grant can be answered, errors of the storage included.
LEMMA AnswersTyped ==
  ASSUME NEW c, NEW g, NEW now
  PROVE  /\ \A r \in {GrantRefusal(c, g, now)} \cup StorageErrors :
              /\ r \in GrantFailures \cup {"ok", "internal_error"}
              /\ r = "ok" => GrantRefusal(c, g, now) = "ok"
              /\ r \in {"grant_expired", "grant_consumed"} => GrantRefusal(c, g, now) = r
         /\ \A r \in {ReserveRefusal(g, now)} \cup StorageErrors :
              /\ r \in GrantFailures \cup {"ok", "internal_error"}
              /\ r = "ok" => ReserveRefusal(g, now) = "ok"
              /\ r \in {"grant_expired", "grant_consumed"} => ReserveRefusal(g, now) = r
  BY DEF GrantRefusal, ReserveRefusal, StorageErrors, GrantFailures

\* The step of issue a on the tables, when the atomic primitive answers why.
Answered(a, why) ==
  LET r == iss[a].req
  IN /\ why \in IssueFailures \cup {"ok", "storage_error"}
     /\ why # "storage_error" => why = ApproveRefusal(r, iss[a].now, MaxUsesOf(a))
     /\ IF why = "ok"
        THEN /\ requests' = [requests EXCEPT ![r].status = "approved",
                                             ![r].approver = a, ![r].decidedAt = iss[a].now]
             /\ grants' = Put(grants, a, NewGrant(a))
             /\ iss' = [iss EXCEPT ![a].pc = "audit", ![a].result = "issued"]
        ELSE /\ iss' = [iss EXCEPT ![a].pc = "done", ![a].result = why]
             /\ UNCHANGED <<requests, grants>>

\* The primitive answers by the tables, or raises and leaves them alone.
LEMMA ApproveAnswers ==
  ASSUME NEW a, ApproveAndStore(a)
  PROVE  \E why : Answered(a, why)
<1> DEFINE refusal == ApproveRefusal(iss[a].req, iss[a].now, MaxUsesOf(a))
<1>1. PICK why \in {refusal} \cup (IF StorageMayFail THEN {"storage_error"} ELSE {}) :
        LET r == iss[a].req
        IN IF why = "ok"
           THEN /\ requests' = [requests EXCEPT ![r].status = "approved",
                                                ![r].approver = a, ![r].decidedAt = iss[a].now]
                /\ grants' = Put(grants, a, NewGrant(a))
                /\ iss' = [iss EXCEPT ![a].pc = "audit", ![a].result = "issued"]
           ELSE /\ iss' = [iss EXCEPT ![a].pc = "done", ![a].result = why]
                /\ UNCHANGED <<requests, grants>>
  BY DEF ApproveAndStore
<1>2. refusal \in IssueFailures \cup {"ok", "storage_error"}
  BY DEF ApproveRefusal, IssueFailures
<1>3. /\ why \in IssueFailures \cup {"ok", "storage_error"}
      /\ why # "storage_error" => why = refusal
  BY <1>2
<1> QED
  BY <1>1, <1>3 DEF Answered

-----------------------------------------------------------------------------
(* Type correctness                                                        *)

\* The tables start empty.
LEMMA InitIInv == Init => IInv
<1> SUFFICES ASSUME Init PROVE IInv
  OBVIOUS
<1>1. IsFiniteSet({}) /\ Cardinality({}) = 0
  BY FS_EmptySet
<1>2. TypeOK
  BY DEF Init, TypeOK, Nothing
<1> QED
  BY <1>1, <1>2 DEF Init, Nothing, IInv, IssuesInFlight, RowsHaveAuthors, GrantsMatchRequests,
     InvocationsInFlight, ApprovedIffGranted, UsesBounded

\* Every step of invoke keeps the shape of the tables and of the local states.
LEMMA InvocationTyped ==
  ASSUME TypeOK, NEW i \in Invocations, Invoke(i) \/ InvocationStep(i)
  PROVE  TypeOK'
<1>0. TypeOK
  OBVIOUS
<1>1. CASE Invoke(i)
  <2> DEFINE State(c, g) == [pc |-> IF g = None THEN "handler" ELSE "validate",
                             call |-> c, grant |-> g, now |-> clock, reserved |-> FALSE,
                             req |-> None, result |-> "running"]
  <2>1. PICK c \in Calls, g \in DOMAIN grants \cup {None, Unknown} :
          inv' = Put(inv, i, State(c, g))
    BY <1>1 DEF Invoke
  <2>2. State(c, g) \in InvocationState
    BY <1>0 DEF InvocationState, TypeOK
  <2> HIDE DEF State
  <2>3. DOMAIN inv' \subseteq Invocations /\ inv' \in [DOMAIN inv' -> InvocationState]
    BY <1>0, <2>1, <2>2, PutTyped DEF TypeOK
  <2> QED
    BY <1>0, <1>1, <2>3 DEF Invoke, TypeOK
<1>2. CASE ValidateGrant(i)
  <2>1. inv[i] \in InvocationState /\ clock \in Int
    BY <1>0, <1>2 DEF ValidateGrant, TypeOK
  <2>2. PICK r \in GrantFailures \cup {"ok", "internal_error"} :
          inv' = IF r = "ok"
                 THEN [inv EXCEPT ![i].pc = "reserve", ![i].now = clock]
                 ELSE [inv EXCEPT ![i].pc = "audit", ![i].result = r]
    BY <1>2, AnswersTyped DEF ValidateGrant
  <2>3. inv' \in [DOMAIN inv -> InvocationState] /\ DOMAIN inv' = DOMAIN inv
    BY <1>0, <2>1, <2>2 DEF TypeOK, InvocationState, HandlerResults
  <2> QED
    BY <1>0, <1>2, <2>3 DEF ValidateGrant, TypeOK
<1>3. CASE ReserveGrant(i)
  <2>1. inv[i] \in InvocationState
    BY <1>0, <1>3 DEF ReserveGrant, TypeOK
  <2> DEFINE g == inv[i].grant
  <2>2. PICK r \in {ReserveRefusal(g, inv[i].now)} \cup StorageErrors :
          IF r = "ok"
          THEN /\ grants' = [grants EXCEPT ![g].uses = @ + 1]
               /\ inv' = [inv EXCEPT ![i].pc = "handler", ![i].reserved = TRUE]
          ELSE /\ inv' = [inv EXCEPT ![i].pc = "audit", ![i].result = r]
               /\ UNCHANGED grants
    BY <1>3 DEF ReserveGrant
  <2>3. inv' \in [DOMAIN inv -> InvocationState] /\ DOMAIN inv' = DOMAIN inv
    <3>1. r \in GrantFailures \cup {"ok", "internal_error"}
      BY AnswersTyped
    <3> QED
      BY <1>0, <1>3, <2>1, <2>2, <3>1 DEF TypeOK, InvocationState, HandlerResults
  <2>4. grants' \in [DOMAIN grants -> Grant] /\ DOMAIN grants' = DOMAIN grants
    <3>1. CASE r = "ok"
      <4>1. g \in DOMAIN grants /\ grants' = [grants EXCEPT ![g].uses = @ + 1]
        BY <2>2, <3>1, AnswersTyped DEF ReserveRefusal
      <4>2. grants[g] \in Grant
        BY <1>0, <4>1 DEF TypeOK
      <4>3. [grants[g] EXCEPT !.uses = @ + 1] \in Grant
        BY <4>2 DEF Grant
      <4> QED
        BY <1>0, <4>1, <4>3 DEF TypeOK
    <3> QED
      BY <1>0, <2>2, <3>1 DEF TypeOK
  <2> QED
    BY <1>0, <1>3, <2>3, <2>4 DEF ReserveGrant, TypeOK
<1>4. CASE HandlerEnds(i)
  <2>1. inv[i] \in InvocationState
    BY <1>0, <1>4 DEF HandlerEnds, TypeOK
  <2>2. inv' \in [DOMAIN inv -> InvocationState] /\ DOMAIN inv' = DOMAIN inv
    BY <1>0, <1>4, <2>1 DEF HandlerEnds, TypeOK, InvocationState, HandlerResults
  <2> QED
    BY <1>0, <1>4, <2>2 DEF HandlerEnds, TypeOK
<1>5. CASE HandlerAsksApproval(i)
  <2>1. inv[i] \in InvocationState
    BY <1>0, <1>5 DEF HandlerAsksApproval, TypeOK
  <2>2. inv' \in [DOMAIN inv -> InvocationState] /\ DOMAIN inv' = DOMAIN inv
    BY <1>0, <1>5, <2>1 DEF HandlerAsksApproval, TypeOK, InvocationState
  <2> QED
    BY <1>0, <1>5, <2>2 DEF HandlerAsksApproval, TypeOK
<1>6. CASE HandlerForwardsApproval(i)
  <2>1. inv[i] \in InvocationState
    BY <1>0, <1>6 DEF HandlerForwardsApproval, TypeOK
  <2>2. inv' \in [DOMAIN inv -> InvocationState] /\ DOMAIN inv' = DOMAIN inv
    BY <1>0, <1>6, <2>1 DEF HandlerForwardsApproval, TypeOK, InvocationState, HandlerResults
  <2> QED
    BY <1>0, <1>6, <2>2 DEF HandlerForwardsApproval, TypeOK
<1>7. CASE Materialize(i)
  <2>1. inv[i] \in InvocationState /\ clock \in Int /\ inv[i].call \in Calls
    BY <1>0, <1>7 DEF Materialize, TypeOK, InvocationState
  <2>2. NewRequest(inv[i].call, clock) \in Request
    BY <2>1, InputsAssumption DEF NewRequest, Request, Call, GrantPolicy
  <2>3. inv' \in [DOMAIN inv -> InvocationState] /\ DOMAIN inv' = DOMAIN inv
    BY <1>0, <1>7, <2>1 DEF Materialize, TypeOK, InvocationState, HandlerResults
  <2>4. DOMAIN requests' \subseteq Invocations /\ requests' \in [DOMAIN requests' -> Request]
    <3> DEFINE q == NewRequest(inv[i].call, clock)
    <3>1. CASE requests' = Put(requests, i, q)
      <4>1. q \in Request
        BY <2>2
      <4> HIDE DEF q
      <4> QED
        BY <1>0, <4>1, <3>1, PutTyped DEF TypeOK
    <3>2. CASE requests' = requests
      BY <1>0, <3>2 DEF TypeOK
    <3> QED
      BY <1>7, <3>1, <3>2 DEF Materialize
  <2> QED
    BY <1>0, <1>7, <2>3, <2>4 DEF Materialize, TypeOK
<1>8. CASE AuditInvocation(i)
  <2>1. inv[i] \in InvocationState
    BY <1>0, <1>8 DEF AuditInvocation, TypeOK
  <2>2. inv' \in [DOMAIN inv -> InvocationState] /\ DOMAIN inv' = DOMAIN inv
    BY <1>0, <1>8, <2>1 DEF AuditInvocation, TypeOK, InvocationState
  <2>3. InvocationEntry(i) \in Entry
    BY <2>1 DEF InvocationEntry, Entry, InvocationState
  <2> QED
    BY <1>0, <1>8, <2>2, <2>3 DEF AuditInvocation, LogEntry, TypeOK
<1>9. CASE AuditRequestCreated(i)
  <2>1. inv[i] \in InvocationState
    BY <1>0, <1>9 DEF AuditRequestCreated, TypeOK
  <2>2. inv' \in [DOMAIN inv -> InvocationState] /\ DOMAIN inv' = DOMAIN inv
    BY <1>0, <1>9, <2>1 DEF AuditRequestCreated, TypeOK, InvocationState
  <2>3. RequestCreatedEntry(i) \in Entry
    BY <2>1 DEF RequestCreatedEntry, Entry, InvocationState
  <2> QED
    BY <1>0, <1>9, <2>2, <2>3 DEF AuditRequestCreated, LogEntry, TypeOK
<1> QED
  BY <1>1, <1>2, <1>3, <1>4, <1>5, <1>6, <1>7, <1>8, <1>9 DEF InvocationStep

\* Every step of issue_approval_grant keeps the shape of the tables and of the
\* local states.
LEMMA IssueTyped ==
  ASSUME TypeOK, IssuesInFlight, NEW a \in Issues, LoadRequest(a) \/ IssueStep(a)
  PROVE  TypeOK'
<1>0. TypeOK /\ clock \in Int
  BY DEF TypeOK
<1>1. CASE LoadRequest(a)
  <2> DEFINE found(r) == r \in DOMAIN requests
             State(r, d) ==
               [pc |-> IF found(r) THEN "preflight" ELSE "done", req |-> r, decision |-> d,
                pending |-> IF found(r) THEN requests[r].status = "pending" ELSE FALSE,
                now |-> clock, expires |-> clock,
                result |-> IF found(r) THEN "running" ELSE "approval_request_not_found"]
  <2>1. PICK r \in DOMAIN requests \cup {Unknown}, d \in Decisions :
          iss' = Put(iss, a, State(r, d))
    BY <1>1 DEF LoadRequest
  <2>2. r \in Invocations \cup {Unknown}
    BY <1>0 DEF TypeOK
  <2>3. State(r, d) \in IssueState
    BY <1>0, <2>2 DEF IssueState, IssueFailures
  <2> HIDE DEF State
  <2>4. DOMAIN iss' \subseteq Issues /\ iss' \in [DOMAIN iss' -> IssueState]
    BY <1>0, <2>1, <2>3, PutTyped DEF TypeOK
  <2> QED
    BY <1>0, <1>1, <2>4 DEF LoadRequest, TypeOK
<1>2. CASE Preflight(a)
  <2>1. iss[a] \in IssueState
    BY <1>0, <1>2 DEF Preflight, TypeOK
  <2>2. iss' \in [DOMAIN iss -> IssueState] /\ DOMAIN iss' = DOMAIN iss
    BY <1>0, <1>2, <2>1 DEF Preflight, TypeOK, IssueState, IssueFailures
  <2> QED
    BY <1>0, <1>2, <2>2 DEF Preflight, TypeOK
<1>3. CASE BuildGrant(a)
  <2>1. iss[a] \in IssueState /\ requests[iss[a].req] \in Request
    BY <1>0, <1>3 DEF BuildGrant, TypeOK, IssuesInFlight
  <2>2. EffectiveExpiresIn(iss[a].decision, PolicyOf[requests[iss[a].req].cap]) \in Int
    BY <2>1, EffectiveTyped DEF IssueState, Request
  <2>3. iss' \in [DOMAIN iss -> IssueState] /\ DOMAIN iss' = DOMAIN iss
    BY <1>0, <1>3, <2>1, <2>2 DEF BuildGrant, TypeOK, IssueState
  <2> QED
    BY <1>0, <1>3, <2>3 DEF BuildGrant, TypeOK
<1>4. CASE ApproveAndStore(a)
  <2> DEFINE r == iss[a].req
  <2>0. PICK why : Answered(a, why)
    BY <1>4, ApproveAnswers
  <2>1. iss[a] \in IssueState /\ r \in DOMAIN requests /\ requests[r] \in Request
    BY <1>0, <1>4 DEF ApproveAndStore, TypeOK, IssuesInFlight
  <2>2. why \in IssueFailures \cup {"ok", "storage_error"}
    BY <2>0 DEF Answered
  <2>3. iss' \in [DOMAIN iss -> IssueState] /\ DOMAIN iss' = DOMAIN iss
    BY <1>0, <1>4, <2>0, <2>1, <2>2 DEF Answered, TypeOK, IssueState
  <2>4. NewGrant(a) \in Grant
    <3>1. MaxUsesOf(a) \in Int
      BY <2>1, EffectiveTyped DEF IssueState, Request, MaxUsesOf
    <3>2. /\ iss[a].decision \in Decision
          /\ ScopeOf[requests[r].cap] \subseteq Scopes
      BY <2>1, InputsAssumption DEF IssueState, Request
    <3>3. r \in Invocations
      BY <1>0, <2>1 DEF TypeOK
    <3> QED
      BY <2>1, <3>1, <3>2, <3>3 DEF NewGrant, Grant, Request, IssueState, Decision
  <2>5. CASE why = "ok"
    <3>1. [requests[r] EXCEPT !.status = "approved", !.approver = a,
                              !.decidedAt = iss[a].now] \in Request
      BY <2>1 DEF Request, IssueState
    <3>2. requests' \in [DOMAIN requests -> Request] /\ DOMAIN requests' = DOMAIN requests
      BY <1>0, <2>0, <2>1, <2>5, <3>1 DEF Answered, TypeOK
    <3>3. grants' = Put(grants, a, NewGrant(a))
      BY <2>0, <2>5 DEF Answered
    <3>4. DOMAIN grants' \subseteq Issues /\ grants' \in [DOMAIN grants' -> Grant]
      BY <1>0, <2>4, <3>3, PutTyped DEF TypeOK
    <3> QED
      BY <1>0, <1>4, <2>3, <3>2, <3>4 DEF ApproveAndStore, TypeOK
  <2>6. CASE why # "ok"
    BY <1>0, <1>4, <2>0, <2>3, <2>6 DEF Answered, ApproveAndStore, TypeOK
  <2> QED
    BY <2>5, <2>6
<1>5. CASE AuditGrantIssued(a)
  <2>1. iss[a] \in IssueState /\ iss[a].req \in Invocations
    BY <1>0, <1>5 DEF AuditGrantIssued, TypeOK, IssuesInFlight
  <2>2. iss' \in [DOMAIN iss -> IssueState] /\ DOMAIN iss' = DOMAIN iss
    BY <1>0, <1>5, <2>1 DEF AuditGrantIssued, TypeOK, IssueState
  <2>3. GrantIssuedEntry(a) \in Entry
    BY <2>1 DEF GrantIssuedEntry, Entry
  <2> QED
    BY <1>0, <1>5, <2>2, <2>3 DEF AuditGrantIssued, LogEntry, TypeOK
<1> QED
  BY <1>1, <1>2, <1>3, <1>4, <1>5 DEF IssueStep

-----------------------------------------------------------------------------
(* Every step preserves the invariant                                      *)

\* A step of invoke that leaves the tables alone, the grant it names and the
\* reservation it holds, disturbs only what is said of that call.
LEMMA LocalStep ==
  ASSUME IInv, TypeOK', UNCHANGED <<requests, grants, iss>>,
         NEW i \in DOMAIN inv, NEW s, inv' = [inv EXCEPT ![i] = s],
         s.grant = inv[i].grant, s.reserved = inv[i].reserved,
         inv[i].pc \in {"audit", "link", "done"} => s.pc \in {"audit", "link", "done"},
         InFlight(i)'
  PROVE  IInv'
<1>1. DOMAIN inv' = DOMAIN inv /\ inv'[i] = s /\ \A j \in DOMAIN inv : j # i => inv'[j] = inv[j]
  BY DEF IInv, TypeOK
<1>2. IssuesInFlight' /\ GrantsMatchRequests' /\ ApprovedIffGranted'
  BY DEF IInv, IssuesInFlight, GrantsMatchRequests, ApprovedIffGranted
<1>3. RowsHaveAuthors'
  BY <1>1 DEF IInv, RowsHaveAuthors
<1>4. InvocationsInFlight'
  <2>1. ASSUME NEW j \in DOMAIN inv, j # i PROVE InFlight(j)'
    BY <1>1, <2>1 DEF IInv, InvocationsInFlight, InFlight, Validated
  <2> QED
    BY <1>1, <2>1 DEF IInv, InvocationsInFlight
<1>5. UsesBounded'
  <2>1. \A g : Spenders(g)' = Spenders(g)
    BY <1>1 DEF Spenders
  <2> QED
    BY <2>1 DEF IInv, UsesBounded
<1> QED
  BY <1>2, <1>3, <1>4, <1>5 DEF IInv

\* The steps of an invocation that write neither table.
LEMMA LocalSteps ==
  ASSUME IInv, TypeOK', NEW i \in Invocations,
         \/ ValidateGrant(i) \/ HandlerEnds(i) \/ HandlerAsksApproval(i)
         \/ HandlerForwardsApproval(i) \/ AuditInvocation(i) \/ AuditRequestCreated(i)
  PROVE  IInv'
<1>0. \A j \in DOMAIN inv : InFlight(j)
  BY DEF IInv, InvocationsInFlight
<1>1. CASE ValidateGrant(i)
  <2>0. PICK r \in {GrantRefusal(inv[i].call, inv[i].grant, inv[i].now)} \cup StorageErrors :
          inv' = IF r = "ok"
                 THEN [inv EXCEPT ![i].pc = "reserve", ![i].now = clock]
                 ELSE [inv EXCEPT ![i].pc = "audit", ![i].result = r]
    BY <1>1 DEF ValidateGrant
  <2> DEFINE s == IF r = "ok" THEN [inv[i] EXCEPT !.pc = "reserve", !.now = clock]
                  ELSE [inv[i] EXCEPT !.pc = "audit", !.result = r]
  <2>1. i \in DOMAIN inv /\ inv[i].pc = "validate" /\ inv' = [inv EXCEPT ![i] = s]
    BY <1>1, <2>0 DEF ValidateGrant
  <2>2. inv'[i] = s /\ inv[i] \in InvocationState
    BY <2>1 DEF IInv, TypeOK
  <2>3. r = "ok" => Validated(i)
    <3>1. r = "ok" => GrantRefusal(inv[i].call, inv[i].grant, inv[i].now) = "ok"
      BY AnswersTyped
    <3> QED
      BY <3>1 DEF GrantRefusal, Validated
  <2>4. r \in GrantFailures \cup {"ok", "internal_error"}
    BY AnswersTyped
  <2>5. InFlight(i)'
    <3>1. InFlight(i) /\ UNCHANGED grants
      BY <1>0, <1>1, <2>1 DEF ValidateGrant
    <3>2. CASE r = "ok"
      <4>1. s = [inv[i] EXCEPT !.pc = "reserve", !.now = clock]
        BY <3>2
      <4> HIDE DEF s
      <4> QED
        BY <2>1, <2>2, <2>3, <3>1, <3>2, <4>1
        DEF InFlight, Validated, InvocationState, HandlerResults
    <3>3. CASE r # "ok"
      <4>1. s = [inv[i] EXCEPT !.pc = "audit", !.result = r]
        BY <3>3
      <4> HIDE DEF s
      <4> QED
        BY <2>1, <2>2, <2>4, <3>1, <3>3, <4>1
        DEF InFlight, Validated, InvocationState, GrantFailures, HandlerResults
    <3> QED
      BY <3>2, <3>3
  <2>6. s.grant = inv[i].grant /\ s.reserved = inv[i].reserved
    BY <2>2 DEF InvocationState
  <2> QED
    BY <1>1, <2>1, <2>5, <2>6, LocalStep DEF ValidateGrant
<1>2. CASE HandlerEnds(i)
  <2>1. PICK r \in {"ended", "internal_error"} :
          inv' = [inv EXCEPT ![i].pc = "audit", ![i].result = r]
    BY <1>2 DEF HandlerEnds
  <2> DEFINE s == [inv[i] EXCEPT !.pc = "audit", !.result = r]
  <2>2. i \in DOMAIN inv /\ inv[i].pc = "handler" /\ inv' = [inv EXCEPT ![i] = s]
    BY <1>2, <2>1 DEF HandlerEnds
  <2>3. inv'[i] = s /\ inv[i] \in InvocationState
    BY <2>2 DEF IInv, TypeOK
  <2>4. InFlight(i)'
    BY <1>0, <1>2, <2>2, <2>3 DEF HandlerEnds, InFlight, Validated, InvocationState, HandlerResults
  <2>5. s.grant = inv[i].grant /\ s.reserved = inv[i].reserved
    BY <2>3 DEF InvocationState
  <2> QED
    BY <1>2, <2>2, <2>4, <2>5, LocalStep DEF HandlerEnds
<1>3. CASE HandlerAsksApproval(i)
  <2> DEFINE s == [inv[i] EXCEPT !.pc = "materialize"]
  <2>1. i \in DOMAIN inv /\ inv[i].pc = "handler" /\ inv' = [inv EXCEPT ![i] = s]
    BY <1>3 DEF HandlerAsksApproval
  <2>2. inv'[i] = s /\ inv[i] \in InvocationState
    BY <2>1 DEF IInv, TypeOK
  <2>3. InFlight(i)'
    BY <1>0, <1>3, <2>1, <2>2 DEF HandlerAsksApproval, InFlight, Validated, InvocationState
  <2>4. s.grant = inv[i].grant /\ s.reserved = inv[i].reserved
    BY <2>2 DEF InvocationState
  <2> QED
    BY <1>3, <2>1, <2>3, <2>4, LocalStep DEF HandlerAsksApproval
<1>4. CASE HandlerForwardsApproval(i)
  <2>1. PICK r \in DOMAIN requests :
          inv' = [inv EXCEPT ![i].pc = "audit", ![i].req = r,
                             ![i].result = "approval_required"]
    BY <1>4 DEF HandlerForwardsApproval
  <2> DEFINE s == [inv[i] EXCEPT !.pc = "audit", !.req = r, !.result = "approval_required"]
  <2>2. i \in DOMAIN inv /\ inv[i].pc = "handler" /\ inv' = [inv EXCEPT ![i] = s]
    BY <1>4, <2>1 DEF HandlerForwardsApproval
  <2>3. inv'[i] = s /\ inv[i] \in InvocationState
    BY <2>2 DEF IInv, TypeOK
  <2>4. InFlight(i)'
    BY <1>0, <1>4, <2>2, <2>3
    DEF HandlerForwardsApproval, InFlight, Validated, InvocationState, HandlerResults
  <2>5. s.grant = inv[i].grant /\ s.reserved = inv[i].reserved
    BY <2>3 DEF InvocationState
  <2> QED
    BY <1>4, <2>2, <2>4, <2>5, LocalStep DEF HandlerForwardsApproval
<1>5. CASE AuditInvocation(i)
  <2> DEFINE s == [inv[i] EXCEPT !.pc = IF inv[i].req = None THEN "done" ELSE "link"]
  <2>1. i \in DOMAIN inv /\ inv[i].pc = "audit" /\ inv' = [inv EXCEPT ![i] = s]
    BY <1>5 DEF AuditInvocation
  <2>2. inv'[i] = s /\ inv[i] \in InvocationState
    BY <2>1 DEF IInv, TypeOK
  <2>3. InFlight(i)'
    BY <1>0, <1>5, <2>1, <2>2 DEF AuditInvocation, InFlight, Validated, InvocationState
  <2>4. s.grant = inv[i].grant /\ s.reserved = inv[i].reserved /\ s.pc \in {"link", "done"}
    BY <2>2 DEF InvocationState
  <2> QED
    BY <1>5, <2>1, <2>3, <2>4, LocalStep DEF AuditInvocation
<1>6. CASE AuditRequestCreated(i)
  <2> DEFINE s == [inv[i] EXCEPT !.pc = "done"]
  <2>1. i \in DOMAIN inv /\ inv[i].pc = "link" /\ inv' = [inv EXCEPT ![i] = s]
    BY <1>6 DEF AuditRequestCreated
  <2>2. inv'[i] = s /\ inv[i] \in InvocationState
    BY <2>1 DEF IInv, TypeOK
  <2>3. InFlight(i)'
    BY <1>0, <1>6, <2>1, <2>2 DEF AuditRequestCreated, InFlight, Validated, InvocationState
  <2>4. s.grant = inv[i].grant /\ s.reserved = inv[i].reserved /\ s.pc = "done"
    BY <2>2 DEF InvocationState
  <2> QED
    BY <1>6, <2>1, <2>3, <2>4, LocalStep DEF AuditRequestCreated
<1> QED
  BY <1>1, <1>2, <1>3, <1>4, <1>5, <1>6

\* A new invocation holds no reservation and wrote no request.
LEMMA InvokeStep ==
  ASSUME IInv, TypeOK', NEW i \in Invocations, Invoke(i)
  PROVE  IInv'
<1> DEFINE State(c, g) == [pc |-> IF g = None THEN "handler" ELSE "validate",
                           call |-> c, grant |-> g, now |-> clock, reserved |-> FALSE,
                           req |-> None, result |-> "running"]
<1>1. PICK c \in Calls, g \in DOMAIN grants \cup {None, Unknown} :
        inv' = Put(inv, i, State(c, g))
  BY DEF Invoke
<1>2. /\ i \notin DOMAIN inv
      /\ UNCHANGED <<clock, requests, grants, iss>>
  BY DEF Invoke
<1> HIDE DEF State
<1>3. /\ DOMAIN inv' = DOMAIN inv \cup {i}
      /\ inv'[i] = State(c, g)
      /\ \A j \in DOMAIN inv : inv'[j] = inv[j]
  BY <1>1, <1>2 DEF Put
<1>4. IssuesInFlight' /\ GrantsMatchRequests' /\ ApprovedIffGranted'
  BY <1>2 DEF IInv, IssuesInFlight, GrantsMatchRequests, ApprovedIffGranted
<1>5. RowsHaveAuthors'
  BY <1>2, <1>3 DEF IInv, RowsHaveAuthors
<1>6. InvocationsInFlight'
  <2>1. InFlight(i)'
    BY <1>2, <1>3 DEF InFlight, State, HandlerResults
  <2>2. ASSUME NEW j \in DOMAIN inv PROVE InFlight(j)'
    BY <1>2, <1>3 DEF IInv, InvocationsInFlight, InFlight, Validated
  <2>3. IsFiniteSet(DOMAIN inv')
    BY <1>3, FS_AddElement DEF IInv, InvocationsInFlight
  <2> QED
    BY <1>3, <2>1, <2>2, <2>3 DEF InvocationsInFlight
<1>7. UsesBounded'
  <2>1. \A h : Spenders(h)' = Spenders(h)
    BY <1>3 DEF Spenders, State
  <2> QED
    BY <1>2, <2>1 DEF IInv, UsesBounded
<1> QED
  BY <1>4, <1>5, <1>6, <1>7 DEF IInv

\* A reservation counts exactly one more spender, on a grant with a use left.
LEMMA ReserveStep ==
  ASSUME IInv, TypeOK', NEW i \in Invocations, ReserveGrant(i)
  PROVE  IInv'
<1> DEFINE g == inv[i].grant
<1>0. PICK r \in {ReserveRefusal(g, inv[i].now)} \cup StorageErrors :
        IF r = "ok"
        THEN /\ grants' = [grants EXCEPT ![g].uses = @ + 1]
             /\ inv' = [inv EXCEPT ![i].pc = "handler", ![i].reserved = TRUE]
        ELSE /\ inv' = [inv EXCEPT ![i].pc = "audit", ![i].result = r]
             /\ UNCHANGED grants
  BY DEF ReserveGrant
<1>1. /\ i \in DOMAIN inv /\ inv[i].pc = "reserve"
      /\ UNCHANGED <<clock, requests, iss>>
      /\ inv[i] \in InvocationState
      /\ InFlight(i)
  BY DEF IInv, TypeOK, InvocationsInFlight, ReserveGrant
<1>2. CASE r # "ok"
  <2> DEFINE s == [inv[i] EXCEPT !.pc = "audit", !.result = r]
  <2>1. inv' = [inv EXCEPT ![i] = s] /\ UNCHANGED grants
    BY <1>0, <1>2
  <2>2. inv'[i] = s
    BY <1>1, <2>1 DEF IInv, TypeOK
  <2>3. r \in GrantFailures \cup {"internal_error"}
    BY <1>2, AnswersTyped
  <2>4. InFlight(i)'
    BY <1>1, <2>1, <2>2, <2>3
    DEF InFlight, Validated, InvocationState, GrantFailures, HandlerResults
  <2>5. s.grant = inv[i].grant /\ s.reserved = inv[i].reserved
    BY <1>1 DEF InvocationState
  <2> QED
    BY <1>1, <2>1, <2>4, <2>5, LocalStep
<1>3. CASE r = "ok"
  <2> DEFINE s == [inv[i] EXCEPT !.pc = "handler", !.reserved = TRUE]
             h == [grants[g] EXCEPT !.uses = @ + 1]
  <2>0. /\ g \in DOMAIN grants /\ ~ (grants[g].expires <= inv[i].now)
        /\ ~ (grants[g].uses >= grants[g].maxUses)
    BY <1>3, AnswersTyped DEF ReserveRefusal
  <2>1. inv' = [inv EXCEPT ![i] = s] /\ grants' = [grants EXCEPT ![g] = h]
    BY <1>0, <1>3
  <2>2. /\ DOMAIN inv' = DOMAIN inv /\ inv'[i] = s
        /\ \A j \in DOMAIN inv : j # i => inv'[j] = inv[j]
    BY <1>1, <2>1 DEF IInv, TypeOK
  <2>3. /\ DOMAIN grants' = DOMAIN grants /\ grants'[g] = h
        /\ \A k \in DOMAIN grants : k # g => grants'[k] = grants[k]
        /\ grants[g] \in Grant
    BY <2>0, <2>1 DEF IInv, TypeOK
  <2>4. \A k \in DOMAIN grants :
          /\ grants'[k].request = grants[k].request /\ grants'[k].cap = grants[k].cap
          /\ grants'[k].params = grants[k].params /\ grants'[k].scope = grants[k].scope
          /\ grants'[k].type = grants[k].type /\ grants'[k].session = grants[k].session
          /\ grants'[k].expires = grants[k].expires
          /\ grants'[k].issuedAt = grants[k].issuedAt
          /\ grants'[k].maxUses = grants[k].maxUses
    BY <2>3 DEF Grant
  <2>5. IssuesInFlight' /\ GrantsMatchRequests' /\ ApprovedIffGranted'
    BY <1>1, <2>3, <2>4 DEF IInv, IssuesInFlight, GrantsMatchRequests, ApprovedIffGranted
  <2>6. RowsHaveAuthors'
    BY <1>1, <2>2, <2>3 DEF IInv, RowsHaveAuthors
  <2>7. InvocationsInFlight'
    <3>1. ASSUME NEW j \in DOMAIN inv, j # i PROVE InFlight(j)'
      <4>1. inv'[j] = inv[j] /\ InFlight(j)
        BY <2>2, <3>1 DEF IInv, InvocationsInFlight
      <4> QED
        BY <4>1, <2>3, <2>4 DEF InFlight, Validated
    <3>2. InFlight(i)'
      <4>1. inv'[i] = s /\ s.grant = g /\ s.call = inv[i].call /\ s.pc = "handler"
            /\ s.reserved /\ s.now = inv[i].now /\ s.req = inv[i].req
            /\ s.result = inv[i].result
        BY <1>1, <2>2 DEF InvocationState
      <4>2. Validated(i)'
        <5>1. Validated(i)
          BY <1>1 DEF InFlight
        <5>2. inv'[i].grant = g /\ inv'[i].call = inv[i].call /\ g \in DOMAIN grants'
          BY <2>0, <2>3, <4>1
        <5> HIDE DEF h, s
        <5> QED
          BY <2>0, <2>4, <5>1, <5>2 DEF Validated
      <4>3. inv[i].now < grants'[g].expires
        <5>1. inv[i].now \in Int /\ grants[g].expires \in Int
          BY <1>1, <2>3 DEF InvocationState, Grant
        <5> QED
          BY <2>0, <2>4, <5>1
      <4> QED
        BY <1>1, <2>0, <2>3, <4>1, <4>2, <4>3 DEF InFlight
    <3> QED
      BY <2>2, <3>1, <3>2 DEF IInv, InvocationsInFlight
  <2>8. UsesBounded'
    <3>1. s.grant = g /\ s.reserved /\ ~ inv[i].reserved
      BY <1>1 DEF InvocationState, InFlight
    <3>2. ASSUME NEW k \in DOMAIN grants, k = g
          PROVE  /\ grants'[k].uses = Cardinality(Spenders(k)')
                 /\ grants'[k].uses <= grants'[k].maxUses
      <4>1. Spenders(k)' = Spenders(k) \cup {i} /\ i \notin Spenders(k)
        BY <1>1, <2>2, <3>1, <3>2 DEF Spenders
      <4>2. IsFiniteSet(Spenders(k))
        BY FS_Subset DEF Spenders, IInv, InvocationsInFlight
      <4>3. Cardinality(Spenders(k)') = Cardinality(Spenders(k)) + 1
        BY <4>1, <4>2, FS_AddElement
      <4>4. grants[k].uses = Cardinality(Spenders(k))
        BY DEF IInv, UsesBounded
      <4>5. /\ grants'[k].uses = grants[k].uses + 1 /\ grants'[k].maxUses = grants[k].maxUses
            /\ grants[k].uses \in Nat /\ grants[k].maxUses \in Int
        BY <2>3, <3>2 DEF Grant
      <4> HIDE DEF h, s
      <4> QED
        BY <2>0, <3>2, <4>3, <4>4, <4>5
    <3>3. \A k \in DOMAIN grants : k # g => Spenders(k)' = Spenders(k)
      BY <1>1, <2>2, <3>1 DEF Spenders
    <3>4. ASSUME NEW k \in DOMAIN grants, k # g
          PROVE  /\ grants'[k].uses = Cardinality(Spenders(k)')
                 /\ grants'[k].uses = 0 \/ grants'[k].uses <= grants'[k].maxUses
      BY <2>3, <3>3, <3>4 DEF IInv, UsesBounded
    <3>5. ASSUME NEW k \in DOMAIN grants
          PROVE  /\ grants'[k].maxUses <= PolicyOf[grants'[k].cap].maxUses
                 /\ grants'[k].type = "one_time" => grants'[k].maxUses = 1
                 /\ Backend # "memory" => grants'[k].maxUses >= 1
      BY <2>4 DEF IInv, UsesBounded
    <3> QED
      <4>1. DOMAIN grants' = DOMAIN grants
        BY <2>3
      <4> SUFFICES ASSUME NEW k \in DOMAIN grants
                   PROVE  /\ grants'[k].uses = Cardinality(Spenders(k)')
                          /\ grants'[k].uses = 0 \/ grants'[k].uses <= grants'[k].maxUses
        BY <3>5, <4>1 DEF UsesBounded
      <4>2. CASE k = g
        BY <3>2, <4>2
      <4>3. CASE k # g
        BY <3>4, <4>3
      <4> QED
        BY <4>2, <4>3
  <2> QED
    BY <2>5, <2>6, <2>7, <2>8 DEF IInv
<1> QED
  BY <1>2, <1>3

\* The stored request is new, and no grant names it yet.
LEMMA MaterializeStep ==
  ASSUME IInv, TypeOK', NEW i \in Invocations, Materialize(i)
  PROVE  IInv'
<1>1. /\ i \in DOMAIN inv /\ inv[i].pc = "materialize"
      /\ UNCHANGED <<clock, grants, iss>>
      /\ inv[i] \in InvocationState
      /\ InFlight(i)
  BY DEF IInv, TypeOK, InvocationsInFlight, Materialize
<1>2. CASE /\ inv' = [inv EXCEPT ![i].pc = "audit", ![i].result = "service_unavailable"]
           /\ UNCHANGED requests
  <2> DEFINE s == [inv[i] EXCEPT !.pc = "audit", !.result = "service_unavailable"]
  <2>1. inv' = [inv EXCEPT ![i] = s] /\ UNCHANGED requests
    BY <1>2
  <2>2. inv'[i] = s
    BY <1>1, <2>1 DEF IInv, TypeOK
  <2>3. InFlight(i)'
    BY <1>1, <2>1, <2>2 DEF InFlight, Validated, InvocationState, HandlerResults
  <2>4. s.grant = inv[i].grant /\ s.reserved = inv[i].reserved
    BY <1>1 DEF InvocationState
  <2> QED
    BY <1>1, <2>1, <2>3, <2>4, LocalStep
<1>3. CASE /\ requests' = Put(requests, i, NewRequest(inv[i].call, clock))
           /\ inv' = [inv EXCEPT ![i].pc = "audit", ![i].req = i,
                                 ![i].result = "approval_required"]
  <2> DEFINE s == [inv[i] EXCEPT !.pc = "audit", !.req = i, !.result = "approval_required"]
             q == NewRequest(inv[i].call, clock)
  <2>1. i \notin DOMAIN requests
    BY <1>1 DEF IInv, RowsHaveAuthors
  <2>2. /\ DOMAIN inv' = DOMAIN inv /\ inv'[i] = s
        /\ \A j \in DOMAIN inv : j # i => inv'[j] = inv[j]
    BY <1>1, <1>3 DEF IInv, TypeOK
  <2>3. /\ s.grant = inv[i].grant /\ s.reserved = inv[i].reserved /\ s.pc = "audit"
        /\ s.now = inv[i].now /\ s.call = inv[i].call /\ s.req = i
        /\ s.result = "approval_required"
    BY <1>1 DEF InvocationState
  <2>4. q.status = "pending"
    BY DEF NewRequest
  <2> HIDE DEF q, s
  <2>5. /\ DOMAIN requests' = DOMAIN requests \cup {i} /\ requests'[i] = q
        /\ \A r \in DOMAIN requests : requests'[r] = requests[r]
    BY <1>3, <2>1 DEF Put, q
  <2>6. IssuesInFlight' /\ GrantsMatchRequests'
    BY <1>1, <2>5 DEF IInv, IssuesInFlight, GrantsMatchRequests
  <2>7. RowsHaveAuthors'
    BY <1>1, <2>2, <2>3, <2>5 DEF IInv, RowsHaveAuthors
  <2>8. InvocationsInFlight'
    <3>1. ASSUME NEW j \in DOMAIN inv, j # i PROVE InFlight(j)'
      BY <1>1, <2>2, <3>1 DEF IInv, InvocationsInFlight, InFlight, Validated
    <3>2. InFlight(i)'
      BY <1>1, <2>2, <2>3 DEF InFlight, Validated
    <3> QED
      BY <2>2, <3>1, <3>2 DEF IInv, InvocationsInFlight
  <2>9. ApprovedIffGranted'
    BY <1>1, <2>1, <2>4, <2>5 DEF IInv, GrantsMatchRequests, ApprovedIffGranted
  <2>10. UsesBounded'
    <3>1. \A h : Spenders(h)' = Spenders(h)
      BY <1>1, <2>2, <2>3 DEF Spenders
    <3> QED
      BY <1>1, <3>1 DEF IInv, UsesBounded
  <2> QED
    BY <2>6, <2>7, <2>8, <2>9, <2>10 DEF IInv
<1> QED
  BY <1>2, <1>3 DEF Materialize

\* The steps of an issue that write neither table.
LEMMA LocalIssueSteps ==
  ASSUME IInv, TypeOK', NEW a \in Issues,
         LoadRequest(a) \/ Preflight(a) \/ BuildGrant(a) \/ AuditGrantIssued(a)
  PROVE  IInv'
<1> DEFINE Sound(b) ==
      /\ iss[b].pc # "done" => iss[b].req \in DOMAIN requests
      /\ iss[b].pc \in {"build", "store"} =>
           PolicyAllows(iss[b].decision, PolicyOf[requests[iss[b].req].cap])
      /\ iss[b].pc \in {"preflight", "build", "store"} => b \notin DOMAIN grants
<1>1. UNCHANGED <<requests, grants, inv>>
  BY DEF LoadRequest, Preflight, BuildGrant, AuditGrantIssued
<1>2. (\A b \in DOMAIN iss : Sound(b)) /\ DOMAIN grants \subseteq DOMAIN iss
  BY DEF IInv, IssuesInFlight, RowsHaveAuthors
<1>3. /\ DOMAIN iss \subseteq DOMAIN iss'
      /\ DOMAIN iss' \subseteq DOMAIN iss \cup {a}
      /\ \A b \in DOMAIN iss : b # a => iss'[b] = iss[b]
      /\ Sound(a)'
  <2>1. CASE LoadRequest(a)
    <3> DEFINE found(r) == r \in DOMAIN requests
               State(r, d) ==
                 [pc |-> IF found(r) THEN "preflight" ELSE "done", req |-> r, decision |-> d,
                  pending |-> IF found(r) THEN requests[r].status = "pending" ELSE FALSE,
                  now |-> clock, expires |-> clock,
                  result |-> IF found(r) THEN "running" ELSE "approval_request_not_found"]
    <3>1. PICK r \in DOMAIN requests \cup {Unknown}, d \in Decisions :
            iss' = Put(iss, a, State(r, d))
      BY <2>1 DEF LoadRequest
    <3>2. a \notin DOMAIN iss
      BY <2>1 DEF LoadRequest
    <3>3. /\ State(r, d).pc = IF found(r) THEN "preflight" ELSE "done"
          /\ State(r, d).req = r
      OBVIOUS
    <3> HIDE DEF State
    <3>4. /\ DOMAIN iss' = DOMAIN iss \cup {a} /\ iss'[a] = State(r, d)
          /\ \A b \in DOMAIN iss : b # a => iss'[b] = iss[b]
      BY <3>1, <3>2 DEF Put
    <3> QED
      BY <1>1, <1>2, <3>2, <3>3, <3>4
  <2>2. CASE Preflight(a)
    <3>1. a \in DOMAIN iss /\ iss[a].pc = "preflight" /\ Sound(a) /\ iss[a] \in IssueState
      BY <1>2, <2>2 DEF Preflight, IInv, TypeOK
    <3>2. /\ iss' = [iss EXCEPT ![a] = iss'[a]]
          /\ iss'[a].req = iss[a].req /\ iss'[a].decision = iss[a].decision
          /\ \/ iss'[a].pc = "done"
             \/ /\ iss'[a].pc = "build"
                /\ PolicyAllows(iss[a].decision, PolicyOf[requests[iss[a].req].cap])
      BY <2>2, <3>1 DEF Preflight, IInv, TypeOK, IssueState
    <3> QED
      BY <1>1, <3>1, <3>2
  <2>3. CASE BuildGrant(a)
    <3>1. a \in DOMAIN iss /\ iss[a].pc = "build" /\ Sound(a) /\ iss[a] \in IssueState
      BY <1>2, <2>3 DEF BuildGrant, IInv, TypeOK
    <3>2. /\ iss' = [iss EXCEPT ![a] = iss'[a]]
          /\ iss'[a].req = iss[a].req /\ iss'[a].decision = iss[a].decision
          /\ iss'[a].pc = "store"
      BY <2>3, <3>1 DEF BuildGrant, IInv, TypeOK, IssueState
    <3> QED
      BY <1>1, <3>1, <3>2
  <2>4. CASE AuditGrantIssued(a)
    <3>1. a \in DOMAIN iss /\ iss[a] \in IssueState
      BY <2>4 DEF AuditGrantIssued, IInv, TypeOK
    <3>2. iss' = [iss EXCEPT ![a] = iss'[a]] /\ iss'[a].pc = "done"
      BY <2>4, <3>1 DEF AuditGrantIssued, IInv, TypeOK, IssueState
    <3> QED
      BY <1>1, <3>1, <3>2
  <2> QED
    BY <2>1, <2>2, <2>3, <2>4
<1>4. IssuesInFlight'
  <2>1. ASSUME NEW b \in DOMAIN iss, b # a PROVE Sound(b)'
    BY <1>1, <1>2, <1>3, <2>1
  <2> QED
    BY <1>3, <2>1 DEF IssuesInFlight
<1>5. RowsHaveAuthors'
  BY <1>1, <1>2, <1>3 DEF IInv, RowsHaveAuthors
<1>6. GrantsMatchRequests' /\ ApprovedIffGranted'
  BY <1>1 DEF IInv, GrantsMatchRequests, ApprovedIffGranted
<1>7. InvocationsInFlight' /\ UsesBounded'
  BY <1>1 DEF IInv, InvocationsInFlight, InFlight, Validated, UsesBounded, Spenders
<1> QED
  BY <1>4, <1>5, <1>6, <1>7 DEF IInv

\* The atomic primitive decides one pending request and stores the one grant
\* that answers it; nobody has reserved that grant yet.
LEMMA ApproveStep ==
  ASSUME IInv, TypeOK', NEW a \in Issues, ApproveAndStore(a)
  PROVE  IInv'
<1> DEFINE r == iss[a].req
           g == NewGrant(a)
<1>0. PICK why : Answered(a, why)
  BY ApproveAnswers
<1>1. /\ a \in DOMAIN iss /\ iss[a].pc = "store"
      /\ UNCHANGED <<clock, inv>>
      /\ iss[a] \in IssueState
      /\ r \in DOMAIN requests /\ requests[r] \in Request
      /\ PolicyAllows(iss[a].decision, PolicyOf[requests[r].cap])
      /\ a \notin DOMAIN grants
  BY DEF ApproveAndStore, IInv, TypeOK, IssuesInFlight
<1>2. /\ DOMAIN iss' = DOMAIN iss
      /\ \A b \in DOMAIN iss : b # a => iss'[b] = iss[b]
      /\ iss'[a].pc \in {"audit", "done"} /\ iss'[a].req = r
  BY <1>0, <1>1 DEF Answered, IInv, TypeOK, IssueState
<1>3. CASE why # "ok"
  <2>1. UNCHANGED <<requests, grants>>
    BY <1>0, <1>3 DEF Answered
  <2>2. IssuesInFlight' /\ RowsHaveAuthors'
    BY <1>1, <1>2, <2>1 DEF IInv, IssuesInFlight, RowsHaveAuthors
  <2>3. GrantsMatchRequests' /\ ApprovedIffGranted'
    BY <2>1 DEF IInv, GrantsMatchRequests, ApprovedIffGranted
  <2>4. InvocationsInFlight' /\ UsesBounded'
    BY <1>1, <2>1 DEF IInv, InvocationsInFlight, InFlight, Validated, UsesBounded, Spenders
  <2> QED
    BY <2>2, <2>3, <2>4 DEF IInv
<1>4. CASE why = "ok"
  <2> DEFINE q == [requests[r] EXCEPT !.status = "approved", !.approver = a,
                                      !.decidedAt = iss[a].now]
  <2>1. /\ requests' = [requests EXCEPT ![r] = q]
        /\ grants' = Put(grants, a, g)
    BY <1>0, <1>4 DEF Answered
  <2>2. /\ requests[r].status = "pending"
        /\ ~ (requests[r].expires <= iss[a].now)
        /\ ~ RowRefused(r, MaxUsesOf(a))
    BY <1>0, <1>4 DEF Answered, ApproveRefusal
  <2>3. /\ DOMAIN requests' = DOMAIN requests /\ requests'[r] = q
        /\ \A k \in DOMAIN requests : k # r => requests'[k] = requests[k]
    BY <1>1, <2>1 DEF IInv, TypeOK
  <2>4. /\ q.status = "approved" /\ q.approver = a /\ q.decidedAt = iss[a].now
        /\ q.cap = requests[r].cap /\ q.params = requests[r].params
        /\ q.expires = requests[r].expires
    BY <1>1 DEF Request
  <2>5. /\ g.request = r /\ g.type = iss[a].decision.type /\ g.cap = requests[r].cap
        /\ g.params = requests[r].params /\ g.scope = ScopeOf[requests[r].cap]
        /\ g.issuedAt = iss[a].now /\ g.uses = 0
        /\ g.maxUses = EffectiveMaxUses(iss[a].decision, PolicyOf[requests[r].cap])
        /\ g.maxUses = MaxUsesOf(a)
    BY DEF NewGrant, MaxUsesOf
  <2> HIDE DEF q, g
  <2>6. /\ DOMAIN grants' = DOMAIN grants \cup {a} /\ grants'[a] = g
        /\ \A h \in DOMAIN grants : grants'[h] = grants[h]
    BY <1>1, <2>1 DEF Put
  <2>7. \A k \in DOMAIN requests : /\ requests'[k].cap = requests[k].cap
                                   /\ requests'[k].params = requests[k].params
    BY <2>3, <2>4
  <2>8. IssuesInFlight'
    BY <1>1, <1>2, <2>3, <2>6, <2>7 DEF IInv, IssuesInFlight
  <2>9. RowsHaveAuthors'
    BY <1>1, <1>2, <2>3, <2>6 DEF IInv, RowsHaveAuthors
  <2>10. GrantsMatchRequests'
    BY <1>1, <2>3, <2>5, <2>6, <2>7 DEF IInv, GrantsMatchRequests
  <2>11. InvocationsInFlight'
    <3>1. ASSUME NEW j \in DOMAIN inv PROVE InFlight(j)'
      BY <1>1, <2>6 DEF IInv, InvocationsInFlight, InFlight, Validated
    <3> QED
      BY <1>1, <3>1 DEF IInv, InvocationsInFlight
  <2>12. ApprovedIffGranted'
    <3>1. iss[a].now < requests[r].expires
      BY <1>1, <2>2 DEF IssueState, Request
    <3>2. ASSUME NEW h \in DOMAIN grants
          PROVE  /\ grants[h].request \in DOMAIN requests /\ grants[h].request # r
                 /\ requests'[grants[h].request] = requests[grants[h].request]
      BY <2>2, <2>3 DEF IInv, GrantsMatchRequests, RowRefused
    <3>3. \A h, k \in DOMAIN grants' : grants'[h].request = grants'[k].request => h = k
      BY <2>5, <2>6, <3>2 DEF IInv, ApprovedIffGranted
    <3>4. ASSUME NEW k \in DOMAIN requests
          PROVE  requests'[k].status = "approved"
                   <=> \E h \in DOMAIN grants' : grants'[h].request = k
      <4>1. CASE k = r
        BY <2>3, <2>4, <2>5, <2>6, <4>1
      <4>2. CASE k # r
        BY <2>3, <2>5, <2>6, <4>2 DEF IInv, ApprovedIffGranted
      <4> QED
        BY <4>1, <4>2
    <3>5. ASSUME NEW h \in DOMAIN grants'
          PROVE  LET k == grants'[h].request
                 IN /\ k \in DOMAIN requests'
                    /\ requests'[k].approver = h
                    /\ requests'[k].decidedAt = grants'[h].issuedAt
                    /\ requests'[k].decidedAt < requests'[k].expires
      <4>1. CASE h = a
        BY <1>1, <2>3, <2>4, <2>5, <2>6, <3>1, <4>1
      <4>2. CASE h # a
        BY <2>3, <2>6, <3>2, <4>2 DEF IInv, ApprovedIffGranted
      <4> QED
        BY <4>1, <4>2
    <3> QED
      BY <2>3, <3>3, <3>4, <3>5 DEF ApprovedIffGranted
  <2>13. UsesBounded'
    <3>1. \A h : Spenders(h)' = Spenders(h)
      BY <1>1 DEF Spenders
    <3>2. Spenders(a) = {}
      BY <1>1, SentinelsAssumption DEF Spenders, IInv, InvocationsInFlight, InFlight
    <3>3. g.uses = Cardinality(Spenders(a)')
      BY <2>5, <3>1, <3>2, FS_EmptySet
    <3>4. /\ g.maxUses <= PolicyOf[g.cap].maxUses
          /\ g.type = "one_time" => g.maxUses = 1
      BY <1>1, <2>5 DEF PolicyAllows, EffectiveMaxUses
    <3>6. Backend # "memory" => g.maxUses >= 1
      <4>1. g.maxUses \in Int
        <5>1. iss[a].decision \in Decisions /\ requests[r].cap \in Capabilities
          BY <1>1 DEF IssueState, Request
        <5> QED
          BY <2>5, <5>1, EffectiveTyped
      <4> QED
        BY <2>2, <2>5, <4>1 DEF RowRefused
    <3>5. ASSUME NEW h \in DOMAIN grants
          PROVE  /\ grants'[h].uses = Cardinality(Spenders(h)')
                 /\ grants'[h].uses = 0 \/ grants'[h].uses <= grants'[h].maxUses
                 /\ grants'[h].maxUses <= PolicyOf[grants'[h].cap].maxUses
                 /\ grants'[h].type = "one_time" => grants'[h].maxUses = 1
                 /\ Backend # "memory" => grants'[h].maxUses >= 1
      BY <2>6, <3>1 DEF IInv, UsesBounded
    <3> QED
      BY <2>5, <2>6, <3>3, <3>4, <3>5, <3>6 DEF UsesBounded
  <2> QED
    BY <2>8, <2>9, <2>10, <2>11, <2>12, <2>13 DEF IInv
<1> QED
  BY <1>3, <1>4

\* Time passes, or nothing happens.
LEMMA TickStep ==
  ASSUME IInv, Tick \/ UNCHANGED vars
  PROVE  IInv'
<1>1. /\ requests' = requests /\ grants' = grants /\ inv' = inv /\ iss' = iss
      /\ audit' = audit /\ clock' \in Nat
  BY DEF Tick, vars, IInv, TypeOK
<1>2. TypeOK'
  BY <1>1 DEF IInv, TypeOK
<1>3. IssuesInFlight' /\ RowsHaveAuthors'
  BY <1>1 DEF IInv, IssuesInFlight, RowsHaveAuthors
<1>4. GrantsMatchRequests' /\ ApprovedIffGranted'
  BY <1>1 DEF IInv, GrantsMatchRequests, ApprovedIffGranted
<1>5. InvocationsInFlight'
  BY <1>1 DEF IInv, InvocationsInFlight, InFlight, Validated
<1>6. UsesBounded'
  BY <1>1 DEF IInv, UsesBounded, Spenders
<1> QED
  BY <1>2, <1>3, <1>4, <1>5, <1>6 DEF IInv

\* The invariant is inductive.
LEMMA NextIInv == IInv /\ [Next]_vars => IInv'
<1> SUFFICES ASSUME IInv, [Next]_vars PROVE IInv'
  OBVIOUS
<1>1. CASE Tick
  BY <1>1, TickStep
<1>2. ASSUME NEW i \in Invocations, Invoke(i) \/ InvocationStep(i) PROVE IInv'
  <2>1. TypeOK'
    BY <1>2, InvocationTyped DEF IInv
  <2>2. CASE Invoke(i)
    BY <2>1, <2>2, InvokeStep
  <2>3. CASE ReserveGrant(i)
    BY <2>1, <2>3, ReserveStep
  <2>4. CASE Materialize(i)
    BY <2>1, <2>4, MaterializeStep
  <2>5. CASE \/ ValidateGrant(i) \/ HandlerEnds(i) \/ HandlerAsksApproval(i)
             \/ HandlerForwardsApproval(i) \/ AuditInvocation(i) \/ AuditRequestCreated(i)
    BY <2>1, <2>5, LocalSteps
  <2> QED
    BY <1>2, <2>2, <2>3, <2>4, <2>5 DEF InvocationStep
<1>3. ASSUME NEW a \in Issues, LoadRequest(a) \/ IssueStep(a) PROVE IInv'
  <2>1. TypeOK'
    BY <1>3, IssueTyped DEF IInv
  <2>2. CASE ApproveAndStore(a)
    BY <2>1, <2>2, ApproveStep
  <2>3. CASE LoadRequest(a) \/ Preflight(a) \/ BuildGrant(a) \/ AuditGrantIssued(a)
    BY <2>1, <2>3, LocalIssueSteps
  <2> QED
    BY <1>3, <2>2, <2>3 DEF IssueStep
<1>4. CASE UNCHANGED vars
  BY <1>4, TickStep
<1> QED
  BY <1>1, <1>2, <1>3, <1>4 DEF Next

-----------------------------------------------------------------------------
(* Theorems                                                                *)

\* The inductive invariant holds of every behaviour.
LEMMA SpecIInv == Spec => []IInv
  BY InitIInv, NextIInv, PTL DEF Spec

\* However many callers and approvers there are, and whatever their policies,
\* the tables and the local states of the calls keep their shape.
THEOREM TypeCorrect == Spec => []TypeOK
<1>1. IInv => TypeOK
  BY DEF IInv
<1> QED
  BY <1>1, SpecIInv, PTL

\* Racing approvers leave one grant per request, and a request is approved
\* exactly when the grant it records is stored.
THEOREM OneGrantPerRequest == Spec => []ApprovedIffGranted
<1>1. IInv => ApprovedIffGranted
  BY DEF IInv
<1> QED
  BY <1>1, SpecIInv, PTL

\* Racing continuations never reserve more uses than the grant and the policy
\* allow, and every use counted has a call that reserved it.
THEOREM UsesNeverExceedGrant == Spec => []UsesBounded
<1>1. IInv => UsesBounded
  BY DEF IInv
<1> QED
  BY <1>1, SpecIInv, PTL

\* A handler that runs under a grant runs what was approved: the capability,
\* the parameters, the authority and the session, within the grant's lifetime.
THEOREM HandlersRunAsApproved == Spec => []RunsOnlyAsApproved
<1>1. IInv => RunsOnlyAsApproved
  <2> SUFFICES ASSUME IInv, NEW i \in DOMAIN inv, inv[i].grant # None,
                      \/ inv[i].pc \in {"handler", "materialize", "link"}
                      \/ inv[i].result \in HandlerResults \ {"internal_error"}
                      \/ inv[i].reserved
               PROVE  LET g == grants[inv[i].grant]
                          r == requests[g.request]
                          c == inv[i].call
                      IN /\ inv[i].reserved
                         /\ inv[i].grant \in DOMAIN grants
                         /\ c.cap = r.cap /\ c.params = r.params
                         /\ ScopeOf[r.cap] \subseteq c.scope
                         /\ g.type = "session_bound" => c.session = g.session
                         /\ inv[i].now < g.expires
    BY DEF RunsOnlyAsApproved
  <2>1. InFlight(i)
    BY DEF IInv, InvocationsInFlight
  <2>2. inv[i].reserved
    <3>1. inv[i].pc = "link" => inv[i].result = "approval_required"
      BY <2>1 DEF InFlight
    <3> QED
      BY <2>1, <3>1 DEF InFlight, HandlerResults
  <2>3. Validated(i) /\ inv[i].now < grants[inv[i].grant].expires
    BY <2>1, <2>2 DEF InFlight
  <2> QED
    BY <2>2, <2>3 DEF IInv, Validated, GrantsMatchRequests
<1> QED
  BY <1>1, SpecIInv, PTL

\* What a step must leave of the two tables.
Kept ==
  /\ \A g \in DOMAIN grants :
       /\ g \in DOMAIN grants'
       /\ grants'[g].uses >= grants[g].uses
       /\ grants'[g] = [grants[g] EXCEPT !.uses = grants'[g].uses]
  /\ \A r \in DOMAIN requests :
       /\ r \in DOMAIN requests'
       /\ requests'[r].cap = requests[r].cap /\ requests'[r].params = requests[r].params
       /\ requests[r].status = "approved" => requests'[r] = requests[r]

\* Every step leaves it.
LEMMA NextKeeps == IInv /\ [Next]_vars => Kept
<1> USE DEF Kept
<1>1. ASSUME IInv, UNCHANGED <<requests, grants>> PROVE Kept
  <2>1. \A g \in DOMAIN grants : grants[g] \in Grant
    BY <1>1 DEF IInv, TypeOK
  <2> QED
    BY <1>1, <2>1 DEF Grant
<1>2. ASSUME IInv, NEW i \in Invocations, ReserveGrant(i) PROVE Kept
  <2> DEFINE h == inv[i].grant
  <2>0. /\ UNCHANGED requests
        /\ \/ UNCHANGED grants
           \/ /\ ReserveRefusal(h, inv[i].now) = "ok"
              /\ grants' = [grants EXCEPT ![h].uses = @ + 1]
    BY <1>2, AnswersTyped DEF ReserveGrant
  <2>1. CASE /\ ReserveRefusal(h, inv[i].now) = "ok"
             /\ grants' = [grants EXCEPT ![h].uses = @ + 1]
    <3>1. /\ h \in DOMAIN grants /\ UNCHANGED requests
          /\ grants' = [grants EXCEPT ![h].uses = @ + 1]
      BY <2>0, <2>1 DEF ReserveRefusal
    <3>2. \A g \in DOMAIN grants : grants[g] \in Grant
      BY <1>2 DEF IInv, TypeOK
    <3>3. ASSUME NEW g \in DOMAIN grants
          PROVE  /\ g \in DOMAIN grants'
                 /\ grants'[g].uses >= grants[g].uses
                 /\ grants'[g] = [grants[g] EXCEPT !.uses = grants'[g].uses]
      BY <3>1, <3>2 DEF Grant
    <3> QED
      BY <3>1, <3>3
  <2> QED
    BY <1>1, <1>2, <2>0, <2>1
<1>3. ASSUME IInv, NEW i \in Invocations, Materialize(i) PROVE Kept
  <2>1. i \notin DOMAIN requests
    BY <1>3 DEF Materialize, IInv, RowsHaveAuthors
  <2> DEFINE q == NewRequest(inv[i].call, clock)
  <2>2. CASE requests' = Put(requests, i, q)
    <3> HIDE DEF q
    <3>1. /\ DOMAIN requests \subseteq DOMAIN requests'
          /\ \A r \in DOMAIN requests : requests'[r] = requests[r]
      BY <2>1, <2>2 DEF Put
    <3>2. \A g \in DOMAIN grants : grants[g] \in Grant
      BY <1>3 DEF IInv, TypeOK
    <3>3. UNCHANGED grants
      BY <1>3 DEF Materialize
    <3> QED
      BY <3>1, <3>2, <3>3 DEF Grant
  <2> QED
    BY <1>1, <1>3, <2>2 DEF Materialize
<1>4. ASSUME IInv, NEW a \in Issues, ApproveAndStore(a) PROVE Kept
  <2> DEFINE r == iss[a].req
             n == NewGrant(a)
  <2>0. PICK why : Answered(a, why)
    BY <1>4, ApproveAnswers
  <2>1. CASE why = "ok"
    <3>1. /\ r \in DOMAIN requests /\ requests[r].status = "pending"
          /\ a \notin DOMAIN grants /\ grants' = Put(grants, a, n)
          /\ DOMAIN requests' = DOMAIN requests
          /\ \A k \in DOMAIN requests : k # r => requests'[k] = requests[k]
          /\ requests'[r].cap = requests[r].cap /\ requests'[r].params = requests[r].params
      <4>1. /\ requests[r].status = "pending" /\ grants' = Put(grants, a, n)
            /\ requests' = [requests EXCEPT ![r].status = "approved", ![r].approver = a,
                                            ![r].decidedAt = iss[a].now]
        BY <2>0, <2>1 DEF Answered, ApproveRefusal
      <4>2. /\ r \in DOMAIN requests /\ a \notin DOMAIN grants
            /\ requests \in [DOMAIN requests -> Request]
        BY <1>4 DEF ApproveAndStore, IInv, IssuesInFlight, TypeOK
      <4> QED
        BY <4>1, <4>2 DEF Request
    <3> HIDE DEF n
    <3>2. \A g \in DOMAIN grants : g \in DOMAIN grants' /\ grants'[g] = grants[g]
      BY <3>1 DEF Put
    <3>3. \A g \in DOMAIN grants : grants[g] \in Grant
      BY <1>4 DEF IInv, TypeOK
    <3> QED
      BY <3>1, <3>2, <3>3 DEF Grant
  <2> QED
    BY <1>1, <1>4, <2>0, <2>1 DEF Answered
<1>5. ASSUME IInv, Next PROVE Kept
  <2>1. CASE Tick
    BY <1>1, <1>5, <2>1 DEF Tick
  <2>2. ASSUME NEW i \in Invocations, Invoke(i) \/ InvocationStep(i) PROVE Kept
    <3>1. \/ ReserveGrant(i) \/ Materialize(i) \/ UNCHANGED <<requests, grants>>
      BY <2>2 DEF InvocationStep, Invoke, ValidateGrant, HandlerEnds, HandlerAsksApproval,
         HandlerForwardsApproval, AuditInvocation, AuditRequestCreated
    <3> QED
      BY <1>1, <1>2, <1>3, <1>5, <3>1
  <2>3. ASSUME NEW a \in Issues, LoadRequest(a) \/ IssueStep(a) PROVE Kept
    <3>1. ApproveAndStore(a) \/ UNCHANGED <<requests, grants>>
      BY <2>3 DEF IssueStep, LoadRequest, Preflight, BuildGrant, AuditGrantIssued
    <3> QED
      BY <1>1, <1>4, <1>5, <3>1
  <2> QED
    BY <1>5, <2>1, <2>2, <2>3 DEF Next
<1> QED
  BY <1>1, <1>5 DEF vars

\* Nothing that was approved or spent is taken back or rewritten.
THEOREM NothingIsTakenBack == Spec => SpentStaysSpent
<1>1. IInv /\ [Next]_vars => [Kept]_vars
  BY NextKeeps
<1> QED
  BY <1>1, SpecIInv, PTL DEF Spec, SpentStaysSpent, Kept

-----------------------------------------------------------------------------
(* Refinement of the ledger                                                *)

\* What the tables and the calls say in the terms of the ledger.
Granted == {<<grants[g].request, g, grants[g].maxUses>> : g \in DOMAIN grants}
Spent == {<<i, inv[i].grant>> : i \in {j \in DOMAIN inv : inv[j].reserved}}

\* The pairs of Spent that name g are the invocations that reserved g.
LEMMA SpentIsSpenders ==
  ASSUME TypeOK, NEW g
  PROVE  /\ \A i : <<i, g>> \in Spent <=> i \in Spenders(g)
         /\ {i \in Invocations : <<i, g>> \in Spent} = Spenders(g)
  BY DEF Spent, Spenders, TypeOK

\* The ledger counts as FiniteSets does.
LEMMA SameCardinality == ASSUME NEW S PROVE Ledger!Cardinality(S) = Cardinality(S)
  BY DEF Ledger!Cardinality, Cardinality

\* A reservation is a step that spends one use of the grant.
LEMMA ReserveSpends ==
  ASSUME IInv, IInv', NEW i \in Invocations, ReserveGrant(i)
  PROVE  \/ UNCHANGED <<Granted, Spent>>
         \/ \E g \in Issues : Ledger!Spend(i, g)
<1>0. PICK g : g = inv[i].grant
  OBVIOUS
<1>4. PICK r \in {ReserveRefusal(g, inv[i].now)} \cup StorageErrors :
        IF r = "ok"
        THEN /\ grants' = [grants EXCEPT ![g].uses = @ + 1]
             /\ inv' = [inv EXCEPT ![i].pc = "handler", ![i].reserved = TRUE]
        ELSE /\ inv' = [inv EXCEPT ![i].pc = "audit", ![i].result = r]
             /\ UNCHANGED grants
  BY <1>0 DEF ReserveGrant
<1>1. /\ i \in DOMAIN inv /\ inv[i].pc = "reserve" /\ ~ inv[i].reserved
      /\ inv[i] \in InvocationState
  BY DEF ReserveGrant, IInv, TypeOK, InvocationsInFlight, InFlight
<1>2. CASE r # "ok"
  <2>1. /\ UNCHANGED grants /\ DOMAIN inv' = DOMAIN inv
        /\ \A j \in DOMAIN inv : inv'[j].grant = inv[j].grant /\ inv'[j].reserved = inv[j].reserved
    BY <1>1, <1>2, <1>4 DEF IInv, TypeOK, InvocationState
  <2> QED
    BY <2>1 DEF Granted, Spent
<1>3. CASE r = "ok"
  <2>1. /\ g \in DOMAIN grants /\ ~ (grants[g].uses >= grants[g].maxUses)
    BY <1>3, AnswersTyped DEF ReserveRefusal
  <2>2. /\ DOMAIN grants' = DOMAIN grants
        /\ \A k \in DOMAIN grants : /\ grants'[k].request = grants[k].request
                                    /\ grants'[k].maxUses = grants[k].maxUses
    BY <1>3, <1>4, <2>1 DEF IInv, TypeOK, Grant
  <2>3. UNCHANGED Granted
    BY <2>2 DEF Granted
  <2>4. /\ DOMAIN inv' = DOMAIN inv /\ inv'[i].grant = g /\ inv'[i].reserved
        /\ \A j \in DOMAIN inv : j # i => inv'[j] = inv[j]
    <3> DEFINE s == [inv[i] EXCEPT !.pc = "handler", !.reserved = TRUE]
    <3>1. s.grant = g /\ s.reserved
      BY <1>0, <1>1 DEF InvocationState
    <3>2. inv' = [inv EXCEPT ![i] = s]
      BY <1>3, <1>4
    <3> HIDE DEF s
    <3> QED
      BY <1>1, <3>1, <3>2 DEF IInv, TypeOK
  <2>5. Spent' = Spent \cup {<<i, g>>}
    BY <1>1, <2>4 DEF Spent
  <2>6. \A h \in Issues : <<i, h>> \notin Spent
    BY <1>1 DEF Spent
  <2>7. Cardinality({j \in Invocations : <<j, g>> \in Spent}) < grants[g].maxUses
    <3>1. {j \in Invocations : <<j, g>> \in Spent} = Spenders(g)
      BY SpentIsSpenders DEF IInv
    <3>2. grants[g].uses = Cardinality(Spenders(g))
      BY <2>1 DEF IInv, UsesBounded
    <3>3. grants[g].uses \in Nat /\ grants[g].maxUses \in Int
      BY <2>1 DEF IInv, TypeOK, Grant
    <3>4. grants[g].uses < grants[g].maxUses
      BY <2>1, <3>3
    <3> QED
      BY <3>1, <3>2, <3>4, Zenon
  <2>8. \E t \in Granted :
          t[2] = g /\ Cardinality({j \in Invocations : <<j, g>> \in Spent}) < t[3]
    <3> DEFINE t == <<grants[g].request, g, grants[g].maxUses>>
    <3>1. t \in Granted /\ t[2] = g /\ t[3] = grants[g].maxUses
      BY <2>1 DEF Granted
    <3> HIDE DEF t
    <3> QED
      BY <2>7, <3>1
  <2>9. g \in Issues
    BY <2>1 DEF IInv, TypeOK
  <2>10. Ledger!Spend(i, g)
    <3>1. Ledger!Spenders(g) = {j \in Invocations : <<j, g>> \in Spent}
      BY DEF Ledger!Spenders, Spent
    <3>2. \E t \in Granted : t[2] = g /\ Ledger!Cardinality(Ledger!Spenders(g)) < t[3]
      BY <2>8, <3>1, SameCardinality, Zenon
    <3> QED
      BY <2>3, <2>5, <2>6, <3>2 DEF Ledger!Spend, Granted, Spent
  <2> QED
    BY <2>9, <2>10
<1> QED
  BY <1>2, <1>3

\* The atomic primitive is a step that decides one request.
LEMMA ApproveDecides ==
  ASSUME IInv, IInv', NEW a \in Issues, ApproveAndStore(a)
  PROVE  \/ UNCHANGED <<Granted, Spent>>
         \/ \E r \in Invocations, n \in Limits : Ledger!Decide(r, a, n)
<1>0. PICK r, n : r = iss[a].req /\
                  n = EffectiveMaxUses(iss[a].decision, PolicyOf[requests[r].cap])
  OBVIOUS
<1> DEFINE d == iss[a].decision
           g == NewGrant(a)
<1>1. UNCHANGED Spent
  BY DEF ApproveAndStore, Spent
<1>4. PICK why : Answered(a, why)
  BY ApproveAnswers
<1>2. CASE why # "ok"
  BY <1>1, <1>2, <1>4 DEF Answered, Granted
<1>3. CASE why = "ok"
  <2>1. /\ r \in DOMAIN requests /\ \A k \in DOMAIN grants : grants[k].request # r
        /\ a \notin DOMAIN grants /\ grants' = Put(grants, a, g)
        /\ d \in Decisions
    <3>1. /\ \A k \in DOMAIN grants : grants[k].request # r
          /\ grants' = Put(grants, a, g)
      BY <1>0, <1>3, <1>4 DEF Answered, ApproveRefusal, RowRefused
    <3> QED
      BY <1>0, <3>1 DEF ApproveAndStore, IInv, IssuesInFlight, TypeOK, IssueState
  <2>2. r \in Invocations /\ requests[r].cap \in Capabilities
    BY <2>1 DEF IInv, TypeOK, Request
  <2>3. n \in Limits
    <3>1. n \in Int
      BY <1>0, <2>1, <2>2, EffectiveTyped
    <3>2. n # None
      BY <3>1, SentinelsAssumption
    <3> QED
      BY <1>0, <2>1, <2>2, <3>2 DEF Limits, EffectiveMaxUses
  <2>4. g.request = r /\ g.maxUses = n
    BY <1>0 DEF NewGrant, MaxUsesOf
  <2> HIDE DEF g
  <2>5. /\ DOMAIN grants' = DOMAIN grants \cup {a} /\ grants'[a] = g
        /\ \A k \in DOMAIN grants : grants'[k] = grants[k]
    BY <2>1 DEF Put
  <2>6. Granted' = Granted \cup {<<r, a, n>>}
    BY <2>1, <2>4, <2>5 DEF Granted
  <2>7. \A t \in Granted : t[1] # r /\ t[2] # a
    BY <2>1 DEF Granted
  <2>8. Ledger!Decide(r, a, n)
    BY <1>1, <2>6, <2>7 DEF Ledger!Decide, Granted, Spent
  <2> QED
    BY <2>2, <2>3, <2>8
<1> QED
  BY <1>2, <1>3

\* Every other step leaves the ledger as it is.
LEMMA OthersStutter ==
  ASSUME IInv,
         \/ Tick \/ UNCHANGED vars
         \/ \E i \in Invocations :
              Invoke(i) \/ (InvocationStep(i) /\ ~ ReserveGrant(i))
         \/ \E a \in Issues : LoadRequest(a) \/ (IssueStep(a) /\ ~ ApproveAndStore(a))
  PROVE  UNCHANGED <<Granted, Spent>>
<1>1. UNCHANGED grants
  BY DEF Tick, vars, Invoke, InvocationStep, ValidateGrant, HandlerEnds, HandlerAsksApproval,
     HandlerForwardsApproval, Materialize, AuditInvocation, AuditRequestCreated,
     LoadRequest, IssueStep, Preflight, BuildGrant, AuditGrantIssued
<1>2. UNCHANGED Spent
  <2>1. CASE UNCHANGED inv
    BY <2>1 DEF Spent
  <2>2. ASSUME NEW i \in Invocations, Invoke(i) PROVE UNCHANGED Spent
    <3>1. PICK c \in Calls, g \in DOMAIN grants \cup {None, Unknown} :
            inv' = Put(inv, i, [pc |-> IF g = None THEN "handler" ELSE "validate",
                                call |-> c, grant |-> g, now |-> clock, reserved |-> FALSE,
                                req |-> None, result |-> "running"])
      BY <2>2 DEF Invoke
    <3>2. /\ DOMAIN inv' = DOMAIN inv \cup {i} /\ ~ inv'[i].reserved
          /\ \A j \in DOMAIN inv : inv'[j] = inv[j]
      BY <2>2, <3>1 DEF Put, Invoke
    <3>3. i \notin DOMAIN inv
      BY <2>2 DEF Invoke
    <3> QED
      BY <3>2, <3>3 DEF Spent
  <2>3. ASSUME NEW i \in Invocations, InvocationStep(i), ~ ReserveGrant(i)
        PROVE UNCHANGED Spent
    <3>1. i \in DOMAIN inv /\ inv[i] \in InvocationState
      BY <2>3 DEF IInv, TypeOK, InvocationStep, ValidateGrant, HandlerEnds,
         HandlerAsksApproval, HandlerForwardsApproval, Materialize, AuditInvocation,
         AuditRequestCreated
    <3>2. /\ DOMAIN inv' = DOMAIN inv
          /\ \A j \in DOMAIN inv : inv'[j].grant = inv[j].grant /\ inv'[j].reserved = inv[j].reserved
      <4>1. CASE ValidateGrant(i)
        BY <3>1, <4>1 DEF ValidateGrant, IInv, TypeOK, InvocationState
      <4>2. CASE HandlerEnds(i)
        BY <3>1, <4>2 DEF HandlerEnds, IInv, TypeOK, InvocationState
      <4>3. CASE HandlerAsksApproval(i)
        BY <3>1, <4>3 DEF HandlerAsksApproval, IInv, TypeOK, InvocationState
      <4>4. CASE HandlerForwardsApproval(i)
        BY <3>1, <4>4 DEF HandlerForwardsApproval, IInv, TypeOK, InvocationState
      <4>5. CASE Materialize(i)
        BY <3>1, <4>5 DEF Materialize, IInv, TypeOK, InvocationState
      <4>6. CASE AuditInvocation(i)
        BY <3>1, <4>6 DEF AuditInvocation, IInv, TypeOK, InvocationState
      <4>7. CASE AuditRequestCreated(i)
        BY <3>1, <4>7 DEF AuditRequestCreated, IInv, TypeOK, InvocationState
      <4> QED
        BY <2>3, <4>1, <4>2, <4>3, <4>4, <4>5, <4>6, <4>7 DEF InvocationStep
    <3> QED
      BY <3>2 DEF Spent
  <2>4. ASSUME NEW a \in Issues, LoadRequest(a) \/ (IssueStep(a) /\ ~ ApproveAndStore(a))
        PROVE UNCHANGED inv
    BY <2>4 DEF LoadRequest, IssueStep, Preflight, BuildGrant, AuditGrantIssued
  <2> QED
    BY <2>1, <2>2, <2>3, <2>4 DEF Tick, vars
<1> QED
  BY <1>1, <1>2 DEF Granted

\* The storage primitives, interleaved with everything else the calls do,
\* implement the ledger.
THEOREM GrantsImplementLedger == Spec => ImplementsLedger
<1>1. Init => Ledger!LedgerInit
  BY DEF Init, Nothing, Ledger!LedgerInit
<1>2. IInv /\ IInv' /\ [Next]_vars => [Ledger!LedgerNext]_<<Granted, Spent>>
  <2> SUFFICES ASSUME IInv, IInv', [Next]_vars
               PROVE  Ledger!LedgerNext \/ UNCHANGED <<Granted, Spent>>
    OBVIOUS
  <2>1. ASSUME NEW i \in Invocations, ReserveGrant(i)
        PROVE  Ledger!LedgerNext \/ UNCHANGED <<Granted, Spent>>
    BY <2>1, ReserveSpends DEF Ledger!LedgerNext
  <2>2. ASSUME NEW a \in Issues, ApproveAndStore(a)
        PROVE  Ledger!LedgerNext \/ UNCHANGED <<Granted, Spent>>
    BY <2>2, ApproveDecides DEF Ledger!LedgerNext
  <2> QED
    BY <2>1, <2>2, OthersStutter DEF Next, InvocationStep, IssueStep
<1>3. <<Granted, Spent>> = Ledger!ledgerVars
  BY DEF Granted, Spent, Ledger!ledgerVars
<1>4. IInv /\ IInv' /\ [Next]_vars => [Ledger!LedgerNext]_(Ledger!ledgerVars)
  BY <1>2 DEF Granted, Spent, Ledger!ledgerVars
<1> QED
  BY <1>1, <1>4, SpecIInv, PTL DEF Spec, ImplementsLedger, Ledger!LedgerSpec

-----------------------------------------------------------------------------
(* What ApprovalGrants tells its callers and its audit log is true:        *)
(* refusals, approval requests that are announced, audit entries.  It      *)
(* rests on the invariant above.                                           *)
-----------------------------------------------------------------------------
(* What is true of each call and each entry                                *)

\* What invocation i was told, and that its sample of the clock is past.
CallTrue(i) ==
  LET s == inv[i]
  IN /\ s.now <= clock
     /\ s.result = "grant_consumed" =>
          s.grant \in DOMAIN grants /\ grants[s.grant].uses >= grants[s.grant].maxUses
     /\ s.result = "grant_expired" =>
          s.grant \in DOMAIN grants /\ grants[s.grant].expires <= clock
     /\ s.result = "approval_required" => s.req \in DOMAIN requests

\* Why the approver of request r may be told that it is decided: another grant
\* stands, or the schema has no row for a grant without a use.
Decided(a, r) ==
  \/ \E b \in DOMAIN grants : b # a /\ grants[b].request = r
  \/ Backend = "sqlite" /\ MaxUsesOf(a) < 1

\* What the approver a was told, what it read, and what it stored.
IssueTrue(a) ==
  LET s == iss[a]
  IN /\ s.pc = "preflight" /\ ~ s.pending => requests[s.req].status = "approved"
     /\ s.pc = "audit" => a \in DOMAIN grants /\ grants[a].request = s.req
     /\ s.result = "approval_request_already_decided" =>
          s.req \in DOMAIN requests /\ Decided(a, s.req)

\* The entry about a new request is the last thing its invocation does.
EntryTrue(e) ==
  /\ e.req # None => e.req \in DOMAIN requests
  /\ e.kind = "approval_grant_issued" =>
       e.grant \in DOMAIN grants /\ grants[e.grant].request = e.req
  /\ e.kind = "approval_request_created" =>
       e.inv \in DOMAIN inv /\ inv[e.inv].pc = "done" /\ inv[e.inv].req = e.req

CallsTrue == \A i \in DOMAIN inv : CallTrue(i)

IssuesTrue == \A a \in DOMAIN iss : IssueTrue(a)

EntriesTrue == \A e \in audit : EntryTrue(e)

TruthInv == CallsTrue /\ IssuesTrue /\ EntriesTrue

-----------------------------------------------------------------------------
(* The tables only grow                                                    *)

\* What Kept leaves to the calls and entries: rows stay, uses do not shrink.
TablesGrow ==
  /\ \A r \in DOMAIN requests :
       /\ r \in DOMAIN requests'
       /\ requests'[r].cap = requests[r].cap
       /\ requests[r].status = "approved" => requests'[r].status = "approved"
  /\ \A g \in DOMAIN grants :
       /\ g \in DOMAIN grants'
       /\ grants'[g].request = grants[g].request
       /\ grants'[g].expires = grants[g].expires
       /\ grants'[g].maxUses = grants[g].maxUses
       /\ grants[g].maxUses \in Int /\ grants[g].uses \in Int /\ grants'[g].uses \in Int
       /\ grants'[g].uses >= grants[g].uses
  /\ clock \in Int /\ clock' \in Int /\ clock' >= clock

\* Every step makes the tables and the clock grow.
LEMMA NextGrows ==
  ASSUME IInv, [Next]_vars
  PROVE  TablesGrow
<1>1. Kept /\ IInv'
  BY NextKeeps, NextIInv
<1>2. /\ clock \in Int /\ clock' \in Int
      /\ \A g \in DOMAIN grants : grants[g] \in Grant
      /\ \A g \in DOMAIN grants' : grants'[g] \in Grant
  BY <1>1 DEF IInv, TypeOK
<1>3. clock' = clock \/ clock' = clock + 1
  <2>1. CASE Tick
    BY <2>1 DEF Tick
  <2>2. ASSUME NEW i \in Invocations, Invoke(i) \/ InvocationStep(i) PROVE clock' = clock
    BY <2>2 DEF InvocationStep, Invoke, ValidateGrant, ReserveGrant, HandlerEnds,
       HandlerAsksApproval, HandlerForwardsApproval, Materialize, AuditInvocation,
       AuditRequestCreated
  <2>3. ASSUME NEW a \in Issues, LoadRequest(a) \/ IssueStep(a) PROVE clock' = clock
    BY <2>3 DEF IssueStep, LoadRequest, Preflight, BuildGrant, ApproveAndStore, AuditGrantIssued
  <2> QED
    BY <2>1, <2>2, <2>3 DEF Next, vars
<1>4. ASSUME NEW g \in DOMAIN grants
      PROVE  /\ g \in DOMAIN grants'
             /\ grants'[g].request = grants[g].request
             /\ grants'[g].expires = grants[g].expires
             /\ grants'[g].maxUses = grants[g].maxUses
             /\ grants[g].maxUses \in Int /\ grants[g].uses \in Int /\ grants'[g].uses \in Int
             /\ grants'[g].uses >= grants[g].uses
  <2>1. /\ g \in DOMAIN grants' /\ grants'[g].uses >= grants[g].uses
        /\ grants'[g] = [grants[g] EXCEPT !.uses = grants'[g].uses]
    BY <1>1 DEF Kept
  <2>2. grants[g] \in Grant /\ grants'[g] \in Grant
    BY <1>2, <2>1
  <2> QED
    BY <2>1, <2>2 DEF Grant
<1>5. \A r \in DOMAIN requests :
        /\ r \in DOMAIN requests'
        /\ requests'[r].cap = requests[r].cap
        /\ requests[r].status = "approved" => requests'[r].status = "approved"
  BY <1>1 DEF Kept
<1> QED
  BY <1>2, <1>3, <1>4, <1>5 DEF TablesGrow

\* An invocation that does not move was told the truth for ever.
LEMMA CallKept ==
  ASSUME IInv, TablesGrow, NEW i \in DOMAIN inv, CallTrue(i), inv'[i] = inv[i]
  PROVE  CallTrue(i)'
<1>1. inv[i].now \in Int
  BY DEF IInv, TypeOK, InvocationState
<1>2. inv[i].now <= clock'
  BY <1>1 DEF CallTrue, TablesGrow
<1>3. inv[i].result = "grant_consumed" =>
        /\ inv[i].grant \in DOMAIN grants'
        /\ grants'[inv[i].grant].uses >= grants'[inv[i].grant].maxUses
  BY DEF CallTrue, TablesGrow
<1>4. inv[i].result = "grant_expired" =>
        inv[i].grant \in DOMAIN grants' /\ grants'[inv[i].grant].expires <= clock'
  <2> SUFFICES ASSUME inv[i].result = "grant_expired"
               PROVE  inv[i].grant \in DOMAIN grants' /\ grants'[inv[i].grant].expires <= clock'
    OBVIOUS
  <2>1. inv[i].grant \in DOMAIN grants /\ grants[inv[i].grant].expires <= clock
    BY DEF CallTrue
  <2>2. grants[inv[i].grant].expires \in Int
    BY <2>1 DEF IInv, TypeOK, Grant
  <2> QED
    BY <2>1, <2>2 DEF TablesGrow
<1>5. inv[i].result = "approval_required" => inv[i].req \in DOMAIN requests'
  BY DEF CallTrue, TablesGrow
<1> QED
  BY <1>2, <1>3, <1>4, <1>5 DEF CallTrue

\* A reason to be told that the request is decided does not go away while the
\* approver's request and decision are the same.
LEMMA DecidedKept ==
  ASSUME IInv, TablesGrow, NEW a \in DOMAIN iss, NEW r, iss[a].req = r, r \in DOMAIN requests,
         Decided(a, r), iss'[a].req = r, iss'[a].decision = iss[a].decision
  PROVE  Decided(a, r)'
<1>1. CASE \E b \in DOMAIN grants : b # a /\ grants[b].request = r
  BY <1>1 DEF Decided, TablesGrow
<1>2. CASE Backend = "sqlite" /\ MaxUsesOf(a) < 1
  <2>1. requests'[r].cap = requests[r].cap
    BY DEF TablesGrow
  <2>2. MaxUsesOf(a)' = MaxUsesOf(a)
    BY <2>1 DEF MaxUsesOf, EffectiveMaxUses
  <2> QED
    BY <1>2, <2>2 DEF Decided
<1> QED
  BY <1>1, <1>2 DEF Decided

\* Nor does an approver that does not move notice that the tables grow.
LEMMA IssueKept ==
  ASSUME IInv, TablesGrow, NEW a \in DOMAIN iss, IssueTrue(a), iss'[a] = iss[a]
  PROVE  IssueTrue(a)'
<1>1. iss[a].pc = "preflight" => iss[a].req \in DOMAIN requests
  BY DEF IInv, IssuesInFlight
<1>2. iss[a].pc = "preflight" /\ ~ iss[a].pending => requests'[iss[a].req].status = "approved"
  BY <1>1 DEF IssueTrue, TablesGrow
<1>3. iss[a].pc = "audit" => a \in DOMAIN grants' /\ grants'[a].request = iss[a].req
  BY DEF IssueTrue, TablesGrow
<1>4. iss[a].result = "approval_request_already_decided" =>
        iss[a].req \in DOMAIN requests' /\ Decided(a, iss[a].req)'
  <2> SUFFICES ASSUME iss[a].result = "approval_request_already_decided"
               PROVE  iss[a].req \in DOMAIN requests' /\ Decided(a, iss[a].req)'
    OBVIOUS
  <2>1. iss[a].req \in DOMAIN requests /\ Decided(a, iss[a].req)
    BY DEF IssueTrue
  <2>2. iss[a].req \in DOMAIN requests'
    BY <2>1 DEF TablesGrow
  <2> QED
    BY <2>1, <2>2, DecidedKept
<1> QED
  BY <1>2, <1>3, <1>4 DEF IssueTrue

\* Entries stay true as long as calls that are done stay as they are.
LEMMA EntryKept ==
  ASSUME TablesGrow, NEW e, EntryTrue(e),
         \A i \in DOMAIN inv : inv[i].pc = "done" => i \in DOMAIN inv' /\ inv'[i] = inv[i]
  PROVE  EntryTrue(e)'
  BY DEF EntryTrue, TablesGrow

-----------------------------------------------------------------------------
(* The invariant is inductive                                              *)

\* A step of one invocation that logs nothing.
LEMMA OneCallMoves ==
  ASSUME IInv, TruthInv, TablesGrow, UNCHANGED <<iss, audit>>, NEW i,
         i \in DOMAIN inv => inv[i].pc # "done",
         DOMAIN inv' = DOMAIN inv \cup {i},
         \A j \in DOMAIN inv : j # i => inv'[j] = inv[j],
         CallTrue(i)'
  PROVE  TruthInv'
<1>1. ASSUME NEW j \in DOMAIN inv' PROVE CallTrue(j)'
  <2>1. CASE j = i
    BY <2>1
  <2>2. CASE j # i
    BY <2>2, CallKept DEF TruthInv, CallsTrue
  <2> QED
    BY <2>1, <2>2
<1>2. ASSUME NEW a \in DOMAIN iss' PROVE IssueTrue(a)'
  BY IssueKept DEF TruthInv, IssuesTrue
<1>3. ASSUME NEW e \in audit' PROVE EntryTrue(e)'
  BY EntryKept DEF TruthInv, EntriesTrue
<1> QED
  BY <1>1, <1>2, <1>3 DEF TruthInv, CallsTrue, IssuesTrue, EntriesTrue

\* A step of one invocation that may log the entry new.
LEMMA OneCallLogs ==
  ASSUME IInv, TruthInv, TablesGrow, UNCHANGED iss, NEW i \in DOMAIN inv, NEW new,
         audit' \subseteq audit \cup {new},
         inv[i].pc # "done",
         DOMAIN inv' = DOMAIN inv,
         \A j \in DOMAIN inv : j # i => inv'[j] = inv[j],
         CallTrue(i)', EntryTrue(new)'
  PROVE  TruthInv'
<1>1. ASSUME NEW j \in DOMAIN inv' PROVE CallTrue(j)'
  <2>1. CASE j = i
    BY <2>1
  <2>2. CASE j # i
    BY <2>2, CallKept DEF TruthInv, CallsTrue
  <2> QED
    BY <2>1, <2>2
<1>2. ASSUME NEW a \in DOMAIN iss' PROVE IssueTrue(a)'
  BY IssueKept DEF TruthInv, IssuesTrue
<1>3. ASSUME NEW e \in audit' PROVE EntryTrue(e)'
  <2>1. CASE e = new
    BY <2>1
  <2>2. CASE e \in audit
    BY <2>2, EntryKept DEF TruthInv, EntriesTrue
  <2> QED
    BY <2>1, <2>2
<1> QED
  BY <1>1, <1>2, <1>3 DEF TruthInv, CallsTrue, IssuesTrue, EntriesTrue

\* A step of one approver that may log the entry new.
LEMMA OneIssueMoves ==
  ASSUME IInv, TruthInv, TablesGrow, UNCHANGED inv, NEW a, NEW new,
         audit' \subseteq audit \cup {new},
         DOMAIN iss' = DOMAIN iss \cup {a},
         \A b \in DOMAIN iss : b # a => iss'[b] = iss[b],
         IssueTrue(a)', new \in audit' => EntryTrue(new)'
  PROVE  TruthInv'
<1>1. ASSUME NEW j \in DOMAIN inv' PROVE CallTrue(j)'
  BY CallKept DEF TruthInv, CallsTrue
<1>2. ASSUME NEW b \in DOMAIN iss' PROVE IssueTrue(b)'
  <2>1. CASE b = a
    BY <2>1
  <2>2. CASE b # a
    BY <2>2, IssueKept DEF TruthInv, IssuesTrue
  <2> QED
    BY <2>1, <2>2
<1>3. ASSUME NEW e \in audit' PROVE EntryTrue(e)'
  <2>1. CASE e = new
    BY <2>1
  <2>2. CASE e \in audit
    BY <2>2, EntryKept DEF TruthInv, EntriesTrue
  <2> QED
    BY <2>1, <2>2
<1> QED
  BY <1>1, <1>2, <1>3 DEF TruthInv, CallsTrue, IssuesTrue, EntriesTrue
\* Sending an invocation, or a step of its handler, tells nothing false.
LEMMA CallSteps ==
  ASSUME IInv, TruthInv, TablesGrow, NEW i \in Invocations,
         \/ Invoke(i) \/ HandlerEnds(i) \/ HandlerAsksApproval(i)
         \/ HandlerForwardsApproval(i) \/ Materialize(i)
  PROVE  TruthInv'
<1>0. inv \in [DOMAIN inv -> InvocationState]
  BY DEF IInv, TypeOK
<1>1. CASE Invoke(i)
  <2> DEFINE State(c, g) == [pc |-> IF g = None THEN "handler" ELSE "validate",
                             call |-> c, grant |-> g, now |-> clock, reserved |-> FALSE,
                             req |-> None, result |-> "running"]
  <2>1. PICK c \in Calls, g \in DOMAIN grants \cup {None, Unknown} :
          inv' = Put(inv, i, State(c, g))
    BY <1>1 DEF Invoke
  <2>2. State(c, g).now = clock /\ State(c, g).result = "running"
    OBVIOUS
  <2> HIDE DEF State
  <2>3. /\ DOMAIN inv' = DOMAIN inv \cup {i} /\ inv'[i] = State(c, g)
        /\ \A j \in DOMAIN inv : j # i => inv'[j] = inv[j]
    BY <2>1 DEF Put
  <2>4. CallTrue(i)'
    BY <2>2, <2>3 DEF CallTrue, TablesGrow
  <2>5. UNCHANGED <<iss, audit>> /\ i \notin DOMAIN inv
    BY <1>1 DEF Invoke
  <2> QED
    BY <2>3, <2>4, <2>5, OneCallMoves
<1>2. ASSUME i \in DOMAIN inv, inv[i].pc # "done", UNCHANGED <<iss, audit>>,
             NEW s, inv' = [inv EXCEPT ![i] = s], s.now = inv[i].now,
             s.result \in {"running", "ended", "internal_error", "service_unavailable",
                           "approval_required"},
             s.result = "approval_required" => s.req \in DOMAIN requests'
      PROVE  TruthInv'
  <2>1. /\ DOMAIN inv' = DOMAIN inv \cup {i} /\ inv'[i] = s
        /\ \A j \in DOMAIN inv : j # i => inv'[j] = inv[j]
    BY <1>0, <1>2
  <2>2. inv[i].now \in Int /\ inv[i].now <= clock
    BY <1>0, <1>2 DEF TruthInv, CallsTrue, CallTrue, InvocationState
  <2>3. s.now <= clock'
    BY <1>2, <2>2 DEF TablesGrow
  <2>4. CallTrue(i)'
    BY <1>2, <2>1, <2>3 DEF CallTrue
  <2> QED
    BY <1>2, <2>1, <2>4, OneCallMoves
<1>3. CASE HandlerEnds(i)
  <2>1. PICK r \in {"ended", "internal_error"} :
          inv' = [inv EXCEPT ![i].pc = "audit", ![i].result = r]
    BY <1>3 DEF HandlerEnds
  <2> DEFINE s == [[inv[i] EXCEPT !.pc = "audit"] EXCEPT !.result = r]
  <2>2. i \in DOMAIN inv /\ inv[i].pc = "handler" /\ UNCHANGED <<iss, audit>>
    BY <1>3 DEF HandlerEnds
  <2>3. inv' = [inv EXCEPT ![i] = s]
    BY <1>0, <2>1, <2>2
  <2>4. s.now = inv[i].now /\ s.result = r
    BY <1>0, <2>2 DEF InvocationState
  <2> HIDE DEF s
  <2> QED
    BY <1>2, <2>2, <2>3, <2>4
<1>4. CASE HandlerAsksApproval(i)
  <2> DEFINE s == [inv[i] EXCEPT !.pc = "materialize"]
  <2>1. /\ i \in DOMAIN inv /\ inv[i].pc = "handler" /\ UNCHANGED <<iss, audit>>
        /\ inv' = [inv EXCEPT ![i] = s]
    BY <1>4 DEF HandlerAsksApproval
  <2>2. s.now = inv[i].now /\ s.result = inv[i].result
    BY <1>0, <2>1 DEF InvocationState
  <2>3. inv[i].result = "running"
    BY <2>1 DEF IInv, InvocationsInFlight, InFlight
  <2> HIDE DEF s
  <2> QED
    BY <1>2, <2>1, <2>2, <2>3
<1>5. CASE HandlerForwardsApproval(i)
  <2>1. PICK r \in DOMAIN requests :
          inv' = [inv EXCEPT ![i].pc = "audit", ![i].req = r,
                             ![i].result = "approval_required"]
    BY <1>5 DEF HandlerForwardsApproval
  <2> DEFINE s == [[[inv[i] EXCEPT !.pc = "audit"] EXCEPT !.req = r]
                      EXCEPT !.result = "approval_required"]
  <2>2. /\ i \in DOMAIN inv /\ inv[i].pc = "handler" /\ UNCHANGED <<iss, audit>>
        /\ UNCHANGED requests
    BY <1>5 DEF HandlerForwardsApproval
  <2>3. inv' = [inv EXCEPT ![i] = s]
    BY <1>0, <2>1, <2>2
  <2>4. s.now = inv[i].now /\ s.result = "approval_required" /\ s.req = r
    BY <1>0, <2>2 DEF InvocationState
  <2> HIDE DEF s
  <2> QED
    BY <1>2, <2>1, <2>2, <2>3, <2>4
<1>6. CASE Materialize(i)
  <2>0. i \in DOMAIN inv /\ inv[i].pc = "materialize" /\ UNCHANGED <<iss, audit>>
    BY <1>6 DEF Materialize
  <2>1. CASE /\ requests' = Put(requests, i, NewRequest(inv[i].call, clock))
             /\ inv' = [inv EXCEPT ![i].pc = "audit", ![i].req = i,
                                   ![i].result = "approval_required"]
    <3> DEFINE s == [[[inv[i] EXCEPT !.pc = "audit"] EXCEPT !.req = i]
                        EXCEPT !.result = "approval_required"]
    <3>1. inv' = [inv EXCEPT ![i] = s]
      BY <1>0, <2>0, <2>1
    <3>2. s.now = inv[i].now /\ s.result = "approval_required" /\ s.req = i
      BY <1>0, <2>0 DEF InvocationState
    <3>3. i \in DOMAIN requests'
      BY <2>1 DEF Put
    <3> HIDE DEF s
    <3> QED
      BY <1>2, <2>0, <3>1, <3>2, <3>3
  <2>2. CASE inv' = [inv EXCEPT ![i].pc = "audit", ![i].result = "service_unavailable"]
    <3> DEFINE s == [[inv[i] EXCEPT !.pc = "audit"] EXCEPT !.result = "service_unavailable"]
    <3>1. inv' = [inv EXCEPT ![i] = s]
      BY <1>0, <2>0, <2>2
    <3>2. s.now = inv[i].now /\ s.result = "service_unavailable"
      BY <1>0, <2>0 DEF InvocationState
    <3> HIDE DEF s
    <3> QED
      BY <1>2, <2>0, <3>1, <3>2
  <2> QED
    BY <1>6, <2>1, <2>2 DEF Materialize
<1> QED
  BY <1>1, <1>3, <1>4, <1>5, <1>6

\* A continuation is refused for what the grant is, by a clock that has passed.
LEMMA GrantSteps ==
  ASSUME IInv, TruthInv, TablesGrow, NEW i \in Invocations,
         ValidateGrant(i) \/ ReserveGrant(i)
  PROVE  TruthInv'
<1>0. inv \in [DOMAIN inv -> InvocationState] /\ clock \in Int
  BY DEF IInv, TypeOK
<1>1. i \in DOMAIN inv /\ inv[i].pc \in {"validate", "reserve"} /\ UNCHANGED <<clock, iss, audit>>
  BY DEF ValidateGrant, ReserveGrant
<1>2. inv[i].result = "running" /\ inv[i].now \in Int /\ inv[i].now <= clock
  BY <1>0, <1>1 DEF IInv, InvocationsInFlight, InFlight, InvocationState, TruthInv,
     CallsTrue, CallTrue
<1> DEFINE g == inv[i].grant
           told == inv'[i].result
<1>3. ASSUME told = "running" \/ told \in GrantFailures \cup {"internal_error"},
             DOMAIN inv' = DOMAIN inv, inv'[i].grant = g,
             \A j \in DOMAIN inv : j # i => inv'[j] = inv[j],
             inv'[i].now <= clock,
             told = "grant_consumed" =>
               g \in DOMAIN grants /\ grants[g].uses >= grants[g].maxUses,
             told = "grant_expired" => g \in DOMAIN grants /\ grants[g].expires <= clock
      PROVE  TruthInv'
  <2>1. told # "approval_required"
    BY <1>3 DEF GrantFailures
  <2>2. told = "grant_consumed" =>
          g \in DOMAIN grants' /\ grants'[g].uses >= grants'[g].maxUses
    BY <1>3 DEF TablesGrow
  <2>3. told = "grant_expired" => g \in DOMAIN grants' /\ grants'[g].expires <= clock'
    BY <1>1, <1>3 DEF TablesGrow
  <2>4. CallTrue(i)'
    BY <1>1, <1>3, <2>1, <2>2, <2>3 DEF CallTrue
  <2>5. DOMAIN inv' = DOMAIN inv \cup {i}
    BY <1>1, <1>3
  <2> QED
    BY <1>1, <1>3, <2>4, <2>5, OneCallMoves
<1>4. CASE ValidateGrant(i)
  <2>1. PICK r \in {GrantRefusal(inv[i].call, g, inv[i].now)} \cup StorageErrors :
          inv' = IF r = "ok"
                 THEN [inv EXCEPT ![i].pc = "reserve", ![i].now = clock]
                 ELSE [inv EXCEPT ![i].pc = "audit", ![i].result = r]
    BY <1>4 DEF ValidateGrant
  <2>2. /\ r \in GrantFailures \cup {"ok", "internal_error"} /\ r # "grant_consumed"
        /\ r = "grant_expired" => g \in DOMAIN grants /\ grants[g].expires <= inv[i].now
    <3>1. /\ r \in GrantFailures \cup {"ok", "internal_error"}
          /\ r \in {"grant_expired", "grant_consumed"} =>
               GrantRefusal(inv[i].call, g, inv[i].now) = r
      BY AnswersTyped
    <3> QED
      BY <3>1 DEF GrantRefusal
  <2>3. r = "grant_expired" => g \in DOMAIN grants /\ grants[g].expires <= clock
    <3>1. g \in DOMAIN grants => grants[g].expires \in Int
      BY DEF IInv, TypeOK, Grant
    <3> QED
      BY <1>0, <1>2, <2>2, <3>1
  <2>4. CASE r = "ok"
    <3>1. /\ DOMAIN inv' = DOMAIN inv /\ inv'[i].grant = g /\ told = "running"
          /\ \A j \in DOMAIN inv : j # i => inv'[j] = inv[j]
          /\ inv'[i].now = clock
      BY <1>0, <1>1, <1>2, <2>1, <2>4 DEF InvocationState
    <3>2. clock <= clock
      BY <1>0
    <3> QED
      BY <1>3, <3>1, <3>2
  <2>5. CASE r # "ok"
    <3>1. /\ DOMAIN inv' = DOMAIN inv /\ inv'[i].grant = g /\ told = r
          /\ \A j \in DOMAIN inv : j # i => inv'[j] = inv[j]
          /\ inv'[i].now = inv[i].now
      BY <1>0, <1>1, <2>1, <2>5 DEF InvocationState
    <3> QED
      BY <1>2, <1>3, <2>2, <2>3, <2>5, <3>1
  <2> QED
    BY <2>4, <2>5
<1>5. CASE ReserveGrant(i)
  <2>1. PICK r \in {ReserveRefusal(g, inv[i].now)} \cup StorageErrors :
          inv' = IF r = "ok"
                 THEN [inv EXCEPT ![i].pc = "handler", ![i].reserved = TRUE]
                 ELSE [inv EXCEPT ![i].pc = "audit", ![i].result = r]
    BY <1>5 DEF ReserveGrant
  <2>2. /\ r \in GrantFailures \cup {"ok", "internal_error"}
        /\ r = "grant_expired" => g \in DOMAIN grants /\ grants[g].expires <= inv[i].now
        /\ r = "grant_consumed" => g \in DOMAIN grants /\ grants[g].uses >= grants[g].maxUses
    BY AnswersTyped DEF ReserveRefusal
  <2>3. r = "grant_expired" => g \in DOMAIN grants /\ grants[g].expires <= clock
    <3>1. g \in DOMAIN grants => grants[g].expires \in Int
      BY DEF IInv, TypeOK, Grant
    <3> QED
      BY <1>0, <1>2, <2>2, <3>1
  <2>4. /\ DOMAIN inv' = DOMAIN inv /\ inv'[i].grant = g
        /\ told = IF r = "ok" THEN "running" ELSE r
        /\ \A j \in DOMAIN inv : j # i => inv'[j] = inv[j]
        /\ inv'[i].now = inv[i].now
    BY <1>0, <1>1, <1>2, <2>1 DEF InvocationState
  <2>5. (told = "running" \/ told = r) /\ told # "ok"
    BY <2>4
  <2>6. told = "running" \/ told \in GrantFailures \cup {"internal_error"}
    BY <2>2, <2>5
  <2>7. /\ told = "grant_consumed" =>
             g \in DOMAIN grants /\ grants[g].uses >= grants[g].maxUses
        /\ told = "grant_expired" => g \in DOMAIN grants /\ grants[g].expires <= clock
    BY <2>2, <2>3, <2>5
  <2>8. inv'[i].now <= clock
    BY <1>2, <2>4
  <2> QED
    BY <1>3, <2>4, <2>6, <2>7, <2>8
<1> QED
  BY <1>4, <1>5
\* The two entries of an invocation speak of the request it was told.
LEMMA CallLogs ==
  ASSUME IInv, TruthInv, TablesGrow, NEW i \in Invocations,
         AuditInvocation(i) \/ AuditRequestCreated(i)
  PROVE  TruthInv'
<1>1. /\ i \in DOMAIN inv /\ inv[i].pc \in {"audit", "link"}
      /\ UNCHANGED <<clock, requests, grants, iss>>
  BY DEF AuditInvocation, AuditRequestCreated
<1>2. /\ inv \in [DOMAIN inv -> InvocationState] /\ InFlight(i) /\ CallTrue(i)
  BY <1>1 DEF IInv, TypeOK, InvocationsInFlight, TruthInv, CallsTrue
<1>3. inv[i].req # None => inv[i].req \in DOMAIN requests'
  BY <1>1, <1>2 DEF InFlight, CallTrue
<1>4. ASSUME NEW p \in {"done", "link"}, inv' = [inv EXCEPT ![i].pc = p]
      PROVE  /\ DOMAIN inv' = DOMAIN inv
             /\ \A j \in DOMAIN inv : j # i => inv'[j] = inv[j]
             /\ inv'[i].pc = p /\ inv'[i].req = inv[i].req
             /\ CallTrue(i)'
  <2>1. /\ DOMAIN inv' = DOMAIN inv
        /\ \A j \in DOMAIN inv : j # i => inv'[j] = inv[j]
        /\ inv'[i].pc = p /\ inv'[i].req = inv[i].req /\ inv'[i].result = inv[i].result
        /\ inv'[i].grant = inv[i].grant /\ inv'[i].now = inv[i].now
    BY <1>1, <1>2, <1>4 DEF InvocationState
  <2>2. CallTrue(i)'
    BY <1>1, <1>2, <2>1 DEF CallTrue
  <2> QED
    BY <2>1, <2>2
<1>5. CASE AuditInvocation(i)
  <2> DEFINE p == IF inv[i].req = None THEN "done" ELSE "link"
  <2>0. PICK new : new = InvocationEntry(i)
    OBVIOUS
  <2>1. /\ inv' = [inv EXCEPT ![i].pc = p]
        /\ audit' \subseteq audit \cup {new}
    BY <1>5, <2>0 DEF AuditInvocation, LogEntry
  <2>2. p \in {"done", "link"}
    OBVIOUS
  <2>3. new.kind = "invocation" /\ new.req = inv[i].req
    BY <2>0 DEF InvocationEntry
  <2> HIDE DEF p
  <2>4. EntryTrue(new)'
    BY <1>3, <2>3 DEF EntryTrue
  <2>5. /\ DOMAIN inv' = DOMAIN inv
        /\ \A j \in DOMAIN inv : j # i => inv'[j] = inv[j]
        /\ CallTrue(i)'
    BY <1>4, <2>1, <2>2
  <2>6. UNCHANGED iss /\ inv[i].pc # "done"
    BY <1>1
  <2> QED
    BY <1>1, <2>1, <2>4, <2>5, <2>6, OneCallLogs
<1>6. CASE AuditRequestCreated(i)
  <2>0. PICK new : new = RequestCreatedEntry(i)
    OBVIOUS
  <2>1. /\ inv' = [inv EXCEPT ![i].pc = "done"]
        /\ audit' \subseteq audit \cup {new}
    BY <1>6, <2>0 DEF AuditRequestCreated, LogEntry
  <2>2. new.kind = "approval_request_created" /\ new.req = inv[i].req /\ new.inv = i
    BY <2>0 DEF RequestCreatedEntry
  <2>3. /\ DOMAIN inv' = DOMAIN inv
        /\ \A j \in DOMAIN inv : j # i => inv'[j] = inv[j]
        /\ inv'[i].pc = "done" /\ inv'[i].req = inv[i].req
        /\ CallTrue(i)'
    BY <1>4, <2>1
  <2>4. EntryTrue(new)'
    BY <1>1, <1>3, <2>2, <2>3 DEF EntryTrue
  <2>5. UNCHANGED iss /\ inv[i].pc # "done"
    BY <1>1
  <2> QED
    BY <1>1, <2>1, <2>3, <2>4, <2>5, OneCallLogs
<1> QED
  BY <1>5, <1>6

\* An approver is refused because another one's grant stands, and what is
\* logged as issued is stored.
LEMMA IssueSteps ==
  ASSUME IInv, TruthInv, TablesGrow, NEW a \in Issues, LoadRequest(a) \/ IssueStep(a)
  PROVE  TruthInv'
<1>0. /\ iss \in [DOMAIN iss -> IssueState]
      /\ \A r \in DOMAIN requests : requests[r].status \in {"pending", "approved"}
      /\ UNCHANGED inv
  BY DEF IInv, TypeOK, Request, IssueStep, LoadRequest, Preflight, BuildGrant,
     ApproveAndStore, AuditGrantIssued
\* What remains to be shown of a step that logs nothing.
<1>1. ASSUME UNCHANGED audit, DOMAIN iss' = DOMAIN iss \cup {a},
             \A b \in DOMAIN iss : b # a => iss'[b] = iss[b],
             IssueTrue(a)'
      PROVE  TruthInv'
  <2>0. PICK new : new = GrantIssuedEntry(a)
    OBVIOUS
  <2>1. audit' \subseteq audit \cup {new} /\ UNCHANGED inv
    BY <1>0, <1>1
  <2>2. new \in audit' => EntryTrue(new)'
    BY <1>0, <1>1, EntryKept DEF TruthInv, EntriesTrue
  <2> QED
    BY <1>1, <2>1, <2>2, OneIssueMoves
<1>2. CASE LoadRequest(a)
  <2> DEFINE State(r, d) ==
        LET found == r \in DOMAIN requests
        IN [pc |-> IF found THEN "preflight" ELSE "done", req |-> r, decision |-> d,
            pending |-> IF found THEN requests[r].status = "pending" ELSE FALSE,
            now |-> clock, expires |-> clock,
            result |-> IF found THEN "running" ELSE "approval_request_not_found"]
  <2>1. PICK r \in DOMAIN requests \cup {Unknown}, d \in Decisions :
          iss' = Put(iss, a, State(r, d))
    BY <1>2 DEF LoadRequest
  <2>2. /\ State(r, d).pc = (IF r \in DOMAIN requests THEN "preflight" ELSE "done")
        /\ State(r, d).req = r
        /\ State(r, d).pending = (IF r \in DOMAIN requests
                                  THEN requests[r].status = "pending" ELSE FALSE)
        /\ State(r, d).result \in {"running", "approval_request_not_found"}
    OBVIOUS
  <2> HIDE DEF State
  <2>3. /\ DOMAIN iss' = DOMAIN iss \cup {a} /\ iss'[a] = State(r, d)
        /\ \A b \in DOMAIN iss : b # a => iss'[b] = iss[b]
    BY <2>1 DEF Put
  <2>4. UNCHANGED <<requests, grants, audit>>
    BY <1>2 DEF LoadRequest
  <2>5. iss'[a].pc = "preflight" /\ ~ iss'[a].pending
          => requests'[iss'[a].req].status = "approved"
    BY <1>0, <2>2, <2>3, <2>4
  <2>6. iss'[a].pc # "audit" /\ iss'[a].result # "approval_request_already_decided"
    BY <2>2, <2>3
  <2>7. IssueTrue(a)'
    BY <2>5, <2>6 DEF IssueTrue
  <2> QED
    BY <1>1, <2>3, <2>4, <2>7
<1>3. ASSUME a \in DOMAIN iss, UNCHANGED audit,
             NEW p \in {"done", "build", "store", "audit"},
             NEW t \in IssueFailures \cup {"running", "issued", "storage_error"},
             iss'[a].pc = p, iss'[a].result = t, iss'[a].req = iss[a].req,
             iss'[a].decision = iss[a].decision,
             DOMAIN iss' = DOMAIN iss,
             \A b \in DOMAIN iss : b # a => iss'[b] = iss[b],
             p = "audit" => a \in DOMAIN grants' /\ grants'[a].request = iss[a].req,
             t = "approval_request_already_decided" =>
               iss[a].req \in DOMAIN requests /\ Decided(a, iss[a].req)
      PROVE  TruthInv'
  <2>3. t = "approval_request_already_decided" =>
          iss[a].req \in DOMAIN requests' /\ Decided(a, iss[a].req)'
    BY <1>3, DecidedKept DEF TablesGrow
  <2>1. IssueTrue(a)'
    BY <1>3, <2>3 DEF IssueTrue
  <2>2. DOMAIN iss' = DOMAIN iss \cup {a}
    BY <1>3
  <2> QED
    BY <1>1, <1>3, <2>1, <2>2
\* A request that is decided was decided by another approver.
<1>4. ASSUME a \in DOMAIN iss, iss[a].pc \in {"preflight", "store"},
             \/ requests[iss[a].req].status = "approved"
             \/ \E g \in DOMAIN grants : grants[g].request = iss[a].req
      PROVE  iss[a].req \in DOMAIN requests /\ Decided(a, iss[a].req)
  <2>1. iss[a].req \in DOMAIN requests /\ a \notin DOMAIN grants
    BY <1>4 DEF IInv, IssuesInFlight
  <2>2. \E g \in DOMAIN grants : grants[g].request = iss[a].req
    BY <1>4, <2>1 DEF IInv, ApprovedIffGranted
  <2> QED
    BY <2>1, <2>2 DEF Decided
<1>5. CASE Preflight(a)
  <2> DEFINE r == requests[iss[a].req]
             refuse(why) == [iss EXCEPT ![a].pc = "done", ![a].result = why]
  <2>1. /\ a \in DOMAIN iss /\ iss[a].pc = "preflight"
        /\ UNCHANGED <<requests, grants, audit>>
        /\ iss' = IF ~ iss[a].pending THEN refuse("approval_request_already_decided")
                  ELSE IF r.expires <= clock THEN refuse("approval_request_expired")
                  ELSE IF ~ PolicyAllows(iss[a].decision, PolicyOf[r.cap])
                    THEN refuse("grant_type_not_allowed_by_policy")
                  ELSE [iss EXCEPT ![a].pc = "build", ![a].now = clock]
    BY <1>5 DEF Preflight
  <2>2. ~ iss[a].pending => r.status = "approved"
    BY <2>1 DEF TruthInv, IssuesTrue, IssueTrue
  <2>3. ASSUME NEW why \in IssueFailures, iss' = refuse(why),
               why = "approval_request_already_decided" => r.status = "approved"
        PROVE  TruthInv'
    <3>0. a \in DOMAIN iss
      BY <2>1
    <3>1. /\ iss'[a].pc = "done" /\ iss'[a].result = why /\ iss'[a].req = iss[a].req
          /\ iss'[a].decision = iss[a].decision /\ DOMAIN iss' = DOMAIN iss
          /\ \A b \in DOMAIN iss : b # a => iss'[b] = iss[b]
      BY <1>0, <2>3, <3>0 DEF IssueState
    <3>2. why = "approval_request_already_decided" =>
            iss[a].req \in DOMAIN requests /\ Decided(a, iss[a].req)
      BY <1>4, <2>1, <2>3
    <3> QED
      BY <1>3, <2>1, <3>1, <3>2
  <2>4. CASE iss' = [iss EXCEPT ![a].pc = "build", ![a].now = clock]
    <3>1. /\ iss'[a].pc = "build" /\ iss'[a].result = iss[a].result
          /\ iss'[a].req = iss[a].req /\ iss'[a].decision = iss[a].decision
          /\ DOMAIN iss' = DOMAIN iss
          /\ \A b \in DOMAIN iss : b # a => iss'[b] = iss[b]
      BY <1>0, <2>1, <2>4 DEF IssueState
    <3>2. iss[a].result = "approval_request_already_decided" =>
            iss[a].req \in DOMAIN requests' /\ Decided(a, iss[a].req)'
      BY <2>1, <3>1, DecidedKept DEF TruthInv, IssuesTrue, IssueTrue, TablesGrow
    <3>3. IssueTrue(a)'
      BY <3>1, <3>2 DEF IssueTrue
    <3> QED
      BY <1>1, <2>1, <3>1, <3>3
  <2>5. /\ "approval_request_expired" \in IssueFailures
        /\ "approval_request_already_decided" \in IssueFailures
        /\ "grant_type_not_allowed_by_policy" \in IssueFailures
    BY DEF IssueFailures
  <2> HIDE DEF refuse
  <2> QED
    BY <2>1, <2>2, <2>3, <2>4, <2>5
<1>6. CASE BuildGrant(a)
  <2>1. /\ a \in DOMAIN iss /\ UNCHANGED <<requests, grants, audit>>
        /\ iss' = [iss EXCEPT ![a].pc = "store",
                     ![a].expires = clock + EffectiveExpiresIn(iss[a].decision,
                                              PolicyOf[requests[iss[a].req].cap])]
    BY <1>6 DEF BuildGrant
  <2>2. /\ iss'[a].pc = "store" /\ iss'[a].result = iss[a].result
        /\ iss'[a].req = iss[a].req /\ iss'[a].decision = iss[a].decision
        /\ DOMAIN iss' = DOMAIN iss
        /\ \A b \in DOMAIN iss : b # a => iss'[b] = iss[b]
    BY <1>0, <2>1 DEF IssueState
  <2>3. iss[a].result = "approval_request_already_decided" =>
          iss[a].req \in DOMAIN requests' /\ Decided(a, iss[a].req)'
    BY <2>1, <2>2, DecidedKept DEF TruthInv, IssuesTrue, IssueTrue, TablesGrow
  <2>4. IssueTrue(a)'
    BY <2>2, <2>3 DEF IssueTrue
  <2> QED
    BY <1>1, <2>1, <2>2, <2>4
<1>7. CASE ApproveAndStore(a)
  <2> DEFINE r == iss[a].req
  <2>0. a \in DOMAIN iss /\ iss[a].pc = "store" /\ UNCHANGED audit
    BY <1>7 DEF ApproveAndStore
  <2>3. PICK why : Answered(a, why)
    BY <1>7, ApproveAnswers
  <2>1. CASE why = "ok"
    <3>1. /\ grants' = Put(grants, a, NewGrant(a))
          /\ iss' = [iss EXCEPT ![a].pc = "audit", ![a].result = "issued"]
      BY <2>1, <2>3 DEF Answered
    <3>2. a \in DOMAIN grants' /\ grants'[a] = NewGrant(a)
      BY <3>1 DEF Put
    <3>3. grants'[a].request = iss[a].req
      BY <3>2 DEF NewGrant
    <3>4. /\ iss'[a].pc = "audit" /\ iss'[a].result = "issued" /\ iss'[a].req = iss[a].req
          /\ iss'[a].decision = iss[a].decision /\ DOMAIN iss' = DOMAIN iss
          /\ \A b \in DOMAIN iss : b # a => iss'[b] = iss[b]
      BY <1>0, <2>0, <3>1 DEF IssueState
    <3> QED
      BY <1>3, <2>0, <3>2, <3>3, <3>4
  <2>2. CASE why # "ok"
    <3>1. /\ why \in IssueFailures \cup {"storage_error"}
          /\ iss' = [iss EXCEPT ![a].pc = "done", ![a].result = why]
      BY <2>2, <2>3 DEF Answered
    <3>2. r \in DOMAIN requests
      BY <2>0 DEF IInv, IssuesInFlight
    <3>3. why = "approval_request_already_decided" => Decided(a, r)
      <4> SUFFICES ASSUME why = "approval_request_already_decided" PROVE Decided(a, r)
        OBVIOUS
      <4>1. ApproveRefusal(r, iss[a].now, MaxUsesOf(a)) = "approval_request_already_decided"
        BY <2>3 DEF Answered
      <4>2. \/ requests[r].status = "approved"
            \/ RowRefused(r, MaxUsesOf(a)) /\ Backend # "postgres"
        BY <1>0, <3>2, <4>1 DEF ApproveRefusal
      <4>3. \/ requests[r].status = "approved"
            \/ \E g \in DOMAIN grants : grants[g].request = r
            \/ Backend = "sqlite" /\ MaxUsesOf(a) < 1
        BY <4>2, InputsAssumption DEF RowRefused
      <4> QED
        BY <1>4, <2>0, <4>3 DEF Decided
    <3>4. /\ iss'[a].pc = "done" /\ iss'[a].result = why /\ iss'[a].req = iss[a].req
          /\ iss'[a].decision = iss[a].decision /\ DOMAIN iss' = DOMAIN iss
          /\ \A b \in DOMAIN iss : b # a => iss'[b] = iss[b]
      BY <1>0, <2>0, <3>1 DEF IssueState
    <3> QED
      BY <1>3, <2>0, <3>1, <3>2, <3>3, <3>4
  <2> QED
    BY <2>1, <2>2
<1>8. CASE AuditGrantIssued(a)
  <2>0. PICK new : new = GrantIssuedEntry(a)
    OBVIOUS
  <2>1. /\ a \in DOMAIN iss /\ iss[a].pc = "audit" /\ UNCHANGED <<requests, grants>>
        /\ iss' = [iss EXCEPT ![a].pc = "done"]
        /\ audit' \subseteq audit \cup {new}
    BY <1>8, <2>0 DEF AuditGrantIssued, LogEntry
  <2>2. /\ new.kind = "approval_grant_issued" /\ new.req = iss[a].req /\ new.grant = a
    BY <2>0 DEF GrantIssuedEntry
  <2>3. /\ iss[a].req \in DOMAIN requests
        /\ a \in DOMAIN grants /\ grants[a].request = iss[a].req
    BY <2>1 DEF IInv, IssuesInFlight, TruthInv, IssuesTrue, IssueTrue
  <2>4. EntryTrue(new)'
    BY <2>1, <2>2, <2>3 DEF EntryTrue
  <2>5. /\ iss'[a].pc = "done" /\ iss'[a].result = iss[a].result
        /\ iss'[a].req = iss[a].req /\ iss'[a].decision = iss[a].decision
        /\ DOMAIN iss' = DOMAIN iss \cup {a}
        /\ \A b \in DOMAIN iss : b # a => iss'[b] = iss[b]
    BY <1>0, <2>1 DEF IssueState
  <2>6. iss[a].result = "approval_request_already_decided" =>
          iss[a].req \in DOMAIN requests' /\ Decided(a, iss[a].req)'
    BY <2>1, <2>5, DecidedKept DEF TruthInv, IssuesTrue, IssueTrue, TablesGrow
  <2>7. IssueTrue(a)'
    BY <2>5, <2>6 DEF IssueTrue
  <2> QED
    BY <1>0, <2>1, <2>4, <2>5, <2>7, OneIssueMoves
<1> QED
  BY <1>2, <1>5, <1>6, <1>7, <1>8 DEF IssueStep

\* What the calls are told and what the log says stays true at every step.
LEMMA NextTruth == IInv /\ TruthInv /\ [Next]_vars => TruthInv'
<1> SUFFICES ASSUME IInv, TruthInv, [Next]_vars PROVE TruthInv'
  OBVIOUS
<1>1. TablesGrow
  BY NextGrows
<1>2. CASE Tick \/ UNCHANGED vars
  <2>1. UNCHANGED <<inv, iss, audit>>
    BY <1>2 DEF Tick, vars
  <2>2. \A i \in DOMAIN inv' : CallTrue(i)'
    BY <1>1, <2>1, CallKept DEF TruthInv, CallsTrue
  <2>3. \A a \in DOMAIN iss' : IssueTrue(a)'
    BY <1>1, <2>1, IssueKept DEF TruthInv, IssuesTrue
  <2>4. \A e \in audit' : EntryTrue(e)'
    BY <1>1, <2>1, EntryKept DEF TruthInv, EntriesTrue
  <2> QED
    BY <2>2, <2>3, <2>4 DEF TruthInv, CallsTrue, IssuesTrue, EntriesTrue
<1>3. ASSUME NEW i \in Invocations, Invoke(i) \/ InvocationStep(i) PROVE TruthInv'
  BY <1>1, <1>3, CallSteps, GrantSteps, CallLogs DEF InvocationStep
<1>4. ASSUME NEW a \in Issues, LoadRequest(a) \/ IssueStep(a) PROVE TruthInv'
  BY <1>1, <1>4, IssueSteps
<1> QED
  BY <1>2, <1>3, <1>4 DEF Next

\* In every reachable state the callers and the log were told the truth.
LEMMA SpecTruth == Spec => []TruthInv
<1>1. Init => TruthInv
  BY DEF Init, Nothing, TruthInv, CallsTrue, IssuesTrue, EntriesTrue
<1> QED
  BY <1>1, NextTruth, SpecIInv, PTL DEF Spec

-----------------------------------------------------------------------------
(* Theorems                                                                *)

\* A caller refused because the grant is consumed or expired, and an approver
\* refused because the request is decided, were told what the tables hold, and
\* no later step makes it false, however the calls race.
THEOREM RefusalsAreTrue == Spec => []RefusalsTruthful
<1>1. TruthInv => RefusalsTruthful
  BY DEF TruthInv, CallsTrue, CallTrue, IssuesTrue, IssueTrue, Decided, RefusalsTruthful
<1> QED
  BY <1>1, SpecTruth, PTL

\* Whatever fails between the writes, approval_required is answered and the
\* audit log written only for requests and grants that are stored.
THEOREM OnlyPersistedAnnounced == Spec => []NothingUnpersisted
<1>1. TruthInv => NothingUnpersisted
  BY DEF TruthInv, CallsTrue, CallTrue, EntriesTrue, EntryTrue, NothingUnpersisted
<1> QED
  BY <1>1, SpecTruth, PTL
=============================================================================
