--------------------------- MODULE ApprovalGrants ---------------------------
(***************************************************************************)
(* Approval requests, approval grants and continuation invocations, as     *)
(* anip_service/service.py, anip_service/v023.py and the storage backends  *)
(* of anip_server implement them.                                          *)
(*                                                                         *)
(* A call of ANIPService.invoke whose handler raises approval_required     *)
(* leaves a pending ApprovalRequest.  Calls of issue_approval_grant race   *)
(* to approve it: each reads the request, samples the clock, builds a      *)
(* grant and hands both to one atomic storage primitive.  Later calls of   *)
(* invoke present the grant: they validate it, reserve one use of it       *)
(* atomically and only then run the handler.  Every await is a place where *)
(* other calls, the clock, or the death of the process may come between.   *)
(***************************************************************************)
EXTENDS Integers, FiniteSets

CONSTANTS
  Invocations,   \* calls of invoke; a request is named by the call that raised it
  Issues,        \* calls of issue_approval_grant; a grant is named by the call that minted it
  Capabilities,
  Params,        \* parameter digests
  Scopes,
  Sessions,
  Calls,         \* what a caller may send: capability, parameters, token scope and session
  Decisions,     \* what an approver may send: type, expires_in_seconds, max_uses, session_id
  ScopeOf,       \* minimum_scope of each capability
  PolicyOf,      \* grant_policy of each capability
  MaxClock,      \* bound on the clock
  Backend,       \* which of the three storage backends holds the tables
  StorageMayFail, \* whether the storage may raise in this instance
  None,          \* Python's None: no grant, no request, no session, argument not given
  Unknown        \* an identifier that no table holds

GrantTypes == {"one_time", "session_bound"}

Call == [cap : Capabilities, params : Params, scope : SUBSET Scopes,
         session : Sessions \cup {None}]

Decision == [type : GrantTypes, expiresIn : Int \cup {None},
             maxUses : Int \cup {None}, session : Sessions \cup {None}]

GrantPolicy == [types : SUBSET GrantTypes, lifetime : Int, maxUses : Int]

ASSUME InputsAssumption ==
  /\ Calls \subseteq Call
  /\ Decisions \subseteq Decision
  /\ ScopeOf \in [Capabilities -> SUBSET Scopes]
  /\ PolicyOf \in [Capabilities -> GrantPolicy]
  /\ MaxClock \in Nat
  /\ Backend \in {"memory", "sqlite", "postgres"}
  /\ StorageMayFail \in BOOLEAN

ASSUME SentinelsAssumption ==
  /\ None # Unknown
  /\ {None, Unknown} \cap (Invocations \cup Issues \cup Sessions \cup Int) = {}

VARIABLES
  clock,      \* wall clock, in the unit of expires_in_seconds
  requests,   \* the approval_requests table, a function on the stored request ids
  grants,     \* the approval_grants table, a function on the stored grant ids
  inv,        \* local state of the invoke calls made so far
  iss,        \* local state of the issue_approval_grant calls made so far
  audit       \* the approval-flow audit entries appended so far

vars == <<clock, requests, grants, inv, iss, audit>>

-----------------------------------------------------------------------------
(* Records                                                                 *)

Request == [status : {"pending", "approved"}, cap : Capabilities, params : Params,
            expires : Int, decidedAt : Int \cup {None}, approver : Issues \cup {None}]

Grant == [request : Invocations, type : GrantTypes, cap : Capabilities,
          scope : SUBSET Scopes, params : Params, issuedAt : Int, expires : Int,
          maxUses : Int, uses : Nat, session : Sessions \cup {None}]

GrantFailures == {"grant_not_found", "grant_expired", "grant_capability_mismatch",
                  "grant_scope_mismatch", "grant_param_drift", "grant_session_invalid",
                  "grant_consumed"}

HandlerResults == {"ended", "internal_error", "approval_required", "service_unavailable"}

InvocationState ==
  [pc : {"validate", "reserve", "handler", "materialize", "audit", "link", "done"},
   call : Calls, grant : Issues \cup {None, Unknown}, now : Int,
   reserved : BOOLEAN, req : Invocations \cup {None},
   result : {"running"} \cup GrantFailures \cup HandlerResults]

IssueFailures == {"approval_request_not_found", "approval_request_already_decided",
                  "approval_request_expired", "grant_type_not_allowed_by_policy"}

IssueState ==
  [pc : {"preflight", "build", "store", "audit", "done"},
   req : Invocations \cup {Unknown}, decision : Decisions, pending : BOOLEAN,
   now : Int, expires : Int,
   result : {"running", "issued", "storage_error"} \cup IssueFailures]

Entry == [kind : {"invocation", "approval_request_created", "approval_grant_issued"},
          inv : Invocations \cup {None}, req : Invocations \cup {None},
          grant : Issues \cup {None, Unknown}]

Nothing == [x \in {} |-> x]

\* The partial function f with y at x, like f[x] = y on a Python dict.
Put(f, x, y) == [z \in DOMAIN f \cup {x} |-> IF z = x THEN y ELSE f[z]]

Init ==
  /\ clock = 0
  /\ requests = Nothing
  /\ grants = Nothing
  /\ inv = Nothing
  /\ iss = Nothing
  /\ audit = {}

-----------------------------------------------------------------------------
(* ANIPService.invoke: the grant                                           *)

\* The caller sends an invocation, with or without the id of a grant.  What
\* precedes the grant in the pipeline (delegation, budget, binding, lock)
\* leaves the approval tables alone.
Invoke(i) ==
  /\ i \notin DOMAIN inv
  /\ \E c \in Calls, g \in DOMAIN grants \cup {None, Unknown} :
       inv' = Put(inv, i, [pc |-> IF g = None THEN "handler" ELSE "validate",
                           call |-> c, grant |-> g, now |-> clock, reserved |-> FALSE,
                           req |-> None, result |-> "running"])
  /\ UNCHANGED <<clock, requests, grants, iss, audit>>

\* Mutant: the parameters are not compared.
GrantRefusalAnyParams(c, g, now) ==
  IF g \notin DOMAIN grants THEN "grant_not_found"
  ELSE IF grants[g].expires <= now THEN "grant_expired"
  ELSE IF grants[g].cap # c.cap THEN "grant_capability_mismatch"
  ELSE IF ~ (grants[g].scope \subseteq c.scope) THEN "grant_scope_mismatch"
  ELSE IF grants[g].type = "session_bound" /\ grants[g].session # c.session
    THEN "grant_session_invalid"
  ELSE "ok"

\* Mutant: an allowance for clock skew refuses grants that are still alive.
GrantRefusalSkewed(c, g, now) ==
  IF g \in DOMAIN grants /\ grants[g].expires - 1 <= now THEN "grant_expired" ELSE "ok"

\* The rejection of validate_continuation_grant, or "ok".
GrantRefusal(c, g, now) ==
  IF g \notin DOMAIN grants THEN "grant_not_found"
  ELSE IF grants[g].expires <= now THEN "grant_expired"
  ELSE IF grants[g].cap # c.cap THEN "grant_capability_mismatch"
  ELSE IF ~ (grants[g].scope \subseteq c.scope) THEN "grant_scope_mismatch"
  ELSE IF grants[g].params # c.params THEN "grant_param_drift"
  ELSE IF grants[g].type = "session_bound" /\ grants[g].session # c.session
    THEN "grant_session_invalid"
  ELSE "ok"

\* What invoke makes of an error that the storage raises before the handler
\* runs: the branch for an unexpected exception answers internal_error.
StorageErrors == IF StorageMayFail THEN {"internal_error"} ELSE {}

\* The read-side check.  now was sampled before the read was awaited; on
\* success a fresh sample is taken for the reservation.
ValidateGrant(i) ==
  /\ i \in DOMAIN inv
  /\ inv[i].pc = "validate"
  /\ \E r \in {GrantRefusal(inv[i].call, inv[i].grant, inv[i].now)} \cup StorageErrors :
       inv' = IF r = "ok"
              THEN [inv EXCEPT ![i].pc = "reserve", ![i].now = clock]
              ELSE [inv EXCEPT ![i].pc = "audit", ![i].result = r]
  /\ UNCHANGED <<clock, requests, grants, iss, audit>>

\* Mutants: the comparison with max_uses is off by one, either way.
ReserveRefusalOneTooMany(g, now) ==
  IF g \notin DOMAIN grants THEN "grant_not_found"
  ELSE IF grants[g].expires <= now THEN "grant_expired"
  ELSE IF grants[g].uses > grants[g].maxUses THEN "grant_consumed"
  ELSE "ok"

ReserveRefusalOneTooFew(g, now) ==
  IF g \in DOMAIN grants /\ grants[g].uses + 1 >= grants[g].maxUses
  THEN "grant_consumed" ELSE "ok"

\* Mutant: the reason is one that the failure types do not know.
ReserveRefusalUnnamed(g, now) ==
  IF g \in DOMAIN grants /\ grants[g].expires <= now THEN "grant_lapsed" ELSE "ok"

\* The refusal of try_reserve_grant, or "ok".
ReserveRefusal(g, now) ==
  IF g \notin DOMAIN grants THEN "grant_not_found"
  ELSE IF grants[g].expires <= now THEN "grant_expired"
  ELSE IF grants[g].uses >= grants[g].maxUses THEN "grant_consumed"
  ELSE "ok"

\* Mutant: the reservation is not written back.
ReserveGrantUncounted(i) ==
  /\ i \in DOMAIN inv
  /\ inv[i].pc = "reserve"
  /\ \E r \in {ReserveRefusal(inv[i].grant, inv[i].now)} \cup StorageErrors :
       inv' = IF r = "ok"
              THEN [inv EXCEPT ![i].pc = "handler", ![i].reserved = TRUE]
              ELSE [inv EXCEPT ![i].pc = "audit", ![i].result = r]
  /\ UNCHANGED <<clock, requests, grants, iss, audit>>

\* One use is taken by a single conditional update, with the time sampled
\* before the update was awaited.  An update that raises is rolled back.
ReserveGrant(i) ==
  /\ i \in DOMAIN inv
  /\ inv[i].pc = "reserve"
  /\ LET g == inv[i].grant
     IN \E r \in {ReserveRefusal(g, inv[i].now)} \cup StorageErrors :
          IF r = "ok"
          THEN /\ grants' = [grants EXCEPT ![g].uses = @ + 1]
               /\ inv' = [inv EXCEPT ![i].pc = "handler", ![i].reserved = TRUE]
          ELSE /\ inv' = [inv EXCEPT ![i].pc = "audit", ![i].result = r]
               /\ UNCHANGED grants
  /\ UNCHANGED <<clock, requests, iss, audit>>

-----------------------------------------------------------------------------
(* ANIPService.invoke: the handler and the approval request                *)

\* Mutant: a failed handler gives its use back.
HandlerEndsRefunding(i) ==
  /\ i \in DOMAIN inv
  /\ inv[i].pc = "handler"
  /\ inv' = [inv EXCEPT ![i].pc = "audit", ![i].result = "internal_error"]
  /\ grants' = IF inv[i].reserved THEN [grants EXCEPT ![inv[i].grant].uses = @ - 1]
               ELSE grants
  /\ UNCHANGED <<clock, requests, iss, audit>>

\* The handler ends without asking for approval: it returns or raises an
\* ANIPError, or it raises anything else.  The reservation stays either way.
HandlerEnds(i) ==
  /\ i \in DOMAIN inv
  /\ inv[i].pc = "handler"
  /\ \E r \in {"ended", "internal_error"} :
       inv' = [inv EXCEPT ![i].pc = "audit", ![i].result = r]
  /\ UNCHANGED <<clock, requests, grants, iss, audit>>

HandlerAsksApproval(i) ==
  /\ i \in DOMAIN inv
  /\ inv[i].pc = "handler"
  /\ inv' = [inv EXCEPT ![i].pc = "materialize"]
  /\ UNCHANGED <<clock, requests, grants, iss, audit>>

\* The error already carries the metadata of a stored request: the handler
\* forwards the failure of another invocation.
HandlerForwardsApproval(i) ==
  /\ i \in DOMAIN inv
  /\ inv[i].pc = "handler"
  /\ \E r \in DOMAIN requests :
       inv' = [inv EXCEPT ![i].pc = "audit", ![i].req = r,
                          ![i].result = "approval_required"]
  /\ UNCHANGED <<clock, requests, grants, iss, audit>>

NewRequest(c, now) ==
  [status |-> "pending", cap |-> c.cap, params |-> c.params,
   expires |-> now + PolicyOf[c.cap].lifetime, decidedAt |-> None, approver |-> None]

\* Mutant: a failure of the storage is ignored.
MaterializeUnchecked(i) ==
  /\ i \in DOMAIN inv
  /\ inv[i].pc = "materialize"
  /\ \/ requests' = Put(requests, i, NewRequest(inv[i].call, clock))
     \/ StorageMayFail /\ UNCHANGED requests
  /\ inv' = [inv EXCEPT ![i].pc = "audit", ![i].req = i, ![i].result = "approval_required"]
  /\ UNCHANGED <<clock, grants, iss, audit>>

\* The request is persisted before approval_required is answered; when the
\* storage (or the lookup of the policy) fails the failure is downgraded.
Materialize(i) ==
  /\ i \in DOMAIN inv
  /\ inv[i].pc = "materialize"
  /\ \/ /\ requests' = Put(requests, i, NewRequest(inv[i].call, clock))
        /\ inv' = [inv EXCEPT ![i].pc = "audit", ![i].req = i,
                              ![i].result = "approval_required"]
     \/ /\ StorageMayFail
        /\ inv' = [inv EXCEPT ![i].pc = "audit", ![i].result = "service_unavailable"]
        /\ UNCHANGED requests
  /\ UNCHANGED <<clock, grants, iss, audit>>

\* log_entry appends; its callers swallow an error and go on.
LogEntry(entry) ==
  \/ audit' = audit \cup {entry}
  \/ StorageMayFail /\ UNCHANGED audit

\* The audit entry of the invocation.  The branch for an unexpected exception
\* passes no approval_grant_id.
InvocationEntry(i) ==
  [kind |-> "invocation", inv |-> i, req |-> inv[i].req,
   grant |-> IF inv[i].result = "internal_error" THEN None ELSE inv[i].grant]

\* _safe_log_audit swallows an error of the audit log.
AuditInvocation(i) ==
  /\ i \in DOMAIN inv
  /\ inv[i].pc = "audit"
  /\ LogEntry(InvocationEntry(i))
  /\ inv' = [inv EXCEPT ![i].pc = IF inv[i].req = None THEN "done" ELSE "link"]
  /\ UNCHANGED <<clock, requests, grants, iss>>

RequestCreatedEntry(i) ==
  [kind |-> "approval_request_created", inv |-> i, req |-> inv[i].req, grant |-> None]

AuditRequestCreated(i) ==
  /\ i \in DOMAIN inv
  /\ inv[i].pc = "link"
  /\ LogEntry(RequestCreatedEntry(i))
  /\ inv' = [inv EXCEPT ![i].pc = "done"]
  /\ UNCHANGED <<clock, requests, grants, iss>>

-----------------------------------------------------------------------------
(* ANIPService.issue_approval_grant                                        *)

\* The advisory read of the request.
LoadRequest(a) ==
  /\ a \notin DOMAIN iss
  /\ \E r \in DOMAIN requests \cup {Unknown}, d \in Decisions :
       LET found == r \in DOMAIN requests
       IN iss' = Put(iss, a,
            [pc |-> IF found THEN "preflight" ELSE "done", req |-> r, decision |-> d,
             pending |-> IF found THEN requests[r].status = "pending" ELSE FALSE,
             now |-> clock, expires |-> clock,
             result |-> IF found THEN "running" ELSE "approval_request_not_found"])
  /\ UNCHANGED <<clock, requests, grants, inv, audit>>

EffectiveExpiresIn(d, gp) == IF d.expiresIn = None THEN gp.lifetime ELSE d.expiresIn

EffectiveMaxUses(d, gp) ==
  IF d.type = "one_time" THEN 1 ELSE IF d.maxUses = None THEN gp.maxUses ELSE d.maxUses

\* Mutant: max_uses is not compared with the policy.
PolicyAllowsAnyUses(d, gp) ==
  /\ d.type \in gp.types
  /\ EffectiveExpiresIn(d, gp) <= gp.lifetime
  /\ d.type = "one_time" => d.session = None
  /\ d.type = "session_bound" => d.session # None

\* What the approver asks for is within the grant policy of the request.
PolicyAllows(d, gp) ==
  /\ d.type \in gp.types
  /\ EffectiveExpiresIn(d, gp) <= gp.lifetime
  /\ d.type = "one_time" => d.session = None
  /\ d.type = "session_bound" => d.session # None
  /\ EffectiveMaxUses(d, gp) <= gp.maxUses

\* The status read before, and the one sample of the clock that also serves
\* as issued_at, decided_at and as the time of the storage primitive.
Preflight(a) ==
  /\ a \in DOMAIN iss
  /\ iss[a].pc = "preflight"
  /\ LET r == requests[iss[a].req]
         refuse(why) == [iss EXCEPT ![a].pc = "done", ![a].result = why]
     IN iss' = IF ~ iss[a].pending THEN refuse("approval_request_already_decided")
               ELSE IF r.expires <= clock THEN refuse("approval_request_expired")
               ELSE IF ~ PolicyAllows(iss[a].decision, PolicyOf[r.cap])
                 THEN refuse("grant_type_not_allowed_by_policy")
               ELSE [iss EXCEPT ![a].pc = "build", ![a].now = clock]
  /\ UNCHANGED <<clock, requests, grants, inv, audit>>

\* expires_at of the grant comes from a second sample of the clock.
BuildGrant(a) ==
  /\ a \in DOMAIN iss
  /\ iss[a].pc = "build"
  /\ LET gp == PolicyOf[requests[iss[a].req].cap]
     IN iss' = [iss EXCEPT ![a].pc = "store",
                           ![a].expires = clock + EffectiveExpiresIn(iss[a].decision, gp)]
  /\ UNCHANGED <<clock, requests, grants, inv, audit>>

\* The max_uses of the grant that issue a builds.
MaxUsesOf(a) == EffectiveMaxUses(iss[a].decision, PolicyOf[requests[iss[a].req].cap])

\* Capability, scope and parameters are the request's, never the approver's.
NewGrant(a) ==
  LET r == requests[iss[a].req]
      d == iss[a].decision
  IN [request |-> iss[a].req, type |-> d.type, cap |-> r.cap, scope |-> ScopeOf[r.cap],
      params |-> r.params, issuedAt |-> iss[a].now, expires |-> iss[a].expires,
      maxUses |-> MaxUsesOf(a), uses |-> 0, session |-> d.session]

\* Mutant: the primitive trusts the status that Preflight saw.
ApproveRefusalTrusting(r, now, uses) ==
  IF r \notin DOMAIN requests THEN "approval_request_not_found"
  ELSE IF requests[r].expires <= now THEN "approval_request_expired"
  ELSE "ok"

\* The row of a grant breaks the UNIQUE (approval_request_id) of the table,
\* which memory looks up as well, or its CHECK (max_uses >= 1), which only the
\* SQL schemas have and nothing before the insert asks for.
RowRefused(r, uses) ==
  \/ \E g \in DOMAIN grants : grants[g].request = r
  \/ Backend # "memory" /\ uses < 1

\* The refusal of approve_request_and_store_grant, or "ok".  The SQL backends
\* look at the expiry before the status; a request that passed Preflight is
\* not expired at the same now, so the two orders agree.  A refused row is
\* already_decided to SQLite, whatever the constraint; PostgreSQL raises.
ApproveRefusal(r, now, uses) ==
  IF r \notin DOMAIN requests THEN "approval_request_not_found"
  ELSE IF requests[r].status # "pending" THEN "approval_request_already_decided"
  ELSE IF requests[r].expires <= now THEN "approval_request_expired"
  ELSE IF ~ RowRefused(r, uses) THEN "ok"
  ELSE IF Backend = "postgres" THEN "storage_error"
  ELSE "approval_request_already_decided"

\* The atomic primitive, with the time of Preflight.  When it refuses or
\* raises, its transaction is rolled back and the request stays as it was.
ApproveAndStore(a) ==
  /\ a \in DOMAIN iss
  /\ iss[a].pc = "store"
  /\ LET r == iss[a].req
     IN \E why \in {ApproveRefusal(r, iss[a].now, MaxUsesOf(a))}
                     \cup (IF StorageMayFail THEN {"storage_error"} ELSE {}) :
          IF why = "ok"
          THEN /\ requests' = [requests EXCEPT ![r].status = "approved",
                                               ![r].approver = a, ![r].decidedAt = iss[a].now]
               /\ grants' = Put(grants, a, NewGrant(a))
               /\ iss' = [iss EXCEPT ![a].pc = "audit", ![a].result = "issued"]
          ELSE /\ iss' = [iss EXCEPT ![a].pc = "done", ![a].result = why]
               /\ UNCHANGED <<requests, grants>>
  /\ UNCHANGED <<clock, inv, audit>>

GrantIssuedEntry(a) ==
  [kind |-> "approval_grant_issued", inv |-> None, req |-> iss[a].req, grant |-> a]

\* An error of the audit log does not block the issuance.
AuditGrantIssued(a) ==
  /\ a \in DOMAIN iss
  /\ iss[a].pc = "audit"
  /\ LogEntry(GrantIssuedEntry(a))
  /\ iss' = [iss EXCEPT ![a].pc = "done"]
  /\ UNCHANGED <<clock, requests, grants, inv>>

-----------------------------------------------------------------------------
(* The environment                                                         *)

Tick ==
  /\ clock < MaxClock
  /\ clock' = clock + 1
  /\ UNCHANGED <<requests, grants, inv, iss, audit>>

InvocationStep(i) ==
  \/ ValidateGrant(i) \/ ReserveGrant(i)
  \/ HandlerEnds(i) \/ HandlerAsksApproval(i) \/ HandlerForwardsApproval(i)
  \/ Materialize(i) \/ AuditInvocation(i) \/ AuditRequestCreated(i)

IssueStep(a) ==
  Preflight(a) \/ BuildGrant(a) \/ ApproveAndStore(a) \/ AuditGrantIssued(a)

Next ==
  \/ Tick
  \/ \E i \in Invocations : Invoke(i) \/ InvocationStep(i)
  \/ \E a \in Issues : LoadRequest(a) \/ IssueStep(a)

Spec == Init /\ [][Next]_vars

-----------------------------------------------------------------------------
(* Properties                                                              *)

Spenders(g) == {i \in DOMAIN inv : inv[i].reserved /\ inv[i].grant = g}

\* The type invariant: the two tables, the local state of the calls and the
\* audit entries have the shape of the code's rows and dicts.
TypeOK ==
  /\ clock \in Nat
  /\ DOMAIN requests \subseteq Invocations /\ requests \in [DOMAIN requests -> Request]
  /\ DOMAIN grants \subseteq Issues /\ grants \in [DOMAIN grants -> Grant]
  /\ DOMAIN inv \subseteq Invocations /\ inv \in [DOMAIN inv -> InvocationState]
  /\ DOMAIN iss \subseteq Issues /\ iss \in [DOMAIN iss -> IssueState]
  /\ audit \subseteq Entry

\* Racing approvers never leave two grants for one request, and a request is
\* approved exactly when its grant is stored, by the approver and at the time
\* the request records, before the request expired by that clock reading
\* (approve_request_and_store_grant).
ApprovedIffGranted ==
  /\ \A a, b \in DOMAIN grants : grants[a].request = grants[b].request => a = b
  /\ \A r \in DOMAIN requests :
       requests[r].status = "approved" <=> \E a \in DOMAIN grants : grants[a].request = r
  /\ \A a \in DOMAIN grants :
       LET r == grants[a].request
       IN /\ r \in DOMAIN requests
          /\ requests[r].approver = a
          /\ requests[r].decidedAt = grants[a].issuedAt
          /\ requests[r].decidedAt < requests[r].expires

\* However continuations race, die or fail, the uses counted on a grant are
\* the invocations that reserved it, and never more than the grant and the
\* policy of the request allow; a database holds no grant that cannot be used
\* (try_reserve_grant, issue_approval_grant, CHECK (max_uses >= 1)).
UsesBounded ==
  \A g \in DOMAIN grants :
    /\ grants[g].uses = Cardinality(Spenders(g))
    /\ grants[g].uses = 0 \/ grants[g].uses <= grants[g].maxUses
    /\ grants[g].maxUses <= PolicyOf[grants[g].cap].maxUses
    /\ grants[g].type = "one_time" => grants[g].maxUses = 1
    /\ Backend # "memory" => grants[g].maxUses >= 1

\* The handler runs under a grant only after reserving it, and from then on the
\* capability, the parameters and the authority are those the requester asked
\* approval for, in the session the approver named, whichever of the many
\* reads in between was stale (validate_continuation_grant, try_reserve_grant).
RunsOnlyAsApproved ==
  \A i \in DOMAIN inv :
    LET entered == \/ inv[i].pc \in {"handler", "materialize", "link"}
                   \/ inv[i].result \in HandlerResults \ {"internal_error"}
                   \/ inv[i].reserved
        g == grants[inv[i].grant]
        r == requests[g.request]
        c == inv[i].call
    IN inv[i].grant # None /\ entered =>
         /\ inv[i].reserved
         /\ inv[i].grant \in DOMAIN grants
         /\ c.cap = r.cap /\ c.params = r.params
         /\ ScopeOf[r.cap] \subseteq c.scope
         /\ g.type = "session_bound" => c.session = g.session
         /\ inv[i].now < g.expires

\* A refusal tells the truth about the tables and stays true: consumed means
\* every use is gone, expired that the time is past, already decided that
\* another approver's grant stands.  The one other thing already_decided can
\* mean is SQLite's answer to a grant without a use, whose row the schema
\* refuses (invoke, issue_approval_grant, _sync_approve_and_store).
RefusalsTruthful ==
  /\ \A i \in DOMAIN inv :
       LET g == inv[i].grant
       IN /\ inv[i].result = "grant_consumed" =>
               g \in DOMAIN grants /\ grants[g].uses >= grants[g].maxUses
          /\ inv[i].result = "grant_expired" =>
               g \in DOMAIN grants /\ grants[g].expires <= clock
  /\ \A a \in DOMAIN iss :
       iss[a].result = "approval_request_already_decided" =>
         \/ \E b \in DOMAIN grants : b # a /\ grants[b].request = iss[a].req
         \/ Backend = "sqlite" /\ MaxUsesOf(a) < 1

\* approval_required is never answered for a request that is not stored, and
\* the audit log speaks only of requests and grants that the tables hold, even
\* when storage or audit fails halfway (invoke, materialize_approval_request).
NothingUnpersisted ==
  /\ \A i \in DOMAIN inv :
       inv[i].result = "approval_required" => inv[i].req \in DOMAIN requests
  /\ \A e \in audit :
       /\ e.req # None => e.req \in DOMAIN requests
       /\ e.kind = "approval_grant_issued" =>
            e.grant \in DOMAIN grants /\ grants[e.grant].request = e.req
       /\ e.kind = "approval_request_created" => inv[e.inv].req = e.req

\* No step takes back a use, changes what a stored grant says or what a stored
\* request asks for, or reopens or rewrites a decided request: a failed attempt
\* keeps its reservation.
SpentStaysSpent ==
  [][/\ \A g \in DOMAIN grants :
          /\ g \in DOMAIN grants'
          /\ grants'[g].uses >= grants[g].uses
          /\ grants'[g] = [grants[g] EXCEPT !.uses = grants'[g].uses]
     /\ \A r \in DOMAIN requests :
          /\ r \in DOMAIN requests'
          /\ requests'[r].cap = requests[r].cap /\ requests'[r].params = requests[r].params
          /\ requests[r].status = "approved" => requests'[r] = requests[r]]_vars

\* The numbers of uses a grant can be minted for.
Limits == ({1} \cup {PolicyOf[c].maxUses : c \in Capabilities}
               \cup {d.maxUses : d \in Decisions}) \ {None}

Ledger == INSTANCE GrantLedger WITH
            Requests <- Invocations, Grants <- Issues,
            granted <- {<<grants[g].request, g, grants[g].maxUses>> : g \in DOMAIN grants},
            spent <- {<<i, inv[i].grant>> : i \in {j \in DOMAIN inv : inv[j].reserved}}

\* The two tables and the calls racing on them implement the ledger: one
\* decision per request, no more spenders than the limit, nothing undone.
ImplementsLedger == Ledger!LedgerSpec

\* SPEC.md 4.8: the audit entry of a continuation that reserved a grant names
\* the grant, whether or not the handler succeeded.
SpentGrantLinked ==
  \A e \in audit :
    e.kind = "invocation" /\ inv[e.inv].reserved => e.grant = inv[e.inv].grant

=============================================================================
