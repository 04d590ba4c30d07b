---------------------------- MODULE InvocationGate ----------------------------
(***************************************************************************)
(* What ANIPService.invoke checks before a handler runs: the bearer token, *)
(* the delegation (validate_delegation, whose chain is read from the       *)
(* storage one token at a time), budget, binding and control requirements. *)
(* Approval grants are in ApprovalGrants and the lock in ExclusiveLease;   *)
(* here the lock is granted or refused by anyone's choice.                 *)
(***************************************************************************)
EXTENDS Delegation, FiniteSets

CONSTANTS
  Requests,  \* calls of invoke
  Calls,     \* what a caller may ask for
  Declared   \* the declarations of the capabilities

Certainty == {"fixed", "estimated", "dynamic"}

\* cost.currency is None without a cost, and amount is the upper bound of a
\* dynamic one.  maxAge bounds the age of the binding the capability needs.
Declaration ==
  [scope : SUBSET Base, currency : {b.currency : b \in Budgets},
   certainty : Certainty, amount : Nat \cup {None}, binds : BOOLEAN,
   maxAge : Nat \cup {None}, ceiling : BOOLEAN, nonDelegable : BOOLEAN,
   locks : BOOLEAN]

\* A call names a capability and may narrow the budget; price and issued are
\* what a binding says of itself.
Call ==
  [capability : Capabilities, task : BOOLEAN, hint : Budgets, binding : BOOLEAN,
   price : Nat \cup {None}, issued : Nat \cup {None}]

ASSUME GateAssumption ==
  /\ DOMAIN Declared \subseteq Capabilities
  /\ \A c \in DOMAIN Declared : Declared[c] \in Declaration
  /\ Calls \subseteq Call

VARIABLE req  \* the calls of invoke made so far

gateVars == <<now, backend, tokens, issuing, bearers, req>>

RequestState ==
  [pc : {"load", "walk", "admitted", "running", "audit", "done"},
   id : Ids, call : Calls, chain : Seq(Ids)]

\* Request r goes on at pc, without the chain.
Goes(r, pc) ==
  req' = [req EXCEPT ![r] = [pc |-> pc, id |-> req[r].id, call |-> req[r].call, chain |-> <<>>]]

At(r, pc) == r \in DOMAIN req /\ req[r].pc = pc

GateInit == DelegationInit /\ req = [r \in {} |-> None]

-----------------------------------------------------------------------------
(* The checks                                                              *)

\* validate_delegation 2: every scope the capability asks for is covered.
ScopeCovers(scope, required) ==
  \A path \in required : \E s \in scope : Covers(s.base, path)

\* validate_delegation 1 to 3.
TokenFits(t, c) ==
  /\ now <= t.expires
  /\ ScopeCovers(t.scope, Declared[c].scope)
  /\ t.capability = c

\* Mutant: only the presented token must not have expired.
ChainHoldsStale(chain) ==
  /\ tokens[chain[Len(chain)]].parent = None
  /\ Len(chain) - 1 <= tokens[chain[1]].depth

\* validate_delegation 4 to 6, with the chain from the token up.
ChainHolds(chain) ==
  /\ tokens[chain[Len(chain)]].parent = None
  /\ Len(chain) - 1 <= tokens[chain[1]].depth
  /\ \A k \in 2..Len(chain) : now <= tokens[chain[k]].expires

\* Mutant: the caller's hint replaces the budget of the token.
EffectiveBudgetHinted(budget, hint) == IF hint = NoBudget THEN budget ELSE hint

\* The ceiling is the token's, and a hint can only narrow it.
EffectiveBudget(budget, hint) ==
  IF budget = NoBudget THEN hint
  ELSE IF hint = NoBudget \/ budget.max <= hint.max THEN budget ELSE hint

\* The price that is held against the budget, None if there is none.
CheckedPrice(d, call) ==
  IF d.certainty = "estimated" THEN call.price ELSE d.amount

\* A cost in another currency, an estimate that nothing binds to a price and a
\* price above the ceiling are refused; a dynamic cost may have no bound.
BudgetAllows(budget, call) ==
  LET d == Declared[call.capability]
      effective == EffectiveBudget(budget, call.hint)
      price == CheckedPrice(d, call)
  IN /\ budget # NoBudget /\ call.hint # NoBudget => budget.currency = call.hint.currency
     /\ effective # NoBudget /\ d.currency # None =>
          /\ d.currency = effective.currency
          /\ d.certainty = "estimated" => d.binds /\ call.binding /\ price # None
          /\ price # None => price <= effective.max

\* The binding is there and, if it tells its age, fresh enough.
BindingHolds(call) ==
  LET d == Declared[call.capability]
  IN d.binds => /\ call.binding
                /\ call.issued # None /\ d.maxAge # None => now - call.issued <= d.maxAge

\* cost_ceiling and non_delegable; stronger_delegation_required repeats the
\* comparison of the purpose in TokenFits.
ControlsHold(t, call) ==
  LET d == Declared[call.capability]
  IN /\ d.ceiling => EffectiveBudget(t.budget, call.hint) # NoBudget
     /\ d.nonDelegable => t.parent = None

GateOpens(t, call) ==
  BudgetAllows(t.budget, call) /\ BindingHolds(call) /\ ControlsHold(t, call)

-----------------------------------------------------------------------------
(* ANIPService.invoke                                                      *)

\* The JWT is not over and says what is stored; the task is the token's and
\* the capability is declared.
Arrive(r, id, call) ==
  /\ r \in Requests \ DOMAIN req
  /\ id \in DOMAIN bearers
  /\ LET accepted == /\ now < bearers[id].exp
                     /\ bearers[id].claims = Claims(tokens[id])
                     /\ call.task /\ call.capability \in DOMAIN Declared
     IN req' = With(req, r, [pc |-> IF accepted THEN "load" ELSE "done", id |-> id,
                             call |-> call, chain |-> <<>>])
  /\ UNCHANGED delegationVars

\* The stored token is read; a refusal is audited.
Load(r) ==
  /\ At(r, "load")
  /\ LET fits == TokenFits(tokens[req[r].id], req[r].call.capability)
     IN req' = [req EXCEPT ![r] = [pc |-> IF fits THEN "walk" ELSE "audit",
                                   id |-> req[r].id, call |-> req[r].call,
                                   chain |-> <<req[r].id>>]]
  /\ UNCHANGED delegationVars

Top(r) == tokens[req[r].chain[Len(req[r].chain)]]

\* Mutant: the parent is read and not added.
ClimbInPlace(r) ==
  /\ At(r, "walk") /\ Top(r).parent \in DOMAIN tokens
  /\ UNCHANGED gateVars

\* get_chain reads the parent of the last token it read.
Climb(r) ==
  /\ At(r, "walk") /\ Top(r).parent \in DOMAIN tokens
  /\ req' = [req EXCEPT ![r] = [pc |-> "walk", id |-> req[r].id, call |-> req[r].call,
                                chain |-> Append(req[r].chain, Top(r).parent)]]
  /\ UNCHANGED delegationVars

\* The chain is read as far as it goes, and nothing is awaited any more: a
\* chain that does not hold is audited, a closed gate is answered at once.
Judge(r) ==
  /\ At(r, "walk") /\ Top(r).parent \notin DOMAIN tokens
  /\ Goes(r, IF ~ ChainHolds(req[r].chain) THEN "audit"
             ELSE IF GateOpens(tokens[req[r].id], req[r].call) THEN "admitted"
             ELSE "done")
  /\ UNCHANGED delegationVars

\* The lock, if there is one to take, is taken and the handler called.
Enter(r) ==
  /\ At(r, "admitted")
  /\ Goes(r, "running")
  /\ UNCHANGED delegationVars

\* Another invocation of the root principal holds the lock.
Busy(r) ==
  /\ At(r, "admitted")
  /\ Declared[req[r].call.capability].locks /\ tokens[req[r].id].exclusive
  /\ Goes(r, "audit")
  /\ UNCHANGED delegationVars

\* The handler returns or raises; either is audited.
Return(r) ==
  /\ At(r, "running")
  /\ Goes(r, "audit")
  /\ UNCHANGED delegationVars

\* _safe_log_audit, whatever becomes of the entry, and the answer.
Reply(r) ==
  /\ At(r, "audit")
  /\ Goes(r, "done")
  /\ UNCHANGED delegationVars

\* The steps of a request that wait for the storage only.
Step(r) == Load(r) \/ Climb(r) \/ Judge(r) \/ Enter(r) \/ Busy(r) \/ Reply(r)

GateNext ==
  \/ DelegationNext /\ UNCHANGED req
  \/ \E r \in Requests :
       \/ \E id \in Ids, call \in Calls : Arrive(r, id, call)
       \/ Load(r) \/ Climb(r) \/ Judge(r) \/ Enter(r) \/ Busy(r)
       \/ Return(r) \/ Reply(r)

GateSpec == GateInit /\ [][GateNext]_gateVars

\* The storage answers.  Handlers may take for ever, callers may stay away.
GateFairness == \A r \in Requests : WF_gateVars(Step(r))

-----------------------------------------------------------------------------
(* Properties                                                              *)

\* Types of the tables of tokens and of calls.
GateTypeOK ==
  /\ now \in Nat /\ backend \in Backends
  /\ DOMAIN tokens \subseteq Ids /\ tokens \in [DOMAIN tokens -> Token]
  /\ DOMAIN issuing \subseteq DOMAIN tokens
  /\ issuing \in [DOMAIN issuing -> [ttl : Nat, class : BOOLEAN]]
  /\ DOMAIN bearers \subseteq DOMAIN tokens
  /\ \A id \in DOMAIN bearers : bearers[id].exp \in Nat
  /\ DOMAIN req \subseteq Requests /\ req \in [DOMAIN req -> RequestState]

\* What a token can be used for: paths and prices it covers.
Right == [path : Base, currency : {b.currency : b \in Budgets},
          price : {b.max : b \in Budgets}]

Rights(t) ==
  {x \in Right : /\ \E s \in t.scope : Covers(s.base, x.path)
                 /\ t.budget # NoBudget => /\ x.currency = t.budget.currency
                                           /\ x.price <= t.budget.max}

Held == [id \in DOMAIN tokens |-> [rights |-> Rights(tokens[id]), from |-> tokens[id].parent]]

Authority == INSTANCE Attenuation WITH Holders <- Ids, Nobody <- None, held <- Held

\* Issuing and delegating tokens only ever attenuates authority: what a token
\* covers (paths, currencies, prices) is fixed when it is registered and is
\* part of what its parent covers, however the requests interleave, and the
\* second registration of delegation.py:591 changes nothing of it.
AuthorityOnlyShrinks == Authority!Spec

\* The tokens above id: those in every set that holds the parent of id and of
\* each of its members.
Above(id) ==
  {a \in DOMAIN tokens : \A S \in SUBSET DOMAIN tokens :
     (\A x \in S \cup {id} : tokens[x].parent # None => tokens[x].parent \in S) => a \in S}

\* A JWT that the service signed stays good until it is over: whatever is
\* issued, delegated or registered again later, the stored token still says
\* what the JWT says, so the comparison in resolve_bearer_token never turns
\* down a genuine bearer.
GenuineBearersResolve ==
  \A id \in DOMAIN bearers : bearers[id].claims = Claims(tokens[id])

\* Along every chain the terms that scope and budget do not cover are those of
\* the root: whose lock is taken, whether there is one, how deep the chain may
\* go and which session the token is bound to.
TermsAreTheRoots ==
  \A id \in DOMAIN tokens : \A a \in Above(id) :
    /\ tokens[id].root = tokens[a].root
    /\ tokens[id].exclusive = tokens[a].exclusive
    /\ tokens[id].depth = tokens[a].depth
    /\ tokens[id].session = tokens[a].session

\* The price a running call was let in with respects the budget b.
Affordable(call, b) ==
  LET d == Declared[call.capability]
      price == CheckedPrice(d, call)
  IN b # NoBudget /\ d.currency # None =>
       /\ d.currency = b.currency
       /\ d.certainty = "estimated" => price # None
       /\ price # None => price <= b.max

\* A handler only runs where every token above the presented one covers it:
\* its scopes, its price against each of their budgets, and no more delegations
\* than the root allowed - though invoke only looks at the presented token.
RunsWithinAllAbove ==
  \A r \in DOMAIN req : req[r].pc \in {"admitted", "running"} =>
    LET line == {req[r].id} \cup Above(req[r].id)
    IN \A a \in line :
         /\ ScopeCovers(tokens[a].scope, Declared[req[r].call.capability].scope)
         /\ Affordable(req[r].call, tokens[a].budget)
         /\ tokens[a].parent = None => Cardinality(Above(req[r].id)) <= tokens[a].depth

\* A request is only admitted while no token above the presented one has
\* expired, though a child may be issued to outlive its parent, and although
\* time passes while the chain is read.
AdmittedUnderLiveChain ==
  [][\A r \in DOMAIN req :
       req[r].pc # "admitted" /\ req'[r].pc = "admitted" =>
         \A a \in Above(req[r].id) : now <= tokens[a].expires]_gateVars

\* Every request that arrives is decided: reading the chain comes to an end.
EveryRequestDecided ==
  \A r \in Requests : At(r, "load") ~> At(r, "running") \/ At(r, "done")

=============================================================================
