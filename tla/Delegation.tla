------------------------------ MODULE Delegation ------------------------------
(***************************************************************************)
(* Delegation tokens: ANIPService.issue_token and resolve_bearer_token on  *)
(* top of anip_server/delegation.py and the table delegation_tokens.       *)
(*                                                                         *)
(* A principal gets a root token; the subject of a token may pass a part   *)
(* of it on as a child token.  A token is registered in the storage, then, *)
(* if the request names a caller class, registered a second time with it,  *)
(* and only then answered with a signed JWT.  No token is ever deleted.    *)
(***************************************************************************)
EXTENDS Integers, Sequences

CONSTANTS
  Ids,            \* the token ids that uuid4 may yield
  Principals,
  Capabilities,
  Scopes,         \* the scope strings in use
  Budgets,        \* the budgets in use
  RootRequests, ChildRequests,  \* the bodies of requests to issue_token
  Backends,       \* the kinds of storage the service may be configured with
  DefaultDepth,   \* max_delegation_depth of a root token
  MaxTime,        \* bound on the clock
  None

-----------------------------------------------------------------------------
(* Scopes and budgets                                                      *)

\* A scope string is a dotted path and an optional ":max_$n".
ScopeString(paths) == [base : paths, max : Nat \cup {None}]

Base == {s.base : s \in Scopes}

\* below = above, or below.startswith(above + ".").
Covers(above, below) ==
  /\ Len(above) <= Len(below)
  /\ \A k \in 1..Len(above) : above[k] = below[k]

NoBudget == [currency |-> None, max |-> 0]

\* What delegate accepts as the budget of a child.
WithinBudget(asked, ceiling) ==
  \/ asked = NoBudget \/ ceiling = NoBudget
  \/ asked.currency = ceiling.currency /\ asked.max <= ceiling.max

\* Mutant: a child that asks for no budget gets none.
InheritsNothing(asked, ceiling) == asked

\* A child that asks for no budget inherits the one of its parent.
Inherited(asked, ceiling) == IF asked = NoBudget THEN ceiling ELSE asked

\* What delegate accepts as a scope of a child.  A maximum is only compared
\* with those of the parent's scopes on the very same path.
WithinScope(s, parentScope) ==
  /\ \E p \in parentScope : Covers(p.base, s.base)
  /\ \A p \in parentScope :
       p.base = s.base /\ p.max # None => s.max # None /\ s.max <= p.max

-----------------------------------------------------------------------------

Token ==
  [parent : Ids \cup {None}, subject : Principals, scope : SUBSET Scopes,
   capability : Capabilities, root : Principals, expires : Nat, depth : Nat,
   exclusive : BOOLEAN, budget : Budgets, session : BOOLEAN,
   class : BOOLEAN]

\* A request carries what the code takes from it: ttl_hours, caller_class
\* (whether one is given), and for a root a session_id (whether one is given).
RootRequest ==
  [principal : Principals, subject : Principals, scope : SUBSET Scopes,
   capability : Capabilities, ttl : Nat, budget : Budgets, exclusive : BOOLEAN,
   session : BOOLEAN, class : BOOLEAN]

ChildRequest ==
  [caller : Principals, subject : Principals, scope : SUBSET Scopes,
   capability : Capabilities, ttl : Nat, budget : Budgets, class : BOOLEAN]

\* In the memory of the process, by ON CONFLICT DO UPDATE, or by plain INSERT.
Backend == {"memory", "postgres", "sqlite"}

ASSUME DelegationAssumption ==
  /\ None \notin Ids /\ None \notin Int
  /\ \A s \in Scopes : /\ s = [base |-> s.base, max |-> s.max]
                       /\ Len(s.base) \in Nat /\ s.max \in Nat \cup {None}
  /\ NoBudget \in Budgets
  /\ \A b \in Budgets : b = [currency |-> b.currency, max |-> b.max] /\ b.max \in Nat
  /\ RootRequests \subseteq RootRequest
  /\ ChildRequests \subseteq ChildRequest
  /\ Backends \subseteq Backend
  /\ DefaultDepth \in Nat /\ MaxTime \in Nat

VARIABLES
  now,      \* the clock
  backend,  \* the storage of this service
  tokens,   \* the table delegation_tokens
  issuing,  \* calls of issue_token that registered their token, by its id
  bearers   \* the claims of the JWT answered for a token

delegationVars == <<now, backend, tokens, issuing, bearers>>

\* What resolve_bearer_token compares with the stored token.
Claims(t) ==
  [subject |-> t.subject, scope |-> t.scope, capability |-> t.capability,
   root |-> t.root, parent |-> t.parent, depth |-> t.depth,
   exclusive |-> t.exclusive, budget |-> t.budget, session |-> t.session]

DelegationInit ==
  /\ now = 0
  /\ backend \in Backends
  /\ tokens = [id \in {} |-> None]
  /\ issuing = [id \in {} |-> None]
  /\ bearers = [id \in {} |-> None]

\* f with one more argument.
With(f, x, v) == [y \in DOMAIN f \cup {x} |-> IF y = x THEN v ELSE f[y]]

\* f without one.
Without(f, x) == [y \in DOMAIN f \ {x} |-> f[y]]

-----------------------------------------------------------------------------
(* ANIPService.issue_token                                                 *)

RootToken(q) ==
  [parent |-> None, subject |-> q.subject, scope |-> q.scope,
   capability |-> q.capability, root |-> q.principal, expires |-> now + q.ttl,
   depth |-> DefaultDepth, exclusive |-> q.exclusive, budget |-> q.budget,
   session |-> q.session, class |-> FALSE]

\* The child of p.  It may outlive its parent; that is found when it is used.
ChildToken(p, q) ==
  [parent |-> p, subject |-> q.subject, scope |-> q.scope,
   capability |-> q.capability, root |-> tokens[p].root, expires |-> now + q.ttl,
   depth |-> tokens[p].depth, exclusive |-> tokens[p].exclusive,
   budget |-> Inherited(q.budget, tokens[p].budget),
   session |-> tokens[p].session, class |-> FALSE]

\* Mutant: the id of the new token may be taken.
RegisterAnew(id, t, q) ==
  /\ id \in Ids \ DOMAIN issuing
  /\ tokens' = With(tokens, id, t)
  /\ issuing' = With(issuing, id, [ttl |-> q.ttl, class |-> q.class])
  /\ UNCHANGED <<now, backend, bearers>>

Register(id, t, q) ==
  /\ id \in Ids \ DOMAIN tokens
  /\ tokens' = With(tokens, id, t)
  /\ issuing' = With(issuing, id, [ttl |-> q.ttl, class |-> q.class])
  /\ UNCHANGED <<now, backend, bearers>>

IssueRoot(id, q) == Register(id, RootToken(q), q)

\* Only the subject of the parent passes it on, and nobody knows the id of a
\* token before it is answered.
Delegate(id, p, q) ==
  /\ p \in DOMAIN bearers
  /\ q.caller = tokens[p].subject
  /\ \A s \in q.scope : WithinScope(s, tokens[p].scope)
  /\ WithinBudget(q.budget, tokens[p].budget)
  /\ Register(id, ChildToken(p, q), q)

\* Mutant: the copy with a caller class drops the session.
WithClassFresh(t, class) ==
  [t EXCEPT !.class = class, !.session = IF class THEN FALSE ELSE t.session]

\* The copy of the token that carries the caller class.
WithClass(t, class) == [t EXCEPT !.class = class]

\* The second registration, if a class was asked for, and the JWT, whose
\* expiry is reckoned from the clock again.
Answer(id) ==
  /\ id \in DOMAIN issuing
  /\ issuing[id].class => backend # "sqlite"
  /\ tokens' = [tokens EXCEPT ![id] = WithClass(tokens[id], issuing[id].class)]
  /\ bearers' = With(bearers, id, [claims |-> Claims(tokens'[id]),
                                   exp |-> now + issuing[id].ttl])
  /\ issuing' = Without(issuing, id)
  /\ UNCHANGED <<now, backend>>

\* SQLite inserts the row a second time, which its primary key refuses.
AnswerFails(id) ==
  /\ id \in DOMAIN issuing
  /\ issuing[id].class /\ backend = "sqlite"
  /\ issuing' = Without(issuing, id)
  /\ UNCHANGED <<now, backend, tokens, bearers>>

Tick ==
  /\ now < MaxTime
  /\ now' = now + 1
  /\ UNCHANGED <<backend, tokens, issuing, bearers>>

DelegationNext ==
  \/ Tick
  \/ \E id \in Ids :
       \/ \E q \in RootRequests : IssueRoot(id, q)
       \/ \E p \in Ids, q \in ChildRequests : Delegate(id, p, q)
       \/ Answer(id)
       \/ AnswerFails(id)

DelegationSpec == DelegationInit /\ [][DelegationNext]_delegationVars

=============================================================================
