--------------------------- MODULE DelegationProofs ---------------------------
(***************************************************************************)
(* Proofs about Delegation and InvocationGate, for all requests, scopes,   *)
(* budgets, declarations and storages, and chains of any length.           *)
(***************************************************************************)
EXTENDS InvocationGate, FiniteSetTheorems, TLAPS

-----------------------------------------------------------------------------
(* Helpers                                                                 *)

\* With adds or replaces one entry.
LEMMA WithAdds ==
  ASSUME NEW f, NEW x, NEW v
  PROVE  /\ DOMAIN With(f, x, v) = DOMAIN f \cup {x}
         /\ With(f, x, v)[x] = v
         /\ \A y \in DOMAIN f : y # x => With(f, x, v)[y] = f[y]
  BY DEF With

\* An entry of the right type keeps the type.
LEMMA WithTyped ==
  ASSUME NEW S, NEW f, f \in [DOMAIN f -> S], NEW x, NEW v \in S
  PROVE  With(f, x, v) \in [DOMAIN With(f, x, v) -> S]
  BY DEF With

\* Without only takes away.
LEMMA WithoutTyped ==
  ASSUME NEW S, NEW f, f \in [DOMAIN f -> S], NEW x
  PROVE  /\ DOMAIN Without(f, x) \subseteq DOMAIN f
         /\ Without(f, x) \in [DOMAIN Without(f, x) -> S]
  BY DEF Without

\* Replacing one entry of a table.
LEMMA ExceptTyped ==
  ASSUME NEW S, NEW f, f \in [DOMAIN f -> S], NEW x \in DOMAIN f, NEW y \in S
  PROVE  LET h == [f EXCEPT ![x] = y]
         IN /\ DOMAIN h = DOMAIN f
            /\ h \in [DOMAIN h -> S]
            /\ h[x] = y
            /\ \A z \in DOMAIN f : z # x => h[z] = f[z]
  OBVIOUS

\* The depth of a scope path is a number.
LEMMA BaseLength == \A path \in Base : Len(path) \in Nat
  BY DelegationAssumption DEF Base

\* A path that covers a path covers what that covers.
LEMMA CoversTransitive ==
  ASSUME NEW a \in Base, NEW b \in Base, NEW c \in Base, Covers(a, b), Covers(b, c)
  PROVE  Covers(a, c)
<1>1. Len(a) \in Nat /\ Len(b) \in Nat /\ Len(c) \in Nat
  BY BaseLength
<1>2. Len(a) <= Len(b) /\ Len(b) <= Len(c)
  BY DEF Covers
<1>3. \A k \in 1..Len(a) : a[k] = b[k]
  BY DEF Covers
<1>4. \A k \in 1..Len(b) : b[k] = c[k]
  BY DEF Covers
<1>5. \A k \in 1..Len(a) : a[k] = c[k]
  BY <1>1, <1>2, <1>3, <1>4
<1>6. Len(a) <= Len(c)
  BY <1>1, <1>2
<1> QED
  BY <1>5, <1>6 DEF Covers

-----------------------------------------------------------------------------
(* The inductive invariant                                                 *)

\* What a registered token has of its parent t: everything that delegate
\* checks or copies.
Attenuates(c, t) ==
  /\ c.root = t.root /\ c.exclusive = t.exclusive
  /\ c.depth = t.depth /\ c.session = t.session
  /\ \A s \in c.scope : \E p \in t.scope : Covers(p.base, s.base)
  /\ t.budget # NoBudget =>
       c.budget # NoBudget /\ c.budget.currency = t.budget.currency
         /\ c.budget.max <= t.budget.max

LinksAttenuate ==
  \A id \in DOMAIN tokens : tokens[id].parent # None =>
    /\ tokens[id].parent \in DOMAIN tokens
    /\ Attenuates(tokens[id], tokens[tokens[id].parent])

\* The chain of a request leads from its token upwards.
Leads(chain, id) ==
  /\ Len(chain) > 0 /\ chain[1] = id
  /\ \A k \in 1..Len(chain) : chain[k] \in DOMAIN tokens
  /\ \A k \in 1..Len(chain) : k > 1 => tokens[chain[k - 1]].parent = chain[k]

\* A request under way is about a stored token and a declared capability, and
\* past the load the token's scope has been checked.
RequestsInFlight ==
  \A r \in DOMAIN req :
    /\ req[r].id \in DOMAIN tokens
    /\ req[r].pc \in {"load", "walk", "admitted", "running"} =>
         req[r].call \in Call /\ req[r].call.capability \in DOMAIN Declared
    /\ req[r].pc = "walk" =>
         /\ Leads(req[r].chain, req[r].id)
         /\ ScopeCovers(tokens[req[r].id].scope, Declared[req[r].call.capability].scope)

GateIInv ==
  /\ GateTypeOK
  /\ GenuineBearersResolve
  /\ LinksAttenuate
  /\ RequestsInFlight
  /\ RunsWithinAllAbove

\* The tables start empty.
LEMMA InitGateIInv == GateInit => GateIInv
<1> SUFFICES ASSUME GateInit PROVE GateIInv
  OBVIOUS
<1> USE DEF GateInit, DelegationInit
<1>1. GateTypeOK
  BY DEF GateTypeOK
<1>2. GenuineBearersResolve /\ LinksAttenuate
  BY DEF GenuineBearersResolve, LinksAttenuate
<1>3. RequestsInFlight /\ RunsWithinAllAbove
  BY DEF RequestsInFlight, RunsWithinAllAbove
<1> QED
  BY <1>1, <1>2, <1>3 DEF GateIInv

-----------------------------------------------------------------------------
(* What is above a token                                                   *)

\* To show something of all tokens above id, show it of the parent of id and
\* let it pass from each token to its parent.
LEMMA AboveWithin ==
  ASSUME NEW id, NEW S \in SUBSET DOMAIN tokens,
         \A x \in S \cup {id} : tokens[x].parent # None => tokens[x].parent \in S
  PROVE  Above(id) \subseteq S
  BY DEF Above

\* A token has all that its parent has passed on from above.
LEMMA AttenuationComposes ==
  ASSUME NEW a \in Token, NEW b \in Token, NEW c \in Token,
         Attenuates(a, b), Attenuates(b, c)
  PROVE  Attenuates(a, c)
<1>1. ASSUME NEW s \in a.scope PROVE \E p \in c.scope : Covers(p.base, s.base)
  <2>1. PICK p \in b.scope : Covers(p.base, s.base)
    BY <1>1 DEF Attenuates
  <2>2. PICK q \in c.scope : Covers(q.base, p.base)
    BY <2>1 DEF Attenuates
  <2>3. s \in Scopes /\ p \in Scopes /\ q \in Scopes
    BY <1>1, <2>1, <2>2 DEF Token
  <2>4. s.base \in Base /\ p.base \in Base /\ q.base \in Base
    BY <2>3 DEF Base
  <2> QED
    BY <2>1, <2>2, <2>4, CoversTransitive
<1>2. c.budget # NoBudget =>
        a.budget # NoBudget /\ a.budget.currency = c.budget.currency
          /\ a.budget.max <= c.budget.max
  <2>1. a.budget.max \in Nat /\ b.budget.max \in Nat /\ c.budget.max \in Nat
    BY DelegationAssumption DEF Token
  <2> QED
    BY <2>1 DEF Attenuates
<1> QED
  BY <1>1, <1>2 DEF Attenuates

\* A token attenuates every token above it.
LEMMA AttenuatesAbove ==
  ASSUME GateTypeOK, LinksAttenuate, NEW id \in DOMAIN tokens, NEW a \in Above(id)
  PROVE  Attenuates(tokens[id], tokens[a])
<1> DEFINE S == {x \in DOMAIN tokens : Attenuates(tokens[id], tokens[x])}
<1>1. \A x \in DOMAIN tokens : tokens[x] \in Token
  BY DEF GateTypeOK
<1>2. ASSUME NEW x \in S \cup {id}, tokens[x].parent # None
      PROVE  tokens[x].parent \in S
  <2>1. x \in DOMAIN tokens
    OBVIOUS
  <2>2. /\ tokens[x].parent \in DOMAIN tokens
        /\ Attenuates(tokens[x], tokens[tokens[x].parent])
    BY <1>2, <2>1 DEF LinksAttenuate
  <2>3. CASE x = id
    BY <2>2, <2>3
  <2>4. CASE x \in S
    BY <1>1, <2>1, <2>2, <2>4, AttenuationComposes
  <2> QED
    BY <2>3, <2>4
<1> HIDE DEF S
<1>3. S \in SUBSET DOMAIN tokens
  BY DEF S
<1>4. Above(id) \subseteq S
  BY <1>2, <1>3, AboveWithin
<1> QED
  BY <1>4 DEF S

\* The tables only grow, and what the JWTs say of the stored tokens stays.
Kept ==
  /\ DOMAIN tokens \subseteq DOMAIN tokens'
  /\ \A x \in DOMAIN tokens : Claims(tokens'[x]) = Claims(tokens[x])

\* New tokens are never above old ones.
LEMMA AboveKept ==
  ASSUME LinksAttenuate, Kept, NEW id \in DOMAIN tokens
  PROVE  Above(id)' = Above(id)
<1>1. \A x \in DOMAIN tokens : tokens'[x].parent = tokens[x].parent
  BY DEF Kept, Claims
<1>2. \A x \in DOMAIN tokens : tokens[x].parent # None => tokens[x].parent \in DOMAIN tokens
  BY DEF LinksAttenuate
<1>3. ASSUME NEW a \in Above(id)' PROVE a \in Above(id)
  <2>1. ASSUME NEW S \in SUBSET DOMAIN tokens,
               \A x \in S \cup {id} : tokens[x].parent # None => tokens[x].parent \in S
        PROVE  a \in S
    <3>1. S \in SUBSET DOMAIN tokens'
      BY DEF Kept
    <3>2. \A x \in S \cup {id} : tokens'[x].parent # None => tokens'[x].parent \in S
      BY <1>1, <2>1
    <3> QED
      BY <1>3, <3>1, <3>2 DEF Above
  <2>2. DOMAIN tokens \in SUBSET DOMAIN tokens
    OBVIOUS
  <2>3. a \in DOMAIN tokens
    BY <1>2, <2>1, <2>2
  <2> QED
    BY <2>1, <2>3 DEF Above
<1>4. ASSUME NEW a \in Above(id) PROVE a \in Above(id)'
  <2>1. a \in DOMAIN tokens'
    BY <1>4 DEF Above, Kept
  <2>2. ASSUME NEW S \in SUBSET DOMAIN tokens',
               \A x \in S \cup {id} : tokens'[x].parent # None => tokens'[x].parent \in S
        PROVE  a \in S
    <3> DEFINE T == S \cap DOMAIN tokens
    <3>1. T \in SUBSET DOMAIN tokens
      OBVIOUS
    <3>2. \A x \in T \cup {id} : tokens[x].parent # None => tokens[x].parent \in T
      BY <1>1, <1>2, <2>2
    <3> HIDE DEF T
    <3>3. Above(id) \subseteq T
      BY <3>1, <3>2, AboveWithin
    <3> QED
      BY <1>4, <3>3 DEF T
  <2> QED
    BY <2>1, <2>2 DEF Above
<1> QED
  BY <1>3, <1>4

-----------------------------------------------------------------------------
(* Steps that issue tokens                                                 *)

\* Requests under way do not notice that the table of tokens grows.
LEMMA RequestsKept ==
  ASSUME GateIInv, Kept, UNCHANGED req
  PROVE  RequestsInFlight' /\ RunsWithinAllAbove'
<1> USE DEF GateIInv
<1>1. \A x \in DOMAIN tokens :
        /\ x \in DOMAIN tokens'
        /\ tokens'[x].parent = tokens[x].parent /\ tokens'[x].scope = tokens[x].scope
        /\ tokens'[x].budget = tokens[x].budget /\ tokens'[x].depth = tokens[x].depth
  BY DEF Kept, Claims
<1>2. ASSUME NEW r \in DOMAIN req'
      PROVE  /\ req'[r].id \in DOMAIN tokens'
             /\ req'[r].pc \in {"load", "walk", "admitted", "running"} =>
                  req'[r].call \in Call /\ req'[r].call.capability \in DOMAIN Declared
             /\ req'[r].pc = "walk" =>
                  /\ Leads(req[r].chain, req[r].id)'
                  /\ ScopeCovers(tokens'[req'[r].id].scope,
                                 Declared[req'[r].call.capability].scope)
  <2>1. r \in DOMAIN req /\ req'[r] = req[r]
    OBVIOUS
  <2>2. req[r].id \in DOMAIN tokens
    BY <2>1 DEF RequestsInFlight
  <2>3. ASSUME req[r].pc = "walk" PROVE Leads(req[r].chain, req[r].id)'
    BY <1>1, <2>1, <2>3 DEF RequestsInFlight, Leads
  <2> QED
    BY <1>1, <2>1, <2>2, <2>3 DEF RequestsInFlight
<1>3. RequestsInFlight'
  BY <1>2 DEF RequestsInFlight
<1>4. ASSUME NEW r \in DOMAIN req', req'[r].pc \in {"admitted", "running"},
             NEW a \in {req'[r].id} \cup Above(req[r].id)'
      PROVE  /\ ScopeCovers(tokens'[a].scope, Declared[req'[r].call.capability].scope)
             /\ Affordable(req'[r].call, tokens'[a].budget)
             /\ tokens'[a].parent = None => Cardinality(Above(req[r].id)') <= tokens'[a].depth
  <2>1. r \in DOMAIN req /\ req'[r] = req[r]
    OBVIOUS
  <2>2. req[r].id \in DOMAIN tokens
    BY <2>1 DEF RequestsInFlight
  <2>3. Above(req[r].id)' = Above(req[r].id)
    BY <2>1, <2>2, AboveKept
  <2>4. a \in {req[r].id} \cup Above(req[r].id) /\ a \in DOMAIN tokens
    BY <1>4, <2>1, <2>2, <2>3 DEF Above
  <2>5. /\ ScopeCovers(tokens[a].scope, Declared[req[r].call.capability].scope)
        /\ Affordable(req[r].call, tokens[a].budget)
        /\ tokens[a].parent = None => Cardinality(Above(req[r].id)) <= tokens[a].depth
    BY <1>4, <2>1, <2>4 DEF RunsWithinAllAbove
  <2> QED
    BY <1>1, <2>1, <2>3, <2>4, <2>5
<1>5. RunsWithinAllAbove'
  BY <1>4 DEF RunsWithinAllAbove
<1> QED
  BY <1>3, <1>5

\* What a root token says is well typed.
LEMMA RootTyped ==
  ASSUME GateTypeOK, NEW q \in RootRequests
  PROVE  RootToken(q) \in Token
  BY DelegationAssumption DEF GateTypeOK, RootToken, RootRequest, Token

\* So is what a child token says.
LEMMA ChildTyped ==
  ASSUME GateTypeOK, NEW p \in DOMAIN tokens, NEW q \in ChildRequests
  PROVE  ChildToken(p, q) \in Token
<1>1. tokens[p] \in Token /\ p \in Ids
  BY DEF GateTypeOK
<1>2. q \in ChildRequest
  BY DelegationAssumption
<1>3. Inherited(q.budget, tokens[p].budget) \in Budgets
  BY <1>1, <1>2 DEF Inherited, ChildRequest, Token
<1>4. now + q.ttl \in Nat
  BY <1>2 DEF GateTypeOK, ChildRequest
<1> QED
  BY <1>1, <1>2, <1>3, <1>4 DEF ChildToken, ChildRequest, Token

\* What delegate lets through attenuates the parent.
LEMMA ChildAttenuates ==
  ASSUME GateTypeOK, NEW p \in DOMAIN tokens, NEW q \in ChildRequests,
         \A s \in q.scope : WithinScope(s, tokens[p].scope),
         WithinBudget(q.budget, tokens[p].budget)
  PROVE  Attenuates(ChildToken(p, q), tokens[p])
<1>1. q.budget \in Budgets /\ tokens[p].budget \in Budgets
  BY DelegationAssumption DEF ChildRequest, GateTypeOK, Token
<1>2. q.budget.max \in Nat /\ tokens[p].budget.max \in Nat
  BY <1>1, DelegationAssumption
<1>3. \A s \in q.scope : \E x \in tokens[p].scope : Covers(x.base, s.base)
  BY DEF WithinScope
<1>4. tokens[p].budget # NoBudget =>
        LET b == Inherited(q.budget, tokens[p].budget)
        IN b # NoBudget /\ b.currency = tokens[p].budget.currency
             /\ b.max <= tokens[p].budget.max
  BY <1>2 DEF Inherited, WithinBudget
<1> QED
  BY <1>3, <1>4 DEF ChildToken, Attenuates

\* Registering a token that attenuates its parent.
LEMMA RegisterStep ==
  ASSUME GateIInv, UNCHANGED req, NEW id \in Ids, NEW t \in Token, NEW q,
         q.ttl \in Nat, q.class \in BOOLEAN, Register(id, t, q),
         t.parent # None => t.parent \in DOMAIN tokens /\ Attenuates(t, tokens[t.parent])
  PROVE  GateIInv'
<1> USE DEF GateIInv
<1>1. /\ id \notin DOMAIN tokens
      /\ tokens' = With(tokens, id, t)
      /\ issuing' = With(issuing, id, [ttl |-> q.ttl, class |-> q.class])
      /\ UNCHANGED <<now, backend, bearers>>
  BY DEF Register
<1>2. /\ DOMAIN tokens' = DOMAIN tokens \cup {id}
      /\ tokens'[id] = t
      /\ \A x \in DOMAIN tokens : tokens'[x] = tokens[x]
  BY <1>1 DEF With
<1>3. Kept
  BY <1>2 DEF Kept
<1>4. GateTypeOK'
  <2>1. tokens' \in [DOMAIN tokens' -> Token]
    BY <1>1, WithTyped DEF GateTypeOK
  <2>2. /\ DOMAIN issuing' = DOMAIN issuing \cup {id}
        /\ issuing' \in [DOMAIN issuing' -> [ttl : Nat, class : BOOLEAN]]
    BY <1>1, WithTyped, WithAdds DEF GateTypeOK
  <2> QED
    BY <1>1, <1>2, <2>1, <2>2 DEF GateTypeOK
<1>5. GenuineBearersResolve'
  BY <1>1, <1>2 DEF GenuineBearersResolve, GateTypeOK
<1>6. LinksAttenuate'
  <2>1. ASSUME NEW x \in DOMAIN tokens', tokens'[x].parent # None
        PROVE  /\ tokens'[x].parent \in DOMAIN tokens'
               /\ Attenuates(tokens'[x], tokens'[tokens'[x].parent])
    <3>1. CASE x = id
      BY <1>2, <2>1, <3>1
    <3>2. CASE x \in DOMAIN tokens
      BY <1>2, <2>1, <3>2 DEF LinksAttenuate
    <3> QED
      BY <1>2, <3>1, <3>2
  <2> QED
    BY <2>1 DEF LinksAttenuate
<1> QED
  BY <1>3, <1>4, <1>5, <1>6, RequestsKept

\* The second registration and the JWT leave the claims alone.
LEMMA AnswerStep ==
  ASSUME GateIInv, UNCHANGED req, NEW id \in Ids, Answer(id)
  PROVE  GateIInv'
<1> USE DEF GateIInv
<1>1. id \in DOMAIN issuing /\ id \in DOMAIN tokens
  BY DEF Answer, GateTypeOK
<1> DEFINE c == WithClass(tokens[id], issuing[id].class)
<1>2. tokens' = [tokens EXCEPT ![id] = c]
  BY DEF Answer
<1>3. tokens[id] \in Token /\ issuing[id] \in [ttl : Nat, class : BOOLEAN]
  BY <1>1 DEF GateTypeOK
<1>4. /\ c \in Token /\ Claims(c) = Claims(tokens[id])
  BY <1>3 DEF WithClass, Token, Claims
<1> HIDE DEF c
<1>5. /\ DOMAIN tokens' = DOMAIN tokens
      /\ tokens'[id] = c
      /\ \A x \in DOMAIN tokens : x # id => tokens'[x] = tokens[x]
      /\ tokens' \in [DOMAIN tokens' -> Token]
  BY <1>1, <1>2, <1>4, ExceptTyped DEF GateTypeOK
<1>6. \A x \in DOMAIN tokens : Claims(tokens'[x]) = Claims(tokens[x])
  BY <1>4, <1>5
<1>7. Kept
  BY <1>5, <1>6 DEF Kept
<1> DEFINE jwt == [claims |-> Claims(tokens'[id]), exp |-> now + issuing[id].ttl]
<1>8. /\ bearers' = With(bearers, id, jwt)
      /\ issuing' = Without(issuing, id)
      /\ UNCHANGED <<now, backend>>
  BY DEF Answer
<1>9. jwt.exp \in Nat /\ jwt.claims = Claims(tokens'[id])
  BY <1>3 DEF GateTypeOK
<1> HIDE DEF jwt
<1>10. /\ DOMAIN bearers' = DOMAIN bearers \cup {id}
       /\ bearers'[id] = jwt
       /\ \A x \in DOMAIN bearers : x # id => bearers'[x] = bearers[x]
  BY <1>8 DEF With
<1>11. GateTypeOK'
  <2>1. /\ DOMAIN issuing' \subseteq DOMAIN issuing
        /\ issuing' \in [DOMAIN issuing' -> [ttl : Nat, class : BOOLEAN]]
    BY <1>8, WithoutTyped DEF GateTypeOK
  <2>2. \A x \in DOMAIN bearers' : bearers'[x].exp \in Nat
    BY <1>9, <1>10 DEF GateTypeOK
  <2> QED
    BY <1>1, <1>5, <1>8, <1>10, <2>1, <2>2 DEF GateTypeOK
<1>12. GenuineBearersResolve'
  BY <1>1, <1>6, <1>9, <1>10 DEF GenuineBearersResolve, GateTypeOK
<1>13. LinksAttenuate'
  <2>1. \A x \in DOMAIN tokens :
          /\ tokens'[x].parent = tokens[x].parent /\ tokens'[x].scope = tokens[x].scope
          /\ tokens'[x].budget = tokens[x].budget /\ tokens'[x].depth = tokens[x].depth
          /\ tokens'[x].root = tokens[x].root /\ tokens'[x].exclusive = tokens[x].exclusive
          /\ tokens'[x].session = tokens[x].session
    BY <1>6 DEF Claims
  <2> QED
    BY <1>5, <2>1 DEF LinksAttenuate, Attenuates
<1> QED
  BY <1>7, <1>11, <1>12, <1>13, RequestsKept

\* Whatever issue_token does, and the clock.
LEMMA DelegationStep ==
  ASSUME GateIInv, DelegationNext, UNCHANGED req
  PROVE  GateIInv'
<1>1. CASE Tick
  <2>1. Kept
    BY <1>1 DEF Tick, Kept
  <2>2. GateTypeOK' /\ GenuineBearersResolve' /\ LinksAttenuate'
    BY <1>1 DEF GateIInv, Tick, GateTypeOK, GenuineBearersResolve, LinksAttenuate
  <2> QED
    BY <2>1, <2>2, RequestsKept DEF GateIInv
<1>2. ASSUME NEW id \in Ids, NEW q \in RootRequests, IssueRoot(id, q)
      PROVE  GateIInv'
  <2>1. RootToken(q) \in Token /\ RootToken(q).parent = None
    BY RootTyped DEF GateIInv, RootToken
  <2>2. q.ttl \in Nat /\ q.class \in BOOLEAN
    BY DelegationAssumption DEF RootRequest
  <2> QED
    BY <1>2, <2>1, <2>2, RegisterStep DEF IssueRoot
<1>3. ASSUME NEW id \in Ids, NEW p \in Ids, NEW q \in ChildRequests, Delegate(id, p, q)
      PROVE  GateIInv'
  <2>1. p \in DOMAIN tokens
    BY <1>3 DEF GateIInv, GateTypeOK, Delegate
  <2>2. ChildToken(p, q) \in Token /\ ChildToken(p, q).parent = p
    BY <2>1, ChildTyped DEF GateIInv, ChildToken
  <2>3. Attenuates(ChildToken(p, q), tokens[p])
    BY <1>3, <2>1, ChildAttenuates DEF GateIInv, Delegate
  <2>4. q.ttl \in Nat /\ q.class \in BOOLEAN
    BY DelegationAssumption DEF ChildRequest
  <2> QED
    BY <1>3, <2>1, <2>2, <2>3, <2>4, RegisterStep DEF Delegate
<1>4. ASSUME NEW id \in Ids, AnswerFails(id)
      PROVE  GateIInv'
  <2>1. Kept
    BY <1>4 DEF AnswerFails, Kept
  <2>2. /\ DOMAIN issuing' \subseteq DOMAIN issuing
        /\ issuing' \in [DOMAIN issuing' -> [ttl : Nat, class : BOOLEAN]]
    BY <1>4, WithoutTyped DEF GateIInv, GateTypeOK, AnswerFails
  <2>3. GateTypeOK' /\ GenuineBearersResolve' /\ LinksAttenuate'
    BY <1>4, <2>2
    DEF GateIInv, AnswerFails, GateTypeOK, GenuineBearersResolve, LinksAttenuate
  <2> QED
    BY <2>1, <2>3, RequestsKept DEF GateIInv
<1> QED
  BY <1>1, <1>2, <1>3, <1>4, AnswerStep DEF DelegationNext

-----------------------------------------------------------------------------
(* Steps of invoke                                                         *)

\* RequestsInFlight and RunsWithinAllAbove, of one request.
Fine(v) ==
  /\ v.id \in DOMAIN tokens
  /\ v.pc \in {"load", "walk", "admitted", "running"} =>
       v.call \in Call /\ v.call.capability \in DOMAIN Declared
  /\ v.pc = "walk" =>
       /\ Leads(v.chain, v.id)
       /\ ScopeCovers(tokens[v.id].scope, Declared[v.call.capability].scope)

Within(v) ==
  v.pc \in {"admitted", "running"} =>
    \A a \in {v.id} \cup Above(v.id) :
      /\ ScopeCovers(tokens[a].scope, Declared[v.call.capability].scope)
      /\ Affordable(v.call, tokens[a].budget)
      /\ tokens[a].parent = None => Cardinality(Above(v.id)) <= tokens[a].depth

\* A step of one request only has to care for that request.
LEMMA RequestStep ==
  ASSUME GateIInv, UNCHANGED delegationVars, NEW r \in Requests, NEW v \in RequestState,
         DOMAIN req' = DOMAIN req \cup {r}, req'[r] = v,
         req' \in [DOMAIN req' -> RequestState],
         \A x \in DOMAIN req : x # r => req'[x] = req[x],
         Fine(v), Within(v)
  PROVE  GateIInv'
<1> USE DEF GateIInv, delegationVars
<1>1. \A x \in DOMAIN req : Fine(req[x]) /\ Within(req[x])
  BY DEF RequestsInFlight, RunsWithinAllAbove, Fine, Within
<1>2. \A x \in DOMAIN req' : Fine(req'[x]) /\ Within(req'[x])
  BY <1>1
<1>3. UNCHANGED tokens
  OBVIOUS
<1>4. \A x : Above(x)' = Above(x)
  BY <1>3 DEF Above
<1>5. RequestsInFlight'
  BY <1>2, <1>3 DEF RequestsInFlight, Fine, Leads
<1>6. RunsWithinAllAbove'
  BY <1>2, <1>3, <1>4 DEF RunsWithinAllAbove, Within
<1>7. GateTypeOK' /\ GenuineBearersResolve' /\ LinksAttenuate'
  BY DEF GateTypeOK, GenuineBearersResolve, LinksAttenuate
<1> QED
  BY <1>5, <1>6, <1>7

\* What the gate accepts on the budget of a token, that budget affords.
LEMMA GateAffords ==
  ASSUME NEW b \in Budgets, NEW call \in Call, call.capability \in DOMAIN Declared,
         BudgetAllows(b, call)
  PROVE  Affordable(call, b)
<1> DEFINE d == Declared[call.capability]
           price == CheckedPrice(d, call)
           e == EffectiveBudget(b, call.hint)
<1>1. d \in Declaration
  BY GateAssumption
<1>2. price \in Nat \cup {None}
  BY <1>1 DEF CheckedPrice, Declaration, Call
<1>3. b.max \in Nat /\ call.hint.max \in Nat
  BY DelegationAssumption DEF Call
<1> SUFFICES ASSUME b # NoBudget, d.currency # None
             PROVE  /\ d.currency = b.currency
                    /\ d.certainty = "estimated" => price # None
                    /\ price # None => price <= b.max
  BY DEF Affordable
<1>4. e # NoBudget /\ e.max <= b.max /\ e.max \in Nat
      /\ (call.hint # NoBudget => b.currency = call.hint.currency)
  BY <1>3 DEF BudgetAllows, EffectiveBudget
<1>5. e.currency = b.currency
  BY <1>4 DEF EffectiveBudget
<1> QED
  BY <1>2, <1>3, <1>4, <1>5 DEF BudgetAllows

\* A parent affords and covers what its child does.
LEMMA ParentAffords ==
  ASSUME NEW c \in Token, NEW t \in Token, Attenuates(c, t),
         NEW call \in Call, call.capability \in DOMAIN Declared,
         Affordable(call, c.budget),
         ScopeCovers(c.scope, Declared[call.capability].scope)
  PROVE  /\ Affordable(call, t.budget)
         /\ ScopeCovers(t.scope, Declared[call.capability].scope)
<1> DEFINE d == Declared[call.capability]
           price == CheckedPrice(d, call)
<1>1. d \in Declaration
  BY GateAssumption
<1>2. price \in Nat \cup {None}
  BY <1>1 DEF CheckedPrice, Declaration, Call
<1>3. c.budget.max \in Nat /\ t.budget.max \in Nat
  BY DelegationAssumption DEF Token
<1>4. Affordable(call, t.budget)
  BY <1>2, <1>3 DEF Affordable, Attenuates
<1>5. ASSUME NEW path \in d.scope PROVE \E p \in t.scope : Covers(p.base, path)
  <2>1. PICK s \in c.scope : Covers(s.base, path)
    BY <1>5 DEF ScopeCovers
  <2>2. PICK p \in t.scope : Covers(p.base, s.base)
    BY <2>1 DEF Attenuates
  <2>3. path \in Base /\ s.base \in Base /\ p.base \in Base
    BY <1>1, <1>5, <2>1, <2>2 DEF Declaration, Token, Base
  <2> QED
    BY <2>1, <2>2, <2>3, CoversTransitive
<1> QED
  BY <1>4, <1>5 DEF ScopeCovers

\* A chain that ends where no parent is stored is all there is above its token.
LEMMA ChainIsLine ==
  ASSUME GateTypeOK, LinksAttenuate, NEW id \in DOMAIN tokens, NEW chain \in Seq(Ids),
         Leads(chain, id), tokens[chain[Len(chain)]].parent \notin DOMAIN tokens
  PROVE  /\ Above(id) \subseteq {chain[k] : k \in 2..Len(chain)}
         /\ Cardinality(Above(id)) <= Len(chain) - 1
         /\ Cardinality(Above(id)) \in Nat
<1> DEFINE n == Len(chain)
           S == {chain[k] : k \in 2..n}
<1>1. n \in Nat /\ n > 0
  BY DEF Leads
<1>2. S \in SUBSET DOMAIN tokens
  BY <1>1 DEF Leads
<1>3. ASSUME NEW x \in S \cup {id}, tokens[x].parent # None PROVE tokens[x].parent \in S
  <2>1. PICK k \in 1..n : x = chain[k]
    BY <1>1, <1>3 DEF Leads
  <2>2. x \in DOMAIN tokens /\ tokens[x].parent \in DOMAIN tokens
    BY <1>2, <1>3 DEF LinksAttenuate
  <2>3. k # n
    BY <2>1, <2>2
  <2>4. k + 1 \in 1..n /\ k + 1 > 1 /\ (k + 1) - 1 = k /\ k + 1 \in 2..n
    BY <1>1, <2>1, <2>3
  <2>5. tokens[chain[k]].parent = chain[k + 1]
    BY <2>4 DEF Leads
  <2> QED
    BY <2>1, <2>4, <2>5
<1>4. Above(id) \subseteq S
  <2> HIDE DEF S
  <2> QED
    BY <1>2, <1>3, AboveWithin
<1>5. IsFiniteSet(2..n) /\ Cardinality(2..n) = n - 1
  <2> HIDE DEF n
  <2>1. 2 \in Int /\ n \in Int
    BY <1>1
  <2>2. /\ IsFiniteSet(2..n)
        /\ Cardinality(2..n) = IF 2 > n THEN 0 ELSE n - 2 + 1
    BY <2>1, FS_Interval, Zenon
  <2> QED
    BY <1>1, <2>2
<1>6. IsFiniteSet(S) /\ Cardinality(S) <= n - 1
  <2> DEFINE f == [k \in 2..n |-> chain[k]]
  <2>1. f \in Surjection(2..n, S)
    BY DEF Surjection
  <2> HIDE DEF f
  <2> HIDE DEF S
  <2> QED
    BY <1>5, <2>1, FS_Surjection
<1>7. Cardinality(Above(id)) <= Cardinality(S) /\ IsFiniteSet(Above(id))
  <2> HIDE DEF S
  <2> QED
    BY <1>4, <1>6, FS_Subset
<1>8. Cardinality(Above(id)) \in Nat /\ Cardinality(S) \in Nat
  <2> HIDE DEF S
  <2> QED
    BY <1>6, <1>7, FS_CardinalityType
<1> QED
  <2> HIDE DEF S
  <2>1. Cardinality(Above(id)) <= n - 1
    BY <1>1, <1>6, <1>7, <1>8
  <2> QED
    BY <1>4, <1>8, <2>1 DEF S

\* A call arrives.
LEMMA ArriveStep ==
  ASSUME GateIInv, NEW r \in Requests, NEW id \in Ids, NEW call \in Calls, Arrive(r, id, call)
  PROVE  GateIInv'
<1> USE DEF GateIInv
<1>1. PICK accepted \in BOOLEAN :
        /\ accepted => call.capability \in DOMAIN Declared
        /\ req' = With(req, r, [pc |-> IF accepted THEN "load" ELSE "done", id |-> id,
                                call |-> call, chain |-> <<>>])
  BY DEF Arrive
<1> DEFINE v == [pc |-> IF accepted THEN "load" ELSE "done", id |-> id,
                 call |-> call, chain |-> <<>>]
<1>2. call \in Call /\ id \in DOMAIN tokens
  BY GateAssumption DEF Arrive, GateTypeOK
<1>3. v \in RequestState
  BY <1>2 DEF RequestState
<1>4. Fine(v) /\ Within(v)
  BY <1>1, <1>2 DEF Fine, Within
<1>5. r \notin DOMAIN req /\ UNCHANGED delegationVars
  BY DEF Arrive
<1>6. req' = With(req, r, v)
  BY <1>1
<1> HIDE DEF v
<1>7. /\ DOMAIN req' = DOMAIN req \cup {r} /\ req'[r] = v
      /\ \A x \in DOMAIN req : x # r => req'[x] = req[x]
  BY <1>6 DEF With
<1>8. req' \in [DOMAIN req' -> RequestState]
  BY <1>3, <1>6, WithTyped DEF GateTypeOK
<1> QED
  BY <1>3, <1>4, <1>5, <1>7, <1>8, RequestStep

\* A request that is there goes on.
LEMMA EntryStep ==
  ASSUME GateIInv, UNCHANGED delegationVars, NEW r \in DOMAIN req, NEW v \in RequestState,
         req' = [req EXCEPT ![r] = v], Fine(v), Within(v)
  PROVE  GateIInv'
<1>1. r \in Requests /\ req \in [DOMAIN req -> RequestState]
  BY DEF GateIInv, GateTypeOK
<1>2. /\ DOMAIN req' = DOMAIN req \cup {r} /\ req'[r] = v
      /\ \A x \in DOMAIN req : x # r => req'[x] = req[x]
      /\ req' \in [DOMAIN req' -> RequestState]
  BY <1>1, ExceptTyped
<1> QED
  BY <1>1, <1>2, RequestStep

\* The token is read.
LEMMA LoadStep ==
  ASSUME GateIInv, NEW r, Load(r)
  PROVE  GateIInv'
<1> USE DEF GateIInv
<1> DEFINE id == req[r].id
           c == req[r].call
           fits == TokenFits(tokens[id], c.capability)
           v == [pc |-> IF fits THEN "walk" ELSE "audit", id |-> id, call |-> c, chain |-> <<id>>]
<1>1. r \in DOMAIN req /\ req[r].pc = "load" /\ UNCHANGED delegationVars
  BY DEF Load, At
<1>2. req' = [req EXCEPT ![r] = v]
  BY DEF Load
<1>3. req[r] \in RequestState /\ id \in DOMAIN tokens /\ id \in Ids
  BY <1>1 DEF GateTypeOK, RequestsInFlight
<1>4. v \in RequestState
  BY <1>3 DEF RequestState
<1>5. Fine(v)
  <2>1. Leads(<<id>>, id)
    BY <1>3 DEF Leads
  <2> QED
    BY <1>1, <1>3, <2>1 DEF Fine, RequestsInFlight, TokenFits
<1>6. Within(v)
  BY DEF Within
<1> HIDE DEF v
<1> QED
  BY <1>1, <1>2, <1>4, <1>5, <1>6, EntryStep

\* One more token of the chain is read.
LEMMA ClimbStep ==
  ASSUME GateIInv, NEW r, Climb(r)
  PROVE  GateIInv'
<1> USE DEF GateIInv
<1> DEFINE ch == req[r].chain
           up == tokens[ch[Len(ch)]].parent
           v == [pc |-> "walk", id |-> req[r].id, call |-> req[r].call, chain |-> Append(ch, up)]
<1>1. r \in DOMAIN req /\ req[r].pc = "walk" /\ up \in DOMAIN tokens /\ UNCHANGED delegationVars
  BY DEF Climb, At, Top
<1>2. req' = [req EXCEPT ![r] = v]
  BY DEF Climb, Top
<1>3. req[r] \in RequestState /\ ch \in Seq(Ids) /\ up \in Ids
  BY <1>1 DEF GateTypeOK, RequestState
<1>4. v \in RequestState
  BY <1>3 DEF RequestState
<1>5. /\ Leads(ch, req[r].id) /\ req[r].id \in DOMAIN tokens
      /\ req[r].call \in Call /\ req[r].call.capability \in DOMAIN Declared
      /\ ScopeCovers(tokens[req[r].id].scope, Declared[req[r].call.capability].scope)
  BY <1>1 DEF RequestsInFlight
<1>6. Leads(Append(ch, up), req[r].id)
  <2> DEFINE n == Len(ch)
             a == Append(ch, up)
  <2>1. n \in Nat /\ n > 0 /\ Len(a) = n + 1 /\ a[n + 1] = up
    BY <1>3, <1>5 DEF Leads
  <2>2. \A k \in 1..n : a[k] = ch[k]
    BY <1>3
  <2>3. a[1] = req[r].id
    BY <1>5, <2>1, <2>2 DEF Leads
  <2>4. ASSUME NEW k \in 1..Len(a)
        PROVE  a[k] \in DOMAIN tokens /\ (k > 1 => tokens[a[k - 1]].parent = a[k])
    <3>1. CASE k = n + 1
      BY <1>1, <2>1, <2>2, <3>1
    <3>2. CASE k \in 1..n
      <4>1. ch[k] \in DOMAIN tokens /\ (k > 1 => tokens[ch[k - 1]].parent = ch[k])
        BY <1>5, <3>2 DEF Leads
      <4>2. k > 1 => k - 1 \in 1..n
        BY <2>1, <3>2
      <4> QED
        BY <2>2, <3>2, <4>1, <4>2
    <3> QED
      BY <2>1, <3>1, <3>2
  <2> HIDE DEF a
  <2>5. Len(a) > 0
    BY <2>1
  <2>6. Leads(a, req[r].id)
    BY <2>3, <2>4, <2>5 DEF Leads
  <2> QED
    BY <2>6 DEF a
<1>7. Fine(v) /\ Within(v)
  BY <1>5, <1>6 DEF Fine, Within
<1> HIDE DEF v
<1> QED
  BY <1>1, <1>2, <1>4, <1>7, EntryStep

\* What invoke has looked at when it admits a request: its own token, and of
\* those above no more than their number and their expiry.
LEMMA JudgedWithin ==
  ASSUME GateIInv, NEW r \in DOMAIN req, req[r].pc = "walk",
         Top(r).parent \notin DOMAIN tokens, ChainHolds(req[r].chain),
         GateOpens(tokens[req[r].id], req[r].call)
  PROVE  \A a \in {req[r].id} \cup Above(req[r].id) :
           /\ ScopeCovers(tokens[a].scope, Declared[req[r].call.capability].scope)
           /\ Affordable(req[r].call, tokens[a].budget)
           /\ tokens[a].parent = None => Cardinality(Above(req[r].id)) <= tokens[a].depth
           /\ a \in Above(req[r].id) => now <= tokens[a].expires
<1> USE DEF GateIInv
<1> DEFINE id == req[r].id
           call == req[r].call
           chain == req[r].chain
<1>1. /\ id \in DOMAIN tokens /\ call \in Call /\ call.capability \in DOMAIN Declared
      /\ Leads(chain, id) /\ ScopeCovers(tokens[id].scope, Declared[call.capability].scope)
  BY DEF RequestsInFlight
<1>2. chain \in Seq(Ids) /\ tokens[id] \in Token
  BY <1>1 DEF GateTypeOK, RequestState
<1>3. Affordable(call, tokens[id].budget)
  <2>1. tokens[id].budget \in Budgets
    BY <1>2 DEF Token
  <2>2. BudgetAllows(tokens[id].budget, call)
    BY DEF GateOpens
  <2> QED
    BY <1>1, <2>1, <2>2, GateAffords
<1>4. /\ Above(id) \subseteq {chain[k] : k \in 2..Len(chain)}
      /\ Cardinality(Above(id)) <= Len(chain) - 1
      /\ Cardinality(Above(id)) \in Nat
  BY <1>1, <1>2, ChainIsLine DEF Top
<1>5. Cardinality(Above(id)) <= tokens[id].depth
  <2>1. tokens[id].depth \in Nat
    BY <1>2 DEF Token
  <2>2. Len(chain) - 1 <= tokens[id].depth
    <3>1. chain[1] = id
      BY <1>1 DEF Leads
    <3>2. Len(chain) - 1 <= tokens[chain[1]].depth
      BY DEF ChainHolds
    <3> QED
      BY <3>1, <3>2
  <2> QED
    BY <1>2, <1>4, <2>1, <2>2
<1>6. ASSUME NEW a \in Above(id)
      PROVE  /\ ScopeCovers(tokens[a].scope, Declared[call.capability].scope)
             /\ Affordable(call, tokens[a].budget)
             /\ tokens[a].depth = tokens[id].depth
             /\ now <= tokens[a].expires
  <2>1. Attenuates(tokens[id], tokens[a])
    BY <1>1, AttenuatesAbove
  <2>2. a \in DOMAIN tokens /\ tokens[a] \in Token
    BY DEF Above, GateTypeOK
  <2>3. now <= tokens[a].expires
    BY <1>4 DEF ChainHolds
  <2> QED
    BY <1>1, <1>2, <1>3, <2>1, <2>2, <2>3, ParentAffords DEF Attenuates
<1> QED
  BY <1>1, <1>3, <1>5, <1>6

\* The decision.
LEMMA JudgeStep ==
  ASSUME GateIInv, NEW r, Judge(r)
  PROVE  GateIInv'
<1> USE DEF GateIInv
<1>1. /\ r \in DOMAIN req /\ req[r].pc = "walk" /\ Top(r).parent \notin DOMAIN tokens
      /\ UNCHANGED delegationVars
  BY DEF Judge, At
<1>2. PICK pc \in {"audit", "admitted", "done"} :
        /\ req' = [req EXCEPT ![r] = [pc |-> pc, id |-> req[r].id, call |-> req[r].call,
                                      chain |-> <<>>]]
        /\ pc = "admitted" => /\ ChainHolds(req[r].chain)
                              /\ GateOpens(tokens[req[r].id], req[r].call)
  BY DEF Judge, Goes
<1> DEFINE v == [pc |-> pc, id |-> req[r].id, call |-> req[r].call, chain |-> <<>>]
<1>3. req[r] \in RequestState
  BY <1>1 DEF GateTypeOK
<1>4. v \in RequestState
  BY <1>3 DEF RequestState
<1>5. Fine(v)
  BY <1>1 DEF Fine, RequestsInFlight
<1>6. Within(v)
  BY <1>1, <1>2, JudgedWithin DEF Within
<1>7. req' = [req EXCEPT ![r] = v]
  BY <1>2
<1> HIDE DEF v
<1> QED
  BY <1>1, <1>4, <1>5, <1>6, <1>7, EntryStep

\* After the decision nothing is looked at any more.
LEMMA GoesStep ==
  ASSUME GateIInv, UNCHANGED delegationVars, NEW r \in DOMAIN req,
         NEW pc \in {"running", "audit", "done"}, Goes(r, pc),
         pc = "running" => req[r].pc = "admitted"
  PROVE  GateIInv'
<1> USE DEF GateIInv
<1> DEFINE v == [pc |-> pc, id |-> req[r].id, call |-> req[r].call, chain |-> <<>>]
<1>1. req[r] \in RequestState
  BY DEF GateTypeOK
<1>2. v \in RequestState
  BY <1>1 DEF RequestState
<1>3. Fine(v)
  BY DEF Fine, RequestsInFlight
<1>4. Within(v)
  BY DEF Within, RunsWithinAllAbove
<1>5. req' = [req EXCEPT ![r] = v]
  BY DEF Goes
<1> HIDE DEF v
<1> QED
  BY <1>2, <1>3, <1>4, <1>5, EntryStep

\* Every step keeps the invariant.
LEMMA NextGateIInv == GateIInv /\ [GateNext]_gateVars => GateIInv'
<1> SUFFICES ASSUME GateIInv, [GateNext]_gateVars PROVE GateIInv'
  OBVIOUS
<1>1. CASE UNCHANGED gateVars
  <2>1. UNCHANGED <<now, backend, tokens, issuing, bearers, req>>
    BY <1>1 DEF gateVars
  <2>2. Kept
    BY <2>1 DEF Kept
  <2>3. GateTypeOK' /\ GenuineBearersResolve' /\ LinksAttenuate'
    BY <2>1 DEF GateIInv, GateTypeOK, GenuineBearersResolve, LinksAttenuate
  <2> QED
    BY <2>1, <2>2, <2>3, RequestsKept DEF GateIInv
<1>2. ASSUME NEW r \in Requests,
             Enter(r) \/ Busy(r) \/ Return(r) \/ Reply(r)
      PROVE  GateIInv'
  <2>1. /\ r \in DOMAIN req /\ UNCHANGED delegationVars
        /\ \/ req[r].pc = "admitted" /\ Goes(r, "running")
           \/ Goes(r, "audit") \/ Goes(r, "done")
    BY <1>2 DEF Enter, Busy, Return, Reply, At
  <2> QED
    BY <2>1, GoesStep
<1> QED
  BY <1>1, <1>2, DelegationStep, ArriveStep, LoadStep, ClimbStep, JudgeStep DEF GateNext

\* So it holds for ever.
LEMMA SpecGateIInv == GateSpec => []GateIInv
  BY InitGateIInv, NextGateIInv, PTL DEF GateSpec

-----------------------------------------------------------------------------
(* Chains come to an end                                                   *)

\* Among any tokens there is one whose parent is not among them: parents form
\* no cycle.
Grounded == \A S \in SUBSET DOMAIN tokens : S # {} => \E x \in S : tokens[x].parent \notin S

\* get_chain never reads a token that it has read before.
NoTokenTwice ==
  \A r \in DOMAIN req : req[r].pc = "walk" =>
    \A j, k \in 1..Len(req[r].chain) : req[r].chain[j] = req[r].chain[k] => j = k

\* A new token below a stored one, or below none, closes no cycle.
LEMMA GroundedKept ==
  ASSUME GateIInv, Grounded, NEW id \in Ids \ DOMAIN tokens,
         DOMAIN tokens' = DOMAIN tokens \cup {id},
         tokens'[id].parent \in DOMAIN tokens \cup {None},
         \A x \in DOMAIN tokens : tokens'[x].parent = tokens[x].parent
  PROVE  Grounded'
<1> SUFFICES ASSUME NEW S \in SUBSET DOMAIN tokens', S # {}
             PROVE  \E x \in S : tokens'[x].parent \notin S
  BY DEF Grounded
<1>1. \A x \in DOMAIN tokens : tokens[x].parent # id
  BY DelegationAssumption DEF GateIInv, LinksAttenuate
<1>2. None \notin S
  BY DelegationAssumption DEF GateIInv, GateTypeOK
<1>3. CASE S \cap DOMAIN tokens = {}
  BY <1>2, <1>3
<1>4. CASE S \cap DOMAIN tokens # {}
  <2> DEFINE old == S \cap DOMAIN tokens
  <2>1. old \in SUBSET DOMAIN tokens /\ old # {}
    BY <1>4
  <2> HIDE DEF old
  <2>2. PICK x \in old : tokens[x].parent \notin old
    BY <2>1 DEF Grounded
  <2>3. x \in S /\ x \in DOMAIN tokens /\ S \subseteq old \cup {id}
    BY <2>2 DEF old
  <2> QED
    BY <1>1, <2>2, <2>3
<1> QED
  BY <1>3, <1>4

\* Only registering adds a token, and no step gives a token another parent.
LEMMA NextGrounded ==
  ASSUME GateIInv, Grounded, [GateNext]_gateVars
  PROVE  Grounded'
<1>1. CASE UNCHANGED tokens
  BY <1>1 DEF Grounded
<1>2. ASSUME NEW id \in Ids, NEW q \in RootRequests, IssueRoot(id, q) PROVE Grounded'
  <2>1. /\ id \notin DOMAIN tokens /\ DOMAIN tokens' = DOMAIN tokens \cup {id}
        /\ tokens'[id].parent = None /\ \A x \in DOMAIN tokens : tokens'[x] = tokens[x]
    BY <1>2 DEF IssueRoot, Register, With, RootToken
  <2> QED
    BY <2>1, GroundedKept
<1>3. ASSUME NEW id \in Ids, NEW p \in Ids, NEW q \in ChildRequests, Delegate(id, p, q)
      PROVE  Grounded'
  <2>1. p \in DOMAIN tokens
    BY <1>3 DEF GateIInv, GateTypeOK, Delegate
  <2>2. /\ id \notin DOMAIN tokens /\ DOMAIN tokens' = DOMAIN tokens \cup {id}
        /\ tokens'[id].parent = p /\ \A x \in DOMAIN tokens : tokens'[x] = tokens[x]
    BY <1>3 DEF Delegate, Register, With, ChildToken
  <2> QED
    BY <2>1, <2>2, GroundedKept
<1>4. ASSUME NEW id \in Ids, Answer(id) PROVE Grounded'
  <2>1. id \in DOMAIN tokens /\ tokens[id] \in Token
    BY <1>4 DEF GateIInv, GateTypeOK, Answer
  <2>2. /\ DOMAIN tokens' = DOMAIN tokens
        /\ tokens'[id].parent = tokens[id].parent
        /\ \A x \in DOMAIN tokens : x # id => tokens'[x] = tokens[x]
    BY <1>4, <2>1 DEF Answer, WithClass, Token
  <2> QED
    BY <2>2 DEF Grounded
<1>5. ASSUME NEW id \in Ids, AnswerFails(id) PROVE Grounded'
  BY <1>1, <1>5 DEF AnswerFails
<1>6. CASE Tick
  BY <1>1, <1>6 DEF Tick
<1>7. CASE DelegationNext
  BY <1>2, <1>3, <1>4, <1>5, <1>6, <1>7 DEF DelegationNext
<1>8. CASE UNCHANGED delegationVars
  BY <1>1, <1>8 DEF delegationVars
<1>9. CASE UNCHANGED gateVars
  BY <1>1, <1>9 DEF gateVars
<1> QED
  BY <1>7, <1>8, <1>9
  DEF GateNext, Arrive, Load, Climb, Judge, Enter, Busy, Return, Reply

\* A chain that leads upwards and comes back to a token would be a cycle.
LEMMA NoWayBack ==
  ASSUME GateTypeOK, Grounded, NEW id, NEW chain \in Seq(Ids), Leads(chain, id),
         NEW j \in 1..Len(chain), NEW k \in 1..Len(chain), j < k, chain[j] = chain[k]
  PROVE  FALSE
<1> DEFINE S == {chain[i] : i \in j..(k - 1)}
<1>1. \A i \in j..(k - 1) : chain[i] \in S
  OBVIOUS
<1>2. S # {} /\ S \in SUBSET DOMAIN tokens
  BY DEF Leads
<1>3. ASSUME NEW x \in S PROVE \E i \in j..(k - 1) : x = chain[i]
  OBVIOUS
<1> HIDE DEF S
<1>4. PICK x \in S : tokens[x].parent \notin S
  BY <1>2 DEF Grounded
<1>5. PICK i \in j..(k - 1) : x = chain[i]
  BY <1>3
<1>6. i + 1 \in 1..Len(chain) /\ i + 1 > 1 /\ (i + 1) - 1 = i
  OBVIOUS
<1>7. tokens[x].parent = chain[i + 1]
  BY <1>5, <1>6 DEF Leads
<1>8. CASE i + 1 = k
  BY <1>1, <1>4, <1>7, <1>8
<1>9. CASE i + 1 # k
  <2>1. i + 1 \in j..(k - 1)
    BY <1>9
  <2> QED
    BY <1>1, <1>4, <1>7, <2>1
<1> QED
  BY <1>8, <1>9

-----------------------------------------------------------------------------
(* Theorems                                                                *)

\* Tokens, calls of issue_token and calls of invoke are well formed.
THEOREM GateTypeCorrect == GateSpec => []GateTypeOK
<1>1. GateIInv => GateTypeOK
  BY DEF GateIInv
<1> QED
  BY <1>1, SpecGateIInv, PTL

\* A JWT always says what the stored token says.
THEOREM BearersResolve == GateSpec => []GenuineBearersResolve
<1>1. GateIInv => GenuineBearersResolve
  BY DEF GateIInv
<1> QED
  BY <1>1, SpecGateIInv, PTL

\* The terms of a token are those of every token above it, at any depth.
THEOREM TermsInherited == GateSpec => []TermsAreTheRoots
<1>1. GateIInv => TermsAreTheRoots
  BY AttenuatesAbove DEF GateIInv, TermsAreTheRoots, Attenuates
<1> QED
  BY <1>1, SpecGateIInv, PTL

\* However tokens are registered, parents form no cycle, and get_chain, whose loop
\* has no bound, reads no token twice: a walk is never longer than the table.
THEOREM ChainsComeToAnEnd == GateSpec => [](Grounded /\ NoTokenTwice)
<1>1. GateInit => Grounded
  BY DEF GateInit, DelegationInit, Grounded
<1>2. GateIInv /\ Grounded /\ [GateNext]_gateVars => Grounded'
  BY NextGrounded
<1>3. GateSpec => []Grounded
  BY <1>1, <1>2, SpecGateIInv, PTL DEF GateSpec
<1>4. ASSUME GateIInv, Grounded PROVE NoTokenTwice
  <2> SUFFICES ASSUME NEW r \in DOMAIN req, req[r].pc = "walk",
                      NEW j \in 1..Len(req[r].chain), NEW k \in 1..Len(req[r].chain),
                      req[r].chain[j] = req[r].chain[k]
               PROVE  j = k
    BY DEF NoTokenTwice
  <2>1. req[r] \in RequestState
    BY <1>4 DEF GateIInv, GateTypeOK
  <2>2. Leads(req[r].chain, req[r].id) /\ req[r].chain \in Seq(Ids) /\ GateTypeOK
    BY <1>4, <2>1 DEF GateIInv, RequestsInFlight, RequestState
  <2>3. ~ j < k /\ ~ k < j
    BY <1>4, <2>2, NoWayBack
  <2> QED
    BY <2>3
<1> QED
  BY <1>3, <1>4, SpecGateIInv, PTL

\* What runs is covered by every token above the presented one.
THEOREM RunsWithinAuthority == GateSpec => []RunsWithinAllAbove
<1>1. GateIInv => RunsWithinAllAbove
  BY DEF GateIInv
<1> QED
  BY <1>1, SpecGateIInv, PTL

\* Only Judge lets a request in.
LEMMA OnlyJudgeAdmits ==
  ASSUME GateIInv, GateNext, NEW r \in DOMAIN req,
         req[r].pc # "admitted", req'[r].pc = "admitted"
  PROVE  Judge(r)
<1> USE DEF GateIInv
<1>1. req \in [DOMAIN req -> RequestState]
  BY DEF GateTypeOK
<1>2. ASSUME DelegationNext /\ UNCHANGED req PROVE FALSE
  BY <1>2
<1>3. ASSUME NEW x \in Requests, NEW id \in Ids, NEW call \in Calls, Arrive(x, id, call)
      PROVE  FALSE
  <2>1. x # r
    BY <1>3 DEF Arrive
  <2>2. req'[r] = req[r]
    BY <1>3, <2>1 DEF Arrive, With
  <2> QED
    BY <2>2
<1>4. ASSUME NEW x \in Requests, NEW v, v.pc # "admitted", req' = [req EXCEPT ![x] = v]
      PROVE  FALSE
  BY <1>4
<1>5. ASSUME NEW x \in Requests, Load(x) PROVE FALSE
  <2> DEFINE fits == TokenFits(tokens[req[x].id], req[x].call.capability)
             v == [pc |-> IF fits THEN "walk" ELSE "audit", id |-> req[x].id,
                   call |-> req[x].call, chain |-> <<req[x].id>>]
  <2>1. req' = [req EXCEPT ![x] = v]
    BY <1>5 DEF Load
  <2>2. v.pc # "admitted"
    OBVIOUS
  <2> HIDE DEF v
  <2> QED
    BY <1>4, <2>1, <2>2
<1>6. ASSUME NEW x \in Requests, Climb(x) PROVE FALSE
  <2> DEFINE v == [pc |-> "walk", id |-> req[x].id, call |-> req[x].call,
                   chain |-> Append(req[x].chain, Top(x).parent)]
  <2>1. req' = [req EXCEPT ![x] = v]
    BY <1>6 DEF Climb
  <2>2. v.pc # "admitted"
    OBVIOUS
  <2> HIDE DEF v
  <2> QED
    BY <1>4, <2>1, <2>2
<1>7. ASSUME NEW x \in Requests, NEW pc, Goes(x, pc), x # r \/ pc # "admitted" PROVE FALSE
  <2>1. CASE x # r
    BY <1>7, <2>1 DEF Goes
  <2>2. CASE pc # "admitted"
    <3> DEFINE v == [pc |-> pc, id |-> req[x].id, call |-> req[x].call, chain |-> <<>>]
    <3>1. req' = [req EXCEPT ![x] = v]
      BY <1>7 DEF Goes
    <3>2. v.pc # "admitted"
      BY <2>2
    <3> HIDE DEF v
    <3> QED
      BY <1>4, <3>1, <3>2
  <2> QED
    BY <1>7, <2>1, <2>2
<1>8. ASSUME NEW x \in Requests, Enter(x) \/ Busy(x) \/ Return(x) \/ Reply(x) PROVE FALSE
  BY <1>7, <1>8 DEF Enter, Busy, Return, Reply
<1>9. ASSUME NEW x \in Requests, Judge(x), x # r PROVE FALSE
  BY <1>7, <1>9 DEF Judge
<1> QED
  BY <1>2, <1>3, <1>5, <1>6, <1>8, <1>9 DEF GateNext

\* A request is let in only while everything above its token is alive.
THEOREM AdmittedAlive == GateSpec => AdmittedUnderLiveChain
<1>1. ASSUME GateIInv, GateNext, NEW r \in DOMAIN req,
             req[r].pc # "admitted", req'[r].pc = "admitted", NEW a \in Above(req[r].id)
      PROVE  now <= tokens[a].expires
  <2>1. Judge(r)
    BY <1>1, OnlyJudgeAdmits
  <2>2. req[r].pc = "walk" /\ Top(r).parent \notin DOMAIN tokens
    BY <2>1 DEF Judge, At
  <2>3. req \in [DOMAIN req -> RequestState]
    BY <1>1 DEF GateIInv, GateTypeOK
  <2>4. ChainHolds(req[r].chain) /\ GateOpens(tokens[req[r].id], req[r].call)
    BY <1>1, <2>1, <2>3 DEF Judge, Goes
  <2> QED
    BY <1>1, <2>2, <2>4, JudgedWithin
<1>2. GateIInv /\ [GateNext]_gateVars =>
        [\A r \in DOMAIN req :
           req[r].pc # "admitted" /\ req'[r].pc = "admitted" =>
             \A a \in Above(req[r].id) : now <= tokens[a].expires]_gateVars
  BY <1>1
<1> QED
  BY <1>2, SpecGateIInv, PTL DEF GateSpec, AdmittedUnderLiveChain

-----------------------------------------------------------------------------
(* Delegation implements the attenuation of authority                      *)

\* Claims decide what a token can be used for and whom it comes from.
LEMMA HeldByClaims ==
  ASSUME NEW c, NEW t, Claims(c) = Claims(t)
  PROVE  Rights(c) = Rights(t) /\ c.parent = t.parent
  BY DEF Claims, Rights

\* A token that attenuates another can be used for no more.
LEMMA RightsAttenuate ==
  ASSUME NEW c \in Token, NEW t \in Token, Attenuates(c, t)
  PROVE  Rights(c) \subseteq Rights(t)
<1> SUFFICES ASSUME NEW x \in Rights(c) PROVE x \in Rights(t)
  OBVIOUS
<1>1. x \in Right /\ x.path \in Base
  BY DEF Rights, Right
<1>2. \E s \in t.scope : Covers(s.base, x.path)
  <2>1. PICK s \in c.scope : Covers(s.base, x.path)
    BY DEF Rights
  <2>2. PICK p \in t.scope : Covers(p.base, s.base)
    BY <2>1 DEF Attenuates
  <2>3. s.base \in Base /\ p.base \in Base
    BY <2>1, <2>2 DEF Token, Base
  <2> QED
    BY <1>1, <2>1, <2>2, <2>3, CoversTransitive
<1>3. t.budget # NoBudget => x.currency = t.budget.currency /\ x.price <= t.budget.max
  <2>1. c.budget.max \in Nat /\ t.budget.max \in Nat /\ x.price \in Nat
    BY <1>1, DelegationAssumption DEF Token, Right
  <2>2. c.budget # NoBudget => x.currency = c.budget.currency /\ x.price <= c.budget.max
    BY DEF Rights
  <2> QED
    BY <2>1, <2>2 DEF Attenuates
<1> QED
  BY <1>1, <1>2, <1>3 DEF Rights

\* A token is registered: its holder gains what the token says.
LEMMA RegisterGains ==
  ASSUME GateTypeOK, NEW id \in Ids, NEW t \in Token, NEW q, Register(id, t, q)
  PROVE  /\ Authority!Gains(id)
         /\ Held'[id].from = t.parent /\ Held'[id].rights = Rights(t)
         /\ \A p \in DOMAIN tokens : p \in DOMAIN Held /\ Held[p].rights = Rights(tokens[p])
<1>1. /\ id \notin DOMAIN tokens
      /\ tokens' = With(tokens, id, t)
  BY DEF Register
<1>2. /\ DOMAIN tokens' = DOMAIN tokens \cup {id}
      /\ tokens'[id] = t
      /\ \A x \in DOMAIN tokens : tokens'[x] = tokens[x]
  BY <1>1 DEF With
<1>3. Held'[id] = [rights |-> Rights(t), from |-> t.parent]
  BY <1>2 DEF Held
<1>4. Held'[id] \in Authority!Holding
  BY <1>3 DEF Authority!Holding, Rights, Token
<1>5. /\ id \notin DOMAIN Held
      /\ DOMAIN Held' = DOMAIN Held \cup {id}
      /\ \A x \in DOMAIN Held : Held'[x] = Held[x]
  BY <1>1, <1>2 DEF Held
<1>6. Authority!Gains(id)
  BY <1>4, <1>5 DEF Authority!Gains
<1> QED
  BY <1>3, <1>6 DEF Held

\* Issuing and delegating tokens only attenuates authority.
THEOREM AuthorityAttenuates == GateSpec => AuthorityOnlyShrinks
<1>1. GateInit => Authority!Init
  BY DEF GateInit, DelegationInit, Authority!Init, Held
<1>2. ASSUME GateIInv, [GateNext]_gateVars PROVE [Authority!Next]_<<Held>>
  <2>1. ASSUME NEW id \in Ids, NEW q \in RootRequests, IssueRoot(id, q)
        PROVE  Authority!Next
    <3>1. RootToken(q) \in Token /\ RootToken(q).parent = None
      BY <1>2, RootTyped DEF GateIInv, RootToken
    <3>2. Authority!Gains(id) /\ Held'[id].from = None
      BY <1>2, <2>1, <3>1, RegisterGains DEF GateIInv, IssueRoot
    <3> QED
      BY <3>2 DEF Authority!Next, Authority!Grant
  <2>2. ASSUME NEW id \in Ids, NEW p \in Ids, NEW q \in ChildRequests, Delegate(id, p, q)
        PROVE  Authority!Next
    <3>1. p \in DOMAIN tokens /\ tokens[p] \in Token
      BY <1>2, <2>2 DEF GateIInv, GateTypeOK, Delegate
    <3>2. ChildToken(p, q) \in Token /\ ChildToken(p, q).parent = p
      BY <1>2, <3>1, ChildTyped DEF GateIInv, ChildToken
    <3>3. Attenuates(ChildToken(p, q), tokens[p])
      BY <1>2, <2>2, <3>1, ChildAttenuates DEF GateIInv, Delegate
    <3>4. Rights(ChildToken(p, q)) \subseteq Rights(tokens[p])
      BY <3>1, <3>2, <3>3, RightsAttenuate
    <3>5. /\ Authority!Gains(id)
          /\ Held'[id].from = p /\ Held'[id].rights = Rights(ChildToken(p, q))
          /\ p \in DOMAIN Held /\ Held[p].rights = Rights(tokens[p])
      BY <1>2, <2>2, <3>1, <3>2, RegisterGains DEF GateIInv, Delegate
    <3> QED
      BY <3>4, <3>5 DEF Authority!Next, Authority!PassOn
  <2>3. ASSUME NEW id \in Ids, Answer(id) PROVE UNCHANGED Held
    <3>1. id \in DOMAIN tokens /\ tokens \in [DOMAIN tokens -> Token]
          /\ issuing[id] \in [ttl : Nat, class : BOOLEAN]
      BY <1>2, <2>3 DEF GateIInv, GateTypeOK, Answer
    <3> DEFINE c == WithClass(tokens[id], issuing[id].class)
    <3>2. Claims(c) = Claims(tokens[id])
      BY <3>1 DEF WithClass, Token, Claims
    <3>3. tokens' = [tokens EXCEPT ![id] = c]
      BY <2>3 DEF Answer
    <3> HIDE DEF c
    <3>4. /\ DOMAIN tokens' = DOMAIN tokens
          /\ \A x \in DOMAIN tokens : Claims(tokens'[x]) = Claims(tokens[x])
      BY <3>1, <3>2, <3>3
    <3>5. \A x \in DOMAIN tokens :
            Rights(tokens'[x]) = Rights(tokens[x]) /\ tokens'[x].parent = tokens[x].parent
      BY <3>4, HeldByClaims
    <3> QED
      BY <3>4, <3>5 DEF Held
  <2>4. ASSUME UNCHANGED tokens PROVE UNCHANGED Held
    BY <2>4 DEF Held
  <2>5. ASSUME NEW r \in Requests,
               \/ \E id \in Ids, call \in Calls : Arrive(r, id, call)
               \/ Load(r) \/ Climb(r) \/ Judge(r) \/ Enter(r) \/ Busy(r)
               \/ Return(r) \/ Reply(r)
        PROVE  UNCHANGED tokens
    BY <2>5 DEF Arrive, Load, Climb, Judge, Enter, Busy, Return, Reply, delegationVars
  <2>6. Tick \/ (\E id \in Ids : AnswerFails(id)) \/ UNCHANGED gateVars => UNCHANGED tokens
    BY DEF Tick, AnswerFails, gateVars
  <2> QED
    BY <1>2, <2>1, <2>2, <2>3, <2>4, <2>5, <2>6 DEF GateNext, DelegationNext
<1>3. GateIInv /\ [GateNext]_gateVars => [Authority!Next]_(Authority!vars)
  BY <1>2 DEF Authority!vars
<1> QED
  BY <1>1, <1>3, SpecGateIInv, PTL DEF GateSpec, AuthorityOnlyShrinks, Authority!Spec

=============================================================================
