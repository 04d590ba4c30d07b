----------------------------- MODULE GrantLedger -----------------------------
(***************************************************************************)
(* What approval grants promise, without requests being validated, clocks, *)
(* policies or storage: a request is granted at most once, a grant admits  *)
(* at most the number of invocations written on it, each invocation is     *)
(* admitted at most once, and what was granted or spent stays so.          *)
(***************************************************************************)
EXTENDS Integers, FiniteSets

CONSTANTS
  Requests, Grants, Invocations,
  Limits    \* the numbers of uses a grant may be written for

VARIABLES
  granted,  \* triples <<request, grant, limit>>
  spent     \* pairs <<invocation, grant>>

ledgerVars == <<granted, spent>>

Spenders(g) == {i \in Invocations : <<i, g>> \in spent}

LedgerInit == granted = {} /\ spent = {}

\* Grant g, good for n uses, answers request r.
Decide(r, g, n) ==
  /\ \A t \in granted : t[1] # r /\ t[2] # g
  /\ granted' = granted \cup {<<r, g, n>>}
  /\ UNCHANGED spent

\* Invocation i takes one use of grant g.
Spend(i, g) ==
  /\ \A h \in Grants : <<i, h>> \notin spent
  /\ \E t \in granted : t[2] = g /\ Cardinality(Spenders(g)) < t[3]
  /\ spent' = spent \cup {<<i, g>>}
  /\ UNCHANGED granted

LedgerNext ==
  \/ \E r \in Requests, g \in Grants, n \in Limits : Decide(r, g, n)
  \/ \E i \in Invocations, g \in Grants : Spend(i, g)

LedgerSpec == LedgerInit /\ [][LedgerNext]_ledgerVars

=============================================================================
