-------------------------- MODULE MCApprovalGrants --------------------------
(* Instances of ApprovalGrants for TLC.                                    *)
EXTENDS ApprovalGrants, TLC

CONSTANTS i1, i2, i3, a1, a2, transfer, refund, p1, p2, s1, conv1, conv2

MCScopeOf == transfer :> {s1} @@ refund :> {s1}

MCPolicyOf ==
  [c \in {transfer, refund} |->
     [types |-> GrantTypes, lifetime |-> 1, maxUses |-> IF c = transfer THEN 2 ELSE 1]]

Send(c, p, sc, se) == [cap |-> c, params |-> p, scope |-> sc, session |-> se]

Decide(t, e, m, se) == [type |-> t, expiresIn |-> e, maxUses |-> m, session |-> se]

\* Racing calls: everybody sends the same invocation and every approver the
\* same decision, one use.
RaceCalls == {Send(transfer, p1, {s1}, conv1)}

RaceDecisions == {Decide("one_time", None, None, None)}

\* Calls that differ from the first in one respect each.
BindingCalls ==
  {Send(transfer, p1, {s1}, conv1), Send(refund, p1, {s1}, conv1),
   Send(transfer, p2, {s1}, conv1), Send(transfer, p1, {}, conv1),
   Send(transfer, p1, {s1}, conv2)}

\* Decisions at, below and above the policy, and ill-formed ones.
BindingDecisions ==
  {Decide("one_time", None, None, None), Decide("session_bound", None, None, conv1),
   Decide("one_time", 0, None, None), Decide("one_time", 2, None, None),
   Decide("one_time", None, None, conv1), Decide("session_bound", None, None, None),
   Decide("session_bound", None, 0, conv1), Decide("session_bound", None, 3, conv1)}

Symmetry == Permutations(Invocations) \cup Permutations(Issues)

=============================================================================
