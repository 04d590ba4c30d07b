------------------------------- MODULE MCRuntime ------------------------------
(***************************************************************************)
(* Small instances of five components that share no state: tokens and the  *)
(* gate of invoke, composed capabilities, the Merkle tree, the aggregation *)
(* of denials, the evaluations of Studio.  A behavior is one of one        *)
(* component; the others stay where they start.                            *)
(***************************************************************************)
EXTENDS InvocationGate, Composition, MerkleTree, DenialAggregation, StudioEvaluations

VARIABLE part  \* the component that moves

Parts == {"authority", "composition", "merkle", "aggregation", "studio"}

-----------------------------------------------------------------------------
(* Authority                                                               *)

Travel == <<"travel">>
Book == <<"travel", "book">>
MCScopes == {[base |-> Travel, max |-> None], [base |-> Book, max |-> None],
             [base |-> Book, max |-> 1]}

Usd(n) == [currency |-> "USD", max |-> n]
MCBudgets == {[currency |-> None, max |-> 0], Usd(1), Usd(2)}

RootBody(scope, capability, budget, exclusive) ==
  [principal |-> "alice", subject |-> "bob", scope |-> scope, capability |-> capability,
   ttl |-> 1, budget |-> budget, exclusive |-> exclusive, session |-> TRUE, class |-> FALSE]

Wide == {[base |-> Travel, max |-> None]}
Capped == {[base |-> Book, max |-> 1]}

MCRootRequests ==
  {RootBody(Wide, "book", Usd(2), TRUE), RootBody(Capped, "book", Usd(1), FALSE)}

ChildBody(subject, scope, ttl, budget, class) ==
  [caller |-> "bob", subject |-> subject, scope |-> scope, capability |-> "book",
   ttl |-> ttl, budget |-> budget, class |-> class]

\* bob passes on to himself what the second root does not cover and what may
\* outlive either, and to carol, who passes on nothing, the rest.
MCChildRequests ==
  {ChildBody("bob", {[base |-> Book, max |-> None]}, 2, Usd(2), TRUE),
   ChildBody("carol", Capped, 1, NoBudget, FALSE)}

MCDeclared ==
  [c \in {"book"} |->
     [scope |-> {Book}, currency |-> "USD", certainty |-> "estimated", amount |-> None,
      binds |-> TRUE, maxAge |-> 1, ceiling |-> FALSE, nonDelegable |-> FALSE, locks |-> TRUE]]

BookCall(hint, price) ==
  [capability |-> "book", task |-> TRUE, hint |-> hint, binding |-> price # None,
   price |-> price, issued |-> IF price = 1 THEN 0 ELSE None]

MCCalls == {BookCall(NoBudget, 1), BookCall(Usd(2), 2), BookCall(NoBudget, None)}

-----------------------------------------------------------------------------
(* Composition                                                             *)

Ref(step, field, deep) == [step |-> step, field |-> field, deep |-> deep]
PathTo(field, deep) == [field |-> field, deep |-> deep]

FirstStep(target, reads, source, path) ==
  [id |-> "find", target |-> target, reads |-> reads, source |-> source, path |-> path]
SecondStep(id, reads, source) ==
  [id |-> id, target |-> "atomic", reads |-> reads, source |-> source, path |-> Null]

StepLists ==
  {<<FirstStep("atomic", {ref}, TRUE, path), SecondStep("use", {Ref("find", "accounts", FALSE)}, FALSE)>> :
     ref \in {Ref(Null, "accounts", FALSE), Ref(Null, "notes", TRUE), Ref("find", "accounts", FALSE)},
     path \in {Null, PathTo("accounts", FALSE), PathTo("notes", TRUE)}}
  \cup
  {<<FirstStep("atomic", {}, source, Null), SecondStep("use", {ref}, FALSE)>> :
     source \in BOOLEAN,
     ref \in {Ref(Null, "accounts", FALSE), Ref("find", "notes", TRUE), Ref("use", "notes", FALSE)}}
  \cup {<<>>, <<FirstStep("composed", {}, FALSE, Null)>>,
        <<FirstStep("atomic", {}, TRUE, Null), SecondStep("find", {}, FALSE)>>,
        <<FirstStep("atomic", {}, TRUE, Null), SecondStep("use", {}, TRUE)>>}

\* What may be declared for an empty result; the last three are refused.
Empties ==
  {<<"success", {Ref(Null, "notes", TRUE)}>>, <<"success", {Ref("find", "accounts", TRUE)}>>,
   <<"clarify", Null>>, <<"deny", Null>>, <<Null, Null>>,
   <<"success", Null>>, <<"deny", {}>>, <<"success", {Ref("use", "notes", FALSE)}>>}

FromInput(steps) == \E k \in 2..Len(steps) : Ref(Null, "accounts", FALSE) \in steps[k].reads

\* Some without a policy for empty results map inputs of a step that is none.
MCDeclarations ==
  {[boundary |-> IF empty[1] = "clarify" /\ Len(steps) = 1 THEN "other" ELSE "same_service",
    steps |-> steps,
    mapped |-> {steps[k].id : k \in 1..Len(steps)}
                 \cup (IF empty[1] = Null /\ FromInput(steps) THEN {"none"} ELSE {}),
    output |-> {Ref("use", "accounts", TRUE)},
    onEmpty |-> empty[1], emptyOutput |-> empty[2],
    policy |-> [class \in {"approval", "denial", "clarification", "error"} |->
                  IF empty[1] = "success" /\ class \in {"denial", "error"} THEN "fail_parent"
                  ELSE "propagate"]] :
     steps \in StepLists, empty \in Empties}

OutputOf(accounts, notes) == [f \in Field |-> IF f = "accounts" THEN accounts ELSE notes]

MCAnswers ==
  {OutputOf(a, n) : a \in {"absent", "nolist", "list", "object"}, n \in {"absent", "null", "object"}}
    \cup {OutputOf("nodict", "notext"), OutputOf("scalar", "hollow")}

MCInputs == {OutputOf("scalar", "null"), OutputOf("absent", "object")}

-----------------------------------------------------------------------------
(* Studio                                                                  *)

\* Two versions of what expectations are derived from.  A proposal is treated as
\* a shape is, but for the expectations; there is none here.
MCTexts ==
  [k \in Kinds |->
     CASE k \in {"requirements", "shape"} -> {"t1", "t2"} [] k = "scenario" -> {"t1"} [] OTHER -> {}]

MCAbouts == {[k \in Kinds |-> IF k = "proposal" THEN Null ELSE "n"]}

-----------------------------------------------------------------------------
(* One component at a time                                                 *)

Init ==
  /\ part \in Parts
  /\ GateInit /\ (part # "authority" => backend = "memory")
  /\ CompositionInit /\ TreeInit /\ AggregationInit /\ StudioInit

vars == <<part, gateVars, compositionVars, leaves, aggregationVars, studioVars>>

\* Ids are interchangeable, so that they may as well be used up in order.
IdsInOrder == \A i \in DOMAIN tokens : 1..i \subseteq DOMAIN tokens

\* Tokens of two roots never meet.
OneRoot == \A i, j \in DOMAIN tokens : tokens[i].parent = None /\ tokens[j].parent = None => i = j

\* Of a project and its clone, one goes before anything else happens.
OneOfTwo == projects = Places => projects' # Places

Next ==
  \/ /\ part = "authority" /\ GateNext /\ (IdsInOrder /\ OneRoot)'
     /\ UNCHANGED <<part, compositionVars, leaves, aggregationVars, studioVars>>
  \/ /\ part = "composition" /\ CompositionNext
     /\ UNCHANGED <<part, gateVars, leaves, aggregationVars, studioVars>>
  \/ /\ part = "merkle" /\ TreeNext
     /\ UNCHANGED <<part, gateVars, compositionVars, aggregationVars, studioVars>>
  \/ /\ part = "aggregation" /\ AggregationNext
     /\ UNCHANGED <<part, gateVars, compositionVars, leaves, studioVars>>
  \/ /\ part = "studio" /\ StudioNext /\ OneOfTwo
     /\ UNCHANGED <<part, gateVars, compositionVars, leaves, aggregationVars>>

Spec == Init /\ [][Next]_vars /\ GateFairness /\ AggregationFairness

\* The type invariants of the five components.
RuntimeTypeOK ==
  GateTypeOK /\ CompositionTypeOK /\ TreeTypeOK /\ AggregationTypeOK /\ StudioTypeOK

=============================================================================
