-------------------------- MODULE CompositionProofs ---------------------------
(***************************************************************************)
(* Proofs about Composition, for all declarations, with any number of      *)
(* steps, all inputs and all answers of the children.                      *)
(***************************************************************************)
EXTENDS Composition, FiniteSetTheorems, TLAPS

-----------------------------------------------------------------------------
(* The inductive invariant                                                 *)

\* What a step may be given: a function on what it reads.
Readings == UNION {[R -> Value \cup {"inner", "raises"}] : R \in SUBSET Reference}

CompositionTyped == outputs \in Seq(Answers) /\ inputs \in Seq(Readings)

\* Only a valid declaration runs; the histories go step by step.
Registered ==
  /\ stage \in {"start", "rejected", "accepted"} => outputs = <<>> /\ inputs = <<>>
  /\ stage \notin {"start", "rejected", "accepted"} => parentInput \in ParentInputs
  /\ stage \notin {"start", "rejected"} =>
       /\ comp \in Declarations /\ ValidComposition(comp)
       /\ Len(outputs) <= Len(comp.steps) /\ Len(inputs) <= Len(comp.steps)
  /\ Len(inputs) \in {Len(outputs), Len(outputs) + 1}
  /\ stage = "running" => Len(inputs) = Len(outputs)

\* A run only goes on past a source that found something.
SourcesFound ==
  stage \in {"running", "success"} =>
    \A k \in Sources(comp) : k <= Len(outputs) => Found(comp.steps[k], outputs[k])

CInv == CompositionTyped /\ Registered /\ SourcesFound /\ ReferencesResolve /\ OutcomeFollowsPolicy

-----------------------------------------------------------------------------
(* Lemmas about declarations and references                                *)

\* What the parts of a declaration read, the declaration reads.
LEMMA ReferencesHold ==
  ASSUME NEW c
  PROVE  /\ \A k \in 1..Len(c.steps) : c.steps[k].reads \subseteq References(c)
         /\ c.output \subseteq References(c)
         /\ c.emptyOutput # Null => c.emptyOutput \subseteq References(c)
<1> DEFINE R == {c.steps[k].reads : k \in 1..Len(c.steps)}
           U == UNION R
           last == IF c.emptyOutput = Null THEN {} ELSE c.emptyOutput
<1>1. References(c) = U \cup c.output \cup last
  BY DEF References
<1>2. ASSUME NEW k \in 1..Len(c.steps) PROVE c.steps[k].reads \subseteq U
  <2>1. c.steps[k].reads \in R
    OBVIOUS
  <2> HIDE DEF R
  <2> QED
    BY <2>1
<1>3. c.emptyOutput # Null => last = c.emptyOutput
  OBVIOUS
<1> HIDE DEF U, last
<1>4. U \subseteq References(c) /\ c.output \subseteq References(c) /\ last \subseteq References(c)
  BY <1>1
<1>5. \A k \in 1..Len(c.steps) : c.steps[k].reads \subseteq References(c)
  BY <1>2, <1>4
<1>6. c.emptyOutput # Null => c.emptyOutput \subseteq References(c)
  BY <1>3, <1>4
<1> QED
  BY <1>4, <1>5, <1>6

\* In a valid declaration what a reference names is one step, before it.
LEMMA OnePosition ==
  ASSUME NEW steps, Len(steps) \in Nat, StepsValid(steps), NEW ref, ref.step # Null, NEW n \in Nat,
         Earlier(steps, ref, n)
  PROVE  \E j \in 1..Len(steps) : j < n /\ PositionsOf(steps, ref.step) = {j}
<1>1. PICK j \in PositionsOf(steps, ref.step) : j < n
  BY DEF Earlier
<1>2. \A i \in PositionsOf(steps, ref.step) : i = j
  BY DEF PositionsOf, StepsValid
<1> QED
  BY <1>1, <1>2 DEF PositionsOf

\* At most one step is the source.
LEMMA OneSource ==
  ASSUME NEW c, Len(c.steps) \in Nat, EmptyPolicyValid(c), NEW j \in Sources(c), NEW k \in Sources(c)
  PROVE  j = k
<1> SUFFICES ASSUME j # k PROVE FALSE
  OBVIOUS
<1>1. IsFiniteSet(Sources(c))
  <2>1. IsFiniteSet(1..Len(c.steps))
    BY FS_Interval
  <2>2. Sources(c) \subseteq 1..Len(c.steps)
    BY DEF Sources
  <2> QED
    BY <2>1, <2>2, FS_Subset
<1>2. Cardinality({j, k}) = 2
  <2>1. IsFiniteSet({j}) /\ Cardinality({j}) = 1
    BY FS_Singleton
  <2>2. Cardinality({j} \cup {k}) = 2
    <3> DEFINE S == {j}
    <3>1. IsFiniteSet(S) /\ Cardinality(S) = 1 /\ k \notin S
      BY <2>1
    <3> HIDE DEF S
    <3>2. Cardinality(S \cup {k}) = Cardinality(S) + 1
      BY <3>1, FS_AddElement
    <3>3. Cardinality(S \cup {k}) = 2
      BY <3>1, <3>2
    <3> QED
      BY <3>3 DEF S
  <2>3. {j, k} = {j} \cup {k}
    OBVIOUS
  <2> QED
    BY <2>2, <2>3
<1>3. Cardinality({j, k}) <= Cardinality(Sources(c))
  BY <1>1, FS_Subset
<1>4. Cardinality(Sources(c)) \in Nat
  BY <1>1, FS_CardinalityType
<1> QED
  BY <1>2, <1>3, <1>4 DEF EmptyPolicyValid

\* A path that is read leads to null, or to what is in the field, or into it;
\* it raises where there is no dict.
LEMMA LookTyped ==
  ASSUME NEW out \in Output, NEW path, path.field \in Field, path.deep \in BOOLEAN
  PROVE  /\ Look(out, path) \in Value \cup {"inner", "raises"}
         /\ Look(out, path) = "raises" => LeadsAstray(path, out)
<1> DEFINE value == out[path.field]
<1>1. value \in Value
  BY DEF Output
<1>2. Look(out, path) =
        IF value = "absent" THEN "null"
        ELSE IF ~ path.deep THEN value
        ELSE CASE value = "object" -> "inner"
               [] value \in {"hollow", "nodict"} -> "null"
               [] OTHER -> "raises"
  BY DEF Look
<1>3. LeadsAstray(path, out) <=> path.deep /\ value \in {"null", "nolist", "list", "notext", "scalar"}
  BY DEF LeadsAstray
<1> HIDE DEF value
<1> QED
  BY <1>1, <1>2, <1>3 DEF Value, Empty, Filled

\* What is empty by the rules has found nothing, and what is not has.
LEMMA EmptyFindsNothing ==
  ASSUME NEW step \in StepDeclaration, NEW out \in Output, ~ PathRaises(step, out)
  PROVE  /\ IsEmptyForStep(step, out) => NothingFound(step, out)
         /\ ~ IsEmptyForStep(step, out) => Found(step, out)
<1>1. /\ Fields = <<"accounts", "notes">> /\ Len(Fields) = 2
      /\ Fields[1] = "accounts" /\ Fields[2] = "notes"
  BY DEF Fields
<1>2. Field = {"accounts", "notes"}
  BY <1>1 DEF Field
<1>3. /\ out["accounts"] \in Value /\ out["notes"] \in Value
      /\ step.path \in Path \cup {Null}
  BY <1>2 DEF Output, StepDeclaration
<1> DEFINE lists == {k \in 1..Len(Fields) : out[Fields[k]] \in {"list", "nolist"}}
<1>4. lists # {} => Min(lists) \in lists
  <2>1. lists \subseteq {1, 2}
    BY <1>1
  <2>2. lists # {} => \E x \in lists : \A y \in lists : x <= y
    BY <2>1
  <2> QED
    BY <2>2 DEF Min
<1>5. lists # {} => \E f \in Field : out[Fields[Min(lists)]] = out[f] /\ out[f] \in {"list", "nolist"}
  BY <1>1, <1>2, <1>4
<1>6. lists = {} => out["accounts"] \notin {"list", "nolist"} /\ out["notes"] \notin {"list", "nolist"}
  BY <1>1
<1>7. IsEmptyForStep(step, out) <=>
        IF step.path # Null THEN IsEmpty(Look(out, step.path))
        ELSE IF lists # {} THEN out[Fields[Min(lists)]] = "nolist"
        ELSE \A f \in Field : out[f] = "absent" \/ IsEmpty(out[f])
  BY DEF IsEmptyForStep
<1>8. \A f \in Field : out[f] \in Value
  BY <1>2, <1>3
<1> HIDE DEF lists
<1>9. CASE step.path # Null
  <2>1. step.path.field \in Field /\ step.path.deep \in BOOLEAN
    BY <1>3, <1>9 DEF Path
  <2> DEFINE value == out[step.path.field]
             deep == step.path.deep
  <2>2. value \in Value
    BY <1>8, <2>1
  <2>3. Look(out, step.path) # "raises" /\ (IsEmptyForStep(step, out) <=> IsEmpty(Look(out, step.path)))
    BY <1>7, <1>9 DEF PathRaises
  <2>4. Look(out, step.path) =
          IF value = "absent" THEN "null"
          ELSE IF ~ deep THEN value
          ELSE CASE value = "object" -> "inner"
                 [] value \in {"hollow", "nodict"} -> "null"
                 [] OTHER -> "raises"
    BY DEF Look
  <2>5. /\ Found(step, out) <=> value \in (IF deep THEN {"object"} ELSE Filled)
        /\ NothingFound(step, out) <=>
             value \in (IF deep THEN {"absent", "nodict", "hollow"} ELSE Empty \cup {"absent"})
    BY <1>9 DEF Found, NothingFound
  <2> HIDE DEF value, deep
  <2> QED
    BY <2>2, <2>3, <2>4, <2>5 DEF IsEmpty, Value, Empty, Filled
<1>10. CASE step.path = Null
  <2>1. /\ Found(step, out) <=> \E f \in Field : out[f] \in Filled
        /\ NothingFound(step, out) <=> \E f \in Field : out[f] \in Empty \cup {"absent"}
    BY <1>10 DEF Found, NothingFound
  <2>2. CASE lists # {}
    BY <1>5, <1>7, <1>10, <2>1, <2>2 DEF Filled, Empty
  <2>3. CASE lists = {}
    <3>1. IsEmptyForStep(step, out) <=> \A f \in Field : out[f] = "absent" \/ IsEmpty(out[f])
      BY <1>7, <1>10, <2>3
    <3> QED
      BY <1>2, <1>8, <2>1, <3>1 DEF IsEmpty, Value, Empty, Filled
  <2> QED
    BY <2>2, <2>3
<1> QED
  BY <1>9, <1>10

\* An answer ends the run in one way, or not at all.
LEMMA AnswerLeads ==
  ASSUME NEW step, NEW out
  PROVE  AnswerOutcome(step, out) =
           IF step.source /\ PathRaises(step, out) THEN "type_error"
           ELSE IF step.source /\ IsEmptyForStep(step, out) THEN EmptyOutcome(out) ELSE "running"
<1>1. PathRaises(step, out) => ~ IsEmptyForStep(step, out)
  BY DEF PathRaises, IsEmptyForStep, IsEmpty, Empty
<1> QED
  BY <1>1 DEF AnswerOutcome

\* What is true of the declaration that runs.
LEMMA RunningDeclaration ==
  ASSUME comp \in Declarations, ValidComposition(comp)
  PROVE  /\ comp.steps \in Seq(StepDeclaration) /\ Len(comp.steps) \in Nat
         /\ \A k \in 1..Len(comp.steps) :
              comp.steps[k] \in StepDeclaration /\ comp.steps[k].reads \subseteq Reference
         /\ comp.output \subseteq Reference
         /\ comp.emptyOutput # Null => comp.emptyOutput \subseteq Reference
         /\ comp.onEmpty \in {"success", "clarify", "deny", Null}
         /\ StepsValid(comp.steps) /\ EmptyPolicyValid(comp)
<1>1. comp \in CompositionDeclaration
  BY CompositionAssumption
<1>2. comp.steps \in Seq(StepDeclaration)
  BY <1>1 DEF CompositionDeclaration
<1>3. ASSUME NEW k \in 1..Len(comp.steps)
      PROVE  comp.steps[k] \in StepDeclaration /\ comp.steps[k].reads \subseteq Reference
  <2>1. comp.steps[k] \in StepDeclaration
    BY <1>2
  <2> QED
    BY <2>1 DEF StepDeclaration
<1> QED
  BY <1>1, <1>2, <1>3 DEF CompositionDeclaration, ValidComposition

\* A reference to a step that has answered is read from its answer.
LEMMA ResolveReads ==
  ASSUME outputs \in Seq(Answers), NEW ref \in Reference, ref.step # Null, NEW j \in 1..Len(outputs),
         PositionsOf(comp.steps, ref.step) = {j}
  PROVE  Resolve(ref) = Look(outputs[j], ref)
<1> DEFINE ran == {k \in PositionsOf(comp.steps, ref.step) : k <= Len(outputs)}
<1>1. ran = {j}
  OBVIOUS
<1>2. (CHOOSE k \in ran : TRUE) = j
  BY <1>1
<1>3. Resolve(ref) = IF ran = {} THEN "null" ELSE Look(outputs[CHOOSE k \in ran : TRUE], ref)
  BY DEF Resolve
<1> QED
  BY <1>1, <1>2, <1>3

\* A reading is of the declared type, and raises only where it leads astray.
LEMMA ResolveTyped ==
  ASSUME outputs \in Seq(Answers), parentInput \in ParentInputs, NEW ref \in Reference
  PROVE  /\ Resolve(ref) \in Value \cup {"inner", "raises"}
         /\ Resolve(ref) = "raises" => Astray(ref)
<1>1. ref.field \in Field /\ ref.deep \in BOOLEAN
  BY DEF Reference
<1>2. CASE ref.step = Null
  <2>1. parentInput \in Output /\ Resolve(ref) = Look(parentInput, ref)
    BY <1>2, CompositionAssumption DEF Resolve
  <2> QED
    BY <1>1, <1>2, <2>1, LookTyped DEF Astray
<1>3. CASE ref.step # Null
  <2> DEFINE ran == {k \in PositionsOf(comp.steps, ref.step) : k <= Len(outputs)}
             j == CHOOSE k \in ran : TRUE
  <2>1. Resolve(ref) = IF ran = {} THEN "null" ELSE Look(outputs[j], ref)
    BY <1>3 DEF Resolve
  <2>2. CASE ran = {}
    BY <2>1, <2>2 DEF Value, Empty
  <2>3. CASE ran # {}
    <3>1. j \in ran
      BY <2>3
    <3>2. j \in 1..Len(outputs) /\ comp.steps[j].id = ref.step
      BY <3>1 DEF PositionsOf
    <3> HIDE DEF j, ran
    <3>3. outputs[j] \in Output
      BY <3>2, CompositionAssumption
    <3>4. /\ Look(outputs[j], ref) \in Value \cup {"inner", "raises"}
          /\ Look(outputs[j], ref) = "raises" => LeadsAstray(ref, outputs[j])
      BY <1>1, <3>3, LookTyped
    <3> QED
      BY <2>1, <2>3, <3>2, <3>4 DEF Astray
  <2> QED
    BY <2>2, <2>3
<1> QED
  BY <1>2, <1>3

-----------------------------------------------------------------------------
(* The steps                                                               *)

\* Nothing has run at first, and nothing has when a declaration is registered.
LEMMA FirstSteps ==
  /\ CompositionInit => CInv
  /\ \A c \in Declarations : CInv /\ RegisterComposition(c) => CInv'
<1>1. ASSUME CompositionInit PROVE CInv
  BY <1>1 DEF CompositionInit, CInv, CompositionTyped, Registered, SourcesFound,
     ReferencesResolve, OutcomeFollowsPolicy, ChildFailure
<1>2. ASSUME NEW c \in Declarations, CInv, RegisterComposition(c) PROVE CInv'
  <2>1. /\ outputs = <<>> /\ inputs = <<>> /\ UNCHANGED <<parentInput, outputs, inputs>>
        /\ comp' = c
        /\ stage' = IF ValidComposition(c) THEN "accepted" ELSE "rejected"
    BY <1>2 DEF RegisterComposition, CInv, Registered
  <2>2. stage' = "accepted" => ValidComposition(comp)'
    BY <2>1 DEF ValidComposition, StepsValid, EmptyPolicyValid, Sources, Earlier, PositionsOf
  <2>3. Len(c.steps) \in Nat
    BY CompositionAssumption DEF CompositionDeclaration
  <2>4. CompositionTyped' /\ Registered'
    BY <2>1, <2>2, <2>3 DEF CompositionTyped, Registered
  <2>5. SourcesFound' /\ ReferencesResolve'
    BY <2>1 DEF SourcesFound, ReferencesResolve, Sources
  <2>6. OutcomeFollowsPolicy'
    BY <2>1 DEF OutcomeFollowsPolicy, ChildFailure
  <2> QED
    BY <2>4, <2>5, <2>6 DEF CInv
<1> QED
  BY <1>1, <1>2

\* Invoking the capability: nothing has run yet.
LEMMA InvokeStep ==
  ASSUME CInv, NEW in \in ParentInputs, ExecuteComposition(in)
  PROVE  CInv'
<1>1. /\ stage = "accepted" /\ stage' = "running" /\ parentInput' = in
      /\ UNCHANGED <<comp, outputs, inputs>> /\ outputs = <<>> /\ inputs = <<>>
  BY DEF ExecuteComposition, CInv, Registered
<1>2. CompositionTyped' /\ Registered'
  BY <1>1 DEF CInv, CompositionTyped, Registered, ValidComposition, StepsValid, EmptyPolicyValid,
     Sources, Earlier, PositionsOf
<1>3. SourcesFound' /\ ReferencesResolve'
  BY <1>1 DEF SourcesFound, ReferencesResolve, Sources
<1>4. OutcomeFollowsPolicy'
  BY <1>1 DEF OutcomeFollowsPolicy, ChildFailure
<1> QED
  BY <1>2, <1>3, <1>4 DEF CInv

\* Calling a child: it is given what the steps before it have answered.
LEMMA CallGives ==
  ASSUME CInv, CallChild, UNCHANGED <<comp, parentInput>>,
         outputs' = outputs \/ \E out \in Answers : outputs' = Append(outputs, out)
  PROVE  /\ comp \in Declarations /\ ValidComposition(comp) /\ parentInput \in ParentInputs
         /\ Len(outputs) \in Nat /\ Len(inputs) = Len(outputs) /\ Len(outputs) < Len(comp.steps)
         /\ inputs' \in Seq(Readings) /\ Len(inputs') = Len(inputs) + 1
         /\ \A k \in 1..Len(inputs') : \A ref \in comp.steps[k].reads :
              \/ ref.step = Null /\ inputs'[k][ref] = Look(parentInput', ref)
              \/ \E j \in 1..(k - 1) : /\ PositionsOf(comp.steps, ref.step) = {j}
                                        /\ inputs'[k][ref] = Look(outputs'[j], ref)
<1> DEFINE n == Len(outputs) + 1
           step == comp.steps[n]
<1>1. /\ stage = "running" /\ Len(outputs) < Len(comp.steps) /\ inputs' = Append(inputs, Given)
  BY DEF CallChild
<1>2. /\ comp \in Declarations /\ ValidComposition(comp) /\ Len(inputs) = Len(outputs)
      /\ parentInput \in ParentInputs /\ parentInput' = parentInput
      /\ outputs \in Seq(Answers) /\ inputs \in Seq(Readings) /\ Len(outputs) \in Nat
  BY <1>1 DEF CInv, CompositionTyped, Registered
<1>3. /\ Len(comp.steps) \in Nat /\ StepsValid(comp.steps)
      /\ n \in 1..Len(comp.steps) /\ step.reads \subseteq Reference
  <2>1. Len(comp.steps) \in Nat /\ StepsValid(comp.steps)
    BY <1>2, RunningDeclaration
  <2>2. n \in 1..Len(comp.steps)
    BY <1>1, <1>2, <2>1
  <2> QED
    BY <1>2, <2>1, <2>2, RunningDeclaration
<1>4. Given = [ref \in step.reads |-> Resolve(ref)]
  BY DEF Given, Current
<1>5. Given \in Readings
  <2>1. \A ref \in step.reads : Resolve(ref) \in Value \cup {"inner", "raises"}
    BY <1>2, <1>3, ResolveTyped
  <2> HIDE DEF step
  <2>2. Given \in [step.reads -> Value \cup {"inner", "raises"}]
    BY <1>4, <2>1
  <2> QED
    BY <1>3, <2>2 DEF Readings
<1>6. /\ inputs' \in Seq(Readings) /\ Len(inputs') = n /\ inputs'[n] = Given
      /\ \A k \in 1..Len(inputs) : inputs'[k] = inputs[k]
  BY <1>1, <1>2, <1>5
<1>7. \A j \in 1..Len(outputs) : outputs'[j] = outputs[j]
  BY <1>2
<1>8. ASSUME NEW k \in 1..n, NEW ref \in comp.steps[k].reads
      PROVE  \/ ref.step = Null /\ inputs'[k][ref] = Look(parentInput', ref)
             \/ \E j \in 1..(k - 1) : /\ PositionsOf(comp.steps, ref.step) = {j}
                                       /\ inputs'[k][ref] = Look(outputs'[j], ref)
  <2>1. CASE k = n
    <3>1. Earlier(comp.steps, ref, n) /\ ref \in Reference /\ n \in Nat
      BY <1>2, <1>3, <1>8, <2>1 DEF StepsValid
    <3>2. inputs'[k][ref] = Resolve(ref)
      BY <1>4, <1>6, <1>8, <2>1
    <3>3. CASE ref.step = Null
      BY <1>2, <3>2, <3>3 DEF Resolve
    <3>4. CASE ref.step # Null
      <4>1. PICK j \in 1..Len(comp.steps) : j < n /\ PositionsOf(comp.steps, ref.step) = {j}
        BY <1>3, <3>1, <3>4, OnePosition
      <4>2. j \in 1..Len(outputs) /\ j \in 1..(k - 1)
        BY <1>2, <1>3, <2>1, <4>1
      <4>3. Resolve(ref) = Look(outputs[j], ref)
        BY <1>2, <3>1, <3>4, <4>1, <4>2, ResolveReads
      <4> QED
        BY <1>7, <3>2, <4>1, <4>2, <4>3
    <3> QED
      BY <3>3, <3>4
  <2>2. CASE k # n
    <3>1. k \in 1..Len(inputs) /\ 1..(k - 1) \subseteq 1..Len(outputs)
      BY <1>2, <2>2
    <3>2. \/ ref.step = Null /\ inputs[k][ref] = Look(parentInput, ref)
          \/ \E j \in 1..(k - 1) : /\ PositionsOf(comp.steps, ref.step) = {j}
                                    /\ inputs[k][ref] = Look(outputs[j], ref)
      BY <1>8, <3>1 DEF CInv, ReferencesResolve
    <3>3. inputs'[k] = inputs[k]
      BY <1>6, <3>1
    <3>4. CASE ref.step = Null /\ inputs[k][ref] = Look(parentInput, ref)
      BY <1>2, <3>3, <3>4
    <3>5. ASSUME NEW j \in 1..(k - 1), PositionsOf(comp.steps, ref.step) = {j},
                 inputs[k][ref] = Look(outputs[j], ref)
          PROVE  PositionsOf(comp.steps, ref.step) = {j} /\ inputs'[k][ref] = Look(outputs'[j], ref)
      BY <1>7, <3>1, <3>3, <3>5
    <3> QED
      BY <3>2, <3>4, <3>5
  <2> QED
    BY <2>1, <2>2
<1> QED
  BY <1>1, <1>2, <1>6, <1>8

\* A run that ends without a child having been called, or that concludes.
LEMMA EndsHere ==
  ASSUME CInv, stage = "running", UNCHANGED <<comp, parentInput, outputs, inputs>>,
         \/ /\ stage' = "type_error"
            /\ \E ref \in References(comp) : ref \in Reference /\ Resolve(ref) = "raises"
         \/ stage' = "success" /\ Len(outputs) = Len(comp.steps)
  PROVE  CInv'
<1>1. /\ comp \in Declarations /\ ValidComposition(comp)
      /\ outputs \in Seq(Answers) /\ inputs \in Seq(Readings)
      /\ Len(inputs) = Len(outputs) /\ Len(outputs) \in Nat /\ Len(outputs) <= Len(comp.steps)
      /\ parentInput \in ParentInputs
  BY DEF CInv, CompositionTyped, Registered
<1>2. CompositionTyped' /\ Registered'
  BY <1>1 DEF CompositionTyped, Registered, ValidComposition, StepsValid, EmptyPolicyValid,
     Sources, Earlier, PositionsOf
<1>3. SourcesFound'
  BY DEF CInv, SourcesFound, Sources, Found
<1>4. ReferencesResolve'
  <2>1. ASSUME Len(outputs) = Len(comp.steps), NEW ref \in comp.output, ref.step # Null
        PROVE  \E j \in 1..Len(outputs) : PositionsOf(comp.steps, ref.step) = {j}
    <3>1. Len(comp.steps) \in Nat /\ StepsValid(comp.steps)
      BY <1>1, RunningDeclaration
    <3>2. Len(comp.steps) + 1 \in Nat /\ Earlier(comp.steps, ref, Len(comp.steps) + 1)
      BY <1>1, <2>1, <3>1 DEF ValidComposition
    <3>3. PICK j \in 1..Len(comp.steps) : PositionsOf(comp.steps, ref.step) = {j}
      BY <2>1, <3>1, <3>2, OnePosition
    <3> QED
      BY <2>1, <3>3
  <2>2. \A k \in 1..Len(inputs) : \A ref \in comp.steps[k].reads :
          \/ ref.step = Null /\ inputs[k][ref] = Look(parentInput, ref)
          \/ \E j \in 1..(k - 1) : /\ PositionsOf(comp.steps, ref.step) = {j}
                                    /\ inputs[k][ref] = Look(outputs[j], ref)
    BY DEF CInv, ReferencesResolve
  <2>3. stage' # "no_results" /\ (stage' = "success" => Len(outputs) = Len(comp.steps))
    OBVIOUS
  <2> QED
    BY <2>1, <2>2, <2>3 DEF ReferencesResolve, PositionsOf, Look
<1>5. OutcomeFollowsPolicy'
  <2>1. CASE stage' = "type_error"
    <3>1. \E ref \in References(comp) : Astray(ref)
      BY <1>1, <2>1, ResolveTyped
    <3>2. (\E ref \in References(comp) : Astray(ref))'
      BY <3>1 DEF References, Astray, LeadsAstray
    <3> QED
      BY <2>1, <3>2 DEF OutcomeFollowsPolicy, ChildFailure
  <2>2. CASE stage' = "success" /\ Len(outputs) = Len(comp.steps)
    <3>1. \A k \in Sources(comp) : Found(comp.steps[k], outputs[k])
      BY <2>2 DEF CInv, SourcesFound, Sources
    <3> QED
      BY <2>2, <3>1 DEF OutcomeFollowsPolicy, ChildFailure, Sources, Found
  <2> QED
    BY <2>1, <2>2
<1> QED
  BY <1>2, <1>3, <1>4, <1>5 DEF CInv

\* A child that fails ends the run as the policy of its class says.
LEMMA FailStep ==
  ASSUME CInv, NEW type \in ChildFailure, ChildFails(type)
  PROVE  CInv'
<1>1. /\ CallChild /\ UNCHANGED <<comp, parentInput, outputs>> /\ stage = "running"
      /\ stage' = IF comp.policy[FailureClass(type)] = "fail_parent"
                  THEN "composition_child_failed" ELSE type
  BY DEF ChildFails, CallChild
<1>2. /\ comp \in Declarations /\ ValidComposition(comp)
      /\ parentInput \in ParentInputs /\ outputs \in Seq(Answers)
      /\ Len(outputs) \in Nat /\ Len(inputs) = Len(outputs) /\ Len(outputs) < Len(comp.steps)
      /\ inputs' \in Seq(Readings) /\ Len(inputs') = Len(inputs) + 1
      /\ \A k \in 1..Len(inputs') : \A ref \in comp.steps[k].reads :
           \/ ref.step = Null /\ inputs'[k][ref] = Look(parentInput', ref)
           \/ \E j \in 1..(k - 1) : /\ PositionsOf(comp.steps, ref.step) = {j}
                                     /\ inputs'[k][ref] = Look(outputs'[j], ref)
  BY <1>1, CallGives DEF CInv, CompositionTyped
<1>3. stage' \in ChildFailure \cup {"composition_child_failed"}
  BY <1>1
<1>4. CompositionTyped'
  BY <1>1, <1>2 DEF CompositionTyped
<1>5. Registered'
  <2>1. ValidComposition(comp)'
    BY <1>1, <1>2 DEF ValidComposition, StepsValid, EmptyPolicyValid, Sources, Earlier, PositionsOf
  <2>2. Len(comp.steps) \in Nat
    BY <1>2, RunningDeclaration
  <2> QED
    BY <1>1, <1>2, <1>3, <2>1, <2>2 DEF Registered, ChildFailure
<1>6. SourcesFound'
  BY <1>3 DEF SourcesFound, ChildFailure
<1>7. ReferencesResolve'
  BY <1>1, <1>2, <1>3 DEF ReferencesResolve, ChildFailure, PositionsOf, Look
<1>8. OutcomeFollowsPolicy'
  <2>1. Len(inputs') = Len(outputs') + 1
    BY <1>1, <1>2
  <2>2. comp.policy \in [{"approval", "denial", "clarification", "error"} -> Policy]
    BY <1>2, CompositionAssumption DEF CompositionDeclaration
  <2>3. FailureClass(type) \in {"approval", "denial", "clarification", "error"}
    BY DEF FailureClass
  <2>4. CASE comp.policy[FailureClass(type)] = "fail_parent"
    <3>1. stage' = "composition_child_failed"
      BY <1>1, <2>4
    <3>2. \E class \in DOMAIN comp'.policy : comp'.policy[class] = "fail_parent"
      BY <1>1, <2>2, <2>3, <2>4
    <3> QED
      BY <2>1, <3>1, <3>2 DEF OutcomeFollowsPolicy, ChildFailure
  <2>5. CASE comp.policy[FailureClass(type)] # "fail_parent"
    <3>1. stage' = type
      BY <1>1, <2>5
    <3>2. comp.policy[FailureClass(type)] = "propagate"
      BY <2>2, <2>3, <2>5 DEF Policy
    <3>3. comp'.policy[FailureClass(stage')] = "propagate"
      BY <1>1, <3>1, <3>2
    <3>4. FailureClass(stage)' = FailureClass(stage')
      BY DEF FailureClass
    <3> QED
      BY <2>1, <3>1, <3>3, <3>4 DEF OutcomeFollowsPolicy, ChildFailure
  <2> QED
    BY <2>4, <2>5
<1> QED
  BY <1>4, <1>5, <1>6, <1>7, <1>8 DEF CInv

\* A child that answers: the run goes on, or it is the source that found nothing.
LEMMA ChildAnswersStep ==
  ASSUME CInv, NEW out \in Answers, ChildAnswers(out)
  PROVE  CInv'
<1> DEFINE n == Len(outputs) + 1
           step == comp.steps[n]
           astray == step.source /\ PathRaises(step, out)
           empty == ~ astray /\ step.source /\ IsEmptyForStep(step, out)
<1>1. /\ CallChild /\ UNCHANGED <<comp, parentInput>> /\ stage = "running"
      /\ outputs' = Append(outputs, out)
      /\ stage' = IF astray THEN "type_error" ELSE IF empty THEN EmptyOutcome(out) ELSE "running"
  BY AnswerLeads DEF ChildAnswers, CallChild, Current
<1>2. /\ comp \in Declarations /\ ValidComposition(comp)
      /\ parentInput \in ParentInputs /\ outputs \in Seq(Answers)
      /\ Len(outputs) \in Nat /\ Len(inputs) = Len(outputs) /\ Len(outputs) < Len(comp.steps)
      /\ inputs' \in Seq(Readings) /\ Len(inputs') = Len(inputs) + 1
      /\ \A k \in 1..Len(inputs') : \A ref \in comp.steps[k].reads :
           \/ ref.step = Null /\ inputs'[k][ref] = Look(parentInput', ref)
           \/ \E j \in 1..(k - 1) : /\ PositionsOf(comp.steps, ref.step) = {j}
                                     /\ inputs'[k][ref] = Look(outputs'[j], ref)
  BY <1>1, CallGives DEF CInv, CompositionTyped
<1>3. /\ Len(comp.steps) \in Nat /\ n \in 1..Len(comp.steps) /\ n \in Nat
      /\ step \in StepDeclaration /\ out \in Output
      /\ EmptyPolicyValid(comp)
      /\ comp.onEmpty \in {"success", "clarify", "deny", Null}
      /\ comp.emptyOutput # Null => comp.emptyOutput \subseteq Reference
  <2>1. Len(comp.steps) \in Nat
    BY <1>2, RunningDeclaration
  <2>2. n \in 1..Len(comp.steps)
    BY <1>2, <2>1
  <2> QED
    BY <1>2, <2>1, <2>2, RunningDeclaration, CompositionAssumption
<1>4. /\ Len(outputs') = n /\ outputs' \in Seq(Answers) /\ outputs'[n] = out
      /\ \A k \in 1..Len(outputs) : outputs'[k] = outputs[k]
  BY <1>1, <1>2
<1>5. /\ empty => NothingFound(step, out)
      /\ step.source /\ ~ astray /\ ~ empty => Found(step, out)
  BY <1>3, EmptyFindsNothing
<1>6. empty \/ astray => n \in Sources(comp)
  BY <1>3 DEF Sources
<1>7. ValidComposition(comp)'
  BY <1>1, <1>2 DEF ValidComposition, StepsValid, EmptyPolicyValid, Sources, Earlier, PositionsOf
\* What is declared for an empty result refers to the input or to this source.
<1>8. ASSUME empty, comp.onEmpty = "success"
      PROVE  comp.emptyOutput # Null /\ \A ref \in comp.emptyOutput : ref.step \in {Null, step.id}
  <2>1. PICK k \in Sources(comp) : \A ref \in comp.emptyOutput : ref.step \in {Null, comp.steps[k].id}
    BY <1>3, <1>8 DEF EmptyPolicyValid
  <2>2. k = n
    BY <1>3, <1>6, <1>8, OneSource
  <2> QED
    BY <1>3, <1>8, <2>1, <2>2 DEF EmptyPolicyValid
\* What becomes of a run whose source found nothing.
<1>9. ASSUME empty
      PROVE  \/ comp.onEmpty = "clarify" /\ stage' = "empty_clarification_required"
             \/ comp.onEmpty = "deny" /\ stage' = "empty_denied"
             \/ /\ comp.onEmpty = "success" /\ comp.emptyOutput # Null
                /\ \/ stage' = "no_results"
                   \/ /\ stage' = "type_error"
                      /\ \E ref \in comp.emptyOutput :
                           LeadsAstray(ref, IF ref.step = Null THEN parentInput ELSE out)
  <2>1. stage' = EmptyOutcome(out)
    BY <1>1, <1>9
  <2>2. comp.onEmpty # Null
    BY <1>3, <1>6, <1>9 DEF EmptyPolicyValid
  <2>3. CASE comp.onEmpty = "success"
    <3>1. comp.emptyOutput # Null
      BY <1>8, <1>9, <2>3
    <3>2. ASSUME NEW ref \in comp.emptyOutput, ResolveEmpty(ref, out) = "raises"
          PROVE  LeadsAstray(ref, IF ref.step = Null THEN parentInput ELSE out)
      <4>1. ref.field \in Field /\ ref.deep \in BOOLEAN
        BY <1>3, <3>1 DEF Reference
      <4>2. parentInput \in Output
        BY <1>2, CompositionAssumption
      <4>3. CASE ref.step = Null
        BY <3>2, <4>1, <4>2, <4>3, LookTyped DEF ResolveEmpty
      <4>4. CASE ref.step # Null
        BY <1>3, <3>2, <4>1, <4>4, LookTyped DEF ResolveEmpty
      <4> QED
        BY <4>3, <4>4
    <3> QED
      BY <2>1, <2>3, <3>1, <3>2 DEF EmptyOutcome
  <2>4. CASE comp.onEmpty \in {"clarify", "deny"}
    BY <2>1, <2>4 DEF EmptyOutcome
  <2> QED
    BY <1>3, <2>2, <2>3, <2>4
\* What is so where the declared path leads into something that is no dict.
<1>10. ASSUME astray
       PROVE  /\ stage' = "type_error" /\ step.path # Null /\ LeadsAstray(step.path, out)
  <2>1. step.path # Null /\ Look(out, step.path) = "raises"
    BY <1>10 DEF PathRaises
  <2>2. step.path.field \in Field /\ step.path.deep \in BOOLEAN
    BY <1>3, <2>1 DEF StepDeclaration, Path
  <2>3. LeadsAstray(step.path, out)
    BY <1>3, <2>1, <2>2, LookTyped
  <2> QED
    BY <1>1, <1>10, <2>1, <2>3
<1> HIDE DEF empty, astray
<1>11. CompositionTyped' /\ Registered'
  <2>1. stage' \notin {"start", "rejected", "accepted"} /\ parentInput' \in ParentInputs
    BY <1>1, <1>2, <1>9
  <2> QED
    BY <1>1, <1>2, <1>3, <1>4, <1>7, <2>1 DEF CompositionTyped, Registered
<1>12. SourcesFound'
  <2> SUFFICES ASSUME stage' \in {"running", "success"},
                      NEW k \in Sources(comp), k <= n
               PROVE  Found(comp.steps[k], outputs'[k])
    BY <1>1, <1>4 DEF SourcesFound, Sources, Found
  <2>1. ~ empty /\ ~ astray
    BY <1>9, <1>10
  <2>2. k \in 1..Len(comp.steps) /\ comp.steps[k].source
    BY DEF Sources
  <2>3. CASE k = n
    BY <1>4, <1>5, <2>1, <2>2, <2>3
  <2>4. CASE k # n
    <3>1. k \in 1..Len(outputs) /\ k <= Len(outputs)
      BY <1>2, <2>2, <2>4
    <3>2. Found(comp.steps[k], outputs[k])
      BY <1>1, <3>1 DEF CInv, SourcesFound
    <3> QED
      BY <1>4, <3>1, <3>2
  <2> QED
    BY <2>3, <2>4
<1>13. ReferencesResolve'
  <2>1. ASSUME stage' = "no_results", NEW ref \in comp.emptyOutput, ref.step # Null
        PROVE  ref.step = step.id
    <3>1. empty /\ comp.onEmpty = "success"
      BY <1>1, <1>9, <2>1
    <3> QED
      BY <1>8, <2>1, <3>1
  <2>2. stage' # "success"
    BY <1>1, <1>9
  <2>3. \A k \in 1..Len(inputs') : \A ref \in comp'.steps[k].reads :
          \/ ref.step = Null /\ inputs'[k][ref] = Look(parentInput', ref)
          \/ \E j \in 1..(k - 1) : /\ PositionsOf(comp'.steps, ref.step) = {j}
                                    /\ inputs'[k][ref] = Look(outputs'[j], ref)
    BY <1>1, <1>2 DEF PositionsOf
  <2>4. stage' = "no_results" => \A ref \in comp'.emptyOutput :
          ref.step # Null => ref.step = comp'.steps[Len(outputs')].id
    BY <1>1, <1>4, <2>1
  <2> QED
    BY <2>2, <2>3, <2>4 DEF ReferencesResolve, Look, PositionsOf
<1>14. OutcomeFollowsPolicy'
  <2>1. CASE ~ empty /\ ~ astray
    BY <1>1, <2>1 DEF OutcomeFollowsPolicy, ChildFailure
  <2>2. CASE empty
    <3>1. /\ comp' = comp /\ comp'.steps[Len(outputs')].source
          /\ NothingFound(comp'.steps[Len(outputs')], outputs'[Len(outputs')])
      BY <1>1, <1>4, <1>5, <2>2 DEF empty
    <3> HIDE DEF step, n
    <3>2. CASE comp.onEmpty = "clarify" /\ stage' = "empty_clarification_required"
      BY <3>1, <3>2 DEF OutcomeFollowsPolicy, ChildFailure, NothingFound
    <3>3. CASE comp.onEmpty = "deny" /\ stage' = "empty_denied"
      BY <3>1, <3>3 DEF OutcomeFollowsPolicy, ChildFailure, NothingFound
    <3>4. CASE comp.onEmpty = "success" /\ comp.emptyOutput # Null /\ stage' = "no_results"
      BY <3>1, <3>4 DEF OutcomeFollowsPolicy, ChildFailure, NothingFound
    <3>5. CASE /\ comp.onEmpty = "success" /\ comp.emptyOutput # Null /\ stage' = "type_error"
               /\ \E ref \in comp.emptyOutput :
                    LeadsAstray(ref, IF ref.step = Null THEN parentInput ELSE out)
      <4>1. PICK ref \in comp.emptyOutput :
                   LeadsAstray(ref, IF ref.step = Null THEN parentInput ELSE out)
        BY <3>5
      <4>2. ref.step \in {Null, comp.steps[n].id}
        BY <1>8, <2>2, <3>5 DEF step
      <4>3. n \in 1..Len(outputs') /\ outputs'[n] = out
        BY <1>3, <1>4
      <4>4. Astray(ref)'
        BY <1>1, <4>1, <4>2, <4>3 DEF Astray, LeadsAstray
      <4>5. ref \in References(comp)'
        BY <1>1, <3>5, ReferencesHold DEF References
      <4>6. (\E r \in References(comp) : Astray(r))'
        BY <4>4, <4>5
      <4> QED
        BY <3>5, <4>6 DEF OutcomeFollowsPolicy, ChildFailure
    <3> QED
      BY <1>9, <2>2, <3>2, <3>3, <3>4, <3>5
  <2>3. CASE astray
    <3>1. Len(outputs') \in Sources(comp')
      BY <1>1, <1>4, <1>6, <2>3 DEF Sources
    <3>2. /\ comp'.steps[Len(outputs')].path # Null
          /\ LeadsAstray(comp'.steps[Len(outputs')].path, outputs'[Len(outputs')])
      BY <1>1, <1>4, <1>10, <2>3
    <3>3. stage' = "type_error"
      BY <1>10, <2>3
    <3> QED
      BY <3>1, <3>2, <3>3 DEF OutcomeFollowsPolicy, ChildFailure, Sources, LeadsAstray
  <2> QED
    BY <2>1, <2>2, <2>3
<1> QED
  BY <1>11, <1>12, <1>13, <1>14 DEF CInv

\* Every step keeps the invariant.
LEMMA NextCInv == CInv /\ [CompositionNext]_compositionVars => CInv'
<1> SUFFICES ASSUME CInv, [CompositionNext]_compositionVars PROVE CInv'
  OBVIOUS
<1>1. ASSUME NEW c \in Declarations, RegisterComposition(c) PROVE CInv'
  BY <1>1, FirstSteps
<1>2. ASSUME NEW type \in ChildFailure, ChildFails(type) PROVE CInv'
  BY <1>2, FailStep
<1>3. ASSUME NEW out \in Answers, ChildAnswers(out) PROVE CInv'
  BY <1>3, ChildAnswersStep
<1>4. CASE ReadRaises
  <2>1. /\ stage = "running" /\ Len(outputs) < Len(comp.steps) /\ stage' = "type_error"
        /\ UNCHANGED <<comp, parentInput, outputs, inputs>>
    BY <1>4 DEF ReadRaises
  <2>2. PICK ref \in comp.steps[Len(outputs) + 1].reads : Resolve(ref) = "raises"
    BY <1>4 DEF ReadRaises, Current
  <2>3. comp \in Declarations /\ ValidComposition(comp) /\ Len(outputs) \in Nat
    BY <2>1 DEF CInv, CompositionTyped, Registered
  <2>4. Len(outputs) + 1 \in 1..Len(comp.steps)
    BY <2>1, <2>3, RunningDeclaration
  <2>5. ref \in Reference
    BY <2>2, <2>3, <2>4, RunningDeclaration
  <2> QED
    BY <2>1, <2>2, <2>4, <2>5, ReferencesHold, EndsHere
<1>5. CASE Conclude
  <2>1. /\ stage = "running" /\ Len(outputs) = Len(comp.steps)
        /\ UNCHANGED <<comp, parentInput, outputs, inputs>>
    BY <1>5 DEF Conclude
  <2>2. comp.output \subseteq Reference
    BY <2>1, RunningDeclaration DEF CInv, Registered
  <2>3. CASE \E ref \in comp.output : Resolve(ref) = "raises"
    <3>1. stage' = "type_error"
      BY <1>5, <2>3 DEF Conclude
    <3>2. \E ref \in References(comp) : ref \in Reference /\ Resolve(ref) = "raises"
      BY <2>2, <2>3, ReferencesHold
    <3> QED
      BY <2>1, <3>1, <3>2, EndsHere
  <2>4. CASE ~ \E ref \in comp.output : Resolve(ref) = "raises"
    <3>1. stage' = "success"
      BY <1>5, <2>4 DEF Conclude
    <3> QED
      BY <2>1, <3>1, EndsHere
  <2> QED
    BY <2>3, <2>4
<1>6. CASE UNCHANGED compositionVars
  <2> USE <1>6 DEF compositionVars
  <2>1. CompositionTyped' /\ Registered'
    BY DEF CInv, CompositionTyped, Registered, ValidComposition, StepsValid, EmptyPolicyValid,
       Sources, Earlier, PositionsOf
  <2>2. SourcesFound'
    BY DEF CInv, SourcesFound, Sources, Found
  <2>3. ReferencesResolve'
    BY DEF CInv, ReferencesResolve, PositionsOf, Look
  <2>4. OutcomeFollowsPolicy'
    <3>1. (\E ref \in References(comp) : Astray(ref)) => (\E ref \in References(comp) : Astray(ref))'
      BY DEF References, Astray, LeadsAstray
    <3>2. FailureClass(stage)' = FailureClass(stage)
      BY DEF FailureClass
    <3> QED
      BY <3>1, <3>2 DEF CInv, OutcomeFollowsPolicy, Sources, Found, NothingFound, LeadsAstray
  <2> QED
    BY <2>1, <2>2, <2>3, <2>4 DEF CInv
<1>7. ASSUME NEW in \in ParentInputs, ExecuteComposition(in) PROVE CInv'
  BY <1>7, InvokeStep
<1> QED
  BY <1>1, <1>2, <1>3, <1>4, <1>5, <1>6, <1>7 DEF CompositionNext

\* In every reachable state the invariant holds.
LEMMA SpecCInv == CompositionSpec => []CInv
<1>1. CompositionInit => CInv
  BY FirstSteps
<1> QED
  BY <1>1, NextCInv, PTL DEF CompositionSpec

-----------------------------------------------------------------------------
(* Type correctness                                                        *)

\* How far the run is, and that it has a declaration once it started.
StageTyped ==
  stage \in Stage /\ parentInput \in ParentInputs \cup {Null} /\ (comp = Null <=> stage = "start")

\* Every step leads to one of the stages, and none back to the start.
LEMMA NextStageTyped == StageTyped /\ [CompositionNext]_compositionVars => StageTyped'
<1> SUFFICES ASSUME StageTyped, [CompositionNext]_compositionVars PROVE StageTyped'
  OBVIOUS
<1>1. ASSUME NEW c \in Declarations, RegisterComposition(c) PROVE StageTyped'
  BY <1>1, CompositionAssumption DEF StageTyped, RegisterComposition, Stage
<1>2. ASSUME NEW type \in ChildFailure, ChildFails(type) PROVE StageTyped'
  BY <1>2 DEF StageTyped, ChildFails, CallChild, Stage, ChildFailure
<1>3. ASSUME NEW out \in Answers, ChildAnswers(out) PROVE StageTyped'
  <2>1. EmptyOutcome(out) \in {"empty_clarification_required", "empty_denied", "type_error", "no_results"}
    BY DEF EmptyOutcome
  <2>2. /\ stage = "running" /\ UNCHANGED <<comp, parentInput>>
        /\ stage' \in {EmptyOutcome(out), "type_error", "running"}
    <3>1. stage = "running" /\ UNCHANGED <<comp, parentInput>> /\ stage' = AnswerOutcome(Current, out)
      BY <1>3 DEF ChildAnswers, CallChild
    <3> QED
      BY <3>1, AnswerLeads
  <2> QED
    BY <2>1, <2>2 DEF StageTyped, Stage
<1>4. CASE ReadRaises
  BY <1>4 DEF StageTyped, ReadRaises, Stage
<1>5. CASE Conclude
  BY <1>5 DEF StageTyped, Conclude, Stage
<1>6. CASE UNCHANGED compositionVars
  BY <1>6 DEF StageTyped, compositionVars
<1>7. ASSUME NEW in \in ParentInputs, ExecuteComposition(in) PROVE StageTyped'
  BY <1>7 DEF StageTyped, ExecuteComposition, Stage
<1> QED
  BY <1>1, <1>2, <1>3, <1>4, <1>5, <1>6, <1>7 DEF CompositionNext

\* Stages, answers and the lengths of the histories are those of a run, for any
\* declarations and answers.
THEOREM CompositionTypeCorrect == CompositionSpec => []CompositionTypeOK
<1>1. CompositionInit => StageTyped
  BY DEF CompositionInit, StageTyped, Stage
<1>2. CompositionSpec => []StageTyped
  BY <1>1, NextStageTyped, PTL DEF CompositionSpec
<1>3. CInv /\ StageTyped => CompositionTypeOK
  BY DEF CInv, CompositionTyped, Registered, StageTyped, CompositionTypeOK
<1> QED
  BY <1>2, <1>3, SpecCInv, PTL

-----------------------------------------------------------------------------
(* Theorems                                                                *)

\* For every declaration that is accepted, each reference that a step or the
\* result reads names one step that has answered before, and gets that answer.
THEOREM ReferencesAlwaysResolve == CompositionSpec => []ReferencesResolve
<1>1. CInv => ReferencesResolve
  BY DEF CInv
<1> QED
  BY <1>1, SpecCInv, PTL

\* Whatever the children answer, the outcome of a run is the one its policies
\* call for, and only a reference into a field can end it with a TypeError.
THEOREM OutcomesFollowPolicy == CompositionSpec => []OutcomeFollowsPolicy
<1>1. CInv => OutcomeFollowsPolicy
  BY DEF CInv
<1> QED
  BY <1>1, SpecCInv, PTL
=============================================================================
