----------------------------- MODULE Composition ------------------------------
(***************************************************************************)
(* Composed capabilities, anip_service/v023.py: validate_composition, which*)
(* ANIPService calls for every declaration it is built with, and           *)
(* execute_composition, which runs the steps of an accepted declaration    *)
(* through invoke_step, a callback that answers for one child capability.  *)
(*                                                                         *)
(* A reference is a field of the parent's input or of the output of a step *)
(* or, deep, a key of the object in that field, which stands for a path of *)
(* two segments or more.  empty_result_path is such a path, too.           *)
(***************************************************************************)
EXTENDS Integers, Sequences, SequencesExt, FiniteSets

CONSTANTS
  StepIds,
  Declarations,  \* what callers of ANIPService declare
  ParentInputs,  \* what callers invoke the composed capability with
  Answers,       \* outputs of the children
  Null           \* None, and the step of a reference to the parent's input

\* The fields of an output or input, in the order in which they were written.
Fields == <<"accounts", "notes">>
Field == {Fields[k] : k \in 1..Len(Fields)}

\* A field is left out, or is null, a list, a dict, text or something plain; the
\* first three of Empty are [], {} and "".  An object has the key that deep
\* paths ask for, a hollow one has others only.
Empty == {"nolist", "nodict", "notext", "null"}
Filled == {"list", "object", "hollow", "scalar"}
Value == {"absent"} \cup Empty \cup Filled
Output == [Field -> Value]

Path == [field : Field, deep : BOOLEAN]
Reference == [step : StepIds \cup {Null}, field : Field, deep : BOOLEAN]

\* A step reads references; the target says what its capability is.
StepDeclaration ==
  [id : StepIds, target : {"atomic", "composed", "self", "unknown"},
   reads : SUBSET Reference, source : BOOLEAN, path : Path \cup {Null}]

Policy == {"propagate", "fail_parent"}

\* mapped holds the keys of input_mapping, reads what is mapped for a step.
CompositionDeclaration ==
  [boundary : {"same_service", "other"}, steps : Seq(StepDeclaration),
   mapped : SUBSET StepIds,
   output : SUBSET Reference, onEmpty : {"success", "clarify", "deny", Null},
   emptyOutput : (SUBSET Reference) \cup {Null},
   policy : [{"approval", "denial", "clarification", "error"} -> Policy]]

ASSUME CompositionAssumption ==
  /\ Answers \subseteq Output /\ ParentInputs \subseteq Output
  /\ Declarations \subseteq CompositionDeclaration /\ Null \notin Declarations
  /\ \A c \in Declarations : \A k \in 1..Len(c.steps) :
       c.steps[k].reads # {} => c.steps[k].id \in c.mapped

VARIABLES
  comp,        \* the declaration, Null until one is registered
  stage,       \* "start", "rejected", "accepted", "running" or how the run ended
  parentInput, \* what the capability was invoked with, Null until it is
  outputs,     \* what the steps so far have answered, in their order
  inputs       \* what each step called so far was given for what it reads

compositionVars == <<comp, stage, parentInput, outputs, inputs>>

CompositionInit ==
  comp = Null /\ stage = "start" /\ parentInput = Null /\ outputs = <<>> /\ inputs = <<>>

-----------------------------------------------------------------------------
(* validate_composition                                                    *)

PositionsOf(steps, id) == {k \in 1..Len(steps) : steps[k].id = id}

Sources(c) == {k \in 1..Len(c.steps) : c.steps[k].source}

\* Mutant: a step may read its own output.
EarlierOrSame(steps, ref, k) == ref.step = Null \/ \E j \in PositionsOf(steps, ref.step) : j <= k

\* The parent's input, or a step before position k.
Earlier(steps, ref, k) == ref.step = Null \/ \E j \in PositionsOf(steps, ref.step) : j < k

StepsValid(steps) ==
  /\ steps # <<>>
  /\ \A j, k \in 1..Len(steps) : steps[j].id = steps[k].id => j = k
  /\ \A k \in 1..Len(steps) :
       /\ steps[k].target = "atomic"
       /\ \A ref \in steps[k].reads : Earlier(steps, ref, k)

\* empty_result_policy and empty_result_output fit together and to the source.
EmptyPolicyValid(c) ==
  /\ Cardinality(Sources(c)) <= 1
  /\ Sources(c) # {} => c.onEmpty # Null
  /\ c.onEmpty = "success" =>
       /\ c.emptyOutput # Null
       /\ \E k \in Sources(c) :
            \A ref \in c.emptyOutput : ref.step \in {Null, c.steps[k].id}
  /\ c.onEmpty \in {"clarify", "deny"} => c.emptyOutput = Null

ValidComposition(c) ==
  /\ c.boundary = "same_service"
  /\ StepsValid(c.steps)
  /\ \A id \in c.mapped : PositionsOf(c.steps, id) # {}
  /\ \A ref \in c.output : Earlier(c.steps, ref, Len(c.steps) + 1)
  /\ EmptyPolicyValid(c)

RegisterComposition(c) ==
  /\ stage = "start"
  /\ comp' = c
  /\ stage' = IF ValidComposition(c) THEN "accepted" ELSE "rejected"
  /\ UNCHANGED <<parentInput, outputs, inputs>>

-----------------------------------------------------------------------------
(* execute_composition                                                     *)

\* An accepted capability is invoked; the runs of one share nothing.
ExecuteComposition(in) ==
  /\ stage = "accepted"
  /\ parentInput' = in /\ stage' = "running"
  /\ UNCHANGED <<comp, outputs, inputs>>

\* What a path leads to.  A key that is missing reads as null; indexing what is
\* not a dict raises a TypeError, which nobody catches.
Look(out, path) ==
  LET value == out[path.field]
  IN IF value = "absent" THEN "null"
     ELSE IF ~ path.deep THEN value
     ELSE CASE value = "object" -> "inner"
            [] value \in {"hollow", "nodict"} -> "null"
            [] OTHER -> "raises"

\* _is_empty
IsEmpty(value) == value \in Empty

\* The declared path goes into a field that is no dict.
PathRaises(step, out) == step.path # Null /\ Look(out, step.path) = "raises"

\* Mutant: only what is there can be empty.
IsEmptyStrict(step, out) ==
  \/ \A f \in Field : out[f] = "absent"
  \/ step.path # Null /\ IsEmpty(out[step.path.field])
  \/ step.path = Null /\ \A f \in Field : out[f] = "absent" \/ IsEmpty(out[f])

\* _is_empty_for_step: the declared path, else the first list, else all values.
IsEmptyForStep(step, out) ==
  LET lists == {k \in 1..Len(Fields) : out[Fields[k]] \in {"list", "nolist"}}
  IN IF step.path # Null THEN IsEmpty(Look(out, step.path))
     ELSE IF lists # {} THEN out[Fields[Min(lists)]] = "nolist"
     ELSE \A f \in Field : out[f] = "absent" \/ IsEmpty(out[f])

\* _resolve_jsonpath; the output of a step that has not run is missing, too.
Resolve(ref) ==
  IF ref.step = Null THEN Look(parentInput, ref)
  ELSE LET ran == {k \in PositionsOf(comp.steps, ref.step) : k <= Len(outputs)}
       IN IF ran = {} THEN "null" ELSE Look(outputs[CHOOSE k \in ran : TRUE], ref)

Current == comp.steps[Len(outputs) + 1]

Given == [ref \in Current.reads |-> Resolve(ref)]

\* The failure types of a child, by the field of the policy that decides.
FailureClass(type) ==
  CASE type = "approval_required" -> "approval"
    [] type \in {"scope_insufficient", "restricted", "denied", "non_delegable_action"} -> "denial"
    [] type \in {"clarification_required", "binding_missing", "binding_stale",
                 "control_requirement_unsatisfied", "purpose_mismatch",
                 "invalid_parameters"} -> "clarification"
    [] OTHER -> "error"

\* One failure type of each class that differs in what becomes of it.
ChildFailure == {"approval_required", "denied", "binding_stale", "internal_error"}

\* The inputs of the next step are read one by one; one of them raises.
ReadRaises ==
  /\ stage = "running" /\ Len(outputs) < Len(comp.steps)
  /\ \E ref \in Current.reads : Resolve(ref) = "raises"
  /\ stage' = "type_error"
  /\ UNCHANGED <<comp, parentInput, outputs, inputs>>

\* The next child is called with them.
CallChild ==
  /\ stage = "running" /\ Len(outputs) < Len(comp.steps)
  /\ \A ref \in Current.reads : Resolve(ref) # "raises"
  /\ inputs' = Append(inputs, Given)

\* Mutant: the step is tried again.
ChildFailsQuietly(type) ==
  /\ CallChild
  /\ UNCHANGED <<comp, parentInput, outputs, stage>>

\* The child fails, and with it the parent, as the policy says.
ChildFails(type) ==
  /\ CallChild
  /\ stage' = IF comp.policy[FailureClass(type)] = "fail_parent"
              THEN "composition_child_failed" ELSE type
  /\ UNCHANGED <<comp, parentInput, outputs>>

\* _resolve_empty_ref: from the input or from the answer of the source.
ResolveEmpty(ref, out) == Look(IF ref.step = Null THEN parentInput ELSE out, ref)

\* _build_empty_result_response
EmptyOutcome(out) ==
  CASE comp.onEmpty = "clarify" -> "empty_clarification_required"
    [] comp.onEmpty = "deny" -> "empty_denied"
    [] OTHER -> IF \E ref \in comp.emptyOutput : ResolveEmpty(ref, out) = "raises"
                THEN "type_error" ELSE "no_results"

\* Only the source can end the run with its answer; what raises is not empty.
AnswerOutcome(step, out) ==
  CASE step.source /\ PathRaises(step, out) -> "type_error"
    [] step.source /\ IsEmptyForStep(step, out) -> EmptyOutcome(out)
    [] OTHER -> "running"

\* The child answers; an empty answer of the source ends the run.
ChildAnswers(out) ==
  /\ CallChild
  /\ outputs' = Append(outputs, out)
  /\ stage' = AnswerOutcome(Current, out)
  /\ UNCHANGED <<comp, parentInput>>

\* All steps have answered: output_mapping.
Conclude ==
  /\ stage = "running" /\ Len(outputs) = Len(comp.steps)
  /\ stage' = IF \E ref \in comp.output : Resolve(ref) = "raises" THEN "type_error"
              ELSE "success"
  /\ UNCHANGED <<comp, parentInput, outputs, inputs>>

CompositionNext ==
  \/ \E c \in Declarations : RegisterComposition(c)
  \/ \E in \in ParentInputs : ExecuteComposition(in)
  \/ \E type \in ChildFailure : ChildFails(type)
  \/ \E out \in Answers : ChildAnswers(out)
  \/ ReadRaises \/ Conclude

CompositionSpec == CompositionInit /\ [][CompositionNext]_compositionVars

-----------------------------------------------------------------------------
(* Properties                                                              *)

Stage == {"start", "rejected", "accepted", "running", "success", "no_results",
          "empty_clarification_required", "empty_denied",
          "composition_child_failed", "type_error"} \cup ChildFailure

\* Types, with the lengths of the two histories.
CompositionTypeOK ==
  /\ stage \in Stage
  /\ parentInput \in ParentInputs \cup {Null}
  /\ \A k \in 1..Len(outputs) : outputs[k] \in Answers
  /\ Len(inputs) \in {Len(outputs), Len(outputs) + 1}
  /\ comp = Null <=> stage = "start"

\* What a step is given was read in this very run: every reference of a step
\* that was called is to the parent's input, or names one step before it, which
\* has answered, and the value is the one found there.  The references of the
\* mappings that make up the parent's result name steps that have run, too: the
\* source, when it answered nothing.
ReferencesResolve ==
  /\ \A k \in 1..Len(inputs) : \A ref \in comp.steps[k].reads :
       \/ ref.step = Null /\ inputs[k][ref] = Look(parentInput, ref)
       \/ \E j \in 1..(k - 1) :
            /\ PositionsOf(comp.steps, ref.step) = {j}
            /\ inputs[k][ref] = Look(outputs[j], ref)
  /\ stage = "success" => \A ref \in comp.output :
       ref.step # Null => \E j \in 1..Len(outputs) : PositionsOf(comp.steps, ref.step) = {j}
  /\ stage = "no_results" => \A ref \in comp.emptyOutput :
       ref.step # Null => ref.step = comp.steps[Len(outputs)].id

\* What a source may answer if its run went on, or if it ended there.
Found(step, out) ==
  CASE step.path = Null -> \E f \in Field : out[f] \in Filled
    [] step.path # Null -> out[step.path.field] \in (IF step.path.deep THEN {"object"} ELSE Filled)

NothingFound(step, out) ==
  LET nothing == Empty \cup {"absent"}
  IN CASE step.path = Null -> \E f \in Field : out[f] \in nothing
       [] step.path # Null ->
            out[step.path.field] \in
              (IF step.path.deep THEN {"absent", "nodict", "hollow"} ELSE nothing)

\* Whatever the mappings of a declaration read.
References(c) ==
  (UNION {c.steps[k].reads : k \in 1..Len(c.steps)}) \cup c.output
    \cup (IF c.emptyOutput = Null THEN {} ELSE c.emptyOutput)

\* A path goes into a field that holds something other than a dict.
LeadsAstray(path, out) ==
  path.deep /\ out[path.field] \in {"null", "nolist", "list", "notext", "scalar"}

\* So does a reference, into the input or the answer of the step it names.
Astray(ref) ==
  \/ ref.step = Null /\ LeadsAstray(ref, parentInput)
  \/ \E k \in 1..Len(outputs) : comp.steps[k].id = ref.step /\ LeadsAstray(ref, outputs[k])

\* A run ends in one way only, and for a reason: it succeeds if all children
\* did and the source found something; without results, only with an output
\* declared for that (the assertion of v023.py:405); by asking or denying only
\* where that is the policy; with a child's own failure only where its class is
\* propagated; and with a TypeError only where a reference or the source's
\* empty_result_path goes into a field of the input, or of an answer, that holds
\* no dict.
OutcomeFollowsPolicy ==
  LET last == Len(outputs)
      EndsEmpty(onEmpty) == /\ comp.onEmpty = onEmpty /\ comp.steps[last].source
                            /\ NothingFound(comp.steps[last], outputs[last])
  IN /\ stage = "success" =>
          /\ last = Len(comp.steps)
          /\ \A k \in Sources(comp) : Found(comp.steps[k], outputs[k])
     /\ stage = "no_results" => EndsEmpty("success") /\ comp.emptyOutput # Null
     /\ stage = "empty_clarification_required" => EndsEmpty("clarify")
     /\ stage = "empty_denied" => EndsEmpty("deny")
     /\ stage \in ChildFailure =>
          /\ Len(inputs) = last + 1
          /\ comp.policy[FailureClass(stage)] = "propagate"
     /\ stage = "composition_child_failed" =>
          Len(inputs) = last + 1 /\ \E class \in DOMAIN comp.policy : comp.policy[class] = "fail_parent"
     /\ stage = "type_error" =>
          \/ \E ref \in References(comp) : Astray(ref)
          \/ /\ last \in Sources(comp) /\ comp.steps[last].path # Null
             /\ LeadsAstray(comp.steps[last].path, outputs[last])

=============================================================================
