# ANIP: verification of the Python runtime

TLA+ models, TLC runs and TLAPS proofs for the Python implementation of the
Agent-Native Interface Protocol (`src/packages/python`). ANIP lets an agent
call the capabilities of a service under delegated authority. Every call
carries a token; a call that needs a human's consent stops with
`approval_required`, an approver turns the request into a signed grant, and the
agent continues by presenting the grant. Everything that happens goes to a
hash-chained audit log, over which the service publishes Merkle checkpoints.
Capabilities may ask that a principal runs only one call at a time. Studio, a
web application beside the runtime, keeps projects in which services are designed
and evaluated.

The packages `anip-service` and `anip-server` keep all of the protocol's state,
and may run as several replicas on one PostgreSQL database. The modules are
about them, but for one about the evaluations that Studio keeps. The ports to
other languages, the transport bindings, the registry and the rest of Studio are
outside (see *What is not modelled*).

Paths below are relative to `src/packages/python/`, but for `repository.py`, which
is `src/studio/server/repository.py`: `service.py`, `v023.py`,
`aggregation.py` are in `anip-service/src/anip_service`; `storage.py`,
`postgres.py`, `checkpoint.py`, `audit.py`, `delegation.py`, `merkle.py`,
`retention_enforcer.py` in `anip-server/src/anip_server`.

## The system

| Component | State it keeps | Operations | What makes it correct |
|---|---|---|---|
| Invocation pipeline (`ANIPService.invoke`) | locals of each call, across some ten awaits | invoke, stream, audit of every outcome | what runs is what was checked, after every check |
| Approval flow (`service.py`, `v023.py`) | tables `approval_requests`, `approval_grants` | materialize a request, issue a grant, validate and reserve a grant | one grant per request, no use more than granted, refusals that are true, nothing announced that is not stored |
| Audit log (`audit.py`, backends) | table `audit_log`, row `audit_append_head` | append (numbered, chained), sign, query | no entry lost or renumbered, the chain verifies, signatures belong to their entries |
| Retention (`retention_enforcer.py`) | none | sweep | only expired entries go |
| Checkpoints (`checkpoint.py`, `service.py`) | table `checkpoints`, row of `leader_leases`, the sinks | tick, publish, list, prove | prefixes that only grow, every entry covered in the end, proofs under the right root |
| Merkle tree (`merkle.py`) | leaves | add, root, inclusion and consistency proofs | agrees with RFC 6962 |
| Exclusive lock (`delegation.py`, `service.py`) | table `exclusive_leases` | acquire, heartbeat, release | one handler at a time, and no lease outlives its use for ever |
| Delegation engine (`delegation.py`, `service.py`) | table `delegation_tokens` (rows are never changed nor deleted) | issue a root, delegate, resolve a bearer, validate a chain | authority only narrows along a chain, and what was signed is what is stored |
| Budget, binding, control requirements (`service.py`) | none | checks in `invoke` | what runs respects every budget above the token |
| Composition (`v023.py`) | locals of a run | validate a declaration, execute it | references name earlier steps, a run ends as the declared policies say |
| Aggregation (`aggregation.py`, `service.py`) | buckets in memory | submit, flush, shutdown, stop | every denial is counted in one record, and gets one |
| Studio (`repository.py`) | projects, artifacts, evaluations | create, update, delete, save an evaluation, clone a project | what is shown as fresh rests on what the artifacts say |
| Permissions, manifest, disclosure, redaction, hooks | none | pure functions | not protocol state |
| Keys and signatures (`anip-crypto`) | key files | sign, verify | trusted |

They interact through the storage and through `invoke`: a call takes the lock,
checks the delegation, validates and reserves a grant, runs the handler with a
heartbeat beside it, stores an approval request when the handler asks for one,
appends audit entries, and gives the lock up. Denials of low value go to the
aggregator instead of the log. Three loops run beside the calls on each replica:
the checkpoint tick, the retention sweep and the flush of the aggregator. A
composed capability is run through a callback for its children;
`ANIPService` only validates the declarations and executes none itself. Studio
shares nothing with the runtime.

The hard behaviours are these.

- *Interleaving at awaits.* A check and the write that depends on it are
  separated by awaits on a shared database: two approvers of one request, many
  continuations on one grant, two ticks on one log.
- *Time.* The clock is sampled before an await and used after it, for the expiry
  of requests and grants, for leases and for retention.
- *Partial failure.* Storage, signer, audit and sinks may raise halfway; some of
  those exceptions are swallowed by design.
- *Death.* A process dies with a lease in its name or between storing and
  publishing.
- *Order.* A signature arrives after other appends, a heartbeat after the
  release, an entry is appended under a checkpoint that is being built.
- *Long chains.* `invoke` looks at the token presented and at the dates of those
  above it; that the call is within the scopes and budgets of all of them rests
  on every delegation before.

The full list, with the line where each bites and the property that catches it,
is under `hazards` in `PROJECT.json`.

## Modules

| Module | What it is |
|---|---|
| `ApprovalGrants` | requests, grants and continuations, one action per await of `invoke` and `issue_approval_grant` |
| `GrantLedger` | abstract: a request is granted once, a grant admits so many invocations, nothing is undone |
| `AuditLog` | appends, signatures, sweeps and the checkpoint tick, one action per await |
| `TransparencyLog` | abstract: an append-only log whose certified heads are ever longer prefixes |
| `ExclusiveLease` | the lease of one principal, its heartbeats, late statements, time |
| `Delegation` | tokens: issue, delegate, the second registration, the signed answer |
| `InvocationGate` | extends `Delegation` by what `invoke` checks before a handler runs |
| `Attenuation` | abstract: rights are granted or passed on, and whoever passes on gives at most its own |
| `Composition` | validation and execution of composed capabilities |
| `MerkleTree` | roots, proofs and verifiers over terms for hashes |
| `DenialAggregation` | the buckets, and the flushes of the task and of shutdown |
| `StudioEvaluations` | projects, artifacts, evaluations and clones in Studio |
| `MCApprovalGrants`, `MCAuditLog`, `MCExclusiveLease`, `MCRuntime` | the TLC instances; `MCRuntime` those of the gate, composition, the tree, aggregation and Studio |
| `ApprovalGrantsProofs`, `AuditLogProofs`, `ExclusiveLeaseProofs`, `DelegationProofs`, `CompositionProofs`, `MerkleTreeProofs`, `StudioEvaluationsProofs` | theorems about the module they are named for; `DelegationProofs` also about `InvocationGate` |
| `RuntimeProofs` | theorems about `DenialAggregation`, and about all components of `MCRuntime` beside each other |

The operators whose comment in a module starts with
"Mutant" are plausible mistakes in the definition that follows them. No run
uses them; `PROJECT.json` says which property each one breaks.

### ApprovalGrants

`requests` and `grants` are the two tables as functions on the identifiers
stored. A request is named by the call of `invoke` that raised it, a grant by
the call of `issue_approval_grant` that minted it, so `Invocations` and `Issues`
are the sets of calls. `inv` and `iss` hold the locals of the calls that have
started: the program counter, what the caller sent, the clock sample in use and
the result. `audit` is the set of approval-flow entries. A process that dies is
a call that takes no further step, so nothing is fair here.

| Action | Code |
|---|---|
| `Invoke`, `ValidateGrant`, `ReserveGrant` | `invoke` 1455-1496 with `validate_continuation_grant` and `try_reserve_grant` |
| `HandlerEnds`, `HandlerAsksApproval`, `HandlerForwardsApproval` | the handler's three outcomes, 1498-1547 |
| `Materialize` | `materialize_approval_request` and `store_approval_request`; the downgrade to `service_unavailable` |
| `AuditInvocation`, `AuditRequestCreated` | the entries of the call and of the request, errors swallowed |
| `LoadRequest`, `Preflight`, `BuildGrant`, `ApproveAndStore`, `AuditGrantIssued` | `issue_approval_grant` 706-855 |
| `Tick` | the clock |

Abstractions: digests, scopes and sessions are model values; signatures are left
out (a grant that verifies is one that was minted); a storage primitive is one
step, as it is one lock, one conditional `UPDATE` or one transaction in the
three backends. `Backend` says which of them holds the tables; they differ in what
becomes of a grant for no use at all (`max_uses` below 1), which no check before the
insert stops (`service.py:752-770`). Memory stores it; the schema of the SQL backends
refuses the row (`RowRefused`), which SQLite answers as already decided and PostgreSQL
raises. The aggregation of denials is off. A handler forwards only an approval
request that is stored; the code does not look (`service.py:1533`), so
`NothingUnpersisted` holds of forwarded requests by this assumption. An interrupted
issue leaves no state behind, so its death needs no action.

With `StorageMayFail` any storage call may raise: the read and the reservation of a
grant (`StorageErrors`: `invoke` answers `internal_error` and the handler does not
run), the insert of a request, the primitive of the approver, and the audit entries.
A write that fails is taken to have had no effect, as its transaction is rolled back.
The advisory read of `issue_approval_grant` may fail, too; it leaves no trace and is
not an action.

### AuditLog

`log` is the table as a function on the sequence numbers held, `head` the row
`audit_append_head` (PostgreSQL only), `checkpoints` the table in row order,
`published` what a sink has received, `leader` the holder of the live lease.
`call` holds the locals of each `log_entry`, `tick` those of each replica's
checkpoint tick. `Cluster` selects `PostgresStorage`; otherwise the code of the
in-memory and SQLite backends is meant, which agree.

| Action | Code |
|---|---|
| `AppendEntry` | `append_audit_entry`, one transaction; the retention is drawn from `Retentions` |
| `SignEntry`, `SignFails` | the second storage call of `log_entry`; its failure, swallowed by `_safe_log_audit` |
| `AcquireLease`, `ReadMaxSequence`, `ReadLastCheckpoint`, `ReadEntries`, `StoreCheckpoint`, `PublishCheckpoint`, `ReleaseLease` | `_leader_checkpoint_tick` and `reconstruct_and_create_checkpoint`, each await a step |
| `TickFails` | any of those awaits raises |
| `LeaseLapses` | the lease time passes under a tick |
| `NewDay`, `Sweep` | time for retention; `RetentionEnforcer.sweep`, absent in a cluster |

Abstractions: a hash is the identity of what it covers, with a flag for the two
linkage fields; a Merkle root is the sequence of its leaves, so collisions do not
exist; retention is in days, and an append does not stay unsigned over a day.
The lease matters only between replicas, so it lapses only in a cluster. The
proof that `get_checkpoint` serves is not an action, since it changes nothing:
`ProofsMatchRoot` states what it would serve in every state. `MaxCheckpoints`
stops the ticks, not the writers.

### ExclusiveLease

`lease` is the row of one principal, with the time *left* until `expires_at`
instead of the date. `inv` holds the locals of the invocations: the stage, the
time until the heartbeat is due (`beat`), and the age of a
`try_acquire_exclusive` in flight (`stmt`). A statement reads the clock when it
is sent and has its effect when the database executes it, so its age matters and
it may land after its sender returned, was refused or died. Since keys contain
the principal, one lease is enough. Each invocation is free to interleave with
every other, as on replicas of their own; calls that share an event loop can do
less. Replicas' clocks are taken to agree.

| Action | Code |
|---|---|
| `Invoke` | `acquire_exclusive_lock` sends its statement, when `exclusive_lock` and the token ask for it |
| `StatementLands` | the upsert of `try_acquire_exclusive` takes effect; the caller goes on or is refused |
| `HandlerStarts`, `HandlerEnds` | `_run_with_exclusive_heartbeat` starts and cancels its renewal task |
| `Renew` | one turn of `renew_loop` |
| `ReleaseLock` | the `finally` clause |
| `Crash` | the process dies, the release raises, or the caller goes away |
| `Tick` | a unit of time, not before what is due is done |

Timeliness is an assumption, `2 * Delay <= Interval`: a statement lands, an event
loop wakes up and the handler is reached within `Delay` of when they should, and
two such delays fit into half of `exclusive_ttl`. Without it a late heartbeat
loses the lease and no code stops the handler. A handler that is a plain
function blocks the event loop and has no heartbeat at all; `MutualExclusion`
is stated for coroutines.

### Delegation and InvocationGate

`tokens` is the table, `issuing` the calls of `issue_token` that have registered a
token and not yet answered, `bearers` the JWTs given out: the claims and the
expiry. `req` holds the locals of each `invoke`: the stage, the token presented,
the call, and the chain read so far. `backend` decides what becomes of a second
registration of one id: memory and PostgreSQL overwrite, SQLite refuses.

| Action | Code |
|---|---|
| `IssueRoot`, `Delegate` (both through `Register`) | `issue_token` with `issue_root_token` or `delegate`, up to the first registration |
| `Answer`, `AnswerFails` | the second registration with the caller class, and the JWT, or the exception |
| `Arrive` | `resolve_bearer_token`: the JWT is not over and says what is stored |
| `Load` | `validate_delegation` reads the token again and compares scope, purpose and dates |
| `Climb` | one read of `get_chain` |
| `Judge` | the rest of `validate_delegation`, then budget, binding and control requirements |
| `Enter`, `Busy` | the lock, if the call needs one, and the handler starts |
| `Return`, `Reply` | the handler ends; the audit entry; the answer |
| `Tick` | the clock |

Scope strings are sequences of path elements with an optional maximum, budgets a
currency and a number. The identities of signatures, tasks and callers are
abstracted to whether they fit. `Attenuation` is what the table of tokens
implements: the rights of a token are the paths, currencies and prices it covers,
and `AuthorityOnlyShrinks` maps the rows to holders of rights.

### Composition

`comp` is the declaration, `stage` how far the run is or how it ended, `parentInput`
what the capability was invoked with, `outputs` and `inputs` what the steps have
answered and have been given.

| Action | Code |
|---|---|
| `RegisterComposition` | `validate_composition` accepts or refuses |
| `ExecuteComposition` | an accepted capability is invoked with some input |
| `CallChild`, `ReadRaises` | the inputs of the next step are resolved; a path into a value that is no dict raises |
| `ChildFails`, `ChildAnswers` | `invoke_step` fails or answers; the failure policy; whether the source's answer is empty, and what is answered then |
| `Conclude` | the output mapping |

The input and the answers have two fields, each left out, null, an empty or filled
list or dict, empty text, or something plain. A path names a field or, `deep`, a key
of the dict in that field; the second stands for every path of two segments and more.
`empty_result_path` is such a path. A dict has something under that key (`object`) or
lacks it (`hollow`). Left out are references that are malformed, which are refused at
registration; literals in `empty_result_output`; an `empty_result_path` without any
segment (`$`), by which nothing is ever empty; and answers of a child that are no dict.

### MerkleTree

`leaves` grows by `AddLeaf`, and in every state the properties quantify over all
proofs, honest ones and those for other leaves, sizes and roots. Where the
code recurs over a range of leaves, `ComputeRoot`, `InclusionPath`, `SubProof` and
`Replay` are recursive functions of the number of leaves, from which the range
starts being a second argument; loops (`Split`, `Climbed`) are functions of the
number of rounds. The root is compared with one computed level by level. A hash is
the term it was computed from, so that equal hashes have equal origins: SHA-256 is
taken to have no collisions, and nothing else is assumed of it.

### DenialAggregation

`submitted` has the time and group of each denial, `buffer` those in the buckets,
`queue` what each flush still has to persist, `audited` the items persisted.

| Action | Code |
|---|---|
| `Submit` | `_log_audit` hands a denial of class `malformed_or_spam` to `AuditAggregator.submit` |
| `PeriodicFlush`, `Shutdown` | `flush` takes the closed windows, for the task and for `shutdown` |
| `Persist`, `Abandon` | `log_entry` for the next item, or its exception, which ends the flush |
| `Stop` | the task is cancelled, wherever it waits |
| `Elapse` | the clock |

### StudioEvaluations

`projects`, `rows` and `evals` are the tables, `saves` and `clones` the locals of
`create_evaluation` and `clone_project`, which take many statements at PostgreSQL's
READ COMMITTED and commit at the end. On SQLite a transaction that writes excludes
others, so less can happen. A hash is the text it covers.

| Action | Code |
|---|---|
| `CreateProject`, `DeleteProject` | one statement each; the delete cascades |
| `CreateArtifact`, `UpdateArtifact`, `DeleteArtifact` | requirements, scenarios, proposals, shapes, with the checks before them and the foreign keys |
| `BeginSave`, `ReadArtifact`, `InsertEvaluation`, `SaveFails` | `create_evaluation`: the checks, each read, the insert |
| `DeleteEvaluation` | `delete_evaluation` |
| `BeginClone`, `CopyKind`, `FinishClone`, `CloneFails` | `_clone_project_into`: the ids, each kind, the evaluations and the commit, or the rollback |

Identifiers are taken to belong to one project: that two projects use the same
artifact id one after the other is left out, as are roles, workspaces, documents
and imports. The text of a copy is the original's, though the code renames ids in
it.

### MCRuntime

The last five components share no state. One instance has them side by side, and
the variable `part` says which of them moves in a behavior.

## Runs

| Run | Instance | Shows |
|---|---|---|
| `approval_race` | PostgreSQL; 3 invocations, 2 approvers, one kind of call, clock 0..1 | `ApprovedIffGranted`, `UsesBounded`, `RefusalsTruthful`, `SpentStaysSpent`, and that `GrantLedger` is implemented |
| `approval_binding` | SQLite; 2 invocations, 1 approver, five calls that differ in one respect each, eight decisions in and out of the policy and for no use at all, failing storage | `RunsOnlyAsApproved`, `NothingUnpersisted`, `UsesBounded`, `RefusalsTruthful`, the types |
| `approval_linkage` | memory; the race with one approver | finding 1 |
| `audit_local` | 3 entries, one process, retention of a day or for ever, 2 days, 3 checkpoints | `EntriesKept`, `ChainVerifies`, `SignedByOwner`, `CheckpointsGrow`, `EventuallyCovered`, the types |
| `audit_cluster` | 3 entries, 2 replicas, leases that lapse, awaits that fail | `EntriesKept`, `CheckpointsGrow`, `ProofsMatchRoot`, `PublishedAreStored`, and that `TransparencyLog` is implemented |
| `audit_reuse`, `audit_stuck`, `audit_chain` | the smallest instances that show them | findings 2, 3, 4 |
| `lease_exclusion` | 3 invocations, half-lease 2, delay 1, crashes | `MutualExclusion`, `OnlyHolderReleases`, `LeaseComesFree`, the types |
| `lease_leak` | 2 invocations, nobody dies | finding 5 |
| `runtime_parts` | `MCRuntime`: three tokens, one request, two backends; plans of up to two steps; trees of up to seven leaves; three denials; a project and its clone | `GenuineBearersResolve`, `TermsAreTheRoots`, `RunsWithinAllAbove`, `AdmittedUnderLiveChain`, `EveryRequestDecided`, and that `Attenuation` is implemented (`AuthorityOnlyShrinks`); `ReferencesResolve`, `OutcomeFollowsPolicy`; `RootIsCanonical`, `InclusionIsExact`, `ConsistencyIsExact`; `OneRecordPerWindow`, `ClosedWindowsTaken`; `OnlyCopiesMislead`; the types |
| `aggregation_loss` | two like denials in one window | finding 6 |

**Bounds.** Two approvers and three invocations are a requester and two rival
spenders; the ledger's laws relate at most two calls and one grant. A clock of
two values with lifetimes of 0, 1 and 2 puts each expiry before, at and after
each sample. Each approval run has a backend of its own, and ends the same way with the
other two, which was tried by changing the constant; the theorems hold for all three.
Three entries give an interior, a covered and an uncovered one; two
replicas race for one number, and three checkpoints have a middle one. A
half-lease of 2 with a delay of 1 is the tightest instance of the timeliness
assumption, and three invocations are a holder, a rival and a late statement.
Symmetry is used only where no liveness property is checked. Calls end, so
deadlock is not checked.

In `runtime_parts` three tokens are a root, a child and a grandchild, which is as
far as the default depth of 1 lets a chain go and one further; ids are used up in
order (`IdsInOrder`) and there is one root at a time (`OneRoot`), since tokens of
two roots never meet. Times up to 2 put the expiry of a child before, at and after
its parent's. Memory and SQLite stand for the two ways a second registration can
end. Plans refer to the input, an earlier step and the step itself, to a field and into
it, and have an `empty_result_path` of either depth or none; inputs and answers together
have every kind of value to find there. Seven leaves have every
shape of the last subtree; trees of two kinds of data tell leaves apart. Three denials
over two windows of two units are two in one window and one in another, or all in
one. The project of Studio has an artifact of each kind but the proposal, which is
treated as the shape is; of a project and its clone one goes before anything else
happens (`OneOfTwo`), because they do not interact.

**Fairness.** `AuditLog!FairSpec` is weak fairness of each replica's tick: the
loop of `CheckpointScheduler` goes on for ever and catches every exception.
Nothing obliges a writer to write, a sweep to come or a lease to lapse.
`ExclusiveLease!FairSpec` says that time passes, statements land, a waiting
handler is called and heartbeats are sent; a handler may run for ever and a
release may never come. `GateFairness` says that the storage answers a request's
reads and writes; handlers and callers owe nothing. `AggregationFairness` says that
the periodic task comes round again, which catches what a flush raises, and that
`log_entry` returns or raises. The approval flow, composition, the tree and Studio
have no fairness: their properties are safety.

## Findings

Each is a run that TLC ends with the code's behaviour against a quoted line.

1. *A crash in the handler hides the grant* (`approval_linkage`). The branch for an
   unexpected exception writes the audit entry without `approval_grant_id`,
   though the grant was spent (`service.py:1682`; SPEC.md 4.8 step 11).
2. *Numbers are used again* (`audit_reuse`). On memory and SQLite the next number
   follows the last entry held. After the end of the log expired, new entries
   take numbers that a checkpoint covers, and a proof is served under a root that
   is not the checkpoint's (`storage.py:1054`).
3. *Checkpoints stop at two* (`audit_stuck`). `PostgresStorage.get_checkpoints` limits
   before it turns to the newest, so from the third tick on `ckpt-2` is computed
   again and the insert fails (`postgres.py:567`).
4. *The chain cannot be verified on PostgreSQL* (`audit_chain`). The hash covers two
   fields that the table has no column for (`postgres.py:464`).
5. *The heartbeat takes a lease of its own* (`lease_leak`). It runs for every
   exclusive token, even if the capability has no `exclusive_lock`; then it takes
   the lease and nobody gives it up, so later locked calls are refused though
   none is in progress (`service.py:2384`).
6. *Aggregated denials are lost* (`aggregation_loss`). The record of an aggregated
   window has neither `capability` nor `success`, which `log_entry` reads first
   (`aggregation.py:22`, `audit.py:39`). It raises after `flush` took the windows out
   of the buffer, and the periodic task swallows the exception (`service.py:2070`), so the
   window and all others of that flush are gone (SPEC.md 6.9).

Because of finding 3, `audit_cluster` never holds more than two checkpoints. Its
properties are about what may go wrong up to there: the lost race for number 2
is the interesting case, and it happens.

Other disagreements were met while modelling. No run is about them; the models
follow the code.

- A request to `issue_token` with a caller class registers its token twice
  (`service.py:562`). SQLite refuses the second insert, so the row stays and no JWT is
  answered.
- `clone_project` gives copied evaluations the hashes of the copied artifacts
  (`repository.py:611`), where `migrations/002_slice5_hardening.sql:8` calls the
  hashes frozen at evaluation save time. An evaluation that was stale is fresh in
  the clone, with expectations of an older text. `OnlyCopiesMislead` excepts copies
  for this reason, and TLC refutes it without the exception.
- `shutdown` says it flushes the remaining events (`service.py:2099`) and flushes
  closed windows only; after `stop` it does nothing, and `stop` cancels a flush
  halfway.
- SQLite answers any `IntegrityError` on the row of a grant as
  `approval_request_already_decided` (`storage.py:1295`). The schema's
  `CHECK (max_uses >= 1)` is one, and `issue_approval_grant` lets a session-bound
  grant with `max_uses` 0 through, so the approver is told that a pending request is
  decided. `RefusalsTruthful` excepts exactly this answer; TLC refutes it on SQLite
  without the exception. PostgreSQL lets the `CheckViolationError` escape, and memory stores a
  grant that can never be used. On PostgreSQL the comment says the caller treats a
  second grant as already decided (`postgres.py:784`), where `issue_approval_grant`
  would pass the exception on; the row lock keeps it from happening.
- `_is_empty_for_step` falls back to the first list of the output (`v023.py:379`), which
  its docstring does not say. A path into null, a list or a scalar raises a
  `TypeError` nobody catches: in a reference to a step or to `$.input`, where the
  comment says that it is null (`v023.py:298`), in `empty_result_output`, and in
  `empty_result_path`, whose walk catches `KeyError` only (`v023.py:377`).
- SPEC.md:854 restricts JSONPath to one segment and has anything more refused at
  registration. The patterns of `v023.py:71-74` accept any number of segments, and
  `empty_result_path` is not validated at all. The model follows the code.
- Refusals for budget, binding and control requirements are answered without an
  audit entry. A maximum in a scope string (`:max_$5`) binds a child only on the very
  same path. The field `actor_key` is never set, so denials of all actors share
  their groups. `check_budget_authority` has no caller in `invoke`.
- While streaming, the count of delivered events follows the sink (SPEC.md:2123).
  Every transport's sink only appends to a queue or a list and cannot fail, so a
  disconnect is never noticed.

## Proofs

TLAPS checks every theorem for all values of the constants that satisfy the
named assumptions of the module (`InputsAssumption`, `SentinelsAssumption`,
`ConstantsAssumption`, `TimelinessAssumption`, `DelegationAssumption`,
`GateAssumption`, `CompositionAssumption`, `MerkleAssumption`, `AggregationAssumption`,
`StudioAssumption`).

- **ApprovalGrants.** `TypeCorrect`, `OneGrantPerRequest`,
  `UsesNeverExceedGrant`, `HandlersRunAsApproved`, `NothingIsTakenBack` and
  `GrantsImplementLedger`. `UsesBounded` does not follow from itself: the
  invariant `IInv` also says what each call has established by the stage it is at
  (`Validated`, `InFlight`, `IssuesInFlight`), that every row was written by a
  call past the step that writes it, and that a grant repeats its request. The
  count of a grant equals the cardinality of its spenders, which needs
  the set of calls made so far to be finite; it is, because each step adds one.
  The ledger theorem maps a reservation to `Spend`, an approval to `Decide`, and
  every other step to a stutter.
- **ApprovalGrants, what was said.** `RefusalsAreTrue` and `OnlyPersistedAnnounced`,
  from `TruthInv`. A refusal is about a moment that is past, so the
  invariant rests on what never goes back: rows stay, their terms stay,
  counts and the clock only grow. Then a reason that was true when it was given
  is still witnessed by the tables. `already_decided` has a second cause on SQLite, and
  `UsesBounded` says that on the SQL backends no grant is for less than one use.
- **AuditLog.** `TypeCorrect`, `EntriesAreKept`, `SignaturesLand`,
  `PublishedAreHeld`, `CheckpointsAreChained` for both kinds of storage;
  `ChainIsVerifiable` under `~ Cluster`; `ProofsAreForTheRoot` and `ImplementsLog`
  under `Cluster \/ Retentions \subseteq {None}`. The hypotheses of the last three are
  what findings 4 and 2 require. The invariant adds that the numbers are bounded
  and, as long as everything is held, have no gap; that a tick's last checkpoint
  is a row; and that what a tick read is a prefix of the log, longer than the
  checkpoint it compared with (`PrefixesGrow`).
- **ExclusiveLease.** `TypeCorrect`, `OneHandlerAtATime`, `HoldersRelease`, from
  `LeaseIsKept`. Mutual exclusion says nothing of the lease, so it is not
  inductive; `LeaseInv` says how much of the lease is left at each stage: one
  time to live after the clock was read while the handler is being started, and
  `Delay` beyond the next heartbeat while it runs. This is where
  `2 * Delay <= Interval` is used.

- **Delegation and InvocationGate.** `GateTypeCorrect`, `BearersResolve`,
  `TermsInherited`, `RunsWithinAuthority`, `AdmittedAlive`, `ChainsComeToAnEnd`, and `AuthorityAttenuates`:
  the table of tokens implements `Attenuation`. The tokens above a token are defined
  as those in every set closed under parents, so no recursion over chains is
  needed: a set of tokens with the property in question is closed, hence it
  holds all of them. Attenuation is proved link by link (`LinksAttenuate`) and
  carried along a chain by such a set; `RequestsInFlight` says that the chain a
  request has read is what lies above its token. `ChainsComeToAnEnd` is the safety
  half of `EveryRequestDecided`: parents form no cycle, since a parent is stored before
  its child and a second registration keeps it, so the unbounded loop of `get_chain`
  reads no token twice, however deep the chain and whatever is registered meanwhile.
- **Composition.** `CompositionTypeCorrect`, `ReferencesAlwaysResolve` and
  `OutcomesFollowPolicy`, from `CInv`:
  only valid declarations run, what has been answered and what has been given grow
  in step, and the run goes on past a source only if it found something. Every
  lookup is one operator, and it raises only where a path leads into something that
  is no dict (`LookTyped`, `ResolveTyped`); so a `TypeError` is traced to the
  reference or path that caused it.
- **MerkleTree.** `TreeTypeCorrect`, `RootHolds`, `InclusionHolds` and
  `ConsistencyHolds` for trees of any size, where the run has seven leaves; and two
  facts about proofs that no tree made. `NoFalseInclusion`: whatever list of steps
  `verify_inclusion_static` accepts for the root of a history, the data is an entry
  of it. `NoFalseHistory`: whatever list `verify_consistency_static` accepts, the old
  root is that of the first `m` entries. The library's induction theorems take an
  operator as a parameter, so induction over the number of leaves is made from a
  least counterexample: `AllNumbers` says that a set that has every number whose
  predecessors it has is all of `Nat`, and `Recursion` that a rule which looks only at
  values for smaller numbers is followed by some function, so that the recursive
  functions have the values their definitions say. On these rest the split
  (`SplitFound`, `SplitUnique`), that a root tells its leaves apart
  (`RootTellsLeaves`), that an inclusion path leads from the leaf to the root
  (`InclusionPathClimbs`) and any accepted path from some leaf (`ClimbsFromALeaf`),
  that the walk of the verifier uses up exactly the proof and rebuilds both roots
  (`WalkConsumes`, `WalkTellsOld`, `WalkOfProof`), and that pairing level by level
  makes subtrees of powers of two (`LevelsTiled`, `BottomUpRoot`).
- **DenialAggregation** (in `RuntimeProofs`). `AggregationTypeCorrect` and
  `WindowsRecordedOnce`. The denials of an item leave the
  buffer together, and a new denial is in a window that is not over; so an item
  that a flush has taken is complete (`AInv`).
- **StudioEvaluations.** `StudioTypeCorrect` and `FreshMeansCurrent`, from `SInv`: every
  artifact has the hash of its text, a call has the texts whose hashes it has, and
  the expectations of an evaluation are those of the texts whose hashes it keeps.
- **MCRuntime.** `RuntimeTypeCorrect`. A behavior of the five components beside each
  other is a behavior of each of them (`EachBehavesAlone`), since the others stay as
  they are; so every theorem above about one of them holds of the specification
  that `runtime_parts` checks. The theorem draws this conclusion for the types.

Only model-checked: the liveness properties `EventuallyCovered`, `LeaseComesFree`,
`EveryRequestDecided` and `ClosedWindowsTaken`, since liveness under fairness is
beyond this use of TLAPS. Every other property of a passing run is stated by a
theorem. The violated properties have none, of course.

## What is not modelled

The state machines of the runtime are some six thousand lines. The repository
holds many times as many in Python: examples and generated services, catalogues
of seed data, the prompts and drafts of Studio's assistant. They keep no state a
protocol depends on, and the models cover little of them.

- *Streaming, response shaping, disclosure, redaction, permissions, manifest,
  hooks*: they choose what is shown and change no state of the protocol. The
  counters of streamed events are the exception (see *Findings*).
- *The stages of `invoke` in one module*: the checks are in `InvocationGate`, the lock
  in `ExclusiveLease`, the grant and the handler in `ApprovalGrants`. They meet in
  their order only: the lock is taken before the grant is validated, and neither
  reads what the other writes.
- *Starting the aggregator again after `stop`*, and restarts of the process, which
  lose the buckets by design.
- *Revocation*: there is none in the code; a token ends when it expires.
- *Keys, JWS and JWT*: cryptography is trusted; a signature is whose it is.
- *HTTP and the bindings* (REST, GraphQL, MCP, gRPC, stdio): translations of one
  call into `ANIPService.invoke`.
- *Agent-side utilities*: heuristics over text.
- *TypeScript, Go, Java, C# ports*: the same protocol in other code bases; the
  Python runtime is the one modelled.
- *The rest of Studio*: other artifacts, documents, roles, workspaces, imports and
  snapshots, publications, the workbench and the assistant.
- *Registry, generator, conformance suites, examples, website*: around the runtime,
  not part of it.

## Plan

In order of importance:

1. The stages of `invoke` as one specification over the tables of `Delegation`,
   `ExclusiveLease` and `ApprovalGrants`, so that the order of the checks and the
   release of the lock on every way out are part of the model.
2. Progress events: the sink, its failure, and the counters in the terminal event
   and in the audit entry.
3. Studio: ids that pass from one project to another, roles (one set of
   requirements is the primary one), imports, and the guard of publications, whose
   check and insert are two statements.
4. The aggregator started again after `stop`.
5. The lease under a weaker timeliness, for renewals that fail, and for handlers that
   block the event loop.
6. Proofs of the safety halves of the other liveness properties, as `ChainsComeToAnEnd`
   is for `EveryRequestDecided`: that a lease nobody uses only gets older, and that a
   closed window that is in the buffer can be taken by the next flush.
