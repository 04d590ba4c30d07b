------------------------------- MODULE AuditLog -------------------------------
(***************************************************************************)
(* The hash-chained audit log, its retention and its Merkle checkpoints,   *)
(* as anip_server (audit.py, checkpoint.py, retention_enforcer.py, the     *)
(* storage backends) and anip_service/service.py implement them.           *)
(*                                                                         *)
(* Calls of log_entry append an entry in one storage operation and sign it *)
(* in a second.  A background tick on every replica, guarded by a lease    *)
(* that may lapse under it, reads the highest sequence number, the last    *)
(* checkpoint and the entries in three separate awaits, then stores and    *)
(* publishes a checkpoint.  A second background task deletes expired       *)
(* entries.  Cluster selects PostgresStorage, where the append head is a   *)
(* row of its own and retention is off; otherwise the log is InMemory or   *)
(* SQLite, where the next number follows from the last entry held.         *)
(***************************************************************************)
EXTENDS Integers, Sequences, FiniteSets

CONSTANTS
  Writers,         \* calls of log_entry; an entry is named by the call that wrote it
  Replicas,        \* processes that run the checkpoint scheduler
  Cluster,         \* PostgresStorage or not
  Retentions,      \* days an entry may be kept for, None for ever
  MaxDay,          \* bound on the days that pass
  MaxCheckpoints,  \* bound on the stored checkpoints
  StorageMayFail,  \* whether an await after an append may raise in this instance
  None

ASSUME ConstantsAssumption ==
  /\ Cluster \in BOOLEAN
  /\ StorageMayFail \in BOOLEAN
  /\ Retentions \subseteq (Nat \ {0}) \cup {None}
  /\ MaxDay \in Nat
  /\ MaxCheckpoints \in Nat
  /\ None \notin Nat \cup Writers \cup Replicas

VARIABLES
  day,          \* the clock, as far as retention is concerned
  log,          \* table audit_log, a function on the sequence numbers held
  head,         \* row audit_append_head (Cluster)
  checkpoints,  \* table checkpoints in the order of its row ids
  published,    \* checkpoints that a sink has received
  leader,       \* holder of the live lease leader:checkpoint
  call,         \* local state of the log_entry calls made so far
  tick          \* local state of each replica's checkpoint tick

vars == <<day, log, head, checkpoints, published, leader, call, tick>>

-----------------------------------------------------------------------------
(* Records                                                                 *)

\* What compute_entry_hash covers: an entry, with or without the two fields
\* that link it to an approval request and an approval grant.
Hash == [id : Writers \cup {None}, linkage : BOOLEAN]

Genesis == [id |-> None, linkage |-> FALSE]

LogEntry == [id : Writers, prev : Hash, expires : Nat \cup {None},
             signer : Writers \cup {None}]

\* A checkpoint: its number and the leaves under its Merkle root, whose count
\* is its last_sequence.
Checkpoint == [number : Nat \ {0}, leaves : Seq(Writers)]

CallState == [pc : {"sign", "done"}, seq : Nat \ {0}, expires : Nat \cup {None}]

TickState ==
  [pc : {"idle", "max", "last", "entries", "store", "publish", "release"},
   max : Nat, last : Checkpoint \cup {None}, leaves : Seq(Writers)]

Idle == [pc |-> "idle", max |-> 0, last |-> None, leaves |-> <<>>]

Init ==
  /\ day = 0
  /\ log = [s \in {} |-> Genesis]
  /\ head = [seq |-> 0, hash |-> Genesis]
  /\ checkpoints = <<>>
  /\ published = {}
  /\ leader = None
  /\ call = [w \in {} |-> Genesis]
  /\ tick = [r \in Replicas |-> Idle]

-----------------------------------------------------------------------------
(* Reading the log                                                         *)

\* SELECT MAX(sequence_number), 0 for an empty table.
LastSeq ==
  IF DOMAIN log = {} THEN 0
  ELSE CHOOSE s \in DOMAIN log : \A t \in DOMAIN log : t <= s

\* The entries numbered 1 to n that are still held, in order: the leaves of a
\* Merkle tree built from them.
LeavesTo(n) ==
  LET held == {s \in DOMAIN log : s <= n}
      nth(k) == CHOOSE s \in held : Cardinality({t \in held : t < s}) = k - 1
  IN [k \in 1..Cardinality(held) |-> log[nth(k)].id]

\* What hashing the row of entry s again gives: PostgresStorage has no columns
\* for the approval linkage.
RowHash(s) == [id |-> log[s].id, linkage |-> ~ Cluster]

-----------------------------------------------------------------------------
(* AuditLog.log_entry                                                      *)

\* Mutant: the number is the count of the rows held.
NextLinkByCount ==
  LET n == Cardinality(DOMAIN log)
  IN [seq |-> n + 1, prev |-> IF n \in DOMAIN log THEN RowHash(n) ELSE Genesis]

\* Mutant: the last row is looked up without an order.
NextLinkUnordered ==
  LET first == CHOOSE s \in DOMAIN log : \A t \in DOMAIN log : s <= t
  IN [seq |-> LastSeq + 1, prev |-> IF LastSeq = 0 THEN Genesis ELSE RowHash(first)]

\* Mutant: the append head is read and written without its lock, from a
\* snapshot in which the newest entry is missing.
NextLinkStale ==
  IF head.seq > 1 THEN [seq |-> head.seq, prev |-> head.hash]
  ELSE [seq |-> head.seq + 1, prev |-> head.hash]

\* The number and the previous_hash of the next entry: from the locked head
\* row, or from the last entry held.
NextLink ==
  IF Cluster THEN [seq |-> head.seq + 1, prev |-> head.hash]
  ELSE [seq |-> LastSeq + 1, prev |-> IF LastSeq = 0 THEN Genesis ELSE RowHash(LastSeq)]

\* append_audit_entry, one transaction.  The hash that goes to the head row is
\* computed from the entry given, before its linkage is lost.
AppendEntry(w) ==
  /\ w \notin DOMAIN call
  /\ \E ttl \in Retentions :
       LET link == NextLink
           expires == IF ttl = None THEN None ELSE day + ttl
           e == [id |-> w, prev |-> link.prev, expires |-> expires, signer |-> None]
       IN /\ log' = [s \in DOMAIN log \cup {link.seq} |-> IF s = link.seq THEN e ELSE log[s]]
          /\ head' = IF Cluster THEN [seq |-> link.seq, hash |-> [id |-> w, linkage |-> TRUE]]
                     ELSE head
          /\ call' = [v \in DOMAIN call \cup {w} |->
                        IF v = w THEN [pc |-> "sign", seq |-> link.seq, expires |-> expires]
                        ELSE call[v]]
  /\ UNCHANGED <<day, checkpoints, published, leader, tick>>

\* Mutant: the signature goes to whichever entry is the last by now.
SignLatest(w) ==
  /\ w \in DOMAIN call /\ call[w].pc = "sign"
  /\ log' = [log EXCEPT ![LastSeq].signer = w]
  /\ call' = [call EXCEPT ![w].pc = "done"]
  /\ UNCHANGED <<day, head, checkpoints, published, leader, tick>>

\* The signature of the entry returned by the append, stored under its number.
SignEntry(w) ==
  /\ w \in DOMAIN call /\ call[w].pc = "sign"
  /\ log' = [s \in DOMAIN log |->
               IF s = call[w].seq THEN [log[s] EXCEPT !.signer = w] ELSE log[s]]
  /\ call' = [call EXCEPT ![w].pc = "done"]
  /\ UNCHANGED <<day, head, checkpoints, published, leader, tick>>

\* The signer or the update raises, or the process dies: the entry stays
\* unsigned.
SignFails(w) ==
  /\ StorageMayFail
  /\ w \in DOMAIN call /\ call[w].pc = "sign"
  /\ call' = [call EXCEPT ![w].pc = "done"]
  /\ UNCHANGED <<day, log, head, checkpoints, published, leader, tick>>

-----------------------------------------------------------------------------
(* ANIPService._leader_checkpoint_tick                                     *)

Goto(r, pc) == tick' = [tick EXCEPT ![r].pc = pc]

\* try_acquire_leader: the lease is free, lapsed or already this replica's.
\* A replica that is refused returns and changes nothing.
AcquireLease(r) ==
  /\ tick[r].pc = "idle"
  /\ leader \in {None, r}
  /\ Len(checkpoints) < MaxCheckpoints
  /\ leader' = r
  /\ Goto(r, "max")
  /\ UNCHANGED <<day, log, head, checkpoints, published, call>>

ReadMaxSequence(r) ==
  /\ tick[r].pc = "max"
  /\ tick' = [tick EXCEPT ![r].pc = IF LastSeq = 0 THEN "release" ELSE "last",
                          ![r].max = LastSeq]
  /\ UNCHANGED <<day, log, head, checkpoints, published, leader, call>>

\* get_checkpoints(limit=1): the newest row, but PostgresStorage orders by id
\* ascending before it applies the limit.
LastCheckpoint ==
  IF checkpoints = <<>> THEN None
  ELSE IF Cluster THEN checkpoints[1] ELSE checkpoints[Len(checkpoints)]

\* Mutant: the range of the last checkpoint is not compared.
ReadLastUncompared(r) ==
  /\ tick[r].pc = "last"
  /\ tick' = [tick EXCEPT ![r].last = LastCheckpoint, ![r].pc = "entries"]
  /\ UNCHANGED <<day, log, head, checkpoints, published, leader, call>>

\* Mutant: the comparison is strict by one entry too many.
ReadLastLazy(r) ==
  /\ tick[r].pc = "last"
  /\ LET last == LastCheckpoint
         covered == IF last = None THEN 0 ELSE Len(last.leaves)
     IN tick' = [tick EXCEPT ![r].last = last,
                   ![r].pc = IF tick[r].max <= covered + 1 THEN "release" ELSE "entries"]
  /\ UNCHANGED <<day, log, head, checkpoints, published, leader, call>>

ReadLastCheckpoint(r) ==
  /\ tick[r].pc = "last"
  /\ LET last == LastCheckpoint
         covered == IF last = None THEN 0 ELSE Len(last.leaves)
     IN tick' = [tick EXCEPT ![r].last = last,
                   ![r].pc = IF tick[r].max <= covered THEN "release" ELSE "entries"]
  /\ UNCHANGED <<day, log, head, checkpoints, published, leader, call>>

\* Mutant: only the entries that the last checkpoint does not cover.
ReadEntriesSinceLast(r) ==
  /\ tick[r].pc = "entries"
  /\ LET covered == IF tick[r].last = None THEN 0 ELSE Len(tick[r].last.leaves)
     IN tick' = [tick EXCEPT ![r].pc = "store",
                   ![r].leaves = SubSeq(LeavesTo(tick[r].max), covered + 1, tick[r].max)]
  /\ UNCHANGED <<day, log, head, checkpoints, published, leader, call>>

ReadEntries(r) ==
  /\ tick[r].pc = "entries"
  /\ tick' = [tick EXCEPT ![r].pc = "store", ![r].leaves = LeavesTo(tick[r].max)]
  /\ UNCHANGED <<day, log, head, checkpoints, published, leader, call>>

\* Mutant: checkpoints are numbered from 0.
NewCheckpointFromZero(r) ==
  [number |-> IF tick[r].last = None THEN 0 ELSE tick[r].last.number + 1,
   leaves |-> tick[r].leaves]

\* create_checkpoint: the number follows the last checkpoint read, the range
\* is the whole tree.
NewCheckpoint(r) ==
  [number |-> IF tick[r].last = None THEN 1 ELSE tick[r].last.number + 1,
   leaves |-> tick[r].leaves]

Stored(n) == \E k \in 1..Len(checkpoints) : checkpoints[k].number = n

\* Mutant: checkpoint_id is not UNIQUE.
StoreDuplicates(r) ==
  /\ tick[r].pc = "store"
  /\ checkpoints' = Append(checkpoints, NewCheckpoint(r))
  /\ Goto(r, "publish")
  /\ UNCHANGED <<day, log, head, published, leader, call>>

\* Mutant: the conflict is ignored and the tick goes on.
StoreSwallowing(r) ==
  /\ tick[r].pc = "store"
  /\ checkpoints' = IF Stored(NewCheckpoint(r).number) THEN checkpoints
                    ELSE Append(checkpoints, NewCheckpoint(r))
  /\ Goto(r, "publish")
  /\ UNCHANGED <<day, log, head, published, leader, call>>

\* The insert; checkpoint_id is UNIQUE, so the tick fails when it is taken.
StoreCheckpoint(r) ==
  /\ tick[r].pc = "store"
  /\ IF Stored(NewCheckpoint(r).number)
     THEN Goto(r, "release") /\ UNCHANGED checkpoints
     ELSE /\ checkpoints' = Append(checkpoints, NewCheckpoint(r))
          /\ Goto(r, "publish")
  /\ UNCHANGED <<day, log, head, published, leader, call>>

PublishCheckpoint(r) ==
  /\ tick[r].pc = "publish"
  /\ published' = published \cup {NewCheckpoint(r)}
  /\ Goto(r, "release")
  /\ UNCHANGED <<day, log, head, checkpoints, leader, call>>

\* An await or a sink of the tick raises: the scheduler reports and goes on.
TickFails(r) ==
  /\ StorageMayFail
  /\ tick[r].pc \in {"max", "last", "entries", "store", "publish"}
  /\ Goto(r, "release")
  /\ UNCHANGED <<day, log, head, checkpoints, published, leader, call>>

\* The finally clause: only the holder's own lease is deleted, if the storage
\* answers.
ReleaseLease(r) ==
  /\ tick[r].pc = "release"
  /\ \/ leader' = IF leader = r THEN None ELSE leader
     \/ StorageMayFail /\ UNCHANGED leader
  /\ tick' = [tick EXCEPT ![r] = Idle]
  /\ UNCHANGED <<day, log, head, checkpoints, published, call>>

TickStep(r) ==
  \/ AcquireLease(r) \/ ReadMaxSequence(r) \/ ReadLastCheckpoint(r) \/ ReadEntries(r)
  \/ StoreCheckpoint(r) \/ PublishCheckpoint(r) \/ TickFails(r) \/ ReleaseLease(r)

-----------------------------------------------------------------------------
(* The environment and retention                                           *)

\* The time to live of the lease passes while a tick is still at work.  Only
\* another replica could take notice.
LeaseLapses ==
  /\ Cluster
  /\ leader # None
  /\ leader' = None
  /\ UNCHANGED <<day, log, head, checkpoints, published, call, tick>>

\* An append is not left unsigned for days.
NewDay ==
  /\ day < MaxDay
  /\ \A w \in DOMAIN call : call[w].pc # "sign"
  /\ day' = day + 1
  /\ UNCHANGED <<log, head, checkpoints, published, leader, call, tick>>

\* RetentionEnforcer.sweep: every expired entry, wherever it stands in the
\* log; never in a cluster.
Sweep ==
  /\ ~ Cluster
  /\ log' = [s \in {t \in DOMAIN log : log[t].expires = None \/ day <= log[t].expires} |-> log[s]]
  /\ UNCHANGED <<day, head, checkpoints, published, leader, call, tick>>

Next ==
  \/ \E w \in Writers : AppendEntry(w) \/ SignEntry(w) \/ SignFails(w)
  \/ \E r \in Replicas : TickStep(r)
  \/ LeaseLapses \/ NewDay \/ Sweep

Spec == Init /\ [][Next]_vars

\* The scheduler's loop goes on for ever on every replica; nobody is obliged
\* to write, and no lease has to lapse.
FairSpec == Spec /\ \A r \in Replicas : WF_vars(TickStep(r))

-----------------------------------------------------------------------------
(* Properties                                                              *)

\* The type invariant: tables, leases and the local state of calls and ticks.
TypeOK ==
  /\ day \in Nat
  /\ DOMAIN log \subseteq Nat \ {0} /\ log \in [DOMAIN log -> LogEntry]
  /\ head \in [seq : Nat, hash : Hash]
  /\ checkpoints \in Seq(Checkpoint)
  /\ published \subseteq Checkpoint
  /\ leader \in Replicas \cup {None}
  /\ DOMAIN call \subseteq Writers /\ call \in [DOMAIN call -> CallState]
  /\ tick \in [Replicas -> TickState]

Held(w) == call[w].seq \in DOMAIN log /\ log[call[w].seq].id = w

\* No entry is lost, overwritten or renumbered before its retention is over,
\* and without expiry the numbers have no gap, however many replicas append
\* (append_audit_entry, RetentionEnforcer.sweep; SPEC.md 6.11).
EntriesKept ==
  /\ \A w \in DOMAIN call :
       call[w].expires = None \/ day <= call[w].expires => Held(w)
  /\ (\A w \in DOMAIN call : Held(w)) => DOMAIN log = 1..Cardinality(DOMAIN call)

\* Hashing the row before an entry gives the entry's previous_hash: the chain
\* of what is held can be verified from the table, in the middle of appends,
\* signatures and deletions (append_audit_entry, compute_entry_hash).
ChainVerifies ==
  \A s \in DOMAIN log :
    /\ s = 1 => log[s].prev = Genesis
    /\ s - 1 \in DOMAIN log => log[s].prev = RowHash(s - 1)

\* A signature that comes after other appends still lands on the entry it was
\* made for (log_entry, update_audit_signature).
SignedByOwner ==
  \A s \in DOMAIN log :
    /\ log[s].signer \in {None, log[s].id}
    /\ log[s].signer # None => call[log[s].id].pc = "done"

\* Checkpoints are numbered without repetition in the order they are stored
\* and, as long as nothing expired, each is a proper prefix of the next and
\* of the log, whatever a tick read before its lease lapsed
\* (reconstruct_and_create_checkpoint, store_checkpoint).
CheckpointsGrow ==
  LET n == Len(checkpoints)
      leaves(k) == IF k > n THEN LeavesTo(LastSeq) ELSE checkpoints[k].leaves
  IN /\ \A k \in 1..n : checkpoints[k].number = k
     /\ (\A w \in DOMAIN call : Held(w)) =>
          \A j, k \in 1..(n + 1) : j < k =>
            /\ SubSeq(leaves(k), 1, Len(leaves(j))) = leaves(j)
            /\ k <= n => Len(leaves(j)) < Len(leaves(k))

\* SPEC.md 7.4: whenever enough entries are held for a proof under a checkpoint
\* to be served, the tree rebuilt for it has the checkpoint's merkle_root
\* (get_checkpoint, _rebuild_merkle_to).
ProofsMatchRoot ==
  \A k \in 1..Len(checkpoints) :
    LET leaves == checkpoints[k].leaves
        rebuilt == LeavesTo(Len(leaves))
    IN Len(rebuilt) >= Len(leaves) => rebuilt = leaves

\* A sink never receives a checkpoint that the table does not hold, even from
\* a leader that lost its lease (_leader_checkpoint_tick).
PublishedAreStored ==
  \A c \in published : \E k \in 1..Len(checkpoints) : checkpoints[k] = c

\* checkpoint.py: a tick covers everything up to the current highest number,
\* so an entry is in a checkpoint sooner or later, unless an entry expires.
EventuallyCovered ==
  \A w \in Writers :
    w \in DOMAIN call ~>
      \/ \E k \in 1..Len(checkpoints) :
           \E i \in 1..Len(checkpoints[k].leaves) : checkpoints[k].leaves[i] = w
      \/ \E v \in DOMAIN call : ~ Held(v)

Heads == {checkpoints[k].leaves : k \in 1..Len(checkpoints)}

Transparency == INSTANCE TransparencyLog WITH
                  Entries <- Writers, entries <- LeavesTo(LastSeq), heads <- Heads,
                  published <- {c.leaves : c \in published}

\* Without retention the log and its checkpoints implement a transparency log:
\* append-only, every checkpoint a longer prefix, only checkpoints published.
ImplementsTransparencyLog == Transparency!LogSpec

=============================================================================
