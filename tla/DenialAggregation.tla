-------------------------- MODULE DenialAggregation ---------------------------
(***************************************************************************)
(* The aggregation of low-value denials: AuditAggregator in                *)
(* anip_service/aggregation.py and ANIPService._flush_aggregator, which    *)
(* persists what a flush returns, entry by entry.                          *)
(*                                                                         *)
(* _log_audit submits denials of class malformed_or_spam here instead of   *)
(* logging them.  A periodic task and shutdown flush the windows that are  *)
(* over.  flush takes them out of the buffer at once; each entry is then   *)
(* awaited, and the first one that raises ends the flush.  shutdown leaves *)
(* the task alone; stop cancels it, wherever it waits.                     *)
(***************************************************************************)
EXTENDS Integers, Sequences, FiniteSets, FiniteSetsExt, SequencesExt

CONSTANTS
  Denials,   \* denials submitted, one submission each
  Groups,    \* grouping keys: actor, capability and failure type
  Window,    \* window_seconds
  Horizon,   \* bound on the clock
  MayRefuse  \* whether the storage may fail in this instance

ASSUME AggregationAssumption ==
  /\ Window \in Nat \ {0}
  /\ Horizon \in Nat
  /\ MayRefuse \in BOOLEAN

\* The background task and the call of shutdown.
Flushers == {"periodic", "shutdown"}

VARIABLES
  time,       \* the clock
  submitted,  \* [at, group] of each denial submitted so far
  buffer,     \* the denials in _buckets
  queue,      \* what each flush still has to persist, items: sets of denials
  audited,    \* what log_entry has persisted, items again, in their order
  phase       \* "up", "down" once shutdown was called, "stopped" after stop

aggregationVars == <<time, submitted, buffer, queue, audited, phase>>

AggregationInit ==
  /\ time = 0
  /\ submitted = [d \in {} |-> 0]
  /\ buffer = {}
  /\ queue = [f \in Flushers |-> <<>>]
  /\ audited = <<>>
  /\ phase = "up"

-----------------------------------------------------------------------------

\* _bucket_key: where the window of a time begins.
BucketOf(at) == at - (at % Window)

\* Mutant: a window is over once it has begun.
OverOnceBegun(d) == BucketOf(submitted[d].at) <= time

\* A window whose end is not after now.
Over(d) == BucketOf(submitted[d].at) + Window <= time

SameItem(d, e) ==
  /\ BucketOf(submitted[d].at) = BucketOf(submitted[e].at)
  /\ submitted[d].group = submitted[e].group

\* One item for each group of each window among the denials D.
Items(D) == {{e \in D : SameItem(d, e)} : d \in D}

\* Older windows first; the order of the groups is that of their arrival.
InOrder(items) ==
  \A j, k \in 1..Len(items) : j < k =>
    \A d \in items[j], e \in items[k] : BucketOf(submitted[d].at) <= BucketOf(submitted[e].at)

\* _log_audit stamps the denial and puts it into its bucket.
Submit(d, g) ==
  /\ d \notin DOMAIN submitted
  /\ submitted' = [e \in DOMAIN submitted \cup {d} |->
                     IF e = d THEN [at |-> time, group |-> g] ELSE submitted[e]]
  /\ buffer' = buffer \cup {d}
  /\ UNCHANGED <<time, queue, audited, phase>>

\* AuditAggregator.flush: closed windows leave the buffer.
Take(f) ==
  LET closed == {d \in buffer : Over(d)}
  IN /\ closed # {} /\ queue[f] = <<>>
     /\ \E items \in SetToSeqs(Items(closed)) :
          InOrder(items) /\ queue' = [queue EXCEPT ![f] = items]
     /\ buffer' = buffer \ closed

\* Mutant: shutdown ends the task.
PeriodicFlushWhileUp ==
  /\ phase = "up"
  /\ Take("periodic")
  /\ UNCHANGED <<time, submitted, audited, phase>>

\* The next round of the periodic task.
PeriodicFlush ==
  /\ phase # "stopped"
  /\ Take("periodic")
  /\ UNCHANGED <<time, submitted, audited, phase>>

\* shutdown flushes the same way: a window still open stays behind.  After stop
\* it does nothing.
Shutdown ==
  /\ phase # "stopped"
  /\ phase' = "down"
  /\ \/ Take("shutdown")
     \/ /\ \A d \in buffer : ~ Over(d)
        /\ UNCHANGED <<buffer, queue>>
  /\ UNCHANGED <<time, submitted, audited>>

\* stop cancels the periodic task.
Stop ==
  /\ phase # "stopped"
  /\ phase' = "stopped"
  /\ queue' = [queue EXCEPT !["periodic"] = <<>>]
  /\ UNCHANGED <<time, submitted, buffer, audited>>

\* log_entry persists the next item, a single denial.  When the signature
\* then fails, the entry is there and the flush over.
Persist(f) ==
  /\ queue[f] # <<>> /\ Cardinality(Head(queue[f])) = 1
  /\ audited' = Append(audited, Head(queue[f]))
  /\ \/ queue' = [queue EXCEPT ![f] = Tail(@)]
     \/ MayRefuse /\ queue' = [queue EXCEPT ![f] = <<>>]
  /\ UNCHANGED <<time, submitted, buffer, phase>>

\* The record of an aggregated item has neither "capability" nor "success",
\* which log_entry reads first: KeyError.  The storage may fail too.  Either
\* way the flush ends, and what it had taken is gone.
Abandon(f) ==
  /\ queue[f] # <<>>
  /\ Cardinality(Head(queue[f])) > 1 \/ MayRefuse
  /\ queue' = [queue EXCEPT ![f] = <<>>]
  /\ UNCHANGED <<time, submitted, buffer, audited, phase>>

Elapse ==
  /\ time < Horizon
  /\ time' = time + 1
  /\ UNCHANGED <<submitted, buffer, queue, audited, phase>>

AggregationNext ==
  \/ \E d \in Denials, g \in Groups : Submit(d, g)
  \/ PeriodicFlush \/ Shutdown \/ Stop \/ Elapse
  \/ \E f \in Flushers : Persist(f) \/ Abandon(f)

AggregationSpec == AggregationInit /\ [][AggregationNext]_aggregationVars

\* The task comes round again, and log_entry returns or raises.
AggregationFairness ==
  /\ WF_aggregationVars(PeriodicFlush)
  /\ \A f \in Flushers : WF_aggregationVars(Persist(f) \/ Abandon(f))

-----------------------------------------------------------------------------
(* Properties                                                              *)

\* What a flush has taken and not yet persisted.
Pending == UNION {{queue[f][k] : k \in 1..Len(queue[f])} : f \in Flushers}

Recorded == {audited[k] : k \in 1..Len(audited)}

\* Types, and that items are made of denials that were submitted.
AggregationTypeOK ==
  /\ time \in 0..Horizon /\ phase \in {"up", "down", "stopped"}
  /\ DOMAIN submitted \subseteq Denials
  /\ \A d \in DOMAIN submitted : submitted[d] \in [at : 0..Horizon, group : Groups]
  /\ buffer \subseteq DOMAIN submitted
  /\ Pending \cup Recorded \subseteq (SUBSET DOMAIN submitted) \ {{}}

\* A window of a group gets one record at most, and it stands for all of its
\* denials: whatever is submitted while a flush is under way, by the task or
\* by shutdown, no denial is recorded twice, and none is left for a second
\* record of a window that has one.
OneRecordPerWindow ==
  /\ \A j, k \in 1..Len(audited) : audited[j] = audited[k] => j = k
  /\ \A i \in Pending \cup Recorded : \A d \in i :
       /\ \A e \in DOMAIN submitted : SameItem(d, e) <=> e \in i
       /\ d \notin buffer
  /\ Pending \cap Recorded = {}

\* A denial whose window is over leaves the buffer sooner or later, unless the
\* service is stopped: a flush that raises does not end the periodic task.
ClosedWindowsTaken ==
  \A d \in Denials :
    d \in DOMAIN submitted /\ d \in buffer /\ Over(d)
      ~> d \in DOMAIN submitted /\ (d \notin buffer \/ phase = "stopped")

\* SPEC.md 6.9: at window close, a bucket with more than one event is emitted as
\* one aggregated entry, and a single event as a normal one: what a flush has
\* taken and no longer waits for is in the audit log.
ClosedWindowsRecorded ==
  phase # "stopped" =>
    \A d \in DOMAIN submitted \ (buffer \cup UNION Pending) : d \in UNION Recorded

=============================================================================
