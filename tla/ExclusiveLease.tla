---------------------------- MODULE ExclusiveLease ----------------------------
(***************************************************************************)
(* The exclusive lease of one root principal, as anip_service/service.py,  *)
(* anip_server/delegation.py and the storage backends implement it.        *)
(*                                                                         *)
(* An invocation of a capability with exclusive_lock, under a token whose  *)
(* concurrent_branches is exclusive, takes a lease in the storage before   *)
(* its handler runs and gives it back when it returns.  While the handler  *)
(* runs, a heartbeat task of any invocation under such a token renews the  *)
(* lease every half of its time to live, and ignores whether it could.     *)
(* A statement reads the clock when it is sent and takes effect when the   *)
(* database executes it, later.  Leases of different principals have       *)
(* different keys and never meet.                                          *)
(***************************************************************************)
EXTENDS Integers

CONSTANTS
  Invocations,  \* calls of invoke for one root principal; a holder_id names one
  Calls,        \* the kinds of invocation
  Interval,     \* half of exclusive_ttl
  Delay,        \* how late a statement or an event loop may be
  MayCrash,     \* whether processes die in this instance
  None

TTL == 2 * Interval

\* Whether the capability asks for the lock, whether the token is exclusive
\* and whether the handler is a plain function, which blocks the event loop.
Call == [locks : BOOLEAN, exclusive : BOOLEAN, sync : BOOLEAN]

ASSUME ConstantsAssumption ==
  /\ Calls \subseteq Call
  /\ Interval \in Nat \ {0}
  /\ Delay \in Nat
  /\ MayCrash \in BOOLEAN
  /\ None \notin Int

\* Two delays fit into the half of the lease that a heartbeat leaves unused.
ASSUME TimelinessAssumption == 2 * Delay <= Interval

VARIABLES
  lease,  \* the row of table exclusive_leases, <<>> or <<[holder, left]>>
  inv     \* local state of the invocations made so far

vars == <<lease, inv>>

-----------------------------------------------------------------------------

\* The time left until expires_at.  Once the row is expired for every
\* statement that may be in flight, how long ago no longer matters.
Lease == [holder : Invocations, left : (-(Delay + 1))..TTL]

\* beat is the time left until the heartbeat is due; before the handler starts,
\* it counts down from the sample of the clock that the lease was taken with.
\* stmt is the age of a try_acquire_exclusive in flight.
InvocationState ==
  [pc : {"acquire", "start", "handler", "release", "done", "refused", "dead"},
   call : Calls, beat : (-Delay)..TTL, stmt : 0..Delay \cup {None}]

UsesLease(i) == inv[i].call.locks /\ inv[i].call.exclusive

InProgress(i) == inv[i].pc \in {"acquire", "start", "handler", "release"}

\* Invocation i changes its local state; its call stays.
Becomes(i, pc, beat, stmt) ==
  inv' = [inv EXCEPT ![i] = [pc |-> pc, call |-> inv[i].call, beat |-> beat, stmt |-> stmt]]

Init ==
  /\ lease = <<>>
  /\ inv = [i \in {} |-> None]

-----------------------------------------------------------------------------
(* The storage                                                             *)

\* Mutant: the lease is taken over at the very moment it ends.
CanTakeEarly(i, age) ==
  lease = <<>> \/ lease[1].left <= -age \/ lease[1].holder = i

\* The condition of try_acquire_exclusive, for a statement that read the clock
\* age ago: expires_at is before that, or the holder asks again.
CanTake(i, age) ==
  lease = <<>> \/ lease[1].left < -age \/ lease[1].holder = i

\* Mutant: whoever holds the lease, the row is deleted.
DeleteAny(i) == lease' = <<>>

\* release_exclusive.
DeleteOwn(i) ==
  lease' = IF lease # <<>> /\ lease[1].holder = i THEN <<>> ELSE lease

-----------------------------------------------------------------------------
(* ANIPService.invoke                                                      *)

\* acquire_exclusive_lock reads the clock and sends its statement; without the
\* lock, or under a token that allows concurrent branches, there is none.
Invoke(i) ==
  /\ i \notin DOMAIN inv
  /\ \E c \in Calls :
       LET s == IF c.locks /\ c.exclusive
                THEN [pc |-> "acquire", call |-> c, beat |-> 0, stmt |-> 0]
                ELSE [pc |-> "start", call |-> c, beat |-> 0, stmt |-> None]
       IN inv' = [j \in DOMAIN inv \cup {i} |-> IF j = i THEN s ELSE inv[j]]
  /\ UNCHANGED lease

\* A statement takes effect.  An invocation that waits for the lock goes on or
\* is refused; the renewal loop goes to sleep again, whatever the answer; a
\* statement whose sender is gone has its effect all the same.
StatementLands(i) ==
  /\ i \in DOMAIN inv /\ inv[i].stmt # None
  /\ LET taken == CanTake(i, inv[i].stmt)
         next == CASE inv[i].pc = "acquire" -> IF taken THEN "start" ELSE "refused"
                   [] OTHER -> inv[i].pc
         beat == IF inv[i].pc = "handler" THEN Interval
                 ELSE IF next = "start" THEN inv[i].beat ELSE 0
     IN /\ lease' = IF taken THEN <<[holder |-> i, left |-> TTL - inv[i].stmt]>> ELSE lease
        /\ Becomes(i, next, beat, None)

\* Mutant: the interval is the time to live times two.
HandlerStartsLazy(i) ==
  /\ i \in DOMAIN inv /\ inv[i].pc = "start"
  /\ Becomes(i, "handler", 2 * TTL, inv[i].stmt)
  /\ UNCHANGED lease

\* Mutant: the renewal loop sleeps for the whole time to live.
HandlerStartsLate(i) ==
  /\ i \in DOMAIN inv /\ inv[i].pc = "start"
  /\ Becomes(i, "handler", TTL, inv[i].stmt)
  /\ UNCHANGED lease

\* The handler is called and the renewal loop goes to sleep.
HandlerStarts(i) ==
  /\ i \in DOMAIN inv /\ inv[i].pc = "start"
  /\ Becomes(i, "handler", Interval, inv[i].stmt)
  /\ UNCHANGED lease

\* Mutant: the renewal task is never cancelled.
RenewForEver(i) ==
  /\ i \in DOMAIN inv /\ inv[i].pc \in {"handler", "release", "done"}
  /\ inv[i].call.exclusive /\ ~ inv[i].call.sync
  /\ inv[i].stmt = None /\ inv[i].beat <= 0
  /\ Becomes(i, inv[i].pc, inv[i].beat, 0)
  /\ UNCHANGED lease

\* The loop of _run_with_exclusive_heartbeat, for every exclusive token,
\* whether or not the lock was taken; it never runs beside a plain function.
Renew(i) ==
  /\ i \in DOMAIN inv /\ inv[i].pc = "handler"
  /\ inv[i].call.exclusive /\ ~ inv[i].call.sync
  /\ inv[i].stmt = None /\ inv[i].beat <= 0
  /\ Becomes(i, inv[i].pc, inv[i].beat, 0)
  /\ UNCHANGED lease

\* The handler returns or raises, or a stage before it does; the renewal loop
\* is cancelled, and everything up to the finally clause may take its time.
HandlerEnds(i) ==
  /\ i \in DOMAIN inv /\ inv[i].pc \in {"start", "handler"}
  /\ Becomes(i, "release", 0, inv[i].stmt)
  /\ UNCHANGED lease

ReleaseLock(i) ==
  /\ i \in DOMAIN inv /\ inv[i].pc = "release"
  /\ IF UsesLease(i) THEN DeleteOwn(i) ELSE UNCHANGED lease
  /\ Becomes(i, "done", inv[i].beat, inv[i].stmt)

\* The process dies, the release raises, or the caller goes away while the lock
\* is asked for: the row stays, and a statement that was sent will land.
Crash(i) ==
  /\ MayCrash
  /\ i \in DOMAIN inv /\ InProgress(i)
  /\ Becomes(i, "dead", 0, inv[i].stmt)
  /\ UNCHANGED lease

-----------------------------------------------------------------------------
(* Time                                                                    *)

\* The assumption about the deployment: what is due is done within Delay.  A
\* plain function owes nothing while it runs.
InTime(i) ==
  /\ inv[i].stmt # None => inv[i].stmt < Delay
  /\ /\ inv[i].pc \in {"acquire", "start", "handler"}
     /\ inv[i].call.exclusive
     /\ inv[i].pc = "handler" => ~ inv[i].call.sync
     => inv[i].beat > -Delay

Later(x, floor) == IF x > floor THEN x - 1 ELSE x

Tick ==
  /\ \A i \in DOMAIN inv : InTime(i)
  /\ lease' = IF lease = <<>> THEN lease
              ELSE <<[holder |-> lease[1].holder, left |-> Later(lease[1].left, -(Delay + 1))]>>
  /\ inv' = [i \in DOMAIN inv |->
               [pc |-> inv[i].pc, call |-> inv[i].call,
                beat |-> IF inv[i].pc \in {"acquire", "start", "handler"}
                         THEN Later(inv[i].beat, -Delay) ELSE inv[i].beat,
                stmt |-> IF inv[i].stmt = None THEN None ELSE inv[i].stmt + 1]]

InvocationStep(i) ==
  Invoke(i) \/ StatementLands(i) \/ HandlerStarts(i) \/ Renew(i)
    \/ HandlerEnds(i) \/ ReleaseLock(i) \/ Crash(i)

Next == Tick \/ \E i \in Invocations : InvocationStep(i)

Spec == Init /\ [][Next]_vars

\* Time passes, statements land, and what is due is done; a handler may run
\* for ever.
FairSpec ==
  /\ Spec
  /\ WF_vars(Tick)
  /\ \A i \in Invocations :
       WF_vars(StatementLands(i)) /\ WF_vars(Renew(i)) /\ WF_vars(HandlerStarts(i))

-----------------------------------------------------------------------------
(* Properties                                                              *)

\* The type invariant: one lease row and the local state of the invocations.
TypeOK ==
  /\ lease = <<>> \/ \E l \in Lease : lease = <<l>>
  /\ DOMAIN inv \subseteq Invocations /\ inv \in [DOMAIN inv -> InvocationState]

\* A coroutine handler that runs under the lock.
Inside(i) == inv[i].pc = "handler" /\ UsesLease(i) /\ ~ inv[i].call.sync

\* SPEC.md 4.3 and 6.11: of the invocations of one root principal that ask for
\* the lock, at most one runs its handler, though statements and heartbeats are
\* late, processes die and invocations without the lock renew as well
\* (acquire_exclusive_lock, _run_with_exclusive_heartbeat).
MutualExclusion ==
  \A i, j \in DOMAIN inv : Inside(i) /\ Inside(j) => i = j

\* Before it expires, a lease is given up by its own holder only, in the finally
\* clause of invoke: no late renewal, refused caller or foreign release takes
\* it away (try_acquire_exclusive, release_exclusive).
OnlyHolderReleases ==
  [][lease # <<>> /\ lease[1].left >= 0 =>
       LET i == lease[1].holder
       IN \/ lease' # <<>> /\ lease'[1].holder = i
          \/ i \in DOMAIN inv /\ inv[i].pc = "release" /\ inv'[i].pc = "done"]_vars

\* The lease of an invocation that is over, whether it returned, died or was
\* cancelled with a renewal in flight, does not keep others out for ever
\* (exclusive_ttl).
LeaseComesFree ==
  \A i \in Invocations :
    lease # <<>> /\ lease[1].holder = i /\ ~ InProgress(i)
      ~> lease = <<>> \/ lease[1].holder # i \/ lease[1].left < 0

\* delegation.py: a refusal says that another request of the principal is in
\* progress.
RefusedOnlyWhileBusy ==
  [][\A i \in DOMAIN inv :
       inv[i].pc = "acquire" /\ inv'[i].pc = "refused" =>
         \E j \in DOMAIN inv : j # i /\ InProgress(j)]_vars

=============================================================================
