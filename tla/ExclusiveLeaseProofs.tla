------------------------ MODULE ExclusiveLeaseProofs -------------------------
(***************************************************************************)
(* What the exclusive lease promises for every set of invocations, every   *)
(* lease time and every delay that fits twice into half of it.             *)
(*                                                                         *)
(* Mutual exclusion alone is not inductive: nothing in it says that a      *)
(* running handler still has its lease.  The invariant adds how much of    *)
(* the lease is left, measured against the heartbeat that is due.          *)
(***************************************************************************)
EXTENDS ExclusiveLease, TLAPS

Has(i) == lease # <<>> /\ lease[1].holder = i

\* A caller that waits for the lock has its statement in flight, and has been
\* waiting for as long as that.
WaitingIsTimed(i) ==
  UsesLease(i) /\ inv[i].pc = "acquire" =>
    inv[i].stmt # None /\ inv[i].beat + inv[i].stmt = 0

\* The lock that was just taken ends one time to live after the clock was read.
StartingHasLease(i) ==
  UsesLease(i) /\ inv[i].pc = "start" =>
    /\ inv[i].stmt = None
    /\ Has(i) /\ lease[1].left >= TTL + inv[i].beat

\* The lease of a running coroutine outlives the next heartbeat by Delay, and
\* a heartbeat in flight is not older than it is overdue.
RunningHasLease(i) ==
  Inside(i) =>
    /\ Has(i) /\ lease[1].left >= inv[i].beat + Delay
    /\ inv[i].stmt # None => inv[i].stmt <= -inv[i].beat

LeaseInv ==
  /\ TypeOK
  /\ \A i \in DOMAIN inv :
       WaitingIsTimed(i) /\ StartingHasLease(i) /\ RunningHasLease(i)

-----------------------------------------------------------------------------
(* Facts about time and the local state                                    *)

\* Arithmetic of the constants: the lease time is twice the interval, into which
\* two delays fit.
LEMMA ConstantFacts ==
  /\ Interval \in Nat \ {0} /\ Delay \in Nat /\ None \notin Int
  /\ TTL \in Nat /\ TTL = Interval + Interval
  /\ Delay + Delay <= Interval
BY ConstantsAssumption, TimelinessAssumption, SMT DEF TTL

\* The fields of an invocation under the type invariant.
LEMMA Fields ==
  ASSUME TypeOK, NEW i \in DOMAIN inv
  PROVE  /\ i \in Invocations
         /\ inv[i] \in InvocationState
         /\ inv[i].call \in Calls
         /\ inv[i].beat \in Int /\ inv[i].beat >= -Delay /\ inv[i].beat <= TTL
         /\ inv[i].stmt # None =>
              inv[i].stmt \in Int /\ 0 <= inv[i].stmt /\ inv[i].stmt <= Delay
BY ConstantFacts, SMT DEF TypeOK, InvocationState

\* The fields of the lease under the type invariant.
LEMMA Row ==
  ASSUME TypeOK, lease # <<>>
  PROVE  /\ lease[1] \in Lease /\ lease = <<lease[1]>>
         /\ lease[1].holder \in Invocations /\ lease[1].left \in Int
         /\ lease[1].left >= -(Delay + 1) /\ lease[1].left <= TTL
<1>1. PICK l \in Lease : lease = <<l>>
  BY DEF TypeOK
<1> QED
  BY <1>1, ConstantFacts, SMT DEF Lease

\* A row that the type invariant allows.
LEMMA NewRow ==
  ASSUME NEW i \in Invocations, NEW n \in Int, n >= -(Delay + 1), n <= TTL
  PROVE  [holder |-> i, left |-> n] \in Lease
BY ConstantFacts, SMT DEF Lease

\* An invocation whose state changed within its type keeps the type of inv.
LEMMA OneChange ==
  ASSUME TypeOK, NEW i \in DOMAIN inv, NEW p, NEW b, NEW s, Becomes(i, p, b, s),
         p \in {"acquire", "start", "handler", "release", "done", "refused", "dead"},
         b \in (-Delay)..TTL, s \in (0..Delay) \cup {None}
  PROVE  /\ DOMAIN inv' = DOMAIN inv /\ inv' \in [DOMAIN inv -> InvocationState]
         /\ inv'[i] = [pc |-> p, call |-> inv[i].call, beat |-> b, stmt |-> s]
         /\ \A j \in DOMAIN inv \ {i} : inv'[j] = inv[j]
<1> DEFINE t == [pc |-> p, call |-> inv[i].call, beat |-> b, stmt |-> s]
<1>1. inv' = [inv EXCEPT ![i] = t] /\ inv \in [DOMAIN inv -> InvocationState]
  BY DEF Becomes, TypeOK
<1>2. t \in InvocationState
  BY Fields, SMT DEF InvocationState
<1> HIDE DEF t
<1>3. /\ DOMAIN inv' = DOMAIN inv /\ inv' \in [DOMAIN inv -> InvocationState]
      /\ inv'[i] = t
      /\ \A j \in DOMAIN inv \ {i} : inv'[j] = inv[j]
  BY <1>1, <1>2
<1> QED
  BY <1>3 DEF t

-----------------------------------------------------------------------------
(* The type invariant                                                      *)

\* No invocation exists and no lease is held in the beginning.
LEMMA TypeInit == Init => TypeOK
BY SMT DEF Init, TypeOK

\* Every step keeps the types.
LEMMA TypeStep == TypeOK /\ [Next]_vars => TypeOK'
<1> SUFFICES ASSUME TypeOK, [Next]_vars PROVE TypeOK'
  OBVIOUS
<1> USE ConstantFacts
<1>1. CASE Tick
  <2>1. lease' = <<>> \/ \E l \in Lease : lease' = <<l>>
    <3>1. CASE lease = <<>>
      BY <1>1, <3>1 DEF Tick
    <3>2. CASE lease # <<>>
      <4>1. lease[1] \in Lease /\ lease[1].left \in Int
        BY <3>2, Row
      <4>2. lease' = <<[holder |-> lease[1].holder, left |-> Later(lease[1].left, -(Delay + 1))]>>
        BY <1>1, <3>2 DEF Tick
      <4>3. [holder |-> lease[1].holder, left |-> Later(lease[1].left, -(Delay + 1))] \in Lease
        BY <4>1, SMT DEF Lease, Later
      <4> QED
        BY <4>2, <4>3
    <3> QED
      BY <3>1, <3>2
  <2>2. ASSUME NEW i \in DOMAIN inv
        PROVE  [pc |-> inv[i].pc, call |-> inv[i].call,
                beat |-> IF inv[i].pc \in {"acquire", "start", "handler"}
                         THEN Later(inv[i].beat, -Delay) ELSE inv[i].beat,
                stmt |-> IF inv[i].stmt = None THEN None ELSE inv[i].stmt + 1]
               \in InvocationState
    <3>1. inv[i] \in InvocationState
      BY Fields
    <3>2. inv[i].stmt # None => inv[i].stmt < Delay
      BY <1>1 DEF Tick, InTime
    <3>3. inv[i].stmt = None \/ inv[i].stmt + 1 \in 0..Delay
      BY <3>2, Fields, SMT
    <3>4. Later(inv[i].beat, -Delay) \in (-Delay)..TTL
      BY Fields, SMT DEF Later
    <3> QED
      BY <3>1, <3>3, <3>4, SMT DEF InvocationState
  <2>3. DOMAIN inv' = DOMAIN inv /\ inv' \in [DOMAIN inv -> InvocationState]
    BY <1>1, <2>2 DEF Tick
  <2> QED
    BY <2>1, <2>3 DEF TypeOK
<1>2. ASSUME NEW i \in Invocations, Invoke(i) PROVE TypeOK'
  <2>1. PICK c \in Calls :
          inv' = [j \in DOMAIN inv \cup {i} |->
                    IF j = i
                    THEN IF c.locks /\ c.exclusive
                         THEN [pc |-> "acquire", call |-> c, beat |-> 0, stmt |-> 0]
                         ELSE [pc |-> "start", call |-> c, beat |-> 0, stmt |-> None]
                    ELSE inv[j]]
    BY <1>2 DEF Invoke
  <2>2. /\ [pc |-> "acquire", call |-> c, beat |-> 0, stmt |-> 0] \in InvocationState
        /\ [pc |-> "start", call |-> c, beat |-> 0, stmt |-> None] \in InvocationState
    BY SMT DEF InvocationState
  <2> QED
    BY <1>2, <2>1, <2>2, SMT DEF Invoke, TypeOK
<1>3. ASSUME NEW i \in Invocations, StatementLands(i) PROVE TypeOK'
  <2>1. i \in DOMAIN inv /\ inv[i].stmt # None
    BY <1>3 DEF StatementLands
  <2>2. PICK p, b :
          /\ p \in {"start", "refused", inv[i].pc}
          /\ b \in {Interval, 0, inv[i].beat}
          /\ Becomes(i, p, b, None)
    BY <1>3 DEF StatementLands
  <2>3. inv[i].pc \in {"acquire", "start", "handler", "release", "done", "refused", "dead"}
    BY <2>1, Fields, SMT DEF InvocationState
  <2>4. b \in (-Delay)..TTL
    BY <2>1, <2>2, Fields, SMT
  <2>5. DOMAIN inv' = DOMAIN inv /\ inv' \in [DOMAIN inv -> InvocationState]
    BY <2>1, <2>2, <2>3, <2>4, OneChange
  <2>6. [holder |-> i, left |-> TTL - inv[i].stmt] \in Lease
    BY <2>1, Fields, SMT DEF Lease
  <2>7. lease' = lease \/ lease' = <<[holder |-> i, left |-> TTL - inv[i].stmt]>>
    BY <1>3 DEF StatementLands
  <2> QED
    BY <2>5, <2>6, <2>7 DEF TypeOK
<1>4. ASSUME NEW i \in Invocations,
             HandlerStarts(i) \/ Renew(i) \/ HandlerEnds(i) \/ ReleaseLock(i) \/ Crash(i)
      PROVE  TypeOK'
  <2>1. i \in DOMAIN inv
    BY <1>4 DEF HandlerStarts, Renew, HandlerEnds, ReleaseLock, Crash
  <2>2. PICK p, b, s :
          /\ p \in {"handler", "release", "done", "dead"}
          /\ b \in {Interval, 0, inv[i].beat} /\ s \in {0, inv[i].stmt}
          /\ Becomes(i, p, b, s)
    BY <1>4 DEF HandlerStarts, Renew, HandlerEnds, ReleaseLock, Crash
  <2>3. b \in (-Delay)..TTL /\ s \in (0..Delay) \cup {None}
    BY <2>1, <2>2, Fields, SMT
  <2>4. DOMAIN inv' = DOMAIN inv /\ inv' \in [DOMAIN inv -> InvocationState]
    BY <2>1, <2>2, <2>3, OneChange
  <2>5. lease' = lease \/ lease' = <<>>
    BY <1>4 DEF HandlerStarts, Renew, HandlerEnds, ReleaseLock, Crash, DeleteOwn
  <2> QED
    BY <2>4, <2>5 DEF TypeOK
<1>5. CASE UNCHANGED vars
  BY <1>5 DEF vars, TypeOK
<1> QED
  BY <1>1, <1>2, <1>3, <1>4, <1>5 DEF Next, InvocationStep

\* Type correctness of the lease row and of every invocation's local state.
THEOREM TypeCorrect == Spec => []TypeOK
<1>1. Init => TypeOK
  BY TypeInit
<1>2. TypeOK /\ [Next]_vars => TypeOK'
  BY TypeStep
<1> QED
  BY <1>1, <1>2, PTL DEF Spec

-----------------------------------------------------------------------------
(* Mutual exclusion                                                        *)

\* A lease that has not expired is not taken by a statement of anyone else.
LEMMA OthersCannotTake ==
  ASSUME TypeOK, NEW i, NEW j \in DOMAIN inv, j # i, inv[j].stmt # None,
         Has(i), lease[1].left >= 0
  PROVE  ~ CanTake(j, inv[j].stmt)
<1>1. inv[j].stmt \in Int /\ 0 <= inv[j].stmt
  BY Fields
<1>2. lease # <<>> /\ lease[1].holder # j /\ lease[1].left \in Int
  BY Row DEF Has
<1> QED
  BY <1>1, <1>2, SMT DEF CanTake

\* An invocation that starts or runs its handler has a lease that has not expired.
LEMMA LeaseIsLive ==
  ASSUME LeaseInv, NEW i \in DOMAIN inv,
         (UsesLease(i) /\ inv[i].pc = "start") \/ Inside(i)
  PROVE  Has(i) /\ lease[1].left >= 0
<1>1. TypeOK /\ inv[i].beat \in Int /\ inv[i].beat >= -Delay
  BY Fields DEF LeaseInv
<1>2. CASE UsesLease(i) /\ inv[i].pc = "start"
  <2>1. Has(i) /\ lease[1].left >= TTL + inv[i].beat
    BY <1>2 DEF LeaseInv, StartingHasLease
  <2>2. lease[1].left \in Int
    BY <1>1, <2>1, Row DEF Has
  <2> QED
    BY <1>1, <2>1, <2>2, ConstantFacts, SMT
<1>3. CASE Inside(i)
  <2>1. Has(i) /\ lease[1].left >= inv[i].beat + Delay
    BY <1>3 DEF LeaseInv, RunningHasLease
  <2>2. lease[1].left \in Int
    BY <1>1, <2>1, Row DEF Has
  <2> QED
    BY <1>1, <2>1, <2>2, ConstantFacts, SMT
<1> QED
  BY <1>2, <1>3

\* The lease of an invocation that starts or runs survives what another one does.
LEMMA LeaseSurvives ==
  ASSUME LeaseInv, NEW i \in DOMAIN inv, NEW j \in Invocations, j # i, InvocationStep(j),
         (UsesLease(i) /\ inv[i].pc = "start") \/ Inside(i)
  PROVE  lease' = lease
<1>1. Has(i) /\ lease[1].left >= 0
  BY LeaseIsLive
<1>2. CASE StatementLands(j)
  <2>1. ~ CanTake(j, inv[j].stmt)
    BY <1>1, <1>2, OthersCannotTake DEF StatementLands, LeaseInv
  <2> QED
    BY <1>2, <2>1 DEF StatementLands
<1>3. CASE ReleaseLock(j)
  BY <1>1, <1>3 DEF ReleaseLock, DeleteOwn, Has
<1>4. CASE Invoke(j) \/ HandlerStarts(j) \/ Renew(j) \/ HandlerEnds(j) \/ Crash(j)
  BY <1>4 DEF Invoke, HandlerStarts, Renew, HandlerEnds, Crash
<1> QED
  BY <1>2, <1>3, <1>4 DEF InvocationStep

\* A step of one invocation leaves the local state of the others alone.
LEMMA OthersStay ==
  ASSUME TypeOK, NEW j \in Invocations, InvocationStep(j)
  PROVE  /\ DOMAIN inv' \subseteq DOMAIN inv \cup {j}
         /\ \A i \in DOMAIN inv' \ {j} : inv'[i] = inv[i]
<1>1. CASE Invoke(j)
  BY <1>1 DEF Invoke
<1>2. CASE \E p, b, s : Becomes(j, p, b, s)
  BY <1>2 DEF Becomes, TypeOK
<1>3. ~ Invoke(j) => \E p, b, s : Becomes(j, p, b, s)
  BY DEF InvocationStep, StatementLands, HandlerStarts, Renew, HandlerEnds, ReleaseLock, Crash
<1> QED
  BY <1>1, <1>2, <1>3

-----------------------------------------------------------------------------
(* Every step keeps the invariant                                          *)

\* An invocation keeps its invariant when its state stays and its lease, if it
\* starts or runs, stays too.
LEMMA Untouched ==
  ASSUME LeaseInv, NEW i \in DOMAIN inv, i \in DOMAIN inv', inv'[i] = inv[i],
         (UsesLease(i) /\ inv[i].pc = "start") \/ Inside(i) => lease' = lease
  PROVE  (WaitingIsTimed(i) /\ StartingHasLease(i) /\ RunningHasLease(i))'
<1>1. WaitingIsTimed(i) /\ StartingHasLease(i) /\ RunningHasLease(i)
  BY DEF LeaseInv
<1>2. UsesLease(i)' = UsesLease(i) /\ Inside(i)' = Inside(i)
  BY DEF UsesLease, Inside
<1>3. CASE (UsesLease(i) /\ inv[i].pc = "start") \/ Inside(i)
  BY <1>1, <1>2, <1>3 DEF WaitingIsTimed, StartingHasLease, RunningHasLease, Has
<1>4. CASE ~ ((UsesLease(i) /\ inv[i].pc = "start") \/ Inside(i))
  BY <1>1, <1>2, <1>4 DEF WaitingIsTimed, StartingHasLease, RunningHasLease
<1> QED
  BY <1>3, <1>4

\* The step of an invocation keeps its own invariant.
LEMMA OwnStep ==
  ASSUME LeaseInv, NEW i \in Invocations, InvocationStep(i), i \in DOMAIN inv'
  PROVE  (WaitingIsTimed(i) /\ StartingHasLease(i) /\ RunningHasLease(i))'
<1> USE ConstantFacts
<1>0. TypeOK
  BY DEF LeaseInv
<1>1. CASE Invoke(i)
  <2>1. PICK c \in Calls :
          inv'[i] = IF c.locks /\ c.exclusive
                    THEN [pc |-> "acquire", call |-> c, beat |-> 0, stmt |-> 0]
                    ELSE [pc |-> "start", call |-> c, beat |-> 0, stmt |-> None]
    BY <1>1 DEF Invoke
  <2>2. CASE c.locks /\ c.exclusive
    <3>1. inv'[i].pc = "acquire" /\ inv'[i].stmt = 0 /\ inv'[i].beat = 0
      BY <2>1, <2>2
    <3>2. 0 # None /\ 0 + 0 = 0
      BY ConstantFacts, SMT
    <3> QED
      BY <3>1, <3>2 DEF WaitingIsTimed, StartingHasLease, RunningHasLease, Inside
  <2>3. CASE ~ (c.locks /\ c.exclusive)
    <3>1. inv'[i].pc = "start" /\ inv'[i].call = c
      BY <2>1, <2>3
    <3> QED
      BY <2>3, <3>1 DEF WaitingIsTimed, StartingHasLease, RunningHasLease, UsesLease, Inside
  <2> QED
    BY <2>2, <2>3
<1>2. CASE StatementLands(i)
  <2>1. i \in DOMAIN inv /\ inv[i].stmt # None
    BY <1>2 DEF StatementLands
  <2>2. /\ inv[i].stmt \in Int /\ 0 <= inv[i].stmt /\ inv[i].stmt <= Delay
        /\ inv[i].beat \in Int
    BY <1>0, <2>1, Fields
  <2>3. WaitingIsTimed(i) /\ StartingHasLease(i) /\ RunningHasLease(i)
    BY <2>1 DEF LeaseInv
  <2>4. PICK p, b :
          /\ p = IF inv[i].pc = "acquire"
                 THEN IF CanTake(i, inv[i].stmt) THEN "start" ELSE "refused"
                 ELSE inv[i].pc
          /\ b = IF inv[i].pc = "handler" THEN Interval
                 ELSE IF p = "start" THEN inv[i].beat ELSE 0
          /\ Becomes(i, p, b, None)
    BY <1>2 DEF StatementLands
  <2>5. inv'[i] = [pc |-> p, call |-> inv[i].call, beat |-> b, stmt |-> None]
    BY <1>0, <2>1, <2>4 DEF Becomes, TypeOK
  <2>6. UsesLease(i)' = UsesLease(i) /\ (Inside(i)' <=> p = "handler" /\ UsesLease(i) /\ ~ inv[i].call.sync)
    BY <2>5 DEF UsesLease, Inside
  <2>7. CanTake(i, inv[i].stmt) => lease' = <<[holder |-> i, left |-> TTL - inv[i].stmt]>>
    BY <1>2 DEF StatementLands
  <2>8. CanTake(i, inv[i].stmt) => Has(i)' /\ lease'[1].left = TTL - inv[i].stmt
    BY <2>7 DEF Has
  <2>9. WaitingIsTimed(i)'
    BY <2>4, <2>5 DEF WaitingIsTimed
  <2>10. StartingHasLease(i)'
    <3>1. SUFFICES ASSUME UsesLease(i), p = "start"
                   PROVE  inv'[i].stmt = None /\ Has(i)' /\ lease'[1].left >= TTL + b
      BY <2>5, <2>6 DEF StartingHasLease
    <3>2. inv[i].pc = "acquire" /\ CanTake(i, inv[i].stmt)
      BY <2>1, <2>3, <2>4, <3>1 DEF StartingHasLease
    <3>3. b = inv[i].beat /\ inv[i].beat + inv[i].stmt = 0
      BY <2>3, <2>4, <3>1, <3>2 DEF WaitingIsTimed
    <3> QED
      BY <2>2, <2>5, <2>8, <3>2, <3>3, SMT
  <2>11. RunningHasLease(i)'
    <3>1. SUFFICES ASSUME p = "handler", UsesLease(i), ~ inv[i].call.sync
                   PROVE  /\ Has(i)' /\ lease'[1].left >= b + Delay
                          /\ inv'[i].stmt = None
      BY <2>5, <2>6 DEF RunningHasLease
    <3>2. inv[i].pc = "handler" /\ Inside(i)
      BY <2>4, <3>1 DEF Inside
    <3>3. CanTake(i, inv[i].stmt)
      BY <2>3, <3>2 DEF RunningHasLease, Has, CanTake
    <3>4. b = Interval
      BY <2>4, <3>2
    <3> QED
      BY <2>2, <2>5, <2>8, <3>3, <3>4, SMT
  <2> QED
    BY <2>9, <2>10, <2>11
<1>3. CASE HandlerStarts(i)
  <2>1. i \in DOMAIN inv /\ inv[i].pc = "start"
    BY <1>3 DEF HandlerStarts
  <2>2. inv'[i] = [pc |-> "handler", call |-> inv[i].call, beat |-> Interval, stmt |-> inv[i].stmt]
    BY <1>0, <1>3 DEF HandlerStarts, Becomes, TypeOK
  <2>3. inv[i].beat \in Int /\ inv[i].beat >= -Delay
    BY <1>0, <2>1, Fields
  <2>4. UsesLease(i) => inv[i].stmt = None /\ Has(i) /\ lease[1].left >= TTL + inv[i].beat
    BY <2>1 DEF LeaseInv, StartingHasLease
  <2>5. lease' = lease /\ UsesLease(i)' = UsesLease(i) /\ (Inside(i)' => UsesLease(i))
    BY <1>3, <2>2 DEF HandlerStarts, UsesLease, Inside
  <2>6. UsesLease(i) => lease[1].left \in Int
    BY <1>0, <2>4, Row DEF Has
  <2>7. UsesLease(i) => lease[1].left >= Interval + Delay
    BY <2>3, <2>4, <2>6, SMT
  <2>8. RunningHasLease(i)'
    BY <2>2, <2>4, <2>5, <2>7 DEF RunningHasLease, Has
  <2> QED
    BY <2>2, <2>8 DEF WaitingIsTimed, StartingHasLease
<1>4. CASE Renew(i)
  <2>1. i \in DOMAIN inv /\ inv[i].pc = "handler" /\ inv[i].beat <= 0
    BY <1>4 DEF Renew
  <2>2. inv'[i] = [pc |-> "handler", call |-> inv[i].call, beat |-> inv[i].beat, stmt |-> 0]
    BY <1>0, <1>4, <2>1 DEF Renew, Becomes, TypeOK
  <2>3. inv[i].beat \in Int
    BY <1>0, <2>1, Fields
  <2>4. lease' = lease /\ (Inside(i)' => Inside(i))
    BY <1>4, <2>1, <2>2 DEF Renew, UsesLease, Inside
  <2>5. Inside(i) => Has(i) /\ lease[1].left >= inv[i].beat + Delay
    BY <2>1 DEF LeaseInv, RunningHasLease
  <2>6. 0 <= -inv[i].beat
    BY <2>1, <2>3, SMT
  <2>7. RunningHasLease(i)'
    BY <2>2, <2>4, <2>5, <2>6 DEF RunningHasLease, Has
  <2> QED
    BY <2>2, <2>7 DEF WaitingIsTimed, StartingHasLease
<1>5. CASE HandlerEnds(i) \/ ReleaseLock(i) \/ Crash(i)
  <2>1. inv'[i].pc \in {"release", "done", "dead"}
    BY <1>0, <1>5 DEF HandlerEnds, ReleaseLock, Crash, Becomes, TypeOK
  <2> QED
    BY <2>1 DEF WaitingIsTimed, StartingHasLease, RunningHasLease, Inside
<1> QED
  BY <1>1, <1>2, <1>3, <1>4, <1>5 DEF InvocationStep

\* The passing of time keeps the invariant of every invocation.
LEMMA TimePasses ==
  ASSUME LeaseInv, Tick, NEW i \in DOMAIN inv
  PROVE  (WaitingIsTimed(i) /\ StartingHasLease(i) /\ RunningHasLease(i))'
<1> USE ConstantFacts
<1>0. TypeOK
  BY DEF LeaseInv
<1>1. PICK b, s :
        /\ b = IF inv[i].pc \in {"acquire", "start", "handler"}
               THEN Later(inv[i].beat, -Delay) ELSE inv[i].beat
        /\ s = IF inv[i].stmt = None THEN None ELSE inv[i].stmt + 1
        /\ inv'[i] = [pc |-> inv[i].pc, call |-> inv[i].call, beat |-> b, stmt |-> s]
  BY DEF Tick
<1>2. UsesLease(i)' = UsesLease(i) /\ Inside(i)' = Inside(i) /\ inv'[i].pc = inv[i].pc
  BY <1>1 DEF UsesLease, Inside
<1>3. InTime(i)
  BY DEF Tick
<1>4. /\ inv[i].beat \in Int /\ inv[i].beat >= -Delay
      /\ inv[i].stmt # None => inv[i].stmt \in Int /\ 0 <= inv[i].stmt
  BY <1>0, Fields
<1>5. (UsesLease(i) /\ inv[i].pc \in {"acquire", "start"}) \/ Inside(i) => b = inv[i].beat - 1
  <2>1. (UsesLease(i) /\ inv[i].pc \in {"acquire", "start"}) \/ Inside(i) => inv[i].beat > -Delay
    BY <1>3 DEF InTime, UsesLease, Inside
  <2> QED
    BY <1>1, <2>1 DEF Later, Inside
<1>6. (UsesLease(i) /\ inv[i].pc = "start") \/ Inside(i) =>
        /\ Has(i) /\ lease[1].left >= 0 /\ lease[1].left \in Int
        /\ Has(i)' /\ lease'[1].left = lease[1].left - 1
  <2>1. SUFFICES ASSUME (UsesLease(i) /\ inv[i].pc = "start") \/ Inside(i)
                 PROVE  /\ Has(i) /\ lease[1].left >= 0 /\ lease[1].left \in Int
                        /\ Has(i)' /\ lease'[1].left = lease[1].left - 1
    OBVIOUS
  <2>2. Has(i) /\ lease[1].left >= 0 /\ lease[1].left \in Int
    BY <1>0, <2>1, LeaseIsLive, Row DEF Has
  <2>3. lease' = <<[holder |-> lease[1].holder, left |-> Later(lease[1].left, -(Delay + 1))]>>
    BY <2>2 DEF Tick, Has
  <2>4. Later(lease[1].left, -(Delay + 1)) = lease[1].left - 1
    BY <2>2, SMT DEF Later
  <2> QED
    BY <2>2, <2>3, <2>4 DEF Has
<1>7. WaitingIsTimed(i)'
  <2>1. SUFFICES ASSUME UsesLease(i), inv[i].pc = "acquire"
                 PROVE  s # None /\ b + s = 0
    BY <1>1, <1>2 DEF WaitingIsTimed
  <2>2. inv[i].stmt # None /\ inv[i].beat + inv[i].stmt = 0
    BY <2>1 DEF LeaseInv, WaitingIsTimed
  <2> QED
    BY <1>1, <1>4, <1>5, <2>1, <2>2, SMT
<1>8. StartingHasLease(i)'
  <2>1. SUFFICES ASSUME UsesLease(i), inv[i].pc = "start"
                 PROVE  s = None /\ Has(i)' /\ lease'[1].left >= TTL + b
    BY <1>1, <1>2 DEF StartingHasLease
  <2>2. inv[i].stmt = None /\ lease[1].left >= TTL + inv[i].beat
    BY <2>1 DEF LeaseInv, StartingHasLease
  <2> QED
    BY <1>1, <1>4, <1>5, <1>6, <2>1, <2>2, SMT
<1>9. RunningHasLease(i)'
  <2>1. SUFFICES ASSUME Inside(i)
                 PROVE  /\ Has(i)' /\ lease'[1].left >= b + Delay
                        /\ s # None => s <= -b
    BY <1>1, <1>2 DEF RunningHasLease
  <2>2. /\ lease[1].left >= inv[i].beat + Delay
        /\ inv[i].stmt # None => inv[i].stmt <= -inv[i].beat
    BY <2>1 DEF LeaseInv, RunningHasLease
  <2>3. Has(i)' /\ lease'[1].left >= b + Delay
    BY <1>4, <1>5, <1>6, <2>1, <2>2, SMT
  <2>4. s # None => s <= -b
    BY <1>1, <1>4, <1>5, <2>1, <2>2, SMT
  <2> QED
    BY <2>3, <2>4
<1> QED
  BY <1>7, <1>8, <1>9

\* The lease invariant is inductive.
LEMMA LeaseStep == LeaseInv /\ [Next]_vars => LeaseInv'
<1> SUFFICES ASSUME LeaseInv, [Next]_vars PROVE LeaseInv'
  OBVIOUS
<1>1. TypeOK /\ TypeOK'
  BY TypeStep DEF LeaseInv
<1>2. ASSUME NEW i \in DOMAIN inv'
      PROVE  (WaitingIsTimed(i) /\ StartingHasLease(i) /\ RunningHasLease(i))'
  <2>1. CASE Tick
    <3>1. i \in DOMAIN inv
      BY <1>2, <2>1 DEF Tick
    <3> QED
      BY <2>1, <3>1, TimePasses
  <2>2. ASSUME NEW j \in Invocations, InvocationStep(j)
        PROVE  (WaitingIsTimed(i) /\ StartingHasLease(i) /\ RunningHasLease(i))'
    <3>1. CASE i = j
      BY <1>2, <2>2, <3>1, OwnStep
    <3>2. CASE i # j
      <4>1. i \in DOMAIN inv /\ inv'[i] = inv[i]
        BY <1>1, <1>2, <2>2, <3>2, OthersStay
      <4>2. (UsesLease(i) /\ inv[i].pc = "start") \/ Inside(i) => lease' = lease
        BY <2>2, <3>2, <4>1, LeaseSurvives
      <4> QED
        BY <1>2, <4>1, <4>2, Untouched
    <3> QED
      BY <3>1, <3>2
  <2>3. CASE UNCHANGED vars
    <3>1. i \in DOMAIN inv /\ inv'[i] = inv[i] /\ lease' = lease
      BY <1>2, <2>3 DEF vars
    <3> QED
      BY <1>2, <3>1, Untouched
  <2> QED
    BY <2>1, <2>2, <2>3 DEF Next
<1> QED
  BY <1>1, <1>2 DEF LeaseInv

\* The lease invariant holds in every reachable state.
THEOREM LeaseIsKept == Spec => []LeaseInv
<1>1. Init => LeaseInv
  BY TypeInit DEF Init, LeaseInv
<1>2. LeaseInv /\ [Next]_vars => LeaseInv'
  BY LeaseStep
<1> QED
  BY <1>1, <1>2, PTL DEF Spec

\* At most one coroutine handler of a principal runs under the lock.
THEOREM OneHandlerAtATime == Spec => []MutualExclusion
<1>1. LeaseInv => MutualExclusion
  <2> SUFFICES ASSUME LeaseInv, NEW i \in DOMAIN inv, NEW j \in DOMAIN inv,
                      Inside(i), Inside(j)
               PROVE  i = j
    BY DEF MutualExclusion
  <2>1. Has(i) /\ Has(j)
    BY LeaseIsLive
  <2> QED
    BY <2>1 DEF Has
<1> QED
  BY <1>1, LeaseIsKept, PTL

\* Only its holder gives up a lease that has not expired.
THEOREM HoldersRelease == Spec => OnlyHolderReleases
<1> DEFINE Given ==
      lease # <<>> /\ lease[1].left >= 0 =>
        LET i == lease[1].holder
        IN \/ lease' # <<>> /\ lease'[1].holder = i
           \/ i \in DOMAIN inv /\ inv[i].pc = "release" /\ inv'[i].pc = "done"
<1>1. TypeOK /\ [Next]_vars => [Given]_vars
  <2> SUFFICES ASSUME TypeOK, Next, lease # <<>>, lease[1].left >= 0,
                      NEW i, i = lease[1].holder
               PROVE  \/ lease' # <<>> /\ lease'[1].holder = i
                      \/ i \in DOMAIN inv /\ inv[i].pc = "release" /\ inv'[i].pc = "done"
    OBVIOUS
  <2>1. CASE Tick
    BY <2>1 DEF Tick
  <2>2. ASSUME NEW j \in Invocations, StatementLands(j)
        PROVE  lease' # <<>> /\ lease'[1].holder = i
    <3>1. CASE j = i
      BY <2>2, <3>1 DEF StatementLands
    <3>2. CASE j # i
      <4>1. ~ CanTake(j, inv[j].stmt)
        BY <2>2, <3>2, OthersCannotTake DEF StatementLands, Has
      <4> QED
        BY <2>2, <4>1 DEF StatementLands
    <3> QED
      BY <3>1, <3>2
  <2>3. ASSUME NEW j \in Invocations, ReleaseLock(j)
        PROVE  \/ lease' # <<>> /\ lease'[1].holder = i
               \/ i \in DOMAIN inv /\ inv[i].pc = "release" /\ inv'[i].pc = "done"
    <3>1. CASE j = i
      BY <2>3, <3>1 DEF ReleaseLock, Becomes, TypeOK
    <3>2. CASE j # i
      BY <2>3, <3>2 DEF ReleaseLock, DeleteOwn
    <3> QED
      BY <3>1, <3>2
  <2>4. ASSUME NEW j \in Invocations,
               Invoke(j) \/ HandlerStarts(j) \/ Renew(j) \/ HandlerEnds(j) \/ Crash(j)
        PROVE  lease' # <<>> /\ lease'[1].holder = i
    BY <2>4 DEF Invoke, HandlerStarts, Renew, HandlerEnds, Crash
  <2> QED
    BY <2>1, <2>2, <2>3, <2>4 DEF Next, InvocationStep
<1> QED
  BY <1>1, TypeCorrect, PTL DEF Spec, OnlyHolderReleases

=============================================================================
