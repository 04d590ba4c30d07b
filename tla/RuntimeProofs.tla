----------------------------- MODULE RuntimeProofs ----------------------------
(***************************************************************************)
(* Proofs about the aggregation of denials, for any denials, groups and    *)
(* window, whoever flushes and whatever fails; and, from the type theorems *)
(* of the five components that MCRuntime runs beside each other, that all  *)
(* of them keep their types there.                                         *)
(***************************************************************************)
EXTENDS MCRuntime, DelegationProofs, CompositionProofs, MerkleTreeProofs,
        StudioEvaluationsProofs, FiniteSetTheorems, TLAPS

-----------------------------------------------------------------------------
(* The aggregation of denials: the inductive invariant                      *)

\* Denials are stamped with times that have passed; items are sets of denials.
AggregationTyped ==
  /\ time \in Nat
  /\ IsFiniteSet(DOMAIN submitted)
  /\ \A d \in DOMAIN submitted : submitted[d].at \in Nat /\ submitted[d].at <= time
  /\ DOMAIN submitted \subseteq Denials
  /\ buffer \subseteq DOMAIN submitted
  /\ queue \in [Flushers -> Seq(SUBSET Denials)]
  /\ audited \in Seq(SUBSET Denials)

\* The denials of an item leave the buffer together, when their window is over.
LeaveTogether ==
  \A d \in DOMAIN submitted : d \notin buffer =>
    /\ Over(d)
    /\ \A e \in DOMAIN submitted : SameItem(d, e) => e \notin buffer

\* Item i is all that was submitted for a window and group, and was taken.
Whole(i) ==
  /\ i # {}
  /\ \A d \in i : d \in DOMAIN submitted /\ d \notin buffer
  /\ \A d \in i : \A e \in DOMAIN submitted : SameItem(d, e) <=> e \in i

OnceEach(s) == \A j, k \in 1..Len(s) : s[j] = s[k] => j = k

\* No item is twice in one queue or in the log, or in two of them.
NoneTwice ==
  /\ OnceEach(audited)
  /\ \A f \in Flushers : /\ OnceEach(queue[f])
                         /\ \A k \in 1..Len(queue[f]) : queue[f][k] \notin Recorded
  /\ \A j \in 1..Len(queue["periodic"]), k \in 1..Len(queue["shutdown"]) :
       queue["periodic"][j] # queue["shutdown"][k]

ItemsWhole ==
  /\ \A f \in Flushers : \A k \in 1..Len(queue[f]) : Whole(queue[f][k])
  /\ \A k \in 1..Len(audited) : Whole(audited[k])

AInv == AggregationTyped /\ LeaveTogether /\ ItemsWhole /\ NoneTwice

-----------------------------------------------------------------------------
(* Windows                                                                 *)

\* The window of a time begins at it or before, and less than Window before.
LEMMA WindowHolds ==
  ASSUME NEW at \in Nat
  PROVE  BucketOf(at) \in Int /\ BucketOf(at) <= at /\ at < BucketOf(at) + Window
<1>1. Window \in Nat /\ Window > 0
  BY AggregationAssumption
<1>2. at % Window \in 0..(Window - 1)
  BY <1>1
<1> QED
  BY <1>1, <1>2 DEF BucketOf

\* A denial submitted now is in no window that is over.
LEMMA NewWindowOpen ==
  ASSUME AggregationTyped, NEW d \in DOMAIN submitted, Over(d)
  PROVE  BucketOf(submitted[d].at) # BucketOf(time)
<1>1. time \in Nat /\ submitted[d].at \in Nat
  BY DEF AggregationTyped
<1>2. time < BucketOf(time) + Window /\ BucketOf(time) \in Int
  BY <1>1, WindowHolds
<1>3. BucketOf(submitted[d].at) + Window <= time
  BY DEF Over
<1> QED
  BY <1>1, <1>2, <1>3, AggregationAssumption

-----------------------------------------------------------------------------
(* The steps                                                               *)

\* Nothing is submitted and nothing taken at first.
LEMMA InitAInv == AggregationInit => AInv
<1> SUFFICES ASSUME AggregationInit PROVE AInv
  OBVIOUS
<1>1. AggregationTyped
  BY FS_EmptySet DEF AggregationInit, AggregationTyped, Flushers
<1>2. LeaveTogether /\ ItemsWhole /\ NoneTwice
  BY DEF AggregationInit, LeaveTogether, ItemsWhole, NoneTwice, OnceEach, Flushers, Recorded
<1> QED
  BY <1>1, <1>2 DEF AInv

\* A new denial joins those of its window, none of which has been taken.
LEMMA SubmitStep ==
  ASSUME AInv, NEW d \in Denials, NEW g \in Groups, Submit(d, g)
  PROVE  AInv'
<1>1. /\ d \notin DOMAIN submitted /\ DOMAIN submitted' = DOMAIN submitted \cup {d}
      /\ submitted'[d].at = time /\ submitted'[d].group = g
      /\ \A e \in DOMAIN submitted : submitted'[e] = submitted[e]
      /\ buffer' = buffer \cup {d}
      /\ UNCHANGED <<time, queue, audited, phase>>
  BY DEF Submit
<1>2. AggregationTyped'
  <2>1. IsFiniteSet(DOMAIN submitted')
    BY <1>1, FS_AddElement DEF AInv, AggregationTyped
  <2> QED
    BY <1>1, <2>1 DEF AInv, AggregationTyped
<1>3. ASSUME NEW e \in DOMAIN submitted, e \notin buffer
      PROVE  ~ SameItem(e, d)' /\ ~ SameItem(d, e)'
  BY <1>1, <1>3, NewWindowOpen DEF AInv, LeaveTogether, SameItem
<1>4. \A x, y \in DOMAIN submitted : SameItem(x, y)' <=> SameItem(x, y)
  BY <1>1 DEF SameItem
<1>5. LeaveTogether'
  <2>1. ASSUME NEW e \in DOMAIN submitted', e \notin buffer' PROVE e \in DOMAIN submitted /\ e \notin buffer
    BY <1>1, <2>1
  <2>2. \A e \in DOMAIN submitted : Over(e) => Over(e)'
    BY <1>1 DEF Over
  <2> QED
    BY <1>1, <1>3, <1>4, <2>1, <2>2 DEF AInv, LeaveTogether
<1>6. \A i : Whole(i) => Whole(i)'
  BY <1>1, <1>3, <1>4 DEF Whole
<1>7. ItemsWhole' /\ NoneTwice'
  BY <1>1, <1>6 DEF AInv, ItemsWhole, NoneTwice, Recorded
<1> QED
  BY <1>2, <1>5, <1>7 DEF AInv

\* What one flush takes are whole items, each once, none of which was taken.
LEMMA TakeStep ==
  ASSUME AInv, NEW f \in Flushers, Take(f), UNCHANGED <<time, submitted, audited>>
  PROVE  AInv'
<1> DEFINE closed == {d \in buffer : Over(d)}
<1>1. PICK items \in SetToSeqs(Items(closed)) : queue' = [queue EXCEPT ![f] = items]
  BY DEF Take
<1>2. buffer' = buffer \ closed /\ queue[f] = <<>>
  BY DEF Take
<1>3. items \in Seq(Items(closed)) /\ OnceEach(items)
  <2>1. IsFiniteSet(closed)
    BY FS_Subset DEF AInv, AggregationTyped
  <2>2. IsFiniteSet(SUBSET closed)
    BY <2>1, FS_SUBSET
  <2>3. Items(closed) \subseteq SUBSET closed
    BY DEF Items
  <2>4. IsFiniteSet(Items(closed))
    BY <2>2, <2>3, FS_Subset
  <2>5. Cardinality(Items(closed)) \in Nat
    BY <2>4, FS_CardinalityType
  <2>6. /\ items \in [1..Cardinality(Items(closed)) -> Items(closed)]
        /\ \A j, k \in 1..Cardinality(Items(closed)) : j # k => items[j] # items[k]
    BY <1>1 DEF SetToSeqs
  <2>7. items \in Seq(Items(closed)) /\ Len(items) = Cardinality(Items(closed))
    BY <2>5, <2>6
  <2> QED
    BY <2>6, <2>7 DEF OnceEach
<1>4. \A d, e : SameItem(d, e)' <=> SameItem(d, e)
  BY DEF SameItem
<1>5. LeaveTogether'
  <2>1. ASSUME NEW d \in DOMAIN submitted, d \in closed PROVE Over(d)'
    BY <2>1 DEF Over
  <2>2. ASSUME NEW d \in DOMAIN submitted, d \in closed, NEW e \in DOMAIN submitted, SameItem(d, e)
        PROVE  e \notin buffer'
    BY <1>2, <2>2 DEF Over, SameItem
  <2>3. ASSUME NEW d \in DOMAIN submitted, d \notin buffer PROVE Over(d)'
    BY <2>3 DEF AInv, LeaveTogether, Over
  <2> QED
    BY <1>2, <1>4, <2>1, <2>2, <2>3 DEF AInv, LeaveTogether
<1>6. ASSUME NEW i \in Items(closed) PROVE Whole(i)' /\ i \cap buffer # {} /\ i \in SUBSET Denials
  <2>1. PICK d \in closed : i = {e \in closed : SameItem(d, e)}
    BY <1>6 DEF Items
  <2>2. d \in i /\ closed \subseteq DOMAIN submitted
    BY <2>1 DEF SameItem, AInv, AggregationTyped
  <2>3. ASSUME NEW x \in i, NEW e \in DOMAIN submitted PROVE SameItem(x, e) <=> e \in i
    <3>1. SameItem(d, x) /\ x \in closed
      BY <2>1
    <3>2. SameItem(x, e) <=> SameItem(d, e)
      BY <3>1 DEF SameItem
    <3>3. SameItem(d, e) => e \in closed
      <4>1. SameItem(d, e) => SameItem(e, d)
        BY DEF SameItem
      <4>2. d \in buffer /\ d \in DOMAIN submitted
        BY <2>1, <2>2
      <4>3. SameItem(d, e) => e \in buffer
        BY <4>1, <4>2 DEF AInv, LeaveTogether
      <4>4. SameItem(d, e) /\ Over(d) => Over(e)
        BY DEF SameItem, Over
      <4> QED
        BY <2>1, <4>3, <4>4
    <3> QED
      BY <2>1, <3>2, <3>3
  <2>4. i \subseteq closed
    BY <2>1
  <2>5. Whole(i)'
    BY <1>2, <1>4, <2>2, <2>3, <2>4 DEF Whole
  <2> QED
    BY <2>2, <2>4, <2>5 DEF AInv, AggregationTyped
<1>7. ASSUME NEW i, Whole(i) PROVE Whole(i)' /\ i \notin Items(closed)
  <2>1. i \cap buffer = {}
    BY <1>7 DEF Whole
  <2>2. Whole(i)'
    BY <1>2, <1>4, <1>7 DEF Whole
  <2> QED
    BY <1>6, <2>1, <2>2
<1>8. /\ queue'[f] = items
      /\ \A h \in Flushers : h # f => queue'[h] = queue[h]
      /\ \A k \in 1..Len(items) : items[k] \in Items(closed)
  <2>1. \A k \in 1..Len(items) : items[k] \in Items(closed)
    BY <1>3
  <2> QED
    BY <1>1, <2>1 DEF AInv, AggregationTyped
<1>9. AggregationTyped'
  <2>1. items \in Seq(SUBSET Denials)
    BY <1>3, <1>6, <1>8
  <2> QED
    BY <1>1, <1>2, <2>1 DEF AInv, AggregationTyped
<1>10. ItemsWhole'
  BY <1>6, <1>7, <1>8 DEF AInv, ItemsWhole
<1>11. NoneTwice'
  <2>1. UNCHANGED audited /\ Recorded' = Recorded
    BY DEF Recorded
  <2>2. \A k \in 1..Len(items) : items[k] \notin Recorded
    BY <1>7, <1>8 DEF AInv, ItemsWhole, Recorded
  <2>3. \A h \in Flushers : h # f =>
          \A j \in 1..Len(items), k \in 1..Len(queue[h]) : items[j] # queue[h][k]
    BY <1>7, <1>8 DEF AInv, ItemsWhole
  <2> QED
    BY <1>3, <1>8, <2>1, <2>2, <2>3 DEF AInv, NoneTwice, Flushers
<1> QED
  BY <1>5, <1>9, <1>10, <1>11 DEF AInv

\* Time only closes windows; a flush that ends and a stop only forget items.
LEMMA ForgetStep ==
  ASSUME AInv, UNCHANGED <<submitted, buffer, audited>>,
         time' \in Nat, time' >= time,
         queue' \in [Flushers -> Seq(SUBSET Denials)],
         \A f \in Flushers : queue'[f] = queue[f] \/ queue'[f] = <<>>
  PROVE  AInv'
<1>1. AggregationTyped'
  BY DEF AInv, AggregationTyped
<1>2. LeaveTogether'
  <2>1. ASSUME NEW d \in DOMAIN submitted, Over(d) PROVE Over(d)'
    <3>1. /\ BucketOf(submitted[d].at) \in Int /\ Window \in Nat
          /\ time \in Nat
      BY WindowHolds, AggregationAssumption DEF AInv, AggregationTyped
    <3> QED
      BY <2>1, <3>1 DEF Over
  <2> QED
    BY <2>1 DEF AInv, LeaveTogether, SameItem
<1>3. \A i : Whole(i) => Whole(i)'
  BY DEF Whole, SameItem
<1>4. ItemsWhole'
  BY <1>3 DEF AInv, ItemsWhole
<1>5. NoneTwice'
  <2>1. UNCHANGED audited /\ Recorded' = Recorded
    BY DEF Recorded
  <2>2. Len(<<>>) = 0 /\ OnceEach(<<>>)
    BY DEF OnceEach
  <2>3. ASSUME NEW f \in Flushers
        PROVE  /\ OnceEach(queue'[f])
               /\ \A k \in 1..Len(queue'[f]) : queue'[f][k] \notin Recorded
    BY <2>2 DEF AInv, NoneTwice
  <2>4. \A j \in 1..Len(queue'["periodic"]), k \in 1..Len(queue'["shutdown"]) :
          queue'["periodic"][j] # queue'["shutdown"][k]
    BY <2>2 DEF AInv, NoneTwice, Flushers
  <2>5. OnceEach(audited')
    BY <2>1 DEF AInv, NoneTwice
  <2> QED
    BY <2>1, <2>3, <2>4, <2>5 DEF NoneTwice, OnceEach
<1> QED
  BY <1>1, <1>2, <1>4, <1>5 DEF AInv

\* The first item of a flush moves into the log, where it was not before.
LEMMA PersistStep ==
  ASSUME AInv, NEW f \in Flushers, Persist(f)
  PROVE  AInv'
<1> DEFINE i == Head(queue[f])
           rest == queue'[f]
<1>1. /\ queue[f] # <<>> /\ queue[f] \in Seq(SUBSET Denials)
      /\ audited' = Append(audited, i) /\ audited \in Seq(SUBSET Denials)
      /\ UNCHANGED <<time, submitted, buffer, phase>>
  BY DEF Persist, AInv, AggregationTyped
<1>2. \A h \in Flushers : h # f => queue'[h] = queue[h]
  BY DEF Persist, AInv, AggregationTyped
<1>3. /\ DOMAIN queue' = Flushers
      /\ rest = Tail(queue[f]) \/ rest = <<>>
  BY DEF Persist, AInv, AggregationTyped
<1>4. /\ rest \in Seq(SUBSET Denials)
      /\ \A k \in 1..Len(rest) : k + 1 \in 1..Len(queue[f]) /\ rest[k] = queue[f][k + 1]
  <2>1. CASE rest = <<>>
    BY <2>1
  <2>2. CASE rest = Tail(queue[f])
    <3>1. /\ Tail(queue[f]) \in Seq(SUBSET Denials) /\ Len(queue[f]) \in Nat
          /\ Len(Tail(queue[f])) = Len(queue[f]) - 1
          /\ \A k \in 1..(Len(queue[f]) - 1) : Tail(queue[f])[k] = queue[f][k + 1]
      BY <1>1
    <3> HIDE DEF rest
    <3> QED
      BY <2>2, <3>1
  <2> QED
    BY <1>3, <2>1, <2>2
<1>5. 1 \in 1..Len(queue[f]) /\ i = queue[f][1] /\ i \in SUBSET Denials
  BY <1>1
<1>6. /\ Len(audited') = Len(audited) + 1 /\ Len(audited) \in Nat
      /\ \A k \in 1..Len(audited) : audited'[k] = audited[k]
      /\ audited'[Len(audited) + 1] = i
  BY <1>1, <1>5
<1>7. Recorded' = Recorded \cup {i}
  BY <1>6 DEF Recorded
<1> HIDE DEF i, rest
<1>8. AggregationTyped'
  <2>1. audited' \in Seq(SUBSET Denials)
    BY <1>1, <1>5
  <2>2. queue' \in [Flushers -> Seq(SUBSET Denials)]
    <3>1. \A h \in Flushers : queue'[h] \in Seq(SUBSET Denials)
      BY <1>2, <1>4 DEF AInv, AggregationTyped, rest
    <3>2. queue' = [h \in Flushers |-> queue'[h]]
      BY DEF Persist, AInv, AggregationTyped
    <3> QED
      BY <3>1, <3>2
  <2> QED
    BY <1>1, <2>1, <2>2 DEF AInv, AggregationTyped
<1>9. LeaveTogether'
  BY <1>1 DEF AInv, LeaveTogether, Over, SameItem
<1>10. ItemsWhole'
  <2>1. \A x : Whole(x) => Whole(x)'
    BY <1>1 DEF Whole, SameItem
  <2>2. ASSUME NEW h \in Flushers, NEW k \in 1..Len(queue'[h]) PROVE Whole(queue[h][k])'
    <3>1. CASE h = f
      BY <1>4, <2>1, <2>2, <3>1 DEF AInv, ItemsWhole, rest
    <3>2. CASE h # f
      BY <1>2, <2>1, <2>2, <3>2 DEF AInv, ItemsWhole
    <3> QED
      BY <3>1, <3>2
  <2>3. Whole(i)
    BY <1>5 DEF AInv, ItemsWhole
  <2>4. ASSUME NEW k \in 1..Len(audited') PROVE Whole(audited[k])'
    BY <1>6, <2>1, <2>3, <2>4 DEF AInv, ItemsWhole
  <2> QED
    BY <2>2, <2>4 DEF ItemsWhole
<1>11. NoneTwice'
  <2>1. i \notin Recorded
    BY <1>5 DEF AInv, NoneTwice
  <2>2. OnceEach(audited)'
    <3>1. \A k \in 1..Len(audited) : audited[k] # i
      BY <2>1 DEF Recorded
    <3> QED
      BY <1>6, <3>1 DEF AInv, NoneTwice, OnceEach
  <2>3. OnceEach(rest) /\ \A k \in 1..Len(rest) : rest[k] # i
    <3>1. \A j, k \in 1..Len(queue[f]) : queue[f][j] = queue[f][k] => j = k
      BY DEF AInv, NoneTwice, OnceEach
    <3>2. \A k \in 1..Len(rest) : rest[k] # i
      <4>1. \A k \in 1..Len(rest) : k + 1 # 1
        BY <1>4
      <4> QED
        BY <1>4, <1>5, <3>1, <4>1
    <3>3. ASSUME NEW j \in 1..Len(rest), NEW k \in 1..Len(rest), rest[j] = rest[k]
          PROVE  j = k
      <4>1. j + 1 = k + 1
        BY <1>4, <3>1, <3>3
      <4> QED
        BY <4>1
    <3> QED
      BY <3>2, <3>3 DEF OnceEach
  <2>4. \A k \in 1..Len(rest) : rest[k] \notin Recorded'
    BY <1>4, <1>7, <2>3 DEF AInv, NoneTwice
  <2>5. ASSUME NEW h \in Flushers, h # f
        PROVE  /\ OnceEach(queue[h])
               /\ \A k \in 1..Len(queue[h]) : queue[h][k] \notin Recorded'
               /\ \A k \in 1..Len(queue[h]), j \in 1..Len(rest) : queue[h][k] # rest[j]
    <3>1. \A j \in 1..Len(queue[f]), k \in 1..Len(queue[h]) : queue[f][j] # queue[h][k]
      BY <2>5 DEF AInv, NoneTwice, Flushers
    <3>2. OnceEach(queue[h]) /\ \A k \in 1..Len(queue[h]) : queue[h][k] \notin Recorded
      BY DEF AInv, NoneTwice
    <3> QED
      BY <1>4, <1>5, <1>7, <3>1, <3>2
  <2>6. ASSUME NEW h \in Flushers
        PROVE  /\ OnceEach(queue'[h])
               /\ \A k \in 1..Len(queue'[h]) : queue'[h][k] \notin Recorded'
    <3>1. CASE h = f
      BY <2>3, <2>4, <3>1 DEF rest
    <3>2. CASE h # f
      BY <1>2, <2>5, <3>2
    <3> QED
      BY <3>1, <3>2
  <2>7. \A j \in 1..Len(queue'["periodic"]), k \in 1..Len(queue'["shutdown"]) :
          queue'["periodic"][j] # queue'["shutdown"][k]
    <3>1. CASE f = "periodic"
      BY <1>2, <2>5, <3>1 DEF rest, Flushers
    <3>2. CASE f = "shutdown"
      BY <1>2, <2>5, <3>2 DEF rest, Flushers
    <3> QED
      BY <3>1, <3>2 DEF Flushers
  <2> QED
    BY <2>2, <2>6, <2>7 DEF NoneTwice, OnceEach
<1> QED
  BY <1>8, <1>9, <1>10, <1>11 DEF AInv

\* Every step keeps the invariant.
LEMMA NextAInv == AInv /\ [AggregationNext]_aggregationVars => AInv'
<1> SUFFICES ASSUME AInv, [AggregationNext]_aggregationVars PROVE AInv'
  OBVIOUS
<1>0. /\ queue \in [Flushers -> Seq(SUBSET Denials)] /\ time \in Nat
      /\ <<>> \in Seq(SUBSET Denials) /\ "periodic" \in Flushers /\ "shutdown" \in Flushers
  BY DEF AInv, AggregationTyped, Flushers
<1>1. ASSUME NEW d \in Denials, NEW g \in Groups, Submit(d, g) PROVE AInv'
  BY <1>1, SubmitStep
<1>2. CASE PeriodicFlush
  BY <1>0, <1>2, TakeStep DEF PeriodicFlush
<1>3. CASE Shutdown
  <2>1. CASE Take("shutdown")
    BY <1>0, <1>3, <2>1, TakeStep DEF Shutdown
  <2>2. CASE UNCHANGED <<buffer, queue>>
    <3>1. UNCHANGED <<time, submitted, audited>>
      BY <1>3 DEF Shutdown
    <3> QED
      BY <1>0, <2>2, <3>1, ForgetStep
  <2> QED
    BY <1>3, <2>1, <2>2 DEF Shutdown
<1>4. CASE Stop
  <2>1. /\ UNCHANGED <<time, submitted, buffer, audited>>
        /\ queue' = [queue EXCEPT !["periodic"] = <<>>]
    BY <1>4 DEF Stop
  <2> QED
    BY <1>0, <2>1, ForgetStep
<1>5. ASSUME NEW f \in Flushers, Persist(f) PROVE AInv'
  BY <1>5, PersistStep
<1>6. ASSUME NEW f \in Flushers, Abandon(f) PROVE AInv'
  <2>1. /\ UNCHANGED <<time, submitted, buffer, audited>>
        /\ queue' = [queue EXCEPT ![f] = <<>>]
    BY <1>6 DEF Abandon
  <2> QED
    BY <1>0, <2>1, ForgetStep
<1>7. CASE Elapse
  <2>1. time' = time + 1 /\ UNCHANGED <<submitted, buffer, queue, audited, phase>>
    BY <1>7 DEF Elapse
  <2> QED
    BY <1>0, <2>1, ForgetStep
<1>8. CASE UNCHANGED aggregationVars
  <2>1. UNCHANGED <<time, submitted, buffer, queue, audited>>
    BY <1>8 DEF aggregationVars
  <2> QED
    BY <1>0, <2>1, ForgetStep
<1> QED
  BY <1>1, <1>2, <1>3, <1>4, <1>5, <1>6, <1>7, <1>8 DEF AggregationNext

-----------------------------------------------------------------------------
(* Type correctness                                                        *)

\* What AggregationTypeOK says of the clock, the phase and the denials.
DenialsTyped ==
  /\ time \in 0..Horizon /\ phase \in {"up", "down", "stopped"}
  /\ \A d \in DOMAIN submitted : submitted[d] \in [at : 0..Horizon, group : Groups]

\* Only Submit adds a denial, and it is stamped by the clock.
LEMMA NextDenialsTyped == DenialsTyped /\ [AggregationNext]_aggregationVars => DenialsTyped'
<1> SUFFICES ASSUME DenialsTyped, [AggregationNext]_aggregationVars PROVE DenialsTyped'
  OBVIOUS
<1>1. ASSUME NEW d \in Denials, NEW g \in Groups, Submit(d, g) PROVE DenialsTyped'
  <2>1. /\ DOMAIN submitted' = DOMAIN submitted \cup {d}
        /\ submitted'[d] = [at |-> time, group |-> g]
        /\ \A e \in DOMAIN submitted : e # d => submitted'[e] = submitted[e]
        /\ UNCHANGED <<time, phase>>
    BY <1>1 DEF Submit
  <2> QED
    BY <2>1 DEF DenialsTyped
<1>2. CASE PeriodicFlush
  BY <1>2 DEF DenialsTyped, PeriodicFlush
<1>3. CASE Shutdown
  BY <1>3 DEF DenialsTyped, Shutdown
<1>4. CASE Stop
  BY <1>4 DEF DenialsTyped, Stop
<1>5. ASSUME NEW f \in Flushers, Persist(f) \/ Abandon(f) PROVE DenialsTyped'
  BY <1>5 DEF DenialsTyped, Persist, Abandon
<1>6. CASE Elapse
  <2>1. time' \in 0..Horizon
    BY <1>6, AggregationAssumption DEF DenialsTyped, Elapse
  <2> QED
    BY <1>6, <2>1 DEF DenialsTyped, Elapse
<1>7. CASE UNCHANGED aggregationVars
  BY <1>7 DEF DenialsTyped, aggregationVars
<1> QED
  BY <1>1, <1>2, <1>3, <1>4, <1>5, <1>6, <1>7 DEF AggregationNext

-----------------------------------------------------------------------------
(* Theorems about the aggregation of denials                               *)

\* Denials, windows taken and records keep their types: an item is never empty
\* and never of a denial that was not submitted.
THEOREM AggregationTypeCorrect == AggregationSpec => []AggregationTypeOK
<1>1. AggregationInit => DenialsTyped
  BY AggregationAssumption DEF AggregationInit, DenialsTyped
<1>2. AggregationSpec => []DenialsTyped
  BY <1>1, NextDenialsTyped, PTL DEF AggregationSpec
<1>3. AggregationSpec => []AInv
  BY InitAInv, NextAInv, PTL DEF AggregationSpec
<1>4. ASSUME AInv, DenialsTyped PROVE AggregationTypeOK
  <2>1. DOMAIN submitted \subseteq Denials /\ buffer \subseteq DOMAIN submitted
    BY <1>4 DEF AInv, AggregationTyped
  <2>2. ASSUME NEW i \in Pending \cup Recorded PROVE i \in (SUBSET DOMAIN submitted) \ {{}}
    <3>1. Whole(i)
      BY <1>4, <2>2 DEF AInv, ItemsWhole, Pending, Recorded
    <3> QED
      BY <3>1 DEF Whole
  <2> QED
    BY <1>4, <2>1, <2>2 DEF AggregationTypeOK, DenialsTyped
<1> QED
  BY <1>2, <1>3, <1>4, PTL

\* However denials, flushes, failures and the end of the service interleave, a
\* window of a group gets one record at most, made of all of its denials.
THEOREM WindowsRecordedOnce == AggregationSpec => []OneRecordPerWindow
<1>1. ASSUME AInv PROVE OneRecordPerWindow
  <2>1. ASSUME NEW i \in Pending \cup Recorded PROVE Whole(i)
    BY <1>1, <2>1 DEF AInv, ItemsWhole, Pending, Recorded
  <2>2. Pending \cap Recorded = {}
    BY <1>1 DEF AInv, NoneTwice, Pending
  <2>3. \A j, k \in 1..Len(audited) : audited[j] = audited[k] => j = k
    BY <1>1 DEF AInv, NoneTwice, OnceEach
  <2> QED
    BY <2>1, <2>2, <2>3 DEF OneRecordPerWindow, Whole
<1>2. AggregationSpec => []AInv
  BY InitAInv, NextAInv, PTL DEF AggregationSpec
<1> QED
  BY <1>1, <1>2, PTL

-----------------------------------------------------------------------------
(* The components beside each other                                        *)

\* A behavior of MCRuntime is one of every component: whichever of them moves,
\* what the others have stays as it is.
LEMMA EachBehavesAlone ==
  Spec => GateSpec /\ CompositionSpec /\ TreeSpec /\ AggregationSpec /\ StudioSpec
<1>1. Init => GateInit /\ CompositionInit /\ TreeInit /\ AggregationInit /\ StudioInit
  BY DEF Init
<1>2. ASSUME [Next]_vars
      PROVE  /\ [GateNext]_gateVars /\ [CompositionNext]_compositionVars /\ [TreeNext]_leaves
             /\ [AggregationNext]_aggregationVars /\ [StudioNext]_studioVars
  BY <1>2 DEF Next, vars
<1> QED
  BY <1>1, <1>2, PTL DEF Spec, GateSpec, CompositionSpec, TreeSpec, AggregationSpec, StudioSpec

\* All five components keep their types, for every value of the constants.
THEOREM RuntimeTypeCorrect == Spec => []RuntimeTypeOK
<1>1. GateTypeOK /\ CompositionTypeOK /\ TreeTypeOK /\ AggregationTypeOK /\ StudioTypeOK
        => RuntimeTypeOK
  BY DEF RuntimeTypeOK
<1> QED
  BY <1>1, EachBehavesAlone, GateTypeCorrect, CompositionTypeCorrect, TreeTypeCorrect,
     AggregationTypeCorrect, StudioTypeCorrect, PTL

=============================================================================
