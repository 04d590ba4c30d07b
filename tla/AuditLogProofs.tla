--------------------------- MODULE AuditLogProofs ---------------------------
(***************************************************************************)
(* Proofs about AuditLog, for every number of writers and replicas, every  *)
(* retention and both kinds of storage.                                    *)
(***************************************************************************)
EXTENDS AuditLog, FiniteSetTheorems, SequenceTheorems, TLAPS

-----------------------------------------------------------------------------
(* The inductive invariant                                                 *)

AllHeld == \A w \in DOMAIN call : Held(w)

\* Every row was written by a call that knows its number, and an entry whose
\* time is not over is still held.
RowsHaveCalls ==
  /\ \A s \in DOMAIN log :
       LET w == log[s].id
       IN w \in DOMAIN call /\ call[w].seq = s /\ call[w].expires = log[s].expires
  /\ \A w \in DOMAIN call :
       /\ call[w].expires = None \/ day <= call[w].expires => Held(w)
       /\ call[w].pc = "sign" => call[w].expires = None \/ day < call[w].expires

\* The numbers are bounded, and have no gap as long as everything is held.
NumbersSound ==
  /\ IsFiniteSet(DOMAIN call)
  /\ \E b \in Nat : \A s \in DOMAIN log : s <= b
  /\ AllHeld => DOMAIN log = 1..Cardinality(DOMAIN call)
  /\ Cluster => AllHeld /\ head.seq = Cardinality(DOMAIN call)
  /\ Retentions \subseteq {None} => \A w \in DOMAIN call : call[w].expires = None

\* Checkpoints are numbered by their rows, a tick knows a stored one as the
\* last, and publishes what it stored.
RowsNumbered ==
  /\ \A k \in 1..Len(checkpoints) : checkpoints[k].number = k
  /\ \A r \in Replicas :
       /\ tick[r].last # None =>
            \E k \in 1..Len(checkpoints) : tick[r].last = checkpoints[k]
       /\ tick[r].pc = "publish" =>
            \E k \in 1..Len(checkpoints) : NewCheckpoint(r) = checkpoints[k]

\* The authors of the first n entries of a log without gaps.
First(f, n) == [k \in 1..n |-> f[k].id]

Covered(last) == IF last = None THEN 0 ELSE Len(last.leaves)

\* As long as everything is held, checkpoints are ever longer prefixes of the
\* log, and a tick past the comparison builds one longer than the last it read.
PrefixesGrow ==
  /\ \A k \in 1..Len(checkpoints) :
       LET leaves == checkpoints[k].leaves
       IN Len(leaves) <= LastSeq /\ leaves = First(log, Len(leaves))
  /\ \A j, k \in 1..Len(checkpoints) :
       j < k => Len(checkpoints[j].leaves) < Len(checkpoints[k].leaves)
  /\ \A r \in Replicas :
       /\ tick[r].max <= LastSeq
       /\ tick[r].pc \in {"entries", "store"} => Covered(tick[r].last) < tick[r].max
       /\ tick[r].pc = "store" => tick[r].leaves = First(log, tick[r].max)

IInv ==
  /\ TypeOK
  /\ RowsHaveCalls
  /\ NumbersSound
  /\ SignedByOwner
  /\ ~ Cluster => ChainVerifies
  /\ RowsNumbered
  /\ PublishedAreStored
  /\ AllHeld => PrefixesGrow

-----------------------------------------------------------------------------
(* Reading a table: the operators of the log for any function of numbers   *)

MaxOf(S) == IF S = {} THEN 0 ELSE CHOOSE s \in S : \A t \in S : t <= s

NthOf(H, k) == CHOOSE s \in H : Cardinality({t \in H : t < s}) = k - 1

UpTo(S, n) == {s \in S : s <= n}

LeavesOf(f, n) ==
  [k \in 1..Cardinality(UpTo(DOMAIN f, n)) |-> f[NthOf(UpTo(DOMAIN f, n), k)].id]

\* Every set of naturals has a least element: strict inclusion is well-founded
\* on the intervals below its members.
LEMMA LeastNatural ==
  ASSUME NEW S \in SUBSET Nat, S # {}
  PROVE  \E m \in S : \A n \in S : m <= n
<1> DEFINE R == StrictSubsetOrdering(Nat)
           T == {0..(s - 1) : s \in S}
<1>1. IsWellFoundedOn(R, FiniteSubsetsOf(Nat))
  BY FS_StrictSubsetOrderingWellFounded
<1>2. T \subseteq FiniteSubsetsOf(Nat) /\ T # {}
  <2>1. \A s \in S : 0..(s - 1) \in SUBSET Nat /\ IsFiniteSet(0..(s - 1)) BY FS_Interval
  <2> QED BY <2>1 DEF FiniteSubsetsOf
<1>3. PICK x \in T : \A y \in T : ~ (<<y, x>> \in R)
  <2> HIDE DEF R, T
  <2> QED BY <1>1, <1>2, WFMin
<1>4. PICK m \in S : x = 0..(m - 1) OBVIOUS
<1>5. ASSUME NEW n \in S, n < m PROVE FALSE
  <2>1. 0..(n - 1) \in T OBVIOUS
  <2>2. 0..(n - 1) \subseteq x /\ 0..(n - 1) # x
    <3>1. n \in x /\ n \notin 0..(n - 1) BY <1>4, <1>5
    <3> QED BY <1>4, <1>5, <3>1
  <2>3. <<0..(n - 1), x>> \in R
    <3>1. 0..(n - 1) \in SUBSET Nat /\ x \in SUBSET Nat BY <1>4
    <3> QED BY <2>2, <3>1 DEF StrictSubsetOrdering
  <2> QED BY <1>3, <2>1, <2>3
<1> QED BY <1>5

\* A bounded set of naturals has a maximum, and MaxOf is it.
LEMMA MaxOfBounded ==
  ASSUME NEW S \in SUBSET Nat, NEW b \in Nat, \A s \in S : s <= b
  PROVE  /\ MaxOf(S) \in Nat
         /\ S # {} => MaxOf(S) \in S
         /\ \A s \in S : s <= MaxOf(S)
<1>1. CASE S = {}
  BY <1>1 DEF MaxOf
<1>2. CASE S # {}
  <2> DEFINE T == {n \in Nat : \A s \in S : s <= n}
  <2>1. PICK m \in T : \A n \in T : m <= n
    <3>1. b \in T OBVIOUS
    <3> QED BY <3>1, LeastNatural
  <2>2. m \in S
    <3> SUFFICES ASSUME m \notin S PROVE FALSE OBVIOUS
    <3>1. PICK s \in S : TRUE BY <1>2
    <3>2. \A t \in S : t < m OBVIOUS
    <3>3. m # 0 BY <3>1, <3>2
    <3>4. m - 1 \in T BY <3>2, <3>3
    <3> QED BY <2>1, <3>4
  <2>3. \E s \in S : \A t \in S : t <= s BY <2>2
  <2> QED BY <2>3, <1>2 DEF MaxOf
<1> QED BY <1>1, <1>2

\* The maximum of an interval from 1.
LEMMA MaxOfInterval ==
  ASSUME NEW n \in Nat
  PROVE  MaxOf(1..n) = n
<1>1. /\ MaxOf(1..n) \in Nat
      /\ 1..n # {} => MaxOf(1..n) \in 1..n
      /\ \A s \in 1..n : s <= MaxOf(1..n)
  <2>1. 1..n \in SUBSET Nat /\ \A s \in 1..n : s <= n OBVIOUS
  <2> QED BY <2>1, MaxOfBounded
<1>2. CASE n = 0
  <2>1. 1..n = {} BY <1>2
  <2> QED BY <2>1, <1>2 DEF MaxOf
<1>3. CASE n # 0
  <2>1. n \in 1..n BY <1>3
  <2>2. MaxOf(1..n) \in 1..n /\ n <= MaxOf(1..n) BY <2>1, <1>1
  <2> QED BY <2>2
<1> QED BY <1>2, <1>3

\* In a finite set of naturals there is a k-th element for every k up to the
\* cardinality, and NthOf is one.
LEMMA NthExists ==
  ASSUME NEW H \in SUBSET Nat, IsFiniteSet(H)
  PROVE  \A k \in 1..Cardinality(H) :
           /\ NthOf(H, k) \in H
           /\ Cardinality({t \in H : t < NthOf(H, k)}) = k - 1
<1> DEFINE n == Cardinality(H)
           Below(s) == {t \in H : t < s}
           Found(k) == \E s \in H : Cardinality(Below(s)) = k - 1
           Bad == {k \in 1..n : ~ Found(k)}
<1>0. n \in Nat BY FS_CardinalityType
<1>1. ASSUME NEW k \in 1..n PROVE Found(k)
  <2> SUFFICES ASSUME ~ Found(k) PROVE FALSE OBVIOUS
  <2>1. PICK m \in Bad : \A j \in Bad : m <= j
    <3>1. k \in Bad /\ Bad \subseteq Nat OBVIOUS
    <3> HIDE DEF Bad
    <3> QED BY <3>1, LeastNatural
  <2>2. \E P \in SUBSET H : IsFiniteSet(P) /\ Cardinality(P) = m - 1
                           /\ \A s \in P, t \in H : t <= s => t \in P
    <3>1. CASE m = 1
      <4>1. IsFiniteSet({}) /\ Cardinality({}) = 0 BY FS_EmptySet
      <4> QED BY <4>1, <3>1
    <3>2. CASE m # 1
      <4>1. m - 1 \in 1..n /\ m - 1 \notin Bad
        <5>1. m \in 1..n OBVIOUS
        <5>2. m - 1 \in 1..n BY <3>2, <5>1, <1>0
        <5>3. m - 1 \notin Bad
          <6>1. ASSUME m - 1 \in Bad PROVE FALSE
            <7>1. m <= m - 1 BY <6>1, <2>1
            <7> QED BY <7>1, <5>1
          <6> QED BY <6>1
        <5> QED BY <5>2, <5>3
      <4>2. PICK s \in H : Cardinality(Below(s)) = m - 2 BY <4>1
      <4>3. IsFiniteSet(Below(s)) /\ s \notin Below(s)
        <5>1. Below(s) \subseteq H OBVIOUS
        <5> QED BY <5>1, FS_Subset
      <4>4. Cardinality(Below(s) \cup {s}) = m - 1 /\ IsFiniteSet(Below(s) \cup {s})
        <5>1. Cardinality(Below(s) \cup {s}) = Cardinality(Below(s)) + 1
              /\ IsFiniteSet(Below(s) \cup {s})
          BY <4>3, FS_AddElement
        <5> QED BY <5>1, <4>2
      <4>5. \A u \in Below(s) \cup {s}, t \in H : t <= u => t \in Below(s) \cup {s}
        OBVIOUS
      <4> QED BY <4>4, <4>5
    <3> QED BY <3>1, <3>2
  <2>3. PICK P \in SUBSET H : IsFiniteSet(P) /\ Cardinality(P) = m - 1
                             /\ \A s \in P, t \in H : t <= s => t \in P
    BY <2>2
  <2>4. H \ P # {}
    <3>1. ASSUME H \ P = {} PROVE FALSE
      <4>1. H = P BY <3>1
      <4>2. n = m - 1 BY <4>1, <2>3
      <4> QED BY <4>2, <1>0
    <3> QED BY <3>1
  <2>5. PICK s \in H \ P : \A t \in H \ P : s <= t
    <3>1. H \ P \in SUBSET Nat OBVIOUS
    <3> QED BY <3>1, <2>4, LeastNatural
  <2>6. Below(s) = P
    <3>1. \A t \in Below(s) : t \in P
      BY <2>5
    <3>2. \A t \in P : t < s
      <4> TAKE t \in P
      <4>1. s \in Nat /\ t \in Nat OBVIOUS
      <4>2. ~ (s <= t) BY <2>3, <2>5
      <4> QED BY <4>1, <4>2
    <3> QED BY <3>1, <3>2
  <2>7. Found(m) BY <2>5, <2>6, <2>3
  <2> QED BY <2>1, <2>7
<1>2. \A k \in 1..n : \E s \in H : Cardinality({t \in H : t < s}) = k - 1
  BY <1>1
<1> QED BY <1>2 DEF NthOf

\* An interval from 1 to n has n elements.
LEMMA CardinalityInterval ==
  ASSUME NEW n \in Nat
  PROVE  IsFiniteSet(1..n) /\ Cardinality(1..n) = n
<1>1. IsFiniteSet(1..n) /\ Cardinality(1..n) = IF 1 > n THEN 0 ELSE n - 1 + 1
  BY FS_Interval
<1>2. (IF 1 > n THEN 0 ELSE n - 1 + 1) = n OBVIOUS
<1> QED BY <1>1, <1>2

\* In a log without gaps the leaves up to n are the first n entries.
LEMMA LeavesOfInterval ==
  ASSUME NEW f, NEW m \in Nat, DOMAIN f = 1..m, NEW n \in 0..m
  PROVE  LeavesOf(f, n) = First(f, n)
<1>1. UpTo(DOMAIN f, n) = 1..n BY DEF UpTo
<1>2. Cardinality(1..n) = n /\ IsFiniteSet(1..n)
  BY CardinalityInterval
<1>3. ASSUME NEW k \in 1..n PROVE NthOf(1..n, k) = k
  <2>1. /\ NthOf(1..n, k) \in 1..n
        /\ Cardinality({t \in 1..n : t < NthOf(1..n, k)}) = k - 1
    <3>1. 1..n \in SUBSET Nat OBVIOUS
    <3>2. \A j \in 1..Cardinality(1..n) :
            /\ NthOf(1..n, j) \in 1..n
            /\ Cardinality({t \in 1..n : t < NthOf(1..n, j)}) = j - 1
      BY <3>1, <1>2, NthExists
    <3> QED BY <3>2, <1>2
  <2>2. PICK s : s = NthOf(1..n, k) OBVIOUS
  <2>3. s \in 1..n /\ Cardinality({t \in 1..n : t < s}) = k - 1 BY <2>1, <2>2
  <2>4. {t \in 1..n : t < s} = 1..(s - 1) BY <2>3
  <2>5. Cardinality(1..(s - 1)) = s - 1
    <3>1. s - 1 \in Nat BY <2>3
    <3> QED BY <3>1, CardinalityInterval
  <2>6. s - 1 = k - 1 BY <2>3, <2>4, <2>5
  <2>7. s = k BY <2>6, <2>3
  <2> QED BY <2>2, <2>7
<1> QED BY <1>1, <1>2, <1>3 DEF LeavesOf, First

\* The leaves up to n are a sequence of authors.
LEMMA LeavesOfType ==
  ASSUME NEW f, f \in [DOMAIN f -> LogEntry], DOMAIN f \subseteq Nat,
         NEW b \in Nat, \A s \in DOMAIN f : s <= b, NEW n \in Nat
  PROVE  LeavesOf(f, n) \in Seq(Writers)
<1> DEFINE H == UpTo(DOMAIN f, n)
<1>1. H \in SUBSET Nat /\ H \subseteq DOMAIN f /\ IsFiniteSet(H)
  <2>1. H \in SUBSET Nat /\ H \subseteq DOMAIN f /\ \A s \in H : s <= b BY DEF UpTo
  <2> QED BY <2>1, FS_BoundedSetOfNaturals
<1>2. Cardinality(H) \in Nat BY <1>1, FS_CardinalityType
<1>3. \A k \in 1..Cardinality(H) : NthOf(H, k) \in H BY <1>1, NthExists
<1>4. \A s \in DOMAIN f : f[s].id \in Writers BY DEF LogEntry
<1> HIDE DEF H
<1>5. \A k \in 1..Cardinality(H) : f[NthOf(H, k)].id \in Writers BY <1>1, <1>3, <1>4
<1>6. [k \in 1..Cardinality(H) |-> f[NthOf(H, k)].id] \in Seq(Writers)
  BY <1>2, <1>5, IsASeq
<1> QED BY <1>6 DEF LeavesOf, H

-----------------------------------------------------------------------------
(* What a step does to the log                                             *)

\* The reading operators of AuditLog are these of the table.
LEMMA ReadingLog ==
  /\ LastSeq = MaxOf(DOMAIN log)
  /\ \A n : LeavesTo(n) = LeavesOf(log, n)
  /\ LastSeq' = MaxOf(DOMAIN log')
BY DEF LastSeq, MaxOf, LeavesTo, LeavesOf, UpTo, NthOf

\* The highest number is that of an entry, or 0; without gaps it is the count.
LEMMA LastSeqFacts ==
  ASSUME TypeOK, NumbersSound
  PROVE  /\ LastSeq \in Nat
         /\ LastSeq # 0 => LastSeq \in DOMAIN log
         /\ \A s \in DOMAIN log : s <= LastSeq
         /\ AllHeld => DOMAIN log = 1..LastSeq /\ LastSeq = Cardinality(DOMAIN call)
<1>1. PICK b \in Nat : \A s \in DOMAIN log : s <= b BY DEF NumbersSound
<1>2. DOMAIN log \in SUBSET Nat BY DEF TypeOK
<1>3. /\ MaxOf(DOMAIN log) \in Nat
      /\ DOMAIN log # {} => MaxOf(DOMAIN log) \in DOMAIN log
      /\ \A s \in DOMAIN log : s <= MaxOf(DOMAIN log)
  BY <1>1, <1>2, MaxOfBounded
<1>4. DOMAIN log = {} => MaxOf(DOMAIN log) = 0 BY DEF MaxOf
<1>5. ASSUME AllHeld PROVE DOMAIN log = 1..LastSeq /\ LastSeq = Cardinality(DOMAIN call)
  <2>1. DOMAIN log = 1..Cardinality(DOMAIN call) /\ Cardinality(DOMAIN call) \in Nat
    BY <1>5, FS_CardinalityType DEF NumbersSound
  <2>2. LastSeq = Cardinality(DOMAIN call) BY <2>1, ReadingLog, MaxOfInterval
  <2> QED BY <2>1, <2>2
<1> QED BY <1>3, <1>4, <1>5, ReadingLog

\* An append adds one entry after the last and changes no other.
LEMMA AppendFacts ==
  ASSUME TypeOK, NumbersSound, NEW w \in Writers, AppendEntry(w)
  PROVE  /\ w \notin DOMAIN call
         /\ LastSeq + 1 \notin DOMAIN log
         /\ DOMAIN log' = DOMAIN log \cup {LastSeq + 1}
         /\ \A s \in DOMAIN log : log'[s] = log[s]
         /\ \E e \in LogEntry :
              /\ log'[LastSeq + 1] = e
              /\ e.id = w /\ e.signer = None
              /\ e.prev = NextLink.prev
              /\ e.expires \in Nat \cup {None}
              /\ e.expires = None \/ day < e.expires
              /\ Retentions \subseteq {None} => e.expires = None
              /\ call'[w] = [pc |-> "sign", seq |-> LastSeq + 1, expires |-> e.expires]
         /\ DOMAIN call' = DOMAIN call \cup {w}
         /\ \A v \in DOMAIN call : call'[v] = call[v]
         /\ LastSeq' = LastSeq + 1
         /\ head' = IF Cluster THEN [seq |-> LastSeq + 1, hash |-> [id |-> w, linkage |-> TRUE]]
                    ELSE head
         /\ UNCHANGED <<day, checkpoints, published, leader, tick>>
<1>1. LastSeq \in Nat /\ \A s \in DOMAIN log : s <= LastSeq BY LastSeqFacts
<1>2. NextLink.seq = LastSeq + 1
  <2>1. CASE Cluster
    <3>1. AllHeld /\ head.seq = LastSeq BY <2>1, LastSeqFacts DEF NumbersSound
    <3> QED BY <2>1, <3>1 DEF NextLink
  <2>2. CASE ~ Cluster
    BY <2>2 DEF NextLink
  <2> QED BY <2>1, <2>2
<1>3. PICK n : n = LastSeq + 1 OBVIOUS
<1>4. n \in Nat \ {0} /\ n \notin DOMAIN log /\ \A s \in DOMAIN log : s <= n
  BY <1>1, <1>3 DEF TypeOK
<1>5. NextLink.prev \in Hash
  <2>1. CASE Cluster
    BY <2>1 DEF NextLink, TypeOK
  <2>2. CASE ~ Cluster /\ LastSeq = 0
    BY <2>2 DEF NextLink, Genesis, Hash
  <2>3. CASE ~ Cluster /\ LastSeq # 0
    <3>1. LastSeq \in DOMAIN log BY <2>3, LastSeqFacts
    <3>2. log[LastSeq].id \in Writers BY <3>1 DEF TypeOK, LogEntry
    <3>3. RowHash(LastSeq) \in Hash BY <3>2, <2>3 DEF RowHash, Hash
    <3> QED BY <2>3, <3>3 DEF NextLink
  <2> QED BY <2>1, <2>2, <2>3
<1>6. PICK ttl \in Retentions :
        LET expires == IF ttl = None THEN None ELSE day + ttl
            e == [id |-> w, prev |-> NextLink.prev, expires |-> expires, signer |-> None]
        IN /\ log' = [s \in DOMAIN log \cup {n} |-> IF s = n THEN e ELSE log[s]]
           /\ head' = IF Cluster THEN [seq |-> n, hash |-> [id |-> w, linkage |-> TRUE]]
                      ELSE head
           /\ call' = [v \in DOMAIN call \cup {w} |->
                         IF v = w THEN [pc |-> "sign", seq |-> n, expires |-> expires]
                         ELSE call[v]]
  BY <1>2, <1>3 DEF AppendEntry
<1>7. PICK x : x = IF ttl = None THEN None ELSE day + ttl OBVIOUS
<1>8. /\ x \in Nat \cup {None}
      /\ x = None \/ day < x
      /\ Retentions \subseteq {None} => x = None
  <2>1. ttl = None \/ ttl \in Nat \ {0} BY ConstantsAssumption
  <2>2. day \in Nat BY DEF TypeOK
  <2> QED BY <1>7, <2>1, <2>2
<1>9. PICK e : e = [id |-> w, prev |-> NextLink.prev, expires |-> x, signer |-> None]
  OBVIOUS
<1>10. e \in LogEntry /\ e.id = w /\ e.signer = None /\ e.prev = NextLink.prev /\ e.expires = x
  BY <1>5, <1>8, <1>9 DEF LogEntry
<1>11. /\ log' = [s \in DOMAIN log \cup {n} |-> IF s = n THEN e ELSE log[s]]
       /\ call' = [v \in DOMAIN call \cup {w} |->
                     IF v = w THEN [pc |-> "sign", seq |-> n, expires |-> x] ELSE call[v]]
  BY <1>6, <1>7, <1>9
<1>12. w \notin DOMAIN call /\ UNCHANGED <<day, checkpoints, published, leader, tick>>
  BY DEF AppendEntry
<1>13. DOMAIN log' = DOMAIN log \cup {n} /\ log'[n] = e /\ \A s \in DOMAIN log : log'[s] = log[s]
  BY <1>11, <1>4
<1>14. /\ DOMAIN call' = DOMAIN call \cup {w}
       /\ call'[w] = [pc |-> "sign", seq |-> n, expires |-> x]
       /\ \A v \in DOMAIN call : call'[v] = call[v]
  BY <1>11, <1>12
<1>15. LastSeq' = n
  <2>1. DOMAIN log' \in SUBSET Nat /\ \A s \in DOMAIN log' : s <= n
    BY <1>4, <1>13 DEF TypeOK
  <2>2. /\ MaxOf(DOMAIN log') \in DOMAIN log'
        /\ \A s \in DOMAIN log' : s <= MaxOf(DOMAIN log')
    BY <2>1, <1>4, <1>13, MaxOfBounded
  <2>3. MaxOf(DOMAIN log') = n BY <2>1, <2>2, <1>4, <1>13
  <2> QED BY <2>3, ReadingLog
<1> QED BY <1>3, <1>4, <1>6, <1>8, <1>10, <1>12, <1>13, <1>14, <1>15

\* The steps of a tick leave the log and the calls alone.
LEMMA TickFacts ==
  ASSUME NEW r \in Replicas, TickStep(r)
  PROVE  UNCHANGED <<day, log, head, call>>
BY DEF TickStep, AcquireLease, ReadMaxSequence, ReadLastCheckpoint, ReadEntries,
       StoreCheckpoint, PublishCheckpoint, TickFails, ReleaseLease

\* A signature changes the signer of the entry the call appended, if it is
\* held, and nothing else.
LEMMA SignFacts ==
  ASSUME TypeOK, NEW w \in Writers, SignEntry(w)
  PROVE  /\ w \in DOMAIN call /\ call[w].pc = "sign"
         /\ DOMAIN log' = DOMAIN log
         /\ \A s \in DOMAIN log :
              /\ log'[s].id = log[s].id /\ log'[s].prev = log[s].prev
              /\ log'[s].expires = log[s].expires
              /\ s # call[w].seq => log'[s] = log[s]
              /\ s = call[w].seq => log'[s].signer = w
              /\ log'[s] \in LogEntry
         /\ DOMAIN call' = DOMAIN call
         /\ \A v \in DOMAIN call :
              /\ call'[v].seq = call[v].seq /\ call'[v].expires = call[v].expires
              /\ v # w => call'[v] = call[v]
              /\ v = w => call'[v].pc = "done"
              /\ call'[v] \in CallState
         /\ UNCHANGED <<day, head, checkpoints, published, leader, tick>>
<1>1. \A s \in DOMAIN log : log[s] \in LogEntry BY DEF TypeOK
<1>2. \A v \in DOMAIN call : call[v] \in CallState BY DEF TypeOK
<1> QED BY <1>1, <1>2 DEF SignEntry, LogEntry, CallState

\* The local state of a tick that only moves on.
LEMMA GotoType ==
  ASSUME TypeOK, NEW r \in Replicas,
         NEW pc \in {"idle", "max", "last", "entries", "store", "publish", "release"},
         Goto(r, pc)
  PROVE  tick' \in [Replicas -> TickState]
<1>1. tick[r] \in TickState BY DEF TypeOK
<1>2. [tick[r] EXCEPT !.pc = pc] \in TickState BY <1>1 DEF TickState
<1> QED BY <1>2 DEF Goto, TypeOK

\* A stored checkpoint has a number and a sequence of leaves.
LEMMA CheckpointType ==
  ASSUME TypeOK
  PROVE  /\ Len(checkpoints) \in Nat
         /\ \A k \in 1..Len(checkpoints) :
              /\ checkpoints[k] \in Checkpoint
              /\ checkpoints[k].leaves \in Seq(Writers)
              /\ Len(checkpoints[k].leaves) \in Nat
<1>1. checkpoints \in Seq(Checkpoint) BY DEF TypeOK
<1>2. \A k \in 1..Len(checkpoints) : checkpoints[k] \in Checkpoint BY <1>1
<1>3. \A c \in Checkpoint : c.leaves \in Seq(Writers) BY DEF Checkpoint
<1>4. \A s \in Seq(Writers) : Len(s) \in Nat OBVIOUS
<1> QED BY <1>1, <1>2, <1>3, <1>4

\* What a tick builds is a checkpoint.
LEMMA NewCheckpointType ==
  ASSUME TypeOK, NEW r \in Replicas
  PROVE  NewCheckpoint(r) \in Checkpoint
<1>1. tick[r] \in TickState BY DEF TypeOK
<1>2. tick[r].last # None => tick[r].last.number \in Nat \ {0}
  BY <1>1 DEF TickState, Checkpoint
<1>3. tick[r].leaves \in Seq(Writers) BY <1>1 DEF TickState
<1> QED BY <1>2, <1>3 DEF NewCheckpoint, Checkpoint

\* What get_checkpoints returns is one of the stored checkpoints, or none.
LEMMA LastCheckpointType ==
  ASSUME TypeOK
  PROVE  /\ LastCheckpoint \in Checkpoint \cup {None}
         /\ LastCheckpoint # None =>
              \E k \in 1..Len(checkpoints) : LastCheckpoint = checkpoints[k]
<1>1. checkpoints \in Seq(Checkpoint) BY DEF TypeOK
<1>2. CASE checkpoints = <<>>
  BY <1>2 DEF LastCheckpoint
<1>3. CASE checkpoints # <<>>
  <2>1. Len(checkpoints) \in Nat \ {0} BY <1>1, <1>3, EmptySeq
  <2>2. 1 \in 1..Len(checkpoints) /\ Len(checkpoints) \in 1..Len(checkpoints) BY <2>1
  <2>3. \A k \in 1..Len(checkpoints) : checkpoints[k] \in Checkpoint BY <1>1
  <2>4. LastCheckpoint = IF Cluster THEN checkpoints[1] ELSE checkpoints[Len(checkpoints)]
    BY <1>3 DEF LastCheckpoint
  <2> QED BY <2>2, <2>3, <2>4
<1> QED BY <1>2, <1>3

\* Every step of a tick keeps the types.
LEMMA TickTypeStep ==
  ASSUME TypeOK, NumbersSound, NEW r \in Replicas, TickStep(r)
  PROVE  /\ checkpoints' \in Seq(Checkpoint)
         /\ published' \subseteq Checkpoint
         /\ leader' \in Replicas \cup {None}
         /\ tick' \in [Replicas -> TickState]
<1> USE DEF TypeOK
<1>1. tick[r] \in TickState OBVIOUS
<1>2. CASE AcquireLease(r)
  <2>1. Goto(r, "max") /\ leader' = r /\ UNCHANGED <<checkpoints, published>>
    BY <1>2 DEF AcquireLease
  <2> QED BY <2>1, GotoType
<1>3. CASE ReadMaxSequence(r)
  <2>1. LastSeq \in Nat BY LastSeqFacts
  <2>2. \E pc \in {"release", "last"} :
          tick' = [tick EXCEPT ![r] = [tick[r] EXCEPT !.pc = pc, !.max = LastSeq]]
    BY <1>3, <1>1 DEF ReadMaxSequence
  <2>3. \A pc \in {"release", "last"} :
          [tick[r] EXCEPT !.pc = pc, !.max = LastSeq] \in TickState
    BY <1>1, <2>1 DEF TickState
  <2>4. tick' \in [Replicas -> TickState] BY <2>2, <2>3
  <2> QED BY <1>3, <2>4 DEF ReadMaxSequence
<1>4. CASE ReadLastCheckpoint(r)
  <2>1. \E pc \in {"release", "entries"} :
          tick' = [tick EXCEPT ![r] = [tick[r] EXCEPT !.pc = pc, !.last = LastCheckpoint]]
    BY <1>4, <1>1 DEF ReadLastCheckpoint
  <2>2. \A pc \in {"release", "entries"} :
          [tick[r] EXCEPT !.pc = pc, !.last = LastCheckpoint] \in TickState
    BY <1>1, LastCheckpointType DEF TickState
  <2>3. tick' \in [Replicas -> TickState] BY <2>1, <2>2
  <2> QED BY <1>4, <2>3 DEF ReadLastCheckpoint
<1>5. CASE ReadEntries(r)
  <2>1. PICK b \in Nat : \A s \in DOMAIN log : s <= b BY DEF NumbersSound
  <2>2. tick[r].max \in Nat BY <1>1 DEF TickState
  <2>3. LeavesTo(tick[r].max) \in Seq(Writers)
    BY <2>1, <2>2, LeavesOfType, ReadingLog
  <2>4. [tick[r] EXCEPT !.pc = "store", !.leaves = LeavesTo(tick[r].max)] \in TickState
    BY <1>1, <2>3 DEF TickState
  <2>5. tick' = [tick EXCEPT ![r] =
                   [tick[r] EXCEPT !.pc = "store", !.leaves = LeavesTo(tick[r].max)]]
    BY <1>5, <1>1 DEF ReadEntries
  <2>6. tick' \in [Replicas -> TickState] BY <2>4, <2>5
  <2> QED BY <1>5, <2>6 DEF ReadEntries
<1>6. CASE StoreCheckpoint(r)
  <2>1. tick' \in [Replicas -> TickState] BY <1>6, GotoType DEF StoreCheckpoint
  <2>2. checkpoints' \in Seq(Checkpoint)
    BY <1>6, NewCheckpointType, AppendProperties DEF StoreCheckpoint
  <2> QED BY <1>6, <2>1, <2>2 DEF StoreCheckpoint
<1>7. CASE PublishCheckpoint(r)
  <2>1. tick' \in [Replicas -> TickState] BY <1>7, GotoType DEF PublishCheckpoint
  <2> QED BY <1>7, <2>1, NewCheckpointType DEF PublishCheckpoint
<1>8. CASE TickFails(r)
  <2>1. tick' \in [Replicas -> TickState] BY <1>8, GotoType DEF TickFails
  <2> QED BY <1>8, <2>1 DEF TickFails
<1>9. CASE ReleaseLease(r)
  <2>1. Idle \in TickState BY EmptySeq DEF Idle, TickState
  <2> QED BY <1>9, <2>1 DEF ReleaseLease
<1> QED BY <1>2, <1>3, <1>4, <1>5, <1>6, <1>7, <1>8, <1>9 DEF TickStep

-----------------------------------------------------------------------------
(* The invariant is inductive                                              *)

\* The initial state has no entries, calls or checkpoints.
LEMMA InitInvariant == Init => IInv
<1> SUFFICES ASSUME Init PROVE IInv OBVIOUS
<1>1. DOMAIN log = {} /\ DOMAIN call = {} BY DEF Init
<1>2. TypeOK
  <2>1. Idle \in TickState BY EmptySeq DEF Idle, TickState
  <2>2. Genesis \in Hash BY DEF Genesis, Hash
  <2>3. log \in [DOMAIN log -> LogEntry] /\ call \in [DOMAIN call -> CallState]
    BY DEF Init
  <2>4. checkpoints \in Seq(Checkpoint) BY EmptySeq DEF Init
  <2> QED BY <1>1, <2>1, <2>2, <2>3, <2>4 DEF Init, TypeOK
<1>3. NumbersSound
  <2>1. IsFiniteSet({}) /\ Cardinality({}) = 0 BY FS_EmptySet
  <2>2. 1..0 = {} OBVIOUS
  <2>3. head.seq = 0 BY DEF Init
  <2>4. AllHeld BY <1>1 DEF AllHeld
  <2>5. 0 \in Nat OBVIOUS
  <2> QED BY <1>1, <2>1, <2>2, <2>3, <2>4, <2>5 DEF NumbersSound
<1>4. RowsHaveCalls /\ SignedByOwner /\ ChainVerifies
  BY <1>1 DEF RowsHaveCalls, SignedByOwner, ChainVerifies
<1>5. LastSeq = 0 BY <1>1 DEF LastSeq
<1>6. Len(checkpoints) = 0 /\ 1..0 = {} /\ published = {}
      /\ \A r \in Replicas : tick[r].max = 0 /\ tick[r].last = None /\ tick[r].pc = "idle"
  BY EmptySeq DEF Init, Idle
<1>7. RowsNumbered /\ PublishedAreStored /\ PrefixesGrow
  BY <1>5, <1>6 DEF RowsNumbered, PublishedAreStored, PrefixesGrow
<1> QED BY <1>2, <1>3, <1>4, <1>7 DEF IInv

\* A part of the invariant that is about the checkpoints and the ticks is
\* kept by whatever leaves them alone.
LEMMA TicksUntouched ==
  ASSUME RowsNumbered, PublishedAreStored, UNCHANGED <<checkpoints, published, tick>>
  PROVE  RowsNumbered' /\ PublishedAreStored'
BY DEF RowsNumbered, PublishedAreStored, NewCheckpoint

\* The same for the log and the calls.
LEMMA LogUntouched ==
  ASSUME RowsHaveCalls, NumbersSound, SignedByOwner, ~ Cluster => ChainVerifies,
         UNCHANGED <<day, log, head, call>>
  PROVE  /\ RowsHaveCalls' /\ NumbersSound' /\ SignedByOwner'
         /\ ~ Cluster => ChainVerifies'
         /\ AllHeld' = AllHeld
         /\ LastSeq' = LastSeq
<1>1. \A w : Held(w)' = Held(w) BY DEF Held
<1>2. AllHeld' = AllHeld BY <1>1 DEF AllHeld
<1>3. RowsHaveCalls' BY <1>1 DEF RowsHaveCalls
<1>4. NumbersSound' BY <1>2 DEF NumbersSound
<1>5. SignedByOwner' BY DEF SignedByOwner
<1>6. ~ Cluster => ChainVerifies'
  <2>1. \A s : RowHash(s)' = RowHash(s) BY DEF RowHash
  <2> QED BY <2>1 DEF ChainVerifies
<1>7. LastSeq' = LastSeq BY DEF LastSeq
<1> QED BY <1>2, <1>3, <1>4, <1>5, <1>6, <1>7

\* The prefixes stay what they are while the log only grows behind them.
LEMMA PrefixesKept ==
  ASSUME TypeOK, PrefixesGrow, LastSeq \in Nat, LastSeq' \in Nat, LastSeq <= LastSeq',
         \A m \in 0..LastSeq : First(log', m) = First(log, m),
         UNCHANGED <<checkpoints, tick>>
  PROVE  PrefixesGrow'
<1>1. PICK n : n = LastSeq' OBVIOUS
<1>2. \A k \in 1..Len(checkpoints) :
        LET leaves == checkpoints[k].leaves
        IN Len(leaves) <= n /\ leaves = First(log', Len(leaves))
  <2> TAKE k \in 1..Len(checkpoints)
  <2>1. PICK l : l = Len(checkpoints[k].leaves) OBVIOUS
  <2>2. l \in Nat /\ l <= LastSeq /\ checkpoints[k].leaves = First(log, l)
    BY <2>1, CheckpointType DEF PrefixesGrow
  <2>3. l \in 0..LastSeq /\ l <= n BY <2>2, <1>1
  <2> QED BY <2>1, <2>2, <2>3
<1>3. \A r \in Replicas :
        /\ tick[r].max <= n
        /\ tick[r].pc = "store" => tick[r].leaves = First(log', tick[r].max)
  <2> TAKE r \in Replicas
  <2>1. tick[r].max \in Nat BY DEF TypeOK, TickState
  <2>2. tick[r].max <= LastSeq /\ tick[r].max <= n
    BY <2>1, <1>1 DEF PrefixesGrow
  <2>3. First(log', tick[r].max) = First(log, tick[r].max) BY <2>1, <2>2
  <2> QED BY <2>2, <2>3 DEF PrefixesGrow
<1> QED BY <1>1, <1>2, <1>3 DEF PrefixesGrow

\* An append keeps the invariant: the new number is above every number held, so
\* nothing is overwritten, and if a call's entry is gone it stays gone.
LEMMA AppendStep ==
  ASSUME IInv, NEW w \in Writers, AppendEntry(w)
  PROVE  IInv'
<1> USE DEF IInv
<1>1. PICK n : n = LastSeq + 1 OBVIOUS
<1>2. PICK e \in LogEntry :
        /\ log'[n] = e
        /\ e.id = w /\ e.signer = None /\ e.prev = NextLink.prev
        /\ e.expires \in Nat \cup {None}
        /\ e.expires = None \/ day < e.expires
        /\ Retentions \subseteq {None} => e.expires = None
        /\ call'[w] = [pc |-> "sign", seq |-> n, expires |-> e.expires]
  BY <1>1, AppendFacts
<1>3. /\ w \notin DOMAIN call /\ n \notin DOMAIN log
      /\ DOMAIN log' = DOMAIN log \cup {n}
      /\ \A s \in DOMAIN log : log'[s] = log[s]
      /\ DOMAIN call' = DOMAIN call \cup {w}
      /\ \A v \in DOMAIN call : call'[v] = call[v]
      /\ LastSeq' = n
      /\ head' = IF Cluster THEN [seq |-> n, hash |-> [id |-> w, linkage |-> TRUE]] ELSE head
      /\ UNCHANGED <<day, checkpoints, published, leader, tick>>
  BY <1>1, AppendFacts
<1>4. LastSeq \in Nat /\ n \in Nat \ {0} /\ \A s \in DOMAIN log : s < n
  BY <1>1, LastSeqFacts DEF TypeOK
<1>5. \A s \in DOMAIN log : log[s].id \in DOMAIN call /\ call[log[s].id].seq = s
  BY DEF RowsHaveCalls
<1>6. Held(w)' BY <1>2, <1>3 DEF Held
<1>7. \A v \in DOMAIN call : Held(v)' <=> Held(v)
  <2> TAKE v \in DOMAIN call
  <2>1. CASE call[v].seq = n BY <2>1, <1>2, <1>3 DEF Held
  <2>2. CASE call[v].seq # n BY <2>2, <1>3 DEF Held
  <2> QED BY <2>1, <2>2
<1>8. AllHeld' <=> AllHeld BY <1>3, <1>6, <1>7 DEF AllHeld
<1>9. AllHeld => DOMAIN log = 1..LastSeq /\ LastSeq = Cardinality(DOMAIN call)
  BY LastSeqFacts
<1>10. TypeOK'
  <2>1. DOMAIN log' \subseteq Nat \ {0} BY <1>3, <1>4 DEF TypeOK
  <2>2. log' \in [DOMAIN log' -> LogEntry]
    <3>1. \A s \in DOMAIN log' : log'[s] \in LogEntry BY <1>2, <1>3 DEF TypeOK
    <3>2. log' = [s \in DOMAIN log' |-> log'[s]] BY DEF AppendEntry
    <3> QED BY <3>1, <3>2
  <2>3. call' \in [DOMAIN call' -> CallState]
    <3>1. call'[w] \in CallState BY <1>2, <1>4 DEF CallState
    <3>2. \A v \in DOMAIN call' : call'[v] \in CallState BY <1>3, <3>1 DEF TypeOK
    <3>3. call' = [v \in DOMAIN call' |-> call'[v]] BY DEF AppendEntry
    <3> QED BY <3>2, <3>3
  <2>4. head' \in [seq : Nat, hash : Hash]
    BY <1>3, <1>4 DEF TypeOK, Hash
  <2> QED BY <1>3, <2>1, <2>2, <2>3, <2>4 DEF TypeOK
<1>11. RowsHaveCalls'
  <2>1. ASSUME NEW s \in DOMAIN log'
        PROVE  /\ log'[s].id \in DOMAIN call' /\ call'[log'[s].id].seq = s
               /\ call'[log'[s].id].expires = log'[s].expires
    <3>1. CASE s = n BY <3>1, <1>2, <1>3
    <3>2. CASE s \in DOMAIN log BY <3>2, <1>3 DEF RowsHaveCalls
    <3> QED BY <3>1, <3>2, <1>3
  <2>2. ASSUME NEW v \in DOMAIN call'
        PROVE  /\ call'[v].expires = None \/ day' <= call'[v].expires => Held(v)'
               /\ call'[v].pc = "sign" => call'[v].expires = None \/ day' < call'[v].expires
    <3>1. CASE v = w BY <3>1, <1>2, <1>3, <1>6
    <3>2. CASE v \in DOMAIN call BY <3>2, <1>3, <1>7 DEF RowsHaveCalls
    <3> QED BY <3>1, <3>2, <1>3
  <2> QED BY <2>1, <2>2 DEF RowsHaveCalls
<1>12. NumbersSound'
  <2>1. IsFiniteSet(DOMAIN call') /\ Cardinality(DOMAIN call') = Cardinality(DOMAIN call) + 1
    BY <1>3, FS_AddElement DEF NumbersSound
  <2>2. \A s \in DOMAIN log' : s <= n BY <1>3, <1>4 DEF TypeOK
  <2>3. AllHeld' => DOMAIN log' = 1..Cardinality(DOMAIN call')
    <3>1. SUFFICES ASSUME AllHeld PROVE DOMAIN log' = 1..n
      BY <1>8, <1>1, <1>9, <2>1
    <3> QED BY <3>1, <1>9, <1>3, <1>1, <1>4
  <2>4. Cluster => AllHeld' /\ head'.seq = Cardinality(DOMAIN call')
    BY <1>1, <1>3, <1>8, <1>9, <2>1 DEF NumbersSound
  <2>5. Retentions \subseteq {None} => \A v \in DOMAIN call' : call'[v].expires = None
    BY <1>2, <1>3 DEF NumbersSound
  <2> QED BY <2>1, <2>2, <2>3, <2>4, <2>5, <1>4 DEF NumbersSound
<1>13. SignedByOwner'
  <2> SUFFICES ASSUME NEW s \in DOMAIN log'
               PROVE  /\ log'[s].signer \in {None, log'[s].id}
                      /\ log'[s].signer # None => call'[log'[s].id].pc = "done"
    BY DEF SignedByOwner
  <2>1. CASE s = n BY <2>1, <1>2
  <2>2. CASE s \in DOMAIN log BY <2>2, <1>3, <1>5 DEF SignedByOwner
  <2> QED BY <2>1, <2>2, <1>3
<1>14. ~ Cluster => ChainVerifies'
  <2> SUFFICES ASSUME ~ Cluster, NEW s \in DOMAIN log'
               PROVE  /\ s = 1 => log'[s].prev = Genesis
                      /\ s - 1 \in DOMAIN log' =>
                           log'[s].prev = [id |-> log'[s - 1].id, linkage |-> ~ Cluster]
    BY DEF ChainVerifies, RowHash
  <2>1. CASE s = n
    <3>1. e.prev = IF LastSeq = 0 THEN Genesis ELSE RowHash(LastSeq)
      BY <1>2 DEF NextLink
    <3>2. s = 1 => log'[s].prev = Genesis BY <2>1, <1>1, <1>2, <1>4, <3>1
    <3>3. ASSUME s - 1 \in DOMAIN log'
          PROVE  log'[s].prev = [id |-> log'[s - 1].id, linkage |-> ~ Cluster]
      <4>1. s - 1 = LastSeq /\ LastSeq \in DOMAIN log /\ LastSeq # 0
        BY <2>1, <3>3, <1>1, <1>3, <1>4 DEF TypeOK
      <4>2. log'[s].prev = RowHash(LastSeq) BY <4>1, <3>1, <2>1, <1>2
      <4> QED BY <4>1, <4>2, <1>3 DEF RowHash
    <3> QED BY <3>2, <3>3
  <2>2. CASE s \in DOMAIN log
    <3>1. s - 1 # n BY <2>2, <1>4 DEF TypeOK
    <3>2. ChainVerifies OBVIOUS
    <3>3. /\ s = 1 => log[s].prev = Genesis
          /\ s - 1 \in DOMAIN log => log[s].prev = [id |-> log[s - 1].id, linkage |-> ~ Cluster]
      BY <2>2, <3>2 DEF ChainVerifies, RowHash
    <3> QED BY <2>2, <3>1, <3>3, <1>3
  <2> QED BY <2>1, <2>2, <1>3
<1>15. RowsNumbered' /\ PublishedAreStored' BY <1>3, TicksUntouched
<1>16. AllHeld' => PrefixesGrow'
  <2> SUFFICES ASSUME AllHeld PROVE PrefixesGrow' BY <1>8
  <2>1. PrefixesGrow OBVIOUS
  <2>2. \A m \in 0..LastSeq : First(log', m) = First(log, m)
    <3> TAKE m \in 0..LastSeq
    <3>1. \A k \in 1..m : log'[k] = log[k] BY <1>3, <1>4, <1>9
    <3> QED BY <3>1 DEF First
  <2> QED BY <2>1, <2>2, <1>1, <1>3, <1>4, PrefixesKept
<1> QED BY <1>10, <1>11, <1>12, <1>13, <1>14, <1>15, <1>16

\* A signature, late or failed, disturbs nothing but the entry of its call:
\* the call is known to hold its entry until it has signed.
LEMMA SignStep ==
  ASSUME IInv, NEW w \in Writers, SignEntry(w) \/ SignFails(w)
  PROVE  IInv'
<1> USE DEF IInv
<1>1. /\ w \in DOMAIN call /\ call[w].pc = "sign"
      /\ DOMAIN log' = DOMAIN log
      /\ \A s \in DOMAIN log :
           /\ log'[s].id = log[s].id /\ log'[s].prev = log[s].prev
           /\ log'[s].expires = log[s].expires
           /\ log'[s].signer # log[s].signer => s = call[w].seq /\ log'[s].signer = w
           /\ log'[s] \in LogEntry
      /\ DOMAIN call' = DOMAIN call
      /\ \A v \in DOMAIN call :
           /\ call'[v].seq = call[v].seq /\ call'[v].expires = call[v].expires
           /\ v # w => call'[v] = call[v]
           /\ v = w => call'[v].pc = "done"
           /\ call'[v] \in CallState
      /\ UNCHANGED <<day, head, checkpoints, published, leader, tick>>
  <2>1. CASE SignEntry(w) BY <2>1, SignFacts
  <2>2. CASE SignFails(w)
    <3>1. \A s \in DOMAIN log : log[s] \in LogEntry BY DEF TypeOK
    <3>2. \A v \in DOMAIN call : call[v] \in CallState BY DEF TypeOK
    <3>3. \A v \in DOMAIN call : v = w =>
            /\ call'[v].seq = call[v].seq /\ call'[v].expires = call[v].expires
            /\ call'[v].pc = "done" /\ call'[v] \in CallState
      BY <2>2, <3>2 DEF SignFails, CallState
    <3>4. \A v \in DOMAIN call : v # w => call'[v] = call[v]
      BY <2>2 DEF SignFails
    <3>5. /\ w \in DOMAIN call /\ call[w].pc = "sign" /\ DOMAIN call' = DOMAIN call
          /\ UNCHANGED <<day, log, head, checkpoints, published, leader, tick>>
      BY <2>2 DEF SignFails
    <3> QED BY <3>1, <3>2, <3>3, <3>4, <3>5
  <2> QED BY <2>1, <2>2
<1>2. \A v \in DOMAIN call : Held(v)' <=> Held(v) BY <1>1 DEF Held
<1>3. AllHeld' <=> AllHeld BY <1>1, <1>2 DEF AllHeld
<1>4. LastSeq' = LastSeq BY <1>1 DEF LastSeq
<1>5. TypeOK'
  <2>1. log' \in [DOMAIN log' -> LogEntry]
    <3>1. log' = [s \in DOMAIN log' |-> log'[s]] BY DEF SignEntry, SignFails, TypeOK
    <3> QED BY <3>1, <1>1
  <2>2. call' \in [DOMAIN call' -> CallState]
    <3>1. call' = [v \in DOMAIN call' |-> call'[v]] BY DEF SignEntry, SignFails, TypeOK
    <3> QED BY <3>1, <1>1
  <2> QED BY <2>1, <2>2, <1>1 DEF TypeOK
<1>6. RowsHaveCalls'
  <2>1. \A s \in DOMAIN log : log[s].id \in DOMAIN call BY DEF RowsHaveCalls
  <2>2. \A s \in DOMAIN log' :
          /\ log'[s].id \in DOMAIN call' /\ call'[log'[s].id].seq = s
          /\ call'[log'[s].id].expires = log'[s].expires
    BY <1>1, <2>1 DEF RowsHaveCalls
  <2>3. \A v \in DOMAIN call' :
          /\ call'[v].expires = None \/ day' <= call'[v].expires => Held(v)'
          /\ call'[v].pc = "sign" => call'[v].expires = None \/ day' < call'[v].expires
    BY <1>1, <1>2 DEF RowsHaveCalls
  <2> QED BY <2>2, <2>3 DEF RowsHaveCalls
<1>7. NumbersSound' BY <1>1, <1>3 DEF NumbersSound
<1>8. SignedByOwner'
  <2> SUFFICES ASSUME NEW s \in DOMAIN log'
               PROVE  /\ log'[s].signer \in {None, log'[s].id}
                      /\ log'[s].signer # None => call'[log'[s].id].pc = "done"
    BY DEF SignedByOwner
  <2>1. log[s].id \in DOMAIN call BY <1>1 DEF RowsHaveCalls
  <2>2. CASE log'[s].signer = log[s].signer
    BY <2>1, <2>2, <1>1 DEF SignedByOwner
  <2>3. CASE log'[s].signer # log[s].signer
    <3>0. s = call[w].seq /\ log'[s].signer = w BY <2>3, <1>1
    <3>1. Held(w)
      <4>1. w \in DOMAIN call /\ call[w].pc = "sign" BY <1>1
      <4>2. call[w] \in CallState /\ day \in Nat BY <4>1 DEF TypeOK
      <4>3. call[w].expires \in Nat \cup {None} BY <4>2 DEF CallState
      <4>4. call[w].expires = None \/ day <= call[w].expires
        BY <4>1, <4>2, <4>3 DEF RowsHaveCalls
      <4> QED BY <4>1, <4>4 DEF RowsHaveCalls
    <3>2. log[s].id = w BY <3>0, <3>1 DEF Held
    <3> QED BY <3>0, <3>2, <1>1
  <2> QED BY <1>1, <2>2, <2>3
<1>9. ~ Cluster => ChainVerifies'
  <2> SUFFICES ASSUME ~ Cluster, NEW s \in DOMAIN log'
               PROVE  /\ s = 1 => log'[s].prev = Genesis
                      /\ s - 1 \in DOMAIN log' =>
                           log'[s].prev = [id |-> log'[s - 1].id, linkage |-> ~ Cluster]
    BY DEF ChainVerifies, RowHash
  <2>1. /\ s = 1 => log[s].prev = Genesis
        /\ s - 1 \in DOMAIN log => log[s].prev = [id |-> log[s - 1].id, linkage |-> ~ Cluster]
    BY <1>1 DEF ChainVerifies, RowHash
  <2> QED BY <2>1, <1>1
<1>10. RowsNumbered' /\ PublishedAreStored' BY <1>1, TicksUntouched
<1>11. AllHeld' => PrefixesGrow'
  <2> SUFFICES ASSUME AllHeld PROVE PrefixesGrow' BY <1>3
  <2>1. \A m \in 0..LastSeq : First(log', m) = First(log, m)
    <3> TAKE m \in 0..LastSeq
    <3>1. LastSeq \in Nat /\ DOMAIN log = 1..LastSeq BY LastSeqFacts
    <3>2. \A k \in 1..m : log'[k].id = log[k].id BY <1>1, <3>1
    <3> QED BY <3>2 DEF First
  <2>2. LastSeq \in Nat BY LastSeqFacts
  <2> QED BY <2>1, <2>2, <1>1, <1>4, PrefixesKept
<1> QED BY <1>5, <1>6, <1>7, <1>8, <1>9, <1>10, <1>11

\* Retention takes away rows that are over only; if it took none, everything
\* that was held is held.
LEMMA SweepStep ==
  ASSUME IInv, Sweep
  PROVE  IInv'
<1> USE DEF IInv
<1>1. /\ ~ Cluster
      /\ DOMAIN log' = {t \in DOMAIN log : log[t].expires = None \/ day <= log[t].expires}
      /\ \A s \in DOMAIN log' : s \in DOMAIN log /\ log'[s] = log[s]
      /\ UNCHANGED <<day, head, checkpoints, published, leader, call, tick>>
  BY DEF Sweep
<1>2. \A v \in DOMAIN call : Held(v)' => Held(v) BY <1>1 DEF Held
<1>3. AllHeld' => AllHeld /\ DOMAIN log' = DOMAIN log /\ LastSeq' = LastSeq
  <2> SUFFICES ASSUME AllHeld' PROVE AllHeld /\ DOMAIN log' = DOMAIN log /\ LastSeq' = LastSeq
    OBVIOUS
  <2>1. AllHeld BY <1>1, <1>2 DEF AllHeld
  <2>2. ASSUME NEW s \in DOMAIN log PROVE s \in DOMAIN log'
    <3>1. log[s].id \in DOMAIN call /\ call[log[s].id].seq = s BY DEF RowsHaveCalls
    <3>2. PICK w \in DOMAIN call : w = log[s].id BY <3>1
    <3>3. Held(w)' BY <1>1 DEF AllHeld
    <3> QED BY <3>1, <3>2, <3>3, <1>1 DEF Held
  <2>3. DOMAIN log' = DOMAIN log BY <1>1, <2>2
  <2> QED BY <2>1, <2>3 DEF LastSeq
<1>4. TypeOK'
  <2>1. log' \in [DOMAIN log' -> LogEntry]
    <3>1. log' = [s \in DOMAIN log' |-> log'[s]] BY DEF Sweep
    <3>2. \A s \in DOMAIN log' : log'[s] \in LogEntry BY <1>1 DEF TypeOK
    <3> QED BY <3>1, <3>2
  <2> QED BY <2>1, <1>1 DEF TypeOK
<1>5. RowsHaveCalls'
  <2>1. \A s \in DOMAIN log' :
          /\ log'[s].id \in DOMAIN call' /\ call'[log'[s].id].seq = s
          /\ call'[log'[s].id].expires = log'[s].expires
    BY <1>1 DEF RowsHaveCalls
  <2>2. ASSUME NEW v \in DOMAIN call, call[v].expires = None \/ day <= call[v].expires
        PROVE  Held(v)'
    <3>1. Held(v) BY <2>2 DEF RowsHaveCalls
    <3>2. call[v].seq \in DOMAIN log /\ log[call[v].seq].id = v
          /\ log[call[v].seq].expires = call[v].expires
      BY <3>1 DEF Held, RowsHaveCalls
    <3>3. call[v].seq \in DOMAIN log' BY <2>2, <3>2, <1>1
    <3> QED BY <3>2, <3>3, <1>1 DEF Held
  <2> QED BY <2>1, <2>2, <1>1 DEF RowsHaveCalls
<1>6. NumbersSound'
  <2>1. \E b \in Nat : \A s \in DOMAIN log' : s <= b BY <1>1 DEF NumbersSound
  <2>2. AllHeld' => DOMAIN log' = 1..Cardinality(DOMAIN call')
    BY <1>1, <1>3 DEF NumbersSound
  <2> QED BY <2>1, <2>2, <1>1 DEF NumbersSound
<1>7. SignedByOwner' BY <1>1 DEF SignedByOwner
<1>8. ChainVerifies'
  <2>1. ChainVerifies BY <1>1
  <2>2. ASSUME NEW s \in DOMAIN log'
        PROVE  /\ s = 1 => log'[s].prev = Genesis
               /\ s - 1 \in DOMAIN log' =>
                    log'[s].prev = [id |-> log'[s - 1].id, linkage |-> ~ Cluster]
    BY <2>1, <1>1 DEF ChainVerifies, RowHash
  <2> QED BY <2>2 DEF ChainVerifies, RowHash
<1>9. RowsNumbered' /\ PublishedAreStored' BY <1>1, TicksUntouched
<1>10. AllHeld' => PrefixesGrow'
  <2> SUFFICES ASSUME AllHeld' PROVE PrefixesGrow' OBVIOUS
  <2>1. AllHeld /\ DOMAIN log' = DOMAIN log /\ LastSeq' = LastSeq BY <1>3
  <2>2. LastSeq \in Nat /\ DOMAIN log = 1..LastSeq BY <2>1, LastSeqFacts
  <2>3. \A m \in 0..LastSeq : First(log', m) = First(log, m)
    BY <2>1, <2>2, <1>1 DEF First
  <2> QED BY <2>1, <2>2, <2>3, <1>1, PrefixesKept
<1> QED BY <1>4, <1>5, <1>6, <1>7, <1>8, <1>9, <1>10

\* A day passes only when every append is signed or given up, so no signature
\* comes after the retention of its entry.
LEMMA NewDayStep ==
  ASSUME IInv, NewDay
  PROVE  IInv'
<1> USE DEF IInv
<1>1. /\ day' = day + 1 /\ \A w \in DOMAIN call : call[w].pc # "sign"
      /\ UNCHANGED <<log, head, checkpoints, published, leader, call, tick>>
  BY DEF NewDay
<1>2. \A w : Held(w)' = Held(w) BY <1>1 DEF Held
<1>3. AllHeld' = AllHeld BY <1>1, <1>2 DEF AllHeld
<1>4. TypeOK' BY <1>1 DEF TypeOK
<1>5. RowsHaveCalls'
  <2>1. ASSUME NEW w \in DOMAIN call, call[w].expires = None \/ day' <= call[w].expires
        PROVE  Held(w)'
    <3>1. call[w] \in CallState /\ day \in Nat BY DEF TypeOK
    <3>2. call[w].expires \in Nat \cup {None} BY <3>1 DEF CallState
    <3>3. call[w].expires = None \/ day <= call[w].expires BY <2>1, <3>1, <3>2, <1>1
    <3> QED BY <3>3, <1>2 DEF RowsHaveCalls
  <2> QED BY <2>1, <1>1 DEF RowsHaveCalls
<1>6. NumbersSound' BY <1>1, <1>3 DEF NumbersSound
<1>7. SignedByOwner' BY <1>1 DEF SignedByOwner
<1>8. ~ Cluster => ChainVerifies' BY <1>1 DEF ChainVerifies, RowHash
<1>9. RowsNumbered' /\ PublishedAreStored' BY <1>1, TicksUntouched
<1>10. AllHeld' => PrefixesGrow'
  <2>1. LastSeq' = LastSeq /\ LastSeq \in Nat BY <1>1, LastSeqFacts DEF LastSeq
  <2> QED BY <2>1, <1>1, <1>3, PrefixesKept
<1> QED BY <1>4, <1>5, <1>6, <1>7, <1>8, <1>9, <1>10

\* A lease that lapses, and a step that changes nothing, keep the invariant.
LEMMA QuietStep ==
  ASSUME IInv, LeaseLapses \/ UNCHANGED vars
  PROVE  IInv'
<1> USE DEF IInv
<1>1. /\ leader' \in {leader, None}
      /\ UNCHANGED <<day, log, head, checkpoints, published, call, tick>>
  BY DEF LeaseLapses, vars
<1>2. /\ RowsHaveCalls' /\ NumbersSound' /\ SignedByOwner'
      /\ ~ Cluster => ChainVerifies'
      /\ AllHeld' = AllHeld
      /\ LastSeq' = LastSeq
  BY <1>1, LogUntouched
<1>3. RowsNumbered' /\ PublishedAreStored' BY <1>1, TicksUntouched
<1>4. TypeOK' BY <1>1 DEF TypeOK
<1>5. AllHeld' => PrefixesGrow'
  <2>1. LastSeq \in Nat BY LastSeqFacts
  <2> QED BY <2>1, <1>1, <1>2, PrefixesKept
<1> QED BY <1>2, <1>3, <1>4, <1>5

\* What a tick must know of itself after a step that stores nothing.
LEMMA TickMoves ==
  ASSUME IInv, NEW r \in Replicas, NEW t \in TickState,
         tick' = [tick EXCEPT ![r] = t],
         UNCHANGED <<day, log, head, call, checkpoints>>,
         t.last # None => \E k \in 1..Len(checkpoints) : t.last = checkpoints[k],
         t.pc # "publish",
         AllHeld => /\ t.max <= LastSeq
                    /\ t.pc \in {"entries", "store"} => Covered(t.last) < t.max
                    /\ t.pc = "store" => t.leaves = First(log, t.max)
  PROVE  RowsNumbered' /\ (AllHeld => PrefixesGrow')
<1> USE DEF IInv
<1>1. tick'[r] = t /\ \A q \in Replicas : q # r => tick'[q] = tick[q]
  BY DEF TypeOK
<1>2. RowsNumbered'
  <2>1. ASSUME NEW q \in Replicas
        PROVE  /\ tick'[q].last # None =>
                    \E k \in 1..Len(checkpoints) : tick'[q].last = checkpoints[k]
               /\ tick'[q].pc = "publish" =>
                    \E k \in 1..Len(checkpoints) : NewCheckpoint(q)' = checkpoints[k]
    <3>1. CASE q = r BY <3>1, <1>1
    <3>2. CASE q # r BY <3>2, <1>1 DEF RowsNumbered, NewCheckpoint
    <3> QED BY <3>1, <3>2
  <2>2. \A k \in 1..Len(checkpoints) : checkpoints[k].number = k BY DEF RowsNumbered
  <2> QED BY <2>1, <2>2 DEF RowsNumbered
<1>3. AllHeld => PrefixesGrow'
  <2> SUFFICES ASSUME AllHeld PROVE PrefixesGrow' OBVIOUS
  <2>1. PrefixesGrow OBVIOUS
  <2>2. LastSeq' = LastSeq BY DEF LastSeq
  <2>3. ASSUME NEW q \in Replicas
        PROVE  /\ tick'[q].max <= LastSeq
               /\ tick'[q].pc \in {"entries", "store"} => Covered(tick'[q].last) < tick'[q].max
               /\ tick'[q].pc = "store" => tick'[q].leaves = First(log, tick'[q].max)
    <3>1. CASE q = r BY <3>1, <1>1
    <3>2. CASE q # r BY <3>2, <1>1, <2>1 DEF PrefixesGrow
    <3> QED BY <3>1, <3>2
  <2> QED BY <2>1, <2>2, <2>3 DEF PrefixesGrow
<1> QED BY <1>2, <1>3

\* The store: the number after the last checkpoint a tick read is free only
\* if that checkpoint is still the last.
LEMMA StoreMoves ==
  ASSUME IInv, NEW r \in Replicas, StoreCheckpoint(r), ~ Stored(NewCheckpoint(r).number)
  PROVE  RowsNumbered' /\ (AllHeld => PrefixesGrow')
<1> USE DEF IInv
<1>1. PICK c : c = NewCheckpoint(r) OBVIOUS
<1>2. PICK n : n = Len(checkpoints) OBVIOUS
<1>3. /\ tick[r].pc = "store"
      /\ checkpoints' = Append(checkpoints, c)
      /\ Goto(r, "publish")
      /\ UNCHANGED <<day, log, head, call>>
  BY <1>1 DEF StoreCheckpoint
<1>4. /\ n \in Nat /\ Len(checkpoints') = n + 1
      /\ checkpoints'[n + 1] = c
      /\ \A k \in 1..n : checkpoints'[k] = checkpoints[k]
  <2>1. checkpoints \in Seq(Checkpoint) /\ c \in Checkpoint
    BY <1>1, NewCheckpointType DEF TypeOK
  <2> QED BY <2>1, <1>2, <1>3, AppendProperties
<1>5. /\ tick'[r].pc = "publish" /\ tick'[r].max = tick[r].max
      /\ tick'[r].last = tick[r].last /\ tick'[r].leaves = tick[r].leaves
      /\ \A q \in Replicas : q # r => tick'[q] = tick[q]
  BY <1>3 DEF Goto, TypeOK, TickState
<1>6. /\ \A k \in 1..n : checkpoints[k].number = k
      /\ \A k \in 1..n : checkpoints[k].number # c.number
  BY <1>1, <1>2 DEF RowsNumbered, Stored
<1>7. /\ c.number = n + 1
      /\ tick[r].last = None => n = 0
      /\ tick[r].last # None => n \in 1..n /\ tick[r].last = checkpoints[n]
  <2>1. CASE tick[r].last = None
    <3>1. c.number = 1 BY <2>1, <1>1 DEF NewCheckpoint
    <3>2. 1 \notin 1..n BY <3>1, <1>6
    <3> QED BY <3>1, <3>2, <1>4, <2>1
  <2>2. CASE tick[r].last # None
    <3>1. PICK k \in 1..n : tick[r].last = checkpoints[k]
      BY <2>2, <1>2 DEF RowsNumbered
    <3>2. c.number = k + 1 BY <2>2, <3>1, <1>1, <1>6 DEF NewCheckpoint
    <3>3. k + 1 \notin 1..n BY <3>2, <1>6
    <3>4. k = n BY <3>1, <3>3, <1>4
    <3> QED BY <3>1, <3>2, <3>4, <2>2
  <2> QED BY <2>1, <2>2
<1>8. RowsNumbered'
  <2>1. \A k \in 1..(n + 1) : checkpoints'[k].number = k
    <3> TAKE k \in 1..(n + 1)
    <3>1. CASE k = n + 1 BY <3>1, <1>4, <1>7
    <3>2. CASE k \in 1..n BY <3>2, <1>4, <1>6
    <3> QED BY <3>1, <3>2, <1>4
  <2>2. ASSUME NEW q \in Replicas, tick'[q].last # None
        PROVE  \E k \in 1..(n + 1) : tick'[q].last = checkpoints'[k]
    <3>1. tick'[q].last = tick[q].last BY <1>5
    <3>2. PICK k \in 1..n : tick[q].last = checkpoints[k]
      BY <3>1, <2>2, <1>2 DEF RowsNumbered
    <3>3. k \in 1..(n + 1) BY <1>4
    <3> QED BY <3>1, <3>2, <3>3, <1>4
  <2>3. ASSUME NEW q \in Replicas, tick'[q].pc = "publish"
        PROVE  \E k \in 1..(n + 1) : NewCheckpoint(q)' = checkpoints'[k]
    <3>1. NewCheckpoint(q)' = NewCheckpoint(q) BY <1>5 DEF NewCheckpoint
    <3>2. CASE q = r
      <4>1. n + 1 \in 1..(n + 1) BY <1>4
      <4> QED BY <4>1, <3>1, <3>2, <1>1, <1>4
    <3>3. CASE q # r
      <4>1. PICK k \in 1..n : NewCheckpoint(q) = checkpoints[k]
        BY <3>3, <2>3, <1>2, <1>5 DEF RowsNumbered
      <4>2. k \in 1..(n + 1) BY <1>4
      <4> QED BY <4>1, <4>2, <3>1, <1>4
    <3> QED BY <3>2, <3>3
  <2> QED BY <2>1, <2>2, <2>3, <1>4 DEF RowsNumbered
<1>9. AllHeld => PrefixesGrow'
  <2> SUFFICES ASSUME AllHeld PROVE PrefixesGrow' OBVIOUS
  <2>1. PrefixesGrow OBVIOUS
  <2>2. LastSeq' = LastSeq BY <1>3 DEF LastSeq
  <2>3. PICK m : m = tick[r].max OBVIOUS
  <2>4. /\ m \in Nat /\ m <= LastSeq
        /\ c.leaves = First(log, m) /\ Len(c.leaves) = m
        /\ Covered(tick[r].last) < m
    <3>1. m \in Nat BY <2>3 DEF TypeOK, TickState
    <3>2. c.leaves = tick[r].leaves BY <1>1 DEF NewCheckpoint
    <3>3. m <= LastSeq /\ tick[r].leaves = First(log, m) /\ Covered(tick[r].last) < m
      BY <2>1, <2>3, <1>3 DEF PrefixesGrow
    <3>4. Len(First(log, m)) = m BY <3>1 DEF First
    <3> QED BY <3>1, <3>2, <3>3, <3>4
  <2>5. \A k \in 1..n : Len(checkpoints[k].leaves) < m
    <3> TAKE k \in 1..n
    <3>1. n \in 1..n /\ tick[r].last = checkpoints[n] /\ tick[r].last # None BY <1>7, <1>4
    <3>2. Len(checkpoints[n].leaves) < m BY <3>1, <2>4 DEF Covered
    <3>3. CASE k = n BY <3>2, <3>3
    <3>4. CASE k # n
      <4>1. k < n BY <3>4, <1>4
      <4>2. Len(checkpoints[k].leaves) < Len(checkpoints[n].leaves)
        BY <4>1, <3>1, <2>1, <1>2 DEF PrefixesGrow
      <4>3. Len(checkpoints[k].leaves) \in Nat /\ Len(checkpoints[n].leaves) \in Nat
        BY <3>1, <1>2, CheckpointType
      <4> QED BY <4>2, <4>3, <3>2, <2>4
    <3> QED BY <3>3, <3>4
  <2>6. \A k \in 1..(n + 1) :
          LET leaves == checkpoints'[k].leaves
          IN Len(leaves) <= LastSeq /\ leaves = First(log, Len(leaves))
    <3> TAKE k \in 1..(n + 1)
    <3>1. CASE k = n + 1 BY <3>1, <1>4, <2>4
    <3>2. CASE k \in 1..n BY <3>2, <1>2, <1>4, <2>1 DEF PrefixesGrow
    <3> QED BY <3>1, <3>2, <1>4
  <2>7. \A j, k \in 1..(n + 1) :
          j < k => Len(checkpoints'[j].leaves) < Len(checkpoints'[k].leaves)
    <3> TAKE j, k \in 1..(n + 1)
    <3> HAVE j < k
    <3>0. j \in 1..n BY <1>4
    <3>1. CASE k = n + 1 BY <3>0, <3>1, <1>4, <2>4, <2>5
    <3>2. CASE k \in 1..n BY <3>0, <3>2, <1>2, <1>4, <2>1 DEF PrefixesGrow
    <3> QED BY <3>1, <3>2, <1>4
  <2>8. ASSUME NEW q \in Replicas
        PROVE  /\ tick'[q].max <= LastSeq
               /\ tick'[q].pc \in {"entries", "store"} => Covered(tick'[q].last) < tick'[q].max
               /\ tick'[q].pc = "store" => tick'[q].leaves = First(log, tick'[q].max)
    <3>1. CASE q = r BY <3>1, <1>5, <2>3, <2>4
    <3>2. CASE q # r BY <3>2, <1>5, <2>1 DEF PrefixesGrow
    <3> QED BY <3>1, <3>2
  <2> QED BY <2>2, <2>6, <2>7, <2>8, <1>3, <1>4 DEF PrefixesGrow
<1> QED BY <1>8, <1>9

\* A tick keeps the invariant at each of its awaits.
LEMMA TickInvariantStep ==
  ASSUME IInv, NEW r \in Replicas, TickStep(r)
  PROVE  IInv'
<1> USE DEF IInv
<1>1. UNCHANGED <<day, log, head, call>> BY TickFacts
<1>2. /\ RowsHaveCalls' /\ NumbersSound' /\ SignedByOwner'
      /\ ~ Cluster => ChainVerifies'
      /\ AllHeld' = AllHeld
      /\ LastSeq' = LastSeq
  BY <1>1, LogUntouched
<1>3. TypeOK' BY <1>1, TickTypeStep DEF TypeOK
<1>4. /\ tick[r] \in TickState
      /\ tick[r].last # None => \E k \in 1..Len(checkpoints) : tick[r].last = checkpoints[k]
      /\ LastSeq \in Nat
  BY LastSeqFacts DEF TypeOK, RowsNumbered
<1>5. AllHeld => /\ tick[r].max <= LastSeq
                 /\ tick[r].pc \in {"entries", "store"} => Covered(tick[r].last) < tick[r].max
  BY DEF PrefixesGrow
<1> SUFFICES RowsNumbered' /\ PublishedAreStored' /\ (AllHeld => PrefixesGrow')
  BY <1>2, <1>3
<1> DEFINE Moves(t) ==
      /\ t \in TickState
      /\ tick' = [tick EXCEPT ![r] = t]
      /\ UNCHANGED <<checkpoints, published>>
      /\ t.last # None => \E k \in 1..Len(checkpoints) : t.last = checkpoints[k]
      /\ t.pc # "publish"
      /\ AllHeld => /\ t.max <= LastSeq
                    /\ t.pc \in {"entries", "store"} => Covered(t.last) < t.max
                    /\ t.pc = "store" => t.leaves = First(log, t.max)
<1>6. ASSUME NEW t, Moves(t)
      PROVE  RowsNumbered' /\ PublishedAreStored' /\ (AllHeld => PrefixesGrow')
  <2>1. RowsNumbered' /\ (AllHeld => PrefixesGrow') BY <1>6, <1>1, TickMoves
  <2>2. PublishedAreStored' BY <1>6 DEF PublishedAreStored
  <2> QED BY <2>1, <2>2
<1>7. ASSUME NEW pc \in {"max", "release"}, Goto(r, pc), UNCHANGED <<checkpoints, published>>
      PROVE  RowsNumbered' /\ PublishedAreStored' /\ (AllHeld => PrefixesGrow')
  <2>1. PICK t : t = [tick[r] EXCEPT !.pc = pc] OBVIOUS
  <2>2. t \in TickState /\ t.pc = pc /\ t.last = tick[r].last /\ t.max = tick[r].max
    BY <2>1, <1>4 DEF TickState
  <2>3. tick' = [tick EXCEPT ![r] = t] BY <1>7, <2>1 DEF Goto, TypeOK
  <2>4. Moves(t) BY <2>2, <2>3, <1>4, <1>5, <1>7
  <2> HIDE DEF Moves
  <2> QED BY <2>4, <1>6
<1>8. CASE AcquireLease(r) BY <1>8, <1>7 DEF AcquireLease
<1>9. CASE TickFails(r) BY <1>9, <1>7 DEF TickFails
<1>10. CASE ReadMaxSequence(r)
  <2>1. PICK m : m = LastSeq OBVIOUS
  <2>2. PICK pc \in {"release", "last"} : pc = IF m = 0 THEN "release" ELSE "last" OBVIOUS
  <2>3. PICK t : t = [tick[r] EXCEPT !.pc = pc, !.max = m] OBVIOUS
  <2>4. t \in TickState /\ t.pc = pc /\ t.last = tick[r].last /\ t.max = m
    BY <2>1, <2>3, <1>4 DEF TickState
  <2>5. tick' = [tick EXCEPT ![r] = t] /\ UNCHANGED <<checkpoints, published>>
    BY <1>10, <2>1, <2>2, <2>3 DEF ReadMaxSequence, TypeOK
  <2>6. Moves(t) BY <2>1, <2>4, <2>5, <1>4
  <2> HIDE DEF Moves
  <2> QED BY <2>6, <1>6
<1>11. CASE ReadLastCheckpoint(r)
  <2>1. PICK c : c = LastCheckpoint OBVIOUS
  <2>2. /\ c \in Checkpoint \cup {None}
        /\ c # None => \E k \in 1..Len(checkpoints) : c = checkpoints[k]
    BY <2>1, LastCheckpointType
  <2>3. PICK pc \in {"release", "entries"} :
          pc = IF tick[r].max <= Covered(c) THEN "release" ELSE "entries"
    OBVIOUS
  <2>4. PICK t : t = [tick[r] EXCEPT !.last = c, !.pc = pc] OBVIOUS
  <2>5. t \in TickState /\ t.pc = pc /\ t.last = c /\ t.max = tick[r].max
    BY <2>2, <2>4, <1>4 DEF TickState
  <2>6. tick' = [tick EXCEPT ![r] = t] /\ UNCHANGED <<checkpoints, published>>
    BY <1>11, <2>1, <2>3, <2>4 DEF ReadLastCheckpoint, TypeOK, Covered
  <2>7. pc = "entries" => Covered(c) < tick[r].max
    <3>1. Covered(c) \in Nat
      <4>1. \A x \in Checkpoint : x.leaves \in Seq(Writers) BY DEF Checkpoint
      <4>2. \A s \in Seq(Writers) : Len(s) \in Nat OBVIOUS
      <4> QED BY <4>1, <4>2, <2>2 DEF Covered
    <3>2. tick[r].max \in Nat BY <1>4 DEF TickState
    <3> QED BY <3>1, <3>2, <2>3
  <2>8. Moves(t) BY <2>2, <2>3, <2>5, <2>6, <2>7, <1>5
  <2> HIDE DEF Moves
  <2> QED BY <2>8, <1>6
<1>12. CASE ReadEntries(r)
  <2>1. PICK leaves : leaves = LeavesTo(tick[r].max) OBVIOUS
  <2>2. PICK t : t = [tick[r] EXCEPT !.pc = "store", !.leaves = leaves] OBVIOUS
  <2>3. tick' = [tick EXCEPT ![r] = t] /\ UNCHANGED <<checkpoints, published>>
        /\ tick[r].pc = "entries"
    BY <1>12, <2>1, <2>2 DEF ReadEntries, TypeOK
  <2>4. leaves \in Seq(Writers)
    <3>1. PICK b \in Nat : \A s \in DOMAIN log : s <= b BY DEF NumbersSound
    <3>2. tick[r].max \in Nat BY <1>4 DEF TickState
    <3> QED BY <2>1, <3>1, <3>2, LeavesOfType, ReadingLog DEF TypeOK
  <2>5. /\ t \in TickState /\ t.pc = "store" /\ t.last = tick[r].last
        /\ t.max = tick[r].max /\ t.leaves = leaves
    BY <2>2, <2>4, <1>4 DEF TickState
  <2>6. AllHeld => leaves = First(log, tick[r].max)
    <3> SUFFICES ASSUME AllHeld PROVE leaves = First(log, tick[r].max) OBVIOUS
    <3>1. DOMAIN log = 1..LastSeq BY LastSeqFacts
    <3>2. tick[r].max \in 0..LastSeq BY <1>4, <1>5 DEF TickState
    <3> QED BY <2>1, <3>1, <3>2, <1>4, LeavesOfInterval, ReadingLog
  <2>7. Moves(t) BY <2>3, <2>5, <2>6, <1>4, <1>5
  <2> HIDE DEF Moves
  <2> QED BY <2>7, <1>6
<1>13. CASE StoreCheckpoint(r)
  <2>1. CASE Stored(NewCheckpoint(r).number)
    BY <1>13, <2>1, <1>7 DEF StoreCheckpoint
  <2>2. CASE ~ Stored(NewCheckpoint(r).number)
    <3>1. RowsNumbered' /\ (AllHeld => PrefixesGrow') BY <1>13, <2>2, StoreMoves
    <3>2. PublishedAreStored'
      <4>1. checkpoints' = Append(checkpoints, NewCheckpoint(r)) /\ published' = published
        BY <1>13, <2>2 DEF StoreCheckpoint
      <4>2. checkpoints \in Seq(Checkpoint) /\ NewCheckpoint(r) \in Checkpoint
        BY NewCheckpointType DEF TypeOK
      <4>3. /\ Len(checkpoints) \in Nat /\ Len(checkpoints') = Len(checkpoints) + 1
            /\ \A k \in 1..Len(checkpoints) : checkpoints'[k] = checkpoints[k]
        BY <4>1, <4>2, AppendProperties
      <4>4. ASSUME NEW c \in published PROVE \E k \in 1..Len(checkpoints') : checkpoints'[k] = c
        <5>1. PICK k \in 1..Len(checkpoints) : checkpoints[k] = c BY DEF PublishedAreStored
        <5>2. k \in 1..Len(checkpoints') BY <4>3
        <5> QED BY <5>1, <5>2, <4>3
      <4> QED BY <4>1, <4>4 DEF PublishedAreStored
    <3> QED BY <3>1, <3>2
  <2> QED BY <2>1, <2>2
<1>14. CASE PublishCheckpoint(r)
  <2>1. PICK t : t = [tick[r] EXCEPT !.pc = "release"] OBVIOUS
  <2>2. t \in TickState /\ t.pc = "release" /\ t.last = tick[r].last /\ t.max = tick[r].max
    BY <2>1, <1>4 DEF TickState
  <2>3. /\ tick' = [tick EXCEPT ![r] = t] /\ UNCHANGED checkpoints
        /\ tick[r].pc = "publish" /\ published' = published \cup {NewCheckpoint(r)}
    BY <1>14, <2>1 DEF PublishCheckpoint, Goto, TypeOK
  <2>4. RowsNumbered' /\ (AllHeld => PrefixesGrow')
    BY <2>2, <2>3, <1>1, <1>4, <1>5, TickMoves
  <2>5. PublishedAreStored' BY <2>3 DEF PublishedAreStored, RowsNumbered
  <2> QED BY <2>4, <2>5
<1>15. CASE ReleaseLease(r)
  <2>1. Idle \in TickState /\ Idle.pc = "idle" /\ Idle.last = None /\ Idle.max = 0
    BY EmptySeq DEF Idle, TickState
  <2>2. tick' = [tick EXCEPT ![r] = Idle] /\ UNCHANGED <<checkpoints, published>>
    BY <1>15 DEF ReleaseLease
  <2>3. Moves(Idle) BY <2>1, <2>2, <1>4
  <2> HIDE DEF Moves
  <2> QED BY <2>3, <1>6
<1> QED BY <1>8, <1>9, <1>10, <1>11, <1>12, <1>13, <1>14, <1>15 DEF TickStep

\* Every step keeps the invariant.
LEMMA NextInvariant == IInv /\ [Next]_vars => IInv'
<1> SUFFICES ASSUME IInv, [Next]_vars PROVE IInv' OBVIOUS
<1>1. CASE \E w \in Writers : AppendEntry(w) \/ SignEntry(w) \/ SignFails(w)
  BY <1>1, AppendStep, SignStep
<1>2. CASE \E r \in Replicas : TickStep(r)
  BY <1>2, TickInvariantStep
<1>3. CASE NewDay BY <1>3, NewDayStep
<1>4. CASE Sweep BY <1>4, SweepStep
<1>5. CASE LeaseLapses \/ UNCHANGED vars BY <1>5, QuietStep
<1> QED BY <1>1, <1>2, <1>3, <1>4, <1>5 DEF Next

-----------------------------------------------------------------------------
(* The theorems                                                            *)

\* The invariant holds in every behaviour.
LEMMA Invariant == Spec => []IInv
<1> QED BY InitInvariant, NextInvariant, PTL DEF Spec

\* The type invariant, for every number of writers and replicas, every set of
\* retentions and both kinds of storage.
THEOREM TypeCorrect == Spec => []TypeOK
<1>1. IInv => TypeOK BY DEF IInv
<1> QED BY <1>1, Invariant, PTL

\* No entry is lost, overwritten or renumbered before its retention is over,
\* and without expiry the numbers have no gap (append_audit_entry,
\* RetentionEnforcer.sweep).
THEOREM EntriesAreKept == Spec => []EntriesKept
<1>1. IInv => EntriesKept
  <2> SUFFICES ASSUME IInv PROVE EntriesKept OBVIOUS
  <2>1. RowsHaveCalls /\ NumbersSound BY DEF IInv
  <2> QED BY <2>1 DEF EntriesKept, RowsHaveCalls, NumbersSound, AllHeld
<1> QED BY <1>1, Invariant, PTL

\* A signature that comes after other appends, or after the retention swept
\* some of them, still lands on its own entry (log_entry).
THEOREM SignaturesLand == Spec => []SignedByOwner
<1>1. IInv => SignedByOwner BY DEF IInv
<1> QED BY <1>1, Invariant, PTL

\* In memory and in SQLite the chain of the entries held can be verified from
\* the table at any time (append_audit_entry, compute_entry_hash).
THEOREM ChainIsVerifiable ==
  ASSUME ~ Cluster
  PROVE  Spec => []ChainVerifies
<1>1. IInv => ChainVerifies BY DEF IInv
<1> QED BY <1>1, Invariant, PTL

\* No sink receives a checkpoint that was not stored, whichever replica's
\* lease lapsed when (_leader_checkpoint_tick).
THEOREM PublishedAreHeld == Spec => []PublishedAreStored
<1>1. IInv => PublishedAreStored BY DEF IInv
<1> QED BY <1>1, Invariant, PTL

\* Without expiry the leaves up to a number are the entries up to it.
LEMMA LeavesWithoutGaps ==
  ASSUME IInv, AllHeld, NEW n \in 0..LastSeq
  PROVE  LeavesTo(n) = First(log, n)
<1>1. LastSeq \in Nat /\ DOMAIN log = 1..LastSeq BY LastSeqFacts DEF IInv
<1> QED BY <1>1, LeavesOfInterval, ReadingLog

\* A shorter prefix of the log is a prefix of a longer one.
LEMMA FirstOfFirst ==
  ASSUME NEW f, NEW b \in Nat, NEW a \in 0..b
  PROVE  SubSeq(First(f, b), 1, a) = First(f, a)
BY DEF First

\* Checkpoints are numbered in the order of their rows and, while nothing
\* expired, each is a proper prefix of the next and of the log
\* (reconstruct_and_create_checkpoint, store_checkpoint).
THEOREM CheckpointsAreChained == Spec => []CheckpointsGrow
<1>1. IInv => CheckpointsGrow
  <2> SUFFICES ASSUME IInv PROVE CheckpointsGrow OBVIOUS
  <2>1. PICK n : n = Len(checkpoints) OBVIOUS
  <2>2. n \in Nat /\ \A k \in 1..n : Len(checkpoints[k].leaves) \in Nat
    BY <2>1, CheckpointType DEF IInv
  <2>3. \A k \in 1..n : checkpoints[k].number = k BY <2>1 DEF IInv, RowsNumbered
  <2> DEFINE leaves(k) == IF k > n THEN LeavesTo(LastSeq) ELSE checkpoints[k].leaves
  <2>4. ASSUME AllHeld, NEW j \in 1..(n + 1), NEW k \in 1..(n + 1), j < k
        PROVE  /\ SubSeq(leaves(k), 1, Len(leaves(j))) = leaves(j)
               /\ k <= n => Len(leaves(j)) < Len(leaves(k))
    <3>1. PrefixesGrow /\ LastSeq \in Nat BY <2>4, LastSeqFacts DEF IInv
    <3>2. j \in 1..n /\ leaves(j) = checkpoints[j].leaves BY <2>2, <2>4
    <3>3. PICK a : a = Len(leaves(j)) OBVIOUS
    <3>4. a \in Nat /\ a <= LastSeq /\ leaves(j) = First(log, a)
      BY <3>1, <3>2, <3>3, <2>1, <2>2 DEF PrefixesGrow
    <3>5. \E b \in Nat : a <= b /\ leaves(k) = First(log, b)
      <4>1. CASE k \in 1..n
        <5>1. leaves(k) = checkpoints[k].leaves BY <4>1, <2>2
        <5>2. PICK b : b = Len(leaves(k)) OBVIOUS
        <5>3. b \in Nat /\ leaves(k) = First(log, b) /\ a < b
          BY <5>1, <5>2, <4>1, <3>1, <3>2, <3>3, <2>1, <2>2, <2>4 DEF PrefixesGrow
        <5>4. a <= b BY <5>3, <3>4
        <5> QED BY <5>3, <5>4
      <4>2. CASE k = n + 1
        <5>1. leaves(k) = LeavesTo(LastSeq) BY <4>2, <2>2
        <5>2. LastSeq \in 0..LastSeq BY <3>1
        <5>3. leaves(k) = First(log, LastSeq) BY <5>1, <5>2, <2>4, LeavesWithoutGaps
        <5> QED BY <5>3, <3>1, <3>4
      <4> QED BY <4>1, <4>2, <2>2
    <3>6. SubSeq(leaves(k), 1, a) = leaves(j)
      <4> HIDE DEF leaves
      <4>1. PICK b \in Nat : a <= b /\ leaves(k) = First(log, b) BY <3>5
      <4>2. a \in 0..b BY <4>1, <3>4
      <4> QED BY <4>1, <4>2, <3>4, FirstOfFirst
    <3>7. k <= n => Len(leaves(j)) < Len(leaves(k))
      BY <3>1, <3>2, <2>1, <2>2, <2>4 DEF PrefixesGrow
    <3> QED BY <3>3, <3>6, <3>7
  <2> QED BY <2>1, <2>3, <2>4 DEF CheckpointsGrow, AllHeld
<1> QED BY <1>1, Invariant, PTL

\* Where nothing may expire, every entry is held.
LEMMA NothingExpires ==
  ASSUME IInv, Cluster \/ Retentions \subseteq {None}
  PROVE  AllHeld
BY DEF IInv, NumbersSound, RowsHaveCalls, AllHeld

\* Where nothing may expire, the tree rebuilt for a proof under a checkpoint has
\* the checkpoint's root (get_checkpoint, _rebuild_merkle_to; SPEC.md 7.4).
THEOREM ProofsAreForTheRoot ==
  ASSUME Cluster \/ Retentions \subseteq {None}
  PROVE  Spec => []ProofsMatchRoot
<1>1. IInv => ProofsMatchRoot
  <2> SUFFICES ASSUME IInv, NEW k \in 1..Len(checkpoints)
               PROVE  LeavesTo(Len(checkpoints[k].leaves)) = checkpoints[k].leaves
    BY DEF ProofsMatchRoot
  <2>1. AllHeld /\ PrefixesGrow BY NothingExpires DEF IInv
  <2>2. PICK a : a = Len(checkpoints[k].leaves) OBVIOUS
  <2>3. a \in Nat /\ a <= LastSeq /\ checkpoints[k].leaves = First(log, a)
    BY <2>1, <2>2, CheckpointType DEF IInv, PrefixesGrow
  <2>4. a \in 0..LastSeq BY <2>1, <2>3, LastSeqFacts DEF IInv
  <2> QED BY <2>1, <2>2, <2>3, <2>4, LeavesWithoutGaps
<1> QED BY <1>1, Invariant, PTL

\* What is abstracted from a state: the authors of the log, the leaves of the
\* stored checkpoints and of the published ones.
Published == {c.leaves : c \in published}

Abstract == <<LeavesTo(LastSeq), Heads, Published>>

\* An append to the log appends to the abstract one.
LEMMA AppendImplements ==
  ASSUME IInv, IInv', AllHeld, AllHeld', NEW w \in Writers, AppendEntry(w)
  PROVE  Transparency!AppendEntry(w)
<1>1. PICK n : n = LastSeq OBVIOUS
<1>2. /\ DOMAIN log' = DOMAIN log \cup {n + 1}
      /\ \A s \in DOMAIN log : log'[s] = log[s]
      /\ log'[n + 1].id = w /\ w \notin DOMAIN call /\ LastSeq' = n + 1
      /\ UNCHANGED <<checkpoints, published>>
  BY <1>1, AppendFacts DEF IInv
<1>3. n \in Nat /\ DOMAIN log = 1..n BY <1>1, LastSeqFacts DEF IInv
<1>4. LeavesTo(LastSeq) = First(log, n)
  BY <1>1, <1>3, LeavesWithoutGaps
<1>5. LeavesTo(LastSeq)' = First(log', n + 1)
  <2>1. DOMAIN log' = 1..(n + 1) BY <1>2, <1>3
  <2>2. LeavesOf(log', n + 1) = First(log', n + 1)
    BY <2>1, <1>3, LeavesOfInterval
  <2>3. LeavesTo(LastSeq)' = LeavesOf(log', LastSeq')
    BY DEF LeavesTo, LeavesOf, UpTo, NthOf
  <2> QED BY <2>2, <2>3, <1>2
<1>6. First(log', n + 1) = Append(First(log, n), w)
  BY <1>2, <1>3 DEF First
<1>7. \A k \in 1..Len(First(log, n)) : First(log, n)[k] # w
  <2>1. \A k \in 1..n : log[k].id \in DOMAIN call BY <1>3 DEF IInv, RowsHaveCalls
  <2> QED BY <2>1, <1>2, <1>3 DEF First
<1>8. UNCHANGED <<Heads, Published>> BY <1>2 DEF Heads, Published
<1> QED BY <1>4, <1>5, <1>6, <1>7, <1>8 DEF Transparency!AppendEntry, Published

\* A stored checkpoint certifies a longer prefix than every earlier one.
LEMMA StoreImplements ==
  ASSUME IInv, IInv', AllHeld, NEW r \in Replicas, StoreCheckpoint(r),
         ~ Stored(NewCheckpoint(r).number)
  PROVE  \E n \in 1..Len(LeavesTo(LastSeq)) : Transparency!Certify(n)
<1>1. PICK c : c = NewCheckpoint(r) OBVIOUS
<1>2. PICK n : n = Len(checkpoints) OBVIOUS
<1>3. PICK m : m = LastSeq OBVIOUS
<1>4. /\ m \in Nat /\ DOMAIN log = 1..m /\ m \in 0..m
      /\ LeavesTo(LastSeq) = First(log, m) /\ Len(First(log, m)) = m
  <2>1. m \in Nat /\ DOMAIN log = 1..m /\ m \in 0..m BY <1>3, LastSeqFacts DEF IInv
  <2>2. LeavesTo(LastSeq) = First(log, m) BY <2>1, <1>3, LeavesWithoutGaps
  <2> QED BY <2>1, <2>2 DEF First
<1>5. checkpoints' = Append(checkpoints, c) /\ UNCHANGED <<log, call, published>>
  BY <1>1 DEF StoreCheckpoint
<1>6. /\ n \in Nat /\ Len(checkpoints') = n + 1 /\ checkpoints'[n + 1] = c
      /\ \A k \in 1..n : checkpoints'[k] = checkpoints[k]
  <2>1. checkpoints \in Seq(Checkpoint) /\ c \in Checkpoint
    BY <1>1, NewCheckpointType DEF IInv, TypeOK
  <2> QED BY <2>1, <1>2, <1>5, AppendProperties
<1>7. UNCHANGED <<LeavesTo(LastSeq), Published>> /\ LastSeq' = LastSeq
  BY <1>5 DEF LeavesTo, LastSeq, Published
<1>8. Heads' = Heads \cup {c.leaves}
  <2>1. 1..(n + 1) = 1..n \cup {n + 1} BY <1>6
  <2>2. Heads = {checkpoints[k].leaves : k \in 1..n} BY <1>2 DEF Heads
  <2>3. Heads' = {checkpoints'[k].leaves : k \in 1..(n + 1)} BY <1>6 DEF Heads
  <2> QED BY <2>1, <2>2, <2>3, <1>6
<1>9. PrefixesGrow' BY <1>5 DEF IInv, AllHeld, Held
<1>10. PICK a : a = Len(c.leaves) OBVIOUS
<1>11. a \in Nat /\ a <= m /\ c.leaves = First(log, a)
  <2>1. n + 1 \in 1..(n + 1) BY <1>6
  <2>2. Len(c.leaves) <= m /\ c.leaves = First(log, Len(c.leaves))
    BY <2>1, <1>3, <1>5, <1>6, <1>7, <1>9 DEF PrefixesGrow
  <2>3. c \in Checkpoint BY <1>1, NewCheckpointType DEF IInv
  <2>4. Len(c.leaves) \in Nat
    <3>1. c.leaves \in Seq(Writers) BY <2>3 DEF Checkpoint
    <3> QED BY <3>1
  <2> QED BY <2>2, <2>4, <1>10
<1>12. \A h \in Heads : Len(h) < a
  <2> TAKE h \in Heads
  <2>1. PICK k \in 1..n : h = checkpoints[k].leaves BY <1>2 DEF Heads
  <2>2. k \in 1..(n + 1) /\ n + 1 \in 1..(n + 1) /\ k < n + 1 BY <1>6
  <2> QED BY <2>1, <2>2, <1>6, <1>9, <1>10 DEF PrefixesGrow
<1>13. a \in 1..m
  <2>1. Covered(tick[r].last) < tick[r].max /\ tick[r].leaves = First(log, tick[r].max)
    BY DEF IInv, PrefixesGrow, StoreCheckpoint
  <2>2. tick[r].max \in Nat BY DEF IInv, TypeOK, TickState
  <2>3. a = tick[r].max BY <2>1, <2>2, <1>1, <1>10 DEF NewCheckpoint, First
  <2>4. Covered(tick[r].last) \in Nat
    <3>1. tick[r].last # None => \E k \in 1..Len(checkpoints) : tick[r].last = checkpoints[k]
      BY DEF IInv, RowsNumbered
    <3> QED BY <3>1, CheckpointType DEF IInv, Covered
  <2> QED BY <2>1, <2>2, <2>3, <2>4, <1>4, <1>11
<1>14. SubSeq(LeavesTo(LastSeq), 1, a) = c.leaves
  <2>1. a \in 0..m BY <1>4, <1>11
  <2> QED BY <2>1, <1>4, <1>11, FirstOfFirst
<1> QED BY <1>4, <1>7, <1>8, <1>12, <1>13, <1>14 DEF Transparency!Certify, Published

\* A published checkpoint is one of the heads.
LEMMA PublishImplements ==
  ASSUME IInv, NEW r \in Replicas, PublishCheckpoint(r)
  PROVE  \E h \in Heads : Transparency!PublishHead(h)
<1>1. published' = published \cup {NewCheckpoint(r)} /\ UNCHANGED <<log, checkpoints>>
  BY DEF PublishCheckpoint
<1>2. PICK c : c = NewCheckpoint(r) OBVIOUS
<1>3. c.leaves \in Heads
  <2>1. \E k \in 1..Len(checkpoints) : c = checkpoints[k]
    BY <1>2 DEF PublishCheckpoint, IInv, RowsNumbered
  <2> QED BY <2>1 DEF Heads
<1>4. Published' = Published \cup {c.leaves} BY <1>1, <1>2 DEF Published
<1>5. UNCHANGED <<LeavesTo(LastSeq), Heads>> BY <1>1 DEF LeavesTo, LastSeq, Heads
<1> QED BY <1>3, <1>4, <1>5 DEF Transparency!PublishHead, Published

\* Every other step leaves the abstract log as it is.
LEMMA OthersStutter ==
  ASSUME IInv, AllHeld, AllHeld',
         \/ \E w \in Writers : SignEntry(w) \/ SignFails(w)
         \/ LeaseLapses \/ NewDay \/ Sweep \/ UNCHANGED vars
         \/ /\ \E r \in Replicas : TickStep(r)
            /\ UNCHANGED <<checkpoints, published>>
  PROVE  UNCHANGED Abstract
<1>1. UNCHANGED <<checkpoints, published>>
  BY DEF SignEntry, SignFails, LeaseLapses, NewDay, Sweep, vars
<1>2. /\ DOMAIN log' = DOMAIN log
      /\ \A s \in DOMAIN log : log'[s].id = log[s].id
  <2>1. CASE \E w \in Writers : SignEntry(w) \/ SignFails(w)
    BY <2>1, SignFacts DEF IInv, SignFails
  <2>2. CASE LeaseLapses \/ NewDay \/ UNCHANGED vars
    BY <2>2 DEF LeaseLapses, NewDay, vars
  <2>3. CASE \E r \in Replicas : TickStep(r) BY <2>3, TickFacts
  <2>4. CASE Sweep
    <3>1. /\ UNCHANGED call /\ DOMAIN log' \subseteq DOMAIN log
          /\ \A s \in DOMAIN log' : log'[s] = log[s]
      BY <2>4 DEF Sweep
    <3>2. ASSUME NEW s \in DOMAIN log PROVE s \in DOMAIN log'
      <4>1. log[s].id \in DOMAIN call /\ call[log[s].id].seq = s
        BY DEF IInv, RowsHaveCalls
      <4>2. PICK w \in DOMAIN call : w = log[s].id BY <4>1
      <4>3. Held(w)' BY <3>1 DEF AllHeld
      <4> QED BY <4>1, <4>2, <4>3, <3>1 DEF Held
    <3> QED BY <3>1, <3>2
  <2> QED BY <2>1, <2>2, <2>3, <2>4
<1>3. LastSeq' = LastSeq BY <1>2 DEF LastSeq
<1>4. PICK n : n = LastSeq OBVIOUS
<1>5. n \in Nat /\ DOMAIN log = 1..n /\ n \in 0..n BY <1>4, LastSeqFacts DEF IInv
<1>6. LeavesTo(LastSeq) = First(log, n) BY <1>4, <1>5, LeavesWithoutGaps
<1>7. LeavesTo(LastSeq)' = First(log', n)
  <2>1. LeavesOf(log', n) = First(log', n) BY <1>2, <1>5, LeavesOfInterval
  <2>2. LeavesTo(LastSeq)' = LeavesOf(log', LastSeq')
    BY DEF LeavesTo, LeavesOf, UpTo, NthOf
  <2> QED BY <2>1, <2>2, <1>3, <1>4
<1>8. First(log', n) = First(log, n) BY <1>2, <1>5 DEF First
<1> QED BY <1>1, <1>6, <1>7, <1>8 DEF Abstract, Heads, Published

\* Where nothing may expire, the log and its checkpoints implement an
\* append-only log whose heads are ever longer prefixes (TransparencyLog).
THEOREM ImplementsLog ==
  ASSUME Cluster \/ Retentions \subseteq {None}
  PROVE  Spec => ImplementsTransparencyLog
<1>1. Init => Transparency!LogInit
  <2> SUFFICES ASSUME Init PROVE Transparency!LogInit OBVIOUS
  <2>1. IInv /\ AllHeld BY InitInvariant, NothingExpires
  <2>2. LastSeq = 0 BY DEF Init, LastSeq
  <2>3. LeavesTo(LastSeq) = First(log, 0) BY <2>1, <2>2, LeavesWithoutGaps
  <2>4. First(log, 0) = <<>> BY DEF First
  <2>5. Heads = {} BY EmptySeq DEF Init, Heads
  <2>6. {c.leaves : c \in published} = {} BY DEF Init
  <2> QED BY <2>3, <2>4, <2>5, <2>6 DEF Transparency!LogInit
<1>2. IInv /\ IInv' /\ [Next]_vars => [Transparency!LogNext]_Abstract
  <2> SUFFICES ASSUME IInv, IInv', [Next]_vars
               PROVE  Transparency!LogNext \/ UNCHANGED Abstract
    OBVIOUS
  <2>1. AllHeld BY NothingExpires
  <2>2. AllHeld'
    BY DEF IInv, NumbersSound, RowsHaveCalls, AllHeld
  <2>3. CASE \E w \in Writers : AppendEntry(w)
    BY <2>1, <2>2, <2>3, AppendImplements DEF Transparency!LogNext
  <2>4. ASSUME NEW r \in Replicas, StoreCheckpoint(r), ~ Stored(NewCheckpoint(r).number)
        PROVE  Transparency!LogNext
    BY <2>1, <2>4, StoreImplements DEF Transparency!LogNext
  <2>5. ASSUME NEW r \in Replicas, PublishCheckpoint(r)
        PROVE  Transparency!LogNext
    BY <2>5, PublishImplements DEF Transparency!LogNext
  <2>6. ASSUME NEW r \in Replicas, TickStep(r)
        PROVE  Transparency!LogNext \/ UNCHANGED Abstract
    <3>1. CASE UNCHANGED <<checkpoints, published>>
      BY <3>1, <2>1, <2>2, <2>6, OthersStutter
    <3>2. CASE ~ UNCHANGED <<checkpoints, published>>
      <4>1. \/ StoreCheckpoint(r) /\ ~ Stored(NewCheckpoint(r).number)
            \/ PublishCheckpoint(r)
        BY <3>2, <2>6 DEF TickStep, AcquireLease, ReadMaxSequence, ReadLastCheckpoint,
           ReadEntries, StoreCheckpoint, TickFails, ReleaseLease
      <4> QED BY <4>1, <2>4, <2>5
    <3> QED BY <3>1, <3>2
  <2>7. CASE \/ \E w \in Writers : SignEntry(w) \/ SignFails(w)
             \/ LeaseLapses \/ NewDay \/ Sweep \/ UNCHANGED vars
    BY <2>1, <2>2, <2>7, OthersStutter
  <2> QED BY <2>3, <2>6, <2>7 DEF Next
<1>3. Abstract = Transparency!logVars BY DEF Abstract, Published, Transparency!logVars
<1>4. IInv /\ IInv' /\ [Next]_vars => [Transparency!LogNext]_(Transparency!logVars)
  BY <1>2, <1>3 DEF Abstract, Published, Transparency!logVars
<1> QED BY <1>1, <1>4, Invariant, PTL DEF Spec, ImplementsTransparencyLog, Transparency!LogSpec

=============================================================================
