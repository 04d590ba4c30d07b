--------------------------- MODULE MerkleTreeProofs ---------------------------
(***************************************************************************)
(* Theorems about MerkleTree, for trees of any size.  They are proved by   *)
(* induction on sizes.  The provers cannot instantiate the induction and   *)
(* recursion theorems of the library, which take operators as parameters;  *)
(* every induction here is a choice of the least counterexample, and the   *)
(* recursive functions of MerkleTree are solved by the lemma Recursion.    *)
(***************************************************************************)
EXTENDS MerkleTree, WellFoundedInduction, TLAPS

(***************************************************************************)
(* Induction and recursion over the naturals                               *)
(***************************************************************************)

Below == {pair \in Nat \X Nat : pair[1] < pair[2]}

\* The order of the naturals is well-founded.
LEMMA BelowWellFounded == IsWellFoundedOn(Below, Nat)
BY NatLessThanWellFounded DEF OpToRel, Below

\* A set of naturals with an element has a least one.
LEMMA LeastNumber ==
  ASSUME NEW T \in SUBSET Nat, T # {}
  PROVE  \E x \in T : \A y \in T : x <= y
<1>1. \A x, y \in Nat : x < y => <<x, y>> \in Below
  BY DEF Below
<1>2. PICK x \in T : \A y \in T : <<y, x>> \notin Below
  BY BelowWellFounded, WFMin
<1>3. ASSUME NEW y \in T PROVE x <= y
  <2>1. x \in Nat /\ y \in Nat /\ ~ (y < x)
    BY <1>1, <1>2
  <2> QED
    BY <2>1
<1> QED
  BY <1>3

\* A set that has every number whose predecessors it has is all of Nat.
LEMMA AllNumbers ==
  ASSUME NEW S, \A n \in Nat : (\A i \in 0..(n - 1) : i \in S) => n \in S
  PROVE  Nat \subseteq S
<1> DEFINE Bad == {n \in Nat : n \notin S}
<1>1. Bad \in SUBSET Nat /\ \A n \in Nat : n \notin S => n \in Bad
  OBVIOUS
<1>2. \A n \in Bad : n \in Nat /\ n \notin S
  OBVIOUS
<1> HIDE DEF Bad
<1> SUFFICES ASSUME Bad # {} PROVE FALSE
  BY <1>1
<1>3. PICK n \in Bad : \A i \in Bad : n <= i
  BY <1>1, LeastNumber
<1>4. ASSUME NEW i \in 0..(n - 1) PROVE i \in S
  <2>1. i \in Nat /\ n \in Nat /\ ~ (n <= i)
    BY <1>2
  <2> QED
    BY <1>1, <1>3, <2>1
<1> QED
  BY <1>2, <1>3, <1>4

\* F is a rule for values in T: what it gives for n and a function depends on what
\* the function is below n.
IsRule(F, T) ==
  /\ T # {} /\ F \in [Nat -> [[Nat -> T] -> T]]
  /\ \A n \in Nat : \A g, h \in [Nat -> T] :
        (\A i \in 0..(n - 1) : g[i] = h[i]) => F[n][g] = F[n][h]

Follows(f, F) == \A n \in Nat : f[n] = F[n][f]

\* Every rule is followed by a function.
LEMMA Recursion ==
  ASSUME NEW F, NEW T, IsRule(F, T)
  PROVE  \E f \in [Nat -> T] : Follows(f, F)
<1>0. /\ T # {} /\ F \in [Nat -> [[Nat -> T] -> T]]
      /\ \A n \in Nat : \A g, h \in [Nat -> T] :
            (\A i \in 0..(n - 1) : g[i] = h[i]) => F[n][g] = F[n][h]
  BY DEF IsRule
<1> DEFINE Solves(g, k) == \A i \in 0..k : g[i] = F[i][g]
<1>1. \A k \in Nat : \E g \in [Nat -> T] : Solves(g, k)
  <2> DEFINE S == {k \in Nat : \E g \in [Nat -> T] : Solves(g, k)}
  <2>1. ASSUME NEW k \in Nat, \A i \in 0..(k - 1) : i \in S PROVE k \in S
    <3>1. PICK g \in [Nat -> T] : \A i \in 0..(k - 1) : g[i] = F[i][g]
      <4>1. CASE k = 0
        <5>1. PICK t \in T : TRUE
          BY <1>0
        <5>2. [n \in Nat |-> t] \in [Nat -> T] /\ 0..(k - 1) = {}
          BY <4>1
        <5> QED
          BY <5>2
      <4>2. CASE k # 0
        <5>1. k - 1 \in 0..(k - 1)
          BY <4>2
        <5>2. k - 1 \in S
          BY <2>1, <5>1
        <5> QED
          BY <5>2
      <4> QED
        BY <4>1, <4>2
    <3> DEFINE h == [g EXCEPT ![k] = F[k][g]]
    <3>2. h \in [Nat -> T] /\ h[k] = F[k][g] /\ \A i \in Nat : i # k => h[i] = g[i]
      BY <1>0
    <3> HIDE DEF h
    <3>3. ASSUME NEW i \in 0..k PROVE h[i] = F[i][h]
      <4>1. \A j \in 0..(i - 1) : g[j] = h[j]
        BY <3>2
      <4>2. i \in Nat
        OBVIOUS
      <4>3. F[i][g] = F[i][h]
        BY <1>0, <3>2, <4>1, <4>2
      <4> QED
        BY <3>1, <3>2, <4>3
    <3> QED
      BY <3>2, <3>3
  <2> HIDE DEF S
  <2>2. Nat \subseteq S
    BY <2>1, AllNumbers
  <2> QED
    BY <2>2 DEF S
<1>2. ASSUME NEW g \in [Nat -> T], NEW h \in [Nat -> T], NEW k \in Nat, NEW l \in Nat,
             k <= l, Solves(g, k), Solves(h, l)
      PROVE  g[k] = h[k]
  <2> DEFINE S == {i \in Nat : i <= k => g[i] = h[i]}
  <2>1. ASSUME NEW i \in Nat, \A j \in 0..(i - 1) : j \in S PROVE i \in S
    <3> SUFFICES ASSUME i <= k PROVE g[i] = h[i]
      OBVIOUS
    <3>1. \A j \in 0..(i - 1) : g[j] = h[j]
      BY <2>1
    <3>2. F[i][g] = F[i][h]
      BY <1>0, <3>1
    <3> QED
      BY <1>2, <3>2
  <2> HIDE DEF S
  <2>2. Nat \subseteq S
    BY <2>1, AllNumbers
  <2> QED
    BY <2>2 DEF S
<1> DEFINE G(n) == CHOOSE g \in [Nat -> T] : Solves(g, n)
           f == [n \in Nat |-> G(n)[n]]
<1>3. \A n \in Nat : G(n) \in [Nat -> T] /\ Solves(G(n), n)
  BY <1>1
<1> HIDE DEF G
<1>4. f \in [Nat -> T]
  BY <1>3
<1>5. ASSUME NEW n \in Nat PROVE f[n] = F[n][f]
  <2>1. ASSUME NEW i \in 0..(n - 1) PROVE f[i] = G(n)[i]
    <3>1. i \in Nat /\ i <= n
      OBVIOUS
    <3>2. G(i)[i] = G(n)[i]
      <4> HIDE DEF Solves
      <4> QED
        BY <1>2, <1>3, <3>1
    <3> QED
      BY <3>1, <3>2
  <2>2. F[n][f] = F[n][G(n)]
    BY <1>0, <1>3, <1>4, <2>1
  <2> QED
    BY <1>3, <2>2
<1> QED
  BY <1>4, <1>5 DEF Follows

(***************************************************************************)
(* A set of hashes                                                         *)
(***************************************************************************)

\* Nodes over hashes of the set H are in H.
Closed(H) == \A left, right \in H : NodeHash(left, right) \in H

Grown(H) == H \cup {NodeHash(pair[1], pair[2]) : pair \in H \X H}

\* g has what becomes of B when nodes are added k times.
GrownFrom(B, g, k) == \A i \in 0..k : g[i] = IF i = 0 THEN B ELSE Grown(g[i - 1])

\* Whatever the leaves are, the nodes over them are members of a set.
LEMMA HashesExist ==
  ASSUME NEW B
  PROVE  \E H : B \subseteq H /\ Closed(H)
<1>1. \A k \in Nat : \E g : GrownFrom(B, g, k)
  <2> DEFINE S == {k \in Nat : \E g : GrownFrom(B, g, k)}
  <2>1. ASSUME NEW k \in Nat, \A i \in 0..(k - 1) : i \in S PROVE k \in S
    <3>1. PICK g : \A i \in 0..(k - 1) : g[i] = IF i = 0 THEN B ELSE Grown(g[i - 1])
      <4>1. CASE k = 0
        BY <4>1
      <4>2. CASE k # 0
        <5>1. k - 1 \in 0..(k - 1)
          BY <4>2
        <5>2. k - 1 \in S
          BY <2>1, <5>1
        <5> QED
          BY <5>2 DEF GrownFrom
      <4> QED
        BY <4>1, <4>2
    <3> DEFINE h == [i \in 0..k |-> IF i < k THEN g[i] ELSE IF k = 0 THEN B ELSE Grown(g[k - 1])]
    <3>2. ASSUME NEW i \in 0..k PROVE h[i] = IF i = 0 THEN B ELSE Grown(h[i - 1])
      <4>1. i # 0 => i - 1 \in 0..k /\ h[i - 1] = g[i - 1]
        OBVIOUS
      <4>2. CASE i < k
        <5>1. i \in 0..(k - 1) /\ h[i] = g[i]
          BY <4>2
        <5> HIDE DEF h
        <5> QED
          BY <3>1, <4>1, <5>1
      <4>3. CASE i = k
        <5>1. h[i] = IF k = 0 THEN B ELSE Grown(g[k - 1])
          BY <4>3
        <5> HIDE DEF h
        <5> QED
          BY <4>1, <4>3, <5>1
      <4> QED
        BY <4>2, <4>3
    <3> HIDE DEF h
    <3> QED
      BY <3>2 DEF GrownFrom
  <2> HIDE DEF S
  <2>2. Nat \subseteq S
    BY <2>1, AllNumbers
  <2> QED
    BY <2>2 DEF S
<1>2. ASSUME NEW g, NEW h, NEW k \in Nat, NEW l \in Nat, k <= l,
             GrownFrom(B, g, k), GrownFrom(B, h, l)
      PROVE  g[k] = h[k]
  <2> DEFINE S == {i \in Nat : i <= k => g[i] = h[i]}
  <2>1. ASSUME NEW i \in Nat, \A j \in 0..(i - 1) : j \in S PROVE i \in S
    <3> SUFFICES ASSUME i <= k PROVE g[i] = h[i]
      OBVIOUS
    <3>1. i # 0 => i - 1 \in 0..(i - 1) /\ g[i - 1] = h[i - 1]
      BY <2>1
    <3>2. i \in 0..k /\ i \in 0..l
      BY <1>2
    <3> QED
      BY <1>2, <3>1, <3>2 DEF GrownFrom
  <2> HIDE DEF S
  <2>2. Nat \subseteq S
    BY <2>1, AllNumbers
  <2> QED
    BY <2>2 DEF S
<1> DEFINE G(n) == CHOOSE g : GrownFrom(B, g, n)
           Layer == [n \in Nat |-> G(n)[n]]
           H == UNION {Layer[n] : n \in Nat}
<1>3. \A n \in Nat : GrownFrom(B, G(n), n)
  BY <1>1
<1> HIDE DEF G
<1>4. Layer[0] = B
  BY <1>3 DEF GrownFrom
<1>5. ASSUME NEW n \in Nat PROVE Layer[n + 1] = Grown(Layer[n])
  <2>1. G(n)[n] = G(n + 1)[n]
    BY <1>2, <1>3
  <2>2. G(n + 1)[n + 1] = Grown(G(n + 1)[n])
    <3>1. n + 1 \in 0..(n + 1) /\ n + 1 # 0 /\ (n + 1) - 1 = n
      OBVIOUS
    <3> QED
      BY <1>3, <3>1 DEF GrownFrom
  <2> QED
    BY <2>1, <2>2
<1> HIDE DEF Layer
<1>6. \A i, j \in Nat : i <= j => Layer[i] \subseteq Layer[j]
  <2> SUFFICES ASSUME NEW i \in Nat PROVE \A j \in Nat : i <= j => Layer[i] \subseteq Layer[j]
    OBVIOUS
  <2> DEFINE S == {j \in Nat : i <= j => Layer[i] \subseteq Layer[j]}
  <2>1. ASSUME NEW j \in Nat, \A x \in 0..(j - 1) : x \in S PROVE j \in S
    <3> SUFFICES ASSUME i < j PROVE Layer[i] \subseteq Layer[j]
      OBVIOUS
    <3>1. j - 1 \in 0..(j - 1) /\ j - 1 \in Nat /\ i <= j - 1 /\ (j - 1) + 1 = j
      OBVIOUS
    <3>2. Layer[i] \subseteq Layer[j - 1]
      BY <2>1, <3>1
    <3>3. Layer[j] = Grown(Layer[j - 1])
      BY <1>5, <3>1
    <3> QED
      BY <3>2, <3>3 DEF Grown
  <2> HIDE DEF S
  <2>2. Nat \subseteq S
    BY <2>1, AllNumbers
  <2> QED
    BY <2>2 DEF S
<1>7. B \subseteq H
  BY <1>4
<1>8. ASSUME NEW left \in H, NEW right \in H PROVE NodeHash(left, right) \in H
  <2>1. PICK i \in Nat, j \in Nat : left \in Layer[i] /\ right \in Layer[j]
    OBVIOUS
  <2>2. PICK n \in Nat : left \in Layer[n] /\ right \in Layer[n]
    <3>1. CASE i <= j
      BY <1>6, <2>1, <3>1
    <3>2. CASE j <= i
      BY <1>6, <2>1, <3>2
    <3> QED
      BY <3>1, <3>2
  <2>3. <<left, right>> \in Layer[n] \X Layer[n]
    BY <2>2
  <2>4. NodeHash(left, right) \in Grown(Layer[n])
    BY <2>3 DEF Grown
  <2>5. NodeHash(left, right) \in Layer[n + 1] /\ n + 1 \in Nat
    BY <1>5, <2>4
  <2> QED
    BY <2>5
<1> QED
  BY <1>7, <1>8 DEF Closed

(***************************************************************************)
(* Where a range is split                                                  *)
(***************************************************************************)

\* The values of k in the loop double from one on.
LEMMA DoubledDef ==
  /\ Doubled \in [Nat -> Nat]
  /\ \A e \in Nat : Doubled[e] = IF e = 0 THEN 1 ELSE 2 * Doubled[e - 1]
<1> DEFINE Rule(g, n) == IF n = 0 THEN 1 ELSE 2 * g[n - 1]
           F == [n \in Nat |-> [g \in [Nat -> Nat] |-> Rule(g, n)]]
<1>1. \A n \in Nat : \A g \in [Nat -> Nat] : Rule(g, n) \in Nat
  OBVIOUS
<1>2. F \in [Nat -> [[Nat -> Nat] -> Nat]]
  BY <1>1
<1>3. ASSUME NEW n \in Nat, NEW g \in [Nat -> Nat], NEW h \in [Nat -> Nat],
             \A i \in 0..(n - 1) : g[i] = h[i]
      PROVE  F[n][g] = F[n][h]
  <2>1. n # 0 => n - 1 \in 0..(n - 1)
    OBVIOUS
  <2> QED
    BY <1>3, <2>1
<1>4. \A n \in Nat : \A g \in [Nat -> Nat] : F[n][g] = Rule(g, n)
  OBVIOUS
<1> HIDE DEF F, Rule
<1>5. PICK f \in [Nat -> Nat] : Follows(f, F)
  <2>1. IsRule(F, Nat)
    BY <1>2, <1>3 DEF IsRule
  <2> QED
    BY <2>1, Recursion
<1>6. f = [e \in Nat |-> IF e = 0 THEN 1 ELSE 2 * f[e - 1]]
  BY <1>4, <1>5 DEF Rule, Follows
<1>7. Doubled = [e \in Nat |-> IF e = 0 THEN 1 ELSE 2 * Doubled[e - 1]]
  BY <1>6 DEF Doubled
<1> DEFINE S == {e \in Nat : Doubled[e] \in Nat}
<1>8. ASSUME NEW e \in Nat, \A i \in 0..(e - 1) : i \in S PROVE e \in S
  <2>1. CASE e = 0
    BY <1>7, <2>1
  <2>2. CASE e # 0
    <3>1. e - 1 \in 0..(e - 1)
      BY <2>2
    <3>2. Doubled[e - 1] \in Nat
      BY <1>8, <3>1
    <3>3. Doubled[e] = 2 * Doubled[e - 1]
      BY <1>7, <2>2
    <3> QED
      BY <3>2, <3>3
  <2> QED
    BY <2>1, <2>2
<1> HIDE DEF S
<1>9. Nat \subseteq S
  BY <1>8, AllNumbers
<1> QED
  BY <1>7, <1>9 DEF S

\* After e rounds k is above e.
LEMMA DoubledGrows == \A e \in Nat : e < Doubled[e]
<1> DEFINE S == {e \in Nat : e < Doubled[e]}
<1>1. ASSUME NEW e \in Nat, \A i \in 0..(e - 1) : i \in S PROVE e \in S
  <2>1. CASE e = 0
    BY <2>1, DoubledDef
  <2>2. CASE e # 0
    <3>1. e - 1 \in 0..(e - 1) /\ e - 1 \in Nat
      BY <2>2
    <3>2. e - 1 < Doubled[e - 1] /\ Doubled[e - 1] \in Nat
      BY <1>1, <3>1, DoubledDef
    <3>3. Doubled[e] = 2 * Doubled[e - 1]
      BY <2>2, DoubledDef
    <3> QED
      BY <2>2, <3>2, <3>3
  <2> QED
    BY <2>1, <2>2
<1> HIDE DEF S
<1>2. Nat \subseteq S
  BY <1>1, AllNumbers
<1> QED
  BY <1>2 DEF S

\* Of two of the values, the larger one is at least twice the smaller.
LEMMA DoubledApart ==
  \A a, b \in Nat : a < b => 2 * Doubled[a] <= Doubled[b]
<1> SUFFICES ASSUME NEW a \in Nat PROVE \A b \in Nat : a < b => 2 * Doubled[a] <= Doubled[b]
  OBVIOUS
<1> DEFINE S == {b \in Nat : a < b => 2 * Doubled[a] <= Doubled[b]}
<1>1. ASSUME NEW b \in Nat, \A i \in 0..(b - 1) : i \in S PROVE b \in S
  <2> SUFFICES ASSUME a < b PROVE 2 * Doubled[a] <= Doubled[b]
    OBVIOUS
  <2>1. b - 1 \in 0..(b - 1) /\ b - 1 \in Nat /\ b # 0
    OBVIOUS
  <2>2. Doubled[b] = 2 * Doubled[b - 1] /\ Doubled[b - 1] \in Nat /\ Doubled[a] \in Nat
    BY <2>1, DoubledDef
  <2>3. a < b - 1 => 2 * Doubled[a] <= Doubled[b - 1]
    BY <1>1, <2>1
  <2>4. CASE a < b - 1
    BY <2>2, <2>3, <2>4
  <2>5. CASE a = b - 1
    BY <2>2, <2>5
  <2> QED
    BY <2>4, <2>5
<1> HIDE DEF S
<1>2. Nat \subseteq S
  BY <1>1, AllNumbers
<1> QED
  BY <1>2 DEF S

\* For two leaves or more, the split is one of the values of k, below the number of
\* leaves and at least half of it.
LEMMA SplitFound ==
  ASSUME NEW n \in Nat, n > 1
  PROVE  /\ Split(n) \in 1..(n - 1) /\ n <= 2 * Split(n)
         /\ \E e \in 0..n : Split(n) = Doubled[e]
<1> DEFINE S == {e \in Nat : n <= 2 * Doubled[e]}
<1>1. n \in S
  BY DoubledDef, DoubledGrows
<1>2. PICK e \in S : \A i \in S : e <= i
  <2>1. S \in SUBSET Nat /\ S # {}
    BY <1>1
  <2> HIDE DEF S
  <2> QED
    BY <2>1, LeastNumber
<1>3. e \in Nat /\ e <= n /\ n <= 2 * Doubled[e] /\ Doubled[e] \in Nat
  BY <1>1, <1>2, DoubledDef
<1>4. Doubled[e] < n
  <2>1. CASE e = 0
    BY <2>1, DoubledDef
  <2>2. CASE e # 0
    <3>1. e - 1 \in Nat /\ ~ (e <= e - 1)
      BY <1>3, <2>2
    <3>2. ~ (n <= 2 * Doubled[e - 1])
      BY <1>2, <3>1
    <3> QED
      BY <1>3, <2>2, <3>1, <3>2, DoubledDef
  <2> QED
    BY <2>1, <2>2
<1> DEFINE Found(k) == k \in {Doubled[i] : i \in 0..n} /\ k < n /\ n <= 2 * k
<1>5. Found(Doubled[e])
  BY <1>3, <1>4
<1>6. Split(n) = CHOOSE k : Found(k)
  BY DEF Split
<1>7. Found(Split(n))
  BY <1>5, <1>6
<1> QED
  BY <1>7, DoubledDef

\* It is the only such value.
LEMMA SplitUnique ==
  ASSUME NEW n \in Nat, NEW e \in Nat, Doubled[e] < n, n <= 2 * Doubled[e], n > 1
  PROVE  Split(n) = Doubled[e]
<1>1. PICK i \in Nat : Split(n) = Doubled[i]
  BY SplitFound
<1>2. Split(n) \in Nat /\ Split(n) < n /\ n <= 2 * Split(n) /\ Doubled[e] \in Nat
  BY SplitFound, DoubledDef
<1>3. i < e => 2 * Doubled[i] <= Doubled[e]
  BY DoubledApart
<1>4. e < i => 2 * Doubled[e] <= Doubled[i]
  BY DoubledApart
<1> QED
  BY <1>1, <1>2, <1>3, <1>4

\* A range that is cut back, but not to its left part, is split where it was.
LEMMA SplitOfPart ==
  ASSUME NEW n \in Nat, NEW m \in Nat, Split(n) < m, m <= n, n > 1
  PROVE  m > 1 /\ Split(m) = Split(n)
<1>1. PICK e \in Nat : Split(n) = Doubled[e]
  BY SplitFound
<1>2. Split(n) \in 1..(n - 1) /\ n <= 2 * Split(n)
  BY SplitFound
<1> QED
  BY <1>1, <1>2, SplitUnique

(***************************************************************************)
(* Roots                                                                   *)
(***************************************************************************)

\* The root of a range of one leaf is its hash, and of more a node over the roots of
\* the two parts.
LEMMA ComputeRootDef ==
  ASSUME NEW d, NEW n \in Nat, NEW lo \in Nat
  PROVE  ComputeRoot(d)[n][lo] =
           IF n <= 1 THEN LeafHash(d[lo + 1])
           ELSE NodeHash(ComputeRoot(d)[Split(n)][lo], ComputeRoot(d)[n - Split(n)][lo + Split(n)])
<1>1. PICK H : {LeafHash(d[i + 1]) : i \in Nat} \subseteq H /\ Closed(H)
  BY HashesExist
<1> DEFINE T == [Nat -> H]
           At(g, k, i) == IF k <= 1 THEN LeafHash(d[i + 1])
                          ELSE NodeHash(g[Split(k)][i], g[k - Split(k)][i + Split(k)])
           Rule(g, k) == [i \in Nat |-> At(g, k, i)]
           F == [k \in Nat |-> [g \in [Nat -> T] |-> Rule(g, k)]]
<1>2. \A k \in Nat : k > 1 => /\ Split(k) \in 0..(k - 1) /\ Split(k) \in Nat
                              /\ k - Split(k) \in 0..(k - 1) /\ k - Split(k) \in Nat
  BY SplitFound
<1>3. ASSUME NEW k \in Nat, NEW g \in [Nat -> T], NEW i \in Nat PROVE At(g, k, i) \in H
  <2>1. CASE k <= 1
    BY <1>1, <2>1
  <2>2. CASE k > 1
    <3>1. g[Split(k)][i] \in H /\ g[k - Split(k)][i + Split(k)] \in H
      BY <1>2, <2>2
    <3> QED
      BY <1>1, <2>2, <3>1 DEF Closed
  <2> QED
    BY <2>1, <2>2
<1>4. ASSUME NEW k \in Nat, NEW g, NEW h, \A i \in 0..(k - 1) : g[i] = h[i]
      PROVE  Rule(g, k) = Rule(h, k)
  <2>1. CASE k <= 1
    BY <2>1
  <2>2. CASE k > 1
    <3>1. g[Split(k)] = h[Split(k)] /\ g[k - Split(k)] = h[k - Split(k)]
      BY <1>2, <1>4, <2>2
    <3> QED
      BY <3>1
  <2> QED
    BY <2>1, <2>2
<1>5. \A k \in Nat, g \in [Nat -> T] : Rule(g, k) \in T
  <2> HIDE DEF At
  <2> QED
    BY <1>3
<1> HIDE DEF Rule
<1>6. F \in [Nat -> [[Nat -> T] -> T]] /\ \A k \in Nat, g \in [Nat -> T] : F[k][g] = Rule(g, k)
  BY <1>5
<1> HIDE DEF F
<1>7. PICK f \in [Nat -> T] : Follows(f, F)
  <2>1. T # {}
    <3>1. LeafHash(d[0 + 1]) \in H
      BY <1>1
    <3>2. [i \in Nat |-> LeafHash(d[0 + 1])] \in T
      BY <3>1
    <3> QED
      BY <3>2
  <2> HIDE DEF T
  <2>2. ASSUME NEW k \in Nat, NEW g \in [Nat -> T], NEW h \in [Nat -> T],
               \A i \in 0..(k - 1) : g[i] = h[i]
        PROVE  F[k][g] = F[k][h]
    <3>1. Rule(g, k) = Rule(h, k)
      BY <1>4, <2>2
    <3> QED
      BY <1>6, <3>1
  <2>3. IsRule(F, T)
    BY <1>6, <2>1, <2>2 DEF IsRule
  <2> QED
    BY <2>3, Recursion
<1>8. f = [k \in Nat |-> Rule(f, k)]
  BY <1>6, <1>7 DEF Follows
<1>9. ComputeRoot(d) = [k \in Nat |-> Rule(ComputeRoot(d), k)]
  BY <1>8 DEF ComputeRoot, Rule
<1> DEFINE root == ComputeRoot(d)
<1>10. root[n] = Rule(root, n)
  BY <1>9
<1> HIDE DEF root
<1>11. root[n][lo] = At(root, n, lo)
  BY <1>10 DEF Rule
<1> QED
  BY <1>11 DEF root

\* Different terms are different hashes.
LEMMA HashesApart ==
  /\ \A x, y : LeafHash(x) = LeafHash(y) => x = y
  /\ \A x, y, u, v : NodeHash(x, y) = NodeHash(u, v) => x = u /\ y = v
  /\ \A x, u, v : LeafHash(x) # NodeHash(u, v) /\ LeafHash(x) # EmptyHash
  /\ \A u, v : NodeHash(u, v) # EmptyHash
BY DEF LeafHash, NodeHash, EmptyHash

\* The n leaves after the first lo are the same.
SameRange(d, e, n, lo) == \A i \in (lo + 1)..(lo + n) : d[i] = e[i]

\* Ranges with the same leaves have the same root.
LEMMA SameLeavesSameRoot ==
  ASSUME NEW d, NEW e, NEW n \in Nat, NEW lo \in Nat, n > 0, SameRange(d, e, n, lo)
  PROVE  ComputeRoot(d)[n][lo] = ComputeRoot(e)[n][lo]
<1> DEFINE rootD == ComputeRoot(d)
           rootE == ComputeRoot(e)
           S == {k \in Nat : \A l \in Nat :
                   k > 0 /\ SameRange(d, e, k, l) => rootD[k][l] = rootE[k][l]}
<1>1. ASSUME NEW k \in Nat, \A j \in 0..(k - 1) : j \in S PROVE k \in S
  <2> SUFFICES ASSUME NEW l \in Nat, k > 0, SameRange(d, e, k, l)
               PROVE  rootD[k][l] = rootE[k][l]
    OBVIOUS
  <2>1. CASE k <= 1
    <3>1. d[l + 1] = e[l + 1]
      BY <2>1 DEF SameRange
    <3> QED
      BY <2>1, <3>1, ComputeRootDef
  <2>2. CASE k > 1
    <3>1. /\ Split(k) \in 1..(k - 1) /\ Split(k) \in 0..(k - 1)
          /\ k - Split(k) \in 0..(k - 1) /\ k - Split(k) > 0
      BY <2>2, SplitFound
    <3>2. SameRange(d, e, Split(k), l) /\ SameRange(d, e, k - Split(k), l + Split(k))
      BY <3>1 DEF SameRange
    <3>3. rootD[Split(k)][l] = rootE[Split(k)][l]
      BY <1>1, <3>1, <3>2
    <3>4. rootD[k - Split(k)][l + Split(k)] = rootE[k - Split(k)][l + Split(k)]
      BY <1>1, <3>1, <3>2
    <3> QED
      BY <2>2, <3>3, <3>4, ComputeRootDef
  <2> QED
    BY <2>1, <2>2
<1> HIDE DEF S
<1>2. Nat \subseteq S
  BY <1>1, AllNumbers
<1> QED
  BY <1>2 DEF S

\* The n leaves of d after the first lo are those of e after the first low.
Alike(d, e, n, lo, low) == \A i \in 1..n : d[lo + i] = e[low + i]

\* A root tells how many leaves are under it, and which.
LEMMA RootTellsLeaves ==
  ASSUME NEW d, NEW e, NEW n \in Nat, NEW m \in Nat, NEW lo \in Nat, NEW low \in Nat,
         n > 0, m > 0, ComputeRoot(d)[n][lo] = ComputeRoot(e)[m][low]
  PROVE  n = m /\ Alike(d, e, n, lo, low)
<1> DEFINE rootD == ComputeRoot(d)
           rootE == ComputeRoot(e)
           Tells(k, j, l, p) ==
             k > 0 /\ j > 0 /\ rootD[k][l] = rootE[j][p] => k = j /\ \A i \in 1..k : d[l + i] = e[p + i]
           S == {k \in Nat : \A j, l, p \in Nat : Tells(k, j, l, p)}
<1>0. \A k, l \in Nat :
        /\ rootD[k][l] = IF k <= 1 THEN LeafHash(d[l + 1])
                         ELSE NodeHash(rootD[Split(k)][l], rootD[k - Split(k)][l + Split(k)])
        /\ rootE[k][l] = IF k <= 1 THEN LeafHash(e[l + 1])
                         ELSE NodeHash(rootE[Split(k)][l], rootE[k - Split(k)][l + Split(k)])
  BY ComputeRootDef
<1> HIDE DEF rootD, rootE
<1>1. ASSUME NEW k \in Nat, \A i \in 0..(k - 1) : i \in S PROVE k \in S
  <2> SUFFICES ASSUME NEW j \in Nat, NEW l \in Nat, NEW p \in Nat,
                      k > 0, j > 0, rootD[k][l] = rootE[j][p]
               PROVE  k = j /\ \A i \in 1..k : d[l + i] = e[p + i]
    OBVIOUS
  <2>1. CASE k <= 1
    <3>1. rootD[k][l] = LeafHash(d[l + 1])
      BY <2>1, <1>0
    <3>2. j <= 1
      <4> SUFFICES ASSUME j > 1 PROVE FALSE
        OBVIOUS
      <4>1. rootE[j][p] = NodeHash(rootE[Split(j)][p], rootE[j - Split(j)][p + Split(j)])
        BY <1>0
      <4>2. LeafHash(d[l + 1]) # NodeHash(rootE[Split(j)][p], rootE[j - Split(j)][p + Split(j)])
        BY HashesApart
      <4> QED
        BY <3>1, <4>1, <4>2
    <3>3. rootE[j][p] = LeafHash(e[p + 1])
      BY <3>2, <1>0
    <3>4. d[l + 1] = e[p + 1]
      BY <3>1, <3>3, HashesApart
    <3> QED
      BY <2>1, <3>2, <3>4
  <2>2. CASE k > 1
    <3>1. rootD[k][l] = NodeHash(rootD[Split(k)][l], rootD[k - Split(k)][l + Split(k)])
      BY <2>2, <1>0
    <3>2. j > 1
      <4> SUFFICES ASSUME j <= 1 PROVE FALSE
        OBVIOUS
      <4>1. rootE[j][p] = LeafHash(e[p + 1])
        BY <1>0
      <4>2. LeafHash(e[p + 1]) # NodeHash(rootD[Split(k)][l], rootD[k - Split(k)][l + Split(k)])
        BY HashesApart
      <4> QED
        BY <3>1, <4>1, <4>2
    <3>3. rootE[j][p] = NodeHash(rootE[Split(j)][p], rootE[j - Split(j)][p + Split(j)])
      BY <3>2, <1>0
    <3>4. /\ rootD[Split(k)][l] = rootE[Split(j)][p]
          /\ rootD[k - Split(k)][l + Split(k)] = rootE[j - Split(j)][p + Split(j)]
      <4>1. NodeHash(rootD[Split(k)][l], rootD[k - Split(k)][l + Split(k)])
              = NodeHash(rootE[Split(j)][p], rootE[j - Split(j)][p + Split(j)])
        BY <3>1, <3>3
      <4> QED
        BY <4>1, HashesApart
    <3>5. Split(k) \in 1..(k - 1) /\ Split(j) \in 1..(j - 1)
      BY <2>2, <3>2, SplitFound
    <3>6. Split(k) = Split(j) /\ \A i \in 1..Split(k) : d[l + i] = e[p + i]
      <4>1. Split(k) \in S
        <5>1. Split(k) \in 0..(k - 1)
          BY <3>5
        <5> QED
          BY <1>1, <5>1
      <4>2. Split(k) \in Nat /\ Split(j) \in Nat
        BY <3>5
      <4>3. Tells(Split(k), Split(j), l, p)
        <5> HIDE DEF Tells
        <5> QED
          BY <4>1, <4>2
      <4> QED
        BY <3>4, <3>5, <4>3
    <3>7. /\ k - Split(k) = j - Split(j)
          /\ \A i \in 1..(k - Split(k)) : d[l + Split(k) + i] = e[p + Split(k) + i]
      <4>1. k - Split(k) \in 0..(k - 1) /\ k - Split(k) > 0 /\ j - Split(j) \in Nat /\ j - Split(j) > 0
        BY <3>5
      <4>2. k - Split(k) \in S
        BY <1>1, <4>1
      <4>3. Tells(k - Split(k), j - Split(j), l + Split(k), p + Split(j))
        <5>1. l + Split(k) \in Nat /\ p + Split(j) \in Nat
          BY <3>5
        <5> HIDE DEF Tells
        <5> QED
          BY <4>1, <4>2, <5>1
      <4> QED
        BY <3>4, <3>6, <4>1, <4>3
    <3>8. ASSUME NEW i \in 1..k PROVE d[l + i] = e[p + i]
      <4>1. CASE i <= Split(k)
        BY <3>5, <3>6, <4>1
      <4>2. CASE i > Split(k)
        <5>1. i - Split(k) \in 1..(k - Split(k))
          BY <3>5, <4>2
        <5>2. l + Split(k) + (i - Split(k)) = l + i /\ p + Split(k) + (i - Split(k)) = p + i
          BY <3>5
        <5> QED
          BY <3>7, <5>1, <5>2
      <4> QED
        BY <3>5, <4>1, <4>2
    <3> QED
      BY <3>5, <3>6, <3>7, <3>8
  <2> QED
    BY <2>1, <2>2
<1> HIDE DEF S
<1>2. Nat \subseteq S
  BY <1>1, AllNumbers
<1>3. Tells(n, m, lo, low)
  <2> HIDE DEF Tells
  <2> QED
    BY <1>2 DEF S
<1> QED
  BY <1>3 DEF rootD, rootE, Alike

(***************************************************************************)
(* Inclusion                                                               *)
(***************************************************************************)

\* The loop of the verifier starts at the hash of the leaf and takes one step of the
\* proof at a time.
LEMMA ClimbedDef ==
  ASSUME NEW data, NEW proof, NEW k \in Nat
  PROVE  Climbed(data, proof)[k] =
           IF k = 0 THEN LeafHash(data) ELSE Joined(Climbed(data, proof)[k - 1], proof[k])
<1>1. PICK H : {LeafHash(data)} \cup {proof[i].hash : i \in Nat} \subseteq H /\ Closed(H)
  BY HashesExist
<1> DEFINE Rule(g, n) == IF n = 0 THEN LeafHash(data) ELSE Joined(g[n - 1], proof[n])
           F == [n \in Nat |-> [g \in [Nat -> H] |-> Rule(g, n)]]
<1>2. ASSUME NEW n \in Nat, NEW g, NEW h, \A i \in 0..(n - 1) : g[i] = h[i]
      PROVE  Rule(g, n) = Rule(h, n)
  <2>1. n # 0 => n - 1 \in 0..(n - 1)
    OBVIOUS
  <2> QED
    BY <1>2, <2>1
<1>3. ASSUME NEW n \in Nat, NEW g \in [Nat -> H] PROVE Rule(g, n) \in H
  <2>1. CASE n = 0
    BY <1>1, <2>1
  <2>2. CASE n # 0
    <3>1. g[n - 1] \in H /\ proof[n].hash \in H
      BY <1>1, <2>2
    <3> QED
      BY <1>1, <2>2, <3>1 DEF Closed, Joined
  <2> QED
    BY <2>1, <2>2
<1> HIDE DEF Rule
<1>4. F \in [Nat -> [[Nat -> H] -> H]] /\ \A n \in Nat, g \in [Nat -> H] : F[n][g] = Rule(g, n)
  BY <1>3
<1> HIDE DEF F
<1>5. PICK f \in [Nat -> H] : Follows(f, F)
  <2>1. H # {}
    BY <1>1
  <2>2. ASSUME NEW n \in Nat, NEW g \in [Nat -> H], NEW h \in [Nat -> H],
               \A i \in 0..(n - 1) : g[i] = h[i]
        PROVE  F[n][g] = F[n][h]
    <3>1. Rule(g, n) = Rule(h, n)
      BY <1>2, <2>2
    <3> QED
      BY <1>4, <3>1
  <2>3. IsRule(F, H)
    BY <1>4, <2>1, <2>2 DEF IsRule
  <2> QED
    BY <2>3, Recursion
<1>6. f = [n \in Nat |-> Rule(f, n)]
  BY <1>4, <1>5 DEF Follows
<1>7. Climbed(data, proof) = [n \in Nat |-> Rule(Climbed(data, proof), n)]
  BY <1>6 DEF Climbed, Rule
<1> DEFINE current == Climbed(data, proof)
<1>8. current[k] = Rule(current, k)
  BY <1>7
<1> HIDE DEF current
<1>9. current[k] = IF k = 0 THEN LeafHash(data) ELSE Joined(current[k - 1], proof[k])
  BY <1>8 DEF Rule
<1> QED
  BY <1>9 DEF current

\* A proof with one more step at its end joins that step to what the proof gave.
LEMMA ClimbedAppend ==
  ASSUME NEW data, NEW T, NEW proof \in Seq(T), NEW step \in T
  PROVE  Climbed(data, Append(proof, step))[Len(proof) + 1]
           = Joined(Climbed(data, proof)[Len(proof)], step)
<1> DEFINE longer == Append(proof, step)
           current == Climbed(data, proof)
           further == Climbed(data, longer)
           S == {k \in Nat : k <= Len(proof) => further[k] = current[k]}
<1>1. /\ Len(proof) \in Nat /\ longer[Len(proof) + 1] = step
      /\ \A i \in 1..Len(proof) : longer[i] = proof[i]
  OBVIOUS
<1>2. \A k \in Nat :
        /\ current[k] = IF k = 0 THEN LeafHash(data) ELSE Joined(current[k - 1], proof[k])
        /\ further[k] = IF k = 0 THEN LeafHash(data) ELSE Joined(further[k - 1], longer[k])
  BY ClimbedDef
<1> HIDE DEF longer, current, further
<1>3. ASSUME NEW k \in Nat, \A i \in 0..(k - 1) : i \in S PROVE k \in S
  <2> SUFFICES ASSUME k <= Len(proof) PROVE further[k] = current[k]
    OBVIOUS
  <2>1. CASE k = 0
    BY <1>2, <2>1
  <2>2. CASE k # 0
    <3>1. k - 1 \in 0..(k - 1) /\ k \in 1..Len(proof)
      BY <1>1, <2>2
    <3>2. further[k - 1] = current[k - 1]
      BY <1>1, <1>3, <3>1
    <3> QED
      BY <1>1, <1>2, <2>2, <3>1, <3>2
  <2> QED
    BY <2>1, <2>2
<1> HIDE DEF S
<1>4. Nat \subseteq S
  BY <1>3, AllNumbers
<1>5. further[Len(proof)] = current[Len(proof)]
  BY <1>1, <1>4 DEF S
<1>6. Len(proof) + 1 \in Nat /\ Len(proof) + 1 # 0 /\ (Len(proof) + 1) - 1 = Len(proof)
  BY <1>1
<1>7. further[Len(proof) + 1] = Joined(further[Len(proof)], longer[Len(proof) + 1])
  BY <1>2, <1>6
<1> QED
  BY <1>1, <1>5, <1>7 DEF longer, current, further

Roots(d) == {ComputeRoot(d)[n][lo] : n \in Nat, lo \in Nat}
Steps(d) == [hash : Roots(d), side : {"left", "right"}]

\* What _build_inclusion_path adds to the path for a range of more than one leaf.
PathStep(path, index, d, n, lo) ==
  IF index - lo < Split(n)
  THEN Append(path[Split(n)][lo],
              [hash |-> ComputeRoot(d)[n - Split(n)][lo + Split(n)], side |-> "right"])
  ELSE Append(path[n - Split(n)][lo + Split(n)],
              [hash |-> ComputeRoot(d)[Split(n)][lo], side |-> "left"])

\* The path of a single leaf is empty; that of a range goes on from the path of the
\* part that has the leaf.
LEMMA InclusionPathDef ==
  ASSUME NEW index \in Int, NEW d, NEW n \in Nat, NEW lo \in Nat
  PROVE  /\ InclusionPath(index, d)[n][lo] \in Seq(Steps(d))
         /\ InclusionPath(index, d)[n][lo] =
              IF n <= 1 THEN <<>> ELSE PathStep(InclusionPath(index, d), index, d, n, lo)
<1> DEFINE T == [Nat -> Seq(Steps(d))]
           At(g, k, i) == IF k <= 1 THEN <<>> ELSE PathStep(g, index, d, k, i)
           Rule(g, k) == [i \in Nat |-> At(g, k, i)]
           F == [k \in Nat |-> [g \in [Nat -> T] |-> Rule(g, k)]]
<1>1. \A k \in Nat : k > 1 => /\ Split(k) \in 0..(k - 1) /\ Split(k) \in Nat
                              /\ k - Split(k) \in 0..(k - 1) /\ k - Split(k) \in Nat
  BY SplitFound
<1>2. ASSUME NEW k \in Nat, NEW i \in Nat, NEW side \in {"left", "right"}
      PROVE  [hash |-> ComputeRoot(d)[k][i], side |-> side] \in Steps(d)
  <2>1. ComputeRoot(d)[k][i] \in Roots(d)
    BY DEF Roots
  <2> QED
    BY <2>1 DEF Steps
<1>3. ASSUME NEW k \in Nat, NEW g, NEW i \in Nat,
             \A j \in 0..(k - 1) : \A l \in Nat : g[j][l] \in Seq(Steps(d))
      PROVE  At(g, k, i) \in Seq(Steps(d))
  <2>1. CASE k <= 1
    BY <2>1
  <2>2. CASE k > 1
    <3>1. /\ g[Split(k)][i] \in Seq(Steps(d))
          /\ g[k - Split(k)][i + Split(k)] \in Seq(Steps(d))
      BY <1>1, <1>3, <2>2
    <3>2. /\ [hash |-> ComputeRoot(d)[k - Split(k)][i + Split(k)], side |-> "right"] \in Steps(d)
          /\ [hash |-> ComputeRoot(d)[Split(k)][i], side |-> "left"] \in Steps(d)
      <4>1. Split(k) \in Nat /\ k - Split(k) \in Nat /\ i + Split(k) \in Nat
        BY <1>1, <2>2
      <4>2. [hash |-> ComputeRoot(d)[k - Split(k)][i + Split(k)], side |-> "right"] \in Steps(d)
        BY <1>2, <4>1
      <4>3. [hash |-> ComputeRoot(d)[Split(k)][i], side |-> "left"] \in Steps(d)
        BY <1>2, <4>1
      <4> QED
        BY <4>2, <4>3
    <3> QED
      BY <2>2, <3>1, <3>2 DEF PathStep
  <2> QED
    BY <2>1, <2>2
<1>4. ASSUME NEW k \in Nat, NEW g, NEW h, \A i \in 0..(k - 1) : g[i] = h[i]
      PROVE  Rule(g, k) = Rule(h, k)
  <2>1. CASE k <= 1
    BY <2>1
  <2>2. CASE k > 1
    <3>1. g[Split(k)] = h[Split(k)] /\ g[k - Split(k)] = h[k - Split(k)]
      BY <1>1, <1>4, <2>2
    <3> QED
      BY <3>1 DEF PathStep
  <2> QED
    BY <2>1, <2>2
<1>5. ASSUME NEW k \in Nat, NEW g \in [Nat -> T] PROVE Rule(g, k) \in T
  <2>1. \A j \in 0..(k - 1) : \A l \in Nat : g[j][l] \in Seq(Steps(d))
    <3>1. \A j \in 0..(k - 1) : g[j] \in T
      OBVIOUS
    <3> QED
      BY <3>1
  <2>2. \A i \in Nat : At(g, k, i) \in Seq(Steps(d))
    <3> HIDE DEF At
    <3> QED
      BY <1>3, <2>1
  <2> HIDE DEF At
  <2> QED
    BY <2>2
<1> HIDE DEF Rule
<1>6. F \in [Nat -> [[Nat -> T] -> T]] /\ \A k \in Nat, g \in [Nat -> T] : F[k][g] = Rule(g, k)
  BY <1>5
<1> HIDE DEF F
<1>7. PICK f \in [Nat -> T] : Follows(f, F)
  <2>1. [i \in Nat |-> <<>>] \in T
    OBVIOUS
  <2> HIDE DEF T
  <2>2. ASSUME NEW k \in Nat, NEW g \in [Nat -> T], NEW h \in [Nat -> T],
               \A i \in 0..(k - 1) : g[i] = h[i]
        PROVE  F[k][g] = F[k][h]
    <3>1. Rule(g, k) = Rule(h, k)
      BY <1>4, <2>2
    <3> QED
      BY <1>6, <3>1
  <2>3. IsRule(F, T)
    BY <1>6, <2>1, <2>2 DEF IsRule
  <2> QED
    BY <2>3, Recursion
<1>8. f = [k \in Nat |-> Rule(f, k)]
  BY <1>6, <1>7 DEF Follows
<1> DEFINE path == InclusionPath(index, d)
<1>9. path = [k \in Nat |-> Rule(path, k)]
  BY <1>8 DEF InclusionPath, Rule, PathStep
<1> HIDE DEF path
<1>10. ASSUME NEW k \in Nat, NEW i \in Nat PROVE path[k][i] = At(path, k, i)
  <2>1. path[k] = Rule(path, k)
    BY <1>9
  <2> HIDE DEF At
  <2> QED
    BY <2>1 DEF Rule
<1> DEFINE S == {k \in Nat : \A i \in Nat : path[k][i] \in Seq(Steps(d))}
<1>11. ASSUME NEW k \in Nat, \A i \in 0..(k - 1) : i \in S PROVE k \in S
  <2>1. \A j \in 0..(k - 1) : \A l \in Nat : path[j][l] \in Seq(Steps(d))
    BY <1>11
  <2> HIDE DEF At
  <2>2. ASSUME NEW i \in Nat PROVE path[k][i] \in Seq(Steps(d))
    <3>1. At(path, k, i) \in Seq(Steps(d))
      BY <1>3, <2>1
    <3> QED
      BY <1>10, <3>1
  <2> QED
    BY <2>2
<1> HIDE DEF S
<1>12. Nat \subseteq S
  BY <1>11, AllNumbers
<1> QED
  BY <1>10, <1>12 DEF S, path

\* A history with one leaf replaced.
LeafSet(d, index, data) == [j \in Nat |-> IF j = index + 1 THEN data ELSE d[j]]

\* Climbing the path of a leaf gives the root of the leaves with what was climbed
\* from in its place: the path depends on the other leaves alone.
LEMMA InclusionPathClimbs ==
  ASSUME NEW index \in Nat, NEW d, NEW data, NEW n \in Nat, NEW lo \in Nat,
         lo <= index, index < lo + n
  PROVE  VerifyInclusion(data, InclusionPath(index, d)[n][lo],
                         ComputeRoot(LeafSet(d, index, data))[n][lo])
<1> DEFINE path == InclusionPath(index, d)
           rootD == ComputeRoot(d)
           e == LeafSet(d, index, data)
           rootE == ComputeRoot(e)
           Top(p) == Climbed(data, p)[Len(p)]
           S == {k \in Nat : \A l \in Nat :
                   l <= index /\ index < l + k => Top(path[k][l]) = rootE[k][l]}
<1>0. index \in Int /\ e[index + 1] = data /\ \A i \in Nat : i # index + 1 => d[i] = e[i]
  BY DEF LeafSet
<1> HIDE DEF e
<1>1. \A k, l \in Nat :
        /\ path[k][l] \in Seq(Steps(d))
        /\ path[k][l] = IF k <= 1 THEN <<>> ELSE PathStep(path, index, d, k, l)
  BY <1>0, InclusionPathDef
<1>2. \A k, l \in Nat :
        rootE[k][l] = IF k <= 1 THEN LeafHash(e[l + 1])
                      ELSE NodeHash(rootE[Split(k)][l], rootE[k - Split(k)][l + Split(k)])
  BY ComputeRootDef
<1>3. ASSUME NEW p \in Seq(Steps(d)), NEW hash \in Roots(d), NEW side \in {"left", "right"}
      PROVE  Top(Append(p, [hash |-> hash, side |-> side])) =
               IF side = "left" THEN NodeHash(hash, Top(p)) ELSE NodeHash(Top(p), hash)
  <2> DEFINE step == [hash |-> hash, side |-> side]
  <2>1. step \in Steps(d) /\ step.side = side /\ step.hash = hash
    BY DEF Steps
  <2> HIDE DEF step
  <2>2. Len(Append(p, step)) = Len(p) + 1
    BY <2>1
  <2>3. Climbed(data, Append(p, step))[Len(p) + 1] = Joined(Climbed(data, p)[Len(p)], step)
    BY <2>1, ClimbedAppend
  <2>4. Top(Append(p, step)) = Joined(Top(p), step)
    BY <2>2, <2>3
  <2> HIDE DEF Top
  <2>5. Joined(Top(p), step) = IF side = "left" THEN NodeHash(hash, Top(p)) ELSE NodeHash(Top(p), hash)
    BY <2>1 DEF Joined
  <2> QED
    BY <2>4, <2>5 DEF step
<1>4. Top(<<>>) = LeafHash(data)
  BY ClimbedDef
<1>5. \A k, l \in Nat : k > 0 /\ SameRange(d, e, k, l) => rootD[k][l] = rootE[k][l]
  BY SameLeavesSameRoot
<1>6. \A p \in Seq(Steps(d)), hash \in Roots(d) :
        /\ Top(Append(p, [hash |-> hash, side |-> "left"])) = NodeHash(hash, Top(p))
        /\ Top(Append(p, [hash |-> hash, side |-> "right"])) = NodeHash(Top(p), hash)
  <2> HIDE DEF Top
  <2> QED
    BY <1>3
<1> HIDE DEF Top
<1>7. ASSUME NEW k \in Nat, \A i \in 0..(k - 1) : i \in S PROVE k \in S
  <2> SUFFICES ASSUME NEW l \in Nat, l <= index, index < l + k
               PROVE  Top(path[k][l]) = rootE[k][l]
    OBVIOUS
  <2>1. CASE k <= 1
    <3>1. l = index /\ path[k][l] = <<>>
      BY <1>1, <2>1
    <3> HIDE DEF path, rootE
    <3>2. rootE[k][l] = LeafHash(e[l + 1])
      BY <1>2, <2>1
    <3> QED
      BY <1>0, <1>4, <3>1, <3>2
  <2>2. CASE k > 1
    <3> DEFINE s == Split(k)
    <3>1. s \in Nat /\ s \in 0..(k - 1) /\ s > 0 /\ k - s \in 0..(k - 1) /\ k - s \in Nat /\ k - s > 0 /\ s < k
      BY <2>2, SplitFound
    <3> HIDE DEF s
    <3>2. rootE[k][l] = NodeHash(rootE[s][l], rootE[k - s][l + s])
      <4> HIDE DEF rootE
      <4> QED
        BY <1>2, <2>2 DEF s
    <3>3. path[s][l] \in Seq(Steps(d)) /\ path[k - s][l + s] \in Seq(Steps(d))
      BY <1>1, <3>1
    <3>4. rootD[s][l] \in Roots(d) /\ rootD[k - s][l + s] \in Roots(d)
      BY <3>1 DEF Roots
    <3>5. CASE index - l < s
      <4>1. path[k][l] = Append(path[s][l], [hash |-> rootD[k - s][l + s], side |-> "right"])
        <5>1. path[k][l] = PathStep(path, index, d, k, l)
          BY <1>1, <2>2
        <5> QED
          BY <3>5, <5>1 DEF PathStep, s
      <4>2. Top(path[k][l]) = NodeHash(Top(path[s][l]), rootD[k - s][l + s])
        <5> HIDE DEF path, rootD
        <5> QED
          BY <1>6, <3>3, <3>4, <4>1
      <4>3. Top(path[s][l]) = rootE[s][l]
        <5>1. index < l + s
          BY <3>1, <3>5
        <5>2. s \in S
          BY <1>7, <3>1
        <5> HIDE DEF path, rootE
        <5> QED
          BY <5>1, <5>2
      <4>4. rootD[k - s][l + s] = rootE[k - s][l + s]
        <5>1. SameRange(d, e, k - s, l + s) /\ l + s \in Nat
          BY <1>0, <3>1, <3>5 DEF SameRange
        <5> HIDE DEF rootD, rootE
        <5> QED
          BY <1>5, <3>1, <5>1
      <4> HIDE DEF path, rootD, rootE
      <4> QED
        BY <3>2, <4>2, <4>3, <4>4
    <3>6. CASE index - l >= s
      <4>1. path[k][l] = Append(path[k - s][l + s], [hash |-> rootD[s][l], side |-> "left"])
        <5>1. path[k][l] = PathStep(path, index, d, k, l)
          BY <1>1, <2>2
        <5>2. ~ (index - l < s)
          BY <3>1, <3>6
        <5> QED
          BY <5>1, <5>2 DEF PathStep, s
      <4>2. Top(path[k][l]) = NodeHash(rootD[s][l], Top(path[k - s][l + s]))
        <5> DEFINE p == path[k - s][l + s]
                   hash == rootD[s][l]
        <5>1. p \in Seq(Steps(d)) /\ hash \in Roots(d)
          BY <3>3, <3>4
        <5>2. path[k][l] = Append(p, [hash |-> hash, side |-> "left"])
          BY <4>1
        <5> HIDE DEF p, hash, path
        <5>3. Top(Append(p, [hash |-> hash, side |-> "left"])) = NodeHash(hash, Top(p))
          BY <1>6, <5>1
        <5>4. Top(path[k][l]) = NodeHash(hash, Top(p))
          BY <5>2, <5>3
        <5> QED
          BY <5>4 DEF p, hash
      <4>3. Top(path[k - s][l + s]) = rootE[k - s][l + s]
        <5>1. index < l + s + (k - s) /\ l + s <= index /\ l + s \in Nat
          BY <3>1, <3>6
        <5>2. k - s \in S
          BY <1>7, <3>1
        <5> HIDE DEF path, rootE
        <5> QED
          BY <5>1, <5>2
      <4>4. rootD[s][l] = rootE[s][l]
        <5>1. SameRange(d, e, s, l)
          BY <1>0, <3>1, <3>6 DEF SameRange
        <5> HIDE DEF rootD, rootE
        <5> QED
          BY <1>5, <3>1, <5>1
      <4> HIDE DEF path, rootD, rootE
      <4> QED
        BY <3>2, <4>2, <4>3, <4>4
    <3> QED
      BY <3>1, <3>5, <3>6
  <2> QED
    BY <2>1, <2>2
<1> HIDE DEF S
<1>8. Nat \subseteq S
  BY <1>7, AllNumbers
<1>9. Top(path[n][lo]) = rootE[n][lo]
  BY <1>8 DEF S
<1> QED
  BY <1>9 DEF Top, VerifyInclusion, e

\* No range has the root of an empty tree.
LEMMA RootNotEmpty ==
  ASSUME NEW d, NEW n \in Nat, NEW lo \in Nat
  PROVE  ComputeRoot(d)[n][lo] # EmptyHash
<1> DEFINE left == ComputeRoot(d)[Split(n)][lo]
           right == ComputeRoot(d)[n - Split(n)][lo + Split(n)]
<1>1. ComputeRoot(d)[n][lo] = IF n <= 1 THEN LeafHash(d[lo + 1]) ELSE NodeHash(left, right)
  BY ComputeRootDef
<1>2. LeafHash(d[lo + 1]) # EmptyHash /\ NodeHash(left, right) # EmptyHash
  BY HashesApart
<1> HIDE DEF left, right
<1> QED
  BY <1>1, <1>2

\* A path of any steps that ends at the root of a range starts at one of its leaves.
LEMMA ClimbsFromALeaf ==
  ASSUME NEW d, NEW data, NEW proof, NEW k \in Nat, NEW n \in Nat, NEW lo \in Nat, n > 0,
         Climbed(data, proof)[k] = ComputeRoot(d)[n][lo]
  PROVE  \E i \in (lo + 1)..(lo + n) : d[i] = data
<1> DEFINE root == ComputeRoot(d)
           current == Climbed(data, proof)
           Has(j, l) == \E i \in (l + 1)..(l + j) : d[i] = data
           S == {c \in Nat : \A j, l \in Nat : j > 0 /\ current[c] = root[j][l] => Has(j, l)}
<1>1. \A j, l \in Nat :
        root[j][l] = IF j <= 1 THEN LeafHash(d[l + 1])
                     ELSE NodeHash(root[Split(j)][l], root[j - Split(j)][l + Split(j)])
  BY ComputeRootDef
<1>2. \A c \in Nat :
        current[c] = IF c = 0 THEN LeafHash(data) ELSE Joined(current[c - 1], proof[c])
  BY ClimbedDef
<1>3. \A j, l \in Nat : j > 1 /\ (Has(Split(j), l) \/ Has(j - Split(j), l + Split(j))) => Has(j, l)
  <2> SUFFICES ASSUME NEW j \in Nat, NEW l \in Nat, j > 1,
                      Has(Split(j), l) \/ Has(j - Split(j), l + Split(j))
               PROVE  Has(j, l)
    OBVIOUS
  <2>1. Split(j) \in 1..(j - 1)
    BY SplitFound
  <2> QED
    BY <2>1
<1> HIDE DEF root, current
<1>4. ASSUME NEW c \in Nat, \A i \in 0..(c - 1) : i \in S PROVE c \in S
  <2> SUFFICES ASSUME NEW j \in Nat, NEW l \in Nat, j > 0, current[c] = root[j][l] PROVE Has(j, l)
    OBVIOUS
  <2> DEFINE left == root[Split(j)][l]
             right == root[j - Split(j)][l + Split(j)]
  <2>1. j > 1 => root[j][l] = NodeHash(left, right)
    BY <1>1
  <2>2. j <= 1 => root[j][l] = LeafHash(d[l + 1])
    BY <1>1
  <2>3. CASE c = 0
    <3>1. current[c] = LeafHash(data)
      BY <1>2, <2>3
    <3>2. j <= 1
      <4>1. LeafHash(data) # NodeHash(left, right)
        BY HashesApart
      <4> HIDE DEF left, right
      <4> QED
        BY <2>1, <3>1, <4>1
    <3>3. LeafHash(data) = LeafHash(d[l + 1])
      BY <2>2, <3>1, <3>2
    <3>4. d[l + 1] = data
      BY <3>3, HashesApart
    <3>5. l + 1 \in (l + 1)..(l + j)
      OBVIOUS
    <3> QED
      BY <3>4, <3>5
  <2>4. CASE c # 0
    <3> DEFINE x == current[c - 1]
               y == proof[c].hash
    <3>1. current[c] = IF proof[c].side = "left" THEN NodeHash(y, x) ELSE NodeHash(x, y)
      BY <1>2, <2>4 DEF Joined
    <3>2. j > 1
      <4>1. LeafHash(d[l + 1]) # NodeHash(y, x) /\ LeafHash(d[l + 1]) # NodeHash(x, y)
        BY HashesApart
      <4> HIDE DEF x, y
      <4> QED
        BY <2>2, <3>1, <4>1
    <3>3. NodeHash(left, right) = NodeHash(y, x) \/ NodeHash(left, right) = NodeHash(x, y)
      <4> HIDE DEF left, right, x, y
      <4> QED
        BY <2>1, <3>1, <3>2
    <3>4. x = left \/ x = right
      <4> HIDE DEF left, right, x, y
      <4> QED
        BY <3>3, HashesApart
    <3>5. c - 1 \in 0..(c - 1) /\ c - 1 \in Nat
      BY <2>4
    <3>6. c - 1 \in S
      BY <1>4, <3>5
    <3>7. /\ Split(j) \in Nat /\ Split(j) > 0
          /\ j - Split(j) \in Nat /\ j - Split(j) > 0 /\ l + Split(j) \in Nat
      BY <3>2, SplitFound
    <3> HIDE DEF Has
    <3>8. \A i, p \in Nat : i > 0 /\ current[c - 1] = root[i][p] => Has(i, p)
      BY <3>6
    <3>9. Has(Split(j), l) \/ Has(j - Split(j), l + Split(j))
      BY <3>4, <3>7, <3>8
    <3> QED
      BY <1>3, <3>2, <3>9
  <2> QED
    BY <2>3, <2>4
<1> HIDE DEF S
<1>5. Nat \subseteq S
  BY <1>4, AllNumbers
<1>6. Has(n, lo)
  <2>1. current[k] = root[n][lo]
    BY DEF current, root
  <2> HIDE DEF Has
  <2> QED
    BY <1>5, <2>1 DEF S
<1> QED
  BY <1>6

\* No proof at all, whatever its steps, verifies data that is not in the tree: of
\* verify_inclusion_static against the root of any history.
THEOREM NoFalseInclusion ==
  ASSUME NEW d \in Seq(Data), NEW data, NEW T, NEW proof \in Seq(T),
         VerifyInclusion(data, proof, Root(d))
  PROVE  \E i \in 1..Len(d) : d[i] = data
<1>1. Climbed(data, proof)[Len(proof)] = Root(d) /\ Len(proof) \in Nat /\ Len(d) \in Nat
  BY DEF VerifyInclusion
<1>2. CASE d = <<>>
  <2> DEFINE k == Len(proof)
             x == Climbed(data, proof)[k - 1]
             y == proof[k].hash
  <2>1. Climbed(data, proof)[k] =
          IF k = 0 THEN LeafHash(data)
          ELSE IF proof[k].side = "left" THEN NodeHash(y, x) ELSE NodeHash(x, y)
    BY <1>1, ClimbedDef DEF Joined
  <2>2. LeafHash(data) # EmptyHash /\ NodeHash(y, x) # EmptyHash /\ NodeHash(x, y) # EmptyHash
    BY HashesApart
  <2>3. Climbed(data, proof)[k] = EmptyHash
    BY <1>1, <1>2 DEF Root
  <2> HIDE DEF x, y, k
  <2> QED
    BY <2>1, <2>2, <2>3
<1>3. CASE d # <<>>
  <2>1. Len(d) > 0 /\ Root(d) = ComputeRoot(d)[Len(d)][0]
    BY <1>3 DEF Root
  <2>2. \E i \in (0 + 1)..(0 + Len(d)) : d[i] = data
    BY <1>1, <2>1, ClimbsFromALeaf
  <2> QED
    BY <1>1, <2>2
<1> QED
  BY <1>2, <1>3

SameLeaves(d, e, n) == \A i \in 1..n : d[i] = e[i]

\* Two histories of one size have the same root exactly if they are the same.
LEMMA SameRootIffSame ==
  ASSUME NEW d, NEW e, NEW n \in Nat, n > 0
  PROVE  ComputeRoot(d)[n][0] = ComputeRoot(e)[n][0] <=> SameLeaves(d, e, n)
<1>1. ASSUME SameLeaves(d, e, n) PROVE ComputeRoot(d)[n][0] = ComputeRoot(e)[n][0]
  <2>1. 0 \in Nat /\ SameRange(d, e, n, 0)
    BY <1>1 DEF SameLeaves, SameRange
  <2> QED
    BY <2>1, SameLeavesSameRoot
<1>2. ASSUME ComputeRoot(d)[n][0] = ComputeRoot(e)[n][0] PROVE SameLeaves(d, e, n)
  <2>1. PICK lo \in Nat : lo = 0
    OBVIOUS
  <2>2. ComputeRoot(d)[n][lo] = ComputeRoot(e)[n][lo]
    BY <1>2, <2>1
  <2>3. \A i \in 1..n : d[lo + i] = e[lo + i]
    BY <2>2, RootTellsLeaves DEF Alike
  <2>4. \A i \in 1..n : lo + i = i
    BY <2>1
  <2> QED
    BY <2>3, <2>4 DEF SameLeaves
<1> QED
  BY <1>1, <1>2

\* Histories of two sizes have two roots.
LEMMA OtherSizeOtherRoot ==
  ASSUME NEW d, NEW e, NEW n \in Nat, NEW m \in Nat, n > 0, m > 0, n # m
  PROVE  ComputeRoot(d)[n][0] # ComputeRoot(e)[m][0]
<1>1. ASSUME NEW lo \in Nat, ComputeRoot(d)[n][lo] = ComputeRoot(e)[m][lo]
      PROVE  n = m /\ Alike(d, e, n, lo, lo)
  BY <1>1, RootTellsLeaves
<1>2. \A lo \in Nat : ComputeRoot(d)[n][lo] # ComputeRoot(e)[m][lo]
  BY <1>1, Zenon
<1>3. 0 \in Nat
  OBVIOUS
<1> QED
  BY <1>2, <1>3, Zenon

\* The proof of a leaf verifies the data that belongs there and no other.
LEMMA InclusionExact ==
  ASSUME NEW d \in Seq(Data), NEW i \in 0..(Len(d) - 1), NEW data
  PROVE  /\ VerifyInclusion(data, InclusionProof(i, d), Root(d)) <=> data = d[i + 1]
         /\ \A c \in Seq(Data) :
              Len(c) # Len(d) => ~ VerifyInclusion(data, InclusionProof(i, d), Root(c))
<1> DEFINE n == Len(d)
           e == LeafSet(d, i, data)
           proof == InclusionProof(i, d)
<1>1. n \in Nat /\ n > 0 /\ i \in Nat /\ i < n
  OBVIOUS
<1>2. e[i + 1] = data /\ \A j \in 1..n : j # i + 1 => e[j] = d[j]
  BY <1>1 DEF LeafSet
<1> HIDE DEF e
<1>3. VerifyInclusion(data, proof, ComputeRoot(e)[n][0])
  BY <1>1, InclusionPathClimbs DEF InclusionProof, e
<1>4. \A root : VerifyInclusion(data, proof, root) <=> ComputeRoot(e)[n][0] = root
  BY <1>3 DEF VerifyInclusion
<1> HIDE DEF proof
<1>5. Root(d) = ComputeRoot(d)[n][0]
  BY <1>1 DEF Root
<1>6. SameLeaves(e, d, n) <=> data = d[i + 1]
  <2>1. i + 1 \in 1..n
    BY <1>1
  <2> QED
    BY <1>2, <2>1 DEF SameLeaves
<1>7. ComputeRoot(e)[n][0] = ComputeRoot(d)[n][0] <=> data = d[i + 1]
  BY <1>1, <1>6, SameRootIffSame
<1>8. ASSUME NEW c \in Seq(Data), Len(c) # n PROVE ComputeRoot(e)[n][0] # Root(c)
  <2>1. CASE c = <<>>
    BY <1>1, <2>1, RootNotEmpty DEF Root
  <2>2. CASE c # <<>>
    <3>1. Len(c) \in Nat /\ Len(c) > 0 /\ Root(c) = ComputeRoot(c)[Len(c)][0]
      BY <2>2 DEF Root
    <3> QED
      BY <1>1, <1>8, <3>1, OtherSizeOtherRoot
  <2> QED
    BY <2>1, <2>2
<1> QED
  BY <1>4, <1>5, <1>7, <1>8 DEF proof

\* A history cut short is one.
LEMMA PrefixTyped ==
  ASSUME TreeTypeOK, NEW m \in 0..Len(leaves)
  PROVE  /\ Prefix(m) \in Seq(Data) /\ Len(Prefix(m)) = m
         /\ \A i \in 1..m : Prefix(m)[i] = leaves[i]
BY DEF TreeTypeOK, Prefix

\* The tree only ever holds data, and never more than the bound.
THEOREM TreeTypeCorrect == TreeSpec => []TreeTypeOK
<1>1. TreeInit => TreeTypeOK
  BY MerkleAssumption DEF TreeInit, TreeTypeOK
<1>2. TreeTypeOK /\ [TreeNext]_leaves => TreeTypeOK'
  <2> SUFFICES ASSUME TreeTypeOK, [TreeNext]_leaves PROVE TreeTypeOK'
    OBVIOUS
  <2>1. CASE UNCHANGED leaves
    BY <2>1 DEF TreeTypeOK
  <2>2. ASSUME NEW data \in Data, AddLeaf(data) PROVE TreeTypeOK'
    BY <2>2, MerkleAssumption DEF AddLeaf, TreeTypeOK
  <2> QED
    BY <2>1, <2>2 DEF TreeNext
<1> QED
  BY <1>1, <1>2, PTL DEF TreeSpec

\* Every leaf of the tree has a proof that verifies its data alone, and against the
\* present root alone.
LEMMA InclusionInEveryTree == TreeTypeOK => InclusionIsExact
<1> SUFFICES ASSUME TreeTypeOK, NEW i \in 0..(Len(leaves) - 1), NEW data \in Data
             PROVE  /\ VerifyInclusion(data, InclusionProof(i, leaves), Root(leaves)) <=> data = leaves[i + 1]
                    /\ \A m \in 0..(Len(leaves) - 1) :
                         ~ VerifyInclusion(data, InclusionProof(i, leaves), Root(Prefix(m)))
  BY DEF InclusionIsExact
<1>1. leaves \in Seq(Data) /\ Len(leaves) \in Nat
  BY DEF TreeTypeOK
<1>2. VerifyInclusion(data, InclusionProof(i, leaves), Root(leaves)) <=> data = leaves[i + 1]
  BY <1>1, InclusionExact
<1>3. ASSUME NEW m \in 0..(Len(leaves) - 1)
      PROVE  ~ VerifyInclusion(data, InclusionProof(i, leaves), Root(Prefix(m)))
  <2>1. m \in 0..Len(leaves) /\ m # Len(leaves)
    BY <1>1
  <2>2. Prefix(m) \in Seq(Data) /\ Len(Prefix(m)) # Len(leaves)
    BY <2>1, PrefixTyped
  <2> QED
    BY <1>1, <2>2, InclusionExact
<1> QED
  BY <1>2, <1>3

\* Inclusion proofs of the tree are exact at every size: with add_leaf in any order
\* and number, verify_inclusion_static accepts the data of the leaf and no other.
THEOREM InclusionHolds == TreeSpec => []InclusionIsExact
BY TreeTypeCorrect, InclusionInEveryTree, PTL

(***************************************************************************)
(* Consistency                                                             *)
(***************************************************************************)

\* The parts of a range that has a leaf which is not old are smaller than it.
LEMMA PartsSmaller ==
  ASSUME NEW n \in Nat, NEW m \in Nat, m < n
  PROVE  /\ Split(n) \in Nat /\ Split(n) \in 0..(n - 1)
         /\ m > Split(n) => /\ n > 1 /\ Split(n) > 0
                            /\ n - Split(n) \in Nat /\ n - Split(n) \in 0..(n - 1)
                            /\ m - Split(n) \in Nat
<1>1. CASE n > 1
  BY <1>1, SplitFound
<1>2. CASE n <= 1
  <2>1. n = 1 /\ m = 0
    BY <1>2
  <2>2. Split(n) = 0
    BY <2>1 DEF Split
  <2> QED
    BY <2>1, <2>2
<1> QED
  BY <1>1, <1>2

\* What _subproof returns for a range.
SubStep(sub, d, n, m, lo, start) ==
  IF m >= n THEN IF start THEN <<>> ELSE <<ComputeRoot(d)[n][lo]>>
  ELSE IF m <= Split(n)
  THEN Append(sub[Split(n)][m][lo][start], ComputeRoot(d)[n - Split(n)][lo + Split(n)])
  ELSE Append(sub[n - Split(n)][m - Split(n)][lo + Split(n)][FALSE], ComputeRoot(d)[Split(n)][lo])

\* The proof for a range goes on from that for the part which the old tree ends in.
LEMMA SubProofDef ==
  ASSUME NEW d, NEW n \in Nat, NEW m \in Nat, NEW lo \in Nat, NEW start \in BOOLEAN
  PROVE  /\ SubProof(d)[n][m][lo][start] \in Seq(Roots(d))
         /\ SubProof(d)[n][m][lo][start] = SubStep(SubProof(d), d, n, m, lo, start)
<1> DEFINE V == Seq(Roots(d))
           T1 == [BOOLEAN -> V]
           T2 == [Nat -> T1]
           T == [Nat -> T2]
           At(g, k, j, i, s) == SubStep(g, d, k, j, i, s)
           Rule(g, k) == [j \in Nat |-> [i \in Nat |-> [s \in BOOLEAN |-> At(g, k, j, i, s)]]]
           F == [k \in Nat |-> [g \in [Nat -> T] |-> Rule(g, k)]]
<1>1. \A k, i \in Nat : ComputeRoot(d)[k][i] \in Roots(d)
  BY DEF Roots
<1>2. ASSUME NEW k \in Nat, NEW g, NEW j \in Nat, NEW i \in Nat, NEW s \in BOOLEAN,
             \A a \in 0..(k - 1) : \A b, c \in Nat : \A t \in BOOLEAN : g[a][b][c][t] \in V
      PROVE  At(g, k, j, i, s) \in V
  <2>1. CASE j >= k
    <3>1. ComputeRoot(d)[k][i] \in Roots(d)
      BY <1>1
    <3>2. At(g, k, j, i, s) = IF s THEN <<>> ELSE <<ComputeRoot(d)[k][i]>>
      BY <2>1 DEF SubStep
    <3> HIDE DEF At
    <3> QED
      BY <3>1, <3>2
  <2>2. CASE j < k /\ j <= Split(k)
    <3>1. Split(k) \in Nat /\ Split(k) \in 0..(k - 1)
      BY <2>2, PartsSmaller
    <3>2. g[Split(k)][j][i][s] \in V
      BY <1>2, <3>1
    <3>3. ComputeRoot(d)[k - Split(k)][i + Split(k)] \in Roots(d)
      <4>1. k - Split(k) \in Nat /\ i + Split(k) \in Nat
        BY <3>1
      <4> QED
        BY <1>1, <4>1
    <3>4. At(g, k, j, i, s) = Append(g[Split(k)][j][i][s], ComputeRoot(d)[k - Split(k)][i + Split(k)])
      <4>1. ~ (j >= k) /\ j <= Split(k)
        BY <2>2
      <4> QED
        BY <4>1, Zenon DEF SubStep
    <3> HIDE DEF At
    <3> QED
      BY <3>2, <3>3, <3>4
  <2>3. CASE j < k /\ j > Split(k)
    <3>1. /\ Split(k) \in Nat /\ k - Split(k) \in 0..(k - 1)
          /\ j - Split(k) \in Nat /\ i + Split(k) \in Nat
      BY <2>3, PartsSmaller
    <3>2. g[k - Split(k)][j - Split(k)][i + Split(k)][FALSE] \in V
      BY <1>2, <3>1
    <3>3. ComputeRoot(d)[Split(k)][i] \in Roots(d)
      BY <1>1, <3>1
    <3>4. At(g, k, j, i, s)
            = Append(g[k - Split(k)][j - Split(k)][i + Split(k)][FALSE], ComputeRoot(d)[Split(k)][i])
      <4>1. ~ (j >= k) /\ ~ (j <= Split(k))
        BY <2>3, <3>1
      <4> QED
        BY <4>1, Zenon DEF SubStep
    <3> DEFINE p == g[k - Split(k)][j - Split(k)][i + Split(k)][FALSE]
               hash == ComputeRoot(d)[Split(k)][i]
    <3>5. p \in V /\ hash \in Roots(d) /\ At(g, k, j, i, s) = Append(p, hash)
      BY <3>2, <3>3, <3>4
    <3> HIDE DEF At, p, hash
    <3> QED
      BY <3>5
  <2>4. Split(k) \in Int \/ j >= k
    BY PartsSmaller
  <2> QED
    BY <2>1, <2>2, <2>3, <2>4
<1>3. ASSUME NEW k \in Nat, NEW g, NEW h, \A i \in 0..(k - 1) : g[i] = h[i]
      PROVE  Rule(g, k) = Rule(h, k)
  <2>1. ASSUME NEW j \in Nat, NEW i \in Nat, NEW s \in BOOLEAN PROVE At(g, k, j, i, s) = At(h, k, j, i, s)
    <3>1. ~ (j >= k) => g[Split(k)] = h[Split(k)]
      BY <1>3, PartsSmaller
    <3>2. ~ (j >= k) /\ ~ (j <= Split(k)) => g[k - Split(k)] = h[k - Split(k)]
      BY <1>3, PartsSmaller
    <3> QED
      BY <3>1, <3>2, Zenon DEF SubStep
  <2> HIDE DEF At
  <2> QED
    BY <2>1
<1>4. ASSUME NEW g, NEW k \in Nat,
             \A a \in 0..(k - 1) : \A b, c \in Nat : \A t \in BOOLEAN : g[a][b][c][t] \in V
      PROVE  Rule(g, k) \in T
  <2> HIDE DEF At, V
  <2>1. \A j, i \in Nat : \A s \in BOOLEAN : At(g, k, j, i, s) \in V
    BY <1>2, <1>4
  <2>2. \A j, i \in Nat : [s \in BOOLEAN |-> At(g, k, j, i, s)] \in T1
    BY <2>1
  <2> HIDE DEF T1
  <2> QED
    BY <2>2
<1>5. \A g \in [Nat -> T], k \in Nat : Rule(g, k) \in T
  <2> SUFFICES ASSUME NEW g \in [Nat -> T], NEW k \in Nat PROVE Rule(g, k) \in T
    OBVIOUS
  <2>1. \A a \in Nat : g[a] \in T
    OBVIOUS
  <2>2. \A a, b \in Nat : g[a][b] \in T2
    <3> HIDE DEF T2
    <3> QED
      BY <2>1
  <2>3. \A a, b, c \in Nat : g[a][b][c] \in T1
    <3> HIDE DEF T1
    <3> QED
      BY <2>2
  <2>4. \A a, b, c \in Nat : \A t \in BOOLEAN : g[a][b][c][t] \in V
    <3> HIDE DEF V
    <3> QED
      BY <2>3
  <2> HIDE DEF Rule, T, V
  <2> QED
    BY <1>4, <2>4
<1>6. T # {}
  <2>1. <<>> \in V
    OBVIOUS
  <2> HIDE DEF V
  <2>2. [s \in BOOLEAN |-> <<>>] \in T1
    BY <2>1
  <2> HIDE DEF T1
  <2>3. [i \in Nat |-> [s \in BOOLEAN |-> <<>>]] \in T2
    BY <2>2
  <2> HIDE DEF T2
  <2>4. [j \in Nat |-> [i \in Nat |-> [s \in BOOLEAN |-> <<>>]]] \in T
    BY <2>3
  <2> QED
    BY <2>4
<1> HIDE DEF Rule, T
<1>7. F \in [Nat -> [[Nat -> T] -> T]] /\ \A k \in Nat, g \in [Nat -> T] : F[k][g] = Rule(g, k)
  BY <1>5
<1> HIDE DEF F
<1>8. PICK f \in [Nat -> T] : Follows(f, F)
  <2>1. ASSUME NEW k \in Nat, NEW g \in [Nat -> T], NEW h \in [Nat -> T],
               \A i \in 0..(k - 1) : g[i] = h[i]
        PROVE  F[k][g] = F[k][h]
    <3>1. Rule(g, k) = Rule(h, k)
      BY <1>3, <2>1
    <3> QED
      BY <1>7, <3>1
  <2>2. IsRule(F, T)
    BY <1>6, <1>7, <2>1 DEF IsRule
  <2> QED
    BY <2>2, Recursion
<1>9. f = [k \in Nat |-> Rule(f, k)]
  BY <1>7, <1>8 DEF Follows
<1> DEFINE sub == SubProof(d)
<1>10. sub = [k \in Nat |-> Rule(sub, k)]
  BY <1>9 DEF SubProof, Rule, SubStep
<1> HIDE DEF sub
<1>11. ASSUME NEW k \in Nat, NEW j \in Nat, NEW i \in Nat, NEW s \in BOOLEAN
       PROVE  sub[k][j][i][s] = At(sub, k, j, i, s)
  <2>1. sub[k] = Rule(sub, k)
    BY <1>10
  <2> HIDE DEF At
  <2> QED
    BY <2>1 DEF Rule
<1> DEFINE S == {k \in Nat : \A j, i \in Nat : \A s \in BOOLEAN : sub[k][j][i][s] \in V}
<1>12. ASSUME NEW k \in Nat, \A i \in 0..(k - 1) : i \in S PROVE k \in S
  <2> HIDE DEF V, At
  <2>1. \A a \in 0..(k - 1) : \A b, c \in Nat : \A t \in BOOLEAN : sub[a][b][c][t] \in V
    BY <1>12
  <2>2. ASSUME NEW j \in Nat, NEW i \in Nat, NEW s \in BOOLEAN PROVE sub[k][j][i][s] \in V
    <3>1. At(sub, k, j, i, s) \in V
      BY <1>2, <2>1
    <3> QED
      BY <1>11, <3>1
  <2> QED
    BY <2>2
<1> HIDE DEF S
<1>13. Nat \subseteq S
  BY <1>12, AllNumbers
<1> QED
  BY <1>11, <1>13 DEF S, sub

\* The result of walk for the part which the old tree ends in.
WalkBelow(walk, n, m, start) ==
  IF m <= Split(n) THEN walk[Split(n)][m][start] ELSE walk[n - Split(n)][m - Split(n)][FALSE]

\* What walk returns for a range.
WalkStep(walk, proof, oldRoot, n, m, start) ==
  IF m >= n
  THEN IF start THEN [old |-> oldRoot, new |-> oldRoot, next |-> 1]
       ELSE [old |-> Element(proof, 1), new |-> Element(proof, 1), next |-> 2]
  ELSE LET below == WalkBelow(walk, n, m, start)
       IN Combined(below, Element(proof, below.next), m > Split(n))

\* The verifier goes through the parts of a range as _subproof does.
LEMMA ReplayDef ==
  ASSUME NEW proof, NEW oldRoot, NEW n \in Nat, NEW m \in Nat, NEW start \in BOOLEAN
  PROVE  Replay(proof, oldRoot)[n][m][start]
           = WalkStep(Replay(proof, oldRoot), proof, oldRoot, n, m, start)
<1>1. PICK H : {oldRoot} \cup {Element(proof, i) : i \in Nat} \subseteq H /\ Closed(H)
  BY HashesExist
<1> DEFINE V == [old : H, new : H, next : Nat]
           T1 == [BOOLEAN -> V]
           T == [Nat -> T1]
           At(g, k, j, s) == WalkStep(g, proof, oldRoot, k, j, s)
           Rule(g, k) == [j \in Nat |-> [s \in BOOLEAN |-> At(g, k, j, s)]]
           F == [k \in Nat |-> [g \in [Nat -> T] |-> Rule(g, k)]]
<1>2. ASSUME NEW k \in Nat, NEW g, NEW j \in Nat, NEW s \in BOOLEAN,
             \A a, b \in Nat : \A t \in BOOLEAN : g[a][b][t] \in V
      PROVE  At(g, k, j, s) \in V
  <2>1. CASE j >= k
    <3>1. oldRoot \in H /\ Element(proof, 1) \in H
      BY <1>1
    <3>2. At(g, k, j, s) = IF s THEN [old |-> oldRoot, new |-> oldRoot, next |-> 1]
                           ELSE [old |-> Element(proof, 1), new |-> Element(proof, 1), next |-> 2]
      BY <2>1, Zenon DEF WalkStep
    <3> HIDE DEF At
    <3> QED
      BY <3>1, <3>2
  <2>2. CASE ~ (j >= k)
    <3> DEFINE below == WalkBelow(g, k, j, s)
               sibling == Element(proof, below.next)
    <3>1. below \in V
      <4> HIDE DEF V
      <4>1. CASE j <= Split(k)
        <5>1. Split(k) \in Nat
          BY <2>2, PartsSmaller
        <5>2. g[Split(k)][j][s] \in V
          BY <1>2, <5>1
        <5> QED
          BY <4>1, <5>2 DEF WalkBelow
      <4>2. CASE ~ (j <= Split(k))
        <5>1. k - Split(k) \in Nat /\ j - Split(k) \in Nat
          BY <2>2, <4>2, PartsSmaller
        <5>2. g[k - Split(k)][j - Split(k)][FALSE] \in V
          BY <1>2, <5>1
        <5> QED
          BY <4>2, <5>2 DEF WalkBelow
      <4> QED
        BY <4>1, <4>2
    <3>2. At(g, k, j, s) = Combined(below, sibling, j > Split(k))
      BY <2>2, Zenon DEF WalkStep
    <3> HIDE DEF At, below
    <3>3. sibling \in H
      BY <1>1, <3>1
    <3>4. Combined(below, sibling, j > Split(k)) \in V
      <4> DEFINE left == j > Split(k)
      <4> HIDE DEF left, sibling
      <4>1. /\ NodeHash(sibling, below.old) \in H /\ NodeHash(sibling, below.new) \in H
            /\ NodeHash(below.new, sibling) \in H
        BY <1>1, <3>1, <3>3 DEF Closed
      <4>2. Combined(below, sibling, left) \in V
        BY <3>1, <4>1 DEF Combined
      <4> QED
        BY <4>2 DEF left
    <3> QED
      BY <3>2, <3>4
  <2> QED
    BY <2>1, <2>2
<1>3. ASSUME NEW k \in Nat, NEW g, NEW h, \A i \in 0..(k - 1) : g[i] = h[i]
      PROVE  Rule(g, k) = Rule(h, k)
  <2>1. ASSUME NEW j \in Nat, NEW s \in BOOLEAN PROVE At(g, k, j, s) = At(h, k, j, s)
    <3>1. ~ (j >= k) => g[Split(k)] = h[Split(k)]
      BY <1>3, PartsSmaller
    <3>2. ~ (j >= k) /\ ~ (j <= Split(k)) => g[k - Split(k)] = h[k - Split(k)]
      BY <1>3, PartsSmaller
    <3>3. ~ (j >= k) => WalkBelow(g, k, j, s) = WalkBelow(h, k, j, s)
      BY <3>1, <3>2, Zenon DEF WalkBelow
    <3> QED
      BY <3>3, Zenon DEF WalkStep
  <2> HIDE DEF At
  <2> QED
    BY <2>1
<1>4. \A g \in [Nat -> T], k \in Nat : Rule(g, k) \in T
  <2> SUFFICES ASSUME NEW g \in [Nat -> T], NEW k \in Nat PROVE Rule(g, k) \in T
    OBVIOUS
  <2>1. \A a \in Nat : g[a] \in T
    OBVIOUS
  <2>2. \A a, b \in Nat : g[a][b] \in T1
    <3> HIDE DEF T1
    <3> QED
      BY <2>1
  <2>3. \A a, b \in Nat : \A t \in BOOLEAN : g[a][b][t] \in V
    <3> HIDE DEF V
    <3> QED
      BY <2>2
  <2> HIDE DEF At, V
  <2>4. \A j \in Nat : \A s \in BOOLEAN : At(g, k, j, s) \in V
    BY <1>2, <2>3
  <2>5. \A j \in Nat : [s \in BOOLEAN |-> At(g, k, j, s)] \in T1
    BY <2>4
  <2> HIDE DEF T1
  <2> QED
    BY <2>5
<1>5. T # {}
  <2>1. [old |-> oldRoot, new |-> oldRoot, next |-> 1] \in V
    BY <1>1
  <2> DEFINE v == [old |-> oldRoot, new |-> oldRoot, next |-> 1]
  <2> HIDE DEF V, v
  <2>2. [s \in BOOLEAN |-> v] \in T1
    BY <2>1 DEF v
  <2> HIDE DEF T1
  <2>3. [j \in Nat |-> [s \in BOOLEAN |-> v]] \in T
    BY <2>2
  <2> QED
    BY <2>3
<1> HIDE DEF Rule, T
<1>6. F \in [Nat -> [[Nat -> T] -> T]] /\ \A k \in Nat, g \in [Nat -> T] : F[k][g] = Rule(g, k)
  BY <1>4
<1> HIDE DEF F
<1>7. PICK f \in [Nat -> T] : Follows(f, F)
  <2>1. ASSUME NEW k \in Nat, NEW g \in [Nat -> T], NEW h \in [Nat -> T],
               \A i \in 0..(k - 1) : g[i] = h[i]
        PROVE  F[k][g] = F[k][h]
    <3>1. Rule(g, k) = Rule(h, k)
      BY <1>3, <2>1
    <3> QED
      BY <1>6, <3>1
  <2>2. IsRule(F, T)
    BY <1>5, <1>6, <2>1 DEF IsRule
  <2> QED
    BY <2>2, Recursion
<1>8. f = [k \in Nat |-> Rule(f, k)]
  BY <1>6, <1>7 DEF Follows
<1> DEFINE walk == Replay(proof, oldRoot)
<1>9. walk = [k \in Nat |-> Rule(walk, k)]
  BY <1>8 DEF Replay, Rule, WalkStep, WalkBelow
<1> HIDE DEF walk
<1>10. walk[n] = Rule(walk, n)
  BY <1>9
<1>11. walk[n][m][start] = At(walk, n, m, start)
  <2> HIDE DEF At
  <2> QED
    BY <1>10 DEF Rule
<1> QED
  BY <1>11 DEF walk

\* What walk returns for a range that is old: the old root or, where it has come to the
\* right of the first split, an element.
LEMMA WalkEnd ==
  ASSUME NEW proof, NEW oldRoot, NEW n \in Nat, NEW start \in BOOLEAN
  PROVE  Replay(proof, oldRoot)[n][n][start] =
           IF start THEN [old |-> oldRoot, new |-> oldRoot, next |-> 1]
           ELSE [old |-> Element(proof, 1), new |-> Element(proof, 1), next |-> 2]
<1>1. Replay(proof, oldRoot)[n][n][start] = WalkStep(Replay(proof, oldRoot), proof, oldRoot, n, n, start)
  BY ReplayDef
<1>2. n >= n
  OBVIOUS
<1> QED
  BY <1>1, <1>2, Zenon DEF WalkStep

\* What walk makes of the result for the left part, and of that for the right part.
FromLeft(result, left, proof) ==
  /\ result.old = left.old /\ result.next = left.next + 1
  /\ result.new = NodeHash(left.new, Element(proof, left.next))
FromRight(result, right, proof) ==
  /\ result.old = NodeHash(Element(proof, right.next), right.old)
  /\ result.new = NodeHash(Element(proof, right.next), right.new)
  /\ result.next = right.next + 1

\* Where the old tree ends in the left part, the sibling on the right is new.
LEMMA WalkLeft ==
  ASSUME NEW proof, NEW oldRoot, NEW n \in Nat, NEW m \in 1..n, NEW start \in BOOLEAN,
         m < n, m <= Split(n)
  PROVE  FromLeft(Replay(proof, oldRoot)[n][m][start], Replay(proof, oldRoot)[Split(n)][m][start], proof)
<1> DEFINE walk == Replay(proof, oldRoot)
           left == walk[Split(n)][m][start]
<1>1. m \in Nat /\ ~ (m >= n)
  OBVIOUS
<1>2. walk[n][m][start] = WalkStep(walk, proof, oldRoot, n, m, start)
  BY <1>1, ReplayDef
<1>3. WalkBelow(walk, n, m, start) = left
  BY Zenon DEF WalkBelow
<1>4. walk[n][m][start] = Combined(left, Element(proof, left.next), m > Split(n))
  BY <1>1, <1>2, <1>3, Zenon DEF WalkStep
<1>5. ~ (m > Split(n))
  BY <1>1, PartsSmaller
<1> HIDE DEF walk, left
<1>6. FromLeft(walk[n][m][start], left, proof)
  BY <1>4, <1>5 DEF Combined, FromLeft
<1> QED
  BY <1>6, Zenon DEF walk, left

\* Where it ends in the right part, the sibling on the left is in both trees.
LEMMA WalkRight ==
  ASSUME NEW proof, NEW oldRoot, NEW n \in Nat, NEW m \in 1..n, NEW start \in BOOLEAN,
         m < n, m > Split(n)
  PROVE  FromRight(Replay(proof, oldRoot)[n][m][start],
                   Replay(proof, oldRoot)[n - Split(n)][m - Split(n)][FALSE], proof)
<1> DEFINE walk == Replay(proof, oldRoot)
           right == walk[n - Split(n)][m - Split(n)][FALSE]
<1>1. m \in Nat /\ ~ (m >= n)
  OBVIOUS
<1>2. ~ (m <= Split(n))
  BY <1>1, PartsSmaller
<1>3. walk[n][m][start] = WalkStep(walk, proof, oldRoot, n, m, start)
  BY <1>1, ReplayDef
<1>4. WalkBelow(walk, n, m, start) = right
  BY <1>2, Zenon DEF WalkBelow
<1>5. walk[n][m][start] = Combined(right, Element(proof, right.next), m > Split(n))
  BY <1>1, <1>3, <1>4, Zenon DEF WalkStep
<1> HIDE DEF walk, right
<1>6. FromRight(walk[n][m][start], right, proof)
  BY <1>5 DEF Combined, FromRight
<1> QED
  BY <1>6, Zenon DEF walk, right

\* What _subproof returns in the same branches.
LEMMA SubEnd ==
  ASSUME NEW d, NEW n \in Nat, NEW lo \in Nat, NEW start \in BOOLEAN
  PROVE  SubProof(d)[n][n][lo][start] = IF start THEN <<>> ELSE <<ComputeRoot(d)[n][lo]>>
<1>1. SubProof(d)[n][n][lo][start] = SubStep(SubProof(d), d, n, n, lo, start)
  BY SubProofDef
<1>2. n >= n
  OBVIOUS
<1> QED
  BY <1>1, <1>2, Zenon DEF SubStep

\* The root of the right part, which is new, comes after the proof for the left part.
LEMMA SubLeft ==
  ASSUME NEW d, NEW n \in Nat, NEW m \in 1..n, NEW lo \in Nat, NEW start \in BOOLEAN,
         m < n, m <= Split(n)
  PROVE  SubProof(d)[n][m][lo][start] =
           Append(SubProof(d)[Split(n)][m][lo][start], ComputeRoot(d)[n - Split(n)][lo + Split(n)])
<1>1. m \in Nat /\ ~ (m >= n)
  OBVIOUS
<1>2. SubProof(d)[n][m][lo][start] = SubStep(SubProof(d), d, n, m, lo, start)
  BY <1>1, SubProofDef
<1> QED
  BY <1>1, <1>2, Zenon DEF SubStep

\* The root of the left part, which is old, comes after the proof for the right part.
LEMMA SubRight ==
  ASSUME NEW d, NEW n \in Nat, NEW m \in 1..n, NEW lo \in Nat, NEW start \in BOOLEAN,
         m < n, m > Split(n)
  PROVE  SubProof(d)[n][m][lo][start] =
           Append(SubProof(d)[n - Split(n)][m - Split(n)][lo + Split(n)][FALSE], ComputeRoot(d)[Split(n)][lo])
<1>1. m \in Nat /\ ~ (m >= n)
  OBVIOUS
<1>2. ~ (m <= Split(n))
  BY <1>1, PartsSmaller
<1>3. SubProof(d)[n][m][lo][start] = SubStep(SubProof(d), d, n, m, lo, start)
  BY <1>1, SubProofDef
<1> QED
  BY <1>1, <1>2, <1>3, Zenon DEF SubStep

\* A range that has both old and new leaves, for the inductions below: either part
\* that the old tree may end in is a smaller such range, and one more sibling.
LEMMA PartsOf ==
  ASSUME NEW n \in Nat, NEW m \in 1..n, m < n
  PROVE  /\ n > 1 /\ Split(n) \in Nat /\ Split(n) > 0 /\ n - Split(n) > 0
         /\ Split(n) \in 0..(n - 1) /\ n - Split(n) \in 0..(n - 1) /\ n - Split(n) \in Nat
         /\ m <= Split(n) \/ m > Split(n)
         /\ m <= Split(n) => m \in 1..Split(n)
         /\ m > Split(n) => /\ m - Split(n) \in 1..(n - Split(n)) /\ m > 1
                            /\ Split(m) = Split(n)
<1>1. n > 1 /\ m \in Nat
  OBVIOUS
<1>2. Split(n) \in 1..(n - 1)
  BY <1>1, SplitFound
<1>3. m > Split(n) => m > 1 /\ Split(m) = Split(n)
  BY <1>1, SplitOfPart
<1> QED
  BY <1>1, <1>2, <1>3

\* The elements of c have all been consumed.
AllConsumed(result, c) == result.next = Len(c) + 1

\* The walk consumes as many elements as _subproof produces, whatever they are.
LEMMA WalkConsumes ==
  ASSUME NEW d, NEW proof, NEW oldRoot, NEW n \in Nat, NEW m \in 1..n, NEW lo \in Nat,
         NEW start \in BOOLEAN
  PROVE  AllConsumed(Replay(proof, oldRoot)[n][m][start], SubProof(d)[n][m][lo][start])
<1> DEFINE walk == Replay(proof, oldRoot)
           sub == SubProof(d)
           root == ComputeRoot(d)
           Fits(k, j, l, s) == walk[k][j][s].next = Len(sub[k][j][l][s]) + 1
           S == {k \in Nat : \A j \in 1..k : \A l \in Nat : \A s \in BOOLEAN : Fits(k, j, l, s)}
<1>1. ASSUME NEW c \in Seq(Roots(d)), NEW x PROVE Len(Append(c, x)) = Len(c) + 1 /\ Len(c) \in Nat
  OBVIOUS
<1>2. \A k, j, l \in Nat : \A s \in BOOLEAN : sub[k][j][l][s] \in Seq(Roots(d))
  BY SubProofDef
<1>3. ASSUME NEW k \in Nat, \A i \in 0..(k - 1) : i \in S PROVE k \in S
  <2> SUFFICES ASSUME NEW j \in 1..k, NEW l \in Nat, NEW s \in BOOLEAN PROVE Fits(k, j, l, s)
    OBVIOUS
  <2>1. CASE j = k
    <3>1. walk[k][j][s].next = IF s THEN 1 ELSE 2
      <4>1. walk[k][k][s] = IF s THEN [old |-> oldRoot, new |-> oldRoot, next |-> 1]
                            ELSE [old |-> Element(proof, 1), new |-> Element(proof, 1), next |-> 2]
        BY WalkEnd
      <4> HIDE DEF walk
      <4> QED
        BY <2>1, <4>1
    <3>2. Len(sub[k][j][l][s]) = IF s THEN 0 ELSE 1
      <4>1. sub[k][j][l][s] = IF s THEN <<>> ELSE <<root[k][l]>>
        BY <2>1, SubEnd
      <4> HIDE DEF sub, root
      <4> QED
        BY <4>1
    <3> HIDE DEF walk, sub
    <3> QED
      BY <3>1, <3>2
  <2>2. CASE j < k /\ j <= Split(k)
    <3> DEFINE t == Split(k)
               c == sub[t][j][l][s]
    <3>1. t \in Nat /\ t \in 0..(k - 1) /\ j \in 1..t /\ j \in Nat
      BY <2>2, PartsOf
    <3>2. walk[k][j][s].next = walk[t][j][s].next + 1
      <4>1. FromLeft(walk[k][j][s], walk[t][j][s], proof)
        BY <2>2, WalkLeft
      <4> HIDE DEF walk, t
      <4> QED
        BY <4>1 DEF FromLeft
    <3>3. sub[k][j][l][s] = Append(c, root[k - t][l + t])
      BY <2>2, SubLeft, Zenon
    <3> HIDE DEF t
    <3>4. c \in Seq(Roots(d))
      BY <1>2, <3>1
    <3>5. Fits(t, j, l, s)
      <4>1. t \in S
        BY <1>3, <3>1
      <4> HIDE DEF Fits
      <4> QED
        BY <3>1, <4>1
    <3> DEFINE x == root[k - t][l + t]
    <3> HIDE DEF c, x
    <3>6. Len(sub[k][j][l][s]) = Len(c) + 1 /\ Len(c) \in Nat
      BY <1>1, <3>3, <3>4
    <3>7. walk[t][j][s].next = Len(c) + 1
      BY <3>5 DEF c
    <3> HIDE DEF walk, sub
    <3> QED
      BY <3>2, <3>6, <3>7
  <2>3. CASE j < k /\ j > Split(k)
    <3> DEFINE t == Split(k)
               c == sub[k - t][j - t][l + t][FALSE]
    <3>1. t \in Nat /\ k - t \in Nat /\ k - t \in 0..(k - 1) /\ j - t \in 1..(k - t) /\ j - t \in Nat /\ l + t \in Nat
      BY <2>3, PartsOf
    <3>2. walk[k][j][s].next = walk[k - t][j - t][FALSE].next + 1
      <4>1. FromRight(walk[k][j][s], walk[k - t][j - t][FALSE], proof)
        BY <2>3, WalkRight
      <4> HIDE DEF walk, t
      <4> QED
        BY <4>1 DEF FromRight
    <3>3. sub[k][j][l][s] = Append(c, root[t][l])
      BY <2>3, SubRight, Zenon
    <3> HIDE DEF t
    <3>4. c \in Seq(Roots(d))
      BY <1>2, <3>1
    <3>5. Fits(k - t, j - t, l + t, FALSE)
      <4>1. k - t \in S
        BY <1>3, <3>1
      <4> HIDE DEF Fits
      <4> QED
        BY <3>1, <4>1
    <3> DEFINE x == root[t][l]
    <3> HIDE DEF c, x
    <3>6. Len(sub[k][j][l][s]) = Len(c) + 1 /\ Len(c) \in Nat
      BY <1>1, <3>3, <3>4
    <3>7. walk[k - t][j - t][FALSE].next = Len(c) + 1
      BY <3>5 DEF c
    <3> HIDE DEF walk, sub
    <3> QED
      BY <3>2, <3>6, <3>7
  <2>4. j = k \/ (j < k /\ j <= Split(k)) \/ (j < k /\ j > Split(k))
    BY PartsOf
  <2> QED
    BY <2>1, <2>2, <2>3, <2>4
<1> HIDE DEF S
<1>4. Nat \subseteq S
  BY <1>3, AllNumbers
<1>5. Fits(n, m, lo, start)
  <2> HIDE DEF Fits
  <2> QED
    BY <1>4 DEF S
<1> QED
  BY <1>5 DEF AllConsumed

\* What the walk makes of all leaves, and of the old ones, is the root.
NewIs(result, root) == result.new = root
OldIs(result, root) == result.old = root

\* If what the walk makes of the leaves is their root, then what it makes of the
\* old leaves is theirs, whatever the elements it consumed.
LEMMA WalkTellsOld ==
  ASSUME NEW d, NEW proof, NEW oldRoot, NEW n \in Nat, NEW m \in 1..n, NEW lo \in Nat,
         NEW start \in BOOLEAN,
         NewIs(Replay(proof, oldRoot)[n][m][start], ComputeRoot(d)[n][lo])
  PROVE  OldIs(Replay(proof, oldRoot)[n][m][start], ComputeRoot(d)[m][lo])
<1> DEFINE walk == Replay(proof, oldRoot)
           root == ComputeRoot(d)
           Tells(k, j, l, s) == walk[k][j][s].new = root[k][l] => walk[k][j][s].old = root[j][l]
           S == {k \in Nat : \A j \in 1..k : \A l \in Nat : \A s \in BOOLEAN : Tells(k, j, l, s)}
<1>1. \A k, l \in Nat :
        k > 1 => root[k][l] = NodeHash(root[Split(k)][l], root[k - Split(k)][l + Split(k)])
  BY ComputeRootDef
<1>2. ASSUME NEW k \in Nat, \A i \in 0..(k - 1) : i \in S PROVE k \in S
  <2> SUFFICES ASSUME NEW j \in 1..k, NEW l \in Nat, NEW s \in BOOLEAN,
                      walk[k][j][s].new = root[k][l]
               PROVE  walk[k][j][s].old = root[j][l]
    OBVIOUS
  <2>1. CASE j = k
    <3>1. walk[k][j][s].old = walk[k][j][s].new
      <4>1. walk[k][k][s] = IF s THEN [old |-> oldRoot, new |-> oldRoot, next |-> 1]
                            ELSE [old |-> Element(proof, 1), new |-> Element(proof, 1), next |-> 2]
        BY WalkEnd
      <4> HIDE DEF walk
      <4> QED
        BY <2>1, <4>1
    <3> HIDE DEF walk, root
    <3> QED
      BY <2>1, <3>1
  <2>2. CASE j < k /\ j <= Split(k)
    <3> DEFINE t == Split(k)
               x == walk[t][j][s].new
               sibling == Element(proof, walk[t][j][s].next)
    <3>1. t \in Nat /\ t \in 0..(k - 1) /\ j \in 1..t /\ k > 1
      BY <2>2, PartsOf
    <3>2. walk[k][j][s].new = NodeHash(x, sibling) /\ walk[k][j][s].old = walk[t][j][s].old
      <4>1. FromLeft(walk[k][j][s], walk[t][j][s], proof)
        BY <2>2, WalkLeft
      <4> HIDE DEF walk, t
      <4> QED
        BY <4>1 DEF FromLeft
    <3>3. root[k][l] = NodeHash(root[t][l], root[k - t][l + t])
      BY <1>1, <3>1
    <3> HIDE DEF t, sibling
    <3>4. NodeHash(x, sibling) = NodeHash(root[t][l], root[k - t][l + t])
      BY <3>2, <3>3
    <3>5. x = root[t][l]
      BY <3>4, HashesApart
    <3>6. Tells(t, j, l, s)
      <4>1. t \in S
        BY <1>2, <3>1
      <4> HIDE DEF Tells
      <4> QED
        BY <3>1, <4>1
    <3> HIDE DEF walk, root
    <3> QED
      BY <3>2, <3>5, <3>6
  <2>3. CASE j < k /\ j > Split(k)
    <3> DEFINE t == Split(k)
               below == walk[k - t][j - t][FALSE]
               sibling == Element(proof, below.next)
    <3>1. /\ t \in Nat /\ k - t \in Nat /\ k - t \in 0..(k - 1) /\ j - t \in 1..(k - t)
          /\ l + t \in Nat /\ k > 1 /\ j \in Nat /\ j > 1 /\ Split(j) = t
      BY <2>3, PartsOf
    <3>2. walk[k][j][s].new = NodeHash(sibling, below.new) /\ walk[k][j][s].old = NodeHash(sibling, below.old)
      <4>1. FromRight(walk[k][j][s], walk[k - t][j - t][FALSE], proof)
        BY <2>3, WalkRight
      <4> HIDE DEF walk, t
      <4> QED
        BY <4>1 DEF FromRight
    <3>3. root[k][l] = NodeHash(root[t][l], root[k - t][l + t])
      BY <1>1, <3>1
    <3>4. root[j][l] = NodeHash(root[t][l], root[j - t][l + t])
      <4>1. root[j][l] = NodeHash(root[Split(j)][l], root[j - Split(j)][l + Split(j)])
        BY <1>1, <3>1
      <4> HIDE DEF root, t
      <4> QED
        BY <3>1, <4>1
    <3> HIDE DEF t, sibling, below
    <3>5. NodeHash(sibling, below.new) = NodeHash(root[t][l], root[k - t][l + t])
      BY <3>2, <3>3
    <3>6. sibling = root[t][l] /\ below.new = root[k - t][l + t]
      BY <3>5, HashesApart
    <3>7. Tells(k - t, j - t, l + t, FALSE)
      <4>1. k - t \in S
        BY <1>2, <3>1
      <4> HIDE DEF Tells
      <4> QED
        BY <3>1, <4>1 DEF below
    <3> HIDE DEF walk, root
    <3>8. below.old = root[j - t][l + t]
      BY <3>6, <3>7 DEF below
    <3> QED
      BY <3>2, <3>4, <3>6, <3>8
  <2>4. j = k \/ (j < k /\ j <= Split(k)) \/ (j < k /\ j > Split(k))
    BY PartsOf
  <2> QED
    BY <2>1, <2>2, <2>3, <2>4
<1> HIDE DEF S
<1>3. Nat \subseteq S
  BY <1>2, AllNumbers
<1>4. Tells(n, m, lo, start)
  <2> HIDE DEF Tells
  <2> QED
    BY <1>3 DEF S
<1> QED
  BY <1>4 DEF NewIs, OldIs

\* The proof starts with the elements of c.
Agrees(proof, c) == Len(proof) >= Len(c) /\ \A i \in 1..Len(c) : proof[i] = c[i]

\* If it starts with c and x, then x is the element after those of c.
LEMMA AgreesOnPart ==
  ASSUME NEW T, NEW c \in Seq(T), NEW x, NEW proof, Len(proof) \in Nat, Agrees(proof, Append(c, x))
  PROVE  Agrees(proof, c) /\ Element(proof, Len(c) + 1) = x
<1> DEFINE c1 == Append(c, x)
<1>1. /\ Len(c1) = Len(c) + 1 /\ Len(c) \in Nat /\ c1[Len(c) + 1] = x
      /\ \A i \in 1..Len(c) : c1[i] = c[i]
  OBVIOUS
<1> HIDE DEF c1
<1>2. Len(proof) >= Len(c1) /\ \A i \in 1..Len(c1) : proof[i] = c1[i]
  BY DEF Agrees, c1
<1>3. Len(c) + 1 \in 1..Len(c1) /\ Len(c) + 1 <= Len(proof) /\ \A i \in 1..Len(c) : i \in 1..Len(c1)
  BY <1>1, <1>2
<1>4. Len(proof) >= Len(c) /\ \A i \in 1..Len(c) : proof[i] = c[i]
  BY <1>1, <1>2, <1>3
<1>5. proof[Len(c) + 1] = x
  BY <1>1, <1>2, <1>3
<1> QED
  BY <1>3, <1>4, <1>5 DEF Agrees, Element

\* With the elements of _subproof and the root of the old leaves, the walk gives the
\* root of all the leaves.
LEMMA WalkOfProof ==
  ASSUME NEW d, NEW proof, NEW oldRoot, NEW n \in Nat, NEW m \in 1..n, NEW lo \in Nat,
         NEW start \in BOOLEAN, Len(proof) \in Nat,
         Agrees(proof, SubProof(d)[n][m][lo][start]), start => oldRoot = ComputeRoot(d)[m][lo]
  PROVE  NewIs(Replay(proof, oldRoot)[n][m][start], ComputeRoot(d)[n][lo])
<1> DEFINE walk == Replay(proof, oldRoot)
           sub == SubProof(d)
           root == ComputeRoot(d)
           Works(k, j, l, s) ==
             Agrees(proof, sub[k][j][l][s]) /\ (s => oldRoot = root[j][l]) => walk[k][j][s].new = root[k][l]
           S == {k \in Nat : \A j \in 1..k : \A l \in Nat : \A s \in BOOLEAN : Works(k, j, l, s)}
<1>1. \A k, l \in Nat :
        k > 1 => root[k][l] = NodeHash(root[Split(k)][l], root[k - Split(k)][l + Split(k)])
  <2> SUFFICES ASSUME NEW k \in Nat, NEW l \in Nat, k > 1
               PROVE  root[k][l] = NodeHash(root[Split(k)][l], root[k - Split(k)][l + Split(k)])
    OBVIOUS
  <2>1. ~ (k <= 1)
    OBVIOUS
  <2> QED
    BY <2>1, ComputeRootDef, Zenon
<1>2. \A k, j, l \in Nat : \A s \in BOOLEAN : sub[k][j][l][s] \in Seq(Roots(d)) /\ Len(sub[k][j][l][s]) \in Nat
  <2>1. \A k, j, l \in Nat : \A s \in BOOLEAN : sub[k][j][l][s] \in Seq(Roots(d))
    BY SubProofDef
  <2>2. \A c \in Seq(Roots(d)) : Len(c) \in Nat
    OBVIOUS
  <2> HIDE DEF sub
  <2> QED
    BY <2>1, <2>2
<1>3. \A k \in Nat : \A j \in 1..k : \A l \in Nat : \A s \in BOOLEAN :
        AllConsumed(walk[k][j][s], sub[k][j][l][s])
  BY WalkConsumes
<1>4. ASSUME NEW k \in Nat, \A i \in 0..(k - 1) : i \in S PROVE k \in S
  <2> SUFFICES ASSUME NEW j \in 1..k, NEW l \in Nat, NEW s \in BOOLEAN,
                      Agrees(proof, sub[k][j][l][s]), s => oldRoot = root[j][l]
               PROVE  walk[k][j][s].new = root[k][l]
    OBVIOUS
  <2>1. CASE j = k
    <3>1. walk[k][k][s] = IF s THEN [old |-> oldRoot, new |-> oldRoot, next |-> 1]
                          ELSE [old |-> Element(proof, 1), new |-> Element(proof, 1), next |-> 2]
      BY WalkEnd
    <3>2. CASE s
      <4> HIDE DEF walk, root
      <4> QED
        BY <2>1, <3>1, <3>2
    <3>3. CASE ~ s
      <4>1. sub[k][j][l][s] = <<root[k][l]>>
        <5>1. sub[k][k][l][s] = IF s THEN <<>> ELSE <<root[k][l]>>
          BY SubEnd
        <5> HIDE DEF sub, root
        <5> QED
          BY <2>1, <3>3, <5>1
      <4> HIDE DEF walk, root, sub
      <4>2. Agrees(proof, <<root[k][l]>>)
        BY <4>1
      <4>3. 1 <= Len(proof) /\ proof[1] = root[k][l]
        BY <4>2 DEF Agrees
      <4> QED
        BY <2>1, <3>1, <3>3, <4>3 DEF Element
    <3> QED
      BY <3>2, <3>3
  <2>2. CASE j < k /\ j <= Split(k)
    <3> DEFINE t == Split(k)
               below == walk[t][j][s]
               sibling == Element(proof, below.next)
               c == sub[t][j][l][s]
               x == root[k - t][l + t]
    <3>1. t \in Nat /\ t \in 0..(k - 1) /\ j \in 1..t /\ j \in Nat /\ k > 1
      BY <2>2, PartsOf
    <3>2. FromLeft(walk[k][j][s], below, proof)
      BY <2>2, WalkLeft
    <3>3. root[k][l] = NodeHash(root[t][l], x)
      BY <1>1, <3>1
    <3>4. sub[k][j][l][s] = Append(c, x)
      BY <2>2, SubLeft, Zenon
    <3> HIDE DEF t, walk, root, sub
    <3>5. c \in Seq(Roots(d)) /\ below.next = Len(c) + 1
      <4>1. c \in Seq(Roots(d))
        BY <1>2, <3>1
      <4>2. AllConsumed(below, c)
        BY <1>3, <3>1
      <4> QED
        BY <4>1, <4>2 DEF AllConsumed
    <3>6. Works(t, j, l, s)
      <4>1. t \in S
        BY <1>4, <3>1
      <4> HIDE DEF Works
      <4> QED
        BY <3>1, <4>1
    <3> HIDE DEF c, x
    <3>7. Agrees(proof, c) /\ Element(proof, Len(c) + 1) = x
      BY <3>4, <3>5, AgreesOnPart
    <3>8. below.new = root[t][l]
      BY <3>6, <3>7 DEF c
    <3> QED
      BY <3>2, <3>3, <3>5, <3>7, <3>8 DEF FromLeft
  <2>3. CASE j < k /\ j > Split(k)
    <3> DEFINE t == Split(k)
               below == walk[k - t][j - t][FALSE]
               sibling == Element(proof, below.next)
               c == sub[k - t][j - t][l + t][FALSE]
               x == root[t][l]
    <3>1. /\ t \in Nat /\ k - t \in Nat /\ k - t \in 0..(k - 1) /\ j - t \in 1..(k - t) /\ j - t \in Nat
          /\ l + t \in Nat /\ k > 1
      BY <2>3, PartsOf
    <3>2. FromRight(walk[k][j][s], below, proof)
      BY <2>3, WalkRight
    <3>3. root[k][l] = NodeHash(x, root[k - t][l + t])
      BY <1>1, <3>1
    <3>4. sub[k][j][l][s] = Append(c, x)
      BY <2>3, SubRight, Zenon
    <3> HIDE DEF t, walk, root, sub
    <3>5. c \in Seq(Roots(d)) /\ below.next = Len(c) + 1
      <4>1. c \in Seq(Roots(d))
        BY <1>2, <3>1
      <4>2. AllConsumed(below, c)
        BY <1>3, <3>1
      <4> QED
        BY <4>1, <4>2 DEF AllConsumed
    <3>6. Works(k - t, j - t, l + t, FALSE)
      <4>1. k - t \in S
        BY <1>4, <3>1
      <4> HIDE DEF Works
      <4> QED
        BY <3>1, <4>1
    <3> HIDE DEF c, x
    <3>7. Agrees(proof, c) /\ Element(proof, Len(c) + 1) = x
      BY <3>4, <3>5, AgreesOnPart
    <3> HIDE DEF below
    <3>8. below.new = root[k - t][l + t]
      BY <3>6, <3>7 DEF c, below
    <3>9. walk[k][j][s].new = NodeHash(Element(proof, below.next), below.new)
      BY <3>2 DEF FromRight
    <3> QED
      BY <3>3, <3>5, <3>7, <3>8, <3>9
  <2>4. j = k \/ (j < k /\ j <= Split(k)) \/ (j < k /\ j > Split(k))
    BY PartsOf
  <2> QED
    BY <2>1, <2>2, <2>3, <2>4
<1> HIDE DEF S
<1>5. Nat \subseteq S
  BY <1>4, AllNumbers
<1>6. Works(n, m, lo, start)
  <2> HIDE DEF Works
  <2> QED
    BY <1>5 DEF S
<1> QED
  BY <1>6 DEF NewIs

\* The root of a history cut short is that of the leaves which are left.
LEMMA PrefixRoot ==
  ASSUME NEW d \in Seq(Data), NEW m \in 1..Len(d)
  PROVE  Root(SubSeq(d, 1, m)) = ComputeRoot(d)[m][0]
<1> DEFINE c == SubSeq(d, 1, m)
<1>1. Len(c) = m /\ m \in Nat /\ m > 0 /\ \A i \in 1..m : c[i] = d[i]
  OBVIOUS
<1>2. c # <<>>
  BY <1>1
<1> HIDE DEF c
<1>3. SameLeaves(c, d, m)
  BY <1>1 DEF SameLeaves
<1>4. ComputeRoot(c)[m][0] = ComputeRoot(d)[m][0]
  BY <1>1, <1>3, SameRootIffSame
<1> QED
  BY <1>1, <1>2, <1>4 DEF Root, c

\* No proof at all makes a history consistent with a root that is not the root of
\* its first m entries: of verify_consistency_static against the root of any history.
THEOREM NoFalseHistory ==
  ASSUME NEW d \in Seq(Data), NEW m \in 1..Len(d), NEW oldRoot, NEW proof,
         VerifyConsistency(oldRoot, m, Root(d), Len(d), proof)
  PROVE  oldRoot = Root(SubSeq(d, 1, m))
<1> DEFINE n == Len(d)
           result == Replay(proof, oldRoot)[n][m][TRUE]
<1>1. n \in Nat /\ n > 0 /\ m \in Nat /\ m # 0 /\ 0 \in Nat
  OBVIOUS
<1>2. Root(d) = ComputeRoot(d)[n][0]
  BY <1>1 DEF Root
<1>3. CASE m = n
  <2>1. oldRoot = Root(d)
    BY <1>1, <1>3 DEF VerifyConsistency
  <2> QED
    BY <1>2, <1>3, <2>1, PrefixRoot
<1>4. CASE m # n
  <2>1. result.old = oldRoot /\ result.new = Root(d)
    BY <1>1, <1>4 DEF VerifyConsistency
  <2>2. NewIs(result, ComputeRoot(d)[n][0])
    BY <1>2, <2>1 DEF NewIs
  <2>3. OldIs(result, ComputeRoot(d)[m][0])
    BY <1>1, <2>2, WalkTellsOld
  <2> QED
    BY <2>1, <2>3, PrefixRoot DEF OldIs
<1> QED
  BY <1>3, <1>4

\* The proof from a smaller size on: it has elements, verifies with the root of the
\* history of that size, and no other number of elements is ever accepted.
LEMMA ConsistencyProofWorks ==
  ASSUME NEW d \in Seq(Data), NEW m \in 1..(Len(d) - 1)
  PROVE  /\ ConsistencyProof(m, d) \in Seq(Roots(d)) /\ ConsistencyProof(m, d) # <<>>
         /\ VerifyConsistency(ComputeRoot(d)[m][0], m, Root(d), Len(d), ConsistencyProof(m, d))
         /\ \A oldRoot, proof : VerifyConsistency(oldRoot, m, Root(d), Len(d), proof) =>
              Len(proof) + 1 = Len(ConsistencyProof(m, d)) + 1
<1> DEFINE n == Len(d)
           p == ConsistencyProof(m, d)
           R == ComputeRoot(d)[m][0]
<1>1. n \in Nat /\ n > 0 /\ m \in Nat /\ m # 0 /\ m # n /\ m \in 1..n /\ m < n /\ 0 \in Nat /\ TRUE \in BOOLEAN
  OBVIOUS
<1>2. Root(d) = ComputeRoot(d)[n][0]
  BY <1>1 DEF Root
<1>3. p = SubProof(d)[n][m][0][TRUE]
  BY <1>1, Zenon DEF ConsistencyProof
<1>4. p \in Seq(Roots(d))
  <2>1. SubProof(d)[n][m][0][TRUE] \in Seq(Roots(d))
    BY <1>1, SubProofDef, Zenon
  <2> HIDE DEF p
  <2> QED
    BY <1>3, <2>1
<1>5. p # <<>>
  <2>1. CASE m <= Split(n)
    <3> DEFINE c == SubProof(d)[Split(n)][m][0][TRUE]
               x == ComputeRoot(d)[n - Split(n)][0 + Split(n)]
    <3>1. p = Append(c, x)
      BY <1>1, <1>3, <2>1, SubLeft, Zenon
    <3>2. c \in Seq(Roots(d))
      BY <1>1, PartsOf, SubProofDef
    <3> HIDE DEF p, c, x
    <3> QED
      BY <3>1, <3>2
  <2>2. CASE m > Split(n)
    <3> DEFINE c == SubProof(d)[n - Split(n)][m - Split(n)][0 + Split(n)][FALSE]
               x == ComputeRoot(d)[Split(n)][0]
    <3>1. p = Append(c, x)
      BY <1>1, <1>3, <2>2, SubRight, Zenon
    <3>2. c \in Seq(Roots(d))
      <4> HIDE DEF n
      <4>1. Split(n) \in Nat /\ n - Split(n) \in Nat /\ m - Split(n) \in Nat
        BY <1>1, <2>2, PartsSmaller
      <4>2. 0 + Split(n) \in Nat
        BY <4>1
      <4> QED
        BY <4>1, <4>2, SubProofDef, Zenon
    <3> HIDE DEF p, c, x
    <3> QED
      BY <3>1, <3>2
  <2> QED
    BY <1>1, <2>1, <2>2, PartsOf
<1>6. \A oldRoot, proof : AllConsumed(Replay(proof, oldRoot)[n][m][TRUE], p)
  BY <1>1, <1>3, WalkConsumes
<1>7. \A oldRoot, proof : VerifyConsistency(oldRoot, m, Root(d), n, proof) <=>
        /\ proof # <<>>
        /\ Replay(proof, oldRoot)[n][m][TRUE].next = Len(proof) + 1
        /\ Replay(proof, oldRoot)[n][m][TRUE].old = oldRoot
        /\ Replay(proof, oldRoot)[n][m][TRUE].new = Root(d)
  BY <1>1, Zenon DEF VerifyConsistency
<1>8. NewIs(Replay(p, R)[n][m][TRUE], ComputeRoot(d)[n][0])
  <2>1. Len(p) \in Nat
    BY <1>4
  <2>2. Agrees(p, SubProof(d)[n][m][0][TRUE])
    BY <1>3, <2>1 DEF Agrees
  <2> HIDE DEF p
  <2> QED
    BY <1>1, <2>1, <2>2, WalkOfProof
<1>9. OldIs(Replay(p, R)[n][m][TRUE], R)
  BY <1>1, <1>8, WalkTellsOld
<1> HIDE DEF p
<1>10. Replay(p, R)[n][m][TRUE].next = Len(p) + 1
  BY <1>6 DEF AllConsumed
<1>11. VerifyConsistency(R, m, Root(d), n, p)
  BY <1>2, <1>5, <1>7, <1>8, <1>9, <1>10 DEF NewIs, OldIs
<1>12. ASSUME NEW oldRoot, NEW proof, VerifyConsistency(oldRoot, m, Root(d), n, proof)
       PROVE  Len(proof) + 1 = Len(p) + 1
  <2>1. Replay(proof, oldRoot)[n][m][TRUE].next = Len(proof) + 1
    BY <1>7, <1>12
  <2>2. AllConsumed(Replay(proof, oldRoot)[n][m][TRUE], p)
    BY <1>6
  <2> QED
    BY <2>1, <2>2 DEF AllConsumed
<1> QED
  BY <1>4, <1>5, <1>11, <1>12 DEF p

\* The proof between any two sizes of the tree is exact.
LEMMA ConsistencyInEveryTree == TreeTypeOK => ConsistencyIsExact
<1> SUFFICES ASSUME TreeTypeOK, NEW m \in 1..(Len(leaves) - 1)
             PROVE  LET n == Len(leaves)
                        proof == ConsistencyProof(m, leaves)
                    IN /\ \A old \in [1..m -> Data] :
                            VerifyConsistency(Root(old), m, Root(leaves), n, proof) <=> old = Prefix(m)
                       /\ ~ VerifyConsistency(Root(Prefix(m)), m, Root(leaves), n, Front(proof))
                       /\ ~ VerifyConsistency(Root(Prefix(m)), m, Root(leaves), n, Append(proof, EmptyHash))
  BY DEF ConsistencyIsExact
<1> DEFINE n == Len(leaves)
           p == ConsistencyProof(m, leaves)
<1>1. leaves \in Seq(Data) /\ n \in Nat /\ m \in Nat /\ m > 0 /\ m \in 1..n /\ m \in 0..n
  BY DEF TreeTypeOK
<1>2. /\ p \in Seq(Roots(leaves)) /\ p # <<>>
      /\ VerifyConsistency(ComputeRoot(leaves)[m][0], m, Root(leaves), n, p)
      /\ \A oldRoot, proof : VerifyConsistency(oldRoot, m, Root(leaves), n, proof) => Len(proof) + 1 = Len(p) + 1
  BY <1>1, ConsistencyProofWorks
<1>3. Root(Prefix(m)) = ComputeRoot(leaves)[m][0]
  BY <1>1, PrefixRoot DEF Prefix
<1> HIDE DEF p
<1>4. ASSUME NEW old \in [1..m -> Data]
      PROVE  VerifyConsistency(Root(old), m, Root(leaves), n, p) <=> old = Prefix(m)
  <2>1. old \in Seq(Data) /\ Len(old) = m /\ old # <<>>
    BY <1>1
  <2>2. Prefix(m) \in Seq(Data) /\ Len(Prefix(m)) = m /\ \A i \in 1..m : Prefix(m)[i] = leaves[i]
    BY <1>1, PrefixTyped
  <2>3. ASSUME VerifyConsistency(Root(old), m, Root(leaves), n, p) PROVE old = Prefix(m)
    <3>1. Root(old) = ComputeRoot(leaves)[m][0]
      BY <1>1, <1>3, <2>3, NoFalseHistory DEF Prefix
    <3>2. ComputeRoot(old)[m][0] = ComputeRoot(leaves)[m][0]
      BY <2>1, <3>1 DEF Root
    <3>3. SameLeaves(old, leaves, m)
      BY <1>1, <3>2, SameRootIffSame
    <3>4. \A i \in 1..m : old[i] = Prefix(m)[i]
      BY <2>2, <3>3 DEF SameLeaves
    <3> QED
      BY <2>1, <2>2, <3>4
  <2> QED
    BY <1>2, <1>3, <2>3
<1>5. ~ VerifyConsistency(Root(Prefix(m)), m, Root(leaves), n, Front(p))
  <2>1. Len(Front(p)) + 1 # Len(p) + 1
    BY <1>2 DEF Front
  <2> QED
    BY <1>2, <2>1
<1>6. ~ VerifyConsistency(Root(Prefix(m)), m, Root(leaves), n, Append(p, EmptyHash))
  <2>1. Len(Append(p, EmptyHash)) + 1 # Len(p) + 1
    BY <1>2
  <2> QED
    BY <1>2, <2>1
<1> QED
  BY <1>4, <1>5, <1>6 DEF p

\* Consistency proofs of the tree are exact at every size: what a later checkpoint
\* proves of an earlier one holds of that history only, and only with that proof's
\* number of elements.
THEOREM ConsistencyHolds == TreeSpec => []ConsistencyIsExact
BY TreeTypeCorrect, ConsistencyInEveryTree, PTL

(***************************************************************************)
(* The tree built from the bottom                                          *)
(***************************************************************************)

\* Half as many hashes go up, rounded up.
LEMMA PairedTyped ==
  ASSUME NEW H, Closed(H), NEW L \in Seq(H)
  PROVE  /\ Paired(L) \in Seq(H) /\ Len(Paired(L)) = (Len(L) + 1) \div 2
         /\ \A k \in 1..((Len(L) + 1) \div 2) :
              Paired(L)[k] = IF 2 * k <= Len(L) THEN NodeHash(L[2 * k - 1], L[2 * k]) ELSE L[2 * k - 1]
<1> DEFINE q == (Len(L) + 1) \div 2
           Up(k) == IF 2 * k <= Len(L) THEN NodeHash(L[2 * k - 1], L[2 * k]) ELSE L[2 * k - 1]
<1>1. Len(L) \in Nat /\ q \in Nat /\ 2 * q <= Len(L) + 1
  OBVIOUS
<1>2. ASSUME NEW k \in 1..q PROVE Up(k) \in H
  <2>1. 2 * k - 1 \in 1..Len(L) /\ (2 * k <= Len(L) => 2 * k \in 1..Len(L))
    BY <1>1
  <2>2. L[2 * k - 1] \in H /\ (2 * k <= Len(L) => L[2 * k] \in H)
    BY <2>1
  <2> DEFINE x == L[2 * k - 1]
             y == L[2 * k]
  <2> HIDE DEF x, y
  <2>3. x \in H /\ (2 * k <= Len(L) => y \in H)
    BY <2>2 DEF x, y
  <2>4. (IF 2 * k <= Len(L) THEN NodeHash(x, y) ELSE x) \in H
    BY <2>3 DEF Closed
  <2> QED
    BY <2>4 DEF x, y
<1>3. Paired(L) = [k \in 1..q |-> Up(k)]
  BY DEF Paired
<1> HIDE DEF q, Up
<1>4. Paired(L) \in [1..q -> H]
  BY <1>2, <1>3
<1>5. Paired(L) \in Seq(H) /\ Len(Paired(L)) = q
  BY <1>1, <1>4
<1>6. \A k \in 1..q : Paired(L)[k] = Up(k)
  BY <1>3
<1> QED
  BY <1>5, <1>6 DEF q, Up

\* The levels of a tree are sequences of hashes, each the pairs of the one below.
LEMMA LevelsDef ==
  ASSUME NEW D, NEW d \in Seq(D)
  PROVE  \E H : /\ Closed(H)
                /\ \A r \in Nat : /\ Levels(d)[r] \in Seq(H)
                                  /\ Levels(d)[r] = IF r = 0 THEN [k \in 1..Len(d) |-> LeafHash(d[k])]
                                                    ELSE Paired(Levels(d)[r - 1])
<1>1. PICK H : {LeafHash(d[i]) : i \in 1..Len(d)} \subseteq H /\ Closed(H)
  BY HashesExist
<1> DEFINE bottom == [k \in 1..Len(d) |-> LeafHash(d[k])]
           T == Seq(H)
           Rule(g, n) == IF n = 0 THEN bottom ELSE Paired(g[n - 1])
           F == [n \in Nat |-> [g \in [Nat -> T] |-> Rule(g, n)]]
<1>2. bottom \in T
  <2>1. bottom \in [1..Len(d) -> H] /\ Len(d) \in Nat
    BY <1>1
  <2> HIDE DEF bottom
  <2> QED
    BY <2>1
<1>3. \A L \in T : Paired(L) \in T
  BY <1>1, PairedTyped
<1> HIDE DEF bottom, T
<1>4. ASSUME NEW n \in Nat, NEW g, NEW h, \A i \in 0..(n - 1) : g[i] = h[i]
      PROVE  Rule(g, n) = Rule(h, n)
  <2>1. n # 0 => n - 1 \in 0..(n - 1)
    OBVIOUS
  <2> QED
    BY <1>4, <2>1
<1>5. \A n \in Nat, g \in [Nat -> T] : Rule(g, n) \in T
  BY <1>2, <1>3
<1> HIDE DEF Rule
<1>6. F \in [Nat -> [[Nat -> T] -> T]] /\ \A n \in Nat, g \in [Nat -> T] : F[n][g] = Rule(g, n)
  BY <1>5
<1> HIDE DEF F
<1>7. PICK f \in [Nat -> T] : Follows(f, F)
  <2>1. ASSUME NEW n \in Nat, NEW g \in [Nat -> T], NEW h \in [Nat -> T],
               \A i \in 0..(n - 1) : g[i] = h[i]
        PROVE  F[n][g] = F[n][h]
    <3>1. Rule(g, n) = Rule(h, n)
      BY <1>4, <2>1
    <3> QED
      BY <1>6, <3>1
  <2>2. IsRule(F, T)
    BY <1>2, <1>6, <2>1 DEF IsRule
  <2> QED
    BY <2>2, Recursion
<1>8. f = [n \in Nat |-> Rule(f, n)]
  BY <1>6, <1>7 DEF Follows
<1> DEFINE level == Levels(d)
<1>9. level = [n \in Nat |-> Rule(level, n)]
  BY <1>8 DEF Levels, Rule, bottom
<1> HIDE DEF level
<1>10. \A n \in Nat : level[n] = IF n = 0 THEN bottom ELSE Paired(level[n - 1])
  BY <1>9 DEF Rule
<1> DEFINE S == {n \in Nat : level[n] \in T}
<1>11. ASSUME NEW n \in Nat, \A i \in 0..(n - 1) : i \in S PROVE n \in S
  <2>1. n # 0 => n - 1 \in 0..(n - 1)
    OBVIOUS
  <2>2. n # 0 => level[n - 1] \in T
    BY <1>11, <2>1
  <2> QED
    BY <1>2, <1>3, <1>10, <2>2
<1> HIDE DEF S
<1>12. Nat \subseteq S
  BY <1>11, AllNumbers
<1>13. \A r \in Nat : level[r] \in T
  BY <1>12 DEF S
<1> QED
  BY <1>1, <1>10, <1>13 DEF T, bottom, level

\* A level of hashes over n leaves: each is the root of w leaves that start at its
\* offset, but for the last one, which is over the leaves that are left.
Tiled(L, offset, d, n, w) ==
  /\ Len(L) \in Nat /\ Len(L) > 0
  /\ \A j \in 1..Len(L) : offset[j] \in Nat
  /\ offset[1] = 0 /\ \A j \in 1..(Len(L) - 1) : offset[j + 1] = offset[j] + w
  /\ \A j \in 1..(Len(L) - 1) : L[j] = ComputeRoot(d)[w][offset[j]]
  /\ offset[Len(L)] < n /\ n <= offset[Len(L)] + w
  /\ L[Len(L)] = ComputeRoot(d)[n - offset[Len(L)]][offset[Len(L)]]

\* More leaves than w, but no more than twice as many, are split after w of them.
LEMMA TwoTiles ==
  ASSUME NEW d, NEW e \in Nat, NEW k \in Nat, NEW lo \in Nat, Doubled[e] < k, k <= 2 * Doubled[e]
  PROVE  ComputeRoot(d)[k][lo] =
           NodeHash(ComputeRoot(d)[Doubled[e]][lo], ComputeRoot(d)[k - Doubled[e]][lo + Doubled[e]])
<1> DEFINE root == ComputeRoot(d)
           w == Doubled[e]
<1>1. w \in Nat /\ w > 0
  BY DoubledDef, DoubledGrows
<1>2. k > 1 /\ ~ (k <= 1)
  BY <1>1
<1>3. Split(k) = w
  BY <1>2, SplitUnique
<1>4. root[k][lo] = NodeHash(root[Split(k)][lo], root[k - Split(k)][lo + Split(k)])
  BY <1>2, ComputeRootDef, Zenon
<1> HIDE DEF root, w
<1>5. root[k][lo] = NodeHash(root[w][lo], root[k - w][lo + w])
  BY <1>3, <1>4
<1> QED
  BY <1>5 DEF root, w

\* Paired, the tiles are twice as wide.
LEMMA PairedTiles ==
  ASSUME NEW H, Closed(H), NEW L \in Seq(H), NEW offset, NEW d, NEW n \in Nat, NEW e \in Nat,
         Tiled(L, offset, d, n, Doubled[e])
  PROVE  Tiled(Paired(L), [k \in Nat |-> offset[2 * k - 1]], d, n, 2 * Doubled[e])
<1> DEFINE U == Paired(L)
           above == [k \in Nat |-> offset[2 * k - 1]]
           root == ComputeRoot(d)
           w == Doubled[e]
           c == Len(L)
           q == (c + 1) \div 2
<1>1. w \in Nat /\ w > 0
  BY DoubledDef, DoubledGrows
<1>2. /\ U \in Seq(H) /\ Len(U) = q
      /\ \A k \in 1..q : U[k] = IF 2 * k <= c THEN NodeHash(L[2 * k - 1], L[2 * k]) ELSE L[2 * k - 1]
  BY PairedTyped
<1>3. \A k \in Nat : above[k] = offset[2 * k - 1]
  OBVIOUS
<1>4. /\ c \in Nat /\ c > 0 /\ \A j \in 1..c : offset[j] \in Nat
      /\ offset[1] = 0 /\ \A j \in 1..(c - 1) : offset[j + 1] = offset[j] + w
      /\ \A j \in 1..(c - 1) : L[j] = root[w][offset[j]]
      /\ offset[c] < n /\ n <= offset[c] + w /\ L[c] = root[n - offset[c]][offset[c]]
  BY DEF Tiled
<1>5. \A k, lo \in Nat : w < k /\ k <= 2 * w => root[k][lo] = NodeHash(root[w][lo], root[k - w][lo + w])
  BY TwoTiles
<1> HIDE DEF U, above, root, w, c
<1>6. q \in Nat /\ q > 0 /\ (2 * q = c \/ 2 * q = c + 1)
  BY <1>4
<1> HIDE DEF q
<1>7. \A k \in 1..q : 2 * k - 1 \in 1..c /\ k \in Nat
  BY <1>4, <1>6
<1>8. \A k \in 1..q : above[k] \in Nat
  BY <1>3, <1>4, <1>7
<1>9. above[1] = 0
  <2>1. 1 \in Nat /\ 2 * 1 - 1 = 1
    OBVIOUS
  <2>2. above[1] = offset[2 * 1 - 1]
    BY <1>3, <2>1
  <2> QED
    BY <1>4, <2>1, <2>2
<1>10. ASSUME NEW k \in 1..(q - 1)
      PROVE  above[k + 1] = above[k] + 2 * w /\ U[k] = root[2 * w][above[k]]
  <2>1. /\ k \in Nat /\ k + 1 \in Nat /\ 2 * (k + 1) - 1 = 2 * k + 1 /\ k \in 1..q
        /\ 2 * k - 1 \in 1..(c - 1) /\ 2 * k \in 1..(c - 1) /\ 2 * k \in Nat /\ (2 * k - 1) + 1 = 2 * k
    <3>1. c \in Nat
      BY <1>4
    <3>2. k \in Nat /\ k > 0 /\ k < q
      BY <1>6
    <3>3. k \in 1..q /\ 2 * k + 1 <= c
      BY <1>6, <3>1, <3>2
    <3> QED
      BY <3>1, <3>2, <3>3
  <2>2. above[k] = offset[2 * k - 1] /\ above[k + 1] = offset[2 * k + 1] /\ above[k] \in Nat
    BY <1>3, <1>8, <2>1
  <2>3. offset[2 * k] = offset[2 * k - 1] + w /\ offset[2 * k + 1] = offset[2 * k] + w
    <3>1. \A j \in 1..(c - 1) : \A i \in Int : i = j + 1 => offset[i] = offset[j] + w
      BY <1>4
    <3> QED
      BY <2>1, <3>1
  <2>4. L[2 * k - 1] = root[w][offset[2 * k - 1]] /\ L[2 * k] = root[w][offset[2 * k]]
    BY <1>4, <2>1
  <2>5. U[k] = NodeHash(L[2 * k - 1], L[2 * k])
    BY <1>2, <1>4, <2>1
  <2>6. root[2 * w][above[k]] = NodeHash(root[w][above[k]], root[w][above[k] + w])
    <3>1. 2 * w \in Nat /\ w < 2 * w /\ 2 * w - w = w
      BY <1>1
    <3> QED
      BY <1>5, <2>2, <3>1
  <2>7. offset[2 * k] = above[k] + w
    BY <2>2, <2>3
  <2>8. above[k + 1] = above[k] + 2 * w
    BY <1>1, <2>2, <2>3
  <2> QED
    BY <2>2, <2>4, <2>5, <2>6, <2>7, <2>8
<1>11. above[q] < n /\ n <= above[q] + 2 * w /\ U[q] = root[n - above[q]][above[q]]
  <2>1. q \in 1..q /\ q \in Nat /\ above[q] = offset[2 * q - 1] /\ above[q] \in Nat
    <3>1. q \in 1..q
      BY <1>6
    <3> QED
      BY <1>3, <1>6, <1>8, <3>1
  <2>2. c \in 1..c /\ offset[c] \in Nat
    BY <1>4
  <2>3. CASE 2 * q - 1 = c
    <3>1. above[q] = offset[c]
      BY <2>1, <2>3
    <3>2. U[q] = L[c]
      <4>1. ~ (2 * q <= c)
        BY <1>4, <1>6, <2>3
      <4> QED
        BY <1>2, <2>1, <2>3, <4>1
    <3>3. n <= offset[c] + 2 * w
      <4> DEFINE a == offset[c]
      <4>1. a \in Nat /\ n <= a + w
        BY <1>4, <2>2
      <4> HIDE DEF a
      <4>2. n <= a + 2 * w
        BY <1>1, <4>1
      <4> QED
        BY <4>2 DEF a
    <3> QED
      BY <1>4, <3>1, <3>2, <3>3
  <2>4. CASE 2 * q = c
    <3>1. c - 1 = 2 * q - 1 /\ c - 1 \in 1..(c - 1) /\ (c - 1) + 1 = c
      BY <1>6, <2>4
    <3>2. offset[c] = above[q] + w
      <4>1. offset[(c - 1) + 1] = offset[c - 1] + w
        BY <1>4, <3>1
      <4> QED
        BY <2>1, <3>1, <4>1
    <3>3. U[q] = NodeHash(root[w][above[q]], root[n - offset[c]][offset[c]])
      <4>1. U[q] = NodeHash(L[2 * q - 1], L[2 * q])
        BY <1>2, <1>4, <2>1, <2>4
      <4>2. L[2 * q - 1] = root[w][above[q]]
        BY <1>4, <2>1, <3>1
      <4> QED
        BY <1>4, <2>4, <4>1, <4>2
    <3>4. above[q] < n /\ n <= above[q] + 2 * w
      <4> DEFINE a == offset[c]
                 b == above[q]
      <4>1. a \in Nat /\ b \in Nat /\ a = b + w /\ a < n /\ n <= a + w
        BY <1>4, <2>1, <2>2, <3>2
      <4> HIDE DEF a, b
      <4>2. b < n /\ n <= b + 2 * w
        BY <1>1, <4>1
      <4> QED
        BY <4>2 DEF b
    <3>5. n - above[q] \in Nat /\ w < n - above[q] /\ n - above[q] <= 2 * w /\ (n - above[q]) - w = n - offset[c]
      <4> DEFINE a == offset[c]
                 b == above[q]
      <4>1. a \in Nat /\ b \in Nat /\ a = b + w /\ a < n /\ n <= a + w
        BY <1>4, <2>1, <2>2, <3>2
      <4> HIDE DEF a, b
      <4>2. n - b \in Nat /\ w < n - b /\ n - b <= 2 * w /\ (n - b) - w = n - a
        BY <1>1, <4>1
      <4> QED
        BY <4>2 DEF a, b
    <3>6. root[n - above[q]][above[q]] = NodeHash(root[w][above[q]], root[n - offset[c]][offset[c]])
      BY <1>5, <2>1, <3>2, <3>5
    <3> QED
      BY <3>3, <3>4, <3>6
  <2> QED
    BY <1>4, <1>6, <2>3, <2>4
<1>12. Tiled(U, above, d, n, 2 * w)
  BY <1>2, <1>6, <1>8, <1>9, <1>10, <1>11 DEF Tiled, root
<1> QED
  BY <1>12 DEF U, above, w

\* Every level of the tree is tiled by the values of k.
LEMMA LevelsTiled ==
  ASSUME NEW D, NEW d \in Seq(D), Len(d) > 0, NEW r \in Nat
  PROVE  \E offset : Tiled(Levels(d)[r], offset, d, Len(d), Doubled[r])
<1> DEFINE level == Levels(d)
           n == Len(d)
           S == {k \in Nat : \E offset : Tiled(level[k], offset, d, n, Doubled[k])}
<1>1. PICK H : /\ Closed(H)
               /\ \A k \in Nat : /\ level[k] \in Seq(H)
                                 /\ level[k] = IF k = 0 THEN [i \in 1..n |-> LeafHash(d[i])]
                                               ELSE Paired(level[k - 1])
  BY LevelsDef
<1>2. n \in Nat /\ n > 0
  OBVIOUS
<1> HIDE DEF level, n
<1>3. ASSUME NEW k \in Nat, \A i \in 0..(k - 1) : i \in S PROVE k \in S
  <2>1. CASE k = 0
    <3> DEFINE L == level[0]
               offset == [i \in Nat |-> i - 1]
    <3>1. L = [i \in 1..n |-> LeafHash(d[i])] /\ L \in Seq(H)
      BY <1>1
    <3>2. Len(L) = n /\ \A i \in 1..n : L[i] = LeafHash(d[i])
      BY <1>2, <3>1
    <3>3. \A i \in Nat : offset[i] = i - 1
      OBVIOUS
    <3>4. Doubled[0] = 1
      BY DoubledDef
    <3>5. ASSUME NEW i \in 1..n PROVE L[i] = ComputeRoot(d)[1][i - 1]
      <4>1. i - 1 \in Nat /\ (i - 1) + 1 = i /\ 1 \in Nat /\ 1 <= 1
        BY <1>2
      <4>2. ComputeRoot(d)[1][i - 1] = LeafHash(d[(i - 1) + 1])
        BY <4>1, ComputeRootDef, Zenon
      <4> QED
        BY <3>2, <4>1, <4>2
    <3> DEFINE root == ComputeRoot(d)
    <3> HIDE DEF L, offset, root
    <3>6. \A i \in 1..n : offset[i] = i - 1 /\ L[i] = root[1][offset[i]]
      BY <1>2, <3>3, <3>5 DEF root
    <3>7. \A j \in 1..(n - 1) : j \in 1..n /\ j + 1 \in 1..n
      BY <1>2
    <3>8. 1 \in 1..n /\ n \in 1..n /\ n - (n - 1) = 1
      BY <1>2
    <3>9. \A j \in 1..(n - 1) : offset[j + 1] = offset[j] + 1 /\ L[j] = root[1][offset[j]]
      BY <1>2, <3>6, <3>7
    <3>10. offset[n] = n - 1 /\ L[n] = root[n - offset[n]][offset[n]] /\ offset[1] = 0
      BY <1>2, <3>6, <3>8
    <3>11. \A j \in 1..n : offset[j] \in Nat
      BY <1>2, <3>6
    <3>12. Tiled(L, offset, d, n, 1)
      BY <1>2, <3>2, <3>9, <3>10, <3>11 DEF Tiled, root
    <3> QED
      BY <2>1, <3>4, <3>12 DEF L
  <2>2. CASE k # 0
    <3>1. k - 1 \in 0..(k - 1) /\ k - 1 \in Nat
      BY <2>2
    <3>2. PICK offset : Tiled(level[k - 1], offset, d, n, Doubled[k - 1])
      BY <1>3, <3>1
    <3>3. Tiled(Paired(level[k - 1]), [i \in Nat |-> offset[2 * i - 1]], d, n, 2 * Doubled[k - 1])
      BY <1>1, <1>2, <3>1, <3>2, PairedTiles
    <3>4. level[k] = Paired(level[k - 1]) /\ Doubled[k] = 2 * Doubled[k - 1]
      BY <1>1, <2>2, DoubledDef
    <3> QED
      BY <3>3, <3>4
  <2> QED
    BY <2>1, <2>2
<1> HIDE DEF S
<1>4. Nat \subseteq S
  BY <1>3, AllNumbers
<1> QED
  BY <1>4 DEF S, level, n

\* After as many levels as there are leaves only the root of merkle.py is left.
LEMMA BottomUpRoot ==
  ASSUME NEW D, NEW d \in Seq(D), d # <<>>
  PROVE  Levels(d)[Len(d)] = <<Root(d)>>
<1> DEFINE n == Len(d)
           L == Levels(d)[n]
           root == ComputeRoot(d)
           w == Doubled[n]
<1>1. n \in Nat /\ n > 0 /\ Root(d) = root[n][0]
  BY DEF Root
<1>2. PICK offset : Tiled(L, offset, d, n, w)
  BY <1>1, LevelsTiled
<1>3. \E H : L \in Seq(H)
  BY <1>1, LevelsDef
<1>4. w \in Nat /\ n < w
  BY <1>1, DoubledDef, DoubledGrows
<1> HIDE DEF n, L, root, w
<1>5. /\ Len(L) \in Nat /\ Len(L) > 0 /\ \A j \in 1..Len(L) : offset[j] \in Nat
      /\ offset[1] = 0 /\ \A j \in 1..(Len(L) - 1) : offset[j + 1] = offset[j] + w
      /\ offset[Len(L)] < n /\ L[Len(L)] = root[n - offset[Len(L)]][offset[Len(L)]]
  BY <1>2 DEF Tiled, root
<1>6. Len(L) = 1
  <2>1. PICK c \in Nat : c = Len(L) /\ c > 0
    BY <1>5
  <2>2. ASSUME c # 1 PROVE FALSE
    <3>1. c - 1 \in 1..(c - 1) /\ c - 1 \in 1..c /\ (c - 1) + 1 = c
      BY <2>1, <2>2
    <3>2. offset[c - 1] \in Nat /\ offset[(c - 1) + 1] = offset[c - 1] + w /\ offset[c] < n
      BY <1>5, <2>1, <3>1
    <3> QED
      BY <1>1, <1>4, <3>1, <3>2
  <2> QED
    BY <2>1, <2>2
<1>7. L[1] = root[n][0]
  <2>1. n - 0 = n
    BY <1>1
  <2> QED
    BY <1>5, <1>6, <2>1
<1>8. L = <<root[n][0]>>
  BY <1>3, <1>6, <1>7
<1> QED
  BY <1>1, <1>8 DEF L, n

\* The root of every tree is that of its leaves paired from the bottom, and of no
\* history that is shorter.
LEMMA RootInEveryTree == TreeTypeOK => RootIsCanonical
<1> SUFFICES ASSUME TreeTypeOK PROVE RootIsCanonical
  OBVIOUS
<1>1. leaves \in Seq(Data) /\ Len(leaves) \in Nat
  BY DEF TreeTypeOK
<1>2. leaves # <<>> => Levels(leaves)[Len(leaves)] = <<Root(leaves)>>
  BY <1>1, BottomUpRoot
<1>3. ASSUME NEW m \in 0..(Len(leaves) - 1) PROVE Root(Prefix(m)) # Root(leaves)
  <2>1. leaves # <<>> /\ Len(leaves) > 0 /\ m # Len(leaves)
    BY <1>1
  <2>2. Root(leaves) = ComputeRoot(leaves)[Len(leaves)][0]
    BY <2>1 DEF Root
  <2>3. CASE m = 0
    <3>1. Prefix(m) = <<>>
      BY <1>1, <2>3 DEF Prefix
    <3> QED
      BY <1>1, <2>2, <3>1, RootNotEmpty DEF Root
  <2>4. CASE m # 0
    <3>1. m \in 1..Len(leaves) /\ m \in Nat /\ m > 0
      BY <1>1, <2>4
    <3>2. Root(Prefix(m)) = ComputeRoot(leaves)[m][0]
      BY <1>1, <3>1, PrefixRoot DEF Prefix
    <3> QED
      BY <1>1, <2>1, <2>2, <3>1, <3>2, OtherSizeOtherRoot
  <2> QED
    BY <2>3, <2>4
<1> QED
  BY <1>2, <1>3 DEF RootIsCanonical

\* The root that _compute_root splits off from the top is the one that pairing from
\* the bottom gives, after any number of add_leaf, and no earlier tree had it.
THEOREM RootHolds == TreeSpec => []RootIsCanonical
BY TreeTypeCorrect, RootInEveryTree, PTL

=============================================================================
