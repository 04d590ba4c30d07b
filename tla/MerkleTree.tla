------------------------------ MODULE MerkleTree ------------------------------
(***************************************************************************)
(* The append-only Merkle tree of anip_server/merkle.py, with its proofs of*)
(* inclusion and consistency and their verifiers.  A hash is the term it   *)
(* was computed from: two are equal if and only if their terms are.        *)
(***************************************************************************)
EXTENDS Integers, Sequences, SequencesExt

CONSTANTS
  Data,      \* what a leaf may hold
  MaxLeaves  \* bound on the size of the tree

ASSUME MerkleAssumption == MaxLeaves \in Nat

VARIABLE leaves  \* the data appended so far

LeafHash(data) == <<"leaf", data>>
NodeHash(left, right) == <<"node", left, right>>
EmptyHash == <<"empty">>

\* The values that k takes in the loop of _largest_power_of_2_less_than.
Doubled[e \in Nat] == IF e = 0 THEN 1 ELSE 2 * Doubled[e - 1]

\* Mutant: half of the leaves.
SplitHalf(n) == n \div 2

\* _largest_power_of_2_less_than: the loop ends as soon as k * 2 is not below n.
Split(n) ==
  IF n <= 1 THEN 0 ELSE CHOOSE k \in {Doubled[e] : e \in 0..n} : k < n /\ n <= 2 * k

\* _compute_root: of the n leaves of d that come after the first lo.
ComputeRoot(d) ==
  LET root[n \in Nat] ==
        [lo \in Nat |->
           IF n <= 1 THEN LeafHash(d[lo + 1])
           ELSE NodeHash(root[Split(n)][lo], root[n - Split(n)][lo + Split(n)])]
  IN root

Root(d) == IF d = <<>> THEN EmptyHash ELSE ComputeRoot(d)[Len(d)][0]

TreeInit == leaves = <<>>

AddLeaf(data) ==
  /\ Len(leaves) < MaxLeaves
  /\ leaves' = Append(leaves, data)

TreeNext == \E data \in Data : AddLeaf(data)

TreeSpec == TreeInit /\ [][TreeNext]_leaves

\* The tree holds data, and no more of it than the bound.
TreeTypeOK == leaves \in Seq(Data) /\ Len(leaves) <= MaxLeaves

-----------------------------------------------------------------------------
(* Inclusion                                                               *)

\* _build_inclusion_path: the siblings on the way from a leaf, counted from 0, up
\* to the root of the n leaves after the first lo.
InclusionPath(index, d) ==
  LET path[n \in Nat] ==
        [lo \in Nat |->
           IF n <= 1 THEN <<>>
           ELSE IF index - lo < Split(n)
           THEN Append(path[Split(n)][lo],
                       [hash |-> ComputeRoot(d)[n - Split(n)][lo + Split(n)], side |-> "right"])
           ELSE Append(path[n - Split(n)][lo + Split(n)],
                       [hash |-> ComputeRoot(d)[Split(n)][lo], side |-> "left"])]
  IN path

InclusionProof(index, d) == InclusionPath(index, d)[Len(d)][0]

\* Mutant: the side of the sibling is ignored.
JoinedOneSided(current, step) == NodeHash(step.hash, current)

Joined(current, step) ==
  IF step.side = "left" THEN NodeHash(step.hash, current) ELSE NodeHash(current, step.hash)

\* What the loop of verify_inclusion_static holds after k steps of the proof.
Climbed(data, proof) ==
  LET current[k \in Nat] == IF k = 0 THEN LeafHash(data) ELSE Joined(current[k - 1], proof[k])
  IN current

VerifyInclusion(data, proof, root) == Climbed(data, proof)[Len(proof)] = root

-----------------------------------------------------------------------------
(* Consistency                                                             *)

\* _subproof: for the n leaves after the first lo, m of which are old.  There is
\* no subtree of new leaves alone among those it descends to.
SubProof(d) ==
  LET sub[n \in Nat] ==
        [m \in Nat |-> [lo \in Nat |-> [start \in BOOLEAN |->
           IF m >= n THEN IF start THEN <<>> ELSE <<ComputeRoot(d)[n][lo]>>
           ELSE IF m <= Split(n)
           THEN Append(sub[Split(n)][m][lo][start],
                       ComputeRoot(d)[n - Split(n)][lo + Split(n)])
           ELSE Append(sub[n - Split(n)][m - Split(n)][lo + Split(n)][FALSE],
                       ComputeRoot(d)[Split(n)][lo])]]]
  IN sub

ConsistencyProof(m, d) ==
  IF m = 0 \/ m = Len(d) THEN <<>> ELSE SubProof(d)[Len(d)][m][0][TRUE]

\* An element of a proof; one past the end is no hash.
Element(proof, i) == IF i <= Len(proof) THEN proof[i] ELSE EmptyHash

\* Mutant: the root of the old tree is made of its right part alone.
CombinedForgetful(below, sibling, left) ==
  [old |-> below.old,
   new |-> IF left THEN NodeHash(sibling, below.new) ELSE NodeHash(below.new, sibling),
   next |-> below.next + 1]

\* What walk makes of the result for one half and the element for the other: a
\* left sibling is in both trees, a right one in the new tree only.
Combined(below, sibling, left) ==
  [old |-> IF left THEN NodeHash(sibling, below.old) ELSE below.old,
   new |-> IF left THEN NodeHash(sibling, below.new) ELSE NodeHash(below.new, sibling),
   next |-> below.next + 1]

\* walk in _verify_consistency: what the m old and all n leaves of a subtree hash to,
\* and the number of the next element of the proof.  It descends before it consumes.
Replay(proof, oldRoot) ==
  LET walk[n \in Nat] ==
        [m \in Nat |-> [start \in BOOLEAN |->
           IF m >= n
           THEN IF start THEN [old |-> oldRoot, new |-> oldRoot, next |-> 1]
                ELSE [old |-> Element(proof, 1), new |-> Element(proof, 1), next |-> 2]
           ELSE LET below == IF m <= Split(n) THEN walk[Split(n)][m][start]
                             ELSE walk[n - Split(n)][m - Split(n)][FALSE]
                IN Combined(below, Element(proof, below.next), m > Split(n))]]
  IN walk

\* verify_consistency_static: all elements are used and both roots come out.
VerifyConsistency(oldRoot, m, newRoot, n, proof) ==
  IF m = 0 THEN TRUE
  ELSE IF m = n THEN oldRoot = newRoot /\ proof = <<>>
  ELSE /\ proof # <<>>
       /\ LET result == Replay(proof, oldRoot)[n][m][TRUE]
          IN /\ result.next = Len(proof) + 1
             /\ result.old = oldRoot /\ result.new = newRoot

-----------------------------------------------------------------------------
(* Properties                                                              *)

Prefix(m) == SubSeq(leaves, 1, m)

\* One level of a tree built from the bottom: neighbours are paired, and a last
\* one without a partner goes up as it is.
Paired(level) ==
  [k \in 1..((Len(level) + 1) \div 2) |->
     IF 2 * k <= Len(level) THEN NodeHash(level[2 * k - 1], level[2 * k]) ELSE level[2 * k - 1]]

\* The levels of such a tree over d.  A level of one hash stays as it is, so that
\* as many rounds as there are leaves are enough.
Levels(d) ==
  LET level[r \in Nat] ==
        IF r = 0 THEN [k \in 1..Len(d) |-> LeafHash(d[k])] ELSE Paired(level[r - 1])
  IN level

\* The root of merkle.py, which splits from the top, is the one that pairing
\* the leaves from the bottom gives, and no two histories of the same length,
\* nor a history and any of its prefixes, share a root.
RootIsCanonical ==
  /\ leaves # <<>> =>
       Levels(leaves)[Len(leaves)] = <<Root(leaves)>>
  /\ \A m \in 0..(Len(leaves) - 1) : Root(Prefix(m)) # Root(leaves)

\* For every leaf of the tree the proof verifies against the root, with the
\* data of that leaf only, and not against the root of any earlier size: a
\* checkpoint proves neither other data nor entries after it.
InclusionIsExact ==
  \A i \in 0..(Len(leaves) - 1) : \A data \in Data :
    LET proof == InclusionProof(i, leaves)
    IN /\ VerifyInclusion(data, proof, Root(leaves)) <=> data = leaves[i + 1]
       /\ \A m \in 0..(Len(leaves) - 1) : ~ VerifyInclusion(data, proof, Root(Prefix(m)))

\* The proof between two sizes verifies for the roots of those two trees, and
\* for no other history of the old size; cut short, or with one element more,
\* it verifies nothing.
ConsistencyIsExact ==
  \A m \in 1..(Len(leaves) - 1) :
    LET n == Len(leaves)
        proof == ConsistencyProof(m, leaves)
    IN /\ \A old \in [1..m -> Data] :
            VerifyConsistency(Root(old), m, Root(leaves), n, proof) <=> old = Prefix(m)
       /\ ~ VerifyConsistency(Root(Prefix(m)), m, Root(leaves), n, Front(proof))
       /\ ~ VerifyConsistency(Root(Prefix(m)), m, Root(leaves), n, Append(proof, EmptyHash))

=============================================================================
