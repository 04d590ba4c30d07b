----------------------------- MODULE MCAuditLog ------------------------------
(* Instances of AuditLog for TLC.                                          *)
EXTENDS AuditLog, TLC

CONSTANTS w1, w2, w3, r1, r2

\* Nothing tells writers apart, nor replicas.
Symmetry == Permutations(Writers) \cup Permutations(Replicas)

=============================================================================
