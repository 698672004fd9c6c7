----------------------------- MODULE MCSessions -----------------------------
(* The sessions of one user on three tokens.                               *)
EXTENDS Sessions, TLC
CONSTANTS t1, t2, t3, r1, r2, k1

Symmetry == Permutations(Tokens) \cup Permutations(Requests)

\* A deleted row and a revoked one differ only in what a late write does.
Bounds == Cardinality({t \in Tokens : row[t] = "deleted"}) <= 1
=============================================================================
