------------------------------ MODULE MCDoneGate ------------------------------
(* Small instances of DoneGate for TLC.                                    *)
EXTENDS DoneGate, Naturals, FiniteSets, TLC

Symmetry == Permutations(PBIs) \cup Permutations(DodItems) \cup Permutations(Requests)

\* Bound: of the three requests at most two are verifications, gates or removals.
Bounds == Cardinality(Standing({"find", "put", "gate", "checks", "done", "remove", "return"})) <= 2
=============================================================================
