----------------------------- MODULE MCIncrements -----------------------------
(* Small instances of Increments for TLC.                                  *)
EXTENDS Increments, TLC

Symmetry == Permutations(Incs) \cup Permutations(Sprints) \cup Permutations(PBIs)
                \cup Permutations(Workers)

\* Bounds: OneOpenUnlessStrained is vacuous once strained holds, and requests overlap
\* on one Increment, or while a composition looks for one; one Increment at most is
\* delivered or archived, and one test passed at a time.
Undecided == ~strained
Related ==
    \A v, w \in Workers :
        req[v].inc # req[w].inc => None \in {req[v].inc, req[w].inc}
OneLocked == Cardinality({i \in Incs : status[i] \in LockedStatuses}) <= 1
OnePassed == Cardinality(passed) <= 1
Bounds == Undecided /\ Related /\ OneLocked /\ OnePassed
=============================================================================
