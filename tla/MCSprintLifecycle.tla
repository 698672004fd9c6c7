-------------------------- MODULE MCSprintLifecycle --------------------------
(* Small instances of SprintLifecycle for TLC.                             *)
EXTENDS SprintLifecycle, TLC

\* The ids of one kind are interchangeable; no property names one.
Symmetry == Permutations(Sprints) \cup Permutations(PBIs) \cup Permutations(Gens)

\* Bounds: at most one item has tasks, and the events of a Sprint are held while
\* it runs.
FewTasks == Cardinality(tasks) <= 1
EventsOfRun == \A s \in eventsDone : status[s] \in {"ACTIVE"} \cup Finished
Bounds == FewTasks /\ EventsOfRun
=============================================================================
