--------------------------- MODULE MCSprintRequests ---------------------------
(* Small instances of SprintRequests for TLC.                              *)
EXTENDS SprintRequests, TLC

Symmetry == Permutations(Sprints) \cup Permutations(PBIs) \cup Permutations(Workers)

\* Bounds: items are refined and unfinished, the events of a Sprint are held while
\* it runs, nothing has tasks, every Sprint has its goal, and the generated ones too
\* unless nothing has overlapped yet.
Refined == \A p \in PBIs : pbi[p] \notin {"NEW", "REFINED"}
Unfinished == \A p \in PBIs : pbi[p] # "DONE"
EventsOfRun == \A s \in eventsDone : status[s] \in {"ACTIVE", "COMPLETED"}
Quiet == \A w \in Workers : req[w] = Idle
NoTasks == tasks = {} /\ \A w \in Workers : req[w].tasks = {}
GoalsSet ==
    /\ \A s \in Sprints : s \in goals <=> Exists(s)
    /\ (Quiet /\ overlaps = {}) \/ \A g \in Gens : g \in goals <=> Generated(g)

\* One suspect has met a start, and neither a start, which leaves nothing to check,
\* nor a draft or a materialisation, which leave one property each.
OneOverlap ==
    /\ overlaps \cap {"start", "draft", "materialise", "row", "link"} = {}
    /\ Cardinality(overlaps) <= 1

Bounds == Refined /\ Unfinished /\ EventsOfRun /\ NoTasks /\ GoalsSet /\ OneOverlap
=============================================================================
