---------------------------- MODULE MCSprintTasks ----------------------------
(* A small instance of SprintTasks for TLC.                                *)
EXTENDS SprintTasks, TLC
CONSTANTS u1, u2, u3

MCUsers == {u1, u2, u3}

\* Bodies of one field, and the approval that hands the task over.
Only == [status |-> Keep, assignee |-> Keep, hours |-> Keep, estimate |-> Keep]
MCEdits ==
    {[Only EXCEPT !.status = s] : s \in TaskStatus}
        \cup {[Only EXCEPT !.assignee = u] : u \in MCUsers \cup {None}}
        \cup {[Only EXCEPT !.hours = 1], [Only EXCEPT !.estimate = 1]}
        \cup {[Only EXCEPT !.status = "DONE", !.assignee = u2]}

MCItems == {Tasks}

Symmetry == Permutations(Requests)

\* The Product Owner stays; a behaviour ends with a write that a race may have made
\* wrong, and of the things that put the burndown behind there is one at a time.
Bounds == role[u1] = "PRODUCT_OWNER" /\ stale = {} /\ Cardinality(behind \ {"start"}) <= 1
=============================================================================
