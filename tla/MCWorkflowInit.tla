---------------------------- MODULE MCWorkflowInit ----------------------------
(* Small instances of WorkflowInit for TLC.                                *)
EXTENDS WorkflowInit

\* Bound: a session holds the lock at most twice.
FewHolds == \A s \in Sessions : held[s] <= 2
=============================================================================
