----------------------------- MODULE MCAccounts ------------------------------
(* A small instance of Accounts for TLC.                                   *)
EXTENDS Accounts, TLC
CONSTANTS u1, u2, d1, d2, r1, r2

MCUsers == {u1, u2}
MCDeletions == {d1, d2}
MCRequests == {r1, r2}

\* Instead of symmetry, which liveness does not allow: the first of two unused
\* rows and of two free requests is taken.
InOrder ==
    /\ deletion[d1] = Unused => deletion'[d2] = Unused
    /\ req[r1] = Idle /\ req[r2] = Idle => req'[r2] = Idle

\* Only one of the two users schedules deletions; of the reasons that excuse a
\* property there is one at a time.
Bounds ==
    /\ Cardinality(stale) <= 1
    /\ \A r \in Requests : ~(req[r].op = "schedule" /\ req[r].user = u2)
=============================================================================
