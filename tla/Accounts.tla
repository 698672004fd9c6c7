------------------------------ MODULE Accounts -------------------------------
(***************************************************************************)
(* Deleting an account: at once, or scheduled with a grace period and then *)
(* forced; packages/backend/src/services/auth.service.ts and the daily     *)
(* packages/backend/src/jobs/deletionGracePeriodJob.ts.  A request checks  *)
(* first and writes later, in another transaction, and what it found may   *)
(* have changed in between.  The team's own requests are taken whole here. *)
(***************************************************************************)
EXTENDS Team

CONSTANTS Deletions,  \* ids of scheduled deletions
          Requests

VARIABLES deletion,   \* the rows of scheduled_deletions
          held,       \* the rows the daily job has read and not yet written
          req,        \* requests between their check and their write
          raced,      \* of each: how its check has ceased to hold since
          stale,      \* how the checks of past writes had ceased to hold
          kept        \* users whose cancellation nothing of theirs overlapped
                      \* (the last three are read only by the properties)

vars == <<accounts, role, deletion, held, req, raced, stale, kept>>

Unused == [user |-> None, status |-> "unused", age |-> "grace"]
Idle == [op |-> "idle", user |-> None, row |-> None]
Rows == [user: Users, status: {"PENDING", "CANCELLED", "EXPIRED", "deleted"},
         age: {"grace", "elapsed", "overdue"}]
Ops == [op: {"delete", "schedule"}, user: Users, row: {None}]
           \cup [op: {"cancel", "force"}, user: Users, row: Deletions]

Pending(d) == deletion[d].status = "PENDING"
PendingOf(u) == {d \in Deletions : deletion[d].user = u /\ Pending(d)}

TypeOK ==
    /\ TeamTypeOK
    /\ deletion \in [Deletions -> Rows \cup {Unused}]
    /\ held \subseteq Deletions
    /\ req \in [Requests -> Ops \cup {Idle}]
    /\ raced \in [Requests -> SUBSET {"owner", "second", "ended"}]
    /\ stale \subseteq {"owner", "second", "ended"}
    /\ kept \subseteq Users
    \* An account takes its rows along.
    /\ \A d \in Deletions : deletion[d].status \in {"PENDING", "CANCELLED", "EXPIRED"}
                                => deletion[d].user \in accounts

Init ==
    /\ TeamInit
    /\ deletion = [d \in Deletions |-> Unused]
    /\ held = {}
    /\ req = [r \in Requests |-> Idle]
    /\ raced = [r \in Requests |-> {}]
    /\ stale = {}
    /\ kept = {}

-----------------------------------------------------------------------------
\* isLastPO, for which checkDeletionEligibility blocks.
LastOwner(u) ==
    /\ role[u] = "PRODUCT_OWNER"
    /\ \A v \in Users \ {u} : role[v] # "PRODUCT_OWNER"

\* How the check of a request in flight fails by now.
Reasons(r) ==
    (IF req[r].op = "delete" /\ LastOwner(req[r].user) THEN {"owner"} ELSE {})
        \cup (IF req[r].op = "schedule" /\ PendingOf(req[r].user) # {} THEN {"second"} ELSE {})
        \cup (IF req[r].op \in {"cancel", "force"} /\ ~Pending(req[r].row)
              THEN {"ended"} ELSE {})

Begin(r, o) == req[r] = Idle /\ req' = [req EXCEPT ![r] = o] /\ UNCHANGED stale
Done(r) == req' = [req EXCEPT ![r] = Idle] /\ stale' = stale \cup raced[r]

\* executeDeletionTransaction: the user's rows go with the account (a deletion is then "deleted").
Erase(u) ==
    /\ u \in accounts
    /\ accounts' = accounts \ {u}
    /\ role' = [role EXCEPT ![u] = None]
    /\ deletion' = [d \in Deletions |->
                       IF deletion[d].user = u THEN [deletion[d] EXCEPT !.status = "deleted"]
                                               ELSE deletion[d]]

-----------------------------------------------------------------------------
\* deleteAccount, and forceDeleteAccount of a user with nothing pending.
DeleteCheck(r, u) ==
    /\ u \in accounts /\ ~LastOwner(u)
    /\ Begin(r, [op |-> "delete", user |-> u, row |-> None])
    /\ UNCHANGED <<accounts, role, deletion, held, kept>>

DeleteAccount(r) ==
    /\ req[r].op = "delete"
    /\ Erase(req[r].user) /\ Done(r)
    /\ UNCHANGED <<held, kept>>

\* Mutant: nobody looks whether a deletion is pending.
ScheduleUnchecked(r, u) ==
    /\ u \in accounts
    /\ Begin(r, [op |-> "schedule", user |-> u, row |-> None])
    /\ kept' = kept \ {u}
    /\ UNCHANGED <<accounts, role, deletion, held>>

\* scheduleDeletion
ScheduleCheck(r, u) ==
    /\ u \in accounts /\ PendingOf(u) = {}
    /\ Begin(r, [op |-> "schedule", user |-> u, row |-> None])
    /\ kept' = kept \ {u}
    /\ UNCHANGED <<accounts, role, deletion, held>>

\* The notifications that follow change nothing here.
ScheduleDeletion(r, d) ==
    /\ req[r].op = "schedule" /\ req[r].user \in accounts
    /\ deletion[d] = Unused
    /\ deletion' = [deletion EXCEPT
                       ![d] = [user |-> req[r].user, status |-> "PENDING", age |-> "grace"]]
    /\ Done(r)
    /\ UNCHANGED <<accounts, role, held, kept>>

\* cancelScheduledDeletion: findFirst, one pending row of the user.
CancelCheck(r, u) ==
    \E d \in PendingOf(u) :
        /\ Begin(r, [op |-> "cancel", user |-> u, row |-> d])
        /\ UNCHANGED <<accounts, role, deletion, held, kept>>

\* The update is by id: whatever the row's status is by now, but it must exist.
SetStatus(d, st) ==
    /\ deletion[d].status \in {"PENDING", "CANCELLED", "EXPIRED"}
    /\ deletion' = [deletion EXCEPT ![d].status = st]

Overlapped(r) ==
    \E q \in Requests \ {r} : req[q].user = req[r].user /\ req[q].op \in {"schedule", "force"}

\* Mutant: the answer is given and the row forgotten.
CancelNothing(r) ==
    /\ req[r].op = "cancel"
    /\ Done(r)
    /\ kept' = IF Overlapped(r) THEN kept ELSE kept \cup {req[r].user}
    /\ UNCHANGED <<accounts, role, held, deletion>>

CancelScheduledDeletion(r) ==
    /\ req[r].op = "cancel"
    /\ SetStatus(req[r].row, "CANCELLED") /\ Done(r)
    /\ kept' = IF Overlapped(r) THEN kept ELSE kept \cup {req[r].user}
    /\ UNCHANGED <<accounts, role, held>>

\* Mutant: the grace period does not matter.
ForceAnyTime(r, u) ==
    \E d \in PendingOf(u) :
        /\ Begin(r, [op |-> "force", user |-> u, row |-> d])
        /\ UNCHANGED <<accounts, role, deletion, held, kept>>

\* forceDeleteAccount of a user with a pending deletion: once its time has come.
ForceCheck(r, u) ==
    \E d \in PendingOf(u) :
        /\ deletion[d].age # "grace"
        /\ Begin(r, [op |-> "force", user |-> u, row |-> d])
        /\ UNCHANGED <<accounts, role, deletion, held, kept>>

ForceDeleteAccount(r) ==
    /\ req[r].op = "force"
    /\ Erase(req[r].user) /\ Done(r)
    /\ UNCHANGED <<held, kept>>

\* The check or the write is refused, or the server dies in between.
Fail(r) ==
    /\ req[r] # Idle /\ req' = [req EXCEPT ![r] = Idle]
    /\ UNCHANGED <<accounts, role, deletion, held, stale, kept>>

-----------------------------------------------------------------------------
\* A pending deletion comes of age, and seven days later it is overdue.
ComesOfAge(d) ==
    /\ Pending(d) /\ deletion[d].age # "overdue"
    /\ deletion' = [deletion EXCEPT ![d].age = IF @ = "grace" THEN "elapsed" ELSE "overdue"]
    /\ UNCHANGED <<accounts, role, held, req, stale, kept>>

\* Mutant: the threshold is on the wrong side.
FindNotYetOverdue ==
    /\ held = {}
    /\ held' = {d \in Deletions : Pending(d) /\ deletion[d].age = "elapsed"}
    /\ held' # {} /\ UNCHANGED <<accounts, role, deletion, req, stale, kept>>

\* processExpiredDeletions reads what is overdue,
FindOverdue ==
    /\ held = {}
    /\ held' = {d \in Deletions : Pending(d) /\ deletion[d].age = "overdue"}
    /\ held' # {} /\ UNCHANGED <<accounts, role, deletion, req, stale, kept>>

\* and marks one after the other, by id; a row that is gone ends it for the day.
Expire(d) ==
    /\ d \in held
    /\ \/ SetStatus(d, "EXPIRED") /\ held' = held \ {d}
       \/ deletion[d].status = "deleted" /\ held' = {} /\ UNCHANGED deletion
    /\ UNCHANGED <<accounts, role, req, stale, kept>>

\* The database is away, or the server restarts: the rest waits for another day.
JobFails ==
    /\ held # {} /\ held' = {}
    /\ UNCHANGED <<accounts, role, deletion, req, stale, kept>>

\* The team's requests.
TeamNext ==
    /\ \E a, u \in Users :
          \/ CanRemove(a, u) /\ Remove(u)
          \/ \E ro \in UserRole :
                \/ CanAdd(a, u, ro) /\ Add(u, ro)
                \/ CanSetRole(a, u, ro) /\ SetRole(u, ro)
    /\ UNCHANGED <<deletion, held, req, stale, kept>>

-----------------------------------------------------------------------------
RequestNext ==
    \E r \in Requests :
        \/ \E u \in Users : DeleteCheck(r, u) \/ ScheduleCheck(r, u)
                                \/ CancelCheck(r, u) \/ ForceCheck(r, u)
        \/ DeleteAccount(r) \/ CancelScheduledDeletion(r) \/ ForceDeleteAccount(r)
        \/ \E d \in Deletions : ScheduleDeletion(r, d)
        \/ Fail(r)

JobNext == FindOverdue \/ JobFails \/ \E d \in Deletions : ComesOfAge(d) \/ Expire(d)

\* A reason stays with the request until it ends.
Race ==
    raced' = [r \in Requests |->
                 IF Idle \in {req[r], req'[r]} THEN {}
                 ELSE raced[r] \cup (Reasons(r)' \ Reasons(r))]

Next == (RequestNext \/ JobNext \/ TeamNext) /\ Race

\* The job runs every day, and no row is one on which it fails each time.
Fairness ==
    /\ WF_vars(FindOverdue /\ Race)
    /\ \A d \in Deletions : SF_vars(Expire(d) /\ Race)

Spec == Init /\ [][Next]_vars /\ Fairness

-----------------------------------------------------------------------------
(* Properties                                                              *)

\* A user has at most one pending deletion, unless one was scheduled after the
\* check of another had found none: no cancellation, expiry or change of the team
\* takes part in that race.
OnePendingUnlessRaced ==
    "second" \notin stale => \A u \in Users : Cardinality(PendingOf(u)) <= 1

\* After a cancellation nothing is pending and nothing in flight will delete the
\* account by force, until the user schedules again; unless two schedules had met,
\* or a request went on after its row was no longer pending.
CancelledIsKept ==
    stale \cap {"second", "ended"} = {} =>
        \A u \in kept :
            /\ PendingOf(u) = {}
            /\ \A r \in Requests : ~(req[r].op = "force" /\ req[r].user = u)

\* The team's last Product Owner goes only with a scheduled deletion whose grace
\* period is over, unless the role came to a user whose deletion had been checked.
LastOwnerGoesLate ==
    [][\A u \in accounts \ accounts' :
        LastOwner(u) => \/ "owner" \in stale'
                        \/ \E d \in Deletions :
                              deletion[d].user = u /\ deletion[d].age # "grace"]_vars

\* No deletion is pending for ever once it is overdue.
OverdueEnds ==
    \A d \in Deletions : Pending(d) /\ deletion[d].age = "overdue" ~> ~Pending(d)
=============================================================================
