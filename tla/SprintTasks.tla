---------------------------- MODULE SprintTasks ------------------------------
(***************************************************************************)
(* The tasks of a running Sprint, on one of its working days, the team     *)
(* that works on them and today's burndown point: createTask, updateTask,  *)
(* deleteTask, the changes of the Sprint Backlog and updateBurndownData of *)
(* packages/backend/src/services/sprint.service.ts, the deletion of an     *)
(* item, and the team's requests.  Each request checks, then writes what   *)
(* it was given, whatever the row is by then; some sum the hours up and    *)
(* store the sum afterwards, in two more steps.                            *)
(***************************************************************************)
EXTENDS Team, Functions

CONSTANTS Tasks,      \* task ids
          Items,      \* of each Product Backlog item: the ids of its tasks
          Requests,
          Hours,      \* the values of remainingHours and estimatedHours, with 0
          Edits,      \* the request bodies of updateTask
          Keep        \* a field that a request body does not have

ASSUME TasksAssumption == Hours \subseteq Nat /\ 0 \in Hours /\ Items \subseteq SUBSET Tasks

TaskStatus == {"TODO", "IN_PROGRESS", "REVIEW", "DONE"}

ASSUME EditsAssumption ==
    /\ Keep \notin Users \cup {None} /\ Keep \notin Hours /\ Keep \notin TaskStatus
    /\ Edits \subseteq [status: TaskStatus \cup {Keep}, assignee: Users \cup {None, Keep},
                        hours: Hours \cup {Keep}, estimate: Hours \cup {Keep}]

VARIABLES task,       \* the rows of tasks; hours is remainingHours ?? estimatedHours ?? 0,
                      \* given that there are remainingHours
          burndown,   \* actualRemaining of today
          req,        \* requests between two of their steps
          raced,      \* of each: how the facts of its last step have changed since
          stale,      \* how those of past steps had changed
          behind      \* why the burndown point may not be the sum
                      \* (the last three are read only by the properties, except
                      \* that "gone" says a row the request found is no more)

vars == <<accounts, role, task, burndown, req, raced, stale, behind>>

\* The default workflow of tasks; all its transitions are for Developers.
Transitions == {<<"TODO", "IN_PROGRESS">>, <<"IN_PROGRESS", "REVIEW">>, <<"REVIEW", "DONE">>,
                <<"REVIEW", "IN_PROGRESS">>, <<"IN_PROGRESS", "TODO">>}

Absent == [status |-> "absent", assignee |-> None, hours |-> 0, given |-> FALSE]
Deleted == [status |-> "deleted", assignee |-> None, hours |-> 0, given |-> FALSE]
Exists(t) == task[t].status \in TaskStatus
Rows == [status: TaskStatus, assignee: Users \cup {None}, hours: Hours, given: BOOLEAN]
Planned == [status: {"TODO"}, assignee: {None}, hours: Hours, given: BOOLEAN]

Idle == [op |-> "idle"]
Burn == [op |-> "burn"]
Ops == [op: {"create"}, assignee: Users \cup {None}, hours: Hours \cup {Keep}]
    \cup [op: {"update"}, task: Tasks, edit: Edits, actor: Users \cup {None}]
    \cup [op: {"delete"}, task: Tasks]
    \cup [op: {"replan"}, gone: SUBSET Tasks]
    \cup [op: {"upsert"}, sum: Nat]
    \cup [op: {"add", "assign"}, target: Users, role: UserRole]
    \cup [op: {"remove"}, target: Users]
    \cup {Idle, Burn}
Facts == {"status", "assignee", "member", "gone", "taken", "busy", "sum"}

TypeOK ==
    /\ TeamTypeOK
    /\ task \in [Tasks -> Rows \cup {Absent, Deleted}]
    /\ \A t \in Tasks : task[t].assignee \in accounts \cup {None}
    /\ burndown \in Nat
    /\ req \in [Requests -> Ops]
    /\ raced \in [Requests -> SUBSET Facts]
    /\ stale \subseteq Facts
    /\ behind \subseteq {"start", "created", "estimated", "cascade", "failed", "met"}

TotalRemainingHours == SumFunction([t \in Tasks |-> task[t].hours])

\* The day begins with the tasks planned so far, and with a point that is none yet or,
\* on the Sprint's first day, the sum of the estimates.
Init ==
    /\ TeamInit
    /\ task \in [Tasks -> Planned \cup {Absent}]
    /\ burndown = 0
    /\ req = [r \in Requests |-> Idle]
    /\ raced = [r \in Requests |-> {}]
    /\ stale = {}
    /\ behind = {"start"}

-----------------------------------------------------------------------------
Developer(u) == role[u] = "DEVELOPERS"

\* assertAssigneeIsSameTeamDeveloper
MayHaveTask(u) == u = None \/ (u \in Users /\ Developer(u))

TasksOf(u) == {t \in Tasks : task[t].assignee = u}

\* What of a request's facts does not hold any more,
Reasons(r) ==
    LET q == req[r]
        given == IF q.op = "create" THEN q.assignee
                 ELSE IF q.op = "update" THEN q.edit.assignee ELSE None
        IsSo(fact) ==
            CASE fact = "member" -> given \in Users /\ role[given] = None
              [] fact = "gone"   -> q.op \in {"remove", "assign"} /\ role[q.target] = None
              [] fact = "taken"  -> q.op \in {"add", "assign"} /\ Taken(q.role, q.target)
              [] fact = "busy"   -> q.op = "remove" /\ TasksOf(q.target) # {}
              [] fact = "sum"    -> q.op = "upsert" /\ q.sum # TotalRemainingHours
    IN  {fact \in {"member", "gone", "taken", "busy", "sum"} : IsSo(fact)}

\* and what a step changes of the row that an update has read.
Moves(r) ==
    LET q == req[r] IN
    IF q.op # "update" \/ q.edit.status = Keep THEN {}
    ELSE (IF task'[q.task].status # task[q.task].status THEN {"status"} ELSE {})
             \cup (IF task'[q.task].assignee # task[q.task].assignee THEN {"assignee"} ELSE {})

Begin(r, o) == req[r] = Idle /\ req' = [req EXCEPT ![r] = o] /\ UNCHANGED stale
Then(r, o) == req' = [req EXCEPT ![r] = o] /\ stale' = stale \cup raced[r]

-----------------------------------------------------------------------------
CreateCheck(r, a, u, h) ==
    /\ Developer(a) /\ MayHaveTask(u)
    /\ Begin(r, [op |-> "create", assignee |-> u, hours |-> h])
    /\ UNCHANGED <<accounts, role, task, burndown, behind>>

\* createTask leaves the burndown alone.  Without remaining hours a task has the
\* estimated ones, and h is Keep if it has neither.
CreateTask(r, t) ==
    /\ req[r].op = "create" /\ task[t] = Absent
    /\ req[r].assignee \in accounts \cup {None}
    /\ task' = [task EXCEPT ![t] = [status |-> "TODO", assignee |-> req[r].assignee,
                                    hours |-> IF req[r].hours = Keep THEN 0 ELSE req[r].hours,
                                    given |-> req[r].hours # Keep]]
    /\ Then(r, Idle)
    /\ behind' = IF req[r].hours \in {0, Keep} THEN behind ELSE behind \cup {"created"}
    /\ UNCHANGED <<accounts, role, burndown>>

\* Mutants: the assignee may approve; any status may follow any other.
UpdateCheckOwn(r, a, t, e) ==
    /\ Exists(t) /\ Developer(a)
    /\ e.assignee \in {Keep, task[t].assignee} \/ MayHaveTask(e.assignee)
    /\ e.status \in {Keep, task[t].status} \/ <<task[t].status, e.status>> \in Transitions
    /\ Begin(r, [op |-> "update", task |-> t, edit |-> e,
                 actor |-> IF e.status = "DONE" THEN a ELSE None])
    /\ UNCHANGED <<accounts, role, task, burndown, behind>>

UpdateCheckAnyStatus(r, a, t, e) ==
    /\ Exists(t) /\ Developer(a)
    /\ e.assignee \in {Keep, task[t].assignee} \/ MayHaveTask(e.assignee)
    /\ Begin(r, [op |-> "update", task |-> t, edit |-> e,
                 actor |-> IF e.status = "DONE" THEN a ELSE None])
    /\ UNCHANGED <<accounts, role, task, burndown, behind>>

UpdateCheck(r, a, t, e) ==
    /\ Exists(t) /\ Developer(a)
    /\ e.assignee \in {Keep, task[t].assignee} \/ MayHaveTask(e.assignee)
    /\ \/ e.status \in {Keep, task[t].status}
       \/ /\ <<task[t].status, e.status>> \in Transitions
          /\ ~(e.status = "DONE" /\ task[t].assignee = a)
    /\ Begin(r, [op |-> "update", task |-> t, edit |-> e,
                 actor |-> IF e.status = "DONE" THEN a ELSE None])
    /\ UNCHANGED <<accounts, role, task, burndown, behind>>

\* The fields a request body has; a task that is done has no hours left, and an
\* estimate counts as long as there are no remaining hours.
Apply(row, e) ==
    [status   |-> IF e.status = Keep THEN row.status ELSE e.status,
     assignee |-> IF e.assignee = Keep THEN row.assignee ELSE e.assignee,
     hours    |-> CASE e.status = "DONE" -> 0
                    [] e.status # "DONE" /\ e.hours # Keep -> e.hours
                    [] OTHER -> IF e.estimate = Keep \/ row.given THEN row.hours ELSE e.estimate,
     given    |-> row.given \/ e.status = "DONE" \/ e.hours # Keep]

\* Mutant: only new hours count as a change of the hours.
TouchesGivenHours(e) == e.hours # Keep

\* The updates that go on to the burndown; a new estimate alone does not.
TouchesHours(e) == e.status # Keep \/ e.hours # Keep

UpdateTask(r) ==
    LET t == req[r].task  e == req[r].edit IN
    /\ req[r].op = "update" /\ Exists(t)
    /\ e.assignee \in accounts \cup {None, Keep}
    /\ task' = [task EXCEPT ![t] = Apply(@, e)]
    /\ Then(r, IF TouchesHours(e) THEN Burn ELSE Idle)
    /\ behind' = IF e.status = Keep /\ e.hours = Keep /\ task'[t].hours # task[t].hours
                 THEN behind \cup {"estimated"} ELSE behind
    /\ UNCHANGED <<accounts, role, burndown>>

DeleteCheck(r, a, t) ==
    /\ Exists(t) /\ Developer(a)
    /\ Begin(r, [op |-> "delete", task |-> t])
    /\ UNCHANGED <<accounts, role, task, burndown, behind>>

DeleteTask(r) ==
    /\ req[r].op = "delete" /\ Exists(req[r].task)
    /\ task' = [task EXCEPT ![req[r].task] = Deleted]
    /\ Then(r, Burn)
    /\ UNCHANGED <<accounts, role, burndown, behind>>

\* addPBIToActiveSprint, and removePBIFromActiveSprint, which deletes the tasks of the
\* item unless they stay in the Sprint; which items the Sprint has is left to
\* SprintLifecycle.
ReplanCheck(r, a, T) ==
    /\ Developer(a)
    /\ Begin(r, [op |-> "replan", gone |-> T])
    /\ UNCHANGED <<accounts, role, task, burndown, behind>>

Replan(r) ==
    /\ req[r].op = "replan"
    /\ task' = [t \in Tasks |-> IF t \in req[r].gone /\ Exists(t) THEN Deleted ELSE task[t]]
    /\ Then(r, Burn)
    /\ UNCHANGED <<accounts, role, burndown, behind>>

\* deletePBI: the tasks of the item, and any that were to come, go with it.
DeleteItem(T) ==
    /\ \E t \in T : task[t] # Deleted
    /\ task' = [t \in Tasks |-> IF t \in T THEN Deleted ELSE task[t]]
    /\ behind' = IF \E t \in T : task[t].hours # 0 THEN behind \cup {"cascade"} ELSE behind
    /\ UNCHANGED <<accounts, role, burndown, req, stale>>

\* updateBurndownData: the sum over the tasks,
ReadTasks(r) ==
    /\ req[r] = Burn
    /\ Then(r, [op |-> "upsert", sum |-> TotalRemainingHours])
    /\ UNCHANGED <<accounts, role, task, burndown, behind>>

\* and the upsert of today's point.
UpsertBurndown(r) ==
    /\ req[r].op = "upsert"
    /\ burndown' = req[r].sum
    /\ Then(r, Idle)
    /\ behind' = IF raced[r] = {} THEN {} ELSE behind \cup {"met"}
    /\ UNCHANGED <<accounts, role, task>>

-----------------------------------------------------------------------------
AddCheck(r, a, u, ro) ==
    /\ CanAdd(a, u, ro)
    /\ Begin(r, [op |-> "add", target |-> u, role |-> ro])
    /\ UNCHANGED <<accounts, role, task, burndown, behind>>

AddMember(r) ==
    /\ req[r].op = "add"
    /\ Add(req[r].target, req[r].role) /\ Then(r, Idle)
    /\ UNCHANGED <<task, burndown, behind>>

\* Mutant: nobody counts the tasks.
RemoveCheckOfAnyone(r, a, u) ==
    /\ CanRemove(a, u)
    /\ Begin(r, [op |-> "remove", target |-> u])
    /\ UNCHANGED <<accounts, role, task, burndown, behind>>

RemoveCheck(r, a, u) ==
    /\ CanRemove(a, u) /\ TasksOf(u) = {}
    /\ Begin(r, [op |-> "remove", target |-> u])
    /\ UNCHANGED <<accounts, role, task, burndown, behind>>

\* The membership is the one that was found, not a later one.
RemoveMember(r) ==
    /\ req[r].op = "remove" /\ "gone" \notin raced[r]
    /\ Remove(req[r].target) /\ Then(r, Idle)
    /\ UNCHANGED <<task, burndown, behind>>

SetRoleCheck(r, a, u, ro) ==
    /\ CanSetRole(a, u, ro)
    /\ Begin(r, [op |-> "assign", target |-> u, role |-> ro])
    /\ UNCHANGED <<accounts, role, task, burndown, behind>>

UpdateMemberRole(r) ==
    /\ req[r].op = "assign" /\ "gone" \notin raced[r]
    /\ SetRole(req[r].target, req[r].role) /\ Then(r, Idle)
    /\ UNCHANGED <<task, burndown, behind>>

\* An account is deleted: no member any more, and nobody's tasks are its.
EraseUser(u) ==
    /\ u \in accounts
    /\ accounts' = accounts \ {u}
    /\ role' = [role EXCEPT ![u] = None]
    /\ task' = [t \in Tasks |-> IF task[t].assignee = u
                                THEN [task[t] EXCEPT !.assignee = None] ELSE task[t]]
    /\ UNCHANGED <<burndown, req, stale, behind>>

\* A step is refused, or the server dies before it.
Fail(r) ==
    /\ req[r] # Idle /\ req' = [req EXCEPT ![r] = Idle]
    /\ behind' = IF req[r].op \in {"burn", "upsert"} THEN behind \cup {"failed"} ELSE behind
    /\ UNCHANGED <<accounts, role, task, burndown, stale>>

-----------------------------------------------------------------------------
TaskNext(r) ==
    \/ \E a \in Users :
          \/ \E u \in Users \cup {None}, h \in Hours \cup {Keep} : CreateCheck(r, a, u, h)
          \/ \E T \in Items \cup {{}} : ReplanCheck(r, a, T)
          \/ \E t \in Tasks : DeleteCheck(r, a, t) \/ \E e \in Edits : UpdateCheck(r, a, t, e)
    \/ \E t \in Tasks : CreateTask(r, t)
    \/ UpdateTask(r) \/ DeleteTask(r) \/ Replan(r) \/ ReadTasks(r) \/ UpsertBurndown(r)

MemberNext(r) ==
    \/ \E a, u \in Users :
          \/ RemoveCheck(r, a, u)
          \/ \E ro \in UserRole : AddCheck(r, a, u, ro) \/ SetRoleCheck(r, a, u, ro)
    \/ AddMember(r) \/ RemoveMember(r) \/ UpdateMemberRole(r)

\* A reason stays with the request until its step.
Race ==
    raced' = [r \in Requests |->
                 IF req'[r].op # req[r].op THEN {}
                 ELSE raced[r] \cup Moves(r) \cup (Reasons(r)' \ Reasons(r))]

Next ==
    /\ \/ \E r \in Requests : TaskNext(r) \/ MemberNext(r) \/ Fail(r)
       \/ \E u \in Users : EraseUser(u)
       \/ \E T \in Items : DeleteItem(T)
    /\ Race

Spec == Init /\ [][Next]_vars

-----------------------------------------------------------------------------
(* Properties                                                              *)

\* The team has at most one Product Owner and one Scrum Master, unless a role was
\* given on a check that another request had overtaken.
OneLeaderUnlessRaced ==
    "taken" \notin stale =>
        \A ro \in Leaders, u, v \in Users : role[u] = ro /\ role[v] = ro => u = v

\* Whoever has a task is a member, though members are removed and accounts deleted:
\* unless an assignment met the removal.
AssigneesAreMembers ==
    stale \cap {"member", "busy"} = {} =>
        \A t \in Tasks : task[t].assignee # None => task[t].assignee \in Members

\* A task changes its status along the workflow, and leaves DONE never, unless two
\* updates of it met: the write is of the new status, whatever the old one is.
StepsFollowWorkflow ==
    [][\A t \in Tasks :
        Exists(t) /\ task'[t].status \notin {task[t].status, "deleted"}
        => \/ <<task[t].status, task'[t].status>> \in Transitions
           \/ "status" \in stale']_vars

\* Nobody approves the task that is his at that moment, unless it became his after
\* his request had been checked.
NobodyApprovesHisOwn ==
    [][\A r \in Requests : req[r].op = "update" /\ req'[r] # req[r] =>
        LET t == req[r].task IN
        task[t].status # "DONE" /\ task'[t].status = "DONE"
        => \/ req[r].actor # task[t].assignee
           \/ stale' \cap {"assignee", "status"} # {}]_vars

\* With no update of it under way, today's burndown point is the sum of the hours,
\* once an update has written it and unless, since the last one, a task was created
\* with hours, the estimate changed of a task without remaining hours, an item was
\* deleted with its tasks, a request failed between its write and the point's, or
\* stored a sum that another had overtaken.
BurndownIsTheSum ==
    behind = {} /\ (\A r \in Requests : req[r].op \notin {"burn", "upsert"})
        => burndown = TotalRemainingHours
=============================================================================
