------------------------- MODULE SprintTasks_proofs --------------------------
(***************************************************************************)
(* Tasks, team and burndown for any number of users, tasks and requests,   *)
(* and any request bodies.  The argument is that of Accounts: what a       *)
(* request found holds until a step that is noted in raced makes it fail.  *)
(* One fact is not checked by every request: an update may name the        *)
(* assignee the task has already, member or not; it is a member unless an  *)
(* assignment had met a removal before.                                    *)
(***************************************************************************)
EXTENDS SprintTasks, TLAPS

OpTyped(q) ==
    /\ q.op \in {"create", "update", "delete", "burn", "upsert", "add", "assign", "remove",
                 "replan", "idle"}
    /\ q.op = "create" => q.assignee \in Users \cup {None} /\ q.hours \in Hours \cup {Keep}
    /\ q.op = "update" => q.task \in Tasks /\ q.edit \in Edits
    /\ q.op = "delete" => q.task \in Tasks
    /\ q.op \in {"add", "assign"} => q.target \in Users /\ q.role \in UserRole
    /\ q.op = "remove" => q.target \in Users

\* The types, but for the sums, of which only equality matters here.
Typed ==
    /\ TeamTypeOK
    /\ task \in [Tasks -> Rows \cup {Absent, Deleted}]
    /\ \A t \in Tasks : task[t].assignee \in accounts \cup {None}
    /\ req = [r \in Requests |-> req[r]]
    /\ \A r \in Requests : OpTyped(req[r])

\* Whatever a check rules out has been noted when it holds by now,
RacesNoted == \A r \in Requests : Reasons(r) \ {"member"} \subseteq raced[r]

\* a former member as the assignee included, unless that is so already.
MemberNoted ==
    stale \cap {"member", "busy"} = {} =>
        \A r \in Requests : "member" \in Reasons(r) => "member" \in raced[r]

\* An update that nothing overtook still takes a step of the workflow,
StatusNoted ==
    \A r \in Requests :
        /\ req[r].op = "update" /\ req[r].edit.status # Keep /\ "status" \notin raced[r]
        => LET s == task[req[r].task].status IN
           req[r].edit.status = s \/ <<s, req[r].edit.status>> \in Transitions

\* and does not approve a task of the one who asks for it.
ApprovalNoted ==
    \A r \in Requests :
        /\ req[r].op = "update" /\ req[r].edit.status = "DONE"
        /\ raced[r] \cap {"status", "assignee"} = {}
        => \/ task[req[r].task].status = "DONE"
           \/ req[r].actor # task[req[r].task].assignee

IInv ==
    /\ Typed /\ RacesNoted /\ MemberNoted /\ StatusNoted /\ ApprovalNoted
    /\ OneLeaderUnlessRaced /\ AssigneesAreMembers /\ BurndownIsTheSum

-----------------------------------------------------------------------------
\* The step of a request: what becomes of its own entry, and of the others'.
LEMMA Begun ==
  ASSUME Typed, NEW r \in Requests, NEW o, Begin(r, o)
  PROVE  /\ req[r] = Idle /\ req'[r] = o /\ \A q \in Requests \ {r} : req'[q] = req[q]
         /\ req' = [q \in Requests |-> req'[q]] /\ stale' = stale
BY DEF Typed, Begin

LEMMA Went ==
  ASSUME Typed, NEW r \in Requests, NEW o, Then(r, o)
  PROVE  /\ req'[r] = o /\ \A q \in Requests \ {r} : req'[q] = req[q]
         /\ req' = [q \in Requests |-> req'[q]] /\ stale' = stale \cup raced[r]
BY DEF Typed, Then

LEMMA TeamTyped ==
  ASSUME Typed
  PROVE  \A u \in Users : /\ Remove(u) => TeamTypeOK' /\ UNCHANGED accounts
                          /\ \A ro \in UserRole :
                                Add(u, ro) \/ SetRole(u, ro) => TeamTypeOK' /\ UNCHANGED accounts
BY DEF Typed, TeamTypeOK, Add, Remove, SetRole, Members

LEMMA RowsTyped ==
  ASSUME Typed, NEW t \in Tasks
  PROVE  /\ task[t].status \in TaskStatus \cup {"absent", "deleted"}
         /\ task[t].assignee \in Users \cup {None}
         /\ Exists(t) => task[t] \in Rows
         /\ task[t] = [status |-> task[t].status, assignee |-> task[t].assignee, hours |-> task[t].hours,
                      given |-> task[t].given]
BY DEF Typed, Rows, Absent, Deleted, Exists, TaskStatus

LEMMA ApplyTyped ==
  ASSUME NEW row \in Rows, NEW e \in Edits
  PROVE  /\ Apply(row, e) \in Rows
         /\ Apply(row, e).status = (IF e.status = Keep THEN row.status ELSE e.status)
         /\ Apply(row, e).assignee = (IF e.assignee = Keep THEN row.assignee ELSE e.assignee)
<1>1. /\ e.status \in TaskStatus \cup {Keep} /\ e.assignee \in Users \cup {None, Keep}
      /\ e.hours \in Hours \cup {Keep} /\ e.estimate \in Hours \cup {Keep}
  BY EditsAssumption
<1>2. /\ row.status \in TaskStatus /\ row.assignee \in Users \cup {None} /\ row.hours \in Hours
      /\ row.given \in BOOLEAN
  BY DEF Rows
<1> DEFINE s == IF e.status = Keep THEN row.status ELSE e.status
           a == IF e.assignee = Keep THEN row.assignee ELSE e.assignee
           h == CASE e.status = "DONE" -> 0
                  [] e.status # "DONE" /\ e.hours # Keep -> e.hours
                  [] OTHER -> IF e.estimate = Keep \/ row.given THEN row.hours ELSE e.estimate
           g == row.given \/ e.status = "DONE" \/ e.hours # Keep
<1>3. s \in TaskStatus /\ a \in Users \cup {None}
  BY <1>1, <1>2
<1>4. h \in Hours
  <2>1. CASE e.status = "DONE"
    BY <2>1, TasksAssumption
  <2>2. CASE e.status # "DONE" /\ e.hours # Keep
    BY <1>1, <2>2
  <2>3. CASE e.status # "DONE" /\ e.hours = Keep
    BY <1>1, <1>2, <2>3
  <2> QED BY <2>1, <2>2, <2>3
<1>5. g \in BOOLEAN
  BY <1>2
<1>6. Apply(row, e) = [status |-> s, assignee |-> a, hours |-> h, given |-> g]
  BY DEF Apply
<1> HIDE DEF s, a, h, g
<1>7. Apply(row, e).status = s /\ Apply(row, e).assignee = a
  BY <1>6
<1>8. Apply(row, e) \in Rows
  BY <1>3, <1>4, <1>5, <1>6 DEF Rows
<1> QED BY <1>7, <1>8 DEF s, a

\* What deletes tasks deletes them as they are.
LEMMA Deletes ==
  ASSUME Typed,
         \/ \E r \in Requests : DeleteTask(r) \/ Replan(r)
         \/ \E T \in Items : DeleteItem(T)
  PROVE  /\ \A t \in Tasks : task'[t] \in {task[t], Deleted}
         /\ task' = [t \in Tasks |-> task'[t]] /\ UNCHANGED <<accounts, role>>
<1>1. ASSUME NEW r \in Requests, DeleteTask(r)
      PROVE  /\ \A t \in Tasks : task'[t] \in {task[t], Deleted}
             /\ task' = [t \in Tasks |-> task'[t]]
  BY <1>1 DEF DeleteTask, Typed
<1>2. ASSUME NEW r \in Requests, Replan(r)
      PROVE  /\ \A t \in Tasks : task'[t] \in {task[t], Deleted}
             /\ task' = [t \in Tasks |-> task'[t]]
  BY <1>2 DEF Replan
<1>3. ASSUME NEW T \in Items, DeleteItem(T)
      PROVE  /\ \A t \in Tasks : task'[t] \in {task[t], Deleted}
             /\ task' = [t \in Tasks |-> task'[t]]
  BY <1>3 DEF DeleteItem
<1>4. UNCHANGED <<accounts, role>>
  BY DEF DeleteTask, Replan, DeleteItem
<1> QED BY <1>1, <1>2, <1>3, <1>4

\* A step that leaves the other requests alone keeps them typed.
LEMMA OneTyped ==
  ASSUME Typed, NEW r \in Requests, NEW o, OpTyped(o), req'[r] = o,
         \A q \in Requests \ {r} : req'[q] = req[q], req' = [q \in Requests |-> req'[q]]
  PROVE  req' = [q \in Requests |-> req'[q]] /\ \A q \in Requests : OpTyped(req'[q])
BY DEF Typed

LEMMA ChecksTyped ==
  ASSUME Typed, NEW r \in Requests, NEW a \in Users
  PROVE  /\ \A u \in Users \cup {None}, h \in Hours \cup {Keep} : CreateCheck(r, a, u, h) => Typed'
         /\ \A t \in Tasks : /\ DeleteCheck(r, a, t) => Typed'
                             /\ \A e \in Edits : UpdateCheck(r, a, t, e) => Typed'
         /\ \A T \in Items \cup {{}} : ReplanCheck(r, a, T) => Typed'
         /\ \A u \in Users : /\ RemoveCheck(r, a, u) => Typed'
                             /\ \A ro \in UserRole : AddCheck(r, a, u, ro) \/ SetRoleCheck(r, a, u, ro)
                                                        => Typed'
<1>1. ASSUME NEW o, OpTyped(o), Begin(r, o), UNCHANGED <<accounts, role, task, burndown, behind>>
      PROVE  Typed'
  <2>1. req' = [q \in Requests |-> req'[q]] /\ \A q \in Requests : OpTyped(req'[q])
    BY <1>1, Begun, OneTyped
  <2>2. \A q \in Requests : OpTyped(req[q])'
    BY <2>1 DEF OpTyped
  <2> QED BY <1>1, <2>1, <2>2 DEF Typed, TeamTypeOK
<1>2. ASSUME NEW u \in Users \cup {None}, NEW h \in Hours \cup {Keep}, CreateCheck(r, a, u, h) PROVE Typed'
  <2>1. OpTyped([op |-> "create", assignee |-> u, hours |-> h])
    BY DEF OpTyped
  <2> QED BY <1>1, <1>2, <2>1 DEF CreateCheck
<1>3. ASSUME NEW t \in Tasks, DeleteCheck(r, a, t) PROVE Typed'
  <2>1. OpTyped([op |-> "delete", task |-> t])
    BY DEF OpTyped
  <2> QED BY <1>1, <1>3, <2>1 DEF DeleteCheck
<1>4. ASSUME NEW t \in Tasks, NEW e \in Edits, UpdateCheck(r, a, t, e) PROVE Typed'
  <2>1. OpTyped([op |-> "update", task |-> t, edit |-> e,
                 actor |-> IF e.status = "DONE" THEN a ELSE None])
    BY DEF OpTyped
  <2> QED BY <1>1, <1>4, <2>1 DEF UpdateCheck
<1>5. ASSUME NEW u \in Users, RemoveCheck(r, a, u) PROVE Typed'
  <2>1. OpTyped([op |-> "remove", target |-> u])
    BY DEF OpTyped
  <2> QED BY <1>1, <1>5, <2>1 DEF RemoveCheck
<1>6. ASSUME NEW u \in Users, NEW ro \in UserRole, AddCheck(r, a, u, ro) \/ SetRoleCheck(r, a, u, ro)
      PROVE  Typed'
  <2>1. \A op \in {"add", "assign"} : OpTyped([op |-> op, target |-> u, role |-> ro])
    BY DEF OpTyped
  <2> QED BY <1>1, <1>6, <2>1 DEF AddCheck, SetRoleCheck
<1>7. ASSUME NEW T \in Items \cup {{}}, ReplanCheck(r, a, T) PROVE Typed'
  <2>1. OpTyped([op |-> "replan", gone |-> T])
    BY DEF OpTyped
  <2> QED BY <1>1, <1>7, <2>1 DEF ReplanCheck
<1> QED BY <1>2, <1>3, <1>4, <1>5, <1>6, <1>7

\* What a write makes of the tasks, and of the requests.
LEMMA WritesTyped ==
  ASSUME Typed, NEW r \in Requests, NEW o, OpTyped(o), Then(r, o), TeamTypeOK',
         task' \in [Tasks -> Rows \cup {Absent, Deleted}],
         \A t \in Tasks : task'[t].assignee \in accounts' \cup {None}
  PROVE  Typed'
<1>1. req' = [q \in Requests |-> req'[q]] /\ \A q \in Requests : OpTyped(req'[q])
  BY Went, OneTyped
<1>2. \A q \in Requests : OpTyped(req[q])'
  BY <1>1 DEF OpTyped
<1> QED BY <1>1, <1>2 DEF Typed

LEMMA TypedStep == Typed /\ [Next]_vars => Typed'
<1> SUFFICES ASSUME Typed, [Next]_vars PROVE Typed'
  OBVIOUS
<1>0. /\ OpTyped(Idle) /\ OpTyped(Burn)
      /\ \A n : OpTyped([op |-> "upsert", sum |-> n])
  BY DEF OpTyped, Idle, Burn
<1>1. CASE UNCHANGED vars
  BY <1>1 DEF vars, Typed, TeamTypeOK, OpTyped
<1>2. ASSUME NEW r \in Requests, NEW t \in Tasks, CreateTask(r, t) PROVE Typed'
  <2>1. OpTyped(req[r]) /\ req[r].op = "create"
    BY <1>2 DEF Typed, CreateTask
  <2> DEFINE h == IF req[r].hours = Keep THEN 0 ELSE req[r].hours
             g == req[r].hours # Keep
  <2>5. h \in Hours /\ g \in BOOLEAN
    BY <2>1, TasksAssumption DEF OpTyped
  <2>2. [status |-> "TODO", assignee |-> req[r].assignee, hours |-> h, given |-> g] \in Rows
    <3> HIDE DEF h, g
    <3> QED BY <2>1, <2>5 DEF OpTyped, Rows, TaskStatus
  <2>3. /\ task' \in [Tasks -> Rows \cup {Absent, Deleted}]
        /\ \A u \in Tasks : task'[u].assignee \in accounts' \cup {None}
    BY <1>2, <2>2 DEF CreateTask, Typed
  <2>4. TeamTypeOK'
    BY <1>2 DEF CreateTask, Typed, TeamTypeOK
  <2> QED BY <1>0, <1>2, <2>3, <2>4, WritesTyped DEF CreateTask
<1>3. ASSUME NEW r \in Requests, UpdateTask(r) PROVE Typed'
  <2> DEFINE t == req[r].task
             e == req[r].edit
  <2>1. t \in Tasks /\ e \in Edits /\ Exists(t)
    BY <1>3 DEF Typed, OpTyped, UpdateTask
  <2>2. Apply(task[t], e) \in Rows /\ Apply(task[t], e).assignee \in accounts \cup {None}
    BY <1>3, <2>1, RowsTyped, ApplyTyped DEF UpdateTask, Typed
  <2>3. task' = [task EXCEPT ![t] = Apply(task[t], e)] /\ UNCHANGED <<accounts, role>>
    BY <1>3, <2>1 DEF UpdateTask, Typed
  <2> HIDE DEF t, e
  <2>4. /\ task' \in [Tasks -> Rows \cup {Absent, Deleted}]
        /\ \A u \in Tasks : task'[u].assignee \in accounts' \cup {None}
    BY <2>1, <2>2, <2>3 DEF Typed
  <2>5. TeamTypeOK'
    BY <2>3 DEF Typed, TeamTypeOK
  <2>6. PICK o \in {Burn, Idle} : Then(r, o)
    BY <1>3 DEF UpdateTask
  <2> QED BY <1>0, <2>4, <2>5, <2>6, WritesTyped
<1>4. ASSUME \/ \E r \in Requests : DeleteTask(r) \/ Replan(r)
             \/ \E T \in Items : DeleteItem(T)
      PROVE  Typed'
  <2>1. /\ \A t \in Tasks : task'[t] \in {task[t], Deleted}
        /\ task' = [t \in Tasks |-> task'[t]] /\ UNCHANGED <<accounts, role>>
    BY <1>4, Deletes
  <2>2. Deleted.assignee = None
    BY DEF Deleted
  <2>3. /\ task' \in [Tasks -> Rows \cup {Absent, Deleted}]
        /\ \A u \in Tasks : task'[u].assignee \in accounts' \cup {None}
    BY <2>1, <2>2 DEF Typed
  <2>4. TeamTypeOK'
    BY <2>1 DEF Typed, TeamTypeOK
  <2>5. ASSUME NEW r \in Requests, DeleteTask(r) \/ Replan(r) PROVE Then(r, Burn)
    BY <2>5 DEF DeleteTask, Replan
  <2>6. ASSUME NEW T \in Items, DeleteItem(T) PROVE Typed'
    <3>1. UNCHANGED req
      BY <2>6 DEF DeleteItem
    <3>2. \A q \in Requests : OpTyped(req[q])'
      BY <3>1 DEF Typed, OpTyped
    <3> QED BY <2>3, <2>4, <3>1, <3>2 DEF Typed
  <2> QED BY <1>0, <1>4, <2>3, <2>4, <2>5, <2>6, WritesTyped
<1>5. ASSUME NEW r \in Requests, ReadTasks(r) \/ UpsertBurndown(r) PROVE Typed'
  <2>1. PICK o : OpTyped(o) /\ Then(r, o)
    BY <1>0, <1>5 DEF ReadTasks, UpsertBurndown
  <2>2. UNCHANGED <<accounts, role, task>>
    BY <1>5 DEF ReadTasks, UpsertBurndown
  <2> QED BY <2>1, <2>2, WritesTyped DEF Typed, TeamTypeOK
<1>6. ASSUME NEW r \in Requests, AddMember(r) \/ RemoveMember(r) \/ UpdateMemberRole(r) PROVE Typed'
  <2>1. Then(r, Idle) /\ UNCHANGED task
    BY <1>6 DEF AddMember, RemoveMember, UpdateMemberRole
  <2>2. OpTyped(req[r])
    BY DEF Typed
  <2>3. TeamTypeOK' /\ UNCHANGED accounts
    BY <1>6, <2>2, TeamTyped DEF AddMember, RemoveMember, UpdateMemberRole, OpTyped
  <2> QED BY <1>0, <2>1, <2>3, WritesTyped DEF Typed
<1>7. ASSUME NEW r \in Requests, Fail(r) PROVE Typed'
  <2>1. /\ req'[r] = Idle /\ \A q \in Requests \ {r} : req'[q] = req[q]
        /\ req' = [q \in Requests |-> req'[q]]
    BY <1>7 DEF Fail, Typed
  <2>2. \A q \in Requests : OpTyped(req'[q])
    BY <1>0, <2>1, OneTyped
  <2>3. \A q \in Requests : OpTyped(req[q])'
    BY <2>2 DEF OpTyped
  <2> QED BY <1>7, <2>1, <2>3 DEF Fail, Typed, TeamTypeOK
<1>8. ASSUME NEW u \in Users, EraseUser(u) PROVE Typed'
  <2>1. \A t \in Tasks : /\ task'[t] \in Rows \cup {Absent, Deleted}
                         /\ task'[t].assignee \in accounts' \cup {None}
    <3> SUFFICES ASSUME NEW t \in Tasks
                 PROVE  /\ task'[t] \in Rows \cup {Absent, Deleted}
                        /\ task'[t].assignee \in accounts' \cup {None}
      OBVIOUS
    <3>1. CASE task[t].assignee = u
      <4>1. task[t] \in Rows
        BY <3>1, TeamAssumption DEF Typed, Absent, Deleted
      <4>2. task'[t] = [task[t] EXCEPT !.assignee = None]
        BY <1>8, <3>1 DEF EraseUser
      <4> QED BY <4>1, <4>2 DEF Rows
    <3>2. CASE task[t].assignee # u
      BY <1>8, <3>2 DEF EraseUser, Typed
    <3> QED BY <3>1, <3>2
  <2>2. task' \in [Tasks -> Rows \cup {Absent, Deleted}]
    BY <1>8, <2>1 DEF EraseUser
  <2>3. TeamTypeOK'
    BY <1>8 DEF EraseUser, Typed, TeamTypeOK
  <2>4. UNCHANGED req
    BY <1>8 DEF EraseUser
  <2>5. \A q \in Requests : OpTyped(req[q])'
    BY <2>4 DEF Typed, OpTyped
  <2> QED BY <2>1, <2>2, <2>3, <2>4, <2>5 DEF Typed
<1> QED BY <1>1, <1>2, <1>3, <1>4, <1>5, <1>6, <1>7, <1>8, ChecksTyped
        DEF Next, TaskNext, MemberNext

-----------------------------------------------------------------------------
LEMMA ReasonsAre ==
  ASSUME NEW q \in Requests
  PROVE  /\ Reasons(q) \subseteq {"member", "gone", "taken", "busy", "sum"}
         /\ "member" \in Reasons(q) <=>
              \/ /\ req[q].op = "create" /\ req[q].assignee \in Users
                 /\ role[req[q].assignee] = None
              \/ /\ req[q].op = "update" /\ req[q].edit.assignee \in Users
                 /\ role[req[q].edit.assignee] = None
         /\ "gone" \in Reasons(q) <=>
              req[q].op \in {"remove", "assign"} /\ role[req[q].target] = None
         /\ "taken" \in Reasons(q) <=>
              req[q].op \in {"add", "assign"} /\ Taken(req[q].role, req[q].target)
         /\ "busy" \in Reasons(q) <=> req[q].op = "remove" /\ TasksOf(req[q].target) # {}
         /\ "sum" \in Reasons(q) <=> req[q].op = "upsert" /\ req[q].sum # TotalRemainingHours
BY TeamAssumption DEF Reasons

LEMMA ReasonsWillBe ==
  ASSUME NEW q \in Requests
  PROVE  /\ Reasons(q)' \subseteq {"member", "gone", "taken", "busy", "sum"}
         /\ "member" \in Reasons(q)' <=>
              \/ /\ req'[q].op = "create" /\ req'[q].assignee \in Users
                 /\ role'[req'[q].assignee] = None
              \/ /\ req'[q].op = "update" /\ req'[q].edit.assignee \in Users
                 /\ role'[req'[q].edit.assignee] = None
         /\ "gone" \in Reasons(q)' <=>
              req'[q].op \in {"remove", "assign"} /\ role'[req'[q].target] = None
         /\ "taken" \in Reasons(q)' <=>
              req'[q].op \in {"add", "assign"} /\ Taken(req[q].role, req[q].target)'
         /\ "busy" \in Reasons(q)' <=> req'[q].op = "remove" /\ TasksOf(req[q].target)' # {}
         /\ "sum" \in Reasons(q)' <=> req'[q].op = "upsert" /\ req'[q].sum # TotalRemainingHours'
BY TeamAssumption DEF Reasons

\* What a request is about to do next, when a step has given it something else to do.
LEMMA Turns ==
  ASSUME Typed, Next, NEW q \in Requests, req'[q] # req[q]
  PROVE  \/ req'[q].op \in {"idle", "burn", "delete", "replan"}
         \/ ReadTasks(q)
         \/ \E a \in Users :
              \/ \E u \in Users \cup {None}, h \in Hours \cup {Keep} : CreateCheck(q, a, u, h)
              \/ \E t \in Tasks, e \in Edits : UpdateCheck(q, a, t, e)
              \/ \E u \in Users : \/ RemoveCheck(q, a, u)
                                  \/ \E ro \in UserRole : AddCheck(q, a, u, ro) \/ SetRoleCheck(q, a, u, ro)
<1>1. /\ \A u \in Users : EraseUser(u) => req' = req
      /\ \A T \in Items : DeleteItem(T) => req' = req
  BY DEF EraseUser, DeleteItem
<1>2. PICK r \in Requests : TaskNext(r) \/ MemberNext(r) \/ Fail(r)
  BY <1>1 DEF Next
<1>3. \A o : Begin(r, o) \/ Then(r, o) => \A p \in Requests \ {r} : req'[p] = req[p]
  BY DEF Begin, Then, Typed
<1>4. \A p \in Requests \ {r} : req'[p] = req[p]
  <2>1. CASE TaskNext(r)
    BY <1>3, <2>1 DEF TaskNext, CreateCheck, DeleteCheck, UpdateCheck, ReplanCheck, CreateTask,
                      UpdateTask, DeleteTask, Replan, ReadTasks, UpsertBurndown
  <2>2. CASE MemberNext(r)
    BY <1>3, <2>2 DEF MemberNext, RemoveCheck, AddCheck, SetRoleCheck, AddMember, RemoveMember,
                      UpdateMemberRole
  <2>3. CASE Fail(r)
    BY <2>3 DEF Fail, Typed
  <2> QED BY <1>2, <2>1, <2>2, <2>3
<1>5. q = r
  BY <1>4
<1>6. /\ Then(q, Idle) => req'[q].op = "idle"
      /\ Then(q, Burn) => req'[q].op = "burn"
  BY DEF Then, Typed, Idle, Burn
<1>7. ASSUME TaskNext(q)
      PROVE  \/ req'[q].op \in {"idle", "burn", "delete", "replan"}
             \/ ReadTasks(q)
             \/ \E a \in Users :
                  \/ \E u \in Users \cup {None}, h \in Hours \cup {Keep} : CreateCheck(q, a, u, h)
                  \/ \E t \in Tasks, e \in Edits : UpdateCheck(q, a, t, e)
  <2>1. \A t \in Tasks : CreateTask(q, t) => req'[q].op = "idle"
    BY <1>6 DEF CreateTask
  <2>2. /\ UpdateTask(q) \/ DeleteTask(q) \/ Replan(q) => req'[q].op \in {"idle", "burn"}
        /\ UpsertBurndown(q) => req'[q].op = "idle"
    <3>1. UpdateTask(q) => Then(q, Burn) \/ Then(q, Idle)
      BY DEF UpdateTask
    <3> QED BY <1>6, <3>1 DEF DeleteTask, Replan, UpsertBurndown
  <2>3. ASSUME NEW a \in Users, NEW t \in Tasks, DeleteCheck(q, a, t)
        PROVE  req'[q].op = "delete"
    <3>1. req'[q] = [op |-> "delete", task |-> t]
      BY <2>3, Begun DEF DeleteCheck
    <3> QED BY <3>1
  <2>4. ASSUME NEW a \in Users, NEW T, ReplanCheck(q, a, T)
        PROVE  req'[q].op = "replan"
    <3>1. req'[q] = [op |-> "replan", gone |-> T]
      BY <2>4, Begun DEF ReplanCheck
    <3> QED BY <3>1
  <2> QED BY <1>7, <2>1, <2>2, <2>3, <2>4 DEF TaskNext
<1>8. ASSUME MemberNext(q)
      PROVE  \/ req'[q].op = "idle"
             \/ \E a, u \in Users : \/ RemoveCheck(q, a, u)
                                    \/ \E ro \in UserRole : AddCheck(q, a, u, ro) \/ SetRoleCheck(q, a, u, ro)
  <2>1. AddMember(q) \/ RemoveMember(q) \/ UpdateMemberRole(q) => req'[q].op = "idle"
    BY <1>6 DEF AddMember, RemoveMember, UpdateMemberRole
  <2> QED BY <1>8, <2>1 DEF MemberNext
<1>9. ASSUME Fail(q) PROVE req'[q].op = "idle"
  BY <1>9 DEF Fail, Typed, Idle
<1> QED BY <1>2, <1>5, <1>7, <1>8, <1>9

LEMMA RacesStep == Typed /\ RacesNoted /\ [Next]_vars => RacesNoted'
<1> SUFFICES ASSUME Typed, RacesNoted, [Next]_vars, NEW q \in Requests
             PROVE  (Reasons(q) \ {"member"} \subseteq raced[q])'
  BY DEF RacesNoted
<1>1. CASE UNCHANGED vars
  <2>1. Reasons(q)' = Reasons(q)
    BY <1>1 DEF vars, Reasons, Taken, TasksOf, TotalRemainingHours
  <2> QED BY <1>1, <2>1 DEF vars, RacesNoted
<1>2. ASSUME Next, req'[q].op = req[q].op PROVE (Reasons(q) \ {"member"} \subseteq raced[q])'
  <2>1. raced'[q] = raced[q] \cup Moves(q) \cup (Reasons(q)' \ Reasons(q))
    BY <1>2 DEF Next, Race
  <2> QED BY <2>1 DEF RacesNoted
<1>3. ASSUME Next, req'[q].op # req[q].op PROVE Reasons(q)' \subseteq {"member"}
  <2>1. CASE req'[q].op \in {"idle", "burn", "delete", "replan", "create", "update"}
    BY <2>1, ReasonsWillBe
  <2>2. CASE ReadTasks(q)
    <3>1. req'[q] = [op |-> "upsert", sum |-> TotalRemainingHours] /\ task' = task
      BY <2>2, Went DEF ReadTasks
    <3>2. TotalRemainingHours' = TotalRemainingHours
      BY <3>1 DEF TotalRemainingHours
    <3>3. req'[q].op = "upsert" /\ req'[q].sum = TotalRemainingHours'
      BY <3>1, <3>2
    <3> QED BY <3>3, ReasonsWillBe
  <2>3. ASSUME NEW a \in Users, NEW u \in Users, RemoveCheck(q, a, u)
        PROVE  Reasons(q)' \subseteq {"member"}
    <3>1. req'[q] = [op |-> "remove", target |-> u] /\ UNCHANGED <<task, role>>
      BY <2>3, Begun DEF RemoveCheck
    <3>2. role[u] # None /\ TasksOf(u) = {}
      BY <2>3 DEF RemoveCheck, CanRemove, Members
    <3>3. TasksOf(req[q].target)' = {}
      BY <3>1, <3>2 DEF TasksOf
    <3>4. req'[q].op = "remove" /\ role'[req'[q].target] # None
      BY <3>1, <3>2
    <3> QED BY <3>3, <3>4, ReasonsWillBe
  <2>4. ASSUME NEW a \in Users, NEW u \in Users, NEW ro \in UserRole,
               AddCheck(q, a, u, ro) \/ SetRoleCheck(q, a, u, ro)
        PROVE  Reasons(q)' \subseteq {"member"}
    <3>1. /\ req'[q].op \in {"add", "assign"} /\ req'[q].target = u /\ req'[q].role = ro
          /\ UNCHANGED role
      <4>1. CASE AddCheck(q, a, u, ro)
        <5>1. req'[q] = [op |-> "add", target |-> u, role |-> ro] /\ UNCHANGED role
          BY <4>1, Begun DEF AddCheck
        <5> QED BY <5>1
      <4>2. CASE SetRoleCheck(q, a, u, ro)
        <5>1. req'[q] = [op |-> "assign", target |-> u, role |-> ro] /\ UNCHANGED role
          BY <4>2, Begun DEF SetRoleCheck
        <5>2. req'[q].op = "assign" /\ req'[q].target = u /\ req'[q].role = ro
          BY <5>1
        <5> QED BY <5>1, <5>2
      <4> QED BY <2>4, <4>1, <4>2
    <3>2. ~Taken(ro, u)
      BY <2>4 DEF AddCheck, SetRoleCheck, CanAdd, CanSetRole
    <3>3. ~Taken(req[q].role, req[q].target)'
      BY <3>1, <3>2 DEF Taken
    <3>4. req'[q].op = "assign" => role'[req'[q].target] # None
      <4>1. AddCheck(q, a, u, ro) => req'[q].op = "add"
        BY Begun DEF AddCheck
      <4>2. SetRoleCheck(q, a, u, ro) => role[u] # None
        BY DEF SetRoleCheck, CanSetRole, Members
      <4> QED BY <2>4, <3>1, <4>1, <4>2
    <3> QED BY <3>1, <3>3, <3>4, ReasonsWillBe
  <2>5. ASSUME NEW a \in Users, NEW u \in Users \cup {None}, NEW h \in Hours \cup {Keep}, CreateCheck(q, a, u, h)
        PROVE  req'[q].op = "create"
    BY <2>5, Begun DEF CreateCheck
  <2>6. ASSUME NEW a \in Users, NEW t \in Tasks, NEW e \in Edits, UpdateCheck(q, a, t, e)
        PROVE  req'[q].op = "update"
    BY <2>6, Begun DEF UpdateCheck
  <2> QED BY <1>3, <2>1, <2>2, <2>3, <2>4, <2>5, <2>6, Turns
<1> QED BY <1>1, <1>2, <1>3

-----------------------------------------------------------------------------
\* What a step changes, and that stale only grows.
LEMMA Changes ==
  ASSUME Typed, Next
  PROVE  /\ stale \subseteq stale'
         /\ \/ UNCHANGED role
            \/ \E u \in Users : EraseUser(u)
            \/ \E r \in Requests : AddMember(r) \/ RemoveMember(r) \/ UpdateMemberRole(r)
         /\ \/ UNCHANGED task
            \/ \E u \in Users : EraseUser(u)
            \/ \E T \in Items : DeleteItem(T)
            \/ \E r \in Requests : \/ UpdateTask(r) \/ DeleteTask(r) \/ Replan(r)
                                   \/ \E t \in Tasks : CreateTask(r, t)
<1> DEFINE Role == \/ UNCHANGED role
                   \/ \E u \in Users : EraseUser(u)
                   \/ \E r \in Requests : AddMember(r) \/ RemoveMember(r) \/ UpdateMemberRole(r)
           Task == \/ UNCHANGED task
                   \/ \E u \in Users : EraseUser(u)
                   \/ \E T \in Items : DeleteItem(T)
                   \/ \E r \in Requests : \/ UpdateTask(r) \/ DeleteTask(r) \/ Replan(r)
                                          \/ \E t \in Tasks : CreateTask(r, t)
           Goal == stale \subseteq stale' /\ Role /\ Task
<1>1. ASSUME NEW u \in Users, EraseUser(u) PROVE Goal
  <2>1. stale' = stale
    BY <1>1 DEF EraseUser
  <2> QED BY <1>1, <2>1
<1>2. ASSUME NEW r \in Requests, Fail(r) PROVE Goal
  BY <1>2 DEF Fail
<1>3. ASSUME NEW r \in Requests, AddMember(r) \/ RemoveMember(r) \/ UpdateMemberRole(r) PROVE Goal
  <2>1. stale \subseteq stale' /\ UNCHANGED task
    BY <1>3 DEF AddMember, RemoveMember, UpdateMemberRole, Then
  <2> QED BY <1>3, <2>1
<1>4. ASSUME NEW r \in Requests,
             UpdateTask(r) \/ DeleteTask(r) \/ Replan(r) \/ \E t \in Tasks : CreateTask(r, t)
      PROVE  Goal
  <2>1. stale \subseteq stale' /\ UNCHANGED role
    BY <1>4 DEF UpdateTask, DeleteTask, Replan, CreateTask, Then
  <2> QED BY <1>4, <2>1
<1>10. ASSUME NEW T \in Items, DeleteItem(T) PROVE Goal
  <2>1. stale' = stale /\ UNCHANGED role
    BY <1>10 DEF DeleteItem
  <2> QED BY <1>10, <2>1
<1>5. ASSUME NEW r \in Requests, ReadTasks(r) \/ UpsertBurndown(r) PROVE Goal
  BY <1>5 DEF ReadTasks, UpsertBurndown, Then
<1>6. ASSUME NEW r \in Requests, NEW a \in Users,
             \/ \E u \in Users \cup {None}, h \in Hours \cup {Keep} : CreateCheck(r, a, u, h)
             \/ \E T \in Items \cup {{}} : ReplanCheck(r, a, T)
             \/ \E t \in Tasks : DeleteCheck(r, a, t) \/ \E e \in Edits : UpdateCheck(r, a, t, e)
             \/ \E u \in Users : \/ RemoveCheck(r, a, u)
                                 \/ \E ro \in UserRole : AddCheck(r, a, u, ro) \/ SetRoleCheck(r, a, u, ro)
      PROVE  Goal
  <2>1. stale' = stale /\ UNCHANGED <<role, task>>
    BY <1>6 DEF CreateCheck, DeleteCheck, UpdateCheck, ReplanCheck, RemoveCheck, AddCheck,
                SetRoleCheck, Begin
  <2> QED BY <2>1
<1>7. ASSUME NEW r \in Requests, TaskNext(r) PROVE Goal
  <2> HIDE DEF Goal
  <2> QED BY <1>4, <1>5, <1>6, <1>7 DEF TaskNext
<1>8. ASSUME NEW r \in Requests, MemberNext(r) PROVE Goal
  <2> HIDE DEF Goal
  <2> QED BY <1>3, <1>6, <1>8 DEF MemberNext
<1>9. Goal
  <2> HIDE DEF Goal
  <2> QED BY <1>1, <1>2, <1>7, <1>8, <1>10 DEF Next
<1> QED BY <1>9

\* A request that a step leaves where it is has what the step changed noted.
LEMMA Waited ==
  ASSUME Next, NEW q \in Requests, req'[q] = req[q]
  PROVE  raced'[q] = raced[q] \cup Moves(q) \cup (Reasons(q)' \ Reasons(q))
BY DEF Next, Race

LEMMA MemberChecks ==
  ASSUME Typed, NEW q \in Requests, NEW a \in Users, NEW u \in Users,
         \/ RemoveCheck(q, a, u)
         \/ \E ro \in UserRole : AddCheck(q, a, u, ro) \/ SetRoleCheck(q, a, u, ro)
  PROVE  req'[q].op \in {"remove", "add", "assign"}
<1>1. ASSUME RemoveCheck(q, a, u) PROVE req'[q].op = "remove"
  <2>1. req'[q] = [op |-> "remove", target |-> u]
    BY <1>1, Begun DEF RemoveCheck
  <2> QED BY <2>1
<1>2. ASSUME NEW ro \in UserRole, AddCheck(q, a, u, ro) PROVE req'[q].op = "add"
  <2>1. req'[q] = [op |-> "add", target |-> u, role |-> ro]
    BY <1>2, Begun DEF AddCheck
  <2> QED BY <2>1
<1>3. ASSUME NEW ro \in UserRole, SetRoleCheck(q, a, u, ro) PROVE req'[q].op = "assign"
  <2>1. req'[q] = [op |-> "assign", target |-> u, role |-> ro]
    BY <1>3, Begun DEF SetRoleCheck
  <2> QED BY <2>1
<1> QED BY <1>1, <1>2, <1>3

LEMMA MemberStep == Typed /\ MemberNoted /\ AssigneesAreMembers /\ [Next]_vars => MemberNoted'
<1> SUFFICES ASSUME Typed, MemberNoted, AssigneesAreMembers, [Next]_vars,
                    stale' \cap {"member", "busy"} = {}, NEW q \in Requests,
                    "member" \in Reasons(q)'
             PROVE  "member" \in raced'[q]
  BY DEF MemberNoted
<1>1. CASE UNCHANGED vars
  <2>1. Reasons(q)' = Reasons(q)
    BY <1>1 DEF vars, Reasons, Taken, TasksOf, TotalRemainingHours
  <2> QED BY <1>1, <2>1 DEF vars, MemberNoted
<1>2. ASSUME Next PROVE stale \cap {"member", "busy"} = {}
  BY <1>2, Changes
<1>3. ASSUME Next, req'[q] = req[q] PROVE "member" \in raced'[q]
  BY <1>2, <1>3, Waited DEF MemberNoted
<1>4. ASSUME Next, req'[q] # req[q] PROVE FALSE
  <2>1. ASSUME NEW a \in Users, NEW u \in Users \cup {None}, NEW h \in Hours \cup {Keep}, CreateCheck(q, a, u, h)
        PROVE  FALSE
    <3>1. req'[q] = [op |-> "create", assignee |-> u, hours |-> h] /\ role' = role
      BY <2>1, Begun DEF CreateCheck
    <3>2. req'[q].op = "create" /\ req'[q].assignee = u
      BY <3>1
    <3>3. u = None \/ role[u] = "DEVELOPERS"
      BY <2>1 DEF CreateCheck, MayHaveTask, Developer
    <3> QED BY <3>1, <3>2, <3>3, ReasonsWillBe, TeamAssumption
  <2>2. ASSUME NEW a \in Users, NEW t \in Tasks, NEW e \in Edits, UpdateCheck(q, a, t, e)
        PROVE  FALSE
    <3>1. /\ req'[q] = [op |-> "update", task |-> t, edit |-> e,
                        actor |-> IF e.status = "DONE" THEN a ELSE None]
          /\ role' = role
      BY <2>2, Begun DEF UpdateCheck
    <3>2. req'[q].op = "update" /\ req'[q].edit = e
      BY <3>1
    <3>3. e.assignee \in Users => e.assignee \in Members
      <4>1. e.assignee \in Users => e.assignee # Keep /\ e.assignee # None
        BY EditsAssumption, TeamAssumption
      <4>2. e.assignee \in {Keep, task[t].assignee} \/ MayHaveTask(e.assignee)
        BY <2>2 DEF UpdateCheck
      <4>3. MayHaveTask(e.assignee) /\ e.assignee \in Users => e.assignee \in Members
        BY <4>1, TeamAssumption DEF MayHaveTask, Developer, Members
      <4>4. task[t].assignee # None => task[t].assignee \in Members
        BY <1>2, <1>4 DEF AssigneesAreMembers
      <4> QED BY <4>1, <4>2, <4>3, <4>4
    <3> QED BY <3>1, <3>2, <3>3, ReasonsWillBe DEF Members
  <2>3. req'[q].op \in {"create", "update"}
    BY ReasonsWillBe
  <2>4. ASSUME NEW a \in Users, NEW u \in Users,
               \/ RemoveCheck(q, a, u)
               \/ \E ro \in UserRole : AddCheck(q, a, u, ro) \/ SetRoleCheck(q, a, u, ro)
        PROVE  req'[q].op \in {"remove", "add", "assign"}
    BY <2>4, MemberChecks
  <2>5. ReadTasks(q) => req'[q].op = "upsert"
    BY Went DEF ReadTasks
  <2> QED BY <1>4, <2>1, <2>2, <2>3, <2>4, <2>5, Turns
<1> QED BY <1>1, <1>3, <1>4

\* The update requests that a step begins, and those it leaves waiting.
LEMMA Updating ==
  ASSUME Typed, Next, NEW q \in Requests, req'[q].op = "update"
  PROVE  \/ req'[q] = req[q]
         \/ \E a \in Users, t \in Tasks, e \in Edits : UpdateCheck(q, a, t, e)
<1>1. SUFFICES ASSUME req'[q] # req[q]
               PROVE  \E a \in Users, t \in Tasks, e \in Edits : UpdateCheck(q, a, t, e)
  OBVIOUS
<1>2. ASSUME NEW a \in Users, NEW u \in Users,
             \/ RemoveCheck(q, a, u)
             \/ \E ro \in UserRole : AddCheck(q, a, u, ro) \/ SetRoleCheck(q, a, u, ro)
      PROVE  req'[q].op \in {"remove", "add", "assign"}
  BY <1>2, MemberChecks
<1>3. ASSUME NEW a \in Users, NEW u \in Users \cup {None}, NEW h \in Hours \cup {Keep}, CreateCheck(q, a, u, h)
      PROVE  req'[q].op = "create"
  BY <1>3, Begun DEF CreateCheck
<1>4. ReadTasks(q) => req'[q].op = "upsert"
  BY Went DEF ReadTasks
<1> QED BY <1>1, <1>2, <1>3, <1>4, Turns

LEMMA NotesStep ==
  Typed /\ StatusNoted /\ ApprovalNoted /\ [Next]_vars => StatusNoted' /\ ApprovalNoted'
<1> SUFFICES ASSUME Typed, StatusNoted, ApprovalNoted, [Next]_vars,
                    NEW q \in Requests, req'[q].op = "update", req'[q].edit.status # Keep
             PROVE  LET s == task'[req'[q].task].status
                        e == req'[q].edit
                    IN  /\ "status" \notin raced'[q] => e.status = s \/ <<s, e.status>> \in Transitions
                        /\ e.status = "DONE" /\ raced'[q] \cap {"status", "assignee"} = {}
                           => \/ s = "DONE"
                              \/ req'[q].actor # task'[req'[q].task].assignee
  BY EditsAssumption DEF StatusNoted, ApprovalNoted, TaskStatus
<1> DEFINE Status(ra, q0, tk) == "status" \notin ra =>
               \/ q0.edit.status = tk[q0.task].status
               \/ <<tk[q0.task].status, q0.edit.status>> \in Transitions
           Approval(ra, q0, tk) ==
               q0.edit.status = "DONE" /\ ra \cap {"status", "assignee"} = {}
               => tk[q0.task].status = "DONE" \/ q0.actor # tk[q0.task].assignee
           Goal == Status(raced'[q], req'[q], task') /\ Approval(raced'[q], req'[q], task')
<1>1. CASE UNCHANGED vars
  BY <1>1 DEF vars, StatusNoted, ApprovalNoted
<1>2. ASSUME Next, req'[q] = req[q] PROVE Goal
  <2>1. Moves(q) \subseteq raced'[q] /\ raced[q] \subseteq raced'[q]
    BY <1>2, Waited
  <2>2. /\ "status" \notin raced'[q] => task'[req[q].task].status = task[req[q].task].status
        /\ "assignee" \notin raced'[q] => task'[req[q].task].assignee = task[req[q].task].assignee
    BY <1>2, <2>1 DEF Moves
  <2>3. Status(raced'[q], req'[q], task')
    BY <1>2, <2>1, <2>2 DEF StatusNoted
  <2>4. Approval(raced'[q], req'[q], task')
    BY <1>2, <2>1, <2>2 DEF ApprovalNoted
  <2> QED BY <2>3, <2>4
<1>3. ASSUME NEW a \in Users, NEW t \in Tasks, NEW e \in Edits, UpdateCheck(q, a, t, e)
      PROVE  Goal
  <2>1. /\ req'[q] = [op |-> "update", task |-> t, edit |-> e,
                      actor |-> IF e.status = "DONE" THEN a ELSE None]
        /\ task' = task
    BY <1>3, Begun DEF UpdateCheck
  <2>2. /\ req'[q].task = t /\ req'[q].edit = e
        /\ e.status = "DONE" => req'[q].actor = a
    BY <2>1
  <2>3. \/ e.status = task[t].status
        \/ /\ <<task[t].status, e.status>> \in Transitions
           /\ ~(e.status = "DONE" /\ task[t].assignee = a)
    BY <1>3, <2>2 DEF UpdateCheck
  <2> QED BY <2>1, <2>2, <2>3
<1>4. CASE Next
  <2> HIDE DEF Goal
  <2>1. Goal
    BY <1>2, <1>3, <1>4, Updating
  <2> QED BY <2>1 DEF Goal
<1> QED BY <1>1, <1>4

-----------------------------------------------------------------------------
LEMMA LeaderStep == Typed /\ RacesNoted /\ OneLeaderUnlessRaced /\ [Next]_vars => OneLeaderUnlessRaced'
<1> SUFFICES ASSUME Typed, RacesNoted, OneLeaderUnlessRaced, [Next]_vars, "taken" \notin stale',
                    NEW ro \in Leaders, NEW u \in Users, NEW v \in Users,
                    role'[u] = ro, role'[v] = ro
             PROVE  u = v
  BY DEF OneLeaderUnlessRaced
<1>0. ro # None /\ ro \in UserRole /\ role \in [Users -> UserRole \cup {None}]
  BY TeamAssumption DEF Leaders, UserRole, Typed, TeamTypeOK
<1>1. ASSUME "taken" \notin stale, role[u] = ro, role[v] = ro PROVE u = v
  BY <1>1 DEF OneLeaderUnlessRaced
<1>2. CASE UNCHANGED vars
  BY <1>1, <1>2 DEF vars
<1>3. ASSUME Next PROVE "taken" \notin stale
  BY <1>3, Changes
<1>4. ASSUME Next, UNCHANGED role PROVE u = v
  BY <1>1, <1>3, <1>4
<1>5. ASSUME Next, NEW w \in Users, role' = [role EXCEPT ![w] = None] PROVE u = v
  BY <1>0, <1>1, <1>3, <1>5
<1>6. ASSUME Next, NEW r \in Requests, AddMember(r) \/ UpdateMemberRole(r) PROVE u = v
  <2> DEFINE w == req[r].target
             new == req[r].role
  <2>1. /\ w \in Users /\ new \in UserRole /\ req[r].op \in {"add", "assign"}
        /\ role' = [role EXCEPT ![w] = new] /\ "taken" \notin raced[r]
    BY <1>6 DEF AddMember, UpdateMemberRole, Add, SetRole, Then, Typed, OpTyped
  <2>2. ~Taken(new, w)
    BY <2>1, ReasonsAre DEF RacesNoted
  <2> HIDE DEF w, new
  <2>3. \A x \in Users \ {w} : role'[x] = role[x] /\ (new = ro => role[x] # ro)
    BY <1>0, <2>1, <2>2 DEF Taken
  <2> QED BY <1>0, <1>1, <1>3, <1>6, <2>1, <2>3
<1>7. ASSUME NEW r \in Requests, RemoveMember(r)
      PROVE  \E w \in Users : role' = [role EXCEPT ![w] = None]
  BY <1>7 DEF RemoveMember, Remove, Members
<1>8. ASSUME NEW w \in Users, EraseUser(w) PROVE role' = [role EXCEPT ![w] = None]
  BY <1>8 DEF EraseUser
<1> QED BY <1>2, <1>4, <1>5, <1>6, <1>7, <1>8, Changes

LEMMA AssigneeStep ==
  Typed /\ RacesNoted /\ MemberNoted /\ AssigneesAreMembers /\ [Next]_vars => AssigneesAreMembers'
<1> SUFFICES ASSUME Typed, RacesNoted, MemberNoted, AssigneesAreMembers, [Next]_vars,
                    stale' \cap {"member", "busy"} = {},
                    NEW t \in Tasks, task'[t].assignee # None
             PROVE  task'[t].assignee \in Users /\ role'[task'[t].assignee] # None
  BY DEF AssigneesAreMembers, Members
<1> DEFINE Goal == task'[t].assignee \in Users /\ role'[task'[t].assignee] # None
<1>1. ASSUME stale \cap {"member", "busy"} = {}, NEW x \in Tasks, task[x].assignee # None
      PROVE  task[x].assignee \in Users /\ role[task[x].assignee] # None
  BY <1>1 DEF AssigneesAreMembers, Members
<1>2. CASE UNCHANGED vars
  BY <1>1, <1>2 DEF vars
<1>3. ASSUME Next PROVE stale \cap {"member", "busy"} = {}
  BY <1>3, Changes
<1>4. ASSUME Next, NEW r \in Requests, "member" \notin raced[r] PROVE "member" \notin Reasons(r)
  BY <1>3, <1>4 DEF MemberNoted
<1>5. ASSUME Next, NEW r \in Requests, NEW x \in Tasks, CreateTask(r, x) PROVE Goal
  <2>1. /\ req[r].op = "create" /\ req[r].assignee \in Users \cup {None}
        /\ "member" \notin raced[r] /\ role' = role
    BY <1>5 DEF CreateTask, Then, Typed, OpTyped
  <2>2. req[r].assignee # None => role[req[r].assignee] # None
    BY <1>4, <1>5, <2>1, ReasonsAre
  <2>3. task'[t].assignee = IF t = x THEN req[r].assignee ELSE task[t].assignee
    BY <1>5 DEF CreateTask, Typed
  <2> QED BY <1>1, <1>3, <1>5, <2>1, <2>2, <2>3
<1>6. ASSUME Next, NEW r \in Requests, UpdateTask(r) PROVE Goal
  <2> DEFINE x == req[r].task
             e == req[r].edit
  <2>1. /\ req[r].op = "update" /\ x \in Tasks /\ e \in Edits /\ Exists(x)
        /\ "member" \notin raced[r] /\ role' = role
    BY <1>6 DEF UpdateTask, Then, Typed, OpTyped
  <2>2. e.assignee \in Users => role[e.assignee] # None
    BY <1>4, <1>6, <2>1, ReasonsAre
  <2>3. e.assignee \in Users \cup {None, Keep}
    BY <2>1, EditsAssumption
  <2>4. task' = [task EXCEPT ![x] = Apply(task[x], e)]
    BY <1>6, <2>1 DEF UpdateTask, Typed
  <2>5. Apply(task[x], e).assignee = IF e.assignee = Keep THEN task[x].assignee ELSE e.assignee
    BY <2>1, RowsTyped, ApplyTyped
  <2> HIDE DEF x, e
  <2>6. task'[t].assignee \in {task[t].assignee, e.assignee} \ {Keep}
    <3>1. CASE t = x
      BY <2>1, <2>4, <2>5, <3>1, RowsTyped, EditsAssumption DEF Typed
    <3>2. CASE t # x
      BY <2>1, <2>4, <3>2, RowsTyped, EditsAssumption DEF Typed
    <3> QED BY <3>1, <3>2
  <2> QED BY <1>1, <1>3, <1>6, <2>1, <2>2, <2>3, <2>6
<1>7. ASSUME Next, \/ \E r \in Requests : DeleteTask(r) \/ Replan(r)
                   \/ \E T \in Items : DeleteItem(T)
      PROVE  Goal
  <2>1. task'[t] \in {task[t], Deleted} /\ role' = role
    BY <1>7, Deletes
  <2>2. task'[t] = task[t]
    BY <2>1 DEF Deleted
  <2> QED BY <1>1, <1>3, <1>7, <2>1, <2>2
<1>8. ASSUME Next, NEW w \in Users, EraseUser(w) PROVE Goal
  <2>1. task'[t] = IF task[t].assignee = w THEN [task[t] EXCEPT !.assignee = None] ELSE task[t]
    BY <1>8 DEF EraseUser
  <2>2. task[t].assignee # w
    <3> SUFFICES ASSUME task[t].assignee = w PROVE FALSE
      OBVIOUS
    <3>1. task[t] = [status |-> task[t].status, assignee |-> task[t].assignee, hours |-> task[t].hours,
                 given |-> task[t].given]
      BY RowsTyped
    <3>2. [task[t] EXCEPT !.assignee = None].assignee = None
      BY <3>1
    <3> QED BY <2>1, <3>2
  <2>3. role' = [role EXCEPT ![w] = None]
    BY <1>8 DEF EraseUser
  <2> QED BY <1>1, <1>3, <1>8, <2>1, <2>2, <2>3 DEF Typed, TeamTypeOK
<1>9. ASSUME Next, UNCHANGED task,
             NEW r \in Requests, AddMember(r) \/ RemoveMember(r) \/ UpdateMemberRole(r)
      PROVE  Goal
  <2> DEFINE w == req[r].target
  <2>1. w \in Users /\ OpTyped(req[r]) /\ raced[r] \subseteq stale'
    BY <1>9 DEF AddMember, RemoveMember, UpdateMemberRole, Then, Typed, OpTyped
  <2>2. task'[t].assignee \in Users /\ role[task'[t].assignee] # None
    BY <1>1, <1>3, <1>9
  <2>3. CASE AddMember(r) \/ UpdateMemberRole(r)
    <3>1. /\ role' = [role EXCEPT ![w] = req[r].role]
          /\ req[r].role \in UserRole
      BY <2>1, <2>3 DEF AddMember, UpdateMemberRole, Add, SetRole, OpTyped
    <3>2. req[r].role # None
      BY <3>1, TeamAssumption DEF UserRole
    <3> QED BY <2>1, <2>2, <3>1, <3>2 DEF Typed, TeamTypeOK
  <2>4. CASE RemoveMember(r)
    <3>1. role' = [role EXCEPT ![w] = None] /\ req[r].op = "remove"
      BY <2>4 DEF RemoveMember, Remove
    <3>2. "busy" \notin Reasons(r)
      BY <2>1 DEF RacesNoted
    <3>3. TasksOf(w) = {}
      BY <3>1, <3>2, ReasonsAre
    <3>4. task'[t].assignee # w
      BY <1>9, <3>3 DEF TasksOf
    <3> QED BY <2>1, <2>2, <3>1, <3>4 DEF Typed, TeamTypeOK
  <2> QED BY <1>9, <2>3, <2>4
<1>10. ASSUME Next, UNCHANGED <<task, role>> PROVE Goal
  BY <1>1, <1>3, <1>10
<1>11. CASE Next
  <2> HIDE DEF Goal
  <2>1. Goal
    BY <1>5, <1>6, <1>7, <1>8, <1>9, <1>10, <1>11, Changes
  <2> QED BY <2>1 DEF Goal
<1> QED BY <1>2, <1>11

-----------------------------------------------------------------------------
\* The sum is a function of the hours, which is all there is to know about it here.
LEMMA SumSame ==
  ASSUME \A t \in Tasks : task'[t].hours = task[t].hours
  PROVE  TotalRemainingHours' = TotalRemainingHours
<1>1. [t \in Tasks |-> task'[t].hours] = [t \in Tasks |-> task[t].hours]
  OBVIOUS
<1> QED BY <1>1 DEF TotalRemainingHours

\* Nothing is written, and the request that steps was not about to write the burndown.
LEMMA PointStays ==
  ASSUME Typed, BurndownIsTheSum,
         \A t \in Tasks : task'[t].hours = task[t].hours, burndown' = burndown, behind' = behind,
         \A q \in Requests : req[q].op \in {"burn", "upsert"} => req'[q] = req[q]
  PROVE  BurndownIsTheSum'
BY SumSame DEF BurndownIsTheSum

LEMMA BurndownStep ==
  Typed /\ RacesNoted /\ BurndownIsTheSum /\ [Next]_vars => BurndownIsTheSum'
<1> SUFFICES ASSUME Typed, RacesNoted, BurndownIsTheSum, [Next]_vars PROVE BurndownIsTheSum'
  OBVIOUS
<1>1. CASE UNCHANGED vars
  BY <1>1, PointStays DEF vars
<1>2. ASSUME NEW r \in Requests, NEW t \in Tasks, CreateTask(r, t) PROVE BurndownIsTheSum'
  <2>1. req[r].op = "create" /\ \A q \in Requests \ {r} : req'[q] = req[q]
    BY <1>2, Went DEF CreateTask
  <2>2. CASE req[r].hours \in {0, Keep}
    <3>1. \A x \in Tasks : task'[x].hours = task[x].hours
      BY <1>2, <2>2 DEF CreateTask, Typed, Absent
    <3> QED BY <1>2, <2>1, <2>2, <3>1, PointStays DEF CreateTask
  <2>3. CASE req[r].hours \notin {0, Keep}
    BY <1>2, <2>3 DEF CreateTask, BurndownIsTheSum
  <2> QED BY <2>2, <2>3
<1>3. ASSUME NEW r \in Requests, UpdateTask(r) PROVE BurndownIsTheSum'
  <2> DEFINE x == req[r].task
             e == req[r].edit
  <2>1. CASE TouchesHours(e)
    <3>1. req'[r] = Burn
      BY <1>3, <2>1, Went DEF UpdateTask
    <3> QED BY <3>1 DEF BurndownIsTheSum, Burn
  <2>2. CASE ~TouchesHours(e) /\ task'[x].hours # task[x].hours
    BY <1>3, <2>2 DEF UpdateTask, BurndownIsTheSum, TouchesHours
  <2>3. CASE ~TouchesHours(e) /\ task'[x].hours = task[x].hours
    <3>1. /\ req[r].op = "update" /\ task' = [task EXCEPT ![x] = Apply(task[x], e)]
          /\ UNCHANGED <<burndown, behind>>
      BY <1>3, <2>3 DEF UpdateTask
    <3>2. \A y \in Tasks : task'[y].hours = task[y].hours
      <4> HIDE DEF x, e
      <4> QED BY <2>3, <3>1 DEF Typed
    <3>3. \A q \in Requests \ {r} : req'[q] = req[q]
      BY <1>3, Went DEF UpdateTask
    <3> QED BY <3>1, <3>2, <3>3, PointStays
  <2> QED BY <2>1, <2>2, <2>3
<1>4. ASSUME NEW r \in Requests, DeleteTask(r) \/ Replan(r) PROVE BurndownIsTheSum'
  <2>1. req'[r] = Burn
    BY <1>4, Went DEF DeleteTask, Replan
  <2> QED BY <2>1 DEF BurndownIsTheSum, Burn
<1>12. ASSUME NEW T \in Items, DeleteItem(T) PROVE BurndownIsTheSum'
  <2>1. CASE \E t \in T : task[t].hours # 0
    BY <1>12, <2>1 DEF DeleteItem, BurndownIsTheSum
  <2>2. CASE \A t \in T : task[t].hours = 0
    <3>1. \A t \in Tasks : task'[t].hours = task[t].hours
      BY <1>12, <2>2 DEF DeleteItem, Deleted
    <3>2. UNCHANGED <<burndown, behind, req>>
      BY <1>12, <2>2 DEF DeleteItem
    <3> QED BY <3>1, <3>2, PointStays
  <2> QED BY <2>1, <2>2
<1>5. ASSUME NEW r \in Requests, ReadTasks(r) PROVE BurndownIsTheSum'
  <2>1. req'[r] = [op |-> "upsert", sum |-> TotalRemainingHours]
    BY <1>5, Went DEF ReadTasks
  <2>2. req'[r].op = "upsert"
    BY <2>1
  <2> QED BY <2>2 DEF BurndownIsTheSum
<1>6. ASSUME NEW r \in Requests, UpsertBurndown(r) PROVE BurndownIsTheSum'
  <2>1. CASE raced[r] = {}
    <3>1. "sum" \notin Reasons(r) /\ req[r].op = "upsert"
      BY <1>6, <2>1 DEF RacesNoted, UpsertBurndown
    <3>2. req[r].sum = TotalRemainingHours
      BY <3>1, ReasonsAre
    <3>3. burndown' = TotalRemainingHours /\ task' = task
      BY <1>6, <3>2 DEF UpsertBurndown
    <3> QED BY <3>3, SumSame DEF BurndownIsTheSum
  <2>2. CASE raced[r] # {}
    BY <1>6, <2>2 DEF UpsertBurndown, BurndownIsTheSum
  <2> QED BY <2>1, <2>2
<1>7. ASSUME NEW r \in Requests, Fail(r) PROVE BurndownIsTheSum'
  <2>1. CASE req[r].op \in {"burn", "upsert"}
    BY <1>7, <2>1 DEF Fail, BurndownIsTheSum
  <2>2. CASE req[r].op \notin {"burn", "upsert"}
    <3>1. \A q \in Requests : req[q].op \in {"burn", "upsert"} => req'[q] = req[q]
      BY <1>7, <2>2 DEF Fail, Typed
    <3> QED BY <1>7, <2>2, <3>1, PointStays DEF Fail
  <2> QED BY <2>1, <2>2
<1>8. ASSUME NEW r \in Requests, AddMember(r) \/ RemoveMember(r) \/ UpdateMemberRole(r)
      PROVE  BurndownIsTheSum'
  <2>1. req[r].op \in {"add", "remove", "assign"} /\ Then(r, Idle) /\ UNCHANGED <<task, burndown, behind>>
    BY <1>8 DEF AddMember, RemoveMember, UpdateMemberRole
  <2>2. \A q \in Requests \ {r} : req'[q] = req[q]
    BY <2>1, Went
  <2> QED BY <2>1, <2>2, PointStays
<1>9. ASSUME NEW r \in Requests, NEW a \in Users,
             \/ \E u \in Users \cup {None}, h \in Hours \cup {Keep} : CreateCheck(r, a, u, h)
             \/ \E T \in Items \cup {{}} : ReplanCheck(r, a, T)
             \/ \E t \in Tasks : DeleteCheck(r, a, t) \/ \E e \in Edits : UpdateCheck(r, a, t, e)
             \/ \E u \in Users : \/ RemoveCheck(r, a, u)
                                 \/ \E ro \in UserRole : AddCheck(r, a, u, ro) \/ SetRoleCheck(r, a, u, ro)
      PROVE  BurndownIsTheSum'
  <2>1. PICK o : Begin(r, o) /\ UNCHANGED <<task, burndown, behind>>
    BY <1>9 DEF CreateCheck, DeleteCheck, UpdateCheck, ReplanCheck, RemoveCheck, AddCheck,
                SetRoleCheck
  <2>2. req[r].op = "idle" /\ \A q \in Requests \ {r} : req'[q] = req[q]
    BY <2>1, Begun DEF Idle
  <2> QED BY <2>1, <2>2, PointStays
<1>10. ASSUME NEW u \in Users, EraseUser(u) PROVE BurndownIsTheSum'
  <2>1. \A t \in Tasks : task'[t].hours = task[t].hours
    <3> SUFFICES ASSUME NEW t \in Tasks PROVE task'[t].hours = task[t].hours
      OBVIOUS
    <3>1. task[t] = [status |-> task[t].status, assignee |-> task[t].assignee, hours |-> task[t].hours,
                 given |-> task[t].given]
      BY RowsTyped
    <3>2. [task[t] EXCEPT !.assignee = None].hours = task[t].hours
      BY <3>1
    <3> QED BY <1>10, <3>2 DEF EraseUser
  <2> QED BY <1>10, <2>1, PointStays DEF EraseUser
<1>11. ASSUME NEW r \in Requests, TaskNext(r) \/ MemberNext(r) PROVE BurndownIsTheSum'
  BY <1>2, <1>3, <1>4, <1>5, <1>6, <1>8, <1>9, <1>11 DEF TaskNext, MemberNext
<1> QED BY <1>1, <1>7, <1>10, <1>11, <1>12 DEF Next

-----------------------------------------------------------------------------
LEMMA InitIInv == Init => IInv
<1> SUFFICES ASSUME Init PROVE IInv
  OBVIOUS
<1>1. Typed /\ \A r \in Requests : req[r].op = "idle"
  <2>1. TeamTypeOK
    BY TeamAssumption DEF Init, TeamInit, TeamTypeOK, UserRole
  <2>2. \A r \in Requests : req[r] = Idle /\ OpTyped(req[r]) /\ req[r].op = "idle"
    BY DEF Init, OpTyped, Idle
  <2>3. /\ task \in [Tasks -> Rows \cup {Absent, Deleted}]
        /\ \A t \in Tasks : task[t].assignee \in accounts \cup {None}
        /\ req = [r \in Requests |-> req[r]]
    BY DEF Init, Absent, Planned, Rows, TaskStatus
  <2> QED BY <2>1, <2>2, <2>3 DEF Typed
<1>2. \A r \in Requests : Reasons(r) = {}
  BY <1>1, ReasonsAre
<1>3. RacesNoted /\ MemberNoted /\ StatusNoted /\ ApprovalNoted
  BY <1>1, <1>2 DEF RacesNoted, MemberNoted, StatusNoted, ApprovalNoted
<1>4. OneLeaderUnlessRaced
  <2>1. PICK u \in Users : role = [v \in Users |-> IF v = u THEN "PRODUCT_OWNER" ELSE None]
    BY DEF Init, TeamInit
  <2> QED BY <2>1, TeamAssumption DEF OneLeaderUnlessRaced, Leaders
<1>5. AssigneesAreMembers
  BY DEF Init, Absent, Planned, AssigneesAreMembers
<1>6. BurndownIsTheSum
  BY DEF Init, BurndownIsTheSum
<1> QED BY <1>1, <1>3, <1>4, <1>5, <1>6 DEF IInv

LEMMA NextIInv == IInv /\ [Next]_vars => IInv'
BY TypedStep, RacesStep, MemberStep, NotesStep, LeaderStep, AssigneeStep, BurndownStep DEF IInv

\* Every reachable state of team, tasks and burndown is one the argument is about.
THEOREM Inductive == Spec => []IInv
<1>1. IInv /\ [Next]_vars => IInv'
  BY NextIInv
<1> QED BY InitIInv, <1>1, PTL DEF Spec

\* For any number of users and requests, two Product Owners or two Scrum Masters come
\* only from a role given on a check that another request had overtaken.
THEOREM OneLeaderHolds == Spec => []OneLeaderUnlessRaced
<1>1. IInv => OneLeaderUnlessRaced
  BY DEF IInv
<1> QED BY Inductive, <1>1, PTL

\* Removals and erased accounts leave no task with somebody who is no member, unless
\* an assignment met the removal.
THEOREM AssigneesHold == Spec => []AssigneesAreMembers
<1>1. IInv => AssigneesAreMembers
  BY DEF IInv
<1> QED BY Inductive, <1>1, PTL

\* Whatever tasks there are, and however many requests overlap, today's point is the
\* sum of the hours whenever no update of it is under way, but for a task created with
\* hours, an estimate that counts as the hours, an item deleted with its tasks, a
\* failure in between and an overtaken sum, each only until the next update of it.
THEOREM BurndownHolds == Spec => []BurndownIsTheSum
<1>1. IInv => BurndownIsTheSum
  BY DEF IInv
<1> QED BY Inductive, <1>1, PTL

-----------------------------------------------------------------------------
\* A row that is there gets another status, short of its deletion, by an update only.
LEMMA StatusChanges ==
  ASSUME Typed, Next, NEW t \in Tasks, Exists(t),
         task'[t].status \notin {task[t].status, "deleted"}
  PROVE  \E r \in Requests :
            /\ req[r].op = "update" /\ req[r].task = t
            /\ raced[r] \subseteq stale' /\ \A q \in Requests \ {r} : req'[q] = req[q]
            /\ req[r].edit.status # Keep /\ task'[t].status = req[r].edit.status
<1> DEFINE Goal(r) ==
              /\ req[r].op = "update" /\ req[r].task = t
              /\ raced[r] \subseteq stale' /\ \A q \in Requests \ {r} : req'[q] = req[q]
              /\ req[r].edit.status # Keep /\ task'[t].status = req[r].edit.status
<1>1. ASSUME NEW r \in Requests, NEW x \in Tasks, CreateTask(r, x) PROVE FALSE
  <2>1. t # x
    BY <1>1 DEF CreateTask, Absent, Exists, TaskStatus
  <2> QED BY <1>1, <2>1 DEF CreateTask, Typed
<1>2. ASSUME NEW u \in Users, EraseUser(u) PROVE FALSE
  <2>1. task[t] = [status |-> task[t].status, assignee |-> task[t].assignee, hours |-> task[t].hours,
                 given |-> task[t].given]
    BY RowsTyped
  <2>2. [task[t] EXCEPT !.assignee = None].status = task[t].status
    BY <2>1
  <2> QED BY <1>2, <2>2 DEF EraseUser
<1>3. ASSUME NEW r \in Requests, UpdateTask(r) PROVE Goal(r)
  <2> DEFINE x == req[r].task
             e == req[r].edit
  <2>1. /\ req[r].op = "update" /\ x \in Tasks /\ e \in Edits /\ Exists(x)
        /\ task' = [task EXCEPT ![x] = Apply(task[x], e)]
    BY <1>3 DEF UpdateTask, Typed, OpTyped
  <2>2. raced[r] \subseteq stale' /\ \A q \in Requests \ {r} : req'[q] = req[q]
    BY <1>3, Went DEF UpdateTask
  <2>3. Apply(task[x], e).status = IF e.status = Keep THEN task[x].status ELSE e.status
    BY <2>1, RowsTyped, ApplyTyped
  <2>4. t = x /\ e.status # Keep /\ task'[t].status = e.status
    <3> HIDE DEF x, e
    <3>1. t = x
      BY <2>1 DEF Typed
    <3> QED BY <2>1, <2>3, <3>1 DEF Typed
  <2> QED BY <2>1, <2>2, <2>4
<1>4. ASSUME \/ \E r \in Requests : DeleteTask(r) \/ Replan(r)
             \/ \E T \in Items : DeleteItem(T)
      PROVE  FALSE
  <2>1. task'[t] \in {task[t], Deleted}
    BY <1>4, Deletes
  <2> QED BY <2>1 DEF Deleted
<1>5. \E r \in Requests : Goal(r)
  <2> HIDE DEF Goal
  <2> QED BY <1>1, <1>2, <1>3, <1>4, Changes
<1> QED BY <1>5

\* Whatever requests overlap, a status that does not follow the one before it comes
\* from an update that another one had overtaken.
THEOREM StepsFollowHolds == Spec => StepsFollowWorkflow
<1>1. IInv /\ [Next]_vars =>
        [\A t \in Tasks :
            Exists(t) /\ task'[t].status \notin {task[t].status, "deleted"}
            => \/ <<task[t].status, task'[t].status>> \in Transitions
               \/ "status" \in stale']_vars
  <2> SUFFICES ASSUME IInv, Next, NEW t \in Tasks,
                      Exists(t), task'[t].status \notin {task[t].status, "deleted"},
                      "status" \notin stale'
               PROVE  <<task[t].status, task'[t].status>> \in Transitions
    OBVIOUS
  <2>1. PICK r \in Requests :
            /\ req[r].op = "update" /\ req[r].task = t /\ raced[r] \subseteq stale'
            /\ req[r].edit.status # Keep /\ task'[t].status = req[r].edit.status
    BY StatusChanges DEF IInv
  <2> QED BY <2>1 DEF IInv, StatusNoted
<1> QED BY Inductive, <1>1, PTL DEF Spec, StepsFollowWorkflow

\* Whatever requests overlap, nobody approves the task that is his then, unless it
\* became his, or moved, after his request had been checked.
THEOREM NobodyApprovesHolds == Spec => NobodyApprovesHisOwn
<1>1. IInv /\ [Next]_vars =>
        [\A r \in Requests : req[r].op = "update" /\ req'[r] # req[r] =>
            LET t == req[r].task IN
            task[t].status # "DONE" /\ task'[t].status = "DONE"
            => \/ req[r].actor # task[t].assignee
               \/ stale' \cap {"assignee", "status"} # {}]_vars
  <2> SUFFICES ASSUME IInv, Next, NEW r \in Requests, req[r].op = "update", req'[r] # req[r],
                      task[req[r].task].status # "DONE", task'[req[r].task].status = "DONE",
                      stale' \cap {"assignee", "status"} = {}
               PROVE  req[r].actor # task[req[r].task].assignee
    OBVIOUS
  <2> DEFINE t == req[r].task
  <2>1. t \in Tasks
    BY DEF IInv, Typed, OpTyped
  <2>2. Exists(t)
    <3> SUFFICES ASSUME ~Exists(t) PROVE FALSE
      OBVIOUS
    <3>1. PICK q \in Requests : \E x \in Tasks : CreateTask(q, x)
      <4>1. (\A u \in Users : ~EraseUser(u)) /\ (\A T \in Items : ~DeleteItem(T))
        BY DEF EraseUser, DeleteItem
      <4>2. \A q \in Requests : ~UpdateTask(q) /\ ~DeleteTask(q) /\ ~Replan(q)
        <5> SUFFICES ASSUME NEW q \in Requests, UpdateTask(q) \/ DeleteTask(q) \/ Replan(q)
                     PROVE  FALSE
          OBVIOUS
        <5>1. q = r
          BY Went DEF UpdateTask, DeleteTask, Replan, IInv
        <5> QED BY <5>1 DEF UpdateTask, DeleteTask, Replan
      <4> QED BY <4>1, <4>2, Changes DEF IInv
    <3>2. q = r
      BY <3>1, Went DEF CreateTask, IInv
    <3> QED BY <3>1, <3>2 DEF CreateTask
  <2>3. PICK q \in Requests :
            /\ req[q].op = "update" /\ req[q].task = t /\ raced[q] \subseteq stale'
            /\ \A p \in Requests \ {q} : req'[p] = req[p]
            /\ req[q].edit.status # Keep /\ task'[t].status = req[q].edit.status
    BY <2>1, <2>2, StatusChanges DEF IInv
  <2>4. q = r
    BY <2>3
  <2> QED BY <2>3, <2>4 DEF IInv, ApprovalNoted
<1> QED BY Inductive, <1>1, PTL DEF Spec, NobodyApprovesHisOwn
=============================================================================
