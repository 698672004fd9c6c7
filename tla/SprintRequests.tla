--------------------------- MODULE SprintRequests ---------------------------
(***************************************************************************)
(* The requests of SprintLifecycle as the server runs them: a handler reads *)
(* and validates first, and writes in a transaction that does not read the  *)
(* validated rows again.  Requests of several workers overlap between the   *)
(* two, and a request may fail or its server die at any point.              *)
(***************************************************************************)
EXTENDS SprintLifecycle

CONSTANT Workers    \* requests the server handles at the same time

VARIABLES
    req,        \* what each worker's request has read so far
    overlaps    \* history: suspects that were in flight together with a start

allVars == <<vars, req, overlaps>>

Kinds == {"create", "points", "start", "complete", "cancel", "save", "draft", "add",
          "remove", "update", "delete", "delete generated", "materialise", "row", "link"}

\* The kinds whose overlap with a start the properties tell apart.
Suspects == {"start", "complete", "save", "draft", "add", "materialise", "row", "link"}

\* A request past its validation: the rows it will write, an argument of it, and the
\* status it read.
Args == {"", "blank", "save", "draft", "start"} \cup GoalEdits \cup TaskActions \cup ItemStatuses
Request ==
    [op : Kinds \cup {"idle"}, sprint : Sprints \cup {NoSprint}, gen : Gens \cup {NoSprint},
     items : SUBSET PBIs, tasks : SUBSET PBIs, arg : Args,
     was : {""} \cup Planning \cup ItemStatuses]

Idle == [op |-> "idle", sprint |-> NoSprint, gen |-> NoSprint, items |-> {},
         tasks |-> {}, arg |-> "", was |-> ""]

\* Every request in flight holds what its handler read, and the rows keep their types.
RequestsTypeOK ==
    /\ TypeOK
    /\ req \in [Workers -> Request]
    /\ overlaps \in SUBSET Suspects

InFlight(op) == {w \in Workers : req[w].op = op}

\* The suspects that overlap a start once w's request has reached op.
Meets(w, op) ==
    Suspects \cap (IF op = "start" THEN {req[v].op : v \in Workers \ {w}}
                   ELSE IF InFlight("start") \ {w} # {} THEN {op} ELSE {})

\* w's request has passed its validation and holds r.
Take(w, r) ==
    /\ req' = [req EXCEPT ![w] = r]
    /\ overlaps' = overlaps \cup Meets(w, r.op)

\* w's request has been answered.
Answer(w) == req' = [req EXCEPT ![w] = Idle] /\ UNCHANGED overlaps

-----------------------------------------------------------------------------
(* Validation: reads outside the transaction.                              *)

ValidateCreate(w, has) ==
    /\ req[w] = Idle
    /\ NoActiveSprint
    /\ Take(w, [Idle EXCEPT !.op = "create", !.arg = IF has THEN "set" ELSE "blank"])
    /\ UNCHANGED vars

ValidateStart(w, t, s) ==
    /\ req[w] = Idle
    /\ Names(t, s) /\ status[s] \in Planning
    /\ s \in goals \/ LinkedGoal(s)
    /\ Backlog(s) # {} /\ NoActiveSprint /\ ~Conflicts(s, Backlog(s))
    /\ goals' = goals \cup {s}
    /\ Take(w, [Idle EXCEPT !.op = "start", !.sprint = s, !.items = Backlog(s)])
    /\ UNCHANGED <<status, items, tasks, burndown, pbi, link, genStatus, eventsDone>>

ValidateComplete(w, s) ==
    /\ req[w] = Idle
    /\ status[s] = "ACTIVE" /\ s \in eventsDone
    /\ Take(w, [Idle EXCEPT !.op = "complete", !.sprint = s])
    /\ UNCHANGED vars

ValidateCancel(w, s) ==
    /\ req[w] = Idle
    /\ status[s] = "ACTIVE"
    /\ Take(w, [Idle EXCEPT !.op = "cancel", !.sprint = s, !.items = Backlog(s)])
    /\ UNCHANGED vars

ValidateSave(w, t, s, P, T) ==
    /\ req[w] = Idle
    /\ Names(t, s) /\ status[s] \in Planning /\ T \subseteq P
    /\ Take(w, [Idle EXCEPT !.op = "save", !.sprint = s, !.items = P, !.tasks = T])
    /\ UNCHANGED vars

ValidateDraft(w, t, s, P, T, goal) ==
    /\ req[w] = Idle
    /\ Names(t, s) /\ status[s] \in Planning /\ T \subseteq P
    /\ ~Conflicts(s, P)
    /\ Take(w, [Idle EXCEPT !.op = "draft", !.sprint = s, !.items = P, !.tasks = T,
                            !.arg = goal, !.was = status[s]])
    /\ UNCHANGED vars

ValidateAdd(w, s, p) ==
    /\ req[w] = Idle
    /\ status[s] = "ACTIVE" /\ p \notin Backlog(s) /\ pbi[p] = "READY"
    /\ Take(w, [Idle EXCEPT !.op = "add", !.sprint = s, !.items = {p}])
    /\ UNCHANGED vars

ValidateRemove(w, s, p, action) ==
    /\ req[w] = Idle
    /\ status[s] = "ACTIVE" /\ p \in Backlog(s)
    /\ Take(w, [Idle EXCEPT !.op = "remove", !.sprint = s, !.items = {p},
                            !.arg = action, !.was = pbi[p]])
    /\ UNCHANGED vars

\* A payload that repeats the status it read passes too, and writes it back.
ValidateUpdate(w, p, st) ==
    /\ req[w] = Idle
    /\ pbi[p] \notin {"DONE", Absent}
    /\ <<pbi[p], st>> \in Transitions \/ st = pbi[p]
    /\ Take(w, [Idle EXCEPT !.op = "update", !.items = {p}, !.arg = st])
    /\ UNCHANGED vars

ValidateDelete(w, p) ==
    /\ req[w] = Idle
    /\ pbi[p] \notin {Absent, "IN_PROGRESS", "DONE"}
    /\ Take(w, [Idle EXCEPT !.op = "delete", !.items = {p}])
    /\ UNCHANGED vars

ValidateDeleteGenerated(w, g) ==
    /\ req[w] = Idle
    /\ genStatus[g] \notin {Absent, "ACTIVE"}
    /\ Take(w, [Idle EXCEPT !.op = "delete generated", !.gen = g])
    /\ UNCHANGED vars

-----------------------------------------------------------------------------
(* Materialising a generated Sprint: four statements and no transaction.   *)

\* The generated Sprint is read and found without a Sprint.  next is the request
\* that needs one; the payload waits in the request.
ReadGenerated(w, g, st, next, P, T) ==
    /\ req[w] = Idle
    /\ Generated(g) /\ link[g] = NoSprint /\ T \subseteq P
    /\ Take(w, [Idle EXCEPT !.op = "materialise", !.gen = g, !.was = st, !.arg = next,
                            !.items = P, !.tasks = T])
    /\ UNCHANGED vars

CreateRow(w, s) ==
    LET r == req[w] IN
    /\ r.op = "materialise" /\ ~Exists(s)
    /\ status' = [status EXCEPT ![s] = r.was]
    /\ goals' = WithGoal(s, r.gen \in goals)
    /\ Take(w, [r EXCEPT !.op = "row", !.sprint = s])
    /\ UNCHANGED <<items, tasks, burndown, pbi, link, genStatus, eventsDone>>

\* A Sprint has one point a day: if a start has written them already, this fails.
PointsOfRow(w) ==
    LET r == req[w] IN
    /\ r.op = "row" /\ r.sprint \notin burndown
    /\ burndown' = burndown \cup {r.sprint}
    /\ Take(w, [r EXCEPT !.op = "link"])
    /\ UNCHANGED <<status, goals, items, tasks, pbi, link, genStatus, eventsDone>>

\* The link is written, and the request goes on with the status the new row had, or
\* is refused.
LinkRow(w, goal) ==
    LET r == req[w] IN
    /\ r.op = "link" /\ Generated(r.gen)
    /\ link' = [link EXCEPT ![r.gen] = r.sprint]
    /\ \/ /\ r.arg = "save" \/ (r.arg = "draft" /\ ~Conflicts(r.sprint, r.items))
          /\ Take(w, [Idle EXCEPT !.op = r.arg, !.sprint = r.sprint, !.items = r.items,
                                  !.tasks = r.tasks, !.arg = goal, !.was = r.was])
       \/ /\ r.arg # "save"
          /\ req' = [req EXCEPT ![w] = Idle] /\ UNCHANGED overlaps
    /\ UNCHANGED <<status, goals, items, tasks, burndown, pbi, genStatus, eventsDone>>

-----------------------------------------------------------------------------
(* The transactions.  A row they name that is gone makes them fail.        *)

\* createSprint has no transaction either: the row, then its burndown points.
CommitCreate(w, s) ==
    /\ req[w].op = "create" /\ ~Exists(s)
    /\ status' = [status EXCEPT ![s] = "PLANNED"]
    /\ goals' = WithGoal(s, req[w].arg = "set")
    /\ Take(w, [Idle EXCEPT !.op = "points", !.sprint = s])
    /\ UNCHANGED <<items, tasks, burndown, pbi, link, genStatus, eventsDone>>

WritePoints(w) ==
    /\ req[w].op = "points" /\ req[w].sprint \notin burndown
    /\ burndown' = burndown \cup {req[w].sprint}
    /\ Answer(w)
    /\ UNCHANGED <<status, goals, items, tasks, pbi, link, genStatus, eventsDone>>

CommitStart(w) ==
    /\ req[w].op = "start" /\ req[w].items \subseteq KnownPBIs
    /\ StartWrites(req[w].sprint, req[w].items)
    /\ Answer(w) /\ UNCHANGED <<goals, link, eventsDone>>

CommitComplete(w) ==
    /\ req[w].op = "complete"
    /\ CompleteWrites(req[w].sprint)
    /\ Answer(w) /\ UNCHANGED <<goals, items, tasks, burndown, pbi, link, eventsDone>>

CommitCancel(w) ==
    /\ req[w].op = "cancel"
    /\ CancelWrites(req[w].sprint, req[w].items)
    /\ Answer(w) /\ UNCHANGED <<goals, burndown, link, eventsDone>>

CommitSave(w) ==
    /\ req[w].op = "save" /\ req[w].items \subseteq KnownPBIs
    /\ SaveWrites(req[w].sprint, req[w].items, req[w].tasks)
    /\ Answer(w)
    /\ UNCHANGED <<status, goals, burndown, pbi, link, genStatus, eventsDone>>

CommitDraft(w, K) ==
    LET r == req[w] IN
    /\ r.op = "draft" /\ r.items \subseteq KnownPBIs
    /\ K \subseteq r.items \cap {p \in PBIs : <<r.sprint, p>> \in tasks}
    /\ status' = IF r.was = "PLANNED" THEN [status EXCEPT ![r.sprint] = "DRAFT"] ELSE status
    /\ goals' = IF r.arg = "keep" THEN goals ELSE WithGoal(r.sprint, r.arg = "set")
    /\ DraftWrites(r.sprint, r.items, r.tasks, K)
    /\ Answer(w) /\ UNCHANGED <<burndown, pbi, link, genStatus, eventsDone>>

\* The unique key <<sprintId, pbiId>> refuses a second entry.
CommitAdd(w) ==
    LET r == req[w] IN
    /\ r.op = "add" /\ r.items \subseteq KnownPBIs
    /\ ({r.sprint} \X r.items) \cap items = {}
    /\ items' = items \cup ({r.sprint} \X r.items)
    /\ pbi' = [p \in PBIs |-> IF p \in r.items THEN "IN_PROGRESS" ELSE pbi[p]]
    /\ Answer(w)
    /\ UNCHANGED <<status, goals, tasks, burndown, link, genStatus, eventsDone>>

CommitRemove(w) ==
    LET r == req[w] IN
    /\ r.op = "remove"
    /\ \E p \in r.items : <<r.sprint, p>> \in items /\ RemoveWrites(r.sprint, p, r.arg, r.was)
    /\ Answer(w) /\ UNCHANGED <<status, goals, burndown, link, genStatus, eventsDone>>

\* Mutant: the status read is written back in place of the requested one.
CommitUpdateSwapped(w) ==
    /\ req[w].op = "update" /\ req[w].items \subseteq KnownPBIs
    /\ pbi' = [p \in PBIs |-> IF p \in req[w].items THEN req[w].was ELSE pbi[p]]
    /\ Answer(w)
    /\ UNCHANGED <<status, goals, items, tasks, burndown, link, genStatus, eventsDone>>

CommitUpdate(w) ==
    /\ req[w].op = "update" /\ req[w].items \subseteq KnownPBIs
    /\ pbi' = [p \in PBIs |-> IF p \in req[w].items THEN req[w].arg ELSE pbi[p]]
    /\ Answer(w)
    /\ UNCHANGED <<status, goals, items, tasks, burndown, link, genStatus, eventsDone>>

\* The item goes with its backlog entries and tasks, whatever its status by now.
CommitDelete(w) ==
    LET P == req[w].items IN
    /\ req[w].op = "delete" /\ P \subseteq KnownPBIs
    /\ pbi' = [p \in PBIs |-> IF p \in P THEN Absent ELSE pbi[p]]
    /\ items' = items \ (Sprints \X P)
    /\ tasks' = tasks \ (Sprints \X P)
    /\ Answer(w) /\ UNCHANGED <<status, goals, burndown, link, genStatus, eventsDone>>

CommitDeleteGenerated(w) ==
    LET g == req[w].gen IN
    /\ req[w].op = "delete generated" /\ Generated(g)
    /\ genStatus' = [genStatus EXCEPT ![g] = Absent]
    /\ link' = [link EXCEPT ![g] = NoSprint]
    /\ goals' = goals \ {g}
    /\ Answer(w) /\ UNCHANGED <<status, items, tasks, burndown, pbi, eventsDone>>

\* The transaction fails for good, the client is gone, or the server dies: what
\* earlier statements wrote stays.
Fail(w) == req[w] # Idle /\ Answer(w) /\ UNCHANGED vars

-----------------------------------------------------------------------------
ValidateNext(w) ==
    \/ \E has \in BOOLEAN : ValidateCreate(w, has)
    \/ \E t \in Ids, s \in Sprints : ValidateStart(w, t, s)
    \/ \E s \in Sprints : ValidateComplete(w, s) \/ ValidateCancel(w, s)
    \/ \E t \in Ids, s \in Sprints, P, T \in SUBSET PBIs :
          \/ ValidateSave(w, t, s, P, T)
          \/ \E goal \in GoalEdits : ValidateDraft(w, t, s, P, T, goal)
    \/ \E s \in Sprints, p \in PBIs :
          \/ ValidateAdd(w, s, p)
          \/ \E action \in TaskActions : ValidateRemove(w, s, p, action)
    \/ \E p \in PBIs : ValidateDelete(w, p) \/ \E st \in ItemStatuses : ValidateUpdate(w, p, st)
    \/ \E g \in Gens : ValidateDeleteGenerated(w, g)

MaterialiseNext(w) ==
    \/ \E g \in Gens, P, T \in SUBSET PBIs :
          \/ ReadGenerated(w, g, "PLANNED", "save", P, T)
          \/ ReadGenerated(w, g, "DRAFT", "draft", P, T)
    \/ \E g \in Gens : ReadGenerated(w, g, "PLANNED", "start", {}, {})
    \/ \E s \in Sprints : CreateRow(w, s)
    \/ PointsOfRow(w)
    \/ \E goal \in GoalEdits : LinkRow(w, goal)

CommitNext(w) ==
    \/ \E s \in Sprints : CommitCreate(w, s)
    \/ WritePoints(w)
    \/ CommitStart(w) \/ CommitComplete(w) \/ CommitCancel(w) \/ CommitSave(w)
    \/ \E K \in SUBSET PBIs : CommitDraft(w, K)
    \/ CommitAdd(w) \/ CommitRemove(w) \/ CommitUpdate(w)
    \/ CommitDelete(w) \/ CommitDeleteGenerated(w)

\* generateSprintsForYear has no transaction: it deletes the generated Sprints of the
\* year, and then creates them anew one by one.
CreateGenerated(g) ==
    /\ ~Generated(g)
    /\ genStatus' = [genStatus EXCEPT ![g] = "PLANNED"]
    /\ link' = [link EXCEPT ![g] = NoSprint]
    /\ goals' = goals \ {g}
    /\ UNCHANGED <<status, items, tasks, burndown, pbi, eventsDone>>

\* Requests of one statement, or whose reads no other request can spoil.  An id is
\* not used again while a request still holds it.
AtomicNext ==
    \/ \E s \in Sprints :
          \/ \E t \in Ids : StartRefusedAfterGoal(t, s)
          \/ EventsChange(s)
          \/ \E p \in PBIs : CreateTask(s, p) \/ DeleteTask(s, p)
    \/ \E p \in PBIs, st \in ItemStatuses :
          CreatePBI(p, st) /\ \A w \in Workers : p \notin req[w].items
    \/ GenerateSprintsForYear({})
    \/ \E g \in Gens : CreateGenerated(g) /\ \A w \in Workers : req[w].gen # g
    \/ \E g \in Gens, has \in BOOLEAN : UpdateGeneratedSprint(g, has)

ReqInit == Init /\ req = [w \in Workers |-> Idle] /\ overlaps = {}

ReqNext ==
    \/ \E w \in Workers :
          ValidateNext(w) \/ MaterialiseNext(w) \/ CommitNext(w) \/ Fail(w)
    \/ AtomicNext /\ UNCHANGED <<req, overlaps>>

ReqSpec == ReqInit /\ [][ReqNext]_allVars

-----------------------------------------------------------------------------
(* What survives overlapping requests, and which overlap breaks the rest.  *)

\* Two active Sprints need two starts in flight at once: no other request takes
\* part in that race, however it interleaves with a start.
OneActiveUnlessStartsMeet == "start" \notin overlaps => OneActiveSprint

\* A Sprint that was started never returns to planning, and a finished one never
\* runs again, unless a start met another start, or a draft save that had read the
\* Sprint before.
StartedStaysUnlessRaced ==
    [][overlaps' \cap {"start", "draft"} = {} =>
         \A s \in Sprints :
            /\ status[s] \in {"ACTIVE"} \cup Finished => status'[s] \notin Planning
            /\ status[s] \in Finished => status'[s] # "ACTIVE"]_allVars

\* The start takes its items from every other Sprint that is not cancelled, unless
\* it met another start, a save of a plan, an addition to the Sprint that ran before,
\* or a completion that this Sprint's cancellation had overtaken.
StartTakesUnlessRaced ==
    [][overlaps' \cap {"start", "complete", "save", "draft", "add"} = {} =>
         \A s \in Sprints : status[s] # "ACTIVE" /\ status'[s] = "ACTIVE" =>
            \A i, j \in items' : i[1] = s /\ j[2] = i[2] =>
               j[1] = s \/ status'[j[1]] = "CANCELLED"]_allVars

\* The status column of the generated Sprint is its Sprint's, even when it was
\* materialised twice, unless a start met a start, a draft save or a materialisation.
InSyncUnlessRaced ==
    overlaps \cap {"start", "draft", "materialise", "row", "link"} = {} => GeneratedInSync
=============================================================================
