--------------------------- MODULE SprintLifecycle ---------------------------
(***************************************************************************)
(* The Sprints, generated Sprints and Product Backlog Items of one Scrum   *)
(* Team, and every request that changes them, each handled alone: the      *)
(* request's reads and its transaction are one step.  SprintRequests takes *)
(* the same checks and effects and lets requests overlap.                  *)
(*                                                                         *)
(* Source: packages/backend/src/services/sprint.service.ts,                *)
(* sprintConfiguration.service.ts and backlog.service.ts.                  *)
(***************************************************************************)
EXTENDS Naturals, FiniteSets

CONSTANTS
    Sprints,    \* ids the Sprint table may use
    PBIs,       \* ids the ProductBacklogItem table may use
    Gens,       \* ids the GeneratedSprint table may use
    NoSprint    \* a null GeneratedSprint.sprintId

ASSUME IdsAssumption == NoSprint \notin Sprints /\ Sprints \cap Gens = {}

VARIABLES
    status,     \* Sprint.status, "ABSENT" while there is no such row
    goals,      \* Sprints and generated Sprints whose sprintGoal is not blank
    items,      \* SprintBacklogItem: <<sprint, pbi>>, unique in the schema
    tasks,      \* <<sprint, pbi>> that have at least one Task row
    burndown,   \* Sprints with BurndownData rows
    pbi,        \* ProductBacklogItem.status
    link,       \* GeneratedSprint.sprintId
    genStatus,  \* GeneratedSprint.status
    eventsDone  \* Sprints whose Review and Retrospective are both completed

vars == <<status, goals, items, tasks, burndown, pbi, link, genStatus, eventsDone>>

Absent == "ABSENT"
SprintStatuses == {"DRAFT", "PLANNED", "ACTIVE", "COMPLETED", "CANCELLED"}
ItemStatuses == {"NEW", "REFINED", "READY", "IN_PROGRESS", "DONE"}

\* Mutant: a finished Sprint may be planned again.
PlanningAfterTheEnd == {"DRAFT", "PLANNED", "COMPLETED", "CANCELLED"}

Planning == {"DRAFT", "PLANNED"}                 \* may be planned and started
Committed == {"ACTIVE", "PLANNED", "COMPLETED"}  \* the conflict checks' non-draft
Finished == {"COMPLETED", "CANCELLED"}

\* Every column holds a value of its enumeration, every reference names a row of
\* the right table, and a Sprint holds an item at most once.
TypeOK ==
    /\ status \in [Sprints -> SprintStatuses \cup {Absent}]
    /\ goals \in SUBSET (Sprints \cup Gens)
    /\ items \in SUBSET (Sprints \X PBIs)
    /\ tasks \in SUBSET (Sprints \X PBIs)
    /\ burndown \in SUBSET Sprints
    /\ pbi \in [PBIs -> ItemStatuses \cup {Absent}]
    /\ link \in [Gens -> Sprints \cup {NoSprint}]
    /\ genStatus \in [Gens -> SprintStatuses \cup {Absent}]
    /\ eventsDone \in SUBSET Sprints

Init ==
    /\ status = [s \in Sprints |-> Absent]
    /\ goals = {}
    /\ items = {}
    /\ tasks = {}
    /\ burndown = {}
    /\ pbi = [p \in PBIs |-> Absent]
    /\ link = [g \in Gens |-> NoSprint]
    /\ genStatus = [g \in Gens |-> Absent]
    /\ eventsDone = {}

-----------------------------------------------------------------------------
(* What the handlers read.                                                 *)

Exists(s) == status[s] # Absent
Generated(g) == genStatus[g] # Absent
Backlog(s) == {p \in PBIs : <<s, p>> \in items}
OfSprint(s) == {s} \X PBIs
KnownPBIs == {p \in PBIs : pbi[p] # Absent}

\* Mutant: nobody looks for a running Sprint.
NoActiveSprintUnchecked == TRUE

NoActiveSprint == \A s \in Sprints : status[s] # "ACTIVE"

\* A PBI of P is in the backlog of another Sprint that is past its draft.
Conflicts(s, P) ==
    \E t \in Sprints \ {s} : status[t] \in Committed /\ Backlog(t) \cap P # {}

LinkedGoal(s) == \E g \in Gens : link[g] = s /\ Generated(g) /\ g \in goals

\* An id in a planning request names a Sprint, or a generated Sprint that has
\* already been materialised as s.
Names(t, s) ==
    \/ t = s /\ Exists(s)
    \/ t \in Gens /\ Generated(t) /\ link[t] = s

-----------------------------------------------------------------------------
(* What their writes do.                                                   *)

\* convertGeneratedSprintToSprint on a generated Sprint without a Sprint: a row
\* with the generated goal, its burndown points, and the link back.
Materialise(g, s, st) ==
    /\ g \in Gens /\ Generated(g) /\ link[g] = NoSprint
    /\ s \in Sprints /\ ~Exists(s)
    /\ status' = [status EXCEPT ![s] = st]
    /\ burndown' = burndown \cup {s}
    /\ link' = [link EXCEPT ![g] = s]

WithGoal(s, has) == IF has THEN goals \cup {s} ELSE goals \ {s}

\* generatedSprint.updateMany({ where: { sprintId: s }, data: { status: st } })
SyncGenerated(s, st) ==
    genStatus' = [g \in Gens |-> IF Generated(g) /\ link[g] = s THEN st ELSE genStatus[g]]

\* Mutant: the start cleans no draft.
NoStaleDrafts(s, P) == {}

\* The entries of the items P in the drafts of other Sprints.
StaleDrafts(s, P) == {i \in items : i[2] \in P /\ i[1] # s /\ status[i[1]] = "DRAFT"}

\* The points are deleted and written anew, one per working day; a Sprint is taken
\* to have one.
ReinitBurndown(s) == burndown' = burndown \cup {s}

\* The transaction of startSprint for the backlog P read during validation.
StartWrites(s, P) ==
    LET stale == StaleDrafts(s, P)
        staleSprints == {i[1] : i \in stale}
    IN  /\ status' = [status EXCEPT ![s] = "ACTIVE"]
        /\ SyncGenerated(s, "ACTIVE")
        /\ items' = items \ stale
        /\ tasks' = tasks \ (staleSprints \X P)
        /\ pbi' = [p \in PBIs |-> IF p \in P THEN "IN_PROGRESS" ELSE pbi[p]]
        /\ ReinitBurndown(s)

\* The transaction of cancelSprint for the backlog P read during validation.
CancelWrites(s, P) ==
    /\ status' = [status EXCEPT ![s] = "CANCELLED"]
    /\ SyncGenerated(s, "CANCELLED")
    /\ items' = items \ OfSprint(s)
    /\ tasks' = tasks \ OfSprint(s)
    /\ pbi' = [p \in PBIs |-> IF p \in P /\ pbi[p] \notin {"DONE", Absent}
                              THEN "READY" ELSE pbi[p]]

\* Mutant: the generated Sprint keeps its old status.
CompleteWritesUnsynced(s) ==
    /\ status' = [status EXCEPT ![s] = "COMPLETED"]
    /\ UNCHANGED genStatus

CompleteWrites(s) ==
    /\ status' = [status EXCEPT ![s] = "COMPLETED"]
    /\ SyncGenerated(s, "COMPLETED")

\* The transaction of saveSprintBacklog: the payload replaces the whole plan.
SaveWrites(s, P, T) ==
    /\ items' = (items \ OfSprint(s)) \cup ({s} \X P)
    /\ tasks' = (tasks \ OfSprint(s)) \cup ({s} \X T)

\* The transaction of saveSprintPlanningDraft: the selection becomes P, the tasks
\* of deselected items go, those of the payload are written, and the tasks other
\* Developers own stay (those of K).
DraftWrites(s, P, T, K) ==
    /\ items' = (items \ OfSprint(s)) \cup ({s} \X P)
    /\ tasks' = (tasks \ OfSprint(s)) \cup ({s} \X (T \cup K))

-----------------------------------------------------------------------------
(* Sprint Planning.                                                        *)

CreateSprint(s, has) ==
    /\ NoActiveSprint
    /\ ~Exists(s)
    /\ status' = [status EXCEPT ![s] = "PLANNED"]
    /\ goals' = WithGoal(s, has)
    /\ burndown' = burndown \cup {s}
    /\ UNCHANGED <<items, tasks, pbi, link, genStatus, eventsDone>>

SaveSprintBacklog(t, s, P, T) ==
    /\ P \subseteq KnownPBIs /\ T \subseteq P
    /\ \/ /\ Names(t, s) /\ status[s] \in Planning
          /\ UNCHANGED <<status, goals, burndown, link>>
       \/ /\ Materialise(t, s, "PLANNED")
          /\ goals' = WithGoal(s, t \in goals)
    /\ SaveWrites(s, P, T)
    /\ UNCHANGED <<pbi, genStatus, eventsDone>>

\* What the payload's sprintGoal does: "keep" when it is left out.
GoalEdits == {"keep", "set", "clear"}

SaveSprintPlanningDraft(t, s, P, T, K, goal) ==
    /\ P \subseteq KnownPBIs /\ T \subseteq P
    /\ K \subseteq P \cap {p \in PBIs : <<s, p>> \in tasks}
    /\ ~Conflicts(s, P)
    /\ \/ /\ Names(t, s) /\ status[s] \in Planning
          /\ status' = [status EXCEPT ![s] = "DRAFT"]
          /\ goals' = WithGoal(s, IF goal = "keep" THEN s \in goals ELSE goal = "set")
          /\ UNCHANGED <<burndown, link>>
       \/ /\ Materialise(t, s, "DRAFT")
          /\ goals' = WithGoal(s, IF goal = "keep" THEN t \in goals ELSE goal = "set")
    /\ DraftWrites(s, P, T, K)
    /\ UNCHANGED <<pbi, genStatus, eventsDone>>

\* A planning request that materialises the Sprint and is then refused (its
\* caller is no Developer, the selection conflicts, a fresh Sprint has no
\* backlog to start): the Sprint stays.
RefusedAfterMaterialise(g, s, st) ==
    /\ Materialise(g, s, st)
    /\ goals' = WithGoal(s, g \in goals)
    /\ UNCHANGED <<items, tasks, pbi, genStatus, eventsDone>>

-----------------------------------------------------------------------------
(* The Sprint's run.                                                       *)

StartSprint(t, s) ==
    /\ Names(t, s) /\ status[s] \in Planning
    /\ s \in goals \/ LinkedGoal(s)
    /\ Backlog(s) # {}
    /\ NoActiveSprint
    /\ ~Conflicts(s, Backlog(s))
    /\ goals' = goals \cup {s}
    /\ StartWrites(s, Backlog(s))
    /\ UNCHANGED <<link, eventsDone>>

\* The goal of the generated Sprint is adopted before the remaining checks, and
\* stays when one of them refuses the start.
StartRefusedAfterGoal(t, s) ==
    /\ Names(t, s) /\ status[s] \in Planning
    /\ s \notin goals /\ LinkedGoal(s)
    /\ Backlog(s) = {} \/ ~NoActiveSprint \/ Conflicts(s, Backlog(s))
    /\ goals' = goals \cup {s}
    /\ UNCHANGED <<status, items, tasks, burndown, pbi, link, genStatus, eventsDone>>

CompleteSprint(s) ==
    /\ status[s] = "ACTIVE"
    /\ s \in eventsDone
    /\ CompleteWrites(s)
    /\ UNCHANGED <<goals, items, tasks, burndown, pbi, link, eventsDone>>

CancelSprint(s) ==
    /\ status[s] = "ACTIVE"
    /\ CancelWrites(s, Backlog(s))
    /\ UNCHANGED <<goals, burndown, link, eventsDone>>

\* The request carries the item statuses the caller recorded before the start, prev[p]
\* for an item p of P, and the backlog entries D and tasks E it wants gone; the
\* handler reads nothing first.
RollbackSprintStart(s, P, prev, D, E) ==
    /\ Exists(s)
    /\ P \subseteq KnownPBIs
    /\ status' = [status EXCEPT ![s] = "PLANNED"]
    /\ SyncGenerated(s, "PLANNED")
    /\ items' = items \ D
    /\ tasks' = tasks \ E
    /\ pbi' = [p \in PBIs |-> IF p \in P THEN prev[p] ELSE pbi[p]]
    /\ burndown' = burndown \ {s}
    /\ UNCHANGED <<goals, link, eventsDone>>

AddPBIToActiveSprint(s, p) ==
    /\ status[s] = "ACTIVE"
    /\ p \notin Backlog(s) /\ pbi[p] = "READY"
    /\ items' = items \cup {<<s, p>>}
    /\ pbi' = [pbi EXCEPT ![p] = "IN_PROGRESS"]
    /\ UNCHANGED <<status, goals, tasks, burndown, link, genStatus, eventsDone>>

TaskActions == {"delete", "return_to_backlog", "keep_in_sprint"}

\* The transaction of removePBIFromActiveSprint; was is the status it read.
RemoveWrites(s, p, action, was) ==
    /\ items' = items \ {<<s, p>>}
    /\ tasks' = IF action = "keep_in_sprint" THEN tasks ELSE tasks \ {<<s, p>>}
    /\ pbi' = [pbi EXCEPT ![p] = IF action = "return_to_backlog" THEN "READY" ELSE was]

RemovePBIFromActiveSprint(s, p, action) ==
    /\ status[s] = "ACTIVE" /\ p \in Backlog(s)
    /\ RemoveWrites(s, p, action, pbi[p])
    /\ UNCHANGED <<status, goals, burndown, link, genStatus, eventsDone>>

\* createTask and deleteTask look at neither the Sprint's status nor its backlog.
CreateTask(s, p) ==
    /\ Exists(s) /\ p \in KnownPBIs
    /\ tasks' = tasks \cup {<<s, p>>}
    /\ UNCHANGED <<status, goals, items, burndown, pbi, link, genStatus, eventsDone>>

DeleteTask(s, p) ==
    /\ <<s, p>> \in tasks
    /\ tasks' = tasks \ {<<s, p>>}
    /\ UNCHANGED <<status, goals, items, burndown, pbi, link, genStatus, eventsDone>>

\* The Sprint Review and the Retrospective are updated, reopened and deleted
\* through services of their own.
EventsChange(s) ==
    /\ Exists(s)
    /\ \E E \in {eventsDone \cup {s}, eventsDone \ {s}} : eventsDone' = E
    /\ UNCHANGED <<status, goals, items, tasks, burndown, pbi, link, genStatus>>

-----------------------------------------------------------------------------
(* The Product Backlog.                                                    *)

\* The BacklogItem transitions of DEFAULT_WORKFLOW_CONFIGS.
Transitions ==
    {<<"NEW", "REFINED">>, <<"REFINED", "READY">>, <<"READY", "IN_PROGRESS">>,
     <<"IN_PROGRESS", "DONE">>, <<"IN_PROGRESS", "READY">>}

CreatePBI(p, st) ==
    /\ pbi[p] = Absent
    /\ pbi' = [pbi EXCEPT ![p] = st]
    /\ UNCHANGED <<status, goals, items, tasks, burndown, link, genStatus, eventsDone>>

\* updatePBI may also refuse for the caller's role or, towards DONE, for an open
\* Definition of Done: the caller and the checklist are not part of this model.
UpdatePBI(p, st) ==
    /\ pbi[p] # "DONE" /\ <<pbi[p], st>> \in Transitions
    /\ pbi' = [pbi EXCEPT ![p] = st]
    /\ UNCHANGED <<status, goals, items, tasks, burndown, link, genStatus, eventsDone>>

\* Backlog entries and tasks go with the item (ON DELETE CASCADE).  The refusal of an
\* item with a sprintId never applies: nothing writes that column.
DeletePBI(p) ==
    /\ pbi[p] \notin {Absent, "IN_PROGRESS", "DONE"}
    /\ pbi' = [pbi EXCEPT ![p] = Absent]
    /\ items' = items \ (Sprints \X {p})
    /\ tasks' = tasks \ (Sprints \X {p})
    /\ UNCHANGED <<status, goals, burndown, link, genStatus, eventsDone>>

-----------------------------------------------------------------------------
(* The Sprints generated for a year.                                       *)

\* Every generated Sprint of the year is deleted and a new set, N, is created,
\* unlinked and without goals; N falls short of the year when a statement fails.
GenerateSprintsForYear(N) ==
    /\ \A g \in N : ~Generated(g)
    /\ genStatus' = [g \in Gens |-> IF g \in N THEN "PLANNED" ELSE Absent]
    /\ link' = [g \in Gens |-> NoSprint]
    /\ goals' = goals \ Gens
    /\ UNCHANGED <<status, items, tasks, burndown, pbi, eventsDone>>

DeleteGeneratedSprint(g) ==
    /\ genStatus[g] \notin {Absent, "ACTIVE"}
    /\ genStatus' = [genStatus EXCEPT ![g] = Absent]
    /\ link' = [link EXCEPT ![g] = NoSprint]
    /\ goals' = goals \ {g}
    /\ UNCHANGED <<status, items, tasks, burndown, pbi, eventsDone>>

\* The goal is written to the linked Sprint too, whatever its status; a goal of
\* blanks passes validation.
UpdateGeneratedSprint(g, has) ==
    /\ Generated(g)
    /\ LET both == {g} \cup ({link[g]} \ {NoSprint})
       IN  goals' = IF has THEN goals \cup both ELSE goals \ both
    /\ UNCHANGED <<status, items, tasks, burndown, pbi, link, genStatus, eventsDone>>

-----------------------------------------------------------------------------
Ids == Sprints \cup Gens

PlanningNext ==
    \E s \in Sprints :
        \/ \E has \in BOOLEAN : CreateSprint(s, has)
        \/ \E t \in Ids, P, T \in SUBSET PBIs : SaveSprintBacklog(t, s, P, T)
        \/ \E t \in Ids, P, T, K \in SUBSET PBIs, goal \in GoalEdits :
               SaveSprintPlanningDraft(t, s, P, T, K, goal)
        \/ \E g \in Gens, st \in Planning : RefusedAfterMaterialise(g, s, st)

RunNext ==
    \E s \in Sprints :
        \/ \E t \in Ids : StartSprint(t, s) \/ StartRefusedAfterGoal(t, s)
        \/ CompleteSprint(s)
        \/ CancelSprint(s)
        \/ EventsChange(s)
        \/ \E p \in PBIs :
               \/ AddPBIToActiveSprint(s, p)
               \/ \E action \in TaskActions : RemovePBIFromActiveSprint(s, p, action)
               \/ CreateTask(s, p)
               \/ DeleteTask(s, p)

BacklogNext ==
    \E p \in PBIs :
        \/ \E st \in ItemStatuses : CreatePBI(p, st) \/ UpdatePBI(p, st)
        \/ DeletePBI(p)

GeneratedNext ==
    \/ \E N \in SUBSET Gens : GenerateSprintsForYear(N)
    \/ \E g \in Gens :
          \/ DeleteGeneratedSprint(g)
          \/ \E has \in BOOLEAN : UpdateGeneratedSprint(g, has)

\* The requests the web client sends.
Next == PlanningNext \/ RunNext \/ BacklogNext \/ GeneratedNext

\* The rollback endpoint exists, and no page of the web client calls it.
RollbackNext ==
    \E s \in Sprints, P \in SUBSET PBIs :
        \E prev \in [P -> ItemStatuses], D, E \in SUBSET OfSprint(s) :
            RollbackSprintStart(s, P, prev, D, E)

Spec == Init /\ [][Next]_vars
SpecWithRollback == Init /\ [][Next \/ RollbackNext]_vars

-----------------------------------------------------------------------------
(* What the handlers promise.                                              *)

\* A team runs at most one Sprint: startSprint and createSprint both look for an
\* ACTIVE Sprint first, and nothing else makes a Sprint ACTIVE.
OneActiveSprint ==
    \A s, t \in Sprints : status[s] = "ACTIVE" /\ status[t] = "ACTIVE" => s = t

\* The status column of a generated Sprint, on which its deletion decides, holds
\* the status of the Sprint it was materialised as, or PLANNED while that is still
\* being planned, a draft included.  Four transactions keep the two rows in step.
\* (The list of generated Sprints shows the Sprint's own status in its place.)
GeneratedInSync ==
    \A g \in Gens : Generated(g) =>
        genStatus[g] = IF link[g] = NoSprint \/ status[link[g]] \in Planning
                       THEN "PLANNED" ELSE status[link[g]]

\* A cancelled Sprint gives all its items back: no Sprint Backlog entry of it is
\* left by cancelSprint, and no later save or addition creates one.
CancelledIsEmpty == \A s \in Sprints : status[s] = "CANCELLED" => Backlog(s) = {}

\* Every item of the running Sprint is at least READY: starting or adding puts
\* it to work, and the workflow leads from there to DONE or back to READY only.
ActiveItemsWorkable ==
    \A s \in Sprints : status[s] = "ACTIVE" =>
        \A p \in Backlog(s) : pbi[p] \in {"READY", "IN_PROGRESS", "DONE"}

\* A Sprint that runs or was completed has its burndown points: they are created
\* with the row, rebuilt by the start, and only a rollback deletes them.
RunHasBurndown ==
    \A s \in Sprints : status[s] \in {"ACTIVE", "COMPLETED"} => s \in burndown

\* Nothing but a rollback brings a completed or cancelled Sprint back, a late
\* draft save included.
FinishedIsFinal ==
    [][\/ \A s \in Sprints : status[s] \in Finished => status'[s] = status[s]
       \/ RollbackNext]_vars

\* The moment a Sprint starts, no other Sprint holds any of its items: committed
\* ones stop the start, drafts lose them in its transaction.
StartTakesItsItems ==
    [][\A s \in Sprints : status[s] # "ACTIVE" /\ status'[s] = "ACTIVE" =>
          \A i, j \in items' : i[1] = s /\ j[2] = i[2] => j[1] = s]_vars

\* "Commit-time exclusivity: a Product Backlog Item can be committed to at most
\* one sprint at a time", over the statuses the conflict checks call committed.
CommittedToOneSprint ==
    \A p \in PBIs, s, t \in Sprints :
        /\ {status[s], status[t]} \subseteq Committed
        /\ p \in Backlog(s) \cap Backlog(t)
        => s = t
=============================================================================
