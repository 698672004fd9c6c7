---------------------------- MODULE Sprints_proofs ----------------------------
(***************************************************************************)
(* What the requests on a team's Sprints guarantee, for any number of       *)
(* Sprints, items and generated Sprints: handled one at a time               *)
(* (SprintLifecycle), and overlapping, for any number in flight              *)
(* (SprintRequests).                                                         *)
(***************************************************************************)
EXTENDS SprintRequests, TLAPS

-----------------------------------------------------------------------------
(* One request at a time.                                                  *)

\* A step of any request, the rollback included.
AnyNext == Next \/ RollbackNext

\* A backlog entry belongs to a Sprint that exists: entries are only written to a
\* Sprint that was read or has just been materialised.
ItemsOfSprints == \A i \in items : Exists(i[1])

\* What every request, the rollback included, keeps.
Inv ==
    /\ TypeOK
    /\ OneActiveSprint
    /\ GeneratedInSync
    /\ CancelledIsEmpty
    /\ RunHasBurndown
    /\ ItemsOfSprints

-----------------------------------------------------------------------------
\* The initial state satisfies every part of the invariant: there are no rows.
LEMMA InitInv == Init => Inv /\ ActiveItemsWorkable
  BY DEF Init, Inv, TypeOK, OneActiveSprint, GeneratedInSync, CancelledIsEmpty,
         RunHasBurndown, ItemsOfSprints, ActiveItemsWorkable, Generated, Backlog,
         Exists, Absent

\* Every request leaves rows of the schema's types.
LEMMA TypeStep == TypeOK /\ [AnyNext]_vars => TypeOK'
<1> SUFFICES ASSUME TypeOK, [AnyNext]_vars PROVE TypeOK'
  OBVIOUS
<1> USE IdsAssumption DEF TypeOK, SprintStatuses, ItemStatuses, Absent, Planning
<1>1. CASE PlanningNext
  BY <1>1 DEF PlanningNext, CreateSprint, SaveSprintBacklog, SaveSprintPlanningDraft,
       RefusedAfterMaterialise, Materialise, WithGoal, SaveWrites, DraftWrites, OfSprint,
       Ids, Generated, KnownPBIs
<1>2. CASE RunNext
  <2> SUFFICES ASSUME NEW s \in Sprints,
        \/ \E t \in Ids : StartSprint(t, s) \/ StartRefusedAfterGoal(t, s)
        \/ CompleteSprint(s)
        \/ CancelSprint(s)
        \/ EventsChange(s)
        \/ \E p \in PBIs :
               \/ AddPBIToActiveSprint(s, p)
               \/ \E action \in TaskActions : RemovePBIFromActiveSprint(s, p, action)
               \/ CreateTask(s, p)
               \/ DeleteTask(s, p)
               PROVE TypeOK'
    BY <1>2 DEF RunNext
  <2>1. ASSUME NEW t \in Ids, StartSprint(t, s) PROVE TypeOK'
    BY <2>1 DEF StartSprint, StartWrites, StaleDrafts, ReinitBurndown, SyncGenerated, Backlog
  <2>2. ASSUME NEW t \in Ids, StartRefusedAfterGoal(t, s) PROVE TypeOK'
    BY <2>2 DEF StartRefusedAfterGoal
  <2>3. CASE CompleteSprint(s)
    BY <2>3 DEF CompleteSprint, CompleteWrites, SyncGenerated
  <2>4. CASE CancelSprint(s)
    BY <2>4 DEF CancelSprint, CancelWrites, SyncGenerated
  <2>5. CASE EventsChange(s)
    BY <2>5 DEF EventsChange
  <2>6. ASSUME NEW p \in PBIs, AddPBIToActiveSprint(s, p) PROVE TypeOK'
    BY <2>6 DEF AddPBIToActiveSprint
  <2>7. ASSUME NEW p \in PBIs, NEW action \in TaskActions,
               RemovePBIFromActiveSprint(s, p, action)
        PROVE TypeOK'
    BY <2>7 DEF RemovePBIFromActiveSprint, RemoveWrites
  <2>8. ASSUME NEW p \in PBIs, CreateTask(s, p) \/ DeleteTask(s, p) PROVE TypeOK'
    BY <2>8 DEF CreateTask, DeleteTask
  <2> QED
    BY <2>1, <2>2, <2>3, <2>4, <2>5, <2>6, <2>7, <2>8
<1>3. CASE BacklogNext
  BY <1>3 DEF BacklogNext, CreatePBI, UpdatePBI, DeletePBI, Transitions
<1>4. CASE GeneratedNext
  BY <1>4 DEF GeneratedNext, GenerateSprintsForYear, DeleteGeneratedSprint,
       UpdateGeneratedSprint
<1>5. CASE RollbackNext
  BY <1>5 DEF RollbackNext, RollbackSprintStart, SyncGenerated
<1>6. CASE UNCHANGED vars
  BY <1>6 DEF vars
<1> QED
  BY <1>1, <1>2, <1>3, <1>4, <1>5, <1>6 DEF AnyNext, Next

-----------------------------------------------------------------------------
\* All that a request does to Sprint statuses: it writes one of them, and writes
\* "ACTIVE" only when the team has no active Sprint and the Sprint is being
\* planned.
StatusWrite ==
    \/ status' = status
    \/ \E s \in Sprints, st \in SprintStatuses :
          /\ status' = [status EXCEPT ![s] = st]
          /\ st = "ACTIVE" => NoActiveSprint /\ status[s] \in Planning

\* Every request writes statuses within those bounds.
LEMMA StatusStep == [AnyNext]_vars => StatusWrite
<1> USE DEF StatusWrite, SprintStatuses, Planning
<1>1. PlanningNext => StatusWrite
  <2> SUFFICES ASSUME PlanningNext, status' # status PROVE StatusWrite
    OBVIOUS
  <2>1. PICK s \in Sprints :
          \/ \E has \in BOOLEAN : CreateSprint(s, has)
          \/ \E t \in Ids, P, T \in SUBSET PBIs : SaveSprintBacklog(t, s, P, T)
          \/ \E t \in Ids, P, T, K \in SUBSET PBIs, goal \in GoalEdits :
                 SaveSprintPlanningDraft(t, s, P, T, K, goal)
          \/ \E g \in Gens, st \in Planning : RefusedAfterMaterialise(g, s, st)
    BY DEF PlanningNext
  <2>2. \E st \in Planning : status' = [status EXCEPT ![s] = st]
    BY <2>1 DEF CreateSprint, SaveSprintBacklog, SaveSprintPlanningDraft,
                RefusedAfterMaterialise, Materialise
  <2> QED
    BY <2>2
<1>2. RunNext => StatusWrite
  BY DEF RunNext, StartSprint, StartRefusedAfterGoal, CompleteSprint, CancelSprint,
         EventsChange, AddPBIToActiveSprint, RemovePBIFromActiveSprint, CreateTask,
         DeleteTask, StartWrites, StaleDrafts, ReinitBurndown, CompleteWrites, CancelWrites
<1>3. BacklogNext => StatusWrite
  BY DEF BacklogNext, CreatePBI, UpdatePBI, DeletePBI
<1>4. GeneratedNext => StatusWrite
  BY DEF GeneratedNext, GenerateSprintsForYear, DeleteGeneratedSprint, UpdateGeneratedSprint
<1>5. RollbackNext => StatusWrite
  BY DEF RollbackNext, RollbackSprintStart
<1>6. UNCHANGED vars => StatusWrite
  BY DEF vars
<1> QED
  BY <1>1, <1>2, <1>3, <1>4, <1>5, <1>6 DEF AnyNext, Next

\* Two Sprints are never active together: a write of "ACTIVE" finds none.
LEMMA OneActiveStep == TypeOK /\ OneActiveSprint /\ [AnyNext]_vars => OneActiveSprint'
  BY StatusStep DEF StatusWrite, TypeOK, OneActiveSprint, NoActiveSprint

\* The generated row follows its Sprint through every status write, and a newly
\* created Sprint is linked from nowhere else.
LEMMA InSyncStep == TypeOK /\ GeneratedInSync /\ [AnyNext]_vars => GeneratedInSync'
<1> SUFFICES ASSUME TypeOK, GeneratedInSync, [AnyNext]_vars PROVE GeneratedInSync'
  OBVIOUS
<1> USE IdsAssumption DEF TypeOK, GeneratedInSync, Generated, Planning, Absent
<1>1. CASE PlanningNext
  <2>1. PICK s \in Sprints :
          \/ \E has \in BOOLEAN : CreateSprint(s, has)
          \/ \E t \in Ids, P, T \in SUBSET PBIs : SaveSprintBacklog(t, s, P, T)
          \/ \E t \in Ids, P, T, K \in SUBSET PBIs, goal \in GoalEdits :
                 SaveSprintPlanningDraft(t, s, P, T, K, goal)
          \/ \E g \in Gens, st \in Planning : RefusedAfterMaterialise(g, s, st)
    BY <1>1 DEF PlanningNext
  <2>2. /\ genStatus' = genStatus
        /\ \/ status' = status
           \/ \E st \in Planning : status' = [status EXCEPT ![s] = st]
        /\ status' = status \/ status[s] \in Planning \cup {Absent}
        /\ \/ link' = link
           \/ \E g \in Gens : /\ link[g] = NoSprint /\ link' = [link EXCEPT ![g] = s]
                              /\ status'[s] \in Planning
    BY <2>1 DEF CreateSprint, SaveSprintBacklog, SaveSprintPlanningDraft,
                RefusedAfterMaterialise, Materialise, Exists
  <2> QED
    BY <2>2
<1>2. CASE RunNext
  <2>1. \/ UNCHANGED <<status, genStatus>>
        \/ \E s \in Sprints, st \in {"ACTIVE", "COMPLETED", "CANCELLED"} :
              status' = [status EXCEPT ![s] = st] /\ SyncGenerated(s, st)
    BY <1>2 DEF RunNext, StartSprint, StartRefusedAfterGoal, CompleteSprint, CancelSprint,
         EventsChange, AddPBIToActiveSprint, RemovePBIFromActiveSprint, CreateTask,
         DeleteTask, StartWrites, StaleDrafts, ReinitBurndown, CompleteWrites, CancelWrites
  <2>2. link' = link
    BY <1>2 DEF RunNext, StartSprint, StartRefusedAfterGoal, CompleteSprint, CancelSprint,
         EventsChange, AddPBIToActiveSprint, RemovePBIFromActiveSprint, CreateTask,
         DeleteTask
  <2> QED
    BY <2>1, <2>2 DEF SyncGenerated
<1>3. CASE BacklogNext
  BY <1>3 DEF BacklogNext, CreatePBI, UpdatePBI, DeletePBI
<1>4. CASE GeneratedNext
  BY <1>4 DEF GeneratedNext, GenerateSprintsForYear, DeleteGeneratedSprint,
       UpdateGeneratedSprint
<1>5. CASE RollbackNext
  BY <1>5 DEF RollbackNext, RollbackSprintStart, SyncGenerated, Exists
<1>6. CASE UNCHANGED vars
  BY <1>6 DEF vars
<1> QED
  BY <1>1, <1>2, <1>3, <1>4, <1>5, <1>6 DEF AnyNext, Next

-----------------------------------------------------------------------------
\* All that a request adds to the Sprint Backlogs: an entry it creates belongs to a
\* Sprint that is being planned or runs, and a Sprint it cancels keeps none.
ItemsWrite ==
    /\ \A i \in items' \ items : status'[i[1]] \in Planning \cup {"ACTIVE"}
    /\ \A s \in Sprints : status'[s] = "CANCELLED" =>
          status[s] = "CANCELLED" \/ \A i \in items' : i[1] # s

\* Every request writes backlog entries within those bounds.
LEMMA ItemsStep == TypeOK /\ [AnyNext]_vars => ItemsWrite
<1> SUFFICES ASSUME TypeOK, [AnyNext]_vars PROVE ItemsWrite
  OBVIOUS
<1> USE DEF TypeOK, ItemsWrite, Planning
<1>1. CASE PlanningNext
  <2>1. PICK s \in Sprints :
          \/ \E has \in BOOLEAN : CreateSprint(s, has)
          \/ \E t \in Ids, P, T \in SUBSET PBIs : SaveSprintBacklog(t, s, P, T)
          \/ \E t \in Ids, P, T, K \in SUBSET PBIs, goal \in GoalEdits :
                 SaveSprintPlanningDraft(t, s, P, T, K, goal)
          \/ \E g \in Gens, st \in Planning : RefusedAfterMaterialise(g, s, st)
    BY <1>1 DEF PlanningNext
  <2>2. /\ \E st \in SprintStatuses : status' = status \/ status' = [status EXCEPT ![s] = st]
        /\ status'[s] \in Planning
        /\ \A i \in items' \ items : i[1] = s
    BY <2>1 DEF CreateSprint, SaveSprintBacklog, SaveSprintPlanningDraft, SprintStatuses,
                RefusedAfterMaterialise, Materialise, SaveWrites, DraftWrites, OfSprint
  <2> QED
    BY <2>2
<1>2. CASE RunNext
  <2>1. PICK s \in Sprints :
          \/ \E t \in Ids : StartSprint(t, s) \/ StartRefusedAfterGoal(t, s)
          \/ CompleteSprint(s)
          \/ CancelSprint(s)
          \/ EventsChange(s)
          \/ \E p \in PBIs :
                 \/ AddPBIToActiveSprint(s, p)
                 \/ \E action \in TaskActions : RemovePBIFromActiveSprint(s, p, action)
                 \/ CreateTask(s, p)
                 \/ DeleteTask(s, p)
    BY <1>2 DEF RunNext
  <2>2. CASE CancelSprint(s)
    BY <2>2 DEF CancelSprint, CancelWrites, OfSprint
  <2>3. CASE \E p \in PBIs : AddPBIToActiveSprint(s, p)
    BY <2>3 DEF AddPBIToActiveSprint
  <2>4. CASE ~ CancelSprint(s) /\ ~ \E p \in PBIs : AddPBIToActiveSprint(s, p)
    <3>1. items' \subseteq items
      BY <2>1, <2>4 DEF StartSprint, StartRefusedAfterGoal, CompleteSprint, EventsChange,
           RemovePBIFromActiveSprint, CreateTask, DeleteTask, StartWrites, StaleDrafts, ReinitBurndown, RemoveWrites
    <3>2. status' = status \/ \E st \in {"ACTIVE", "COMPLETED"} : status' = [status EXCEPT ![s] = st]
      BY <2>1, <2>4 DEF StartSprint, StartRefusedAfterGoal, CompleteSprint, EventsChange,
           RemovePBIFromActiveSprint, CreateTask, DeleteTask, StartWrites, StaleDrafts, ReinitBurndown, CompleteWrites
    <3> QED
      BY <3>1, <3>2
  <2> QED
    BY <2>2, <2>3, <2>4
<1>3. CASE BacklogNext
  BY <1>3 DEF BacklogNext, CreatePBI, UpdatePBI, DeletePBI
<1>4. CASE GeneratedNext
  BY <1>4 DEF GeneratedNext, GenerateSprintsForYear, DeleteGeneratedSprint,
       UpdateGeneratedSprint
<1>5. CASE RollbackNext
  BY <1>5 DEF RollbackNext, RollbackSprintStart
<1>6. CASE UNCHANGED vars
  BY <1>6 DEF vars
<1> QED
  BY <1>1, <1>2, <1>3, <1>4, <1>5, <1>6 DEF AnyNext, Next

\* Entries keep belonging to Sprints that exist, and to none that was cancelled.
LEMMA EmptyStep ==
  TypeOK /\ CancelledIsEmpty /\ ItemsOfSprints /\ [AnyNext]_vars
    => CancelledIsEmpty' /\ ItemsOfSprints'
<1> SUFFICES ASSUME TypeOK, CancelledIsEmpty, ItemsOfSprints, [AnyNext]_vars
             PROVE  CancelledIsEmpty' /\ ItemsOfSprints'
  OBVIOUS
<1>1. TypeOK' /\ ItemsWrite /\ StatusWrite
  BY TypeStep, ItemsStep, StatusStep
<1>2. CancelledIsEmpty'
  <2> SUFFICES ASSUME NEW s \in Sprints, status'[s] = "CANCELLED",
                      NEW p \in PBIs, <<s, p>> \in items'
               PROVE  FALSE
    BY DEF CancelledIsEmpty, Backlog
  <2>1. <<s, p>>[1] = s
    OBVIOUS
  <2>2. <<s, p>> \in items
    BY <1>1, <2>1 DEF ItemsWrite, Planning
  <2>3. status[s] = "CANCELLED"
    BY <1>1, <2>1 DEF ItemsWrite
  <2> QED
    BY <2>2, <2>3 DEF CancelledIsEmpty, Backlog
<1>3. ItemsOfSprints'
  <2> SUFFICES ASSUME NEW i \in items' PROVE status'[i[1]] # Absent
    BY DEF ItemsOfSprints, Exists
  <2>1. CASE i \in items
    BY <1>1, <2>1 DEF ItemsOfSprints, Exists, StatusWrite, TypeOK, SprintStatuses, Absent
  <2>2. CASE i \notin items
    BY <1>1, <2>2 DEF ItemsWrite, Planning, Absent
  <2> QED
    BY <2>1, <2>2
<1> QED
  BY <1>2, <1>3

\* A Sprint that runs or is completed keeps its burndown points: the start rebuilds
\* them, and the rollback that deletes them makes the Sprint PLANNED.
LEMMA BurndownStep ==
  TypeOK /\ RunHasBurndown /\ [AnyNext]_vars => RunHasBurndown'
<1> SUFFICES ASSUME TypeOK, RunHasBurndown, [AnyNext]_vars PROVE RunHasBurndown'
  OBVIOUS
<1> USE DEF TypeOK, RunHasBurndown, Planning
<1>1. CASE PlanningNext
  <2>1. burndown \subseteq burndown'
    BY <1>1 DEF PlanningNext, CreateSprint, SaveSprintBacklog, SaveSprintPlanningDraft,
         RefusedAfterMaterialise, Materialise
  <2>2. \A s \in Sprints : status'[s] = status[s] \/ status'[s] \in Planning
    BY <1>1 DEF PlanningNext, CreateSprint, SaveSprintBacklog, SaveSprintPlanningDraft,
         RefusedAfterMaterialise, Materialise
  <2> QED
    BY <2>1, <2>2
<1>2. CASE RunNext
  BY <1>2 DEF RunNext, StartSprint, StartRefusedAfterGoal, CompleteSprint, CancelSprint,
       EventsChange, AddPBIToActiveSprint, RemovePBIFromActiveSprint, CreateTask,
       DeleteTask, StartWrites, StaleDrafts, ReinitBurndown, CompleteWrites, CancelWrites
<1>3. CASE BacklogNext
  BY <1>3 DEF BacklogNext, CreatePBI, UpdatePBI, DeletePBI
<1>4. CASE GeneratedNext
  BY <1>4 DEF GeneratedNext, GenerateSprintsForYear, DeleteGeneratedSprint,
       UpdateGeneratedSprint
<1>5. CASE RollbackNext
  BY <1>5 DEF RollbackNext, RollbackSprintStart
<1>6. CASE UNCHANGED vars
  BY <1>6 DEF vars
<1> QED
  BY <1>1, <1>2, <1>3, <1>4, <1>5, <1>6 DEF AnyNext, Next

-----------------------------------------------------------------------------
\* The invariant holds in every state the requests reach, rollbacks included.
THEOREM Invariance == SpecWithRollback => []Inv
<1>1. Init => Inv
  BY InitInv
<1>2. Inv /\ [Next \/ RollbackNext]_vars => Inv'
  BY TypeStep, OneActiveStep, InSyncStep, EmptyStep, BurndownStep DEF Inv, AnyNext
<1> QED
  BY <1>1, <1>2, PTL DEF SpecWithRollback

\* A rollback only widens what the web client may do.
LEMMA ClientIsAllowed == Spec => SpecWithRollback
<1>1. [Next]_vars => [Next \/ RollbackNext]_vars
  OBVIOUS
<1> QED
  BY <1>1, PTL DEF Spec, SpecWithRollback

\* Handled one at a time, the requests keep the rows of the schema's types.
THEOREM TypeCorrect == SpecWithRollback => []TypeOK
  BY Invariance, PTL DEF Inv

\* Handled one at a time, the requests never leave a team with two active Sprints.
THEOREM OneActive == SpecWithRollback => []OneActiveSprint
  BY Invariance, PTL DEF Inv

\* The generated Sprint's status is always that of the Sprint it was materialised as.
THEOREM InSync == SpecWithRollback => []GeneratedInSync
  BY Invariance, PTL DEF Inv

\* A cancelled Sprint never holds an item again.
THEOREM CancelledEmpty == SpecWithRollback => []CancelledIsEmpty
  BY Invariance, PTL DEF Inv

\* A Sprint that runs or was completed has burndown points, rollbacks included.
THEOREM HasBurndown == SpecWithRollback => []RunHasBurndown
  BY Invariance, PTL DEF Inv

-----------------------------------------------------------------------------
(* What holds of the web client's requests, without the rollback.          *)

\* Every item of the running Sprint stays at least READY.
LEMMA WorkableStep ==
  Inv /\ ActiveItemsWorkable /\ [Next]_vars => ActiveItemsWorkable'
<1> SUFFICES ASSUME Inv, ActiveItemsWorkable, [Next]_vars PROVE ActiveItemsWorkable'
  OBVIOUS
<1> DEFINE Workable == {"READY", "IN_PROGRESS", "DONE"}
<1> USE DEF Inv, TypeOK, ActiveItemsWorkable, Backlog
<1>1. CASE PlanningNext
  <2>1. PICK s \in Sprints :
          \/ \E has \in BOOLEAN : CreateSprint(s, has)
          \/ \E t \in Ids, P, T \in SUBSET PBIs : SaveSprintBacklog(t, s, P, T)
          \/ \E t \in Ids, P, T, K \in SUBSET PBIs, goal \in GoalEdits :
                 SaveSprintPlanningDraft(t, s, P, T, K, goal)
          \/ \E g \in Gens, st \in Planning : RefusedAfterMaterialise(g, s, st)
    BY <1>1 DEF PlanningNext
  <2>2. /\ pbi' = pbi
        /\ status' = status \/ \E st \in Planning : status' = [status EXCEPT ![s] = st]
        /\ status'[s] # "ACTIVE"
        /\ \A i \in items' \ items : i[1] = s
    BY <2>1 DEF CreateSprint, SaveSprintBacklog, SaveSprintPlanningDraft, Planning,
                RefusedAfterMaterialise, Materialise, SaveWrites, DraftWrites, OfSprint
  <2> SUFFICES ASSUME NEW t \in Sprints, status'[t] = "ACTIVE",
                      NEW p \in PBIs, <<t, p>> \in items'
               PROVE  pbi'[p] \in Workable
    OBVIOUS
  <2>3. t # s /\ status[t] = "ACTIVE" /\ <<t, p>>[1] = t
    BY <2>2
  <2> QED
    BY <2>2, <2>3
<1>2. CASE RunNext
  <2>1. PICK s \in Sprints :
          \/ \E t \in Ids : StartSprint(t, s) \/ StartRefusedAfterGoal(t, s)
          \/ CompleteSprint(s)
          \/ CancelSprint(s)
          \/ EventsChange(s)
          \/ \E p \in PBIs :
                 \/ AddPBIToActiveSprint(s, p)
                 \/ \E action \in TaskActions : RemovePBIFromActiveSprint(s, p, action)
                 \/ CreateTask(s, p)
                 \/ DeleteTask(s, p)
    BY <1>2 DEF RunNext
  <2>2. ASSUME NEW t \in Ids, StartSprint(t, s) PROVE ActiveItemsWorkable'
    BY <2>2 DEF StartSprint, StartWrites, StaleDrafts, ReinitBurndown, NoActiveSprint
  <2>3. CASE CancelSprint(s)
    BY <2>3 DEF CancelSprint, CancelWrites
  <2>4. ASSUME NEW p \in PBIs, AddPBIToActiveSprint(s, p) PROVE ActiveItemsWorkable'
    BY <2>4 DEF AddPBIToActiveSprint
  <2>5. ASSUME NEW p \in PBIs, NEW action \in TaskActions,
               RemovePBIFromActiveSprint(s, p, action)
        PROVE  ActiveItemsWorkable'
    BY <2>5 DEF RemovePBIFromActiveSprint, RemoveWrites
  <2>6. CASE CompleteSprint(s)
    BY <2>6 DEF CompleteSprint, CompleteWrites
  <2>7. CASE EventsChange(s) \/ (\E t \in Ids : StartRefusedAfterGoal(t, s))
               \/ (\E p \in PBIs : CreateTask(s, p) \/ DeleteTask(s, p))
    BY <2>7 DEF EventsChange, StartRefusedAfterGoal, CreateTask, DeleteTask
  <2> QED
    BY <2>1, <2>2, <2>3, <2>4, <2>5, <2>6, <2>7
<1>3. CASE BacklogNext
  BY <1>3 DEF BacklogNext, CreatePBI, UpdatePBI, DeletePBI, Transitions, Absent
<1>4. CASE GeneratedNext
  BY <1>4 DEF GeneratedNext, GenerateSprintsForYear, DeleteGeneratedSprint,
       UpdateGeneratedSprint
<1>5. CASE UNCHANGED vars
  BY <1>5 DEF vars
<1> QED
  BY <1>1, <1>2, <1>3, <1>4, <1>5 DEF Next

\* No item of the running Sprint falls back to NEW or REFINED.
THEOREM ItemsWorkable == Spec => []ActiveItemsWorkable
<1>1. Init => ActiveItemsWorkable
  BY InitInv
<1>2. Spec => []Inv
  BY ClientIsAllowed, Invariance, PTL
<1>3. Inv /\ ActiveItemsWorkable /\ [Next]_vars => ActiveItemsWorkable'
  BY WorkableStep
<1> QED
  BY <1>1, <1>2, <1>3, PTL DEF Spec

\* Nothing but a rollback brings a completed or cancelled Sprint back.
THEOREM FinishedFinal == SpecWithRollback => FinishedIsFinal
<1> DEFINE Stays == \A s \in Sprints : status[s] \in Finished => status'[s] = status[s]
<1>1. TypeOK /\ [Next \/ RollbackNext]_vars => [Stays \/ RollbackNext]_vars
  <2> SUFFICES ASSUME TypeOK, Next, NEW s \in Sprints, status[s] \in Finished
               PROVE  status'[s] = status[s]
    OBVIOUS
  <2> USE DEF TypeOK, Finished
  <2>1. CASE PlanningNext
    BY <2>1 DEF PlanningNext, CreateSprint, SaveSprintBacklog, SaveSprintPlanningDraft,
         RefusedAfterMaterialise, Materialise, Exists, Planning, Absent
  <2>2. CASE RunNext
    BY <2>2 DEF RunNext, StartSprint, StartRefusedAfterGoal, CompleteSprint, CancelSprint,
         EventsChange, AddPBIToActiveSprint, RemovePBIFromActiveSprint, CreateTask,
         DeleteTask, StartWrites, StaleDrafts, ReinitBurndown, CompleteWrites, CancelWrites, Planning
  <2>3. CASE BacklogNext
    BY <2>3 DEF BacklogNext, CreatePBI, UpdatePBI, DeletePBI
  <2>4. CASE GeneratedNext
    BY <2>4 DEF GeneratedNext, GenerateSprintsForYear, DeleteGeneratedSprint,
         UpdateGeneratedSprint
  <2> QED
    BY <2>1, <2>2, <2>3, <2>4 DEF Next
<1> QED
  BY <1>1, TypeCorrect, PTL DEF SpecWithRollback, FinishedIsFinal

\* A start leaves its items in no other Sprint: committed Sprints would have stopped
\* it, drafts lose them, and Sprints that are cancelled or absent hold nothing.
THEOREM StartTakes == SpecWithRollback => StartTakesItsItems
<1> DEFINE Taken == \A s \in Sprints : status[s] # "ACTIVE" /\ status'[s] = "ACTIVE" =>
                      \A i, j \in items' : i[1] = s /\ j[2] = i[2] => j[1] = s
<1>1. Inv /\ [Next \/ RollbackNext]_vars => [Taken]_vars
  <2> SUFFICES ASSUME Inv, AnyNext, NEW s \in Sprints,
                      status[s] # "ACTIVE", status'[s] = "ACTIVE",
                      NEW i \in items', NEW j \in items', i[1] = s, j[2] = i[2]
               PROVE  j[1] = s
    BY DEF AnyNext
  <2> USE DEF Inv, TypeOK
  <2>1. PICK t \in Ids : StartSprint(t, s)
    <3>1. ~PlanningNext
      BY DEF PlanningNext, CreateSprint, SaveSprintBacklog, SaveSprintPlanningDraft,
         RefusedAfterMaterialise, Materialise, Planning
    <3>2. ~BacklogNext /\ ~GeneratedNext /\ ~RollbackNext
      BY DEF BacklogNext, CreatePBI, UpdatePBI, DeletePBI, GeneratedNext, RollbackNext,
         GenerateSprintsForYear, DeleteGeneratedSprint, UpdateGeneratedSprint,
         RollbackSprintStart
    <3> QED
      <4>1. PICK r \in Sprints :
              \/ \E t \in Ids : StartSprint(t, r)
              \/ CompleteSprint(r)
              \/ CancelSprint(r)
              \/ status' = status
        BY <3>1, <3>2 DEF AnyNext, Next, RunNext, StartRefusedAfterGoal, EventsChange,
             AddPBIToActiveSprint, RemovePBIFromActiveSprint, CreateTask, DeleteTask
      <4>2. ~CompleteSprint(r) /\ ~CancelSprint(r)
        BY DEF CompleteSprint, CancelSprint, CompleteWrites, CancelWrites
      <4>3. PICK t \in Ids : StartSprint(t, r)
        BY <4>1, <4>2
      <4>4. r = s
        BY <4>3 DEF StartSprint, StartWrites, StaleDrafts, ReinitBurndown
      <4> QED
        BY <4>3, <4>4
  <2>2. /\ i \in items /\ j \in items /\ i[2] \in Backlog(s)
        /\ j[1] \in Sprints /\ j[2] \in Backlog(j[1])
    BY <2>1 DEF StartSprint, StartWrites, StaleDrafts, ReinitBurndown, Backlog
  <2>3. SUFFICES ASSUME j[1] # s PROVE FALSE
    OBVIOUS
  <2>4. status[j[1]] # "DRAFT"
    BY <2>1, <2>2, <2>3 DEF StartSprint, StartWrites, StaleDrafts, ReinitBurndown
  <2>5. status[j[1]] \notin Committed
    BY <2>1, <2>2, <2>3 DEF StartSprint, Conflicts, Backlog
  <2>6. status[j[1]] \notin {"CANCELLED", Absent}
    BY <2>2 DEF CancelledIsEmpty, ItemsOfSprints, Exists, Backlog
  <2> QED
    BY <2>2, <2>4, <2>5, <2>6 DEF SprintStatuses, Committed
<1> QED
  BY <1>1, Invariance, PTL DEF SpecWithRollback, StartTakesItsItems

-----------------------------------------------------------------------------
(* Overlapping requests.                                                   *)

\* What each kind of request in flight carries.
Carries(r) ==
    /\ r.op \notin {"idle", "create", "update", "delete", "delete generated", "materialise"}
          => r.sprint \in Sprints
    /\ r.op \in {"materialise", "row", "link"} =>
          r.gen \in Gens /\ r.was \in Planning /\ r.arg \in {"save", "draft", "start"}
    /\ r.op = "delete generated" => r.gen \in Gens
    /\ r.op = "remove" => r.was \in ItemStatuses
    /\ r.op = "update" => r.arg \in ItemStatuses

\* A request reads a backlog entry's item, so the entry's item must exist.
ItemsKnown == \A i \in items : i[2] \in KnownPBIs

ReqTypes ==
    /\ RequestsTypeOK
    /\ ItemsKnown
    /\ \A w \in Workers : Carries(req[w])

-----------------------------------------------------------------------------
\* Before any request there are no rows and nothing is in flight.
LEMMA ReqTypesInit == ReqInit => ReqTypes
<1> SUFFICES ASSUME ReqInit PROVE ReqTypes
  OBVIOUS
<1>1. TypeOK
  BY InitInv DEF ReqInit, Inv
<1>2. Idle \in Request /\ Carries(Idle)
  BY DEF Idle, Request, Carries, Args
<1> QED
  BY <1>1, <1>2 DEF ReqInit, Init, ReqTypes, RequestsTypeOK, ItemsKnown, Suspects

\* A request that reads takes a record of the right shape.
LEMMA ValidateTypes ==
  ASSUME ReqTypes, NEW w \in Workers, ValidateNext(w)
  PROVE  /\ UNCHANGED <<status, items, tasks, burndown, pbi, link, genStatus, eventsDone>>
         /\ goals' = goals \/ \E s \in Sprints : goals' = goals \cup {s}
         /\ \E r \in Request : Carries(r) /\ Take(w, r)
<1> USE DEF ReqTypes, RequestsTypeOK, TypeOK, Request, Idle, Kinds, Args, Carries, GoalEdits
<1>1. CASE \E t \in Ids, s \in Sprints : ValidateStart(w, t, s)
  <2>1. PICK t \in Ids, s \in Sprints : ValidateStart(w, t, s)
    BY <1>1
  <2>2. Backlog(s) \in SUBSET PBIs
    BY DEF Backlog
  <2> QED
    BY <2>1, <2>2 DEF ValidateStart
<1>2. CASE \E s \in Sprints : ValidateComplete(w, s) \/ ValidateCancel(w, s)
  <2>1. PICK s \in Sprints : ValidateComplete(w, s) \/ ValidateCancel(w, s)
    BY <1>2
  <2>2. Backlog(s) \in SUBSET PBIs
    BY DEF Backlog
  <2> QED
    BY <2>1, <2>2 DEF ValidateComplete, ValidateCancel, vars
<1>3. CASE \E t \in Ids, s \in Sprints, P, T \in SUBSET PBIs :
          \/ ValidateSave(w, t, s, P, T)
          \/ \E goal \in GoalEdits : ValidateDraft(w, t, s, P, T, goal)
  <2>1. PICK t \in Ids, s \in Sprints, P \in SUBSET PBIs, T \in SUBSET PBIs :
          \/ ValidateSave(w, t, s, P, T)
          \/ \E goal \in GoalEdits : ValidateDraft(w, t, s, P, T, goal)
    BY <1>3
  <2>2. CASE ValidateSave(w, t, s, P, T)
    BY <2>2 DEF ValidateSave, vars
  <2>3. ASSUME NEW goal \in GoalEdits, ValidateDraft(w, t, s, P, T, goal)
        PROVE  \E r \in Request : Carries(r) /\ Take(w, r)
    <3> DEFINE r == [Idle EXCEPT !.op = "draft", !.sprint = s, !.items = P, !.tasks = T,
                                 !.arg = goal, !.was = status[s]]
    <3>1. status[s] \in Planning /\ Take(w, r)
      BY <2>3 DEF ValidateDraft
    <3>2. r \in Request /\ Carries(r)
      BY <3>1
    <3> QED
      BY <3>1, <3>2
  <2> QED
    BY <2>1, <2>2, <2>3 DEF ValidateSave, ValidateDraft, vars
<1>4. CASE \E s \in Sprints, p \in PBIs :
          \/ ValidateAdd(w, s, p)
          \/ \E action \in TaskActions : ValidateRemove(w, s, p, action)
  <2>1. PICK s \in Sprints, p \in PBIs :
          \/ ValidateAdd(w, s, p)
          \/ \E action \in TaskActions : ValidateRemove(w, s, p, action)
    BY <1>4
  <2>2. ASSUME NEW action \in TaskActions, ValidateRemove(w, s, p, action)
        PROVE  pbi[p] \in ItemStatuses
    <3>1. <<s, p>> \in items /\ <<s, p>>[2] = p
      BY <2>2 DEF ValidateRemove, Backlog
    <3> QED
      BY <3>1 DEF ItemsKnown, KnownPBIs
  <2> QED
    BY <2>1, <2>2 DEF ValidateAdd, ValidateRemove, vars
<1>5. CASE \E p \in PBIs : ValidateDelete(w, p) \/ \E st \in ItemStatuses : ValidateUpdate(w, p, st)
  BY <1>5 DEF ValidateDelete, ValidateUpdate, vars
<1>6. CASE \E has \in BOOLEAN : ValidateCreate(w, has)
  BY <1>6 DEF ValidateCreate, vars
<1>7. CASE \E g \in Gens : ValidateDeleteGenerated(w, g)
  BY <1>7 DEF ValidateDeleteGenerated, vars
<1> QED
  BY <1>1, <1>2, <1>3, <1>4, <1>5, <1>6, <1>7 DEF ValidateNext

\* The workers' part of the types, kept when w takes a record of the right shape.
WorkersTyped ==
    /\ req \in [Workers -> Request] /\ overlaps \in SUBSET Suspects
    /\ \A w \in Workers : Carries(req[w])

\* Taking a well-shaped record keeps every worker's record well shaped.
LEMMA TakeTypes ==
  ASSUME WorkersTyped, NEW w \in Workers, NEW r \in Request, Carries(r), Take(w, r)
  PROVE  WorkersTyped'
BY DEF WorkersTyped, Take, Meets, Carries

\* Answering a request leaves its worker idle.
LEMMA AnswerTypes ==
  ASSUME WorkersTyped, NEW w \in Workers, req' = [req EXCEPT ![w] = Idle],
         UNCHANGED overlaps
  PROVE  WorkersTyped'
<1>1. Idle \in Request /\ Carries(Idle)
  BY DEF Idle, Request, Carries, Args
<1> QED
  BY <1>1 DEF WorkersTyped, Carries

\* A Sprint materialised in four statements leaves well-typed rows, and hands its
\* request on with the payload it came with.
LEMMA MaterialiseTypes ==
  ASSUME ReqTypes, NEW w \in Workers, MaterialiseNext(w) PROVE ReqTypes'
<1>0. WorkersTyped /\ TypeOK /\ ItemsKnown
  BY DEF WorkersTyped, ReqTypes, RequestsTypeOK
<1> USE DEF TypeOK
<1>1. CASE \E g \in Gens, P, T \in SUBSET PBIs, st \in Planning,
             next \in {"save", "draft", "start"} : ReadGenerated(w, g, st, next, P, T)
  <2>1. PICK g \in Gens, P \in SUBSET PBIs, T \in SUBSET PBIs, st \in Planning,
             next \in {"save", "draft", "start"} : ReadGenerated(w, g, st, next, P, T)
    BY <1>1
  <2> DEFINE r == [Idle EXCEPT !.op = "materialise", !.gen = g, !.was = st, !.arg = next,
                               !.items = P, !.tasks = T]
  <2>2. r \in Request /\ Carries(r)
    BY DEF Request, Kinds, Args, Idle, Carries
  <2>3. Take(w, r) /\ UNCHANGED vars
    BY <2>1 DEF ReadGenerated
  <2>4. WorkersTyped'
    BY <1>0, <2>2, <2>3, TakeTypes DEF WorkersTyped
  <2> QED
    BY <1>0, <2>3, <2>4 DEF ReqTypes, RequestsTypeOK, WorkersTyped, vars, ItemsKnown, KnownPBIs
<1>2. CASE \E s \in Sprints : CreateRow(w, s)
  <2>1. PICK s \in Sprints : CreateRow(w, s)
    BY <1>2
  <2> DEFINE r == [req[w] EXCEPT !.op = "row", !.sprint = s]
  <2>2. r \in Request /\ Carries(r) /\ req[w].was \in Planning
    BY <1>0, <2>1 DEF WorkersTyped, Request, Kinds, Carries, CreateRow
  <2>3. WorkersTyped'
    BY <1>0, <2>1, <2>2, TakeTypes DEF CreateRow
  <2>4. TypeOK' /\ ItemsKnown'
    BY <1>0, <2>1, <2>2 DEF CreateRow, WithGoal, Planning, SprintStatuses, ItemsKnown, KnownPBIs
  <2> QED
    BY <2>3, <2>4 DEF ReqTypes, RequestsTypeOK, WorkersTyped
<1>3. ASSUME NEW goal \in GoalEdits, LinkRow(w, goal) PROVE ReqTypes'
  <2> DEFINE old == req[w]
             r == [Idle EXCEPT !.op = old.arg, !.sprint = old.sprint, !.items = old.items,
                               !.tasks = old.tasks, !.arg = goal, !.was = old.was]
  <2>1. old \in Request /\ old.gen \in Gens /\ old.sprint \in Sprints
          /\ old.was \in Planning /\ old.arg \in {"save", "draft", "start"}
    BY <1>0, <1>3 DEF WorkersTyped, LinkRow, Carries
  <2>2. old.arg # "start" => r \in Request /\ Carries(r)
    BY <2>1 DEF Request, Kinds, Args, Idle, Carries, GoalEdits
  <2>3. WorkersTyped'
    <3>1. CASE old.arg # "start" /\ Take(w, r)
      BY <1>0, <1>3, <2>2, <3>1, TakeTypes DEF LinkRow, WorkersTyped
    <3>2. CASE req' = [req EXCEPT ![w] = Idle] /\ UNCHANGED overlaps
      BY <1>0, <1>3, <3>2, AnswerTypes DEF LinkRow
    <3> QED
      BY <1>3, <3>1, <3>2 DEF LinkRow
  <2> QED
    BY <1>0, <1>3, <2>1, <2>3
       DEF LinkRow, ReqTypes, RequestsTypeOK, WorkersTyped, ItemsKnown, KnownPBIs
<1>4. CASE PointsOfRow(w)
  <2> DEFINE r == [req[w] EXCEPT !.op = "link"]
  <2>1. r \in Request /\ Carries(r) /\ req[w].sprint \in Sprints
    BY <1>0, <1>4 DEF WorkersTyped, Request, Kinds, Carries, PointsOfRow
  <2>2. WorkersTyped'
    BY <1>0, <1>4, <2>1, TakeTypes DEF PointsOfRow
  <2> QED
    BY <1>0, <1>4, <2>1, <2>2
       DEF PointsOfRow, ReqTypes, RequestsTypeOK, WorkersTyped, ItemsKnown, KnownPBIs
<1> QED
  BY <1>1, <1>2, <1>3, <1>4 DEF MaterialiseNext, Planning

\* The row a creation writes is planned, and its request goes on to the points.
LEMMA CreateTypes ==
  ASSUME ReqTypes, NEW w \in Workers, NEW s \in Sprints, CommitCreate(w, s) PROVE ReqTypes'
<1> DEFINE r == [Idle EXCEPT !.op = "points", !.sprint = s]
<1>0. WorkersTyped /\ TypeOK /\ ItemsKnown
  BY DEF WorkersTyped, ReqTypes, RequestsTypeOK
<1>1. r \in Request /\ Carries(r)
  BY DEF Request, Kinds, Args, Idle, Carries
<1>2. WorkersTyped'
  BY <1>0, <1>1, TakeTypes DEF CommitCreate, WorkersTyped
<1>3. TypeOK' /\ ItemsKnown'
  BY <1>0 DEF CommitCreate, TypeOK, WithGoal, SprintStatuses, ItemsKnown, KnownPBIs
<1> QED
  BY <1>2, <1>3 DEF ReqTypes, RequestsTypeOK, WorkersTyped

\* The transactions that answer their request.
Answered(w) ==
    \/ WritePoints(w) \/ CommitStart(w) \/ CommitComplete(w) \/ CommitCancel(w)
    \/ CommitSave(w) \/ CommitAdd(w) \/ CommitRemove(w) \/ CommitUpdate(w)
    \/ CommitDelete(w) \/ CommitDeleteGenerated(w) \/ Fail(w)
    \/ \E K \in SUBSET PBIs : CommitDraft(w, K)

\* A transaction is a creation's first half, or answers its request.
LEMMA CommitCases ==
  ASSUME NEW w \in Workers, CommitNext(w) \/ Fail(w)
  PROVE  (\E s \in Sprints : CommitCreate(w, s)) \/ (Answered(w) /\ Answer(w))
BY DEF CommitNext, Fail, Answered, WritePoints, CommitStart, CommitComplete, CommitCancel,
       CommitSave, CommitDraft, CommitAdd, CommitRemove, CommitUpdate, CommitDelete,
       CommitDeleteGenerated

\* The transactions write the rows their requests named.
LEMMA CommitTypes ==
  ASSUME ReqTypes, NEW w \in Workers, Answered(w), Answer(w) PROVE ReqTypes'
<1>0. WorkersTyped /\ TypeOK /\ ItemsKnown
  BY DEF WorkersTyped, ReqTypes, RequestsTypeOK
<1>1. WorkersTyped'
  BY <1>0, AnswerTypes DEF Answer
<1> SUFFICES TypeOK' /\ ItemsKnown'
  BY <1>1 DEF ReqTypes, RequestsTypeOK, WorkersTyped
<1> DEFINE r == req[w]
<1>2. r \in Request /\ Carries(r)
  BY <1>0 DEF WorkersTyped
<1> USE <1>0, <1>2 DEF TypeOK, ItemsKnown, KnownPBIs, Request, Carries
<1>3. CASE CommitStart(w)
  BY <1>3 DEF CommitStart, StartWrites, StaleDrafts, ReinitBurndown, SyncGenerated,
       SprintStatuses, ItemStatuses, Absent
<1>4. CASE CommitComplete(w) \/ WritePoints(w)
  BY <1>4 DEF CommitComplete, CompleteWrites, SyncGenerated, SprintStatuses, WritePoints
<1>5. CASE CommitCancel(w)
  BY <1>5 DEF CommitCancel, CancelWrites, SyncGenerated, SprintStatuses, ItemStatuses, Absent
<1>6. CASE CommitSave(w)
  BY <1>6 DEF CommitSave, SaveWrites, OfSprint
<1>7. CASE \E K \in SUBSET PBIs : CommitDraft(w, K)
  BY <1>7 DEF CommitDraft, DraftWrites, OfSprint, SprintStatuses, WithGoal
<1>8. CASE CommitAdd(w)
  BY <1>8 DEF CommitAdd, ItemStatuses, Absent
<1>9. CASE CommitRemove(w)
  BY <1>9 DEF CommitRemove, RemoveWrites, ItemStatuses, Absent
<1>10. CASE CommitUpdate(w)
  BY <1>10 DEF CommitUpdate, ItemStatuses, Absent
<1>11. CASE CommitDelete(w)
  <2>1. \A i \in items' : i \in items /\ i[2] \in PBIs \ r.items
    BY <1>11 DEF CommitDelete
  <2>2. pbi' = [p \in PBIs |-> IF p \in r.items THEN Absent ELSE pbi[p]]
    BY <1>11 DEF CommitDelete
  <2>3. ItemsKnown'
    BY <2>1, <2>2
  <2>4. TypeOK'
    BY <1>11 DEF CommitDelete
  <2> QED
    BY <2>3, <2>4
<1>12. CASE CommitDeleteGenerated(w)
  BY <1>12 DEF CommitDeleteGenerated
<1>13. CASE Fail(w)
  BY <1>13 DEF Fail, vars
<1> QED
  BY <1>3, <1>4, <1>5, <1>6, <1>7, <1>8, <1>9, <1>10, <1>11, <1>12, <1>13 DEF Answered

\* A request handled in one step keeps the types as it does when it runs alone.
LEMMA AtomicTypes ==
  ASSUME ReqTypes, AtomicNext, UNCHANGED <<req, overlaps>> PROVE ReqTypes'
<1> USE DEF AtomicNext
<1>1. Next \/ \E g \in Gens : CreateGenerated(g)
  BY DEF Next, RunNext, BacklogNext, GeneratedNext
<1>2. TypeOK'
  <2>1. ASSUME NEW g \in Gens, CreateGenerated(g) PROVE TypeOK'
    BY <2>1 DEF CreateGenerated, ReqTypes, RequestsTypeOK, TypeOK, SprintStatuses
  <2> QED
    BY <1>1, <2>1, TypeStep DEF AnyNext, ReqTypes, RequestsTypeOK
<1>3. ItemsKnown'
  <2> USE DEF ReqTypes, RequestsTypeOK, TypeOK, ItemsKnown, KnownPBIs
  <2>1. CASE items' = items /\ pbi' = pbi
    BY <2>1
  <2>2. CASE \E p \in PBIs, st \in ItemStatuses : CreatePBI(p, st)
    BY <2>2 DEF CreatePBI, ItemStatuses, Absent
  <2> QED
    BY <2>1, <2>2 DEF StartRefusedAfterGoal, EventsChange, CreateTask, DeleteTask,
         GenerateSprintsForYear, CreateGenerated, UpdateGeneratedSprint
<1> QED
  BY <1>2, <1>3 DEF ReqTypes, RequestsTypeOK

\* Every step of every request keeps the types.
LEMMA ReqTypesStep == ReqTypes /\ [ReqNext]_allVars => ReqTypes'
<1> SUFFICES ASSUME ReqTypes, [ReqNext]_allVars PROVE ReqTypes'
  OBVIOUS
<1>1. ASSUME NEW w \in Workers, ValidateNext(w) PROVE ReqTypes'
  <2>1. /\ UNCHANGED <<status, items, tasks, burndown, pbi, link, genStatus, eventsDone>>
        /\ goals' = goals \/ \E s \in Sprints : goals' = goals \cup {s}
    BY <1>1, ValidateTypes
  <2>2. PICK r \in Request : Carries(r) /\ Take(w, r)
    BY <1>1, ValidateTypes
  <2>3. WorkersTyped'
    BY <2>1, <2>2, TakeTypes DEF WorkersTyped, ReqTypes, RequestsTypeOK
  <2> QED
    BY <2>1, <2>3 DEF ReqTypes, RequestsTypeOK, TypeOK, WorkersTyped, ItemsKnown, KnownPBIs
<1>2. ASSUME NEW w \in Workers, MaterialiseNext(w) PROVE ReqTypes'
  BY <1>2, MaterialiseTypes
<1>3. ASSUME NEW w \in Workers, CommitNext(w) \/ Fail(w) PROVE ReqTypes'
  BY <1>3, CommitCases, CreateTypes, CommitTypes
<1>4. CASE UNCHANGED allVars
  BY <1>4 DEF allVars, vars, ReqTypes, RequestsTypeOK, TypeOK, ItemsKnown, KnownPBIs, Carries
<1> QED
  BY <1>1, <1>2, <1>3, <1>4, AtomicTypes DEF ReqNext

-----------------------------------------------------------------------------
\* The strengthening of OneActiveUnlessStartsMeet: while no two starts have met, a
\* start past its checks is the only one, and the team still has no active Sprint.
StartsAlone ==
    "start" \notin overlaps =>
        /\ OneActiveSprint
        /\ \A w \in InFlight("start") : NoActiveSprint /\ InFlight("start") = {w}

\* Only the commit of a start makes a Sprint active.
OnlyStartsActivate ==
    \/ \E w \in InFlight("start") : CommitStart(w)
    \/ \A s \in Sprints : status'[s] = "ACTIVE" => status[s] = "ACTIVE"

\* What a step does to the statuses, by action.
LEMMA ActivateStep == ReqTypes /\ [ReqNext]_allVars => OnlyStartsActivate
<1> SUFFICES ASSUME ReqTypes, [ReqNext]_allVars PROVE OnlyStartsActivate
  OBVIOUS
<1> USE DEF OnlyStartsActivate, ReqTypes, RequestsTypeOK, TypeOK
<1>1. ASSUME NEW w \in Workers, ValidateNext(w) PROVE OnlyStartsActivate
  BY <1>1, ValidateTypes
<1>2. ASSUME NEW w \in Workers, MaterialiseNext(w) PROVE OnlyStartsActivate
  BY <1>2 DEF MaterialiseNext, ReadGenerated, CreateRow, PointsOfRow, LinkRow, vars, Carries,
       Planning
<1>3. ASSUME NEW w \in Workers, CommitNext(w) \/ Fail(w) PROVE OnlyStartsActivate
  BY <1>3 DEF CommitNext, Fail, InFlight, CommitStart, CommitComplete, CommitCancel, CommitSave,
       CommitDraft, CommitAdd, CommitRemove, CommitUpdate, CompleteWrites, CancelWrites, vars,
       CommitCreate, WritePoints, CommitDelete, CommitDeleteGenerated
<1>4. CASE AtomicNext
  BY <1>4 DEF AtomicNext, StartRefusedAfterGoal, EventsChange, CreateTask,
       DeleteTask, CreatePBI, GenerateSprintsForYear, CreateGenerated, UpdateGeneratedSprint
<1>5. CASE UNCHANGED allVars
  BY <1>5 DEF allVars, vars
<1> QED
  BY <1>1, <1>2, <1>3, <1>4, <1>5 DEF ReqNext

\* A start enters flight through its checks, and alone unless it meets another one.
StartEnters ==
    \/ InFlight("start")' \subseteq InFlight("start")
    \/ /\ NoActiveSprint /\ status' = status
       /\ \E w \in Workers :
             /\ InFlight("start")' \subseteq InFlight("start") \cup {w}
             /\ InFlight("start") \ {w} # {} => "start" \in overlaps'

\* A worker that takes up anything but a start adds none.
LEMMA NoStartEnters ==
  ASSUME req \in [Workers -> Request], NEW w \in Workers, NEW r \in Request, r.op # "start",
         req' = [req EXCEPT ![w] = r]
  PROVE  InFlight("start")' \subseteq InFlight("start")
BY DEF InFlight

\* How the set of starts in flight changes, by action.
LEMMA EnterStep ==
  ReqTypes /\ [ReqNext]_allVars => StartEnters /\ overlaps \subseteq overlaps'
<1> SUFFICES ASSUME ReqTypes, [ReqNext]_allVars
             PROVE  StartEnters /\ overlaps \subseteq overlaps'
  OBVIOUS
<1>0. req \in [Workers -> Request] /\ \A w \in Workers : Carries(req[w])
  BY DEF ReqTypes, RequestsTypeOK
<1>1. ASSUME NEW w \in Workers, NEW r \in Request, Take(w, r), r.op # "start"
      PROVE  StartEnters /\ overlaps \subseteq overlaps'
  BY <1>0, <1>1, NoStartEnters DEF Take, StartEnters
<1>2. ASSUME NEW w \in Workers, req' = [req EXCEPT ![w] = Idle], UNCHANGED overlaps
      PROVE  StartEnters /\ overlaps \subseteq overlaps'
  <2>1. Idle \in Request /\ Idle.op # "start"
    BY DEF Idle, Request, Args
  <2> QED
    BY <1>0, <1>2, <2>1, NoStartEnters DEF StartEnters
<1>3. ASSUME NEW w \in Workers, ValidateNext(w)
      PROVE  StartEnters /\ overlaps \subseteq overlaps'
  <2>1. PICK r \in Request : Take(w, r)
    BY <1>3, ValidateTypes
  <2>2. CASE r.op # "start"
    BY <1>1, <2>1, <2>2
  <2>3. CASE r.op = "start"
    <3>1. r = req'[w]
      BY <1>0, <2>1 DEF Take
    <3>2. PICK t \in Ids, s \in Sprints : ValidateStart(w, t, s)
      <4>1. SUFFICES ASSUME ~ \E t \in Ids, s \in Sprints : ValidateStart(w, t, s)
                     PROVE  req'[w].op # "start"
        BY <2>3, <3>1
      <4>2. \E q : q.op # "start" /\ Take(w, q)
        <5>1. ASSUME NEW s, ValidateComplete(w, s) \/ ValidateCancel(w, s)
              PROVE  \E q : q.op # "start" /\ Take(w, q)
          BY <5>1 DEF ValidateComplete, ValidateCancel, Idle
        <5>2. ASSUME NEW t, NEW s, NEW P, NEW T, NEW goal,
                     ValidateSave(w, t, s, P, T) \/ ValidateDraft(w, t, s, P, T, goal)
              PROVE  \E q : q.op # "start" /\ Take(w, q)
          BY <5>2 DEF ValidateSave, ValidateDraft, Idle
        <5>3. ASSUME NEW s, NEW p, NEW a,
                     \/ ValidateAdd(w, s, p) \/ ValidateRemove(w, s, p, a)
                     \/ ValidateUpdate(w, p, a) \/ ValidateDelete(w, p)
              PROVE  \E q : q.op # "start" /\ Take(w, q)
          BY <5>3 DEF ValidateAdd, ValidateRemove, ValidateUpdate, ValidateDelete, Idle
        <5>4. ASSUME NEW has, NEW g, ValidateCreate(w, has) \/ ValidateDeleteGenerated(w, g)
              PROVE  \E q : q.op # "start" /\ Take(w, q)
          BY <5>4 DEF ValidateCreate, ValidateDeleteGenerated, Idle
        <5> QED
          BY <1>3, <4>1, <5>1, <5>2, <5>3, <5>4 DEF ValidateNext
      <4> QED
        BY <1>0, <4>2 DEF Take
    <3>3. NoActiveSprint /\ status' = status
      BY <3>2 DEF ValidateStart
    <3>4. overlaps' = overlaps \cup (Suspects \cap {req[v].op : v \in Workers \ {w}})
      BY <2>1, <2>3 DEF Take, Meets
    <3>5. InFlight("start")' \subseteq InFlight("start") \cup {w}
      BY <1>0, <2>1 DEF Take, InFlight
    <3>6. InFlight("start") \ {w} # {} => "start" \in overlaps'
      BY <3>4 DEF InFlight, Suspects
    <3> QED
      BY <3>3, <3>4, <3>5, <3>6 DEF StartEnters
  <2> QED
    BY <2>2, <2>3
<1>4. ASSUME NEW w \in Workers, MaterialiseNext(w)
      PROVE  StartEnters /\ overlaps \subseteq overlaps'
  <2>1. CASE \E g \in Gens, P, T \in SUBSET PBIs, st \in Planning,
             next \in {"save", "draft", "start"} : ReadGenerated(w, g, st, next, P, T)
    <3>1. PICK g \in Gens, P \in SUBSET PBIs, T \in SUBSET PBIs, st \in Planning,
               next \in {"save", "draft", "start"} : ReadGenerated(w, g, st, next, P, T)
      BY <2>1
    <3> DEFINE r == [Idle EXCEPT !.op = "materialise", !.gen = g, !.was = st, !.arg = next,
                                 !.items = P, !.tasks = T]
    <3>2. r \in Request /\ r.op # "start"
      BY DEF Request, Kinds, Args, Idle
    <3>3. Take(w, r)
      BY <3>1 DEF ReadGenerated
    <3> QED
      BY <1>1, <3>2, <3>3
  <2>2. CASE \E s \in Sprints : CreateRow(w, s)
    <3>1. PICK s \in Sprints : CreateRow(w, s)
      BY <2>2
    <3> DEFINE r == [req[w] EXCEPT !.op = "row", !.sprint = s]
    <3>2. r \in Request /\ r.op # "start"
      BY <1>0 DEF Request, Kinds
    <3>3. Take(w, r)
      BY <3>1 DEF CreateRow
    <3> QED
      BY <1>1, <3>2, <3>3
  <2>3. ASSUME NEW goal \in GoalEdits, LinkRow(w, goal)
        PROVE  StartEnters /\ overlaps \subseteq overlaps'
    <3> DEFINE old == req[w]
               r == [Idle EXCEPT !.op = old.arg, !.sprint = old.sprint, !.items = old.items,
                                 !.tasks = old.tasks, !.arg = goal, !.was = old.was]
    <3>1. old \in Request /\ old.was \in Planning /\ old.arg \in {"save", "draft", "start"}
      BY <1>0, <2>3 DEF LinkRow, Carries
    <3>2. old.arg # "start" => r \in Request /\ r.op # "start"
      BY <3>1 DEF Request, Kinds, Args, Idle, GoalEdits
    <3>3. \/ Take(w, r) /\ old.arg # "start"
          \/ req' = [req EXCEPT ![w] = Idle] /\ UNCHANGED overlaps
      BY <2>3 DEF LinkRow
    <3> QED
      BY <1>1, <1>2, <3>2, <3>3
  <2>4. CASE PointsOfRow(w)
    <3> DEFINE r == [req[w] EXCEPT !.op = "link"]
    <3>1. r \in Request /\ r.op # "start"
      BY <1>0 DEF Request, Kinds
    <3>2. Take(w, r)
      BY <2>4 DEF PointsOfRow
    <3> QED
      BY <1>1, <3>1, <3>2
  <2> QED
    BY <1>4, <2>1, <2>2, <2>3, <2>4 DEF MaterialiseNext, Planning
<1>5. ASSUME NEW w \in Workers, CommitNext(w) \/ Fail(w)
      PROVE  StartEnters /\ overlaps \subseteq overlaps'
  <2>1. CASE Answer(w)
    BY <1>2, <2>1 DEF Answer
  <2>2. ASSUME NEW s \in Sprints, CommitCreate(w, s)
        PROVE  StartEnters /\ overlaps \subseteq overlaps'
    <3> DEFINE r == [Idle EXCEPT !.op = "points", !.sprint = s]
    <3>1. r \in Request /\ r.op # "start" /\ Take(w, r)
      BY <2>2 DEF CommitCreate, Request, Kinds, Args, Idle
    <3> QED
      BY <1>1, <3>1
  <2> QED
    BY <1>5, <2>1, <2>2, CommitCases
<1>6. CASE UNCHANGED <<req, overlaps>>
  BY <1>6 DEF StartEnters, InFlight
<1> QED
  BY <1>3, <1>4, <1>5, <1>6 DEF ReqNext, allVars

\* A start in flight alone stays alone, and the Sprint it commits becomes the only
\* active one.
LEMMA AloneStep == ReqTypes /\ StartsAlone /\ [ReqNext]_allVars => StartsAlone'
<1> SUFFICES ASSUME ReqTypes, StartsAlone, [ReqNext]_allVars, "start" \notin overlaps'
             PROVE  /\ OneActiveSprint'
                    /\ \A w \in InFlight("start")' :
                          NoActiveSprint' /\ InFlight("start")' = {w}
  BY DEF StartsAlone
<1>1. StartEnters /\ OnlyStartsActivate /\ "start" \notin overlaps
  BY EnterStep, ActivateStep
<1>2. OneActiveSprint /\ \A w \in InFlight("start") :
                            NoActiveSprint /\ InFlight("start") = {w}
  BY <1>1 DEF StartsAlone
<1>3. CASE \E w \in InFlight("start") : CommitStart(w)
  <2>1. PICK w \in InFlight("start") : CommitStart(w)
    BY <1>3
  <2>2. NoActiveSprint /\ InFlight("start") = {w}
    BY <1>2
  <2>3. InFlight("start")' = {}
    BY <2>1, <2>2 DEF CommitStart, Answer, InFlight, Idle, ReqTypes, RequestsTypeOK
  <2>4. OneActiveSprint'
    BY <2>1, <2>2 DEF CommitStart, StartWrites, StaleDrafts, ReinitBurndown, NoActiveSprint, OneActiveSprint, ReqTypes,
         RequestsTypeOK, TypeOK
  <2> QED
    BY <2>3, <2>4
<1>4. CASE \A s \in Sprints : status'[s] = "ACTIVE" => status[s] = "ACTIVE"
  <2>1. OneActiveSprint' /\ (NoActiveSprint => NoActiveSprint')
    BY <1>2, <1>4 DEF OneActiveSprint, NoActiveSprint
  <2>2. CASE InFlight("start")' \subseteq InFlight("start")
    BY <1>2, <2>1, <2>2
  <2>3. CASE /\ NoActiveSprint
             /\ \E w \in Workers :
                  /\ InFlight("start")' \subseteq InFlight("start") \cup {w}
                  /\ InFlight("start") \ {w} # {} => "start" \in overlaps'
    BY <2>1, <2>3
  <2> QED
    BY <1>1, <2>1, <2>2, <2>3 DEF StartEnters
<1> QED
  BY <1>1, <1>3, <1>4 DEF OnlyStartsActivate

-----------------------------------------------------------------------------
(* What a step may do to the requests in flight and to the rows.            *)

\* What holds when w's request comes to hold r: what it read, or what its earlier
\* statements left.
Entry(w, r) ==
    /\ r.op = "start" =>
          /\ status' = status /\ status[r.sprint] \in Planning
          /\ items' = items /\ r.items = Backlog(r.sprint)
          /\ ~Conflicts(r.sprint, r.items)
    /\ r.op \in {"complete", "cancel", "add"} =>
          status' = status /\ status[r.sprint] = "ACTIVE"
    /\ r.op \in {"save", "draft"} =>
          \/ status' = status /\ status[r.sprint] \in Planning
          \/ status' = status /\ req[w].op = "link" /\ r.sprint = req[w].sprint
    /\ r.op = "draft" => r.was = "DRAFT" \/ (status' = status /\ status[r.sprint] = r.was)
    /\ r.op = "materialise" =>
          /\ UNCHANGED <<genStatus, link>> /\ link[r.gen] = NoSprint
          /\ r.arg = "draft" => r.was = "DRAFT"
    /\ r.op \in {"row", "link"} =>
          /\ r.gen = req[w].gen /\ r.arg = req[w].arg /\ r.was = req[w].was
          /\ UNCHANGED <<genStatus, link>>
    /\ r.op = "row" =>
          req[w].op = "materialise" /\ status' = [status EXCEPT ![r.sprint] = r.was]
    /\ r.op = "link" =>
          req[w].op = "row" /\ r.sprint = req[w].sprint /\ status' = status

\* A request that asks for a draft wants its new Sprint to be one.
DraftsAsk ==
    \A w \in Workers :
        req[w].op \in {"materialise", "row", "link"} /\ req[w].arg = "draft" =>
            req[w].was = "DRAFT"

\* What the step does to the requests: nothing, an answer, or one that enters.
RequestsMove ==
    \/ UNCHANGED <<req, overlaps>>
    \/ \E w \in Workers : Answer(w)
    \/ \E w \in Workers, r \in Request : Carries(r) /\ Take(w, r) /\ Entry(w, r)

\* What a validation read is in the record it takes.
LEMMA ValidateEntry ==
  ASSUME ReqTypes, NEW w \in Workers, ValidateNext(w)
  PROVE  \E r \in Request : Carries(r) /\ Take(w, r) /\ Entry(w, r)
<1>1. PICK r \in Request : Carries(r) /\ Take(w, r)
  BY ValidateTypes
<1>2. UNCHANGED <<status, items, link, genStatus>>
  BY ValidateTypes
<1>3. req'[w] = r
  BY <1>1 DEF Take, ReqTypes, RequestsTypeOK
<1>4. SUFFICES Entry(w, r)
  BY <1>1
<1>5. ASSUME NEW q, Take(w, q) PROVE q = r
  BY <1>3, <1>5 DEF Take, ReqTypes, RequestsTypeOK
<1> HIDE DEF Take
<1>6. ASSUME NEW has, ValidateCreate(w, has) PROVE Entry(w, r)
  <2> DEFINE q == [Idle EXCEPT !.op = "create", !.arg = IF has THEN "set" ELSE "blank"]
  <2>1. q = r
    BY <1>5, <1>6 DEF ValidateCreate
  <2>2. q.op = "create"
    BY DEF Idle
  <2> QED
    BY <2>1, <2>2 DEF Entry
<1>7. ASSUME NEW t, NEW s, ValidateStart(w, t, s) PROVE Entry(w, r)
  <2> DEFINE q == [Idle EXCEPT !.op = "start", !.sprint = s, !.items = Backlog(s)]
  <2>1. q = r
    BY <1>5, <1>7 DEF ValidateStart
  <2>2. q.op = "start" /\ q.sprint = s /\ q.items = Backlog(s)
    BY DEF Idle
  <2> QED
    BY <1>2, <1>7, <2>1, <2>2 DEF Entry, ValidateStart
<1>8. ASSUME NEW s, ValidateComplete(w, s) PROVE Entry(w, r)
  <2> DEFINE q == [Idle EXCEPT !.op = "complete", !.sprint = s]
  <2>1. q = r
    BY <1>5, <1>8 DEF ValidateComplete
  <2>2. q.op = "complete" /\ q.sprint = s
    BY DEF Idle
  <2> QED
    BY <1>2, <1>8, <2>1, <2>2 DEF Entry, ValidateComplete
<1>9. ASSUME NEW s, ValidateCancel(w, s) PROVE Entry(w, r)
  <2> DEFINE q == [Idle EXCEPT !.op = "cancel", !.sprint = s, !.items = Backlog(s)]
  <2>1. q = r
    BY <1>5, <1>9 DEF ValidateCancel
  <2>2. q.op = "cancel" /\ q.sprint = s
    BY DEF Idle
  <2> QED
    BY <1>2, <1>9, <2>1, <2>2 DEF Entry, ValidateCancel
<1>10. ASSUME NEW t, NEW s, NEW P, NEW T, ValidateSave(w, t, s, P, T) PROVE Entry(w, r)
  <2> DEFINE q == [Idle EXCEPT !.op = "save", !.sprint = s, !.items = P, !.tasks = T]
  <2>1. q = r
    BY <1>5, <1>10 DEF ValidateSave
  <2>2. q.op = "save" /\ q.sprint = s
    BY DEF Idle
  <2> QED
    BY <1>2, <1>10, <2>1, <2>2 DEF Entry, ValidateSave
<1>11. ASSUME NEW t, NEW s, NEW P, NEW T, NEW goal, ValidateDraft(w, t, s, P, T, goal)
       PROVE  Entry(w, r)
  <2> DEFINE q == [Idle EXCEPT !.op = "draft", !.sprint = s, !.items = P, !.tasks = T,
                               !.arg = goal, !.was = status[s]]
  <2>1. q = r
    BY <1>5, <1>11 DEF ValidateDraft
  <2>2. q.op = "draft" /\ q.sprint = s /\ q.was = status[s]
    BY DEF Idle
  <2> QED
    BY <1>2, <1>11, <2>1, <2>2 DEF Entry, ValidateDraft
<1>12. ASSUME NEW s, NEW p, ValidateAdd(w, s, p) PROVE Entry(w, r)
  <2> DEFINE q == [Idle EXCEPT !.op = "add", !.sprint = s, !.items = {p}]
  <2>1. q = r
    BY <1>5, <1>12 DEF ValidateAdd
  <2>2. q.op = "add" /\ q.sprint = s
    BY DEF Idle
  <2> QED
    BY <1>2, <1>12, <2>1, <2>2 DEF Entry, ValidateAdd
<1>13. ASSUME NEW s, NEW p, NEW a, ValidateRemove(w, s, p, a) PROVE Entry(w, r)
  <2> DEFINE q == [Idle EXCEPT !.op = "remove", !.sprint = s, !.items = {p},
                               !.arg = a, !.was = pbi[p]]
  <2>1. q = r
    BY <1>5, <1>13 DEF ValidateRemove
  <2>2. q.op = "remove"
    BY DEF Idle
  <2> QED
    BY <2>1, <2>2 DEF Entry
<1>14. ASSUME NEW p, NEW st, ValidateUpdate(w, p, st) PROVE Entry(w, r)
  <2> DEFINE q == [Idle EXCEPT !.op = "update", !.items = {p}, !.arg = st]
  <2>1. q = r
    BY <1>5, <1>14 DEF ValidateUpdate
  <2>2. q.op = "update"
    BY DEF Idle
  <2> QED
    BY <2>1, <2>2 DEF Entry
<1>15. ASSUME NEW p, ValidateDelete(w, p) PROVE Entry(w, r)
  <2> DEFINE q == [Idle EXCEPT !.op = "delete", !.items = {p}]
  <2>1. q = r
    BY <1>5, <1>15 DEF ValidateDelete
  <2>2. q.op = "delete"
    BY DEF Idle
  <2> QED
    BY <2>1, <2>2 DEF Entry
<1>16. ASSUME NEW g, ValidateDeleteGenerated(w, g) PROVE Entry(w, r)
  <2> DEFINE q == [Idle EXCEPT !.op = "delete generated", !.gen = g]
  <2>1. q = r
    BY <1>5, <1>16 DEF ValidateDeleteGenerated
  <2>2. q.op = "delete generated"
    BY DEF Idle
  <2> QED
    BY <2>1, <2>2 DEF Entry
<1> QED
  BY <1>6, <1>7, <1>8, <1>9, <1>10, <1>11, <1>12, <1>13, <1>14, <1>15, <1>16 DEF ValidateNext

\* The four statements of a materialisation hand the payload on.
LEMMA MaterialiseEntry ==
  ASSUME ReqTypes, DraftsAsk, NEW w \in Workers, MaterialiseNext(w)
  PROVE  \/ Answer(w)
         \/ \E r \in Request : Carries(r) /\ Take(w, r) /\ Entry(w, r)
<1>0. req \in [Workers -> Request] /\ Carries(req[w])
  BY DEF ReqTypes, RequestsTypeOK
<1>1. ASSUME NEW g \in Gens, NEW P \in SUBSET PBIs, NEW T \in SUBSET PBIs, NEW st \in Planning,
             NEW next \in {"save", "draft", "start"}, ReadGenerated(w, g, st, next, P, T),
             next = "draft" => st = "DRAFT"
      PROVE  \E r \in Request : Carries(r) /\ Take(w, r) /\ Entry(w, r)
  <2> DEFINE r == [Idle EXCEPT !.op = "materialise", !.gen = g, !.was = st, !.arg = next,
                               !.items = P, !.tasks = T]
  <2>1. r \in Request /\ Carries(r)
    BY DEF Request, Kinds, Args, Idle, Carries
  <2>2. Take(w, r) /\ UNCHANGED <<genStatus, link>> /\ link[g] = NoSprint
    BY <1>1 DEF ReadGenerated, vars
  <2>3. r.op = "materialise" /\ r.gen = g /\ r.arg = next /\ r.was = st
    BY DEF Idle
  <2>4. Entry(w, r)
    BY <1>1, <2>2, <2>3 DEF Entry
  <2> QED
    BY <2>1, <2>2, <2>4
<1>2. ASSUME NEW s \in Sprints, CreateRow(w, s)
      PROVE  \E r \in Request : Carries(r) /\ Take(w, r) /\ Entry(w, r)
  <2> DEFINE r == [req[w] EXCEPT !.op = "row", !.sprint = s]
  <2>1. r \in Request /\ Carries(r)
    BY <1>0, <1>2 DEF Request, Kinds, Carries, CreateRow
  <2>2. /\ Take(w, r) /\ UNCHANGED <<genStatus, link>>
        /\ req[w].op = "materialise" /\ status' = [status EXCEPT ![s] = req[w].was]
    BY <1>2 DEF CreateRow
  <2>3. /\ r.op = "row" /\ r.sprint = s /\ r.gen = req[w].gen
        /\ r.arg = req[w].arg /\ r.was = req[w].was
    BY <1>0 DEF Request
  <2>4. Entry(w, r)
    BY <2>2, <2>3 DEF Entry
  <2> QED
    BY <2>1, <2>2, <2>4
<1>3. ASSUME NEW goal \in GoalEdits, LinkRow(w, goal)
      PROVE  \/ Answer(w)
             \/ \E r \in Request : Carries(r) /\ Take(w, r) /\ Entry(w, r)
  <2> DEFINE old == req[w]
             r == [Idle EXCEPT !.op = old.arg, !.sprint = old.sprint, !.items = old.items,
                               !.tasks = old.tasks, !.arg = goal, !.was = old.was]
  <2>1. /\ old \in Request /\ old.sprint \in Sprints /\ old.op = "link" /\ status' = status
        /\ old.was \in Planning /\ old.arg \in {"save", "draft", "start"}
        /\ old.arg = "draft" => old.was = "DRAFT"
    BY <1>0, <1>3 DEF LinkRow, Carries, DraftsAsk
  <2>2. CASE Take(w, r) /\ old.arg # "start"
    <3>1. r \in Request /\ Carries(r)
      BY <2>1, <2>2 DEF Request, Kinds, Args, Idle, Carries, GoalEdits
    <3>2. r.op = old.arg /\ r.sprint = old.sprint /\ r.was = old.was
      BY DEF Idle
    <3>3. Entry(w, r)
      BY <2>1, <2>2, <3>2 DEF Entry
    <3> QED
      BY <2>2, <3>1, <3>3
  <2>3. CASE req' = [req EXCEPT ![w] = Idle] /\ UNCHANGED overlaps
    BY <2>3 DEF Answer
  <2> QED
    BY <1>3, <2>2, <2>3 DEF LinkRow
<1>4. CASE PointsOfRow(w)
  <2> DEFINE r == [req[w] EXCEPT !.op = "link"]
  <2>1. r \in Request /\ Carries(r)
    BY <1>0, <1>4 DEF Request, Kinds, Carries, PointsOfRow
  <2>2. Take(w, r) /\ UNCHANGED <<status, genStatus, link>> /\ req[w].op = "row"
    BY <1>4 DEF PointsOfRow
  <2>3. /\ r.op = "link" /\ r.sprint = req[w].sprint /\ r.gen = req[w].gen
        /\ r.arg = req[w].arg /\ r.was = req[w].was
    BY <1>0 DEF Request
  <2>4. Entry(w, r)
    BY <2>2, <2>3 DEF Entry
  <2> QED
    BY <2>1, <2>2, <2>4
<1> QED
  BY <1>1, <1>2, <1>3, <1>4 DEF MaterialiseNext, Planning

\* Every step's effect on the requests.
LEMMA RequestsStep ==
  ReqTypes /\ DraftsAsk /\ [ReqNext]_allVars => RequestsMove /\ overlaps \subseteq overlaps'
<1> SUFFICES ASSUME ReqTypes, DraftsAsk, [ReqNext]_allVars PROVE RequestsMove
  BY EnterStep
<1>1. ASSUME NEW w \in Workers, ValidateNext(w) PROVE RequestsMove
  BY <1>1, ValidateEntry DEF RequestsMove
<1>2. ASSUME NEW w \in Workers, MaterialiseNext(w) PROVE RequestsMove
  BY <1>2, MaterialiseEntry DEF RequestsMove
<1>3. ASSUME NEW w \in Workers, NEW s \in Sprints, CommitCreate(w, s) PROVE RequestsMove
  <2> DEFINE r == [Idle EXCEPT !.op = "points", !.sprint = s]
  <2>1. r \in Request /\ Carries(r) /\ Take(w, r)
    BY <1>3 DEF CommitCreate, Request, Kinds, Args, Idle, Carries
  <2>2. r.op = "points"
    BY DEF Idle
  <2>3. Entry(w, r)
    BY <2>2 DEF Entry
  <2> QED
    BY <2>1, <2>3 DEF RequestsMove
<1>4. ASSUME NEW w \in Workers, CommitNext(w) \/ Fail(w) PROVE RequestsMove
  BY <1>3, <1>4, CommitCases DEF RequestsMove
<1> QED
  BY <1>1, <1>2, <1>4 DEF ReqNext, RequestsMove, allVars

\* The request that was asked stays, or is a new one.
LEMMA DraftsAskStep == ReqTypes /\ DraftsAsk /\ [ReqNext]_allVars => DraftsAsk'
<1> SUFFICES ASSUME ReqTypes, DraftsAsk, [ReqNext]_allVars PROVE DraftsAsk'
  OBVIOUS
<1>0. req \in [Workers -> Request] /\ RequestsMove
  BY RequestsStep DEF ReqTypes, RequestsTypeOK
<1>1. CASE UNCHANGED req
  BY <1>1 DEF DraftsAsk
<1>2. ASSUME NEW w \in Workers, Answer(w) PROVE DraftsAsk'
  BY <1>0, <1>2 DEF DraftsAsk, Answer, Idle
<1>3. ASSUME NEW w \in Workers, NEW r \in Request, Take(w, r), Entry(w, r) PROVE DraftsAsk'
  <2>1. r.op \in {"materialise", "row", "link"} /\ r.arg = "draft" => r.was = "DRAFT"
    BY <1>3 DEF Entry, DraftsAsk
  <2>2. req' = [req EXCEPT ![w] = r]
    BY <1>3 DEF Take
  <2> QED
    BY <1>0, <2>1, <2>2 DEF DraftsAsk
<1> QED
  BY <1>0, <1>1, <1>2, <1>3 DEF RequestsMove

\* The generated Sprints go, or are made anew while no request holds their id.
Regenerated ==
    \A g \in Gens :
        \/ genStatus'[g] = genStatus[g] /\ link'[g] = link[g]
        \/ genStatus'[g] = Absent /\ link'[g] = NoSprint
        \/ /\ genStatus'[g] = "PLANNED" /\ link'[g] = NoSprint
           /\ \A w \in Workers : req[w].gen # g

StartsOf(w) ==
    /\ req[w].op = "start" /\ Answer(w)
    /\ status' = [status EXCEPT ![req[w].sprint] = "ACTIVE"]
    /\ SyncGenerated(req[w].sprint, "ACTIVE") /\ UNCHANGED link
    /\ items' = items \ StaleDrafts(req[w].sprint, req[w].items)

EndsOf(w, st) ==
    /\ \/ req[w].op = "complete" /\ st = "COMPLETED"
       \/ req[w].op = "cancel" /\ st = "CANCELLED"
    /\ status' = [status EXCEPT ![req[w].sprint] = st]
    /\ SyncGenerated(req[w].sprint, st) /\ UNCHANGED link

DraftsOf(w) ==
    /\ req[w].op = "draft" /\ req[w].was = "PLANNED"
    /\ status' = [status EXCEPT ![req[w].sprint] = "DRAFT"]
    /\ UNCHANGED <<genStatus, link>>

CreatedAs(s, st) ==
    /\ ~Exists(s) /\ status' = [status EXCEPT ![s] = st] /\ items' = items
    /\ UNCHANGED <<genStatus, link>>

LinksOf(w) ==
    /\ req[w].op = "link" /\ Generated(req[w].gen)
    /\ link' = [link EXCEPT ![req[w].gen] = req[w].sprint]
    /\ UNCHANGED <<status, genStatus>>

\* What a step does to the statuses and the links.
RowsMove ==
    \/ UNCHANGED status /\ Regenerated
    \/ \E s \in Sprints, st \in Planning : CreatedAs(s, st)
    \/ \E w \in Workers : StartsOf(w) \/ DraftsOf(w) \/ LinksOf(w)
    \/ \E w \in Workers, st \in Finished : EndsOf(w, st)

\* What a step does to the backlogs: only saves, drafts and additions add.
BacklogsMove ==
    \/ items' \subseteq items
    \/ \E w \in Workers :
          /\ req[w].op \in {"save", "draft", "add"} /\ req[w].sprint \in Sprints
          /\ UNCHANGED status \/ DraftsOf(w)
          /\ items' \subseteq items \cup OfSprint(req[w].sprint)

\* Every step's effect on the rows.
LEMMA RowsStep == ReqTypes /\ [ReqNext]_allVars => RowsMove /\ BacklogsMove
<1> SUFFICES ASSUME ReqTypes, [ReqNext]_allVars PROVE RowsMove /\ BacklogsMove
  OBVIOUS
<1>0. UNCHANGED <<genStatus, link>> => Regenerated
  BY DEF Regenerated
<1>1. ASSUME UNCHANGED <<status, genStatus, link, items>> PROVE RowsMove /\ BacklogsMove
  BY <1>0, <1>1 DEF RowsMove, BacklogsMove
<1>2. ASSUME NEW w \in Workers, ValidateNext(w) PROVE RowsMove /\ BacklogsMove
  BY <1>1, <1>2, ValidateTypes
<1>3. ASSUME NEW w \in Workers, MaterialiseNext(w) PROVE RowsMove /\ BacklogsMove
  <2>1. ASSUME NEW g, NEW st, NEW next, NEW P, NEW T, ReadGenerated(w, g, st, next, P, T)
        PROVE  RowsMove /\ BacklogsMove
    BY <1>1, <2>1 DEF ReadGenerated, vars
  <2>2. ASSUME NEW s \in Sprints, CreateRow(w, s) PROVE RowsMove /\ BacklogsMove
    <3>1. req[w].was \in Planning
      BY <2>2 DEF CreateRow, ReqTypes, Carries
    <3>2. CreatedAs(s, req[w].was)
      BY <2>2 DEF CreateRow, CreatedAs
    <3> QED
      BY <3>1, <3>2 DEF RowsMove, BacklogsMove, CreatedAs
  <2>3. ASSUME NEW goal, LinkRow(w, goal) PROVE RowsMove /\ BacklogsMove
    <3>1. LinksOf(w) /\ items' = items
      BY <2>3 DEF LinkRow, LinksOf
    <3> QED
      BY <3>1 DEF RowsMove, BacklogsMove
  <2>4. CASE PointsOfRow(w)
    BY <1>1, <2>4 DEF PointsOfRow
  <2> QED
    BY <1>3, <2>1, <2>2, <2>3, <2>4 DEF MaterialiseNext
<1>4. ASSUME NEW w \in Workers, CommitNext(w) \/ Fail(w) PROVE RowsMove /\ BacklogsMove
  <2>0. Carries(req[w])
    BY DEF ReqTypes
  <2>1. CASE CommitStart(w)
    <3>1. StartsOf(w)
      BY <2>1 DEF CommitStart, StartWrites, StartsOf
    <3> QED
      BY <3>1 DEF RowsMove, BacklogsMove, StartsOf
  <2>2. CASE CommitComplete(w)
    <3>1. EndsOf(w, "COMPLETED") /\ items' = items
      BY <2>2 DEF CommitComplete, CompleteWrites, EndsOf
    <3> QED
      BY <3>1 DEF RowsMove, BacklogsMove, Finished
  <2>3. CASE CommitCancel(w)
    <3>1. EndsOf(w, "CANCELLED") /\ items' \subseteq items
      BY <2>3 DEF CommitCancel, CancelWrites, EndsOf
    <3> QED
      BY <3>1 DEF RowsMove, BacklogsMove, Finished
  <2>4. CASE CommitSave(w)
    <3>1. /\ req[w].op = "save" /\ UNCHANGED <<status, genStatus, link>>
          /\ req[w].items \in SUBSET PBIs
          /\ items' = (items \ OfSprint(req[w].sprint)) \cup ({req[w].sprint} \X req[w].items)
      BY <2>4 DEF CommitSave, SaveWrites, KnownPBIs
    <3>2. items' \subseteq items \cup OfSprint(req[w].sprint)
      BY <3>1 DEF OfSprint
    <3> QED
      BY <1>0, <2>0, <3>1, <3>2 DEF RowsMove, BacklogsMove, Carries
  <2>5. ASSUME NEW K, CommitDraft(w, K) PROVE RowsMove /\ BacklogsMove
    <3>1. /\ req[w].op = "draft" /\ UNCHANGED <<genStatus, link>>
          /\ req[w].items \in SUBSET PBIs
          /\ items' = (items \ OfSprint(req[w].sprint)) \cup ({req[w].sprint} \X req[w].items)
      BY <2>5 DEF CommitDraft, DraftWrites, KnownPBIs
    <3>2. items' \subseteq items \cup OfSprint(req[w].sprint)
      BY <3>1 DEF OfSprint
    <3>3. UNCHANGED status \/ DraftsOf(w)
      BY <2>5, <3>1 DEF CommitDraft, DraftsOf
    <3>4. RowsMove
      BY <1>0, <3>1, <3>3 DEF RowsMove
    <3> QED
      BY <2>0, <3>1, <3>2, <3>3, <3>4 DEF BacklogsMove, Carries
  <2>6. CASE CommitAdd(w)
    <3>1. /\ req[w].op = "add" /\ UNCHANGED <<status, genStatus, link>>
          /\ req[w].items \in SUBSET PBIs
          /\ items' = items \cup ({req[w].sprint} \X req[w].items)
      BY <2>6 DEF CommitAdd, KnownPBIs
    <3>2. items' \subseteq items \cup OfSprint(req[w].sprint)
      BY <3>1 DEF OfSprint
    <3> QED
      BY <1>0, <2>0, <3>1, <3>2 DEF RowsMove, BacklogsMove, Carries
  <2>7. CASE CommitRemove(w) \/ CommitUpdate(w) \/ CommitDelete(w) \/ WritePoints(w) \/ Fail(w)
    <3>1. UNCHANGED <<status, genStatus, link>> /\ items' \subseteq items
      BY <2>7 DEF CommitRemove, RemoveWrites, CommitUpdate, CommitDelete, WritePoints, Fail, vars
    <3> QED
      BY <1>0, <3>1 DEF RowsMove, BacklogsMove
  <2>8. CASE CommitDeleteGenerated(w)
    <3>1. /\ UNCHANGED <<status, items>>
          /\ genStatus' = [genStatus EXCEPT ![req[w].gen] = Absent]
          /\ link' = [link EXCEPT ![req[w].gen] = NoSprint]
      BY <2>8 DEF CommitDeleteGenerated
    <3>2. Regenerated
      BY <3>1 DEF Regenerated, ReqTypes, RequestsTypeOK, TypeOK
    <3> QED
      BY <3>1, <3>2 DEF RowsMove, BacklogsMove
  <2>9. ASSUME NEW s \in Sprints, CommitCreate(w, s) PROVE RowsMove /\ BacklogsMove
    <3>1. CreatedAs(s, "PLANNED")
      BY <2>9 DEF CommitCreate, CreatedAs
    <3> QED
      BY <3>1 DEF RowsMove, BacklogsMove, Planning, CreatedAs
  <2> QED
    BY <1>4, <2>1, <2>2, <2>3, <2>4, <2>5, <2>6, <2>7, <2>8, <2>9 DEF CommitNext
<1>5. CASE AtomicNext
  <2>1. CASE UNCHANGED <<status, genStatus, link, items>>
    BY <1>1, <2>1
  <2>2. CASE GenerateSprintsForYear({})
    <3>1. Regenerated
      BY <2>2 DEF GenerateSprintsForYear, Regenerated
    <3> QED
      BY <2>2, <3>1 DEF GenerateSprintsForYear, RowsMove, BacklogsMove
  <2>3. ASSUME NEW g \in Gens, CreateGenerated(g), \A w \in Workers : req[w].gen # g
        PROVE  RowsMove /\ BacklogsMove
    <3>1. Regenerated
      BY <2>3 DEF CreateGenerated, Regenerated, ReqTypes, RequestsTypeOK, TypeOK
    <3> QED
      BY <2>3, <3>1 DEF CreateGenerated, RowsMove, BacklogsMove
  <2> QED
    BY <1>5, <2>1, <2>2, <2>3 DEF AtomicNext, StartRefusedAfterGoal, EventsChange, CreateTask,
         DeleteTask, CreatePBI, UpdateGeneratedSprint
<1>6. CASE UNCHANGED allVars
  BY <1>1, <1>6 DEF allVars, vars
<1> QED
  BY <1>2, <1>3, <1>4, <1>5, <1>6 DEF ReqNext

-----------------------------------------------------------------------------
(* StartedStaysUnlessRaced                                                  *)

Running == {"ACTIVE"} \cup Finished

\* While no start met a start or a draft save, what a request that will write the
\* status has read is still so, or has moved on in the same direction.
Ordered(r) ==
    /\ r.op = "draft" /\ r.was = "PLANNED" => status[r.sprint] \in Planning
    /\ r.op = "start" => status[r.sprint] \in Planning /\ InFlight("draft") = {}
    /\ r.op \in {"complete", "cancel"} => status[r.sprint] \in Running

InOrder ==
    overlaps \cap {"start", "draft"} = {} => \A w \in Workers : Ordered(req[w])

\* A Sprint leaves planning by the commit of its start, and never comes back.
LEMMA StatusFollows ==
  ASSUME ReqTypes, RowsMove, \A w \in Workers : Ordered(req[w]), NEW s \in Sprints
  PROVE  /\ status[s] \in Running => status'[s] \in Running
         /\ status[s] \in Finished => status'[s] \in Finished
         /\ \/ status[s] \in Planning => status'[s] \in Planning
            \/ \E w \in InFlight("start") : Answer(w)
<1> USE DEF Running, Planning, Finished
<1>0. status \in [Sprints -> SprintStatuses \cup {Absent}]
  BY DEF ReqTypes, RequestsTypeOK, TypeOK
<1>1. CASE UNCHANGED status
  BY <1>1
<1>2. ASSUME NEW q \in Sprints, NEW st \in Planning, CreatedAs(q, st)
      PROVE  /\ status[s] \in Running \cup Planning => status'[s] = status[s]
  BY <1>0, <1>2 DEF CreatedAs, Exists, Absent
<1>3. ASSUME NEW w \in Workers, StartsOf(w)
      PROVE  /\ status[s] \in Running => status'[s] = status[s]
             /\ w \in InFlight("start") /\ Answer(w)
  BY <1>0, <1>3 DEF StartsOf, Ordered, InFlight
<1>4. ASSUME NEW w \in Workers, DraftsOf(w)
      PROVE  /\ status[s] \in Running => status'[s] = status[s]
             /\ status[s] \in Planning => status'[s] \in Planning
  BY <1>0, <1>4 DEF DraftsOf, Ordered
<1>5. ASSUME NEW w \in Workers, NEW st \in Finished, EndsOf(w, st)
      PROVE  /\ status[s] \in Running => status'[s] \in Running
             /\ status[s] \in Finished => status'[s] \in Finished
             /\ status[s] \in Planning => status'[s] = status[s]
  BY <1>0, <1>5 DEF EndsOf, Ordered
<1> QED
  BY <1>1, <1>2, <1>3, <1>4, <1>5 DEF RowsMove, LinksOf

\* A suspect that enters beside a start is noted, and one that has left is not seen
\* again.
LEMMA SuspectEnters ==
  ASSUME ReqTypes, RequestsMove, NEW op \in Suspects, op # "start", op \notin overlaps',
         NEW v \in InFlight("start"), req'[v] = req[v]
  PROVE  InFlight(op)' \subseteq InFlight(op)
<1>0. req \in [Workers -> Request] /\ v \in Workers /\ op # "idle"
  BY DEF ReqTypes, RequestsTypeOK, InFlight, Suspects
<1>1. CASE UNCHANGED <<req, overlaps>>
  BY <1>1 DEF InFlight
<1>2. ASSUME NEW w \in Workers, Answer(w) PROVE InFlight(op)' \subseteq InFlight(op)
  <2>1. Idle.op = "idle"
    BY DEF Idle
  <2> QED
    BY <1>0, <1>2, <2>1 DEF InFlight, Answer
<1>3. ASSUME NEW w \in Workers, NEW r \in Request, Take(w, r), Entry(w, r)
      PROVE  InFlight(op)' \subseteq InFlight(op)
  <2>1. CASE r.op # op
    BY <1>0, <1>3, <2>1 DEF Take, InFlight
  <2>2. CASE r.op = op
    <3>1. req'[w] = r
      BY <1>0, <1>3 DEF Take
    <3>2. w # v
      BY <2>2, <3>1 DEF InFlight
    <3>3. op \in Meets(w, r.op)
      BY <2>2, <3>2 DEF Meets
    <3> QED
      BY <1>3, <3>3 DEF Take
  <2> QED
    BY <2>1, <2>2
<1> QED
  BY <1>1, <1>2, <1>3 DEF RequestsMove

\* A start that enters meets no suspect, unless it is noted.
LEMMA StartMeets ==
  ASSUME ReqTypes, NEW w \in Workers, NEW r \in Request, Take(w, r), r.op = "start",
         NEW op \in Suspects, op \notin overlaps', op # "start"
  PROVE  InFlight(op)' = {}
<1>1. req' = [req EXCEPT ![w] = r] /\ op \notin {req[v].op : v \in Workers \ {w}}
  BY DEF Take, Meets
<1> QED
  BY <1>1 DEF InFlight, ReqTypes, RequestsTypeOK

\* InOrder is kept.
LEMMA InOrderStep ==
  ReqTypes /\ DraftsAsk /\ StartsAlone /\ InOrder /\ [ReqNext]_allVars => InOrder'
<1> SUFFICES ASSUME ReqTypes, DraftsAsk, StartsAlone, InOrder, [ReqNext]_allVars,
                    overlaps' \cap {"start", "draft"} = {}, NEW v \in Workers
             PROVE  Ordered(req[v])'
  BY DEF InOrder
<1>1. RequestsMove /\ RowsMove /\ overlaps \subseteq overlaps'
  BY RequestsStep, RowsStep
<1>2. \A w \in Workers : Ordered(req[w])
  BY <1>1 DEF InOrder
<1>3. req \in [Workers -> Request] /\ Carries(req[v])
  BY DEF ReqTypes, RequestsTypeOK
<1>4. CASE req'[v] = req[v]
  <2> DEFINE s == req[v].sprint
  <2>1. CASE req[v].op = "draft" /\ req[v].was = "PLANNED"
    <3>1. s \in Sprints /\ status[s] \in Planning
      BY <1>2, <1>3, <2>1 DEF Carries, Ordered
    <3>2. InFlight("start") = {}
      BY <1>2, <2>1 DEF Ordered, InFlight
    <3>3. status'[s] \in Planning
      BY <1>1, <1>2, <3>1, <3>2, StatusFollows
    <3> QED
      BY <1>4, <2>1, <3>3 DEF Ordered
  <2>2. CASE req[v].op = "start"
    <3>1. s \in Sprints /\ status[s] \in Planning /\ InFlight("draft") = {} /\ v \in InFlight("start")
      BY <1>2, <1>3, <2>2 DEF Carries, Ordered, InFlight
    <3>2. ~ Answer(v)
      <4>1. Idle.op # "start"
        BY DEF Idle
      <4> QED
        BY <1>3, <1>4, <2>2, <4>1 DEF Answer
    <3>3. InFlight("start") = {v}
      BY <1>1, <3>1 DEF StartsAlone
    <3>4. status'[s] \in Planning
      BY <1>1, <1>2, <3>1, <3>2, <3>3, StatusFollows
    <3>5. InFlight("draft")' = {}
      BY <1>1, <1>4, <3>1, SuspectEnters DEF Suspects
    <3> QED
      BY <1>4, <2>2, <3>4, <3>5 DEF Ordered
  <2>3. CASE req[v].op \in {"complete", "cancel"}
    <3>1. s \in Sprints /\ status[s] \in Running
      BY <1>2, <1>3, <2>3 DEF Carries, Ordered
    <3>2. status'[s] \in Running
      BY <1>1, <1>2, <3>1, StatusFollows
    <3> QED
      BY <1>4, <2>3, <3>2 DEF Ordered
  <2> QED
    BY <1>4, <2>1, <2>2, <2>3 DEF Ordered
<1>5. CASE req'[v] = Idle
  <2>1. Idle.op = "idle"
    BY DEF Idle
  <2>2. req'[v].op = "idle"
    BY <1>5, <2>1
  <2> QED
    BY <2>2 DEF Ordered
<1>6. ASSUME NEW r \in Request, Take(v, r), Entry(v, r) PROVE Ordered(req[v])'
  <2>1. req'[v] = r
    BY <1>3, <1>6 DEF Take
  <2>2. r.op = "draft" /\ r.was = "PLANNED" => status'[r.sprint] \in Planning
    BY <1>6 DEF Entry, Planning
  <2>3. r.op \in {"complete", "cancel"} => status'[r.sprint] \in Running
    BY <1>6 DEF Entry, Running
  <2>4. r.op = "start" => status'[r.sprint] \in Planning /\ InFlight("draft")' = {}
    BY <1>6, StartMeets DEF Entry, Suspects
  <2> QED
    BY <2>1, <2>2, <2>3, <2>4 DEF Ordered
<1> QED
  BY <1>1, <1>3, <1>4, <1>5, <1>6 DEF RequestsMove, Answer, Take

-----------------------------------------------------------------------------
(* StartTakesUnlessRaced                                                    *)

\* Sprints are never deleted, and everything that names one names a row.
RowsHeld ==
    /\ \A i \in items : Exists(i[1])
    /\ \A g \in Gens : link[g] # NoSprint => Exists(link[g])
    /\ \A w \in Workers :
          req[w].op \in {"save", "draft", "add", "row", "link"} => Exists(req[w].sprint)

\* No step deletes a Sprint.
LEMMA ExistsStays ==
  ASSUME ReqTypes, RowsMove, NEW s \in Sprints, Exists(s) PROVE Exists(s)'
BY DEF ReqTypes, RequestsTypeOK, TypeOK, RowsMove, CreatedAs, StartsOf, DraftsOf, LinksOf,
       EndsOf, Exists, Absent, Planning, Finished

\* RowsHeld is kept.
LEMMA RowsHeldStep == ReqTypes /\ DraftsAsk /\ RowsHeld /\ [ReqNext]_allVars => RowsHeld'
<1> SUFFICES ASSUME ReqTypes, DraftsAsk, RowsHeld, [ReqNext]_allVars PROVE RowsHeld'
  OBVIOUS
<1>0. RequestsMove /\ RowsMove /\ BacklogsMove /\ ReqTypes'
  BY RequestsStep, RowsStep, ReqTypesStep
<1>1. /\ req \in [Workers -> Request] /\ \A w \in Workers : Carries(req[w])
      /\ items \subseteq Sprints \X PBIs /\ link \in [Gens -> Sprints \cup {NoSprint}]
      /\ status \in [Sprints -> SprintStatuses \cup {Absent}]
  BY DEF ReqTypes, RequestsTypeOK, TypeOK
<1>2. \A s \in Sprints : Exists(s) => Exists(s)'
  BY <1>0, ExistsStays
<1>3. \A i \in items' : Exists(i[1])'
  <2>1. CASE items' \subseteq items
    BY <1>1, <1>2, <2>1 DEF RowsHeld
  <2>2. ASSUME NEW w \in Workers, req[w].op \in {"save", "draft", "add"},
               req[w].sprint \in Sprints, items' \subseteq items \cup OfSprint(req[w].sprint)
        PROVE  \A i \in items' : Exists(i[1])'
    <3>1. status'[req[w].sprint] # Absent
      BY <1>2, <2>2 DEF RowsHeld, Exists
    <3>2. \A i \in OfSprint(req[w].sprint) : i[1] = req[w].sprint
      BY DEF OfSprint
    <3> QED
      BY <1>1, <1>2, <2>2, <3>1, <3>2 DEF RowsHeld, Exists
  <2> QED
    BY <1>0, <2>1, <2>2 DEF BacklogsMove
<1>4. ASSUME NEW g \in Gens, link'[g] # NoSprint PROVE Exists(link[g])'
  <2>1. CASE link'[g] = link[g]
    BY <1>1, <1>2, <1>4, <2>1 DEF RowsHeld
  <2>2. ASSUME NEW w \in Workers, LinksOf(w) PROVE Exists(link[g])'
    <3>0. req[w].op = "link" /\ req[w].sprint \in Sprints
      BY <1>1, <2>2 DEF LinksOf, Carries
    <3>1. status'[req[w].sprint] # Absent
      BY <1>2, <3>0 DEF RowsHeld, Exists
    <3>2. link'[g] = link[g] \/ link'[g] = req[w].sprint
      BY <1>1, <2>2 DEF LinksOf
    <3> QED
      BY <2>1, <3>1, <3>2 DEF Exists
  <2> QED
    BY <1>0, <1>4, <2>1, <2>2
       DEF RowsMove, Regenerated, CreatedAs, StartsOf, DraftsOf, EndsOf
<1>5. ASSUME NEW w \in Workers, req'[w].op \in {"save", "draft", "add", "row", "link"}
      PROVE  Exists(req[w].sprint)'
  <2>1. CASE req'[w] = req[w]
    BY <1>1, <1>2, <1>5, <2>1 DEF RowsHeld, Carries
  <2>2. CASE req'[w] = Idle
    <3>1. Idle.op = "idle"
      BY DEF Idle
    <3> QED
      BY <1>5, <2>2, <3>1
  <2>3. ASSUME NEW r \in Request, Carries(r), Take(w, r), Entry(w, r)
        PROVE  Exists(req[w].sprint)'
    <3>1. req'[w] = r
      BY <1>1, <2>3 DEF Take
    <3>2. CASE r.op = "row"
      <4>1. r.sprint \in Sprints /\ r.was \in Planning
        BY <2>3, <3>2 DEF Carries
      <4>2. status'[r.sprint] = r.was
        BY <1>1, <2>3, <3>2, <4>1 DEF Entry
      <4> QED
        BY <3>1, <4>1, <4>2 DEF Exists, Planning, Absent
    <3>3. CASE r.op # "row"
      <4>1. Exists(r.sprint) /\ status' = status
        BY <1>5, <2>3, <3>1, <3>3 DEF Entry, RowsHeld, Exists, Planning, Absent
      <4> QED
        BY <3>1, <4>1 DEF Exists
    <3> QED
      BY <3>2, <3>3
  <2> QED
    BY <1>0, <1>1, <2>1, <2>2, <2>3 DEF RequestsMove, Answer, Take
<1> QED
  BY <1>3, <1>4, <1>5 DEF RowsHeld

\* While a start met nothing that adds items or ends another Sprint's run, no other
\* committed Sprint holds what it will take, and its Sprint holds nothing more.
Taking ==
    overlaps \cap {"start", "complete", "save", "draft", "add"} = {} =>
        \A w \in InFlight("start") :
            /\ Backlog(req[w].sprint) \subseteq req[w].items
            /\ ~Conflicts(req[w].sprint, req[w].items)
            /\ \A op \in {"complete", "save", "draft", "add"} : InFlight(op) = {}

\* Taking is kept.
LEMMA TakingStep ==
  ReqTypes /\ DraftsAsk /\ StartsAlone /\ RowsHeld /\ Taking /\ [ReqNext]_allVars => Taking'
<1> SUFFICES ASSUME ReqTypes, DraftsAsk, StartsAlone, RowsHeld, Taking, [ReqNext]_allVars,
                    overlaps' \cap {"start", "complete", "save", "draft", "add"} = {},
                    NEW v \in InFlight("start")'
             PROVE  /\ Backlog(req[v].sprint)' \subseteq req'[v].items
                    /\ ~Conflicts(req[v].sprint, req[v].items)'
                    /\ \A op \in {"complete", "save", "draft", "add"} : InFlight(op)' = {}
  BY DEF Taking
<1>1. RequestsMove /\ RowsMove /\ BacklogsMove /\ overlaps \subseteq overlaps'
  BY RequestsStep, RowsStep
<1>2. /\ req \in [Workers -> Request] /\ items \subseteq Sprints \X PBIs
      /\ status \in [Sprints -> SprintStatuses \cup {Absent}]
      /\ v \in Workers /\ req'[v].op = "start"
  BY DEF ReqTypes, RequestsTypeOK, TypeOK, InFlight
<1>3. CASE req'[v] = req[v]
  <2> DEFINE s == req[v].sprint
             P == req[v].items
  <2>1. v \in InFlight("start") /\ InFlight("start") = {v}
    BY <1>1, <1>2, <1>3 DEF InFlight, StartsAlone
  <2>2. /\ Backlog(s) \subseteq P /\ ~Conflicts(s, P)
        /\ \A op \in {"complete", "save", "draft", "add"} : InFlight(op) = {}
    BY <1>1, <2>1 DEF Taking
  <2>3. ~ Answer(v)
    <3>1. Idle.op # "start"
      BY DEF Idle
    <3> QED
      BY <1>2, <1>3, <3>1 DEF Answer
  <2>4. items' \subseteq items
    BY <1>1, <2>2 DEF BacklogsMove, InFlight
  <2>5. ASSUME NEW t \in Sprints, status'[t] \in Committed
        PROVE  status[t] \in Committed \/ Backlog(t) = {}
    <3>1. CASE UNCHANGED status
      BY <2>5, <3>1
    <3>2. ASSUME NEW q \in Sprints, NEW st \in Planning, CreatedAs(q, st)
          PROVE  status[t] \in Committed \/ Backlog(t) = {}
      <4>1. CASE q = t
        BY <3>2, <4>1 DEF CreatedAs, RowsHeld, Backlog
      <4>2. CASE q # t
        BY <1>2, <2>5, <3>2, <4>2 DEF CreatedAs
      <4> QED
        BY <4>1, <4>2
    <3>3. ASSUME NEW w \in Workers, NEW st \in Finished, EndsOf(w, st)
          PROVE  status[t] \in Committed \/ Backlog(t) = {}
      <4>1. st = "CANCELLED"
        BY <2>2, <3>3 DEF EndsOf, InFlight
      <4> QED
        BY <1>2, <2>5, <3>3, <4>1 DEF EndsOf, Committed
    <3>4. ASSUME NEW w \in Workers, StartsOf(w) \/ DraftsOf(w) PROVE FALSE
      BY <2>1, <2>2, <2>3, <3>4 DEF StartsOf, DraftsOf, InFlight
    <3> QED
      BY <1>1, <3>1, <3>2, <3>3, <3>4 DEF RowsMove, LinksOf
  <2>6. \A t \in Sprints : Backlog(t)' \subseteq Backlog(t)
    BY <2>4 DEF Backlog
  <2>7. ~Conflicts(s, P)'
    BY <1>3, <2>2, <2>5, <2>6 DEF Conflicts
  <2>8. Backlog(s)' \subseteq P
    BY <1>3, <2>2, <2>4 DEF Backlog
  <2>9. ASSUME NEW op \in {"complete", "save", "draft", "add"} PROVE InFlight(op)' = {}
    <3>1. op \in Suspects /\ op # "start" /\ op \notin overlaps'
      BY DEF Suspects
    <3> QED
      BY <1>1, <1>3, <2>1, <2>2, <3>1, SuspectEnters
  <2> QED
    BY <1>3, <2>7, <2>8, <2>9 DEF Backlog, Conflicts
<1>4. CASE req'[v] = Idle
  <2>1. Idle.op = "idle"
    BY DEF Idle
  <2> QED
    BY <1>2, <1>4, <2>1
<1>5. ASSUME NEW r \in Request, Take(v, r), Entry(v, r)
      PROVE  /\ Backlog(req[v].sprint)' \subseteq req'[v].items
             /\ ~Conflicts(req[v].sprint, req[v].items)'
             /\ \A op \in {"complete", "save", "draft", "add"} : InFlight(op)' = {}
  <2>1. req'[v] = r
    BY <1>2, <1>5 DEF Take
  <2>2. /\ UNCHANGED <<status, items>> /\ r.items = Backlog(r.sprint)
        /\ ~Conflicts(r.sprint, r.items)
    BY <1>2, <1>5, <2>1 DEF Entry
  <2>3. Backlog(r.sprint)' = Backlog(r.sprint) /\ ~Conflicts(r.sprint, r.items)'
    BY <2>2 DEF Backlog, Conflicts
  <2>4. ASSUME NEW op \in {"complete", "save", "draft", "add"} PROVE InFlight(op)' = {}
    <3>1. op \in Suspects /\ op # "start" /\ op \notin overlaps'
      BY DEF Suspects
    <3> QED
      BY <1>2, <1>5, <2>1, <3>1, StartMeets
  <2> QED
    BY <2>1, <2>2, <2>3, <2>4 DEF Backlog, Conflicts
<1> QED
  BY <1>1, <1>2, <1>3, <1>4, <1>5 DEF RequestsMove, Answer, Take

-----------------------------------------------------------------------------
(* InSyncUnlessRaced                                                        *)

\* A generated Sprint that is being materialised has PLANNED, also when it has been
\* materialised by another request meanwhile, and its new Sprint is still planned.
Synced ==
    overlaps \cap {"start", "draft", "materialise", "row", "link"} = {} =>
        /\ GeneratedInSync
        /\ \A w \in Workers :
              /\ req[w].op \in {"materialise", "row", "link"} /\ Generated(req[w].gen) =>
                    genStatus[req[w].gen] = "PLANNED"
              /\ req[w].op \in {"row", "link"} => status[req[w].sprint] \in Planning
              /\ req[w].op = "start" =>
                    \A op \in {"materialise", "row", "link"} : InFlight(op) = {}

\* The rows are in step after the step, and what was being materialised before it
\* still is.
StaysInSync ==
    /\ GeneratedInSync'
    /\ \A w \in Workers : req[w].op \in {"materialise", "row", "link"} =>
          /\ genStatus'[req[w].gen] \in {"PLANNED", Absent}
          /\ req[w].op \in {"row", "link"} => status'[req[w].sprint] \in Planning

\* The rows stay in step.
LEMMA RowsInSyncStep ==
  ASSUME ReqTypes, RowsHeld, Synced, RowsMove, \A w \in Workers : Ordered(req[w]),
         overlaps \cap {"start", "draft", "materialise", "row", "link"} = {}
  PROVE  StaysInSync
<1> USE DEF StaysInSync, Planning, Finished, Running
<1>0. /\ status \in [Sprints -> SprintStatuses \cup {Absent}]
      /\ genStatus \in [Gens -> SprintStatuses \cup {Absent}]
      /\ link \in [Gens -> Sprints \cup {NoSprint}] /\ NoSprint \notin Sprints
      /\ \A w \in Workers : Carries(req[w])
  BY IdsAssumption DEF ReqTypes, RequestsTypeOK, TypeOK
<1>1. /\ GeneratedInSync
      /\ \A w \in Workers : req[w].op \in {"materialise", "row", "link"} =>
            /\ req[w].gen \in Gens /\ genStatus[req[w].gen] \in {"PLANNED", Absent}
            /\ req[w].op \in {"row", "link"} =>
                  req[w].sprint \in Sprints /\ status[req[w].sprint] \in Planning
  BY <1>0 DEF Synced, Generated, Carries
<1>2. CASE UNCHANGED status /\ Regenerated
  BY <1>0, <1>1, <1>2 DEF Regenerated, GeneratedInSync, Generated, Absent
<1>3. ASSUME NEW s \in Sprints, NEW st \in Planning, CreatedAs(s, st)
      PROVE  StaysInSync
  <2>1. \A g \in Gens : link[g] # s
    BY <1>0, <1>3 DEF CreatedAs, RowsHeld
  <2> QED
    BY <1>0, <1>1, <1>3, <2>1 DEF CreatedAs, GeneratedInSync, Generated
<1>4. ASSUME NEW v \in Workers, StartsOf(v)
      PROVE  StaysInSync
  <2>1. req[v].sprint \in Sprints
    BY <1>0, <1>4 DEF StartsOf, Carries
  <2>2. GeneratedInSync'
    BY <1>0, <1>1, <1>4, <2>1 DEF StartsOf, SyncGenerated, GeneratedInSync, Generated, Absent
  <2> QED
    BY <1>4, <2>2 DEF StartsOf, Synced, InFlight
<1>5. ASSUME NEW v \in Workers, DraftsOf(v)
      PROVE  StaysInSync
  <2>1. req[v].sprint \in Sprints /\ status[req[v].sprint] \in Planning
    BY <1>0, <1>5 DEF DraftsOf, Carries, Ordered
  <2> QED
    BY <1>0, <1>1, <1>5, <2>1 DEF DraftsOf, GeneratedInSync, Generated
<1>6. ASSUME NEW v \in Workers, NEW st \in Finished, EndsOf(v, st)
      PROVE  StaysInSync
  <2>1. req[v].sprint \in Sprints /\ status[req[v].sprint] \in Running
    BY <1>0, <1>6 DEF EndsOf, Carries, Ordered
  <2>2. GeneratedInSync'
    BY <1>0, <1>1, <1>6, <2>1 DEF EndsOf, SyncGenerated, GeneratedInSync, Generated, Absent
  <2>3. \A g \in Gens : genStatus[g] = "PLANNED" => link[g] # req[v].sprint
    BY <1>0, <1>1, <2>1 DEF GeneratedInSync, Generated, Absent
  <2> QED
    BY <1>0, <1>1, <1>6, <2>1, <2>2, <2>3 DEF EndsOf, SyncGenerated, Generated
<1>7. ASSUME NEW v \in Workers, LinksOf(v)
      PROVE  StaysInSync
  <2>1. /\ req[v].gen \in Gens /\ genStatus[req[v].gen] = "PLANNED"
        /\ req[v].sprint \in Sprints /\ status[req[v].sprint] \in Planning
    BY <1>1, <1>7 DEF LinksOf, Generated
  <2> QED
    BY <1>0, <1>1, <1>7, <2>1 DEF LinksOf, GeneratedInSync, Generated
<1> HIDE DEF StaysInSync, Planning, Finished, Running
<1> QED
  BY <1>2, <1>3, <1>4, <1>5, <1>6, <1>7 DEF RowsMove

\* Synced is kept.
LEMMA SyncedStep ==
  ReqTypes /\ DraftsAsk /\ InOrder /\ RowsHeld /\ Synced /\ [ReqNext]_allVars => Synced'
<1> SUFFICES ASSUME ReqTypes, DraftsAsk, InOrder, RowsHeld, Synced, [ReqNext]_allVars,
                    overlaps' \cap {"start", "draft", "materialise", "row", "link"} = {}
             PROVE  /\ GeneratedInSync'
                    /\ \A w \in Workers :
                        /\ req'[w].op \in {"materialise", "row", "link"} /\ Generated(req[w].gen)' =>
                              genStatus'[req'[w].gen] = "PLANNED"
                        /\ req'[w].op \in {"row", "link"} => status'[req'[w].sprint] \in Planning
                        /\ req'[w].op = "start" =>
                              \A op \in {"materialise", "row", "link"} : InFlight(op)' = {}
  BY DEF Synced
<1>1. /\ RequestsMove /\ RowsMove
      /\ overlaps \cap {"start", "draft", "materialise", "row", "link"} = {}
  BY RequestsStep, RowsStep
<1>2. \A w \in Workers : Ordered(req[w])
  BY <1>1 DEF InOrder
<1>3. req \in [Workers -> Request] /\ Idle.op = "idle"
  BY DEF ReqTypes, RequestsTypeOK, Idle
<1>4. StaysInSync
  BY <1>1, <1>2, RowsInSyncStep
<1>5. ASSUME NEW w \in Workers
      PROVE  /\ req'[w].op \in {"materialise", "row", "link"} =>
                   genStatus'[req'[w].gen] \in {"PLANNED", Absent}
             /\ req'[w].op \in {"row", "link"} => status'[req'[w].sprint] \in Planning
             /\ req'[w].op = "start" =>
                   \A op \in {"materialise", "row", "link"} : InFlight(op)' = {}
  <2>1. CASE req'[w] = req[w]
    <3>1. CASE req[w].op = "start"
      <4>1. /\ w \in InFlight("start")
            /\ \A op \in {"materialise", "row", "link"} : InFlight(op) = {}
        BY <1>1, <3>1 DEF Synced, InFlight
      <4>2. ASSUME NEW op \in {"materialise", "row", "link"}
            PROVE  op \in Suspects /\ op # "start" /\ op \notin overlaps'
        BY DEF Suspects
      <4>3. \A op \in {"materialise", "row", "link"} : InFlight(op)' = {}
        BY <1>1, <2>1, <4>1, <4>2, SuspectEnters
      <4> QED
        BY <2>1, <3>1, <4>3
    <3>2. CASE req[w].op # "start"
      BY <1>4, <2>1, <3>2 DEF StaysInSync
    <3> QED
      BY <3>1, <3>2
  <2>2. CASE req'[w] = Idle
    BY <1>3, <2>2
  <2>3. ASSUME NEW r \in Request, Carries(r), Take(w, r), Entry(w, r)
        PROVE  /\ r.op \in {"materialise", "row", "link"} =>
                     genStatus'[r.gen] \in {"PLANNED", Absent}
               /\ r.op \in {"row", "link"} => status'[r.sprint] \in Planning
               /\ r.op = "start" => \A op \in {"materialise", "row", "link"} : InFlight(op)' = {}
               /\ req'[w] = r
    <3>1. req'[w] = r
      BY <1>3, <2>3 DEF Take
    <3>2. r.op = "start" => \A op \in {"materialise", "row", "link"} : InFlight(op)' = {}
      <4>1. ASSUME NEW op \in {"materialise", "row", "link"}
            PROVE  op \in Suspects /\ op # "start" /\ op \notin overlaps'
        BY DEF Suspects
      <4> QED
        BY <2>3, <4>1, StartMeets
    <3>3. r.op = "materialise" => genStatus'[r.gen] \in {"PLANNED", Absent}
      BY <1>1, <2>3 DEF Synced, GeneratedInSync, Generated, Entry, Carries
    <3>4. CASE r.op = "row"
      <4>1. r.sprint \in Sprints /\ r.was \in Planning
        BY <2>3, <3>4 DEF Carries
      <4>2. status'[r.sprint] = r.was
        BY <2>3, <3>4, <4>1 DEF Entry, ReqTypes, RequestsTypeOK, TypeOK
      <4>3. genStatus'[r.gen] \in {"PLANNED", Absent}
        BY <1>4, <2>3, <3>4 DEF Entry, StaysInSync
      <4> QED
        BY <3>1, <3>4, <4>1, <4>2, <4>3
    <3>5. CASE r.op = "link"
      <4>1. req[w].op = "row" /\ r.sprint = req[w].sprint /\ r.gen = req[w].gen
        BY <2>3, <3>5 DEF Entry
      <4>2. genStatus'[r.gen] \in {"PLANNED", Absent} /\ status'[r.sprint] \in Planning
        BY <1>4, <4>1 DEF StaysInSync
      <4> QED
        BY <3>1, <3>5, <4>2
    <3> QED
      BY <3>1, <3>2, <3>3, <3>4, <3>5
  <2> QED
    BY <1>1, <1>3, <2>1, <2>2, <2>3 DEF RequestsMove, Answer, Take
<1> QED
  BY <1>4, <1>5 DEF Generated, StaysInSync

-----------------------------------------------------------------------------
\* What every interleaving of requests keeps: the types and rows whatever happens,
\* the rest until the overlap that breaks it.
RequestsInv ==
    /\ ReqTypes /\ DraftsAsk /\ RowsHeld
    /\ StartsAlone /\ InOrder /\ Taking /\ Synced

\* Before any request nothing is in flight, and there is no row to disagree with.
LEMMA RequestsInvInit == ReqInit => RequestsInv
<1> SUFFICES ASSUME ReqInit PROVE RequestsInv
  OBVIOUS
<1>1. \A w \in Workers : req[w].op = "idle"
  BY DEF ReqInit, Idle
<1>2. /\ items = {} /\ \A s \in Sprints : status[s] = "ABSENT"
      /\ \A g \in Gens : genStatus[g] = "ABSENT" /\ link[g] = NoSprint
  BY DEF ReqInit, Init, Absent
<1>3. DraftsAsk /\ RowsHeld /\ InOrder
  BY <1>1, <1>2 DEF DraftsAsk, RowsHeld, InOrder, Ordered
<1>4. StartsAlone /\ Taking
  BY <1>1, <1>2 DEF StartsAlone, OneActiveSprint, Taking, InFlight
<1>5. Synced
  BY <1>1, <1>2 DEF Synced, GeneratedInSync, Generated, Absent
<1> QED
  BY <1>3, <1>4, <1>5, ReqTypesInit DEF RequestsInv

\* RequestsInv is an invariant of every interleaving.
THEOREM RequestsInvariance == ReqSpec => []RequestsInv
<1>1. RequestsInv /\ [ReqNext]_allVars => RequestsInv'
  BY ReqTypesStep, DraftsAskStep, RowsHeldStep, AloneStep, InOrderStep, TakingStep, SyncedStep
     DEF RequestsInv
<1> QED
  BY <1>1, RequestsInvInit, PTL DEF ReqSpec

\* However requests interleave and fail, the rows keep the schema's types and every
\* request in flight is one its handler could hold.
THEOREM RequestsTyped == ReqSpec => []RequestsTypeOK
<1>1. RequestsInv => RequestsTypeOK
  BY DEF RequestsInv, ReqTypes
<1> QED
  BY <1>1, RequestsInvariance, PTL

\* Two active Sprints need two starts in flight together: the check before the
\* transaction holds against every other request, for any number of them.
THEOREM OneActiveRace == ReqSpec => []OneActiveUnlessStartsMeet
<1>1. RequestsInv => OneActiveUnlessStartsMeet
  BY DEF RequestsInv, StartsAlone, OneActiveUnlessStartsMeet
<1> QED
  BY <1>1, RequestsInvariance, PTL

\* Until a start meets another start or a draft save, no Sprint that was started is
\* planned again and none that ended runs again, for any number of requests.
THEOREM StartedStaysRace == ReqSpec => StartedStaysUnlessRaced
<1>1. ASSUME RequestsInv, [ReqNext]_allVars, overlaps' \cap {"start", "draft"} = {},
             NEW s \in Sprints
      PROVE  /\ status[s] \in {"ACTIVE"} \cup Finished => status'[s] \notin Planning
             /\ status[s] \in Finished => status'[s] # "ACTIVE"
  <2>1. RowsMove /\ overlaps \subseteq overlaps'
    BY <1>1, RequestsStep, RowsStep DEF RequestsInv
  <2>2. ReqTypes /\ \A w \in Workers : Ordered(req[w])
    BY <1>1, <2>1 DEF RequestsInv, InOrder
  <2>3. /\ status[s] \in Running => status'[s] \in Running
        /\ status[s] \in Finished => status'[s] \in Finished
    BY <2>1, <2>2, StatusFollows
  <2> QED
    BY <2>3 DEF Running, Finished, Planning
<1>2. RequestsInv /\ [ReqNext]_allVars =>
        (overlaps' \cap {"start", "draft"} = {} =>
           \A s \in Sprints :
              /\ status[s] \in {"ACTIVE"} \cup Finished => status'[s] \notin Planning
              /\ status[s] \in Finished => status'[s] # "ACTIVE")
  BY <1>1
<1> QED
  BY <1>2, RequestsInvariance, PTL DEF ReqSpec, StartedStaysUnlessRaced

\* Until a start meets what adds items or ends another run, it takes its items from
\* every other Sprint that is not cancelled, for any number of requests.
THEOREM StartTakesRace == ReqSpec => StartTakesUnlessRaced
<1>1. ASSUME RequestsInv, [ReqNext]_allVars,
             overlaps' \cap {"start", "complete", "save", "draft", "add"} = {},
             NEW s \in Sprints, status[s] # "ACTIVE", status'[s] = "ACTIVE",
             NEW i \in items', NEW j \in items', i[1] = s, j[2] = i[2]
      PROVE  j[1] = s \/ status'[j[1]] = "CANCELLED"
  <2>1. /\ RowsMove /\ overlaps \subseteq overlaps'
        /\ status \in [Sprints -> SprintStatuses \cup {Absent}] /\ items \subseteq Sprints \X PBIs
    BY <1>1, RequestsStep, RowsStep DEF RequestsInv, ReqTypes, RequestsTypeOK, TypeOK
  <2>2. PICK w \in Workers : StartsOf(w) /\ req[w].sprint = s
    <3>1. ASSUME NEW q \in Sprints, NEW st \in Planning, CreatedAs(q, st) PROVE FALSE
      BY <1>1, <2>1, <3>1 DEF CreatedAs, Planning
    <3>2. ASSUME NEW w \in Workers, NEW st \in Finished, EndsOf(w, st) PROVE FALSE
      BY <1>1, <2>1, <3>2 DEF EndsOf, Finished
    <3>3. ASSUME NEW w \in Workers, DraftsOf(w) \/ LinksOf(w) PROVE FALSE
      BY <1>1, <2>1, <3>3 DEF DraftsOf, LinksOf
    <3>4. \A w \in Workers : StartsOf(w) => req[w].sprint = s
      BY <1>1, <2>1 DEF StartsOf
    <3> QED
      BY <1>1, <2>1, <3>1, <3>2, <3>3, <3>4 DEF RowsMove
  <2>3. /\ Backlog(s) \subseteq req[w].items /\ ~Conflicts(s, req[w].items)
    BY <1>1, <2>1, <2>2 DEF RequestsInv, Taking, InFlight, StartsOf
  <2>4. /\ i \in items /\ j \in items \ StaleDrafts(s, req[w].items)
        /\ j[1] \in Sprints /\ j = <<j[1], i[2]>> /\ i = <<s, i[2]>> /\ i[2] \in PBIs
    BY <1>1, <2>1, <2>2 DEF StartsOf
  <2>5. i[2] \in req[w].items
    BY <2>3, <2>4 DEF Backlog
  <2>6. j[1] # s => status[j[1]] \notin Committed \cup {"DRAFT", Absent}
    BY <1>1, <2>3, <2>4, <2>5
       DEF StaleDrafts, Conflicts, Backlog, RequestsInv, RowsHeld, Exists
  <2> QED
    BY <2>1, <2>2, <2>4, <2>6 DEF StartsOf, Committed, SprintStatuses
<1>2. RequestsInv /\ [ReqNext]_allVars =>
        (overlaps' \cap {"start", "complete", "save", "draft", "add"} = {} =>
           \A s \in Sprints : status[s] # "ACTIVE" /\ status'[s] = "ACTIVE" =>
              \A i, j \in items' : i[1] = s /\ j[2] = i[2] =>
                 j[1] = s \/ status'[j[1]] = "CANCELLED")
  BY <1>1
<1> QED
  BY <1>2, RequestsInvariance, PTL DEF ReqSpec, StartTakesUnlessRaced

\* Until a start meets a start, a draft save or a materialisation, the status
\* column of every generated Sprint is its Sprint's, for any number of requests.
THEOREM InSyncRace == ReqSpec => []InSyncUnlessRaced
<1>1. RequestsInv => InSyncUnlessRaced
  BY DEF RequestsInv, Synced, InSyncUnlessRaced
<1> QED
  BY <1>1, RequestsInvariance, PTL
=============================================================================
