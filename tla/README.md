# A verification project for Scrsphere

Scrsphere is a Scrum board: a React client (`packages/frontend`), an Express and
Prisma server over PostgreSQL (`packages/backend`), and types they share
(`packages/shared`).  The core logic is in the server's services and in the client's
session handling.  Both are plain asynchronous TypeScript: a request reads rows,
awaits, decides, and writes, often in a transaction that does not read again what was
decided on.  This directory models them in TLA+, checks the models with TLC on small
instances and proves the main properties with TLAPS for instances of any size.

Paths below are relative to `packages/backend/src/` unless they start with `docs/` or
`frontend/` (`packages/frontend/src/`).

## Inventory

| Part | State it keeps | Operations | What is hard |
| --- | --- | --- | --- |
| Sprint lifecycle (`services/sprint.service.ts`) | `Sprint`, `SprintBacklogItem`, `BurndownData` | create, save backlog, save draft, start, roll back, complete, cancel, add and remove items | validation outside the transaction; four copies of one status; drafts that compete for items |
| Generated Sprints (`services/sprintConfiguration.service.ts`) | `GeneratedSprint` and its link to `Sprint` | generate a year, delete, update; materialised by a planning request | materialisation is four statements without a transaction, the generation of a year one for each of its Sprints |
| Product Backlog (`services/backlog.service.ts`) | `ProductBacklogItem` | create, update along the workflow, delete | a Done item is locked, for updates only; deletion cascades |
| Definition of Done (`services/dod.service.ts`) | `DefinitionOfDone`, `DoDItem`, `DoDChecklistVerification` | create the default, replace, verify; the gate of `updatePBI` | a replacement deletes before it creates, without a transaction; the gate is three reads before a write |
| Tasks and burndown (`services/sprint.service.ts`) | `Task`, `BurndownData.actualRemaining` | create, update, approve, delete | sums and rules checked on rows that move |
| Increments (`services/increment.service.ts`, `incrementIntegration.service.ts`) | `Increment`, `IncrementPBI`, `IncrementIntegrationTest` | compose, create, edit, test, verify, deliver | no transaction anywhere; find-or-create without a key |
| Workflow (`services/workflow.service.ts`, `workflow-lock.service.ts`) | `Workflow` rows; per instance a cache, promises and attempt counters; an advisory lock | get or create the default workflow, create, add states and transitions | several instances, a pool of sessions, timeouts, crashes, staleness |
| Sessions (`services/auth.service.ts`) | `RefreshToken`, `PasswordResetToken` | register, login, refresh, logout, activity, expiry, reset the password | rotation, the session limit and the reset under concurrency |
| Browser sessions (`frontend/services/core/api.core.ts`, `frontend/store/index.ts`) | the refresh cookie all tabs share; one refresh promise per tab | refresh on a 401, login, logout | answers late, lost or in another order |
| Idle timeout (`frontend/services/sessionManager.ts`) | timers and a dialog in every tab; the last activity in `localStorage` | activity, storage events, extend, time out | the tabs learn of each other late |
| Account deletion (`services/auth.service.ts`, `jobs/deletionGracePeriodJob.ts`) | `ScheduledDeletion` | check, schedule, cancel, force; a daily job | a job that races requests |
| Team (`services/team.service.ts`) | `TeamMember` | add, remove, change role | vacancies and counts checked before writing |
| Timebox (`services/timebox.service.ts`, `frontend/components/common/EventTimebox`) | `Timebox`; on each page the query's data and the point it counts on from | start, pause, reset, conclude; poll, count on | one clock, many pages; a row found by an id whose meaning changes |
| Transactions (`utils/dbTransaction.ts`) | none in use: nothing calls the circuit breaker | run, retry | reads before the transaction |
| Review, Retrospective, Daily Scrum, goals, impediments, Definition of Ready, reports, consent, export, notifications | rows of their own | create, read, update, delete | little; the completion of a Sprint reads the first two |

How they interact.  All services share the database and nothing else, except the
workflow service, whose cache and promises live in the instance.  Planning requests
take the id of a Sprint or of a generated Sprint and materialise the latter.  Starting
a Sprint changes items, other Sprints' drafts, the generated Sprint and the burndown.
Completing one needs the Review and the Retrospective to be completed.  Updating an
item asks the workflow service which transitions exist and the Definition of Done
whether it may be done; a Done item is composed into the running Sprint's Increment.
Members may be assigned tasks and hold roles, which removals, role changes and account
deletions take away.  The client's tabs share a cookie and `localStorage`; each refresh
rotates the cookie's row on the server.

What makes each part correct.  Sprints: one runs at a time; a finished one stays
finished; an item is worked on in one Sprint; a generated Sprint's status column agrees
with its Sprint.  Items: an item that passes the gate is verified, and no later update
reopens it.  Tasks: the workflow's steps only, nobody approves his own, assignees are
members, the burndown is the sum.  Increments: a
Sprint's Done items gather in one, and what was delivered stays as it was.  Workflow:
one creator at a time, an answer for every request, no step back to an older version.
Sessions: one successor per token, no more than the limit, none after a reset; a tab
stays signed in unless something happened, and signed out after a logout.  Idle
timeout: not early, and not never.  Deletion: what was cancelled is not executed, the
last Product Owner does not slip away, and what is overdue ends.  Team: one holder per
leadership role.  Timebox: one clock for an event, which adds up, and which every page
shows.

`PROJECT.json` lists the hazards at the lines where they bite.

## Modules

| Module | Models |
| --- | --- |
| `SprintLifecycle` | the Sprints, generated Sprints and items of one team, every request handled alone |
| `SprintRequests` | the same requests split where the handlers await, overlapping; extends `SprintLifecycle` and uses its checks and effects |
| `DoneGate` | the Definition of Done, its replacement, its verifications, and the gate that reads them |
| `WorkflowInit` | `getWorkflowByEntityType` and the advisory lock over several instances |
| `Increments` | the Increments of one team, with requests that overlap at every await |
| `Team` | the members of a team, each request as a check and a write; extended by the next two |
| `Accounts` | deletions at once, scheduled, cancelled and forced, the daily job, and the team's requests taken whole |
| `SprintTasks` | the tasks and today's burndown point of a running Sprint, composed with the team's requests cut between check and write |
| `Sessions` | the sessions of one user at the server |
| `SessionClients` | the tabs of a browser over a network, composed with `Sessions` |
| `IdleClock` | the abstract specification of an idle timeout |
| `SessionTimers` | the session managers of all tabs; implements `IdleClock` in each |
| `Timebox` | the clock of one event: its rows, the requests on them, and how long it has really run |
| `TimeboxView` | a participant's page, composed with `Timebox` over answers that get lost or come late |
| `MC...` | symmetry and bounds for TLC, one for each module that is run |
| `..._proofs` | theorems and their proofs: `Sprints` (of `SprintLifecycle` and `SprintRequests`), `DoneGate`, `WorkflowInit`, `Increments`, `Accounts`, `SprintTasks`, `Sessions` (and `SessionClients`), `Clocks` (of `SessionTimers`, `Timebox` and `TimeboxView`) |

**Conventions.**  A variable is a column, or the existence of rows.  A request is an
entry of `req`: its arrival is the handler's first reads and refusals, and each later
step ends at an await.  Reads that nothing tells apart are one step; the gaps that
matter, from a read to the write that relies on it, are not.  `Fail` ends a request
anywhere: a failed statement, a client that went away, a server that died; what was
written stays.  Ids are UUIDs, so an id does not come back while anything may still
hold it.  Dates, names, text and permissions are left out: the models take a request
whose caller passed the role checks, unless the role is part of a race.
History variables (`overlaps`, `stale`, `raced`, `shared`, `crowded`, `why`,
`overtaken`, `inForce`, ...) are read by properties only; they record what met what, so that a
property can say exactly which overlap it needs to be broken.

**SprintLifecycle.**  `status` is `Sprint.status` (`"ABSENT"` without a row), `items`
the rows of `SprintBacklogItem`, `tasks` the pairs that have a `Task`, `link` is
`GeneratedSprint.sprintId`.  One action is one request: its guard is the handler's
checks, its effect the operator of its transaction (`StartWrites`, `CancelWrites`,
`SaveWrites`, ...).  A request that is refused after it has already written is an
action too: `RefusedAfterMaterialise`, `StartRefusedAfterGoal`.  `Spec` holds the
requests the web client sends; `SpecWithRollback` adds the rollback endpoint, which the
API offers and no page calls.  The values of burndown points are left to `SprintTasks`.

**SprintRequests.**  `Validate...` is a handler's reads and checks, `Commit...` its
transaction, with the rows it read kept in the worker's record.  Materialisation
(`ReadGenerated`, `CreateRow`, `PointsOfRow`, `LinkRow`) and `createSprint` have no
transaction and are one step per statement; the generation of a year is the deletion of
what was there and then one `CreateGenerated` each.  Requests of a single statement stay
atomic (`AtomicNext`).  `overlaps` holds the kinds of request
that were in flight together with a start.

**DoneGate.**  `dodItems`, `active`, `checked` and `verified` are the rows of the
definition and of its verifications; an id of `DodItems` is used once.  `updatePBI` to
DONE is four steps (the item, the active items, their verifications, the write),
`verifyDoDForPBI` two per answer (find, then update or create), and
`updateDefinitionOfDone` deletes and then creates: the unique order of items makes the
second of two overlapping creations fail, and the cascade takes the verifications.
`EraseVerifier` is what an account's deletion takes away.  `status` is DONE, open for all
others, or none before the item exists, and every writer of it is here: `CreatePBI` takes
any status, `StartSprint` and `RollbackSprintStart` write all items of a Sprint, and
`RemovePBI` cuts `removePBIFromActiveSprint` between its read and its write; none of them
has the gate or the lock.  An "edit" is also `addPBIToActiveSprint` and `cancelSprint`,
which write what they read not DONE.  The checks of the Sprint requests are in
`SprintRequests`, the composition that follows a DONE write in `Increments`; the deletion
of an item, which refuses a Done one and takes its verifications with it, is left out.

**WorkflowInit.**  An instance has a cache (`cache`, by key; the writer uses the
lower-cased entity type, the additions delete the canonical one), a promise others join
(`starter`) and a counter (`attempts`).  A call goes through the phases of
`initializeWorkflow`; the lock is a count per pooled database session, as PostgreSQL
keeps it, and any free session may serve a statement.  `version` stands for the content
of the row.  The entity type is `BacklogItem`; the fetch of `Task` also reconciles new
default states, which is left out.

**Increments.**  `status`, `sprint`, `verified` are columns, `members` and `passed` the
rows of the items and of the passed tests.  `Judge`, `Tally` and `SetVerified` are the
steps of `refreshVerificationStatus` and `verifyIntegration`.  A look for a row followed
by its creation is one step where a unique key makes the outcome the same.  `Compose` is
the second half of marking an item Done.

**Team, Accounts, SprintTasks.**  `Team` has the three requests as a guard (`CanAdd`,
`CanRemove`, `CanSetRole`) and a write (`Add`, `Remove`, `SetRole`).  `Accounts` takes
them whole, and cuts the deletion's own requests: `...Check`, then the write.  The job
reads the overdue rows (`FindOverdue`) and expires them by id (`Expire`).  `SprintTasks`
cuts both, and an update that touched hours goes on to read the tasks (`ReadTasks`) and
to store their sum (`UpsertBurndown`).  A task's `hours` are what the sum counts,
`remainingHours ?? estimatedHours ?? 0`, and `given` says that it has the former: an
estimate counts until then, and an edit of it alone goes to no burndown.  `Replan` is the
addition or removal of an item, which may delete its tasks and goes on to the burndown
after its transaction; `DeleteItem` is the cascade of `deletePBI`, which does not.  Which
items a Sprint has, and which may be deleted, is left to `SprintLifecycle`.  The
`updateBurndownData` of those two requests finds today's point and updates it where the
other one upserts: it is the same step here, for a day whose point exists, and without
one it writes nothing, as a request that fails there.  In both modules `Reasons(r)` says what would
make the check of `r` fail now, `raced[r]` collects it, and `stale` keeps it for the
requests that wrote.

**Sessions, SessionClients.**  `row` is what became of each token, `parent` which token
it replaced, `older` the order of `lastActivityAt` among live ones.  The clock is
abstracted: a row may expire at any moment.  `SessionClients` lets the requests be
exchanges of a browser: `jar` is the cookie, `page` where each tab is, `wire` the
answers on their way, which arrive in any order or not at all (`Lose`, the client's
timeout).

**SessionTimers, IdleClock.**  Ages and times left replace dates, since the code uses
differences only; a timer may fire late, never early.  `event` is a storage event on its
way to a tab.  A tab that becomes visible restarts its timers twice, with the activity it
knew and, if the stored one is newer, with that (`CheckForSessionUpdate`): the first
restart may open the dialog, which the second leaves open.  The refinement maps a tab whose dialog logged it out to one that was
left; timers, warning, dialog and events are forgotten.

**Timebox, TimeboxView.**  `row` holds the rows of one team, event and day.
A request's key is `"team"` as long as its Sprint id leads to no Sprint (`sprintId` is
null) and `"sprint"` from `Materialise` on.  `Find`, `Create` and `ReRead` are
`resolveTimebox`; what the handler computes at once is in the request (`seen`, `time`)
until `Write`.  `ran`, `slack` and `torn` are history.  `concluded...` repeats what is banked and is left out, and so are the
change of day and the timebox's length.  `TimeboxView` gives two of the requests to a
page: the query's (`Load`) and the buttons' (`Click`).  `view` is the query's data,
which outlives the component; `anchor` is the component's three references, and `clock`
its state `now`, set when it mounts and each second while what it shows is RUNNING
(`TickOfPage`).  How the
query library caches, invalidates and drops fetches is modelled from what the component
and `App.tsx` ask of it.

## Runs

| Run | Question | Result |
| --- | --- | --- |
| `sprint_lifecycle` | Do the promises hold if requests do not overlap, rollbacks included? | pass |
| `sprint_requests` | Which overlap does each of them need to break? | pass |
| `done_gate` | When can an item be Done unverified, or a Done item be reopened? | pass |
| `workflow_init` | Instances, connections, failures and crashes around the creation of the workflow | pass |
| `increments` | Where do Done items gather, and what may change after a delivery? | pass |
| `sprint_tasks` | Tasks, burndown and roles while members come and go | pass |
| `accounts` | Deletions against cancellations, the job and the team | pass |
| `sessions` | Rotation, limit and reset under overlapping requests | pass |
| `session_clients` | What can sign a browser out, or leave it signed in? | pass |
| `session_timers` | Do the tabs' managers implement an idle clock? | pass |
| `timebox` | What makes the shared clock's time wrong, and what does a page show of it? | pass |
| `sprint_commitment` | Is an item committed to one Sprint, as its planning says? | violated, see Findings |

The properties, by what they guard against:

- `OneActiveSprint`, `OneActiveUnlessStartsMeet`: two Sprints running.  Serially
  impossible; with overlaps it takes two starts in flight together.
- `StartTakesItsItems`, `StartTakesUnlessRaced`: an item in the running Sprint and
  elsewhere.  A completion can take part: with the cancellation of its Sprint it
  leaves, in a COMPLETED Sprint, an item that an addition put there.
- `FinishedIsFinal`, `StartedStaysUnlessRaced`: a Sprint going back.
- `GeneratedInSync`, `InSyncUnlessRaced`: a generated Sprint whose stored status is not
  its Sprint's.  `deleteGeneratedSprint` decides on the stored one; the list of the
  planning page shows the Sprint's own (`services/sprintConfiguration.service.ts:205`),
  so that a DRAFT, PLANNED in the column, is a DRAFT there.
- `CancelledIsEmpty`: a cancelled Sprint that holds items.
- `DefinitionKept`, `DoneIsVerified`, `DoneStays`: while a definition is being replaced,
  or after a replacement failed halfway, the team has no active item and the gate lets
  everything pass.  Otherwise only a change between the gate's last read and its write
  lets an unverified item through it; what makes an item Done without the gate is its
  creation as DONE, a rollback, and a removal that had found it Done.  An update, or a
  removal that keeps the status, reopens a Done item only if it read it before; the
  other ways back are its return to the backlog, a start and a rollback.
- `OneInitializer`, `EveryCallAnswered`, `ServedNeverOlder`: the workflow service.
- `OneOpenUnlessStrained`, `DeliveredIsFinal`: Done items scattered over open
  Increments, and a delivered Increment that changes.
- `OneLeaderUnlessRaced`, `AssigneesAreMembers`, `StepsFollowWorkflow`,
  `NobodyApprovesHisOwn`: check-then-write on team and tasks.  `BurndownIsTheSum`: the
  day's point once an update has stored it; `behind` names all that may then part it from
  the sum: creations with hours, edits of the estimate alone, the cascade of a deleted
  item, failures before the point is stored, sums overtaken.
- `OnePendingUnlessRaced`, `CancelledIsKept`, `LastOwnerGoesLate`, `OverdueEnds`:
  account deletion.
- `OneSuccessorUnlessShared`, `LimitUnlessCrowded`, `ResetEndsSessions`,
  `ResetOnceUnlessShared`: sessions at the server.
- `KeptSignedIn`, `LogoutSticks`, `RefreshSettles`: what a browser sees of them.
- `TimersAgree`, `ClosedOnlyIdle`, `ManagersAreIdleClocks`: the idle timeout.  What can
  close a session in use elsewhere is a dialog that news overtook, or that a tab opened on
  its old activity when it became visible.
- `ElapsedUnlessTorn`: a clock's time is right within the delays of the requests that
  wrote it, unless a start met a running clock or a pause or conclusion wrote over what
  it had not read.
- `ShownIsLate`: what a page shows is behind by the age of the data it started from and
  that of the component's own time, which does not tick while the clock is stopped: from a
  start to the first tick the whole stretch before is missing.  Unless another row came
  with the same version, no more than that.
- `TypeOK`, `RequestsTypeOK`: the types of `DoneGate` and `SprintRequests`.  Those of
  `Accounts`, `Increments`, `Sessions`, `SessionTimers`, `SprintLifecycle`,
  `TimeboxView` and `WorkflowInit` are proved instead of run; `SprintTasks!TypeOK` holds
  in the instance below, where no run repeats it.  `SessionClients` adds tabs to
  `Sessions` and has none of its own.

Bounds, and why they are enough.

- `SprintLifecycle.cfg`: two Sprints, two generated ones, one item.  One Sprint runs
  while the other is planned, finishes or is materialised; the properties speak of one
  item at a time.  At most one pair has tasks.
- `SprintRequests.cfg`: two workers, two Sprints, one generated Sprint, one item: the
  races are between two requests, and the proofs cover any number (a third one matters:
  it took the proof to find that a completion can take part in `StartTakesUnlessRaced`).
  `Bounds` keeps items refined and unfinished and without tasks, and goals set, and stops after
  the first kind of request that met a start.
- `DoneGate.cfg`: three requests on one item, so that a gate can meet two replacements,
  with three ids: a definition of one item and one of two.  At most two of the three are
  verifications, gates or removals.
- `WorkflowInit.cfg`: two instances with two sessions, two requests, two attempts, two
  versions; a session takes the lock at most twice (`FewHolds`): a waiting request takes
  no hold, so no endless wait is cut.
- `Increments.cfg`: two Increments, one Sprint, one item, two requests; stops where
  `strained` holds.  Every property relates two Increments, or one and its requests.
- `SprintTasks.cfg`: three users, one task, two requests, hours and
  estimates 0 and 1, edits of one field and the approval that hands the task over, one
  item that has the task; the Product Owner stays, so the other two race for roles and assignments.  Stops where a write was made on a check
  that no longer held; at most one reason puts the burndown behind.
- `Accounts.cfg`: two users, two deletions, two requests, one of whose users schedules;
  `InOrder` replaces symmetry, which liveness does not allow.
- `Sessions.cfg`: three tokens (two can share a parent), two requests, one reset token,
  a limit of one; at most one row is deleted.
- `SessionClients.cfg`: two tabs, two exchanges, three tokens, a limit of two; one thing
  that excuses a lost session at a time.
- `SessionTimers.cfg`: three tabs, so that one tab's news reaches two others; idle after
  4 ticks, warned 2 before, throttled for 1.
- `TimeboxView.cfg`: one page, its buttons and one other participant; two controls, so
  that one meets the run another began; two ticks, which is below the five minutes for
  which cached data is fresh.  Pages meet at the server only, so one is enough.  A new
  id is any free one (`CHOOSE`), with rows for three duplicates.

`CHECK_DEADLOCK FALSE` stands where ids run out (`Accounts`, `Sessions`,
`SessionClients`, `SprintTasks`) or nothing is left to time out (`SessionTimers`); the
other runs check deadlock.

Fairness, and what justifies it.

- `WorkflowInit`: weak fairness of each request's own steps: the event loop runs what
  is ready and its timers fire.  None of arrivals, crashes, expiry or administration,
  and none of success: `LockTimeout` is enabled whenever the acquisition is.
- `Accounts`: weak fairness of `FindOverdue` (the job is scheduled daily) and strong
  fairness of `Expire` for each row: the loop ends at a failure and starts again the
  next day, and no row fails each time.
- `SessionClients`: weak fairness of the server's handling and of `Receive` or `Lose`:
  the client times out, so every exchange ends one way or the other.  This takes for
  granted that the fetch of the CSRF token before it (`frontend/services/core/api.core.ts:36`),
  which has no timeout, ends.
- `SessionTimers`: weak fairness of the clock and of timers that are due; none of
  events or of the user.  `IdleClock` asks for the same of the clock and of `TimeOut`.

The other models assume none and state no liveness: a request that fails leaves nothing
that must still happen.

## Findings

`saveSprintBacklog` plans an item that another PLANNED Sprint already holds
(`sprint_commitment`), and both Sprints then refuse to start.

## Departures

Places where the code visibly does other than a document or a comment says, which the
models follow and no run is spent on:

- Two overlapping starts make two Sprints ACTIVE, where `docs/api/sprints.md:631`
  answers 409; `OneActiveUnlessStartsMeet` shows that nothing less does.
- Two participants who open the planning page together create two clocks: the comment at
  `services/timebox.service.ts:96` relies on the unique constraint, which holds the null
  `sprintId`s of that time apart.
- A start looks at no status (`services/timebox.service.ts:203`), so one of a running
  clock drops its run so far, against the comments at `:9` and `:14`.
- A poll's elapsed time is not taken over while the version stays
  (`EventTimebox.tsx:145`, against `:12` and `:93`): a page that came back to cached data
  stays behind until the next control action, with the `lag` of that data.
- A page polls only while its own data says RUNNING (`EventTimebox.tsx:111`), so one that
  loaded the clock before it was started may never show it running.
- The lock of a Done item (`services/backlog.service.ts:246`) binds updates only: a start
  sets every item to IN_PROGRESS (`services/sprint.service.ts:1027`), a rollback to what
  the client sends (`:1112`), and a removal to READY or to what it had read (`:2299`).
- The gate is in `updatePBI` alone, whose comment (`services/backlog.service.ts:290`) says
  that it "closes the direct-API bypass": `createPBI` and `createPBIBulk` accept DONE
  (`:177`, `:442`).
- The day's burndown point is stale after an edit of a task's estimate alone
  (`services/sprint.service.ts:1759`), which the sum at `:1870` counts while the task has
  no remaining hours.
- A timebox's countdown "updates every second while running"
  (`EventTimebox.tsx:90`), and so not before (`:115`): after a start it is wrong by the
  time the page was open without a running clock, until the first tick.
- `rollbackSprintStart` looks at no status (`services/sprint.service.ts:1089`);
  `docs/api/sprints.md:716` answers "Only an ACTIVE sprint can be rolled back".
  `FinishedIsFinal` therefore excepts it.
- The advisory lock is released on whatever connection is free
  (`services/workflow-lock.service.ts:159`); the comment at `:189` says that it is
  "always released".
- `addWorkflowState` deletes the cache entry under the canonical entity type
  (`services/workflow.service.ts:1271`), which is never written.
- `docs/api/account-management.md:84` and `docs/api/data-export.md:94` promise that an
  account is deleted when its grace period ends; the job marks the row EXPIRED.
  `docs/api/account-management.md:130` blocks the last Product Owner's deletion, which
  may be forced after the grace period.

## Proofs

The theorems hold for any sets of Sprints, items, users, tokens, tabs, requests,
instances and sessions, any session limit, any timeouts and any length of a run.  They
assume only what the modules name as assumptions: null references are no ids, rows or
answers, kinds of ids do not overlap, sets that are counted are finite, and the warning
comes before the idle timeout.

- `Sprints_proofs`, of `SprintLifecycle`.  The inductive invariant is the conjunction of the
  invariants: `OneActiveSprint` needs the types only, while `CancelledIsEmpty` and the
  workability of the running Sprint's items need `OneActiveSprint` and each other's
  premises.  The rollback breaks the latter and `FinishedIsFinal`, so those two are
  proved of `Spec`; the others of `SpecWithRollback`, which includes it.
- `Sprints_proofs`, of `SprintRequests`.  `RequestsInv`: every row a request or an entry names exists
  (`RowsHeld`); until two starts meet, a start in flight is alone and no Sprint runs
  (`StartsAlone`); until a start meets a start or a draft, a start's Sprint is still
  planned, and a completion's or a cancellation's runs or has ended (`InOrder`); until a
  suspect of `StartTakesUnlessRaced` meets a start, the start holds all of its Sprint's
  items and no other committed Sprint has one of them (`Taking`); and likewise every
  generated Sprint has its Sprint's status, and PLANNED while it is materialised
  (`Synced`).  The lemmas beneath say what a step may do to rows and statuses, and that
  it lets in at most one request, which is then the last of those that met.
- `DoneGate_proofs`.  The items a gate has read are the active ones, or gone for good
  (`ReadStands`), since ids do not come back; so a gate that passed and was not overtaken
  still has the items in force and their verifications at its write (`PassedStands`,
  `DoneIsVerified`), and an edit or a removal whose item is Done now and was not, or the
  reverse, was overtaken (`ReadLate`, `DoneStays`).  `DefinitionKept` rests on the unique order of items: the second of two
  overlapping creations fails.
- `WorkflowInit_proofs`.  `OneInitializer` needs that a request in the callback has its
  instance engaged (`Engaged`), that a session of that instance holds the lock unless
  one ended (`Covered`), and that at most one session holds it (`OneHolder`).
  `ServedNeverOlder` needs `Fresh`: what a request carries and what the cache holds is
  not older than what was served.
- `Increments_proofs`.  `Gathered`: as long as nothing is strained, a composition that
  found no Increment is alone with that.  `DeliveredIsFinal` rests on two lemmas: a
  request writes only to the Increment it holds, and takes hold of none that is
  DELIVERED; and no Increment holds a deleted item (`Rooted`).
- `Accounts_proofs`, `SprintTasks_proofs`.  One argument: what a request found holds
  until a step makes it fail, and that step is noted (`RacesNoted`); so a write on a
  check that no longer holds is one `stale` remembers, and any other is as good as made
  at the check.  An update may name the assignee the task has, member or not, so
  `SprintTasks` needs `MemberNoted` besides; `StatusNoted` and `ApprovalNoted` carry the
  workflow's step and the approval rule to the write.
- `Sessions_proofs`.  A token that ended never lives again, so only requests that found
  it together replace it twice (`SharedNoted`, `ReplacedEnded`, `ReplacedShared`).  The
  limit is a count: live sessions, those about to be replaced and those about to be
  opened have room (`Room`, `RoomAtLogin`), by the library's facts on cardinality.
- `Sessions_proofs`, of the tabs.  `ClientsImplementSessions`: what the browser does is a
  step of `Sessions` or a stutter, so the invariants above hold of its exchanges too.
  On top of them `CInv`: a tab has one exchange, and the browser has one unless tabs
  crossed; while nothing happened that may cost the session, the cookie's row is live or
  an exchange is replacing it (`Kept`, `Replaces`); what was sent and is live is the
  cookie's or on its way (`Accounted`); and after a logout nothing is under way (`Away`).
  `KeptSignedIn` and `LogoutSticks` follow from it.
- `Clocks_proofs`, of the managers.  A manager that is on has timers that agree with the
  activity it knows of, one that is not has none.  So an idle timer that is due while
  that activity is `Idle` ticks old comes after the warning, and `ManagersRefineClocks`:
  every step of the managers is a step of each tab's idle clock or a stutter.
  `ClosedOnlyIdle` needs besides that a manager without news on its way knows the stored
  activity, unless its dialog was overtaken (`HInv`), one that a tab opens on becoming
  visible included.
- `Clocks_proofs`, of the timebox.  `BoxInv`: a request between its reads and its write
  names a stored row, not newer than it; while the row still has the version it read, it
  is the row it read.  Every write raises the version, so a pause or a conclusion that
  writes what it did not read is in `torn`, as is a start of a running row, and any other
  write keeps the row within the delays of its true running time (`ElapsedUnlessTorn`).  `PInv`: an answer on its way, or shown,
  tells the truth of its row while that has the answer's version, and the anchor does so
  for the moment it was set from (`ShownIsLate`).

Only model-checked: liveness (`EveryCallAnswered`, `OverdueEnds`, `RefreshSettles`, and
the fairness of the clocks in `ManagersAreIdleClocks`), which the prover does not reach;
and that the burndown's sum is a number (`SprintTasks!TypeOK`), which needs induction over
the tasks (the proofs use the types without it).

## Not modelled, and what is left of the plan

1. The change of a password by its owner, reminders of the deletion job, deletion of a
   team, the reconciliation of the Task workflow, the workflow service's `clearCache` and
   `forceReinitialize`.
2. The records of Review and Retrospective, of which only completion is modelled.

Simplified: a transaction is one instant, so a login between the last statement of a
password reset and its commit is not seen; `Accounts` has one team, and any aged row
satisfies its "due".

Not modelled: the circuit breaker, which no code calls.

Not planned: the Definition of Ready (a checklist that gates nothing), goals, Daily
Scrum, impediments, health checks, notes, notifications, consent, export, reports, the
HTTP layer and the client's pages.  They keep rows of their own or none, and decide
nothing the rest depends on.  They are also most of the code: pages, mocks and
presentation are about two thirds of it, which is why the mapped share of all lines is
small although the services with a protocol are mapped nearly in full.
