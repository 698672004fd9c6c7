----------------------------- MODULE WorkflowInit -----------------------------
(***************************************************************************)
(* The lazy creation of one entity type's default workflow by several      *)
(* server instances: the cache and the single flight within an instance,   *)
(* and the PostgreSQL advisory lock across instances, which belongs to a   *)
(* database session while every statement may use another one of the pool. *)
(*                                                                         *)
(* Source: packages/backend/src/services/workflow.service.ts and           *)
(* workflow-lock.service.ts.                                               *)
(***************************************************************************)
EXTENDS Naturals, FiniteSets

CONSTANTS
    Instances,   \* server processes
    Callers,     \* requests that need the workflow
    Slots,       \* connections in an instance's pool
    MaxRetries,  \* MAX_INITIALIZATION_RETRIES
    MaxVersion,  \* bound on the workflow's versions: 1 is the default one
    None         \* no instance, no caller

ASSUME RetriesAssumption == MaxRetries \in Nat /\ MaxVersion \in Nat \ {0}
ASSUME NoneAssumption == None \notin Instances \cup Callers

VARIABLES
    version,    \* the Workflow row: 0 while absent, 1 as created, more as extended
    held,       \* how often each database session holds the advisory lock
    call,       \* what each request is doing
    starter,    \* initializationLocks: the request whose promise the others await
    attempts,   \* initializationAttempts
    cache,      \* workflowCache: the version under each key, 0 for none
    served,     \* history: the last version an instance answered with
    lost        \* history: a session ended while its instance relied on the lock

vars == <<version, held, call, starter, attempts, cache, served, lost>>

Sessions == Instances \X Slots
Versions == 0..MaxVersion

\* Entries are written under the lower-cased entity type; the Workflow row holds it
\* in its canonical case.
Normalised == "backlogitem"
Canonical == "BacklogItem"
Keys == {Normalised, Canonical}

Phases == {"idle", "waiting", "fetch", "deliver", "lock", "check", "create", "unlock",
           "refetch", "backoff"}
Outcomes == {"none", "ok", "duplicate", "failed"}

IdleCall == [at |-> None, phase |-> "idle", user |-> FALSE, snap |-> 0, out |-> "none"]

Call == [at : Instances \cup {None}, phase : Phases, user : BOOLEAN, snap : Versions,
         out : Outcomes]

\* Requests, locks and caches have the shapes the service gives them.
TypeOK ==
    /\ version \in Versions
    /\ held \in [Sessions -> Nat]
    /\ call \in [Callers -> Call]
    /\ starter \in [Instances -> Callers \cup {None}]
    /\ attempts \in [Instances -> 0..MaxRetries]
    /\ cache \in [Instances -> [Keys -> Versions]]
    /\ served \in [Instances -> Versions]
    /\ lost \in BOOLEAN

Init ==
    /\ version = 0
    /\ held = [s \in Sessions |-> 0]
    /\ call = [c \in Callers |-> IdleCall]
    /\ starter = [i \in Instances |-> None]
    /\ attempts = [i \in Instances |-> 0]
    /\ cache = [i \in Instances |-> [k \in Keys |-> 0]]
    /\ served = [i \in Instances |-> 0]
    /\ lost = FALSE

At(c) == call[c].at
Cached(i) == cache[i][Normalised]

\* Between the acquisition of the lock and its release.
InCallback(c) == call[c].phase \in {"check", "create"}

\* c's request goes on to phase ph.
Goto(c, ph) == call' = [call EXCEPT ![c].phase = ph]

\* The promise of c settles with version v, 0 for null or an error: c and whoever
\* awaits it are answered, and the entry of initializationLocks goes.
Settle(c, v) ==
    /\ call' = [d \in Callers |->
                  IF d = c \/ (At(d) = At(c) /\ call[d].phase = "waiting")
                  THEN IdleCall ELSE call[d]]
    /\ starter' = [starter EXCEPT ![At(c)] = None]
    /\ served' = IF v = 0 THEN served ELSE [served EXCEPT ![At(c)] = v]

CacheWorkflow(c, v) == cache' = [cache EXCEPT ![At(c)][Normalised] = v]

-----------------------------------------------------------------------------
(* getWorkflowByEntityType, for a caller with or without a user id.        *)

CacheHit(c, i) ==
    /\ call[c] = IdleCall
    /\ Cached(i) # 0
    /\ served' = [served EXCEPT ![i] = Cached(i)]
    /\ UNCHANGED <<version, held, call, starter, attempts, cache, lost>>

Join(c, i, u) ==
    /\ call[c] = IdleCall
    /\ Cached(i) = 0 /\ starter[i] # None
    /\ call' = [call EXCEPT ![c] = [IdleCall EXCEPT !.at = i, !.phase = "waiting", !.user = u]]
    /\ UNCHANGED <<version, held, starter, attempts, cache, served, lost>>

\* Mutant: a request does not look for an initialization in progress.
StartAlways(c, i, u) ==
    /\ call[c] = IdleCall
    /\ Cached(i) = 0
    /\ call' = [call EXCEPT ![c] = [IdleCall EXCEPT !.at = i, !.phase = "fetch", !.user = u]]
    /\ starter' = [starter EXCEPT ![i] = c]
    /\ UNCHANGED <<version, held, attempts, cache, served, lost>>

Start(c, i, u) ==
    /\ call[c] = IdleCall
    /\ Cached(i) = 0 /\ starter[i] = None
    /\ call' = [call EXCEPT ![c] = [IdleCall EXCEPT !.at = i, !.phase = "fetch", !.user = u]]
    /\ starter' = [starter EXCEPT ![i] = c]
    /\ UNCHANGED <<version, held, attempts, cache, served, lost>>

-----------------------------------------------------------------------------
(* initializeWorkflow.                                                     *)

MayTry(i) == attempts[i] < MaxRetries

\* The fast path reads the row; without one the attempt is counted, and the attempt
\* after the last gives up.
Fetch(c) ==
    LET i == At(c) IN
    /\ call[c].phase = "fetch"
    /\ \/ /\ version # 0
          /\ call' = [call EXCEPT ![c].phase = "deliver", ![c].snap = version]
          /\ UNCHANGED <<starter, attempts, served>>
       \/ /\ version = 0 /\ MayTry(i)
          /\ attempts' = [attempts EXCEPT ![i] = @ + 1]
          /\ Goto(c, "lock")
          /\ UNCHANGED <<starter, served>>
       \/ /\ version = 0 /\ ~MayTry(i)
          /\ attempts' = [attempts EXCEPT ![i] = 0]
          /\ Settle(c, 0)
    /\ UNCHANGED <<version, held, cache, lost>>

\* The row the fast path read reaches the instance, and is cached.
Deliver(c) ==
    /\ call[c].phase = "deliver"
    /\ CacheWorkflow(c, call[c].snap)
    /\ Settle(c, call[c].snap)
    /\ UNCHANGED <<version, held, attempts, lost>>

\* pg_try_advisory_lock in session s of the pool: it succeeds unless another session
\* holds the lock, and counts when s holds it already.
TryLock(c, s) ==
    /\ call[c].phase = "lock"
    /\ s[1] = At(c)
    /\ \A t \in Sessions \ {s} : held[t] = 0
    /\ held' = [held EXCEPT ![s] = @ + 1]
    /\ Goto(c, "check")
    /\ UNCHANGED <<version, starter, attempts, cache, served, lost>>

\* Mutants: an acquisition that timed out goes on as if it held the lock; the
\* acquisition is retried for ever.
LockTimeoutIgnored(c) ==
    /\ call[c].phase = "lock"
    /\ Goto(c, "check")
    /\ UNCHANGED <<version, held, starter, attempts, cache, served, lost>>
NoLockTimeout(c) == FALSE

LockTimeout(c) ==
    /\ call[c].phase = "lock"
    /\ Goto(c, "backoff")
    /\ UNCHANGED <<version, held, starter, attempts, cache, served, lost>>

\* The callback's second look, then the creation, which needs a user id and which the
\* unique entityType refuses when the row exists by now.
DoubleCheck(c) ==
    /\ call[c].phase = "check"
    /\ call' = [call EXCEPT ![c] =
                  IF version = 0 THEN [@ EXCEPT !.phase = "create"]
                  ELSE [@ EXCEPT !.phase = "unlock", !.snap = version, !.out = "ok"]]
    /\ UNCHANGED <<version, held, starter, attempts, cache, served, lost>>

CreateDefault(c) ==
    LET out == IF ~call[c].user THEN "failed" ELSE IF version = 0 THEN "ok" ELSE "duplicate"
    IN
    /\ call[c].phase = "create"
    /\ version' = IF out = "ok" THEN 1 ELSE version
    /\ call' = [call EXCEPT ![c].phase = "unlock", ![c].out = out,
                            ![c].snap = IF out = "ok" THEN 1 ELSE 0]
    /\ UNCHANGED <<held, starter, attempts, cache, served, lost>>

\* pg_advisory_unlock in session s of the pool.  A session that does not hold the
\* lock answers false, which is logged and forgotten.
Unlock(c, s) ==
    LET i == At(c) IN
    /\ call[c].phase = "unlock"
    /\ s[1] = i
    /\ held' = IF held[s] = 0 THEN held ELSE [held EXCEPT ![s] = @ - 1]
    /\ \/ /\ call[c].out = "ok"
          /\ CacheWorkflow(c, call[c].snap)
          /\ attempts' = [attempts EXCEPT ![i] = 0]
          /\ Settle(c, call[c].snap)
       \/ /\ call[c].out = "duplicate" /\ Goto(c, "refetch")
          /\ UNCHANGED <<starter, attempts, cache, served>>
       \/ /\ call[c].out = "failed" /\ Goto(c, "backoff")
          /\ UNCHANGED <<starter, attempts, cache, served>>
    /\ UNCHANGED <<version, lost>>

\* The row another instance created meanwhile.
Refetch(c) ==
    /\ call[c].phase = "refetch"
    /\ CacheWorkflow(c, version)
    /\ attempts' = [attempts EXCEPT ![At(c)] = 0]
    /\ Settle(c, version)
    /\ UNCHANGED <<version, held, lost>>

Backoff(c) ==
    /\ call[c].phase = "backoff"
    /\ Settle(c, 0)
    /\ UNCHANGED <<version, held, attempts, cache, lost>>

\* A statement fails: outside the callback the promise rejects, inside it the lock is
\* released first.
StatementFails(c) ==
    /\ \/ /\ call[c].phase \in {"fetch", "refetch"} /\ Settle(c, 0)
       \/ /\ InCallback(c)
          /\ call' = [call EXCEPT ![c].phase = "unlock", ![c].out = "failed"]
          /\ UNCHANGED <<starter, served>>
    /\ UNCHANGED <<version, held, attempts, cache, lost>>

-----------------------------------------------------------------------------
(* Administration, expiry and faults.                                      *)

\* createWorkflow: an administrator's own row, which the unique entityType refuses
\* when there is one.
CreateWorkflow ==
    /\ version = 0
    /\ version' = 1
    /\ UNCHANGED <<held, call, starter, attempts, cache, served, lost>>

\* addWorkflowState and addWorkflowTransition write the row's parts and delete the
\* cache entry named by the row's entity type.
AddState(i) ==
    /\ version \in 1..(MaxVersion - 1)
    /\ version' = version + 1
    /\ cache' = [cache EXCEPT ![i][Canonical] = 0]
    /\ UNCHANGED <<held, call, starter, attempts, served, lost>>

\* The time to live of an entry has passed.
Expire(i) ==
    /\ Cached(i) # 0
    /\ cache' = [cache EXCEPT ![i][Normalised] = 0]
    /\ UNCHANGED <<version, held, call, starter, attempts, served, lost>>

\* The pool closes an idle connection, or the network does: its locks go.
SessionEnds(s) ==
    /\ held[s] > 0
    /\ held' = [held EXCEPT ![s] = 0]
    /\ lost' = (lost \/ \E c \in Callers : At(c) = s[1] /\ InCallback(c))
    /\ UNCHANGED <<version, call, starter, attempts, cache, served>>

Crash(i) ==
    /\ held' = [s \in Sessions |-> IF s[1] = i THEN 0 ELSE held[s]]
    /\ call' = [c \in Callers |-> IF At(c) = i THEN IdleCall ELSE call[c]]
    /\ starter' = [starter EXCEPT ![i] = None]
    /\ attempts' = [attempts EXCEPT ![i] = 0]
    /\ cache' = [cache EXCEPT ![i] = [k \in Keys |-> 0]]
    /\ served' = [served EXCEPT ![i] = 0]
    /\ UNCHANGED <<version, lost>>

-----------------------------------------------------------------------------
Arrive(c) ==
    \E i \in Instances :
        CacheHit(c, i) \/ \E u \in BOOLEAN : Join(c, i, u) \/ Start(c, i, u)

Advance(c) ==
    \/ Fetch(c) \/ Deliver(c) \/ LockTimeout(c) \/ DoubleCheck(c) \/ CreateDefault(c)
    \/ Refetch(c) \/ Backoff(c)
    \/ \E s \in Sessions : TryLock(c, s) \/ Unlock(c, s)

Environment ==
    \/ CreateWorkflow
    \/ \E i \in Instances : AddState(i) \/ Expire(i) \/ Crash(i)
    \/ \E s \in Sessions : SessionEnds(s)

Next ==
    \/ \E c \in Callers : Arrive(c) \/ Advance(c) \/ StatementFails(c)
    \/ Environment

\* The event loop runs whatever is ready, and timers fire.
Fairness == \A c \in Callers : WF_vars(Advance(c))

Spec == Init /\ [][Next]_vars /\ Fairness

-----------------------------------------------------------------------------
\* One instance at a time looks for the workflow and creates it, in spite of leaked
\* locks, failures and crashes, as long as no session ends under the lock it holds.
OneInitializer ==
    ~lost => \A c, d \in Callers : InCallback(c) /\ InCallback(d) => c = d

\* An instance never answers with an older workflow than before: a read that started
\* first cannot overwrite the cache of one that started later.
ServedNeverOlder ==
    [][\A i \in Instances : served'[i] >= served[i] \/ served'[i] = 0]_vars

\* Every request for the workflow is answered, even when the lock was leaked to a
\* session that never ends.
EveryCallAnswered ==
    \A c \in Callers : call[c].phase # "idle" ~> call[c].phase = "idle"
=============================================================================
