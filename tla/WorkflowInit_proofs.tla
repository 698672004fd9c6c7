-------------------------- MODULE WorkflowInit_proofs --------------------------
(***************************************************************************)
(* What the lazy creation of a workflow guarantees for any number of       *)
(* instances, requests and pooled connections.                             *)
(***************************************************************************)
EXTENDS WorkflowInit, TLAPS

\* A request past the cache sits in an instance, and all but those that await a
\* promise are that instance's starter.
Engaged ==
    \A c \in Callers :
        /\ call[c].phase # "idle" => At(c) \in Instances
        /\ call[c].phase \notin {"idle", "waiting"} => starter[At(c)] = c

\* pg_try_advisory_lock: one session holds the lock.
OneHolder == \A s, t \in Sessions : held[s] > 0 /\ held[t] > 0 => s = t

\* A request in the callback has a session of its instance that holds the lock.
Covered ==
    ~lost => \A c \in Callers : InCallback(c) =>
                \E s \in Sessions : s[1] = At(c) /\ held[s] > 0

\* The version c is about to answer with and to cache.
Answering(c) == call[c].phase = "deliver" \/ (call[c].phase = "unlock" /\ call[c].out = "ok")

\* Nothing is cached while a request is under way, and neither the cache nor an
\* answer under way is older than what the instance answered before.
Fresh ==
    /\ \A i \in Instances :
          /\ served[i] <= version
          /\ Cached(i) # 0 =>
                starter[i] = None /\ served[i] <= Cached(i) /\ Cached(i) <= version
    /\ \A c \in Callers : Answering(c) =>
          served[At(c)] <= call[c].snap /\ call[c].snap <= version

Inv == TypeOK /\ Engaged /\ OneHolder /\ Covered /\ Fresh

-----------------------------------------------------------------------------
\* The values the types speak of.
LEMMA Values ==
  /\ 0 \in Versions /\ 1 \in Versions /\ MaxRetries \in Nat /\ MaxVersion \in Nat
  /\ Versions \subseteq Nat
  /\ IdleCall \in Call
<1>1. 0 \in Versions /\ 1 \in Versions /\ MaxRetries \in Nat /\ MaxVersion \in Nat
  BY RetriesAssumption DEF Versions
<1>2. "idle" \in Phases /\ "none" \in Outcomes
  BY DEF Phases, Outcomes
<1> QED
  BY <1>1, <1>2 DEF Call, IdleCall, Versions

\* A request that moves on stays a request.
LEMMA Moves ==
  ASSUME NEW r \in Call, NEW ph \in Phases, NEW v \in Versions, NEW o \in Outcomes
  PROVE  /\ [r EXCEPT !.phase = ph] \in Call
         /\ [r EXCEPT !.phase = ph, !.snap = v] \in Call
         /\ [r EXCEPT !.phase = ph, !.out = o] \in Call
         /\ [r EXCEPT !.phase = ph, !.snap = v, !.out = o] \in Call
         /\ [r EXCEPT !.phase = ph, !.out = o, !.snap = v] \in Call
BY DEF Call

\* No row, nobody holds the lock and no request is under way.
LEMMA InitInv == Init => Inv
<1> SUFFICES ASSUME Init PROVE Inv
  OBVIOUS
<1>1. TypeOK
  <2>1. 0 \in 0..MaxRetries
    BY Values
  <2> QED
    BY <2>1, Values DEF TypeOK, Init
<1>2. Engaged /\ OneHolder /\ Covered
  BY DEF Engaged, OneHolder, Covered, InCallback, Init, IdleCall, Sessions
<1>3. Fresh
  BY DEF Fresh, Answering, Init, IdleCall, Cached, Keys, Normalised, Canonical
<1> QED
  BY <1>1, <1>2, <1>3 DEF Inv

-----------------------------------------------------------------------------
\* Settling a promise keeps the shapes.
LEMMA SettleTypes ==
  ASSUME TypeOK, NEW c \in Callers, At(c) \in Instances, NEW v \in Versions, Settle(c, v)
  PROVE  /\ call' \in [Callers -> Call]
         /\ starter' \in [Instances -> Callers \cup {None}]
         /\ served' \in [Instances -> Versions]
<1>1. call' \in [Callers -> Call]
  BY Values DEF Settle, TypeOK
<1> QED
  BY <1>1 DEF Settle, TypeOK

\* A request that arrives keeps the shapes.
LEMMA ArriveTypes ==
  ASSUME TypeOK, NEW c \in Callers, Arrive(c)
  PROVE  TypeOK'
<1>1. PICK i \in Instances : CacheHit(c, i) \/ \E u \in BOOLEAN : Join(c, i, u) \/ Start(c, i, u)
  BY DEF Arrive
<1>2. CASE CacheHit(c, i)
  <2>1. Cached(i) \in Versions
    BY DEF TypeOK, Cached, Keys
  <2> QED
    BY <1>2, <2>1 DEF TypeOK, CacheHit
<1>3. ASSUME NEW u \in BOOLEAN, Join(c, i, u) \/ Start(c, i, u)
      PROVE  TypeOK'
  <2>1. /\ [IdleCall EXCEPT !.at = i, !.phase = "waiting", !.user = u] \in Call
        /\ [IdleCall EXCEPT !.at = i, !.phase = "fetch", !.user = u] \in Call
    BY Values DEF Call, Phases
  <2> QED
    BY <1>3, <2>1 DEF TypeOK, Join, Start
<1> QED
  BY <1>1, <1>2, <1>3

\* A request that goes on keeps the shapes.
LEMMA AdvanceTypes ==
  ASSUME TypeOK, Engaged, NEW c \in Callers, Advance(c) \/ StatementFails(c)
  PROVE  TypeOK'
<1>1. call[c] \in Call /\ call[c].snap \in Versions /\ version \in Versions
  BY DEF TypeOK, Call
<1>2. /\ \A ph \in {"deliver", "lock", "check", "create", "unlock", "refetch", "backoff"} :
            ph \in Phases /\ [call[c] EXCEPT !.phase = ph] \in Call
      /\ \A o \in {"ok", "duplicate", "failed"} : o \in Outcomes
      /\ Normalised \in Keys
  BY <1>1, Moves DEF Phases, Outcomes, Keys
<1>3. CASE Fetch(c)
  <2>1. At(c) \in Instances
    BY <1>3 DEF Fetch, Engaged
  <2>2. CASE version # 0
    <3>1. [call[c] EXCEPT !.phase = "deliver", !.snap = version] \in Call
      BY <1>1, <1>2, Moves
    <3> QED
      BY <1>3, <2>2, <3>1 DEF TypeOK, Fetch
  <2>3. CASE version = 0 /\ MayTry(At(c))
    <3>1. attempts[At(c)] + 1 \in 0..MaxRetries
      BY <2>1, <2>3, Values DEF TypeOK, MayTry
    <3> QED
      BY <1>2, <1>3, <2>1, <2>3, <3>1 DEF TypeOK, Fetch, Goto
  <2>4. CASE version = 0 /\ ~MayTry(At(c))
    <3>1. Settle(c, 0) /\ attempts' = [attempts EXCEPT ![At(c)] = 0]
      BY <1>3, <2>4 DEF Fetch
    <3>2. 0 \in 0..MaxRetries
      BY Values
    <3> QED
      BY <1>3, <2>1, <3>1, <3>2, Values, SettleTypes DEF TypeOK, Fetch
  <2> QED
    BY <2>2, <2>3, <2>4
<1>4. CASE Deliver(c) \/ Refetch(c)
  <2>1. At(c) \in Instances /\ 0 \in 0..MaxRetries
    BY <1>4, Values DEF Deliver, Refetch, Engaged
  <2>2. \E v \in Versions : Settle(c, v) /\ CacheWorkflow(c, v)
    BY <1>1, <1>4 DEF Deliver, Refetch
  <2>3. cache' \in [Instances -> [Keys -> Versions]]
    BY <1>2, <2>1, <2>2 DEF CacheWorkflow, TypeOK
  <2> QED
    BY <1>4, <2>1, <2>2, <2>3, SettleTypes DEF TypeOK, Deliver, Refetch
<1>5. CASE LockTimeout(c)
  BY <1>2, <1>5 DEF TypeOK, LockTimeout, Goto
<1>6. CASE Backoff(c)
  <2>1. At(c) \in Instances
    BY <1>6 DEF Backoff, Engaged
  <2> QED
    BY <1>6, <2>1, Values, SettleTypes DEF TypeOK, Backoff
<1>7. CASE DoubleCheck(c)
  <2>1. /\ [call[c] EXCEPT !.phase = "create"] \in Call
        /\ [call[c] EXCEPT !.phase = "unlock", !.snap = version, !.out = "ok"] \in Call
    BY <1>1, <1>2, Moves
  <2> QED
    BY <1>7, <2>1 DEF TypeOK, DoubleCheck
<1>8. CASE CreateDefault(c)
  <2> DEFINE out == IF ~call[c].user THEN "failed" ELSE IF version = 0 THEN "ok" ELSE "duplicate"
  <2>1. out \in Outcomes /\ (IF out = "ok" THEN 1 ELSE 0) \in Versions
    BY <1>2, Values
  <2>2. [call[c] EXCEPT !.phase = "unlock", !.out = out, !.snap = IF out = "ok" THEN 1 ELSE 0]
           \in Call
    BY <1>1, <1>2, <2>1, Moves
  <2> QED
    BY <1>8, <2>2, Values DEF TypeOK, CreateDefault
<1>9. CASE StatementFails(c)
  <2>1. CASE InCallback(c)
    <3>1. [call[c] EXCEPT !.phase = "unlock", !.out = "failed"] \in Call
      BY <1>1, <1>2, Moves
    <3>2. call[c].phase \notin {"fetch", "refetch"}
      BY <2>1 DEF InCallback
    <3> QED
      BY <1>9, <3>1, <3>2 DEF TypeOK, StatementFails
  <2>2. CASE ~InCallback(c)
    <3>1. At(c) \in Instances /\ Settle(c, 0)
      BY <1>9, <2>2 DEF StatementFails, Engaged
    <3> QED
      BY <1>9, <3>1, Values, SettleTypes DEF TypeOK, StatementFails
  <2> QED
    BY <2>1, <2>2
<1>10. ASSUME NEW s \in Sessions, TryLock(c, s)
       PROVE  TypeOK'
  <2>1. held[s] + 1 \in Nat
    BY DEF TypeOK
  <2> QED
    BY <1>2, <1>10, <2>1 DEF TypeOK, TryLock, Goto
<1>11. ASSUME NEW s \in Sessions, Unlock(c, s)
       PROVE  TypeOK'
  <2>1. At(c) \in Instances /\ 0 \in 0..MaxRetries
    BY <1>11, Values DEF Unlock, Engaged
  <2>2. held' \in [Sessions -> Nat]
    <3>1. held[s] # 0 => held[s] - 1 \in Nat
      BY DEF TypeOK
    <3> QED
      BY <1>11, <3>1 DEF Unlock, TypeOK
  <2>3. CASE call[c].out = "ok"
    <3>1. Settle(c, call[c].snap) /\ CacheWorkflow(c, call[c].snap)
          /\ attempts' = [attempts EXCEPT ![At(c)] = 0]
      BY <1>11, <2>3 DEF Unlock
    <3>2. cache' \in [Instances -> [Keys -> Versions]]
      BY <1>1, <1>2, <2>1, <3>1 DEF CacheWorkflow, TypeOK
    <3> QED
      BY <1>1, <1>11, <2>1, <2>2, <3>1, <3>2, SettleTypes DEF TypeOK, Unlock
  <2>4. CASE call[c].out # "ok"
    BY <1>2, <1>11, <2>2, <2>4 DEF TypeOK, Unlock, Goto
  <2> QED
    BY <2>3, <2>4
<1> QED
  BY <1>3, <1>4, <1>5, <1>6, <1>7, <1>8, <1>9, <1>10, <1>11 DEF Advance

\* Administration, expiry and faults keep the shapes.
LEMMA EnvironmentTypes ==
  ASSUME TypeOK, Environment
  PROVE  TypeOK'
<1>1. CASE CreateWorkflow
  BY <1>1, Values DEF TypeOK, CreateWorkflow
<1>2. ASSUME NEW i \in Instances, AddState(i) \/ Expire(i)
      PROVE  TypeOK'
  <2>1. version \in 1..(MaxVersion - 1) => version + 1 \in Versions
    BY Values DEF Versions
  <2>2. Normalised \in Keys /\ Canonical \in Keys
    BY DEF Keys
  <2>3. CASE AddState(i)
    <3>1. cache' \in [Instances -> [Keys -> Versions]]
      BY <2>2, <2>3, Values DEF TypeOK, AddState
    <3> QED
      BY <2>1, <2>3, <3>1 DEF TypeOK, AddState
  <2>4. CASE Expire(i)
    <3>1. cache' \in [Instances -> [Keys -> Versions]]
      BY <2>2, <2>4, Values DEF TypeOK, Expire
    <3> QED
      BY <2>4, <3>1 DEF TypeOK, Expire
  <2> QED
    BY <1>2, <2>3, <2>4
<1>3. ASSUME NEW i \in Instances, Crash(i)
      PROVE  TypeOK'
  <2>1. 0 \in 0..MaxRetries
    BY Values
  <2> QED
    BY <1>3, <2>1, Values DEF TypeOK, Crash
<1>4. ASSUME NEW s \in Sessions, SessionEnds(s)
      PROVE  TypeOK'
  BY <1>4 DEF TypeOK, SessionEnds
<1> QED
  BY <1>1, <1>2, <1>3, <1>4 DEF Environment

-----------------------------------------------------------------------------
\* A request under way is the starter of its instance, so no other one is under way
\* there.
LEMMA OneFlight ==
  ASSUME Engaged, NEW c \in Callers, NEW d \in Callers, At(c) = At(d),
         call[c].phase \notin {"idle", "waiting"}, call[d].phase \notin {"idle", "waiting"}
  PROVE  c = d
BY DEF Engaged

\* A step of a request either settles its promise or changes nothing but the request,
\* as far as the instance can see.
Proceeds(c) ==
    /\ UNCHANGED <<starter, served, cache>>
    /\ \E r \in Call : r.at = At(c) /\ call' = [call EXCEPT ![c] = r]

LEMMA SettlesOrProceeds ==
  ASSUME TypeOK, NEW c \in Callers, Advance(c) \/ StatementFails(c)
  PROVE  /\ call[c].phase \notin {"idle", "waiting"}
         /\ Proceeds(c) \/ \E v \in Versions : Settle(c, v)
<1>1. call[c].phase \notin {"idle", "waiting"}
  BY DEF Advance, StatementFails, InCallback, Fetch, Deliver, LockTimeout, DoubleCheck,
         CreateDefault, Refetch, Backoff, TryLock, Unlock
<1>2. call[c] \in Call /\ call[c].snap \in Versions /\ version \in Versions /\ 0 \in Versions
  BY Values DEF TypeOK, Call
<1>3. \A ph \in {"lock", "check", "backoff", "refetch"} :
         Goto(c, ph) => \E r \in Call : r.at = At(c) /\ call' = [call EXCEPT ![c] = r]
  <2> SUFFICES ASSUME NEW ph \in {"lock", "check", "backoff", "refetch"}, Goto(c, ph)
               PROVE  \E r \in Call : r.at = At(c) /\ call' = [call EXCEPT ![c] = r]
    OBVIOUS
  <2>1. [call[c] EXCEPT !.phase = ph] \in Call
    BY <1>2, Moves DEF Phases, Outcomes
  <2>2. [call[c] EXCEPT !.phase = ph].at = At(c)
    BY <1>2 DEF At, Call
  <2> QED
    BY <2>1, <2>2 DEF Goto
<1>4. CASE Fetch(c)
  <2>1. CASE version # 0
    <3> DEFINE r == [call[c] EXCEPT !.phase = "deliver", !.snap = version]
    <3>1. r \in Call
      BY <1>2, Moves DEF Phases, Outcomes
    <3>2. r.at = At(c)
      BY <1>2 DEF At, Call
    <3> QED
      BY <1>1, <1>4, <2>1, <3>1, <3>2 DEF Fetch, Proceeds
  <2> QED
    BY <1>1, <1>2, <1>3, <1>4, <2>1 DEF Fetch, Proceeds
<1>5. CASE Deliver(c) \/ Refetch(c) \/ Backoff(c)
  BY <1>1, <1>2, <1>5 DEF Deliver, Refetch, Backoff
<1>6. CASE LockTimeout(c) \/ \E s \in Sessions : TryLock(c, s)
  BY <1>1, <1>3, <1>6 DEF LockTimeout, TryLock, Proceeds
<1>7. CASE DoubleCheck(c)
  <2> DEFINE r == IF version = 0 THEN [call[c] EXCEPT !.phase = "create"]
                  ELSE [call[c] EXCEPT !.phase = "unlock", !.snap = version, !.out = "ok"]
  <2>1. r \in Call
    BY <1>2, Moves DEF Phases, Outcomes
  <2>2. r.at = At(c)
    BY <1>2 DEF At, Call
  <2>3. call' = [call EXCEPT ![c] = r]
    BY <1>7 DEF DoubleCheck
  <2> QED
    BY <1>1, <1>7, <2>1, <2>2, <2>3 DEF DoubleCheck, Proceeds
<1>8. CASE CreateDefault(c)
  <2> DEFINE out == IF ~call[c].user THEN "failed" ELSE IF version = 0 THEN "ok" ELSE "duplicate"
             r == [call[c] EXCEPT !.phase = "unlock", !.out = out,
                                  !.snap = IF out = "ok" THEN 1 ELSE 0]
  <2>1. out \in Outcomes /\ (IF out = "ok" THEN 1 ELSE 0) \in Versions
    BY Values DEF Outcomes
  <2>2. r \in Call
    BY <1>2, <2>1, Moves DEF Phases, Outcomes
  <2>3. r.at = At(c)
    BY <1>2 DEF At, Call
  <2>4. call' = [call EXCEPT ![c] = r]
    BY <1>8 DEF CreateDefault
  <2> QED
    BY <1>1, <1>8, <2>2, <2>3, <2>4 DEF CreateDefault, Proceeds
<1>9. CASE \E s \in Sessions : Unlock(c, s)
  BY <1>1, <1>2, <1>3, <1>9 DEF Unlock, Proceeds
<1>10. CASE StatementFails(c)
  <2>1. CASE InCallback(c)
    <3> DEFINE r == [call[c] EXCEPT !.phase = "unlock", !.out = "failed"]
    <3>1. r \in Call
      BY <1>2, Moves DEF Phases, Outcomes
    <3>2. r.at = At(c)
      BY <1>2 DEF At, Call
    <3>3. call[c].phase \notin {"fetch", "refetch"}
      BY <2>1 DEF InCallback
    <3> QED
      BY <1>1, <1>10, <3>1, <3>2, <3>3 DEF StatementFails, Proceeds
  <2> QED
    BY <1>1, <1>2, <1>10, <2>1 DEF StatementFails
<1> QED
  BY <1>4, <1>5, <1>6, <1>7, <1>8, <1>9, <1>10 DEF Advance

\* Requests stay engaged, whatever they do.
LEMMA EngagedStep ==
  ASSUME TypeOK, Engaged, [Next]_vars
  PROVE  Engaged'
<1>1. ASSUME NEW c \in Callers, NEW v, Settle(c, v), call[c].phase \notin {"idle", "waiting"}
      PROVE  Engaged'
  <2> SUFFICES ASSUME NEW d \in Callers, call'[d].phase # "idle"
               PROVE  /\ call'[d].at \in Instances
                      /\ call'[d].phase # "waiting" => starter'[call'[d].at] = d
    BY DEF Engaged, At
  <2>1. call'[d] = call[d] /\ d # c /\ ~(At(d) = At(c) /\ call[d].phase = "waiting")
    BY <1>1 DEF Settle, IdleCall
  <2>2. At(d) \in Instances /\ At(c) \in Instances
    BY <1>1, <2>1 DEF Engaged
  <2>3. CASE call[d].phase = "waiting"
    BY <2>1, <2>2, <2>3 DEF At
  <2>4. CASE call[d].phase # "waiting"
    <3>1. At(d) # At(c)
      BY <1>1, <2>1, <2>4, OneFlight
    <3> QED
      BY <1>1, <2>1, <2>2, <2>4, <3>1 DEF Settle, Engaged, At, TypeOK
  <2> QED
    BY <2>3, <2>4
<1>2. ASSUME NEW c \in Callers, call[c].phase \notin {"idle", "waiting"},
             NEW r, call' = [call EXCEPT ![c] = r], r.at = At(c), UNCHANGED starter
      PROVE  Engaged'
  BY <1>2 DEF Engaged, At, TypeOK
<1>3. ASSUME NEW c \in Callers, Arrive(c)
      PROVE  Engaged'
  <2>1. PICK i \in Instances :
          CacheHit(c, i) \/ \E u \in BOOLEAN : Join(c, i, u) \/ Start(c, i, u)
    BY <1>3 DEF Arrive
  <2>2. CASE CacheHit(c, i)
    BY <2>2 DEF CacheHit, Engaged, At
  <2>3. ASSUME NEW u \in BOOLEAN, Join(c, i, u)
        PROVE  Engaged'
    BY <2>3 DEF Join, Engaged, At, IdleCall, TypeOK
  <2>4. ASSUME NEW u \in BOOLEAN, Start(c, i, u)
        PROVE  Engaged'
    BY <2>4, NoneAssumption DEF Start, Engaged, At, IdleCall, TypeOK
  <2> QED
    BY <2>1, <2>2, <2>3, <2>4
<1>4. ASSUME NEW c \in Callers, Advance(c) \/ StatementFails(c)
      PROVE  Engaged'
  BY <1>1, <1>2, <1>4, SettlesOrProceeds DEF Proceeds
<1>5. CASE Environment
  <2>1. ASSUME NEW i \in Instances, Crash(i)
        PROVE  Engaged'
    BY <2>1 DEF Crash, Engaged, At, IdleCall, TypeOK
  <2> QED
    BY <1>5, <2>1 DEF Environment, CreateWorkflow, AddState, Expire, SessionEnds, Engaged, At
<1>6. CASE UNCHANGED vars
  BY <1>6 DEF vars, Engaged, At
<1> QED
  BY <1>3, <1>4, <1>5, <1>6 DEF Next

-----------------------------------------------------------------------------
\* Only taking, releasing or losing the lock touches the sessions.
LEMMA HeldUntouched ==
  ASSUME Next,
         \A c \in Callers, s \in Sessions : ~TryLock(c, s) /\ ~Unlock(c, s),
         \A s \in Sessions : ~SessionEnds(s), \A i \in Instances : ~Crash(i)
  PROVE  UNCHANGED <<held, lost>>
BY DEF Next, Arrive, Advance, Environment, CacheHit, Join, Start, Fetch, Deliver, LockTimeout,
       DoubleCheck, CreateDefault, Refetch, Backoff, StatementFails, CreateWorkflow, AddState,
       Expire

\* At most one session holds the advisory lock.
LEMMA OneHolderStep ==
  ASSUME TypeOK, OneHolder, [Next]_vars
  PROVE  OneHolder'
<1>1. ASSUME NEW c \in Callers, NEW s \in Sessions, TryLock(c, s)
      PROVE  OneHolder'
  BY <1>1 DEF TryLock, OneHolder, TypeOK
<1>2. ASSUME NEW c \in Callers, NEW s \in Sessions, Unlock(c, s)
      PROVE  OneHolder'
  BY <1>2 DEF Unlock, OneHolder, TypeOK
<1>3. ASSUME NEW s \in Sessions, SessionEnds(s)
      PROVE  OneHolder'
  BY <1>3 DEF SessionEnds, OneHolder, TypeOK
<1>4. ASSUME NEW i \in Instances, Crash(i)
      PROVE  OneHolder'
  BY <1>4 DEF Crash, OneHolder
<1>5. CASE UNCHANGED held
  BY <1>5 DEF OneHolder
<1> QED
  BY <1>1, <1>2, <1>3, <1>4, <1>5, HeldUntouched DEF vars

\* A request in the callback keeps the session that holds the lock for it.
LEMMA CoveredStep ==
  ASSUME TypeOK, Engaged, Covered, [Next]_vars
  PROVE  Covered'
<1> SUFFICES ASSUME ~lost', NEW d \in Callers, InCallback(d)'
             PROVE  \E s \in Sessions : s[1] = At(d)' /\ held'[s] > 0
  BY DEF Covered
<1>1. ~lost
  BY DEF Next, Arrive, Advance, Environment, CacheHit, Join, Start, Fetch, Deliver, LockTimeout,
         DoubleCheck, CreateDefault, Refetch, Backoff, StatementFails, CreateWorkflow, AddState,
         Expire, TryLock, Unlock, SessionEnds, Crash, vars, TypeOK
<1>2. InCallback(d) => \E s \in Sessions : s[1] = At(d) /\ held[s] > 0
  BY <1>1 DEF Covered
<1>3. ASSUME NEW c \in Callers, NEW s \in Sessions, TryLock(c, s)
      PROVE  \E t \in Sessions : t[1] = At(d)' /\ held'[t] > 0
  <2>1. \A t \in Sessions : held[t] > 0 => held'[t] > 0
    BY <1>3 DEF TryLock, TypeOK
  <2>2. CASE d = c
    <3>1. s[1] = At(d)' /\ held'[s] > 0
      BY <1>3, <2>2 DEF TryLock, Goto, At, TypeOK, Call
    <3> QED
      BY <3>1
  <2>3. CASE d # c
    BY <1>2, <1>3, <2>1, <2>3 DEF TryLock, Goto, At, InCallback, TypeOK
  <2> QED
    BY <2>2, <2>3
<1>4. ASSUME NEW c \in Callers, NEW s \in Sessions, Unlock(c, s)
      PROVE  \E t \in Sessions : t[1] = At(d)' /\ held'[t] > 0
  <2>1. d # c /\ call'[d] = call[d]
    BY <1>4 DEF Unlock, Settle, Goto, IdleCall, InCallback, TypeOK, Call
  <2>2. InCallback(d) /\ At(d)' = At(d)
    BY <2>1 DEF InCallback, At
  <2>3. At(d) # At(c)
    BY <1>4, <2>1, <2>2, OneFlight DEF InCallback, Unlock
  <2>4. \A t \in Sessions : t[1] # At(c) => held'[t] = held[t]
    BY <1>4 DEF Unlock, TypeOK
  <2> QED
    BY <1>2, <2>2, <2>3, <2>4
<1>5. ASSUME NEW s \in Sessions, SessionEnds(s)
      PROVE  \E t \in Sessions : t[1] = At(d)' /\ held'[t] > 0
  <2>1. InCallback(d) /\ At(d)' = At(d)
    BY <1>5 DEF SessionEnds, InCallback, At
  <2>2. At(d) # s[1]
    BY <1>5, <2>1 DEF SessionEnds
  <2>3. \A t \in Sessions : t[1] # s[1] => held'[t] = held[t]
    BY <1>5 DEF SessionEnds, TypeOK
  <2> QED
    BY <1>2, <2>1, <2>2, <2>3
<1>6. ASSUME NEW i \in Instances, Crash(i)
      PROVE  \E t \in Sessions : t[1] = At(d)' /\ held'[t] > 0
  <2>1. At(d) # i /\ call'[d] = call[d]
    BY <1>6 DEF Crash, IdleCall, InCallback
  <2>2. \A t \in Sessions : t[1] # i => held'[t] = held[t]
    BY <1>6 DEF Crash
  <2> QED
    BY <1>2, <2>1, <2>2 DEF InCallback, At
<1>7. ASSUME UNCHANGED held, InCallback(d), At(d)' = At(d)
      PROVE  \E t \in Sessions : t[1] = At(d)' /\ held'[t] > 0
  BY <1>2, <1>7
<1>8. ASSUME NEW c \in Callers, Arrive(c)
      PROVE  InCallback(d) /\ At(d)' = At(d) /\ UNCHANGED held
  <2>1. PICK i \in Instances :
          CacheHit(c, i) \/ \E u \in BOOLEAN : Join(c, i, u) \/ Start(c, i, u)
    BY <1>8 DEF Arrive
  <2>2. CASE CacheHit(c, i)
    BY <2>2 DEF CacheHit, InCallback, At
  <2>3. ASSUME NEW u \in BOOLEAN, Join(c, i, u) \/ Start(c, i, u)
        PROVE  UNCHANGED held /\ call'[d] = call[d]
    BY <2>3 DEF Join, Start, IdleCall, InCallback, TypeOK
  <2> QED
    BY <2>1, <2>2, <2>3 DEF InCallback, At
<1>9. ASSUME NEW c \in Callers, Advance(c) \/ StatementFails(c),
             \A s \in Sessions : ~TryLock(c, s) /\ ~Unlock(c, s)
      PROVE  InCallback(d) /\ At(d)' = At(d) /\ UNCHANGED held
  <2> USE DEF InCallback, At, IdleCall
  <2>1. CASE Fetch(c) \/ Deliver(c) \/ Refetch(c) \/ Backoff(c) \/ LockTimeout(c)
    BY <2>1 DEF Fetch, Deliver, Refetch, Backoff, LockTimeout, Settle, Goto, TypeOK, Call
  <2>2. CASE DoubleCheck(c) \/ CreateDefault(c)
    <3>1. UNCHANGED held /\ InCallback(c)
      BY <2>2 DEF DoubleCheck, CreateDefault
    <3>2. d # c => call'[d] = call[d]
      BY <2>2 DEF DoubleCheck, CreateDefault, TypeOK
    <3>3. call'[c].at = At(c)
      <4>1. call[c] \in Call
        BY DEF TypeOK
      <4>2. CASE DoubleCheck(c)
        BY <4>1, <4>2 DEF DoubleCheck, TypeOK, Call
      <4>3. CASE CreateDefault(c)
        BY <4>1, <4>3 DEF CreateDefault, TypeOK, Call
      <4> QED
        BY <2>2, <4>2, <4>3
    <3> QED
      BY <3>1, <3>2, <3>3
  <2>3. CASE StatementFails(c)
    <3>1. CASE InCallback(c)
      <4>1. call' = [call EXCEPT ![c].phase = "unlock", ![c].out = "failed"] /\ UNCHANGED held
        BY <2>3, <3>1 DEF StatementFails
      <4>2. call[c] \in Call
        BY DEF TypeOK
      <4>3. call'[c].phase = "unlock"
        BY <4>1, <4>2 DEF TypeOK, Call
      <4>4. d # c /\ call'[d] = call[d]
        BY <4>1, <4>3 DEF TypeOK
      <4> QED
        BY <4>1, <4>4
    <3>2. CASE ~InCallback(c)
      <4>1. Settle(c, 0) /\ UNCHANGED held
        BY <2>3, <3>2 DEF StatementFails
      <4>2. call'[d] = call[d]
        BY <4>1 DEF Settle
      <4> QED
        BY <4>1, <4>2
    <3> QED
      BY <3>1, <3>2
  <2> QED
    BY <1>9, <2>1, <2>2, <2>3 DEF Advance
<1>10. CASE UNCHANGED <<held, call>>
  BY <1>7, <1>10 DEF InCallback, At
<1> QED
  BY <1>3, <1>4, <1>5, <1>6, <1>7, <1>8, <1>9, <1>10
  DEF Next, Environment, CreateWorkflow, AddState, Expire, vars

-----------------------------------------------------------------------------
\* A promise that settles with a version no older than the last answer leaves the
\* instance fresh, whether it caches that version or not.
LEMMA SettleFresh ==
  ASSUME TypeOK, Engaged, Fresh, NEW c \in Callers, NEW v \in Versions, Settle(c, v),
         call[c].phase \notin {"idle", "waiting"},
         v # 0 => served[At(c)] <= v, v <= version,
         UNCHANGED version, UNCHANGED cache \/ CacheWorkflow(c, v)
  PROVE  Fresh'
<1>1. At(c) \in Instances /\ starter[At(c)] = c
  BY DEF Engaged
<1>2. /\ \A i \in Instances \ {At(c)} :
            served'[i] = served[i] /\ starter'[i] = starter[i] /\ cache'[i] = cache[i]
      /\ served'[At(c)] = IF v = 0 THEN served[At(c)] ELSE v
      /\ starter'[At(c)] = None
  BY <1>1 DEF Settle, CacheWorkflow, TypeOK
<1>3. cache'[At(c)][Normalised] \in {0, v}
  <2>1. Cached(At(c)) = 0
    BY <1>1, NoneAssumption DEF Fresh
  <2> QED
    BY <1>1, <2>1 DEF CacheWorkflow, TypeOK, Cached, Keys
<1>4. ASSUME NEW i \in Instances
      PROVE  /\ served'[i] <= version'
             /\ Cached(i)' # 0 =>
                   starter'[i] = None /\ served'[i] <= Cached(i)' /\ Cached(i)' <= version'
  <2>1. CASE i = At(c)
    <3>1. v \in Nat /\ version \in Nat /\ served[i] \in Nat
      BY Values DEF TypeOK
    <3> QED
      BY <1>2, <1>3, <2>1, <3>1 DEF Fresh, Cached
  <2>2. CASE i # At(c)
    BY <1>2, <2>2 DEF Fresh, Cached
  <2> QED
    BY <2>1, <2>2
<1>5. ASSUME NEW d \in Callers, Answering(d)'
      PROVE  served'[At(d)'] <= call'[d].snap /\ call'[d].snap <= version'
  <2>1. call'[d] = call[d] /\ d # c
    BY <1>5 DEF Settle, IdleCall, Answering
  <2>2. Answering(d) /\ At(d)' = At(d)
    BY <1>5, <2>1 DEF Answering, At
  <2>3. At(d) \in Instances /\ At(d) # At(c)
    BY <2>1, <2>2, OneFlight DEF Answering, Engaged
  <2> QED
    BY <1>2, <2>1, <2>2, <2>3 DEF Fresh
<1> QED
  BY <1>4, <1>5 DEF Fresh

\* A request that goes on leaves the instance fresh when the version it is about to
\* answer with, if any, is.
LEMMA ProceedFresh ==
  ASSUME TypeOK, Fresh, NEW c \in Callers, Proceeds(c), version' \in Nat, version <= version',
         Answering(c)' => served[At(c)] <= call'[c].snap /\ call'[c].snap <= version',
         call'[c].at = At(c), TypeOK'
  PROVE  Fresh'
<1>1. version \in Nat /\ \A i \in Instances : served[i] \in Nat /\ Cached(i) \in Nat
  BY Values DEF TypeOK, Cached, Keys
<1>2. ASSUME NEW i \in Instances
      PROVE  /\ served'[i] <= version'
             /\ Cached(i)' # 0 =>
                   starter'[i] = None /\ served'[i] <= Cached(i)' /\ Cached(i)' <= version'
  BY <1>1 DEF Proceeds, Fresh, Cached
<1>3. ASSUME NEW d \in Callers, Answering(d)'
      PROVE  served'[At(d)'] <= call'[d].snap /\ call'[d].snap <= version'
  <2>1. CASE d = c
    BY <1>3, <2>1 DEF Proceeds, At
  <2>2. CASE d # c
    <3>1. call'[d] = call[d]
      BY <2>2 DEF Proceeds, TypeOK
    <3>2. Answering(d) /\ call[d].snap \in Nat
      BY <1>3, <3>1, Values DEF Answering, TypeOK, Call
    <3> QED
      BY <1>1, <3>1, <3>2 DEF Fresh, Proceeds, At
  <2> QED
    BY <2>1, <2>2
<1> QED
  BY <1>2, <1>3 DEF Fresh

\* Every step leaves every instance fresh.
LEMMA FreshStep ==
  ASSUME TypeOK, Engaged, Fresh, [Next]_vars, TypeOK'
  PROVE  Fresh'
<1>0. /\ version \in Nat /\ version' \in Nat
      /\ \A i \in Instances : served[i] \in Nat /\ Cached(i) \in Nat
      /\ \A c \in Callers : call[c] \in Call /\ call[c].snap \in Nat
  BY Values DEF TypeOK, Cached, Keys, Call
<1>1. ASSUME NEW c \in Callers, Arrive(c)
      PROVE  Fresh'
  <2>1. PICK i \in Instances :
          CacheHit(c, i) \/ \E u \in BOOLEAN : Join(c, i, u) \/ Start(c, i, u)
    BY <1>1 DEF Arrive
  <2>2. CASE CacheHit(c, i)
    <3>1. \A d \in Callers : Answering(d) => At(d) \in Instances /\ At(d) # i
      BY <2>2, NoneAssumption DEF CacheHit, Fresh, Engaged, Answering
    <3> QED
      BY <1>0, <2>2, <3>1 DEF CacheHit, Fresh, Cached, Answering, At, TypeOK
  <2>3. ASSUME NEW u \in BOOLEAN, Join(c, i, u) \/ Start(c, i, u)
        PROVE  Fresh'
    <3>1. /\ ~Answering(c)' /\ \A d \in Callers \ {c} : call'[d] = call[d]
          /\ Cached(i) = 0 /\ \A j \in Instances \ {i} : starter'[j] = starter[j]
          /\ UNCHANGED <<version, cache, served>>
      BY <2>3 DEF Join, Start, IdleCall, Answering, TypeOK
    <3> QED
      BY <3>1 DEF Fresh, Cached, Answering, At
  <2> QED
    BY <2>1, <2>2, <2>3
<1>2. ASSUME NEW c \in Callers, Advance(c) \/ StatementFails(c)
      PROVE  Fresh'
  <2>1. call[c].phase \notin {"idle", "waiting"} /\ At(c) \in Instances
    BY <1>2, SettlesOrProceeds DEF Engaged
  <2>2. ASSUME Settle(c, 0), UNCHANGED <<version, cache>>
        PROVE  Fresh'
    BY <1>0, <2>1, <2>2, Values, SettleFresh
  <2>3. ASSUME Settle(c, call[c].snap), CacheWorkflow(c, call[c].snap), Answering(c),
               UNCHANGED version
        PROVE  Fresh'
    <3>1. call[c].snap \in Versions
      BY DEF TypeOK, Call
    <3> QED
      BY <2>1, <2>3, <3>1, SettleFresh DEF Fresh
  <2>4. ASSUME UNCHANGED starter, version <= version',
               Answering(c)' => call'[c].snap = version'
        PROVE  Fresh'
    <3>1. ~\E v \in Versions : Settle(c, v)
      BY <2>1, <2>4, NoneAssumption DEF Settle, Engaged, TypeOK
    <3>2. Proceeds(c)
      BY <1>2, <3>1, SettlesOrProceeds
    <3>3. call'[c].at = At(c)
      BY <3>2 DEF Proceeds, TypeOK
    <3>4. served[At(c)] <= version'
      BY <1>0, <2>1, <2>4 DEF Fresh
    <3> QED
      BY <1>0, <2>4, <3>2, <3>3, <3>4, ProceedFresh
  <2>5. CASE Fetch(c)
    <3>1. CASE version # 0
      <4>1. call'[c].snap = version /\ UNCHANGED <<version, starter>>
        BY <1>0, <2>5, <3>1 DEF Fetch, TypeOK, Call
      <4> QED
        BY <1>0, <2>4, <4>1
    <3>2. CASE version = 0 /\ MayTry(At(c))
      <4>1. ~Answering(c)' /\ UNCHANGED <<version, starter>>
        BY <1>0, <2>5, <3>2 DEF Fetch, Goto, Answering, TypeOK, Call
      <4> QED
        BY <1>0, <2>4, <4>1
    <3>3. CASE version = 0 /\ ~MayTry(At(c))
      BY <2>2, <2>5, <3>3 DEF Fetch
    <3> QED
      BY <3>1, <3>2, <3>3
  <2>6. CASE Deliver(c)
    BY <2>3, <2>6 DEF Deliver, Answering
  <2>7. CASE Backoff(c)
    BY <2>2, <2>7 DEF Backoff
  <2>8. CASE Refetch(c)
    <3>1. version \in Versions /\ served[At(c)] <= version
      BY <2>1 DEF TypeOK, Fresh
    <3> QED
      BY <1>0, <2>1, <2>8, <3>1, SettleFresh DEF Refetch
  <2>9. CASE LockTimeout(c) \/ \E s \in Sessions : TryLock(c, s)
    <3>1. ~Answering(c)' /\ UNCHANGED <<version, starter>>
      BY <1>0, <2>9 DEF LockTimeout, TryLock, Goto, Answering, TypeOK, Call
    <3> QED
      BY <1>0, <2>4, <3>1
  <2>10. CASE DoubleCheck(c)
    <3>1. UNCHANGED <<version, starter>>
      BY <2>10 DEF DoubleCheck
    <3>2. call'[c] = IF version = 0 THEN [call[c] EXCEPT !.phase = "create"]
                     ELSE [call[c] EXCEPT !.phase = "unlock", !.snap = version, !.out = "ok"]
      BY <2>10 DEF DoubleCheck, TypeOK
    <3>3. Answering(c)' => call'[c].snap = version
      BY <1>0, <3>2 DEF Answering, Call
    <3> QED
      BY <1>0, <2>4, <3>1, <3>3
  <2>11. CASE CreateDefault(c)
    <3> DEFINE out == IF ~call[c].user THEN "failed" ELSE IF version = 0 THEN "ok" ELSE "duplicate"
    <3>1. /\ UNCHANGED starter /\ version' = IF out = "ok" THEN 1 ELSE version
          /\ call'[c] = [call[c] EXCEPT !.phase = "unlock", !.out = out,
                                        !.snap = IF out = "ok" THEN 1 ELSE 0]
      BY <2>11 DEF CreateDefault, TypeOK
    <3>2. call'[c].out = out /\ (out = "ok" => call'[c].snap = 1) /\ call'[c].phase = "unlock"
      BY <1>0, <3>1 DEF Call
    <3>3. version <= version'
      BY <1>0, <3>1
    <3> QED
      BY <2>4, <3>1, <3>2, <3>3 DEF Answering
  <2>12. ASSUME NEW s \in Sessions, Unlock(c, s)
         PROVE  Fresh'
    <3>1. CASE call[c].out = "ok"
      BY <2>3, <2>12, <3>1 DEF Unlock, Answering
    <3>2. CASE call[c].out # "ok"
      <4>1. ~Answering(c)' /\ UNCHANGED <<version, starter>>
        BY <1>0, <2>12, <3>2 DEF Unlock, Goto, Answering, TypeOK, Call
      <4> QED
        BY <1>0, <2>4, <4>1
    <3> QED
      BY <3>1, <3>2
  <2>13. CASE StatementFails(c)
    <3>1. CASE InCallback(c)
      <4>1. /\ call' = [call EXCEPT ![c].phase = "unlock", ![c].out = "failed"]
            /\ UNCHANGED <<version, starter>>
        BY <2>13, <3>1 DEF StatementFails, InCallback
      <4>2. ~Answering(c)'
        BY <1>0, <4>1 DEF Answering, TypeOK, Call
      <4> QED
        BY <1>0, <2>4, <4>1, <4>2
    <3>2. CASE ~InCallback(c)
      BY <2>2, <2>13, <3>2 DEF StatementFails
    <3> QED
      BY <3>1, <3>2
  <2> QED
    BY <1>2, <2>5, <2>6, <2>7, <2>8, <2>9, <2>10, <2>11, <2>12, <2>13 DEF Advance
<1>3. CASE Environment
  <2>1. ASSUME NEW i \in Instances, Crash(i)
        PROVE  Fresh'
    <3>1. \A d \in Callers : Answering(d)' => At(d) # i /\ call'[d] = call[d]
      BY <2>1 DEF Crash, IdleCall, Answering
    <3>2. served'[i] = 0 /\ Cached(i)' = 0 /\ UNCHANGED version
      BY <2>1 DEF Crash, TypeOK, Cached, Keys
    <3>3. \A j \in Instances \ {i} :
            served'[j] = served[j] /\ cache'[j] = cache[j] /\ starter'[j] = starter[j]
      BY <2>1 DEF Crash, TypeOK
    <3>4. \A d \in Callers : Answering(d)' => At(d) \in Instances \ {i} /\ Answering(d)
      BY <3>1 DEF Engaged, Answering
    <3> QED
      BY <1>0, <3>1, <3>2, <3>3, <3>4 DEF Fresh, Cached, At
  <2>2. ASSUME NEW i \in Instances, AddState(i)
        PROVE  Fresh'
    <3>1. /\ version' = version + 1 /\ UNCHANGED <<call, starter, served>>
          /\ \A j \in Instances : Cached(j)' = Cached(j)
      BY <2>2 DEF AddState, Cached, TypeOK, Keys, Normalised, Canonical
    <3> QED
      BY <1>0, <3>1 DEF Fresh, Answering, At
  <2>3. ASSUME NEW i \in Instances, Expire(i)
        PROVE  Fresh'
    <3>1. \A j \in Instances : Cached(j)' \in {0, Cached(j)}
      BY <2>3 DEF Expire, Cached, TypeOK, Keys
    <3> QED
      BY <2>3, <3>1 DEF Expire, Fresh, Answering, At
  <2>4. CASE CreateWorkflow \/ \E s \in Sessions : SessionEnds(s)
    BY <1>0, <2>4 DEF CreateWorkflow, SessionEnds, Fresh, Answering, At, Cached
  <2> QED
    BY <1>3, <2>1, <2>2, <2>3, <2>4 DEF Environment
<1>4. CASE UNCHANGED vars
  BY <1>4 DEF vars, Fresh, Answering, At, Cached
<1> QED
  BY <1>1, <1>2, <1>3, <1>4 DEF Next

-----------------------------------------------------------------------------
\* The invariant holds throughout.
THEOREM WorkflowInvariance == Spec => []Inv
<1>1. Init => Inv
  BY InitInv
<1>2. Inv /\ [Next]_vars => Inv'
  <2> SUFFICES ASSUME Inv, [Next]_vars PROVE Inv'
    OBVIOUS
  <2>1. TypeOK'
    <3>1. CASE UNCHANGED vars
      BY <3>1 DEF Inv, TypeOK, vars
    <3> QED
      BY <3>1, ArriveTypes, AdvanceTypes, EnvironmentTypes DEF Inv, Next
  <2> QED
    BY <2>1, EngagedStep, OneHolderStep, CoveredStep, FreshStep DEF Inv
<1> QED
  BY <1>1, <1>2, PTL DEF Spec

\* TypeOK: requests, locks and caches keep the shapes the service gives them.
THEOREM WorkflowTyped == Spec => []TypeOK
BY WorkflowInvariance, PTL DEF Inv

\* OneInitializer: the advisory lock, leaked or not, and the single flight within an
\* instance leave one request at a time in the callback.
THEOREM OneInitializes == Spec => []OneInitializer
<1>1. Inv => OneInitializer
  <2> SUFFICES ASSUME Inv, ~lost, NEW c \in Callers, NEW d \in Callers,
                      InCallback(c), InCallback(d)
               PROVE  c = d
    BY DEF OneInitializer
  <2>1. PICK s \in Sessions : s[1] = At(c) /\ held[s] > 0
    BY DEF Inv, Covered
  <2>2. PICK t \in Sessions : t[1] = At(d) /\ held[t] > 0
    BY DEF Inv, Covered
  <2>3. At(c) = At(d)
    BY <2>1, <2>2 DEF Inv, OneHolder
  <2> QED
    BY <2>3, OneFlight DEF Inv, InCallback
<1> QED
  BY <1>1, WorkflowInvariance, PTL

\* ServedNeverOlder: within one run of an instance, later answers come from the same
\* or a newer version of the workflow.
THEOREM NeverOlder == Spec => ServedNeverOlder
<1> DEFINE Newer == \A i \in Instances : served'[i] >= served[i] \/ served'[i] = 0
<1>1. Inv /\ [Next]_vars => [Newer]_vars
  <2> SUFFICES ASSUME Inv, Next, NEW i \in Instances
               PROVE  served'[i] >= served[i] \/ served'[i] = 0
    OBVIOUS
  <2>0. /\ version \in Nat /\ served[i] \in Nat /\ Cached(i) \in Nat
        /\ \A c \in Callers : call[c].snap \in Nat
    BY Values DEF Inv, TypeOK, Cached, Keys, Call
  <2>1. ASSUME NEW c \in Callers, NEW v \in Nat, Settle(c, v), v # 0 => served[At(c)] <= v
        PROVE  served'[i] >= served[i]
    BY <2>0, <2>1 DEF Settle, Inv, TypeOK
  <2>2. CASE UNCHANGED served
    BY <2>0, <2>2
  <2>3. ASSUME NEW c \in Callers, NEW j \in Instances, CacheHit(c, j)
        PROVE  served'[i] >= served[i]
    BY <2>0, <2>3 DEF CacheHit, Inv, Fresh, TypeOK
  <2>4. ASSUME NEW c \in Callers, Fetch(c) \/ Backoff(c) \/ StatementFails(c)
        PROVE  served'[i] >= served[i]
    BY <2>1, <2>2, <2>4 DEF Fetch, Backoff, StatementFails
  <2>5. ASSUME NEW c \in Callers, Deliver(c)
        PROVE  served'[i] >= served[i]
    BY <2>0, <2>1, <2>5 DEF Deliver, Inv, Fresh, Answering
  <2>6. ASSUME NEW c \in Callers, Refetch(c)
        PROVE  served'[i] >= served[i]
    <3>1. served[At(c)] <= version
      BY <2>6 DEF Refetch, Inv, Fresh, Engaged
    <3> QED
      BY <2>0, <2>1, <2>6, <3>1 DEF Refetch
  <2>7. ASSUME NEW c \in Callers, NEW s \in Sessions, Unlock(c, s)
        PROVE  served'[i] >= served[i]
    BY <2>0, <2>1, <2>2, <2>7 DEF Unlock, Inv, Fresh, Answering
  <2>8. ASSUME NEW j \in Instances, Crash(j)
        PROVE  served'[i] >= served[i] \/ served'[i] = 0
    BY <2>0, <2>8 DEF Crash, Inv, TypeOK
  <2> QED
    BY <2>2, <2>3, <2>4, <2>5, <2>6, <2>7, <2>8
    DEF Next, Arrive, Advance, Environment, Join, Start, LockTimeout, DoubleCheck,
        CreateDefault, TryLock, CreateWorkflow, AddState, Expire, SessionEnds
<1> QED
  BY <1>1, WorkflowInvariance, PTL DEF Spec, ServedNeverOlder

=============================================================================
