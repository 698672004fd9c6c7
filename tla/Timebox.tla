------------------------------- MODULE Timebox -------------------------------
(* The shared clock of one Scrum event of one team on one day, as             *)
(* packages/backend/src/services/timebox.service.ts keeps it.  A request names *)
(* the Sprint by an id that leads to no Sprint until planning has materialised *)
(* it; the clock is a row found by what the id leads to at that moment.  A     *)
(* handler is cut at its awaits: it resolves the id, finds or creates the row, *)
(* and writes what it computed from the row it found.                          *)
EXTENDS Integers

CONSTANTS Rows,         \* rows of timeboxes
          Requests,     \* requests in flight
          NoRow,        \* a row that does not exist
          MaxTime,      \* bound: the last moment
          MaxControls   \* bound: the requests that are not reads

ASSUME TimeboxAssumption == /\ MaxTime \in Nat /\ MaxControls \in Nat
                            /\ NoRow \notin Rows

VARIABLES
    linked,    \* the id leads to a Sprint
    now,       \* Date.now()
    row,       \* the rows
    req,       \* the requests in flight
    controls,  \* how many requests were not reads
    \* What only the properties read:
    ran,       \* how long each row has really been RUNNING since its last reset
    slack,     \* how long its writes came after the clock they wrote was read
    torn       \* rows that lost a run: started while RUNNING, or written over

memory == <<ran, slack, torn>>
boxVars == <<linked, now, row, req, controls, memory>>

Keys == {"team", "sprint"}
Ops == {"get", "start", "pause", "reset", "conclude"}
Phases == {"idle", "find", "create", "reread", "write", "answer"}

\* A row that is not RUNNING has no startedAt; here it is 0.
RowType == [key : Keys, status : {"IDLE", "RUNNING", "PAUSED"},
            startedAt : 0..MaxTime, banked : Nat, version : Nat]

ASSUME RowTypeAssumption == NoRow \notin RowType

AtRest == [at |-> "idle", op |-> "get", key |-> "team", id |-> NoRow, seen |-> NoRow, time |-> 0]

Stored == {x \in Rows : row[x] # NoRow}

\* A clock that is IDLE has nothing banked.
BoxTypeOK ==
    /\ linked \in BOOLEAN /\ now \in 0..MaxTime /\ controls \in 0..MaxControls
    /\ row \in [Rows -> RowType \cup {NoRow}]
    /\ \A x \in Stored : /\ row[x].status # "RUNNING" => row[x].startedAt = 0
                         /\ row[x].status = "IDLE" => row[x].banked = 0
    /\ req \in [Requests -> [at : Phases, op : Ops, key : Keys, id : Rows \cup {NoRow},
                             seen : RowType \cup {NoRow}, time : 0..MaxTime]]
    /\ ran \in [Rows -> 0..MaxTime] /\ slack \in [Rows -> Nat]
    /\ torn \subseteq Rows

\* The other events name a real Sprint from the start.
BoxInit ==
    /\ linked \in BOOLEAN
    /\ now = 0 /\ controls = 0
    /\ row = [x \in Rows |-> NoRow]
    /\ req = [r \in Requests |-> AtRest]
    /\ ran = [x \in Rows |-> 0] /\ slack = [x \in Rows |-> 0]
    /\ torn = {}

Go(r, q) == req' = [req EXCEPT ![r] = q]

-----------------------------------------------------------------------------
\* computeElapsed at time t
Elapsed(b, t) == b.banked + IF b.status = "RUNNING" THEN t - b.startedAt ELSE 0

\* resolveSprintId: no Sprint, no sprintId.
Key == IF linked THEN "sprint" ELSE "team"

Matches(key) == {x \in Stored : row[x].key = key}

\* The request has its row; a pause of what is not RUNNING only answers.
With(r, x, b) ==
    LET op == req[r].op IN
    Go(r, IF op = "pause" /\ b.status # "RUNNING" THEN [AtRest EXCEPT !.at = "answer", !.op = op]
          ELSE [AtRest EXCEPT !.at = IF op = "get" THEN "answer" ELSE "write", !.op = op,
                            !.id = x, !.seen = b, !.time = now])

Arrive(r, op) ==
    /\ req[r] = AtRest
    /\ IF op = "get" THEN UNCHANGED controls
                     ELSE controls < MaxControls /\ controls' = controls + 1
    /\ Go(r, [AtRest EXCEPT !.at = "find", !.op = op, !.key = Key])
    /\ UNCHANGED <<linked, now, row, memory>>

\* findFirst states no order: any match may be the first.
Find(r) ==
    /\ req[r].at = "find"
    /\ IF Matches(req[r].key) = {} THEN Go(r, [req[r] EXCEPT !.at = "create"])
       ELSE \E x \in Matches(req[r].key) : With(r, x, row[x])
    /\ UNCHANGED <<linked, now, row, controls, memory>>

Fresh(key) == [key |-> key, status |-> "IDLE", startedAt |-> 0, banked |-> 0, version |-> 0]

\* The id is new.  The unique index refuses a second row of a Sprint, not of the team,
\* whose sprintId is null.
Create(r) ==
    LET x == CHOOSE y \in Rows : row[y] = NoRow IN
    /\ req[r].at = "create" /\ Stored # Rows
    /\ IF req[r].key = "sprint" /\ \E y \in Stored : row[y].key = "sprint"
       THEN Go(r, [req[r] EXCEPT !.at = "reread"]) /\ UNCHANGED row
       ELSE row' = [row EXCEPT ![x] = Fresh(req[r].key)] /\ With(r, x, Fresh(req[r].key))
    /\ UNCHANGED <<linked, now, controls, memory>>

ReRead(r) ==
    /\ req[r].at = "reread"
    /\ \E x \in Matches(req[r].key) : With(r, x, row[x])
    /\ UNCHANGED <<linked, now, row, controls, memory>>

Started(b, q) == [b EXCEPT !.status = "RUNNING", !.startedAt = q.time, !.version = @ + 1]

\* Mutant: a pause drops the run it ends.
BanksNothing(b, q) == [b EXCEPT !.status = "PAUSED", !.startedAt = 0, !.version = @ + 1]

\* pause, and conclude, which also keeps the elapsed time for the dashboard
Banked(b, q) == [b EXCEPT !.status = "PAUSED", !.startedAt = 0, !.version = @ + 1,
                          !.banked = Elapsed(q.seen, q.time)]

ResetTo(b) == [b EXCEPT !.status = "IDLE", !.startedAt = 0, !.version = @ + 1, !.banked = 0]

\* A start loses the run of a RUNNING row; a pause or a conclusion writes what it read.
Tears(q) ==
    LET b == row[q.id]
    IN  IF q.op = "start" THEN b.status = "RUNNING" ELSE b.version # q.seen.version

Remember(q) ==
    IF q.op = "reset"
    THEN /\ ran' = [ran EXCEPT ![q.id] = 0] /\ slack' = [slack EXCEPT ![q.id] = 0]
         /\ torn' = torn \ {q.id}
    ELSE /\ slack' = [slack EXCEPT ![q.id] = @ + now - q.time]
         /\ torn' = IF Tears(q) THEN torn \cup {q.id} ELSE torn
         /\ UNCHANGED ran

\* The update names the row by its id alone.
Write(r) ==
    LET q == req[r]
        b == row[q.id]
        written == CASE q.op = "start" -> Started(b, q)
                     [] q.op = "reset" -> ResetTo(b)
                     [] OTHER -> Banked(b, q)
    IN  /\ q.at = "write"
        /\ row' = [row EXCEPT ![q.id] = written]
        /\ Go(r, [AtRest EXCEPT !.at = "answer", !.op = q.op])
        /\ Remember(q)
        /\ UNCHANGED <<linked, now, controls>>

Answer(r) ==
    /\ req[r].at = "answer"
    /\ Go(r, AtRest)
    /\ UNCHANGED <<linked, now, row, controls, memory>>

\* A statement fails, the server dies, or nobody waits for the answer any more.
Fail(r) ==
    /\ req[r] # AtRest
    /\ Go(r, AtRest)
    /\ UNCHANGED <<linked, now, row, controls, memory>>

\* convertGeneratedSprintToSprint: planning stores its first draft.
Materialise ==
    /\ ~linked /\ linked' = TRUE
    /\ UNCHANGED <<now, row, req, controls, memory>>

Runs(x) == row[x] # NoRow /\ row[x].status = "RUNNING"

TimePasses ==
    /\ now < MaxTime /\ now' = now + 1
    /\ ran' = [x \in Rows |-> ran[x] + IF Runs(x) THEN 1 ELSE 0]
    /\ UNCHANGED <<linked, row, req, controls, slack, torn>>

Handle(r) == Find(r) \/ Create(r) \/ ReRead(r) \/ Write(r)

-----------------------------------------------------------------------------
(* Properties                                                              *)

Exact(x) == LET off == Elapsed(row[x], now) - ran[x] IN -slack[x] <= off /\ off <= slack[x]

\* `accumulatedMs` and the current run add up to the time the clock has run, but for
\* the delays of the requests (timebox.service.ts:14).  It takes a start of a clock that
\* is already RUNNING, or a pause or conclusion on a row another request has written
\* since, to make the clock wrong by more.
ElapsedUnlessTorn == \A x \in Stored \ torn : Exact(x)
=============================================================================
