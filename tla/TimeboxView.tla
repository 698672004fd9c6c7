----------------------------- MODULE TimeboxView -----------------------------
(* One participant's page with the clock of Timebox on it: the component of   *)
(* packages/frontend/src/components/common/EventTimebox/EventTimebox.tsx, the  *)
(* query whose answers it shows (App.tsx sets the defaults), and the clicks of  *)
(* the Scrum Master.  The other requests of Timebox are the other participants. *)
EXTENDS Timebox

CONSTANTS Load,    \* the request of the page's query
          Click,   \* the request of its buttons
          NoView   \* no data

ASSUME ViewAssumption == /\ Load \in Requests /\ Click \in Requests /\ Load # Click

VARIABLES
    mounted,   \* the component is on the screen
    view,      \* the query's data; it outlives the component
    invalid,   \* the query is invalidated: a mount fetches
    wire,      \* an answer to the query, on its way
    anchor,    \* lastVersionRef, syncedElapsedRef and syncAtRef
    clock,     \* the component's state "now", 0 when there is none
    \* What only the properties read:
    lag,       \* the age of the data the anchor was set from
    jumped     \* data of another row came with the version of the anchor

page == <<mounted, view, invalid, wire, anchor, clock, lag, jumped>>
viewVars == <<boxVars, page>>

Answers == [id : Rows, status : {"IDLE", "RUNNING", "PAUSED"}, version : Nat,
            elapsed : Int, at : 0..MaxTime]
Anchors == [version : Nat, elapsed : Int, at : 0..MaxTime]

ASSUME NoViewAssumption == NoView \notin Answers \cup Anchors

ViewTypeOK ==
    /\ BoxTypeOK
    /\ mounted \in BOOLEAN /\ invalid \in BOOLEAN /\ jumped \in BOOLEAN
    /\ view \in Answers \cup {NoView} /\ wire \in Answers \cup {NoView}
    /\ anchor \in Anchors \cup {NoView} /\ lag \in 0..MaxTime
    /\ clock \in 0..MaxTime
    /\ (mounted /\ view # NoView) <=> anchor # NoView

ViewInit ==
    /\ BoxInit
    /\ mounted = FALSE /\ view = NoView /\ invalid = FALSE /\ wire = NoView
    /\ anchor = NoView /\ clock = 0 /\ lag = 0 /\ jumped = FALSE

Running == view # NoView /\ view.status = "RUNNING"
Fetching == req[Load] # AtRest \/ wire # NoView

\* Mutant: the anchor is kept once it is set.
KeepsAnchor(a) == anchor # NoView

\* The render that follows re-anchors only for another version.
SameVersion(a) == anchor # NoView /\ anchor.version = a.version

SetAnchor(a) ==
    /\ anchor' = [version |-> a.version, elapsed |-> a.elapsed, at |-> now]
    /\ lag' = now - a.at /\ jumped' = FALSE

-----------------------------------------------------------------------------
\* What is cached is fresh for five minutes, longer than MaxTime.
Mount ==
    /\ ~mounted /\ mounted' = TRUE /\ clock' = now
    /\ IF view = NoView THEN UNCHANGED <<anchor, lag, jumped>> ELSE SetAnchor(view)
    /\ IF (view = NoView \/ invalid) /\ ~Fetching
       THEN Arrive(Load, "get") ELSE UNCHANGED boxVars
    /\ UNCHANGED <<view, invalid, wire>>

\* A fetch in flight goes on, and its answer is cached.
Unmount ==
    /\ mounted /\ mounted' = FALSE
    /\ anchor' = NoView /\ clock' = 0 /\ lag' = 0 /\ jumped' = FALSE
    /\ UNCHANGED <<boxVars, view, invalid, wire>>

\* setNow, by an interval that there is only while what is shown runs.
TickOfPage ==
    /\ mounted /\ Running /\ clock' = now
    /\ UNCHANGED <<boxVars, mounted, view, invalid, wire, anchor, lag, jumped>>

\* refetchInterval: only while what is shown runs.
Poll ==
    /\ mounted /\ Running /\ ~Fetching
    /\ Arrive(Load, "get") /\ UNCHANGED page

\* toState computes what has elapsed by now for the row it was given.
Send ==
    LET b == req[Load].seen
    IN  /\ Answer(Load)
        /\ wire' = [id |-> req[Load].id, status |-> b.status, version |-> b.version,
                    elapsed |-> Elapsed(b, now), at |-> now]
        /\ UNCHANGED <<mounted, view, invalid, anchor, clock, lag, jumped>>

Receive ==
    /\ wire # NoView /\ wire' = NoView
    /\ view' = wire /\ invalid' = FALSE
    /\ IF ~mounted THEN UNCHANGED <<anchor, lag, jumped>>
       ELSE IF SameVersion(wire)
            THEN jumped' = (jumped \/ wire.id # view.id) /\ UNCHANGED <<anchor, lag>>
            ELSE SetAnchor(wire)
    /\ UNCHANGED <<boxVars, mounted, clock>>

Lose ==
    /\ wire # NoView /\ wire' = NoView
    /\ UNCHANGED <<boxVars, mounted, view, invalid, anchor, clock, lag, jumped>>

\* The query retries a fetch that failed, or gives up.
LoadFails ==
    \/ Fail(Load) /\ UNCHANGED page
    \/ /\ req[Load] # AtRest
       /\ Go(Load, [AtRest EXCEPT !.at = "find", !.key = Key])
       /\ UNCHANGED <<linked, now, row, controls, memory, page>>

Press(op) ==
    /\ mounted
    /\ op \in IF Running THEN {"pause", "reset"} ELSE {"start", "reset"}
    /\ Arrive(Click, op) /\ UNCHANGED page

\* onSuccess invalidates the query: what it was fetching is dropped and fetched again,
\* unless there is no data yet.
Pressed ==
    LET again == mounted /\ (view # NoView \/ ~Fetching)
    IN  /\ req[Click].at = "answer"
        /\ invalid' = TRUE
        /\ req' = [req EXCEPT ![Click] = AtRest,
                     ![Load] = IF again THEN [AtRest EXCEPT !.at = "find", !.key = Key] ELSE @]
        /\ wire' = IF again THEN NoView ELSE wire
        /\ UNCHANGED <<linked, now, row, controls, memory,
                       mounted, view, anchor, clock, lag, jumped>>

Others == Requests \ {Load, Click}
\* A read of another participant does no more than their controls do.
Controls == Ops \ {"get"}

ViewNext ==
    \/ Mount \/ Unmount \/ TickOfPage \/ Poll \/ Send \/ Receive \/ Lose \/ LoadFails
    \/ Pressed \/ \E op \in Controls : Press(op)
    \/ /\ \/ \E r \in Requests : Handle(r)
          \/ Fail(Click)
          \/ \E r \in Others : Answer(r) \/ Fail(r) \/ \E op \in Controls : Arrive(r, op)
          \/ Materialise \/ TimePasses
       /\ UNCHANGED page

ViewSpec == ViewInit /\ [][ViewNext]_viewVars

-----------------------------------------------------------------------------
(* Properties                                                              *)

Shown == IF Running THEN anchor.elapsed + (clock - anchor.at) ELSE view.elapsed

\* While the row is as the page knows it, what a running clock shows is what has
\* elapsed, less the age of the data it started from and the age of the component's
\* own time.  The latter is a second at most once the clock runs; but it stood still
\* as long as the page waited for data or showed a clock that did not run, so from a
\* start or a resumption to the first tick all of that stretch is missing.  Beyond
\* that, only a clock that moved to another row with the same version makes it wrong.
ShownIsLate ==
    (mounted /\ Running /\ ~jumped /\ row[view.id].version = view.version) =>
        Shown + lag + (now - clock) = Elapsed(row[view.id], now)
=============================================================================
