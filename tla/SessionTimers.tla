--------------------------- MODULE SessionTimers ----------------------------
(***************************************************************************)
(* Idle timeout in the tabs of one browser: the session manager of         *)
(* packages/frontend/src/services/sessionManager.ts in each tab, the       *)
(* warning dialog with its own countdown, and the last activity they share *)
(* through localStorage, whose events arrive late.  Only differences of    *)
(* times are used by the code, so the model keeps ages and the time left   *)
(* on each timer instead of dates; a timer may fire late, never early.     *)
(***************************************************************************)
EXTENDS Naturals, FiniteSets

CONSTANTS Tabs,
          Idle,      \* idleTimeoutMs
          Warning,   \* warningThresholdMs: the time left when the warning shows
          Throttle   \* idleResetThrottleMs

ASSUME TimersAssumption ==
    /\ Idle \in Nat /\ Warning \in Nat /\ Throttle \in Nat
    /\ Warning < Idle

VARIABLES
    state,     \* of each tab's manager: "off", "on", ended by it or its dialog
    since,     \* ticks since lastActivityTime, as far as Idle
    rested,    \* ticks since lastIdleResetTime, as far as Throttle
    shown,     \* isWarningShown
    idleLeft,  \* on the idle timer
    warnLeft,  \* on the warning timer
    countdown, \* of the dialog
    stored,    \* ticks since the activity kept in localStorage, as far as Idle
    event,     \* a storage event waits for the tab
    open,      \* the session, which the tabs share, is not logged out
    overtaken  \* tabs that took over a newer activity with their warning shown
               \* (read only by the properties)

timers == <<idleLeft, warnLeft, countdown, shown>>
vars == <<state, since, rested, timers, stored, event, open, overtaken>>

Unset == Idle + 1
On == {b \in Tabs : state[b] = "on"}
AtMost(n, max) == IF n > max THEN max ELSE n

TypeOK ==
    /\ state \in [Tabs -> {"off", "on", "timedOut", "countedDown"}]
    /\ since \in [Tabs -> 0..Idle]
    /\ rested \in [Tabs -> 0..Throttle]
    /\ shown \in [Tabs -> BOOLEAN]
    /\ idleLeft \in [Tabs -> 0..Unset]
    /\ warnLeft \in [Tabs -> 0..Unset]
    /\ countdown \in [Tabs -> 0..Unset]
    /\ stored \in 0..Idle
    /\ event \in [Tabs -> BOOLEAN]
    /\ open \in BOOLEAN
    /\ overtaken \subseteq Tabs

Init ==
    /\ state = [b \in Tabs |-> "off"]
    /\ since = [b \in Tabs |-> 0]
    /\ rested = [b \in Tabs |-> Throttle]
    /\ shown = [b \in Tabs |-> FALSE]
    /\ idleLeft = [b \in Tabs |-> Unset]
    /\ warnLeft = [b \in Tabs |-> Unset]
    /\ countdown = [b \in Tabs |-> Unset]
    /\ stored = Idle
    /\ event = [b \in Tabs |-> FALSE]
    /\ open = FALSE
    /\ overtaken = {}

-----------------------------------------------------------------------------
\* Mutant: only the warning timer starts again.
RestartTimersHalf(b, a, f, d) ==
    /\ since' = [since EXCEPT ![b] = a]
    /\ warnLeft' = [warnLeft EXCEPT ![b] = IF a >= Idle - Warning THEN Unset
                                                                  ELSE Idle - Warning - a]
    /\ shown' = [shown EXCEPT ![b] = f \/ a >= Idle - Warning]
    /\ UNCHANGED <<idleLeft, countdown>>

\* restartTimers with the last activity a ticks ago, the flag of the warning at
\* f and the dialog at d: past the threshold, showWarning runs at once.
RestartTimers(b, a, f, d) ==
    LET late == a >= Idle - Warning IN
    /\ since' = [since EXCEPT ![b] = a]
    /\ idleLeft' = [idleLeft EXCEPT ![b] = Idle - a]
    /\ warnLeft' = [warnLeft EXCEPT ![b] = IF late THEN Unset ELSE Idle - Warning - a]
    /\ shown' = [shown EXCEPT ![b] = f \/ late]
    /\ countdown' = [countdown EXCEPT ![b] = IF late /\ ~f THEN Idle - a ELSE d]

\* Mutant: the activity is kept, but nobody is told.
StoreActivityQuietly(b) == stored' = 0 /\ UNCHANGED event

\* storeLastActivity: the managers of the other tabs get an event.
StoreActivity(b) ==
    /\ stored' = 0
    /\ event' = [c \in Tabs |-> event[c] \/ (c # b /\ state[c] = "on")]

\* destroy: no timers and no listeners; endSession closes the dialog.
Destroy(b, s) ==
    /\ state' = [state EXCEPT ![b] = s]
    /\ idleLeft' = [idleLeft EXCEPT ![b] = Unset]
    /\ warnLeft' = [warnLeft EXCEPT ![b] = Unset]
    /\ countdown' = [countdown EXCEPT ![b] = Unset]
    /\ event' = [event EXCEPT ![b] = FALSE]
    /\ UNCHANGED <<since, rested, shown, stored, overtaken>>

-----------------------------------------------------------------------------
\* initialize: after a login, and once more when the user is known; or when
\* another tab of an open session starts.  No dialog is open so early.
Initialize(b) ==
    /\ countdown[b] = Unset
    /\ state' = [state EXCEPT ![b] = "on"]
    /\ rested' = [rested EXCEPT ![b] = Throttle]
    /\ RestartTimers(b, 0, FALSE, Unset)
    /\ StoreActivity(b)
    /\ open' = TRUE
    /\ overtaken' = overtaken \ {b}

\* handleUserActivity: ignored while the warning is shown, and for a while
\* after the last one.
Heeds(b) == ~shown[b] /\ rested[b] >= Throttle

HandleUserActivity(b) ==
    /\ state[b] = "on" /\ Heeds(b)
    /\ rested' = [rested EXCEPT ![b] = 0]
    /\ RestartTimers(b, 0, FALSE, Unset)
    /\ StoreActivity(b)
    /\ UNCHANGED <<state, open, overtaken>>

\* extendSession, the button of the dialog.
ExtendSession(b) ==
    /\ state[b] = "on" /\ countdown[b] # Unset
    /\ RestartTimers(b, 0, FALSE, Unset)
    /\ StoreActivity(b)
    /\ overtaken' = overtaken \ {b}
    /\ UNCHANGED <<state, rested, open>>

\* Adopt the stored activity, the flag of the warning at f and the dialog at d:
\* what is shown already stays, whatever time is left now.
Adopt(b, f, d) ==
    /\ RestartTimers(b, stored, f, d)
    /\ overtaken' = IF f THEN overtaken \cup {b} ELSE overtaken

HandleStorageChange(b) ==
    /\ state[b] = "on" /\ event[b]
    /\ event' = [event EXCEPT ![b] = FALSE]
    /\ IF stored < since[b] THEN Adopt(b, shown[b], countdown[b])
                            ELSE UNCHANGED <<since, timers, overtaken>>
    /\ UNCHANGED <<state, rested, stored, open>>

\* checkForSessionUpdate, when the tab becomes visible: the stored expiresAt is
\* text, never equal to the date in memory, so the timers restart in any case with
\* the activity the tab knew, which opens the dialog if that one is late; only then
\* the stored activity is read, and a newer one restarts the timers again.
CheckForSessionUpdate(b) ==
    LET late == since[b] >= Idle - Warning
        d == IF late /\ ~shown[b] THEN Idle - since[b] ELSE countdown[b]
    IN
    /\ state[b] = "on"
    /\ IF stored < since[b]
       THEN Adopt(b, shown[b] \/ late, d)
       ELSE /\ RestartTimers(b, since[b], shown[b], countdown[b])
            /\ UNCHANGED overtaken
    /\ UNCHANGED <<state, rested, stored, event, open>>

-----------------------------------------------------------------------------
\* showWarning
FireWarning(b) ==
    /\ warnLeft[b] = 0
    /\ warnLeft' = [warnLeft EXCEPT ![b] = Unset]
    /\ shown' = [shown EXCEPT ![b] = TRUE]
    /\ countdown' = [countdown EXCEPT ![b] = IF shown[b] THEN @ ELSE Idle - since[b]]
    /\ UNCHANGED <<state, since, rested, idleLeft, stored, event, open, overtaken>>

\* Mutant: zero left still counts as time left.
FireIdleAgain(b) ==
    /\ idleLeft[b] = 0 /\ warnLeft[b] # 0
    /\ idleLeft' = [idleLeft EXCEPT ![b] = Idle - since[b]]
    /\ UNCHANGED <<state, since, rested, warnLeft, countdown, shown,
                   stored, event, open, overtaken>>

\* handleTimeout: if an activity came meanwhile the timer starts again, else the
\* store logs out.  Timers of a page fire in the order in which they are due.
FireIdle(b) ==
    /\ idleLeft[b] = 0 /\ warnLeft[b] # 0
    /\ IF since[b] < Idle
       THEN /\ idleLeft' = [idleLeft EXCEPT ![b] = Idle - since[b]]
            /\ UNCHANGED <<state, since, rested, warnLeft, countdown, shown,
                           stored, event, open, overtaken>>
       ELSE Destroy(b, "timedOut") /\ open' = FALSE

\* The dialog's own countdown is over: it logs out without asking the manager.
CountedDown(b) ==
    /\ countdown[b] = 0
    /\ Destroy(b, "countedDown") /\ open' = FALSE

\* The user logs out.
Logout(b) ==
    /\ state[b] = "on"
    /\ Destroy(b, "off") /\ open' = FALSE

\* A call of the tab is refused, and useApiError logs out.
Evict(b) ==
    /\ state[b] = "on" /\ ~open
    /\ Destroy(b, "off") /\ UNCHANGED open

\* A tick of the clock.
Down(left) == [b \in Tabs |-> IF left[b] \in 1..Idle THEN left[b] - 1 ELSE left[b]]
Tick ==
    /\ since' = [b \in Tabs |-> AtMost(since[b] + 1, Idle)]
    /\ rested' = [b \in Tabs |-> AtMost(rested[b] + 1, Throttle)]
    /\ stored' = AtMost(stored + 1, Idle)
    /\ idleLeft' = Down(idleLeft)
    /\ warnLeft' = Down(warnLeft)
    /\ countdown' = Down(countdown)
    /\ UNCHANGED <<state, shown, event, open, overtaken>>

Next ==
    \/ Tick
    \/ \E b \in Tabs :
        \/ Initialize(b) \/ HandleUserActivity(b) \/ ExtendSession(b)
        \/ HandleStorageChange(b) \/ CheckForSessionUpdate(b)
        \/ FireWarning(b) \/ FireIdle(b) \/ CountedDown(b)
        \/ Logout(b) \/ Evict(b)

\* Time passes, and the event loop runs the timers that are due.
Fairness ==
    /\ WF_vars(Tick)
    /\ \A b \in Tabs : WF_vars(FireWarning(b)) /\ WF_vars(FireIdle(b))

Spec == Init /\ [][Next]_vars /\ Fairness

-----------------------------------------------------------------------------
(* Properties                                                              *)

\* The two timers of a manager agree with the activity it knows of, through
\* every restart: the idle timer ends with the idle time, and the warning comes
\* Warning ticks before it, unless it is shown already.
TimersAgree ==
    \A b \in On :
        /\ idleLeft[b] = Idle - since[b]
        /\ warnLeft[b] # Unset => warnLeft[b] = Idle - Warning - AtMost(since[b], Idle - Warning)
        /\ warnLeft[b] = Unset => shown[b]

\* A manager never ends a session whose warning it has not shown.
WarnedFirst ==
    [][\A b \in Tabs : state[b] = "on" /\ state'[b] = "timedOut" => shown[b]]_vars

\* No tab ends the session for idleness while another tab was active within the
\* idle time, unless the news of that activity is still on its way to it, or that
\* activity overtook its dialog: the news came while the dialog was counting down,
\* or a tab that became visible found the activity stored when it had just opened
\* the dialog for the old one.
ClosedOnlyIdle ==
    [][\A b \in Tabs :
        state[b] = "on" /\ state'[b] \in {"timedOut", "countedDown"}
        => stored = Idle \/ event[b] \/ b \in overtaken]_vars

-----------------------------------------------------------------------------
\* What the managers do, timers and events forgotten: the logout by a dialog is
\* one of the user's.
ClockState == [b \in Tabs |-> IF state[b] = "countedDown" THEN "off" ELSE state[b]]

Clock == INSTANCE IdleClock WITH state <- ClockState, since <- since

\* Each tab's manager is an idle clock: however activities, events of other tabs
\* and late timers meet, it times out only when the activity it knows of is Idle
\* ticks old, and then it does, unless the tab is left or active again.
ManagersAreIdleClocks == Clock!Spec
=============================================================================
