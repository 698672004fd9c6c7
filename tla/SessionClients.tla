--------------------------- MODULE SessionClients ---------------------------
(***************************************************************************)
(* The tabs of one browser against the sessions of Sessions.tla:           *)
(* packages/frontend/src/services/core/api.core.ts, which answers a 401 by *)
(* one refresh per tab, and the logout of packages/frontend/src/store/     *)
(* index.ts.  The tabs share one cookie jar, not their refreshes; answers  *)
(* may arrive in any order, late, or never.  A request reaches the server  *)
(* when it is sent; the cookies of an answer are set when it arrives.      *)
(***************************************************************************)
EXTENDS Sessions

CONSTANT Tabs

ASSUME TabsAssumption ==
    /\ None \notin Tabs
    /\ {"none", "refused"} \cap Tokens = {}

VARIABLES
    jar,   \* the refreshToken cookie
    page,  \* where each tab is: at work ("in", "refreshing"), after a failed refresh
           \* ("failed"), at the login page ("out", "entering")
    wire,  \* the exchanges of the browser: whose each is, and the answer
    \* What only the properties read:
    why,   \* what happened so far that may cost the browser its session:
           \* "crossed", "lost", "ended", "fault", "again"
    mine,  \* the tokens that were sent to the browser, or lost on the way
    left   \* whether the last thing the user did was to log out, and was heard

browser == <<jar, page, wire, why, mine, left>>
clientVars == <<vars, browser>>

NoWire == [to |-> None, ans |-> "none"]

ClientsInit ==
    /\ Init
    /\ jar = None
    /\ page = [b \in Tabs |-> "out"]
    /\ wire = [r \in Requests |-> NoWire]
    /\ why = {}
    /\ mine = {}
    /\ left = "no"

-----------------------------------------------------------------------------
Free(r) == req[r] = Idle /\ wire[r] = NoWire
\* The other tabs' exchanges that are under way.
Others(b) == {r \in Requests : wire[r].to \notin {b, None}}
Crossing(b) == IF Others(b) = {} THEN {} ELSE {"crossed"}

Send(r, b, ans, p) ==
    /\ wire' = [wire EXCEPT ![r] = [to |-> b, ans |-> ans]]
    /\ page' = [page EXCEPT ![b] = p]

\* The login page, of a user who may have registered there.
SignIn(b, r) ==
    /\ page[b] = "out" /\ Free(r)
    /\ Register(r) \/ LoginVerify(r)
    /\ Send(r, b, "none", "entering")
    /\ why' = why \cup Crossing(b) \cup (IF jar = None THEN {} ELSE {"again"})
    /\ left' = "no"
    /\ UNCHANGED <<jar, mine>>

\* Mutant: every call that is answered 401 refreshes.
MayRefreshAgain(b) == page[b] \in {"in", "refreshing"}

\* refreshPromise: a tab has one refresh under way, which all its calls await.
MayRefresh(b) == page[b] = "in"

\* A call of the tab is answered 401, and the tab refreshes.
Refresh(b, r) ==
    /\ MayRefresh(b) /\ Free(r)
    /\ jar # None
    /\ \/ /\ RefreshFind(r, jar)
          /\ Send(r, b, "none", "refreshing")
       \/ /\ row[jar] # "live"
          /\ Send(r, b, "refused", "refreshing")
          /\ UNCHANGED vars
    /\ why' = why \cup Crossing(b)
    /\ UNCHANGED <<jar, mine, left>>

\* Without the cookie the endpoint answers 400.
RefreshWithoutCookie(b) ==
    /\ MayRefresh(b) /\ jar = None
    /\ page' = [page EXCEPT ![b] = "failed"]
    /\ UNCHANGED <<vars, jar, wire, why, mine, left>>

-----------------------------------------------------------------------------
\* The server works on a request; its answer waits for the network.
Answered(r, ans) ==
    wire' = IF wire[r].to = None THEN wire ELSE [wire EXCEPT ![r].ans = ans]

Grant(r, t) ==
    /\ Create(r, t)
    /\ Answered(r, t)
    /\ mine' = IF wire[r].to = None THEN mine ELSE mine \cup {t}
    /\ UNCHANGED <<jar, page, why, left>>

Refuse(r) ==
    /\ RefreshTimedOut(r) \/ Fail(r) \/ RefreshRevoke(r)
    /\ req'[r] = Idle
    /\ Answered(r, "refused")
    /\ why' = why \cup {"fault"}
    /\ UNCHANGED <<jar, page, mine, left>>

Work(r) ==
    /\ LoginCount(r) \/ LoginRevoke(r) \/ RefreshTouch(r) \/ RefreshRevoke(r)
    /\ req'[r] # Idle
    /\ why' = IF wire[r].to = None /\ row' # row THEN why \cup {"ended"} ELSE why
    /\ UNCHANGED <<jar, page, wire, mine, left>>

Handle(r) == Work(r) \/ Refuse(r) \/ \E t \in Tokens : Grant(r, t)

-----------------------------------------------------------------------------
\* The answer arrives: its cookies are set whichever tab it is for.
Receive(r) ==
    LET b == wire[r].to  ans == wire[r].ans IN
    /\ ans # "none"
    /\ wire' = [wire EXCEPT ![r] = NoWire]
    /\ \/ /\ ans = "refused"
          /\ page' = [page EXCEPT ![b] = IF @ = "entering" THEN "out" ELSE "failed"]
          /\ UNCHANGED jar
       \/ /\ ans \in Tokens
          /\ jar' = ans
          /\ page' = [page EXCEPT ![b] = "in"]
    /\ UNCHANGED <<vars, why, mine, left>>

\* Mutant: the promise of the refresh is never settled.
LoseSilently(r) ==
    /\ wire[r].to # None
    /\ wire' = [wire EXCEPT ![r] = NoWire]
    /\ why' = why \cup {"lost"}
    /\ UNCHANGED <<vars, jar, page, mine, left>>

\* The connection breaks, or the client's timeout is over: the server may still
\* be at work, and what it answers is not heard.
Lose(r) ==
    LET b == wire[r].to IN
    /\ b # None
    /\ wire' = [wire EXCEPT ![r] = NoWire]
    /\ page' = [page EXCEPT ![b] = IF @ = "entering" THEN "out" ELSE "failed"]
    /\ why' = why \cup {"lost"}
    /\ UNCHANGED <<vars, jar, mine, left>>

\* Mutant: the cookie goes, the session stays.
SignOutHere(b) ==
    /\ page[b] \in {"in", "failed"}
    /\ jar' = None
    /\ page' = [page EXCEPT ![b] = "out"]
    /\ why' = why \cup {"ended"}
    /\ left' = IF \E r \in Requests : wire[r] # NoWire THEN "raced" ELSE "yes"
    /\ UNCHANGED <<vars, wire, mine>>

\* POST /auth/logout with the cookie of the moment, which it clears.
SignOut(b) ==
    /\ page[b] \in {"in", "failed"}
    /\ IF jar = None THEN UNCHANGED vars ELSE Logout(jar)
    /\ jar' = None
    /\ page' = [page EXCEPT ![b] = "out"]
    /\ why' = why \cup {"ended"}
    /\ left' = IF \E r \in Requests : wire[r] # NoWire THEN "raced" ELSE "yes"
    /\ UNCHANGED <<wire, mine>>

\* The logout's call fails, before or after the server has seen it, which is only
\* logged: the tab is at the login page and the cookie stays.
SignOutUnheard(b) ==
    /\ page[b] \in {"in", "failed"} /\ jar # None
    /\ UNCHANGED vars \/ Logout(jar)
    /\ page' = [page EXCEPT ![b] = "out"]
    /\ why' = why \cup {"lost"}
    /\ left' = "raced"
    /\ UNCHANGED <<jar, wire, mine>>

\* After a failed refresh the tab goes to the login page; the callers that
\* hand the error to useApiError log out as well (SignOut).
GiveUp(b) ==
    /\ page[b] = "failed"
    /\ page' = [page EXCEPT ![b] = "out"]
    /\ UNCHANGED <<vars, jar, wire, why, mine, left>>

\* Another tab of a browser that is signed in.
OpenTab(b) ==
    /\ page[b] = "out" /\ jar # None
    /\ page' = [page EXCEPT ![b] = "in"]
    /\ UNCHANGED <<vars, jar, wire, why, mine, left>>

-----------------------------------------------------------------------------
\* Other devices of the user, and the clock.
LoginElsewhere(r) ==
    /\ Free(r) /\ LoginVerify(r)
    /\ UNCHANGED browser

EndElsewhere ==
    /\ LogoutAllSessions \/ \E t \in Tokens : Logout(t) \/ Expire(t)
    /\ why' = why \cup {"ended"}
    /\ UNCHANGED <<jar, page, wire, mine, left>>

ClientsNext ==
    \/ \E b \in Tabs : \/ RefreshWithoutCookie(b) \/ SignOut(b) \/ SignOutUnheard(b)
                       \/ GiveUp(b) \/ OpenTab(b)
                       \/ \E r \in Requests : SignIn(b, r) \/ Refresh(b, r)
    \/ \E r \in Requests : Handle(r) \/ Receive(r) \/ Lose(r) \/ LoginElsewhere(r)
    \/ EndElsewhere

\* A handler goes on to its answer; an answer arrives, or the client's timeout
\* gives it up.
ClientsFairness == \A r \in Requests :
    WF_clientVars(Handle(r)) /\ WF_clientVars(Receive(r) \/ Lose(r))

ClientsSpec == ClientsInit /\ [][ClientsNext]_clientVars /\ ClientsFairness

-----------------------------------------------------------------------------
(* Properties                                                              *)

\* Rotation alone never costs a browser its session: a refresh fails only
\* after tabs' exchanges crossed, an answer was lost, the server failed or timed
\* the session out, or the session was ended.
KeptSignedIn == (\E b \in Tabs : page[b] = "failed") => why # {}

\* After a logout that no exchange of the browser was crossing, the cookie
\* stays away until the next login, and nothing the browser was ever sent is
\* live, unless tabs crossed, an answer was lost or a login replaced a session
\* before.
LogoutSticks ==
    left = "yes" =>
        /\ jar = None
        /\ mine \cap Live = {} \/ why \cap {"crossed", "lost", "again"} # {}

\* No tab waits for its refresh for ever, and with it every call of the tab.
RefreshSettles ==
    \A b \in Tabs : page[b] = "refreshing" ~> page[b] # "refreshing"
=============================================================================
