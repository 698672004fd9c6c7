------------------------------ MODULE Sessions ------------------------------
(***************************************************************************)
(* The sessions of one user, as packages/backend/src/services/             *)
(* auth.service.ts keeps them: a row of refresh_tokens per session, rotated *)
(* by every refresh, limited in number at login, all revoked by a password *)
(* reset.  A handler is cut at its awaits: no request runs in a            *)
(* transaction, the reset's three writes excepted.  The clock is           *)
(* abstracted: a row may expire, and a session be found timed out, at any  *)
(* moment.                                                                 *)
(***************************************************************************)
EXTENDS Naturals, FiniteSets

CONSTANTS Tokens,       \* refresh tokens, one row each
          Requests,     \* requests in flight at the server
          ResetTokens,  \* password reset tokens
          MaxSessions,  \* config.session.maxConcurrentSessions
          None          \* no token

ASSUME SessionsAssumption ==
    /\ MaxSessions \in Nat \ {0}
    /\ None \notin Tokens \cup ResetTokens
    /\ IsFiniteSet(Tokens) /\ IsFiniteSet(Requests)

VARIABLES
    row,      \* what has become of each token's row
    older,    \* the pairs of live tokens ordered by lastActivityAt
    parent,   \* the token each token replaced
    reset,    \* what has become of each password reset token
    era,      \* how often the account was given a password without an old one
    req,      \* the requests in flight
    \* What only the properties read:
    origin,   \* the era in which a token's chain of refreshes began
    shared,   \* tokens that two requests were using at once
    crowded,  \* a login counted what another request was changing
    strays    \* tokens of requests that were in flight at a reset

rows == <<row, older, parent>>
memory == <<origin, shared, crowded, strays>>
vars == <<row, older, parent, reset, era, req, memory>>

-----------------------------------------------------------------------------
Live == {t \in Tokens : row[t] = "live"}

Phases == {"idle", "verified", "counted", "found", "touched", "create", "hashing"}

Idle == [at |-> "idle", token |-> None, victims |-> {}, origin |-> 0,
         stray |-> FALSE]
Enter(r, p, t, o, s) ==
    req' = [req EXCEPT ![r] = [at |-> p, token |-> t, victims |-> {},
                               origin |-> o, stray |-> s]]
Move(r, p) == req' = [req EXCEPT ![r] = [@ EXCEPT !.at = p]]
\* The handler answers.
Answer(r) == req' = [req EXCEPT ![r] = Idle]

\* The requests that use token t: refreshes from their first read to the row
\* that replaces t, and resets from their first read to their transaction.
Users(t) == {r \in Requests : req[r].token = t}

\* No timestamp is kept of a session that has ended.
KeepOrder == older' = {p \in older : row'[p[1]] = "live" /\ row'[p[2]] = "live"}

Revoke(T) ==
    /\ row' = [t \in Tokens |-> IF t \in T THEN "revoked" ELSE row[t]]
    /\ KeepOrder
    /\ UNCHANGED parent

\* lastActivityAt: new Date()
MostRecent(t, L) ==
    {p \in older : p[1] # t /\ p[2] # t} \cup {<<u, t>> : u \in L \ {t}}

TypeOK ==
    /\ row \in [Tokens -> {"unused", "live", "revoked", "expired", "deleted"}]
    /\ older \subseteq Live \X Live
    /\ parent \in [Tokens -> Tokens \cup {None}]
    /\ reset \in [ResetTokens -> {"none", "sent", "used", "expired"}]
    /\ era \in Nat
    /\ req \in [Requests -> [at : Phases, token : Tokens \cup ResetTokens \cup {None},
                             victims : SUBSET Tokens, origin : Nat, stray : BOOLEAN]]
    /\ \A r \in Requests :
          /\ req[r].at \in {"found", "touched"} => req[r].token \in Tokens
          /\ req[r].at = "create" => req[r].token \in Tokens \cup {None}
          /\ req[r].at = "hashing" => req[r].token \in ResetTokens
          /\ req[r].at \in {"verified", "counted"} => req[r].token = None
    /\ origin \in [Tokens -> Nat]
    /\ shared \subseteq Tokens \cup ResetTokens
    /\ crowded \in BOOLEAN
    /\ strays \subseteq Tokens

Init ==
    /\ row = [t \in Tokens |-> "unused"]
    /\ older = {}
    /\ parent = [t \in Tokens |-> None]
    /\ reset = [k \in ResetTokens |-> "none"]
    /\ era = 0
    /\ req = [r \in Requests |-> Idle]
    /\ origin = [t \in Tokens |-> 0]
    /\ shared = {}
    /\ crowded = FALSE
    /\ strays = {}

-----------------------------------------------------------------------------
(* Opening a session                                                       *)

\* register: the email is unique, so the account is created once.
Register(r) ==
    /\ req[r].at = "idle" /\ era = 0
    /\ era' = 1
    /\ Enter(r, "create", None, 1, FALSE)
    /\ UNCHANGED <<rows, reset, memory>>

\* login: the password of the row it read is compared, outside a transaction.
LoginVerify(r) ==
    /\ req[r].at = "idle" /\ era > 0
    /\ Enter(r, "verified", None, era, FALSE)
    /\ UNCHANGED <<rows, reset, era, memory>>

\* enforceMaxConcurrentSessions: the least recently active sessions, as many
\* as are to go to leave room for one more.
\* Mutant: no room is left for the new one.
ExcessWithoutRoom == IF Cardinality(Live) < MaxSessions THEN 0
                     ELSE Cardinality(Live) - MaxSessions

Excess == IF Cardinality(Live) < MaxSessions THEN 0
          ELSE Cardinality(Live) + 1 - MaxSessions
Victims == {V \in SUBSET Live :
              /\ Cardinality(V) = Excess
              /\ \A v \in V, w \in Live \ V : <<v, w>> \in older}

\* Another request is about to open a session that the count does not see.
Uncounted(V) ==
    \E q \in Requests :
        \/ req[q].at \in {"counted", "create"}
        \/ req[q].at \in {"found", "touched"} /\ req[q].token \notin Live \ V

LoginCount(r) ==
    /\ req[r].at = "verified"
    /\ \E V \in Victims :
          /\ req' = [req EXCEPT ![r] = [@ EXCEPT !.at = "counted", !.victims = V]]
          /\ crowded' = (crowded \/ Uncounted(V))
    /\ UNCHANGED <<rows, reset, era, origin, shared, strays>>

\* Without victims nothing is written.
LoginRevoke(r) ==
    /\ req[r].at = "counted"
    /\ Revoke({t \in req[r].victims : row[t] # "deleted"})
    /\ req' = [req EXCEPT ![r] = [@ EXCEPT !.at = "create", !.victims = {}]]
    /\ UNCHANGED <<reset, era, memory>>

\* generateTokens, for a login, a registration or a refresh.
Create(r, t) ==
    /\ req[r].at = "create" /\ row[t] = "unused"
    /\ row' = [row EXCEPT ![t] = "live"]
    /\ older' = MostRecent(t, Live)
    /\ parent' = [parent EXCEPT ![t] = req[r].token]
    /\ origin' = [origin EXCEPT ![t] = req[r].origin]
    /\ strays' = IF req[r].stray THEN strays \cup {t} ELSE strays
    /\ Answer(r)
    /\ UNCHANGED <<reset, era, shared, crowded>>

-----------------------------------------------------------------------------
(* Refreshing one: find, record activity, validate, revoke, create          *)

\* Validation uses the row read here: only a live one gets any further.
RefreshFind(r, t) ==
    /\ req[r].at = "idle" /\ row[t] = "live"
    /\ Enter(r, "found", t, origin[t], t \in strays)
    /\ shared' = IF Users(t) = {} THEN shared ELSE shared \cup {t}
    /\ crowded' = (crowded \/ \E q \in Requests : t \in req[q].victims)
    /\ UNCHANGED <<rows, reset, era, origin, strays>>

\* The update of lastActivityAt may fail, which is only logged.
RefreshTouch(r) ==
    /\ req[r].at = "found"
    /\ Move(r, "touched")
    /\ \/ /\ row[req[r].token] = "live"
          /\ older' = MostRecent(req[r].token, Live)
       \/ UNCHANGED older
    /\ UNCHANGED <<row, parent, reset, era, memory>>

\* validateSession: idle (if the update failed) or older than the absolute
\* timeout, the session is revoked if it is not yet.
RefreshTimedOut(r) ==
    /\ req[r].at = "touched"
    /\ Revoke({req[r].token} \cap {t \in Tokens : row[t] \in {"live", "expired"}})
    /\ Answer(r)
    /\ UNCHANGED <<reset, era, memory>>

\* Mutant: the presented token stays usable.
RefreshKeep(r) ==
    /\ req[r].at = "touched"
    /\ IF row[req[r].token] # "deleted" THEN Move(r, "create") ELSE Answer(r)
    /\ UNCHANGED <<rows, reset, era, memory>>

\* The presented token is revoked by id, without asking whether it still is
\* live; the update fails when the row is gone.
RefreshRevoke(r) ==
    /\ req[r].at = "touched"
    /\ \/ /\ row[req[r].token] # "deleted"
          /\ Revoke({req[r].token})
          /\ Move(r, "create")
       \/ /\ row[req[r].token] = "deleted"
          /\ Answer(r)
          /\ UNCHANGED rows
    /\ UNCHANGED <<reset, era, memory>>

-----------------------------------------------------------------------------
(* Ending sessions                                                         *)

\* logout and revokeSession; revoking twice only moves the timestamp.
Logout(t) ==
    /\ row[t] \notin {"unused", "deleted"}
    /\ Revoke({t})
    /\ UNCHANGED <<reset, era, req, memory>>

LogoutAllSessions ==
    /\ Revoke({t \in Tokens : row[t] \in {"live", "expired"}})
    /\ UNCHANGED <<reset, era, req, memory>>

UpdateActivity(t) ==
    /\ row[t] = "live"
    /\ older' = MostRecent(t, Live)
    /\ UNCHANGED <<row, parent, reset, era, req, memory>>

Expire(t) ==
    /\ row[t] = "live"
    /\ row' = [row EXCEPT ![t] = "expired"]
    /\ KeepOrder
    /\ UNCHANGED <<parent, reset, era, req, memory>>

\* cleanupExpiredSessions: every expired row, and the revoked rows D, whose expiry
\* has come as well, or whose end is seven days past.
CleanupExpiredSessions(D) ==
    /\ \A t \in D : row[t] = "revoked"
    /\ row' = [t \in Tokens |-> IF row[t] = "expired" \/ t \in D
                                THEN "deleted" ELSE row[t]]
    /\ UNCHANGED <<older, parent, reset, era, req, memory>>

-----------------------------------------------------------------------------
(* Resetting the password                                                  *)

RequestPasswordReset(k) ==
    /\ reset[k] = "none" /\ era > 0
    /\ reset' = [reset EXCEPT ![k] = "sent"]
    /\ UNCHANGED <<rows, era, req, memory>>

ResetTokenExpires(k) ==
    /\ reset[k] = "sent"
    /\ reset' = [reset EXCEPT ![k] = "expired"]
    /\ UNCHANGED <<rows, era, req, memory>>

\* Mutant: a used token is found as well.
ResetFindUsed(r, k) ==
    /\ req[r].at = "idle" /\ reset[k] \in {"sent", "used"}
    /\ Enter(r, "hashing", k, era, FALSE)
    /\ shared' = IF Users(k) = {} THEN shared ELSE shared \cup {k}
    /\ UNCHANGED <<rows, reset, era, origin, crowded, strays>>

\* validateResetToken, before the new password is hashed.
ResetFind(r, k) ==
    /\ req[r].at = "idle" /\ reset[k] = "sent"
    /\ Enter(r, "hashing", k, era, FALSE)
    /\ shared' = IF Users(k) = {} THEN shared ELSE shared \cup {k}
    /\ UNCHANGED <<rows, reset, era, origin, crowded, strays>>

\* Mutant: the sessions stay.
ResetPasswordOnly(r) ==
    /\ req[r].at = "hashing"
    /\ era' = era + 1
    /\ reset' = [reset EXCEPT ![req[r].token] = "used"]
    /\ req' = [q \in Requests |->
                 IF q = r \/ req[q] = Idle THEN Idle
                 ELSE [req[q] EXCEPT !.stray = TRUE]]
    /\ UNCHANGED <<rows, memory>>

\* The transaction writes the password, the use and the revocations, without
\* asking again whether the reset token is unused.
ResetCommit(r) ==
    /\ req[r].at = "hashing"
    /\ era' = era + 1
    /\ reset' = [reset EXCEPT ![req[r].token] = "used"]
    /\ Revoke({t \in Tokens : row[t] \in {"live", "expired"}})
    /\ req' = [q \in Requests |->
                 IF q = r \/ req[q] = Idle THEN Idle
                 ELSE [req[q] EXCEPT !.stray = TRUE]]
    /\ UNCHANGED memory

-----------------------------------------------------------------------------
\* A statement fails: the error handler answers, what was written stays.
Fail(r) ==
    /\ req[r].at # "idle"
    /\ Answer(r)
    /\ UNCHANGED <<rows, reset, era, memory>>

\* The handlers' own steps, the last of which answers.
Step(r) ==
    \/ LoginCount(r) \/ LoginRevoke(r) \/ \E t \in Tokens : Create(r, t)
    \/ RefreshTouch(r) \/ RefreshTimedOut(r) \/ RefreshRevoke(r)
    \/ ResetCommit(r) \/ Fail(r)

\* What happens to the tables in one statement.
Statement ==
    \/ LogoutAllSessions
    \/ \E t \in Tokens : Logout(t) \/ UpdateActivity(t) \/ Expire(t)
    \/ \E D \in SUBSET Tokens : CleanupExpiredSessions(D)
    \/ \E k \in ResetTokens : RequestPasswordReset(k) \/ ResetTokenExpires(k)

Begin(r) ==
    \/ Register(r) \/ LoginVerify(r)
    \/ \E t \in Tokens : RefreshFind(r, t)
    \/ \E k \in ResetTokens : ResetFind(r, k)

Next == Statement \/ \E r \in Requests : Begin(r) \/ Step(r)

Spec == Init /\ [][Next]_vars

-----------------------------------------------------------------------------
(* Properties                                                              *)

\* Rotation is linear: a token is replaced by at most one token, unless two
\* refreshes of it were in flight at once, both of which find it unrevoked.
OneSuccessorUnlessShared ==
    \A t, u \in Tokens :
        parent[t] = parent[u] /\ parent[t] # None => t = u \/ parent[t] \in shared

\* A user has at most MaxSessions sessions, although refreshes open sessions
\* without counting them, unless a login counted while another request was
\* opening a session or using one of those to be ended, or a token was shared.
LimitUnlessCrowded ==
    crowded \/ shared \cap Tokens # {} \/ Cardinality(Live) <= MaxSessions

\* No session outlives a password reset, however often it is refreshed: one
\* that is live goes back to a login after the last reset, unless a request
\* was in flight when the reset was committed.
ResetEndsSessions ==
    \A t \in Live : origin[t] = era \/ t \in strays

\* A reset token sets one password, unless two resets found it unused together.
ResetOnceUnlessShared ==
    [][\A r \in Requests :
         /\ req[r].at = "hashing" /\ req'[r] = Idle /\ era' # era
         /\ reset[req[r].token] = "used"
         => req[r].token \in shared]_vars
=============================================================================
