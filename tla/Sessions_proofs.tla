--------------------------- MODULE Sessions_proofs ---------------------------
(***************************************************************************)
(* The sessions of a user for any number of tokens and requests and any    *)
(* limit.  The argument: a token that has ended never lives again, so only *)
(* requests that found a token together can replace it twice, and those    *)
(* are the ones that shared records; a reset ends every session and marks  *)
(* every request in flight; and a login leaves room for all the sessions   *)
(* that are about to be opened, unless it is crowded.                      *)
(* Then the tabs of a browser: the server they talk to is this one, and    *)
(* what may cost them their session, or outlive their logout, is known.    *)
(***************************************************************************)
EXTENDS SessionClients, TLAPS, FiniteSetTheorems

Ended(t) == row[t] \in {"revoked", "expired", "deleted"}

\* Two requests that use one token are known to.
SharedNoted ==
    \A r, q \in Requests :
        req[r].token = req[q].token /\ req[r].token # None
            => r = q \/ req[r].token \in shared

\* A token that was replaced, or is about to be, has ended,
ReplacedEnded ==
    /\ \A t \in Tokens : parent[t] # None => Ended(parent[t])
    /\ \A r \in Requests : req[r].at = "create" /\ req[r].token # None => Ended(req[r].token)

\* and whoever uses a replaced token still shares it.
ReplacedShared ==
    \A r \in Requests, t \in Tokens :
        /\ req[r].at \in {"found", "touched", "create"}
        /\ req[r].token # None /\ parent[t] = req[r].token
        => parent[t] \in shared

\* Before the account there is nothing.
NothingYet ==
    era = 0 => /\ Live = {} /\ \A r \in Requests : req[r] = Idle
               /\ \A k \in ResetTokens : reset[k] = "none"

\* A request that opens a session goes back to the last password, or is a stray.
OpensFresh ==
    \A r \in Requests :
        req[r].at \in {"verified", "counted", "found", "touched", "create"}
            => req[r].origin = era \/ req[r].stray

\* A reset that holds a used token shares it.
UsedShared ==
    \A r \in Requests :
        req[r].at = "hashing" /\ reset[req[r].token] = "used" => req[r].token \in shared

\* The sessions there are and those that are about to be replaced, without the
\* tokens of V; the requests that will open one more.
Held(V) == (Live \ V) \cup {t \in Tokens : \E r \in Requests :
                               req[r].at \in {"found", "touched"} /\ req[r].token = t}
Creators == {r \in Requests : req[r].at = "create"}

Uncrowded == ~crowded /\ shared \cap Tokens = {}

\* There is room for every session that is about to be opened,
Room == Uncrowded => Cardinality(Held({})) + Cardinality(Creators) <= MaxSessions

\* and the login that has counted will have made room for its own.
RoomAtLogin ==
    Uncrowded => \A r \in Requests : req[r].at = "counted" =>
        /\ Cardinality(Held(req[r].victims)) + Cardinality(Creators) < MaxSessions
        /\ \A q \in Requests : req[q].at = "counted" => q = r

Chain == SharedNoted /\ ReplacedEnded /\ ReplacedShared /\ OneSuccessorUnlessShared
Resets == NothingYet /\ OpensFresh /\ ResetEndsSessions /\ UsedShared
Limits == Room /\ RoomAtLogin
IInv == TypeOK /\ Chain /\ Resets /\ Limits

-----------------------------------------------------------------------------
\* Rows and their order, and requests, keep their types.
RowsTyped ==
    /\ row \in [Tokens -> {"unused", "live", "revoked", "expired", "deleted"}]
    /\ older \subseteq Live \X Live

ReqType == [at : Phases, token : Tokens \cup ResetTokens \cup {None},
            victims : SUBSET Tokens, origin : Nat, stray : BOOLEAN]

ReqTyped(r) ==
    /\ req[r] \in ReqType
    /\ req[r].at \in {"found", "touched"} => req[r].token \in Tokens
    /\ req[r].at = "create" => req[r].token \in Tokens \cup {None}
    /\ req[r].at = "hashing" => req[r].token \in ResetTokens
    /\ req[r].at \in {"verified", "counted"} => req[r].token = None

LEMMA RevokeEnds ==
  ASSUME TypeOK, NEW T \in SUBSET Tokens, Revoke(T)
  PROVE  /\ RowsTyped' /\ UNCHANGED parent
         /\ \A t \in Tokens : row'[t] = IF t \in T THEN "revoked" ELSE row[t]
<1>1. row' = [t \in Tokens |-> IF t \in T THEN "revoked" ELSE row[t]]
  BY DEF Revoke
<1>2. row' \in [Tokens -> {"unused", "live", "revoked", "expired", "deleted"}]
  BY <1>1 DEF TypeOK
<1>3. ASSUME NEW p \in older' PROVE p \in Live' \X Live'
  <2>1. p \in Live \X Live /\ row'[p[1]] = "live" /\ row'[p[2]] = "live"
    BY DEF Revoke, KeepOrder, TypeOK
  <2> QED BY <2>1 DEF Live
<1> QED BY <1>1, <1>2, <1>3 DEF RowsTyped, Revoke

LEMMA OrderTyped ==
  ASSUME TypeOK, NEW t \in Tokens, row' \in [Tokens -> {"unused", "live", "revoked", "expired", "deleted"}],
         Live' = Live \cup {t}, older' = MostRecent(t, Live)
  PROVE  RowsTyped'
<1>1. \A p \in older' : p \in Live' \X Live'
  BY DEF TypeOK, MostRecent
<1> QED BY <1>1 DEF RowsTyped

\* What the statements on the tables do, in terms of what matters here.
LEMMA StatementStep ==
  ASSUME TypeOK, Statement
  PROVE  /\ RowsTyped' /\ reset' \in [ResetTokens -> {"none", "sent", "used", "expired"}]
         /\ UNCHANGED <<parent, era, req, memory>>
         /\ \A t \in Tokens : row'[t] = "live" => row[t] = "live"
         /\ \A t \in Tokens : Ended(t) => Ended(t)'
         /\ \A k \in ResetTokens : /\ reset'[k] = "used" => reset[k] = "used"
                                   /\ reset[k] = "none" => reset'[k] = "none" \/ era > 0
<1> DEFINE Goal ==
         /\ RowsTyped' /\ reset' \in [ResetTokens -> {"none", "sent", "used", "expired"}]
         /\ UNCHANGED <<parent, era, req, memory>>
         /\ \A t \in Tokens : row'[t] = "live" => row[t] = "live"
         /\ \A t \in Tokens : Ended(t) => Ended(t)'
         /\ \A k \in ResetTokens : /\ reset'[k] = "used" => reset[k] = "used"
                                   /\ reset[k] = "none" => reset'[k] = "none" \/ era > 0
<1>1. ASSUME NEW T \in SUBSET Tokens, Revoke(T), UNCHANGED <<reset, era, req, memory>> PROVE Goal
  <2>1. \A t \in Tokens : Ended(t) => Ended(t)'
    BY <1>1, RevokeEnds DEF Ended
  <2>2. \A t \in Tokens : row'[t] = "live" => row[t] = "live"
    BY <1>1, RevokeEnds
  <2> QED BY <1>1, <2>1, <2>2, RevokeEnds DEF TypeOK
<1>2. ASSUME LogoutAllSessions PROVE Goal
  BY <1>1, <1>2 DEF LogoutAllSessions
<1>3. ASSUME NEW t \in Tokens, Logout(t) PROVE Goal
  BY <1>1, <1>3 DEF Logout
<1>4. ASSUME NEW t \in Tokens, UpdateActivity(t) PROVE Goal
  <2>1. Live' = Live \cup {t} /\ UNCHANGED row
    BY <1>4 DEF UpdateActivity, Live
  <2> QED BY <1>4, <2>1, OrderTyped DEF UpdateActivity, TypeOK, Ended
<1>5. ASSUME NEW t \in Tokens, Expire(t) PROVE Goal
  <2>1. row' \in [Tokens -> {"unused", "live", "revoked", "expired", "deleted"}]
    BY <1>5 DEF Expire, TypeOK
  <2>2. ASSUME NEW p \in older' PROVE p \in Live' \X Live'
    <3>1. p \in Live \X Live /\ row'[p[1]] = "live" /\ row'[p[2]] = "live"
      BY <1>5 DEF Expire, KeepOrder, TypeOK
    <3> QED BY <3>1 DEF Live
  <2>3. \A u \in Tokens : row'[u] = IF u = t THEN "expired" ELSE row[u]
    BY <1>5 DEF Expire, TypeOK
  <2>4. \A u \in Tokens : /\ row'[u] = "live" => row[u] = "live"
                          /\ Ended(u) => Ended(u)'
    BY <2>3 DEF Ended
  <2> QED BY <1>5, <2>1, <2>2, <2>4 DEF Expire, RowsTyped, TypeOK
<1>6. ASSUME NEW D \in SUBSET Tokens, CleanupExpiredSessions(D) PROVE Goal
  <2>1. \A t \in Tokens : row'[t] = IF row[t] = "expired" \/ t \in D THEN "deleted" ELSE row[t]
    BY <1>6 DEF CleanupExpiredSessions
  <2>2. row' \in [Tokens -> {"unused", "live", "revoked", "expired", "deleted"}]
    BY <1>6 DEF CleanupExpiredSessions, TypeOK
  <2>3. \A t \in Tokens : /\ row'[t] = "live" <=> row[t] = "live"
                          /\ Ended(t) => Ended(t)'
    BY <1>6, <2>1 DEF CleanupExpiredSessions, Ended
  <2>4. Live' = Live
    BY <2>3 DEF Live
  <2> QED BY <1>6, <2>2, <2>3, <2>4 DEF CleanupExpiredSessions, RowsTyped, TypeOK
<1>7. ASSUME NEW k \in ResetTokens, RequestPasswordReset(k) \/ ResetTokenExpires(k) PROVE Goal
  <2>1. PICK v \in {"sent", "expired"} : /\ reset' = [reset EXCEPT ![k] = v]
                                         /\ reset[k] = "none" => era > 0
    BY <1>7 DEF RequestPasswordReset, ResetTokenExpires
  <2>2. UNCHANGED <<row, older, parent, era, req, memory>>
    BY <1>7 DEF RequestPasswordReset, ResetTokenExpires, rows
  <2>3. RowsTyped' /\ \A t \in Tokens : Ended(t)' = Ended(t)
    BY <2>2 DEF TypeOK, RowsTyped, Live, Ended
  <2> QED BY <2>1, <2>2, <2>3 DEF TypeOK
<1> HIDE DEF Goal
<1>8. Goal
  BY <1>2, <1>3, <1>4, <1>5, <1>6, <1>7 DEF Statement
<1> QED BY <1>8 DEF Goal

-----------------------------------------------------------------------------
LEMMA TypeParts ==
  TypeOK <=> /\ RowsTyped
             /\ parent \in [Tokens -> Tokens \cup {None}]
             /\ reset \in [ResetTokens -> {"none", "sent", "used", "expired"}]
             /\ era \in Nat
             /\ req \in [Requests -> ReqType] /\ \A r \in Requests : ReqTyped(r)
             /\ origin \in [Tokens -> Nat]
             /\ shared \subseteq Tokens \cup ResetTokens
             /\ crowded \in BOOLEAN
             /\ strays \subseteq Tokens
BY DEF TypeOK, RowsTyped, ReqType, ReqTyped

\* A request's own entry after its step.
LEMMA Entered ==
  ASSUME TypeOK, NEW r \in Requests, NEW p, NEW t, NEW o, NEW s, Enter(r, p, t, o, s)
  PROVE  /\ req'[r] = [at |-> p, token |-> t, victims |-> {}, origin |-> o, stray |-> s]
         /\ \A q \in Requests \ {r} : req'[q] = req[q]
         /\ req' = [req EXCEPT ![r] = [at |-> p, token |-> t, victims |-> {}, origin |-> o, stray |-> s]]
BY DEF TypeOK, Enter

LEMMA Moved ==
  ASSUME TypeOK, NEW r \in Requests, NEW p, Move(r, p)
  PROVE  /\ req'[r] = [req[r] EXCEPT !.at = p]
         /\ \A q \in Requests \ {r} : req'[q] = req[q]
         /\ req' = [req EXCEPT ![r] = [req[r] EXCEPT !.at = p]]
BY DEF TypeOK, Move

LEMMA AnsweredIdle ==
  ASSUME TypeOK, NEW r \in Requests, Answer(r)
  PROVE  /\ req'[r] = Idle
         /\ \A q \in Requests \ {r} : req'[q] = req[q]
         /\ req' \in [Requests -> ReqType] /\ \A q \in Requests : ReqTyped(q)'
<1>1. Idle \in ReqType
  BY DEF Idle, ReqType, Phases
<1>2. req'[r] = Idle /\ \A q \in Requests \ {r} : req'[q] = req[q]
  BY DEF TypeOK, Answer
<1>3. req' \in [Requests -> ReqType]
  BY <1>1, TypeParts DEF Answer
<1>4. ReqTyped(r)'
  BY <1>1, <1>2 DEF ReqTyped, Idle
<1>5. \A q \in Requests \ {r} : ReqTyped(q)'
  BY <1>2, TypeParts DEF ReqTyped
<1> QED BY <1>2, <1>3, <1>4, <1>5

\* A step that leaves the other requests alone keeps them typed.
LEMMA OneTyped ==
  ASSUME TypeOK, NEW r \in Requests, NEW v \in ReqType, req' = [req EXCEPT ![r] = v],
         v.at \in {"found", "touched"} => v.token \in Tokens,
         v.at = "create" => v.token \in Tokens \cup {None},
         v.at = "hashing" => v.token \in ResetTokens,
         v.at \in {"verified", "counted"} => v.token = None
  PROVE  req' \in [Requests -> ReqType] /\ \A q \in Requests : ReqTyped(q)'
<1>1. req' \in [Requests -> ReqType] /\ req'[r] = v
  BY TypeParts
<1>2. ReqTyped(r)'
  BY <1>1 DEF ReqTyped
<1>3. \A q \in Requests \ {r} : ReqTyped(q)'
  BY TypeParts DEF ReqTyped
<1> QED BY <1>1, <1>2, <1>3

LEMMA EnterTyped ==
  ASSUME TypeOK, NEW r \in Requests, NEW p \in Phases,
         NEW t \in Tokens \cup ResetTokens \cup {None}, NEW o \in Nat, NEW s \in BOOLEAN,
         Enter(r, p, t, o, s),
         p \in {"found", "touched"} => t \in Tokens,
         p = "create" => t \in Tokens \cup {None},
         p = "hashing" => t \in ResetTokens,
         p \in {"verified", "counted"} => t = None
  PROVE  req' \in [Requests -> ReqType] /\ \A q \in Requests : ReqTyped(q)'
<1> DEFINE v == [at |-> p, token |-> t, victims |-> {}, origin |-> o, stray |-> s]
<1>1. v \in ReqType /\ v.at = p /\ v.token = t
  <2>1. CASE s = TRUE
    BY <2>1 DEF ReqType
  <2>2. CASE s = FALSE
    BY <2>2 DEF ReqType
  <2> QED BY <2>1, <2>2
<1>2. req' = [req EXCEPT ![r] = v]
  BY DEF Enter
<1> HIDE DEF v
<1> QED BY <1>1, <1>2, OneTyped

LEMMA TypeStep == TypeOK /\ [Next]_vars => TypeOK'
<1> SUFFICES ASSUME TypeOK, [Next]_vars PROVE TypeOK'
  OBVIOUS
<1> DEFINE Rq == req' \in [Requests -> ReqType] /\ \A r \in Requests : ReqTyped(r)'
           Goal == /\ RowsTyped' /\ Rq
                   /\ parent' \in [Tokens -> Tokens \cup {None}]
                   /\ reset' \in [ResetTokens -> {"none", "sent", "used", "expired"}]
                   /\ era' \in Nat
                   /\ origin' \in [Tokens -> Nat]
                   /\ shared' \subseteq Tokens \cup ResetTokens
                   /\ crowded' \in BOOLEAN
                   /\ strays' \subseteq Tokens
<1>0. /\ RowsTyped /\ req \in [Requests -> ReqType] /\ \A r \in Requests : ReqTyped(r)
      /\ UNCHANGED rows => RowsTyped'
      /\ UNCHANGED req => Rq
  BY TypeParts DEF rows, RowsTyped, Live, ReqTyped
<1>1. ASSUME UNCHANGED vars PROVE Goal
  BY <1>0, <1>1 DEF vars, rows, memory, TypeOK
<1>2. ASSUME Statement PROVE Goal
  BY <1>0, <1>2, StatementStep DEF TypeOK, memory
<1>3. ASSUME NEW r \in Requests, Register(r) \/ LoginVerify(r) PROVE Goal
  <2>1. PICK p \in {"create", "verified"}, o \in Nat : Enter(r, p, None, o, FALSE)
    BY <1>3 DEF Register, LoginVerify, TypeOK
  <2>2. Rq
    BY <2>1, EnterTyped DEF Phases
  <2>3. UNCHANGED <<rows, reset, memory>> /\ era' \in {era, 1}
    BY <1>3 DEF Register, LoginVerify
  <2> QED BY <1>0, <2>2, <2>3 DEF TypeOK, memory, rows
<1>4. ASSUME NEW r \in Requests, NEW t \in Tokens, RefreshFind(r, t) PROVE Goal
  <2> DEFINE v == [at |-> "found", token |-> t, victims |-> {}, origin |-> origin[t],
                   stray |-> t \in strays]
  <2>1. v \in ReqType /\ v.at = "found" /\ v.token = t
    BY DEF ReqType, Phases, TypeOK
  <2>2. req' = [req EXCEPT ![r] = v]
    BY <1>4 DEF RefreshFind, Enter
  <2>3. Rq
    <3> HIDE DEF v
    <3> QED BY <2>1, <2>2, OneTyped
  <2>4. UNCHANGED <<rows, reset, era, origin, strays>> /\ shared' \subseteq shared \cup {t}
    BY <1>4 DEF RefreshFind
  <2>5. crowded' \in BOOLEAN
    BY <1>4 DEF RefreshFind
  <2> QED BY <1>0, <2>3, <2>4, <2>5 DEF TypeOK, rows
<1>5. ASSUME NEW r \in Requests, NEW k \in ResetTokens, ResetFind(r, k) PROVE Goal
  <2>1. Rq
    BY <1>5, EnterTyped DEF ResetFind, Phases, TypeOK
  <2>2. /\ UNCHANGED <<rows, reset, era, origin, crowded, strays>>
        /\ shared' \subseteq shared \cup {k}
    BY <1>5 DEF ResetFind
  <2> QED BY <1>0, <2>1, <2>2 DEF TypeOK, rows
<1>6. ASSUME NEW r \in Requests, LoginCount(r) PROVE Goal
  <2>1. PICK V \in Victims :
           /\ req' = [req EXCEPT ![r] = [req[r] EXCEPT !.at = "counted", !.victims = V]]
           /\ crowded' = (crowded \/ Uncounted(V))
    BY <1>6 DEF LoginCount
  <2>2. req[r] \in ReqType /\ V \subseteq Tokens
    BY DEF Victims, Live, TypeOK, ReqType
  <2>3. [req[r] EXCEPT !.at = "counted", !.victims = V] \in ReqType
    BY <2>2 DEF ReqType, Phases
  <2>4. req[r].token = None
    BY <1>0, <1>6 DEF ReqTyped, LoginCount
  <2>5. Rq
    BY <2>1, <2>2, <2>3, <2>4, OneTyped DEF ReqType
  <2>6. crowded' \in BOOLEAN /\ UNCHANGED <<rows, reset, era, origin, shared, strays>>
    BY <1>6, <2>1 DEF TypeOK, LoginCount
  <2> QED BY <1>0, <2>5, <2>6 DEF TypeOK, rows
<1>7. ASSUME NEW r \in Requests, LoginRevoke(r) PROVE Goal
  <2>1. req[r] \in ReqType /\ req[r].token = None
    BY <1>0, <1>7 DEF ReqTyped, LoginRevoke
  <2>2. [req[r] EXCEPT !.at = "create", !.victims = {}] \in ReqType
    BY <2>1 DEF ReqType, Phases
  <2>3. Rq
    BY <1>7, <2>1, <2>2, OneTyped DEF LoginRevoke, ReqType
  <2>4. {t \in req[r].victims : row[t] # "deleted"} \in SUBSET Tokens
    BY <2>1 DEF ReqType
  <2> QED BY <1>7, <2>3, <2>4, RevokeEnds DEF LoginRevoke, TypeOK, memory
<1>8. ASSUME NEW r \in Requests, NEW t \in Tokens, Create(r, t) PROVE Goal
  <2>1. row' = [row EXCEPT ![t] = "live"]
    BY <1>8 DEF Create
  <2>2. row' \in [Tokens -> {"unused", "live", "revoked", "expired", "deleted"}]
    BY <2>1 DEF TypeOK
  <2>3. Live' = Live \cup {t}
    BY <2>1 DEF Live, TypeOK
  <2>4. RowsTyped'
    BY <1>8, <2>2, <2>3, OrderTyped DEF Create
  <2>5. req[r].token \in Tokens \cup {None} /\ req[r].origin \in Nat
    BY <1>0, <1>8 DEF ReqTyped, ReqType, Create
  <2>6. Rq
    BY <1>8, AnsweredIdle DEF Create
  <2>7. parent' \in [Tokens -> Tokens \cup {None}] /\ origin' \in [Tokens -> Nat]
    BY <1>8, <2>5 DEF Create, TypeOK
  <2> QED BY <1>8, <2>4, <2>6, <2>7 DEF Create, TypeOK
<1>9. ASSUME NEW r \in Requests, RefreshTouch(r) PROVE Goal
  <2>1. req[r] \in ReqType /\ req[r].token \in Tokens
    BY <1>0, <1>9 DEF ReqTyped, RefreshTouch
  <2>2. [req[r] EXCEPT !.at = "touched"] \in ReqType
    BY <2>1 DEF ReqType, Phases
  <2>3. Rq
    BY <1>9, <2>1, <2>2, Moved, OneTyped DEF RefreshTouch, ReqType
  <2>4. CASE UNCHANGED older
    BY <1>0, <1>9, <2>3, <2>4 DEF RefreshTouch, TypeOK, memory, rows
  <2>5. CASE row[req[r].token] = "live" /\ older' = MostRecent(req[r].token, Live)
    <3>1. Live' = Live \cup {req[r].token}
      BY <1>9, <2>1, <2>5 DEF RefreshTouch, Live
    <3>2. RowsTyped'
      BY <1>9, <2>1, <2>5, <3>1, OrderTyped DEF RefreshTouch, TypeOK
    <3> QED BY <1>9, <2>3, <3>2 DEF RefreshTouch, TypeOK, memory
  <2> QED BY <1>9, <2>4, <2>5 DEF RefreshTouch
<1>10. ASSUME NEW r \in Requests, RefreshTimedOut(r) PROVE Goal
  <2>1. Rq
    BY <1>10, AnsweredIdle DEF RefreshTimedOut
  <2>2. {req[r].token} \cap {t \in Tokens : row[t] \in {"live", "expired"}} \in SUBSET Tokens
    OBVIOUS
  <2> QED BY <1>10, <2>1, <2>2, RevokeEnds DEF RefreshTimedOut, TypeOK, memory
<1>11. ASSUME NEW r \in Requests, RefreshRevoke(r) PROVE Goal
  <2>1. req[r] \in ReqType /\ req[r].token \in Tokens
    BY <1>0, <1>11 DEF ReqTyped, RefreshRevoke
  <2>2. [req[r] EXCEPT !.at = "create"] \in ReqType
    BY <2>1 DEF ReqType, Phases
  <2>3. CASE Revoke({req[r].token}) /\ Move(r, "create")
    <3>1. Rq
      BY <2>1, <2>2, <2>3, Moved, OneTyped DEF ReqType
    <3> QED BY <1>11, <2>1, <2>3, <3>1, RevokeEnds DEF RefreshRevoke, TypeOK, memory
  <2>4. CASE Answer(r) /\ UNCHANGED rows
    BY <1>0, <1>11, <2>4, AnsweredIdle DEF RefreshRevoke, TypeOK, memory, rows
  <2> QED BY <1>11, <2>3, <2>4 DEF RefreshRevoke
<1>12. ASSUME NEW r \in Requests, ResetCommit(r) PROVE Goal
  <2>1. ASSUME NEW q \in Requests PROVE req'[q] \in ReqType /\ ReqTyped(q)'
    <3>1. req'[q] = IF q = r \/ req[q] = Idle THEN Idle ELSE [req[q] EXCEPT !.stray = TRUE]
      BY <1>12 DEF ResetCommit
    <3>2. CASE req'[q] = Idle
      BY <3>2 DEF Idle, ReqType, ReqTyped, Phases
    <3>3. CASE req'[q] = [req[q] EXCEPT !.stray = TRUE]
      BY <1>0, <3>3 DEF ReqType, ReqTyped
    <3> QED BY <3>1, <3>2, <3>3
  <2>2. req' \in [Requests -> ReqType]
    BY <1>12, <2>1 DEF ResetCommit
  <2>3. req[r].token \in ResetTokens
    BY <1>0, <1>12 DEF ReqTyped, ResetCommit
  <2>4. reset' \in [ResetTokens -> {"none", "sent", "used", "expired"}] /\ era' \in Nat
    BY <1>12, <2>3 DEF ResetCommit, TypeOK
  <2>5. {t \in Tokens : row[t] \in {"live", "expired"}} \in SUBSET Tokens
    OBVIOUS
  <2> QED BY <1>12, <2>1, <2>2, <2>4, <2>5, RevokeEnds DEF ResetCommit, TypeOK, memory
<1>13. ASSUME NEW r \in Requests, Fail(r) PROVE Goal
  BY <1>0, <1>13, AnsweredIdle DEF Fail, TypeOK, memory, rows
<1>14. Goal
  <2> HIDE DEF Goal
  <2> QED BY <1>1, <1>2, <1>3, <1>4, <1>5, <1>6, <1>7, <1>8, <1>9, <1>10, <1>11, <1>12, <1>13
          DEF Next, Begin, Step
<1> QED BY <1>14 DEF TypeOK, RowsTyped, ReqType, ReqTyped

-----------------------------------------------------------------------------
\* A request goes on with what it has.
GoesOn(q) ==
    /\ req'[q].token = req[q].token /\ req'[q].origin = req[q].origin
    /\ req'[q].stray = req[q].stray
    /\ \/ req[q].at = "found" /\ req'[q].at = "touched"
       \/ req[q].at \in {"verified", "counted"} /\ req'[q].at \in {"counted", "create"}

\* Steps that open no session, replace no token and use none more.
LEMMA CarryOn ==
  ASSUME TypeOK, TypeOK', Chain, Resets,
         \A t \in Tokens : /\ row'[t] = "live" => row[t] = "live"
                           /\ Ended(t) => Ended(t)',
         \A k \in ResetTokens : /\ reset'[k] = "used" => reset[k] = "used"
                                /\ reset[k] = "none" => reset'[k] = "none" \/ era > 0,
         UNCHANGED <<parent, era, origin, shared, strays>>,
         \A q \in Requests : req'[q] = Idle \/ req'[q] = req[q] \/ GoesOn(q)
  PROVE  Chain' /\ Resets'
<1>1. \A q \in Requests : ReqTyped(q) /\ ReqTyped(q)'
  BY DEF TypeOK, ReqTyped, ReqType
<1>2. \A t \in Tokens : parent[t] \in Tokens \cup {None}
  BY DEF TypeOK
<1>3. SharedNoted'
  BY DEF Chain, SharedNoted, GoesOn, Idle
<1>4. ReplacedEnded'
  <2>1. \A t \in Tokens : parent[t] # None => Ended(parent[t])'
    BY <1>2 DEF Chain, ReplacedEnded, Ended
  <2>2. ASSUME NEW q \in Requests, req'[q].at = "create", req'[q].token # None
        PROVE  Ended(req[q].token)'
    <3>1. req'[q] = req[q]
      BY <1>1, <2>2 DEF GoesOn, Idle, ReqTyped
    <3> QED BY <1>1, <2>2, <3>1 DEF Chain, ReplacedEnded, ReqTyped, Ended
  <2> QED BY <2>1, <2>2 DEF ReplacedEnded
<1>5. ReplacedShared'
  <2> SUFFICES ASSUME NEW q \in Requests, NEW t \in Tokens,
                      req'[q].at \in {"found", "touched", "create"},
                      req'[q].token # None, parent[t] = req'[q].token
               PROVE  parent[t] \in shared
    BY DEF ReplacedShared
  <2>1. req'[q].token = req[q].token /\ req[q].at \in {"found", "touched", "create"}
    BY <1>1 DEF GoesOn, Idle, ReqTyped
  <2> QED BY <2>1 DEF Chain, ReplacedShared
<1>6. OneSuccessorUnlessShared'
  BY DEF Chain, OneSuccessorUnlessShared
<1>7. NothingYet'
  <2> SUFFICES ASSUME era = 0
               PROVE  /\ Live' = {} /\ \A q \in Requests : req'[q] = Idle
                      /\ \A k \in ResetTokens : reset'[k] = "none"
    BY DEF NothingYet
  <2>1. /\ Live = {} /\ \A q \in Requests : req[q] = Idle
        /\ \A k \in ResetTokens : reset[k] = "none"
    BY DEF Resets, NothingYet
  <2>2. Live' = {}
    BY <2>1 DEF Live
  <2>3. \A q \in Requests : req'[q] = Idle
    <3>1. Idle.at = "idle"
      BY DEF Idle
    <3> QED BY <2>1, <3>1 DEF GoesOn
  <2> QED BY <2>1, <2>2, <2>3
<1>8. OpensFresh'
  BY DEF Resets, OpensFresh, GoesOn, Idle
<1>9. ResetEndsSessions'
  BY DEF Resets, ResetEndsSessions, Live
<1>10. UsedShared'
  BY <1>1 DEF Resets, UsedShared, GoesOn, Idle, ReqTyped
<1> QED BY <1>3, <1>4, <1>5, <1>6, <1>7, <1>8, <1>9, <1>10 DEF Chain, Resets

\* A new login or registration.
LEMMA Opens ==
  ASSUME TypeOK, TypeOK', Chain, Resets, NEW r \in Requests, Register(r) \/ LoginVerify(r)
  PROVE  Chain' /\ Resets'
<1>1. PICK p \in {"create", "verified"}, o \in Nat :
         /\ Enter(r, p, None, o, FALSE) /\ o = era'
         /\ \/ era = 0 /\ era' = 1
            \/ era > 0 /\ era' = era
  BY DEF Register, LoginVerify, TypeOK
<1>2. UNCHANGED <<row, parent, reset, origin, shared, strays>>
  BY DEF Register, LoginVerify, rows, memory
<1>3. /\ req'[r].at = p /\ req'[r].token = None /\ req'[r].origin = era'
      /\ \A q \in Requests \ {r} : req'[q] = req[q]
  BY <1>1 DEF Enter, TypeOK
<1>4. era = 0 => Live = {} /\ \A q \in Requests : req[q] = Idle
  BY DEF Resets, NothingYet
<1>5. Chain'
  BY <1>2, <1>3 DEF Chain, SharedNoted, ReplacedEnded, ReplacedShared, OneSuccessorUnlessShared, Ended
<1>6. NothingYet'
  BY <1>1 DEF NothingYet
<1>7. OpensFresh'
  BY <1>1, <1>3, <1>4 DEF OpensFresh, Resets, Idle
<1>8. ResetEndsSessions'
  BY <1>1, <1>2, <1>4 DEF ResetEndsSessions, Resets, Live
<1>9. UsedShared'
  BY <1>1, <1>2, <1>3 DEF UsedShared, Resets
<1> QED BY <1>5, <1>6, <1>7, <1>8, <1>9 DEF Resets

\* A refresh or a reset that begins records whether it shares its token.
LEMMA Finds ==
  ASSUME TypeOK, TypeOK', Chain, Resets, NEW r \in Requests, NEW t \in Tokens, RefreshFind(r, t)
  PROVE  Chain' /\ Resets'
<1>1. /\ req'[r].at = "found" /\ req'[r].token = t /\ req'[r].origin = origin[t]
      /\ req'[r].stray = (t \in strays)
      /\ \A q \in Requests \ {r} : req'[q] = req[q]
  BY DEF RefreshFind, Enter, TypeOK
<1>2. UNCHANGED <<row, parent, reset, era, origin, strays>>
  BY DEF RefreshFind, rows
<1>3. shared \subseteq shared' /\ \A q \in Requests : req[q].token = t => t \in shared'
  BY DEF RefreshFind, Users
<1>4. row[t] = "live" /\ t # None
  BY SessionsAssumption DEF RefreshFind
<1>5. SharedNoted'
  BY <1>1, <1>3 DEF Chain, SharedNoted
<1>6. ReplacedEnded'
  BY <1>1, <1>2 DEF Chain, ReplacedEnded, Ended
<1>7. ReplacedShared'
  <2>1. \A u \in Tokens : parent[u] # t
    BY <1>4 DEF Chain, ReplacedEnded, Ended
  <2> QED BY <1>1, <1>2, <1>3, <2>1 DEF Chain, ReplacedShared
<1>8. OneSuccessorUnlessShared'
  BY <1>2, <1>3 DEF Chain, OneSuccessorUnlessShared
<1>9. NothingYet' /\ ResetEndsSessions'
  <2>1. era # 0
    BY <1>4 DEF Resets, NothingYet, Live
  <2> QED BY <1>2, <2>1 DEF NothingYet, ResetEndsSessions, Resets, Live
<1>10. OpensFresh'
  <2>1. req'[r].origin = era \/ req'[r].stray
    BY <1>1, <1>4 DEF Resets, ResetEndsSessions, Live
  <2> QED BY <1>1, <1>2, <2>1 DEF OpensFresh, Resets
<1>11. UsedShared'
  BY <1>1, <1>2, <1>3 DEF UsedShared, Resets
<1> QED BY <1>5, <1>6, <1>7, <1>8, <1>9, <1>10, <1>11 DEF Chain, Resets

LEMMA FindsReset ==
  ASSUME TypeOK, TypeOK', Chain, Resets, NEW r \in Requests, NEW k \in ResetTokens, ResetFind(r, k)
  PROVE  Chain' /\ Resets'
<1>1. /\ req'[r].at = "hashing" /\ req'[r].token = k
      /\ \A q \in Requests \ {r} : req'[q] = req[q]
  BY DEF ResetFind, Enter, TypeOK
<1>2. UNCHANGED <<row, parent, reset, era, origin, strays>>
  BY DEF ResetFind, rows
<1>3. shared \subseteq shared' /\ \A q \in Requests : req[q].token = k => k \in shared'
  BY DEF ResetFind, Users
<1>4. reset[k] # "used"
  BY DEF ResetFind
<1>5. Chain'
  <2>1. SharedNoted'
    BY <1>1, <1>3 DEF Chain, SharedNoted
  <2>2. ReplacedEnded' /\ ReplacedShared' /\ OneSuccessorUnlessShared'
    BY <1>1, <1>2, <1>3 DEF Chain, ReplacedEnded, Ended, ReplacedShared, OneSuccessorUnlessShared
  <2> QED BY <2>1, <2>2 DEF Chain
<1>6. NothingYet' /\ ResetEndsSessions' /\ OpensFresh'
  <2>1. era # 0
    BY DEF ResetFind, Resets, NothingYet
  <2> QED BY <1>1, <1>2, <2>1 DEF NothingYet, ResetEndsSessions, OpensFresh, Resets, Live
<1>7. UsedShared'
  BY <1>1, <1>2, <1>3, <1>4 DEF UsedShared, Resets
<1> QED BY <1>5, <1>6, <1>7 DEF Resets

\* The new session is a token's only successor, unless its request shared it.
LEMMA Creates ==
  ASSUME TypeOK, TypeOK', Chain, Resets, NEW r \in Requests, NEW t \in Tokens, Create(r, t)
  PROVE  Chain' /\ Resets'
<1>1. /\ req'[r] = Idle /\ \A q \in Requests \ {r} : req'[q] = req[q]
      /\ req[r].at = "create" /\ row[t] = "unused"
  BY AnsweredIdle DEF Create
<1>2. /\ row' = [row EXCEPT ![t] = "live"]
      /\ parent' = [parent EXCEPT ![t] = req[r].token]
      /\ origin' = [origin EXCEPT ![t] = req[r].origin]
      /\ UNCHANGED <<reset, era, shared>>
      /\ strays \subseteq strays' /\ strays' \subseteq strays \cup {t}
      /\ req[r].stray => t \in strays'
  BY DEF Create
<1>3. /\ req[r].token \in Tokens \cup {None}
      /\ \A q \in Requests : ReqTyped(q)
  BY <1>1 DEF TypeOK, ReqTyped, ReqType
<1>4. Idle.at = "idle" /\ Idle.token = None
  BY DEF Idle
<1>5. SharedNoted'
  BY <1>1, <1>2, <1>4 DEF Chain, SharedNoted
<1>6. ReplacedEnded'
  <2>1. \A u \in Tokens : Ended(u) => u # t /\ row'[u] = row[u]
    BY <1>1, <1>2 DEF Ended, TypeOK
  <2>2. \A u \in Tokens : parent'[u] # None => Ended(parent'[u])
    BY <1>1, <1>2 DEF TypeOK, Chain, ReplacedEnded
  <2>3. \A u \in Tokens : parent'[u] \in Tokens \cup {None}
    BY DEF TypeOK
  <2>4. \A u \in Tokens : parent'[u] # None => row'[parent'[u]] \in {"revoked", "expired", "deleted"}
    BY <2>1, <2>2, <2>3 DEF Ended
  <2>5. ASSUME NEW q \in Requests, req'[q].at = "create", req'[q].token # None
        PROVE  row'[req'[q].token] \in {"revoked", "expired", "deleted"}
    <3>1. req'[q] = req[q]
      BY <1>1, <1>4, <2>5
    <3> QED BY <1>3, <2>1, <2>5, <3>1 DEF Chain, ReplacedEnded, Ended, ReqTyped
  <2> QED BY <2>4, <2>5 DEF ReplacedEnded, Ended
<1>7. ReplacedShared'
  <2> SUFFICES ASSUME NEW q \in Requests, NEW u \in Tokens,
                      req'[q].at \in {"found", "touched", "create"},
                      req'[q].token # None, parent'[u] = req'[q].token
               PROVE  parent'[u] \in shared
    BY <1>2 DEF ReplacedShared
  <2>1. q # r /\ req'[q] = req[q]
    BY <1>1, <1>4
  <2>2. CASE u = t
    BY <1>2, <2>1, <2>2 DEF Chain, SharedNoted, TypeOK
  <2>3. CASE u # t
    BY <1>2, <2>1, <2>3 DEF Chain, ReplacedShared, TypeOK
  <2> QED BY <2>2, <2>3
<1>8. OneSuccessorUnlessShared'
  <2> SUFFICES ASSUME NEW u \in Tokens, NEW v \in Tokens, parent'[u] = parent'[v],
                      parent'[u] # None, u # v
               PROVE  parent'[u] \in shared
    BY <1>2 DEF OneSuccessorUnlessShared
  <2>1. \A w \in Tokens : parent'[w] = IF w = t THEN req[r].token ELSE parent[w]
    BY <1>2 DEF TypeOK
  <2>2. \A w \in Tokens \ {t} : parent[w] = req[r].token /\ req[r].token # None => parent[w] \in shared
    BY <1>1 DEF Chain, ReplacedShared
  <2>3. CASE u # t /\ v # t
    BY <2>1, <2>3 DEF Chain, OneSuccessorUnlessShared
  <2>4. CASE u = t \/ v = t
    BY <2>1, <2>2, <2>4
  <2> QED BY <2>3, <2>4
<1>9. NothingYet'
  <2>1. era # 0
    BY <1>1, <1>4 DEF Resets, NothingYet
  <2> QED BY <1>2, <2>1 DEF NothingYet
<1>10. OpensFresh'
  BY <1>1, <1>2, <1>4 DEF OpensFresh, Resets
<1>11. ResetEndsSessions'
  <2>1. req[r].origin = era \/ req[r].stray
    BY <1>1 DEF OpensFresh, Resets
  <2>2. origin'[t] = era \/ t \in strays'
    BY <1>2, <2>1 DEF TypeOK
  <2>3. \A u \in Tokens \ {t} : row'[u] = row[u] /\ origin'[u] = origin[u]
    BY <1>2 DEF TypeOK
  <2> QED BY <1>2, <2>2, <2>3 DEF ResetEndsSessions, Resets, Live
<1>12. UsedShared'
  BY <1>1, <1>2, <1>4 DEF UsedShared, Resets
<1> QED BY <1>5, <1>6, <1>7, <1>8, <1>9, <1>10, <1>11, <1>12 DEF Chain, Resets

LEMMA Rotates ==
  ASSUME TypeOK, TypeOK', Chain, Resets, NEW r \in Requests, req[r].at = "touched",
         Revoke({req[r].token}), Move(r, "create"), UNCHANGED <<reset, era, memory>>
  PROVE  Chain' /\ Resets'
<1>1. /\ req'[r].at = "create" /\ req'[r].token = req[r].token
      /\ req'[r].origin = req[r].origin /\ req'[r].stray = req[r].stray
      /\ \A q \in Requests \ {r} : req'[q] = req[q]
  <2>1. req[r] \in ReqType
    BY DEF TypeOK, ReqType
  <2> QED BY <2>1 DEF ReqType, Move, TypeOK
<1>2. req[r].token \in Tokens /\ \A q \in Requests : ReqTyped(q)
  BY DEF TypeOK, ReqTyped, ReqType
<1>3. /\ \A t \in Tokens : row'[t] = IF t = req[r].token THEN "revoked" ELSE row[t]
      /\ UNCHANGED <<parent, reset, era, origin, shared, strays>>
  BY <1>2, RevokeEnds DEF memory
<1>4. SharedNoted'
  BY <1>1, <1>3 DEF Chain, SharedNoted
<1>5. ReplacedEnded'
  <2>1. \A t \in Tokens : Ended(t) => row'[t] \in {"revoked", "expired", "deleted"}
    BY <1>3 DEF Ended
  <2>2. \A t \in Tokens : parent[t] # None => row'[parent[t]] \in {"revoked", "expired", "deleted"}
    BY <2>1 DEF TypeOK, Chain, ReplacedEnded
  <2>3. ASSUME NEW q \in Requests, req'[q].at = "create", req'[q].token # None
        PROVE  row'[req'[q].token] \in {"revoked", "expired", "deleted"}
    <3>1. CASE q = r
      BY <1>1, <1>2, <1>3, <3>1
    <3>2. CASE q # r
      BY <1>1, <1>2, <2>1, <2>3, <3>2 DEF ReqTyped, Chain, ReplacedEnded
    <3> QED BY <3>1, <3>2
  <2> QED BY <1>3, <2>2, <2>3 DEF ReplacedEnded, Ended
<1>6. ReplacedShared' /\ OneSuccessorUnlessShared'
  BY <1>1, <1>3 DEF Chain, ReplacedShared, OneSuccessorUnlessShared
<1>7. NothingYet'
  <2>1. era # 0
    <3>1. Idle.at = "idle"
      BY DEF Idle
    <3> QED BY <3>1 DEF Resets, NothingYet
  <2> QED BY <1>3, <2>1 DEF NothingYet
<1>8. OpensFresh' /\ ResetEndsSessions'
  BY <1>1, <1>3 DEF Resets, OpensFresh, ResetEndsSessions, Live
<1>9. UsedShared'
  BY <1>1, <1>3 DEF Resets, UsedShared
<1> QED BY <1>4, <1>5, <1>6, <1>7, <1>8, <1>9 DEF Chain, Resets

\* The reset ends every session, and marks whoever might open one yet.
LEMMA Commits ==
  ASSUME TypeOK, TypeOK', Chain, Resets, NEW r \in Requests, ResetCommit(r)
  PROVE  Chain' /\ Resets'
<1>1. /\ req[r].at = "hashing" /\ reset' = [reset EXCEPT ![req[r].token] = "used"]
      /\ era' = era + 1 /\ UNCHANGED <<origin, shared, strays>>
  BY DEF ResetCommit, memory
<1>2. /\ \A t \in Tokens : row'[t] = IF row[t] \in {"live", "expired"} THEN "revoked" ELSE row[t]
      /\ UNCHANGED parent
  <2>1. {t \in Tokens : row[t] \in {"live", "expired"}} \in SUBSET Tokens
    OBVIOUS
  <2> QED BY <2>1, RevokeEnds DEF ResetCommit
<1>3. \A q \in Requests : \/ req'[q] = Idle
                          \/ /\ q # r /\ req'[q].at = req[q].at /\ req'[q].token = req[q].token
                             /\ req'[q].stray
  <2> SUFFICES ASSUME NEW q \in Requests, req'[q] # Idle
               PROVE  /\ q # r /\ req'[q].at = req[q].at /\ req'[q].token = req[q].token
                      /\ req'[q].stray
    OBVIOUS
  <2>1. req'[q] = [req[q] EXCEPT !.stray = TRUE] /\ q # r
    BY DEF ResetCommit
  <2>2. req[q] \in ReqType
    BY DEF TypeOK, ReqType
  <2> QED BY <2>1, <2>2 DEF ReqType
<1>4. Idle.at = "idle" /\ Idle.token = None
  BY DEF Idle
<1>5. \A q \in Requests : ReqTyped(q)
  BY DEF TypeOK, ReqTyped, ReqType
<1>6. SharedNoted'
  BY <1>1, <1>3, <1>4 DEF Chain, SharedNoted
<1>7. ReplacedEnded'
  <2>1. \A t \in Tokens : Ended(t) => row'[t] \in {"revoked", "expired", "deleted"}
    BY <1>2 DEF Ended
  <2>2. \A t \in Tokens : parent[t] # None => row'[parent[t]] \in {"revoked", "expired", "deleted"}
    BY <2>1 DEF TypeOK, Chain, ReplacedEnded
  <2>3. ASSUME NEW q \in Requests, req'[q].at = "create", req'[q].token # None
        PROVE  row'[req'[q].token] \in {"revoked", "expired", "deleted"}
    <3>1. req[q].at = "create" /\ req[q].token = req'[q].token
      BY <1>3, <1>4, <2>3
    <3> QED BY <1>5, <2>1, <2>3, <3>1 DEF ReqTyped, Chain, ReplacedEnded
  <2> QED BY <1>2, <2>2, <2>3 DEF ReplacedEnded, Ended
<1>8. ReplacedShared'
  BY <1>1, <1>2, <1>3, <1>4 DEF Chain, ReplacedShared
<1>9. OneSuccessorUnlessShared'
  BY <1>1, <1>2 DEF Chain, OneSuccessorUnlessShared
<1>10. NothingYet'
  BY <1>1 DEF NothingYet, TypeOK
<1>11. OpensFresh'
  BY <1>3, <1>4 DEF OpensFresh
<1>12. ResetEndsSessions'
  BY <1>2 DEF ResetEndsSessions, Live
<1>13. UsedShared'
  <2> SUFFICES ASSUME NEW q \in Requests, req'[q].at = "hashing", reset'[req'[q].token] = "used"
               PROVE  req'[q].token \in shared
    BY <1>1 DEF UsedShared
  <2>1. q # r /\ req[q].at = "hashing" /\ req[q].token = req'[q].token
    BY <1>3, <1>4
  <2>2. req[q].token \in ResetTokens /\ req[r].token \in ResetTokens
    BY <1>1, <1>5, <2>1 DEF ReqTyped
  <2>3. CASE req[q].token = req[r].token
    BY <2>1, <2>2, <2>3, SessionsAssumption DEF Chain, SharedNoted
  <2>4. CASE req[q].token # req[r].token
    BY <1>1, <2>1, <2>2, <2>4 DEF UsedShared, Resets, TypeOK
  <2> QED BY <2>3, <2>4
<1> QED BY <1>6, <1>7, <1>8, <1>9, <1>10, <1>11, <1>12, <1>13 DEF Chain, Resets

-----------------------------------------------------------------------------
\* Whoever is being refreshed.
Refreshed == {t \in Tokens : \E r \in Requests :
                 req[r].at \in {"found", "touched"} /\ req[r].token = t}

LEMMA Sizes ==
  /\ \A V : IsFiniteSet(Held(V)) /\ Cardinality(Held(V)) \in Nat
  /\ IsFiniteSet(Creators) /\ Cardinality(Creators) \in Nat
  /\ IsFiniteSet(Live) /\ Cardinality(Live) \in Nat
<1>1. \A V : Held(V) \in SUBSET Tokens
  BY DEF Held, Live
<1>2. Creators \in SUBSET Requests /\ Live \in SUBSET Tokens
  BY DEF Creators, Live
<1> QED BY <1>1, <1>2, FS_Subset, FS_CardinalityType, SessionsAssumption

\* One more, one less, no more.
LEMMA Smaller ==
  ASSUME NEW S, IsFiniteSet(S), NEW T, T \subseteq S
  PROVE  Cardinality(T) \in Nat /\ Cardinality(S) \in Nat /\ Cardinality(T) <= Cardinality(S)
<1>1. T \in SUBSET S
  OBVIOUS
<1> QED BY <1>1, FS_Subset, FS_CardinalityType

LEMMA OneMore ==
  ASSUME NEW S, IsFiniteSet(S), NEW T, NEW x, T \subseteq S \cup {x}
  PROVE  Cardinality(T) \in Nat /\ Cardinality(S) \in Nat /\ Cardinality(T) <= Cardinality(S) + 1
<1>1. T \in SUBSET (S \cup {x})
  OBVIOUS
<1>2. /\ IsFiniteSet(S \cup {x}) /\ Cardinality(S) \in Nat
      /\ Cardinality(S \cup {x}) <= Cardinality(S) + 1 /\ Cardinality(S \cup {x}) \in Nat
  BY FS_AddElement, FS_CardinalityType
<1> QED BY <1>1, <1>2, FS_Subset, FS_CardinalityType

LEMMA OneLess ==
  ASSUME NEW S, IsFiniteSet(S), NEW T, NEW x \in S, T \subseteq S \ {x}
  PROVE  Cardinality(T) \in Nat /\ Cardinality(S) \in Nat /\ Cardinality(T) + 1 <= Cardinality(S)
<1>1. T \in SUBSET (S \ {x})
  OBVIOUS
<1>2. /\ IsFiniteSet(S \ {x}) /\ Cardinality(S) \in Nat
      /\ Cardinality(S \ {x}) = Cardinality(S) - 1 /\ Cardinality(S \ {x}) \in Nat
  BY FS_RemoveElement, FS_CardinalityType
<1> QED BY <1>1, <1>2, FS_Subset, FS_CardinalityType

\* Steps after which there is no more to make room for.
LEMMA NoMore ==
  ASSUME TypeOK, Room, RoomAtLogin, Uncrowded' => Uncrowded,
         Uncrowded' => Held({})' \subseteq Held({}),
         Creators' \subseteq Creators,
         Uncrowded' => \A q \in Requests : req'[q].at = "counted" =>
             /\ req[q].at = "counted" /\ req'[q].victims = req[q].victims
             /\ ((Live' \ req[q].victims) \cup Refreshed') \subseteq Held(req[q].victims)
  PROVE  Room' /\ RoomAtLogin'
<1>1. Room'
  <2> SUFFICES ASSUME Uncrowded'
               PROVE  Cardinality(Held({})') + Cardinality(Creators') <= MaxSessions
    BY DEF Room
  <2>1. /\ Cardinality(Held({})') <= Cardinality(Held({})) /\ Cardinality(Held({})') \in Nat
        /\ Cardinality(Creators') <= Cardinality(Creators) /\ Cardinality(Creators') \in Nat
        /\ Cardinality(Held({})) \in Nat /\ Cardinality(Creators) \in Nat
    BY Sizes, Smaller
  <2>2. Cardinality(Held({})) + Cardinality(Creators) <= MaxSessions
    BY DEF Room
  <2> QED BY <2>1, <2>2, SessionsAssumption
<1>2. RoomAtLogin'
  <2> SUFFICES ASSUME Uncrowded', NEW q \in Requests, req'[q].at = "counted"
               PROVE  /\ Cardinality(Held(req[q].victims)') + Cardinality(Creators') < MaxSessions
                      /\ \A o \in Requests : req'[o].at = "counted" => o = q
    BY DEF RoomAtLogin
  <2> DEFINE H == (Live' \ req[q].victims) \cup Refreshed'
  <2>1. Held(req[q].victims)' = H
    BY DEF Held, Refreshed
  <2>2. /\ Cardinality(H) <= Cardinality(Held(req[q].victims)) /\ Cardinality(H) \in Nat
        /\ Cardinality(Creators') <= Cardinality(Creators) /\ Cardinality(Creators') \in Nat
        /\ Cardinality(Held(req[q].victims)) \in Nat /\ Cardinality(Creators) \in Nat
    <3>1. H \subseteq Held(req[q].victims)
      OBVIOUS
    <3> HIDE DEF H
    <3> QED BY <3>1, Sizes, Smaller
  <2>3. Cardinality(Held(req[q].victims)) + Cardinality(Creators) < MaxSessions
    BY DEF RoomAtLogin
  <2>4. Cardinality(H) + Cardinality(Creators') < MaxSessions
    <3> HIDE DEF H
    <3> QED BY <2>2, <2>3, SessionsAssumption
  <2>5. \A o \in Requests : req'[o].at = "counted" => o = q
    BY DEF RoomAtLogin
  <2> QED BY <2>1, <2>4, <2>5
<1> QED BY <1>1, <1>2

\* Steps in which sessions end, and requests go on or end, but none opens a session.
LEMMA CalmLimits ==
  ASSUME TypeOK, Limits, UNCHANGED <<shared, crowded>>,
         \A t \in Tokens : row'[t] = "live" => row[t] = "live",
         \A q \in Requests :
            \/ req'[q].at \in {"idle", "verified", "hashing"}
            \/ /\ req'[q].token = req[q].token /\ req'[q].victims = req[q].victims
               /\ \/ req'[q].at = req[q].at
                  \/ req[q].at = "found" /\ req'[q].at = "touched"
  PROVE  Limits'
<1>1. Uncrowded' => Uncrowded
  BY DEF Uncrowded
<1>2. Live' \subseteq Live /\ Refreshed' \subseteq Refreshed /\ Creators' \subseteq Creators
  BY DEF Live, Refreshed, Creators
<1>3. Held({})' \subseteq Held({})
  BY <1>2 DEF Held, Refreshed
<1>4. ASSUME NEW q \in Requests, req'[q].at = "counted"
      PROVE  /\ req[q].at = "counted" /\ req'[q].victims = req[q].victims
             /\ ((Live' \ req[q].victims) \cup Refreshed') \subseteq Held(req[q].victims)
  <2>1. req[q].at = "counted" /\ req'[q].victims = req[q].victims
    BY <1>4
  <2> QED BY <1>2, <2>1 DEF Held, Refreshed
<1> QED BY <1>1, <1>2, <1>3, <1>4, NoMore DEF Limits

LEMMA RegisterLimits ==
  ASSUME TypeOK, Resets, NEW r \in Requests, Register(r)
  PROVE  Limits'
<1>1. /\ Live = {} /\ \A q \in Requests : req[q].at = "idle"
  BY DEF Register, Resets, NothingYet, Idle
<1>2. /\ req'[r].at = "create" /\ \A q \in Requests \ {r} : req'[q] = req[q]
      /\ UNCHANGED row
  BY DEF Register, Enter, TypeOK, rows
<1>3. Held({})' = {}
  BY <1>1, <1>2 DEF Held, Live
<1>4. Creators' = {r}
  BY <1>1, <1>2 DEF Creators
<1>5. Cardinality({}) = 0 /\ Cardinality({r}) = 1
  BY FS_EmptySet, FS_Singleton
<1>6. Cardinality(Held({})') + Cardinality(Creators') <= MaxSessions
  BY <1>3, <1>4, <1>5, SessionsAssumption
<1>7. \A q \in Requests : req'[q].at # "counted"
  BY <1>1, <1>2
<1> QED BY <1>6, <1>7 DEF Limits, Room, RoomAtLogin

\* A refresh takes a live session that no login is about to end, or is crowded.
LEMMA FindLimits ==
  ASSUME TypeOK, Limits, NEW r \in Requests, NEW t \in Tokens, RefreshFind(r, t)
  PROVE  Limits'
<1>1. /\ req'[r].at = "found" /\ req'[r].token = t
      /\ \A q \in Requests \ {r} : req'[q] = req[q]
      /\ row[t] = "live" /\ UNCHANGED row
  BY DEF RefreshFind, Enter, TypeOK, rows
<1>2. /\ Uncrowded' => Uncrowded
      /\ Uncrowded' => \A q \in Requests : t \notin req[q].victims
  BY DEF RefreshFind, Uncrowded
<1>3. Live' = Live /\ t \in Live /\ Refreshed' \subseteq Refreshed \cup {t} /\ Creators' \subseteq Creators
  BY <1>1 DEF Live, Refreshed, Creators
<1>4. Held({})' \subseteq Held({})
  BY <1>3 DEF Held, Refreshed
<1>5. ASSUME Uncrowded', NEW q \in Requests, req'[q].at = "counted"
      PROVE  /\ req[q].at = "counted" /\ req'[q].victims = req[q].victims
             /\ ((Live' \ req[q].victims) \cup Refreshed') \subseteq Held(req[q].victims)
  <2>1. req'[q] = req[q]
    BY <1>1, <1>5
  <2> QED BY <1>2, <1>3, <1>5, <2>1 DEF Held, Refreshed
<1> QED BY <1>2, <1>3, <1>4, <1>5, NoMore DEF Limits

\* The login that counts leaves less than the limit; what it does not see is crowded.
LEMMA CountLimits ==
  ASSUME TypeOK, Limits, NEW r \in Requests, LoginCount(r)
  PROVE  Limits'
<1>1. PICK V \in Victims :
         /\ req' = [req EXCEPT ![r] = [req[r] EXCEPT !.at = "counted", !.victims = V]]
         /\ crowded' = (crowded \/ Uncounted(V))
         /\ UNCHANGED <<row, shared>>
  BY DEF LoginCount, rows
<1>2. req[r] \in ReqType /\ req[r].at = "verified"
  BY DEF TypeOK, ReqType, LoginCount
<1>3. /\ req'[r].at = "counted" /\ req'[r].victims = V
      /\ \A q \in Requests \ {r} : req'[q] = req[q]
  BY <1>1, <1>2 DEF TypeOK, ReqType
<1>4. Live' = Live /\ Refreshed' = Refreshed /\ Creators' = Creators
  BY <1>1, <1>2, <1>3 DEF Live, Refreshed, Creators
<1>5. Uncrowded' => Uncrowded /\ ~Uncounted(V)
  BY <1>1 DEF Uncrowded
<1>6. Room'
  <2>1. Held({})' = Held({})
    BY <1>4 DEF Held, Refreshed
  <2> QED BY <1>4, <1>5, <2>1 DEF Limits, Room
<1>7. RoomAtLogin'
  <2> SUFFICES ASSUME Uncrowded', NEW q \in Requests, req'[q].at = "counted"
               PROVE  /\ Cardinality(Held(req[q].victims)') + Cardinality(Creators') < MaxSessions
                      /\ \A o \in Requests : req'[o].at = "counted" => o = q
    BY DEF RoomAtLogin
  <2>1. \A o \in Requests : req[o].at \notin {"counted", "create"}
    BY <1>5 DEF Uncounted
  <2>2. \A o \in Requests : req'[o].at = "counted" => o = r
    BY <1>3, <2>1
  <2>3. Refreshed \subseteq Live \ V
    BY <1>5 DEF Uncounted, Refreshed
  <2>4. Held(req[r].victims)' = Live \ V
    BY <1>3, <1>4, <2>3 DEF Held, Refreshed
  <2>5. Cardinality(Creators') = 0
    <3>1. Creators = {}
      BY <2>1 DEF Creators
    <3> QED BY <1>4, <3>1, FS_EmptySet
  <2>6. Cardinality(Live \ V) < MaxSessions
    <3>1. V \in SUBSET Live /\ Cardinality(V) = Excess
      BY DEF Victims
    <3>2. Live \cap V = V
      BY <3>1
    <3>3. /\ Cardinality(Live \ V) = Cardinality(Live) - Cardinality(V)
          /\ Cardinality(Live) \in Nat
      BY <3>2, Sizes, FS_Difference
    <3> QED BY <3>1, <3>3, SessionsAssumption DEF Excess
  <2>7. Cardinality(Live \ V) \in Nat
    BY Sizes, Smaller
  <2> QED BY <2>2, <2>4, <2>5, <2>6, <2>7
<1> QED BY <1>6, <1>7 DEF Limits

LEMMA RevokeLimits ==
  ASSUME TypeOK, Limits, NEW r \in Requests, LoginRevoke(r)
  PROVE  Limits'
<1>1. req[r] \in ReqType /\ req[r].at = "counted"
  BY DEF TypeOK, ReqType, LoginRevoke
<1>2. /\ req'[r].at = "create" /\ \A q \in Requests \ {r} : req'[q] = req[q]
      /\ UNCHANGED <<shared, crowded>>
  BY <1>1 DEF LoginRevoke, TypeOK, ReqType, memory
<1>3. {t \in req[r].victims : row[t] # "deleted"} \in SUBSET Tokens
  BY <1>1 DEF ReqType
<1>4. \A t \in Tokens : row'[t] = IF t \in req[r].victims /\ row[t] # "deleted" THEN "revoked" ELSE row[t]
  BY <1>3, RevokeEnds DEF LoginRevoke
<1>5. Live' \subseteq Live \ req[r].victims
  BY <1>4 DEF Live
<1>6. Refreshed' \subseteq Refreshed /\ Creators' \subseteq Creators \cup {r}
  BY <1>1, <1>2 DEF Refreshed, Creators
<1>7. Uncrowded' => Uncrowded
  BY <1>2 DEF Uncrowded
<1>8. Room'
  <2> SUFFICES ASSUME Uncrowded'
               PROVE  Cardinality(Held({})') + Cardinality(Creators') <= MaxSessions
    BY DEF Room
  <2>1. Held({})' \subseteq Held(req[r].victims)
    BY <1>5, <1>6 DEF Held, Refreshed
  <2>2. /\ Cardinality(Held({})') \in Nat /\ Cardinality(Held(req[r].victims)) \in Nat
        /\ Cardinality(Held({})') <= Cardinality(Held(req[r].victims))
    BY <2>1, Sizes, Smaller
  <2>3. /\ Cardinality(Creators') \in Nat /\ Cardinality(Creators) \in Nat
        /\ Cardinality(Creators') <= Cardinality(Creators) + 1
    BY <1>6, Sizes, OneMore
  <2>4. Cardinality(Held(req[r].victims)) + Cardinality(Creators) < MaxSessions
    BY <1>1, <1>7 DEF Limits, RoomAtLogin
  <2> QED BY <2>2, <2>3, <2>4, SessionsAssumption
<1>9. RoomAtLogin'
  <2>1. Uncrowded' => \A q \in Requests : req'[q].at # "counted"
    BY <1>1, <1>2, <1>7 DEF Limits, RoomAtLogin
  <2> QED BY <2>1 DEF RoomAtLogin
<1> QED BY <1>8, <1>9 DEF Limits

LEMMA CreateLimits ==
  ASSUME TypeOK, Limits, NEW r \in Requests, NEW t \in Tokens, Create(r, t)
  PROVE  Limits'
<1>1. /\ req'[r] = Idle /\ \A q \in Requests \ {r} : req'[q] = req[q]
      /\ req[r].at = "create" /\ UNCHANGED <<shared, crowded>>
  BY AnsweredIdle DEF Create
<1>2. Idle.at = "idle"
  BY DEF Idle
<1>3. Live' = Live \cup {t}
  BY DEF Create, Live, TypeOK
<1>4. Refreshed' \subseteq Refreshed /\ r \in Creators /\ Creators' \subseteq Creators \ {r}
  BY <1>1, <1>2 DEF Refreshed, Creators
<1>5. Uncrowded' => Uncrowded
  BY <1>1 DEF Uncrowded
<1>6. /\ Cardinality(Creators') \in Nat /\ Cardinality(Creators) \in Nat
      /\ Cardinality(Creators') + 1 <= Cardinality(Creators)
  BY <1>4, Sizes, OneLess
<1>7. Room'
  <2>1. Held({})' \subseteq Held({}) \cup {t}
    BY <1>3, <1>4 DEF Held, Refreshed
  <2>2. /\ Cardinality(Held({})') \in Nat /\ Cardinality(Held({})) \in Nat
        /\ Cardinality(Held({})') <= Cardinality(Held({})) + 1
    BY <2>1, Sizes, OneMore
  <2> QED BY <1>5, <1>6, <2>2, SessionsAssumption DEF Limits, Room
<1>8. RoomAtLogin'
  <2> SUFFICES ASSUME Uncrowded', NEW q \in Requests, req'[q].at = "counted"
               PROVE  /\ Cardinality(Held(req[q].victims)') + Cardinality(Creators') < MaxSessions
                      /\ \A o \in Requests : req'[o].at = "counted" => o = q
    BY DEF RoomAtLogin
  <2>1. \A o \in Requests : req'[o].at = "counted" => req'[o] = req[o]
    BY <1>1, <1>2
  <2>2. Held(req[q].victims)' \subseteq Held(req[q].victims) \cup {t}
    BY <1>3, <1>4, <2>1 DEF Held, Refreshed
  <2>3. /\ Cardinality(Held(req[q].victims)') \in Nat /\ Cardinality(Held(req[q].victims)) \in Nat
        /\ Cardinality(Held(req[q].victims)') <= Cardinality(Held(req[q].victims)) + 1
    BY <2>2, Sizes, OneMore
  <2>4. Cardinality(Held(req[q].victims)) + Cardinality(Creators) < MaxSessions
    BY <1>5, <2>1 DEF Limits, RoomAtLogin
  <2>5. \A o \in Requests : req'[o].at = "counted" => o = q
    BY <1>5, <2>1 DEF Limits, RoomAtLogin
  <2> QED BY <1>6, <2>3, <2>4, <2>5, SessionsAssumption
<1> QED BY <1>7, <1>8 DEF Limits

\* A refresh that rotates gives up the session it held.
LEMMA RotateLimits ==
  ASSUME TypeOK, Chain, Limits, NEW r \in Requests, req[r].at = "touched",
         Revoke({req[r].token}), Move(r, "create"), UNCHANGED memory
  PROVE  Limits'
<1> DEFINE t == req[r].token
<1>1. /\ req'[r].at = "create" /\ \A q \in Requests \ {r} : req'[q] = req[q]
      /\ UNCHANGED <<shared, crowded>>
  <2>1. req[r] \in ReqType
    BY DEF TypeOK, ReqType
  <2> QED BY <2>1 DEF ReqType, Move, TypeOK, memory
<1>2. t \in Tokens
  BY DEF TypeOK
<1>3. \A u \in Tokens : row'[u] = IF u = t THEN "revoked" ELSE row[u]
  BY <1>2, RevokeEnds
<1>4. Live' = Live \ {t} /\ t \in Refreshed /\ Creators' \subseteq Creators \cup {r}
  BY <1>1, <1>2, <1>3 DEF Live, Refreshed, Creators
<1>5. Uncrowded' => Uncrowded
  BY <1>1 DEF Uncrowded
<1>6. Uncrowded => Refreshed' \subseteq Refreshed \ {t}
  <2> SUFFICES ASSUME Uncrowded, NEW u \in Tokens, NEW q \in Requests,
                      req'[q].at \in {"found", "touched"}, req'[q].token = u
               PROVE  u # t /\ u \in Refreshed
    BY DEF Refreshed
  <2>1. q # r /\ req'[q] = req[q]
    BY <1>1
  <2>2. u # t
    BY <1>2, <2>1, SessionsAssumption DEF Uncrowded, Chain, SharedNoted
  <2> QED BY <2>1, <2>2 DEF Refreshed
<1>7. /\ Cardinality(Creators') \in Nat /\ Cardinality(Creators) \in Nat
      /\ Cardinality(Creators') <= Cardinality(Creators) + 1
  BY <1>4, Sizes, OneMore
<1>8. ASSUME Uncrowded, NEW V, NEW H, H = (Live' \ V) \cup Refreshed'
      PROVE  /\ Cardinality(H) \in Nat /\ Cardinality(Held(V)) \in Nat
             /\ Cardinality(H) + 1 <= Cardinality(Held(V))
  <2>1. t \in Held(V) /\ H \subseteq Held(V) \ {t}
    BY <1>4, <1>6, <1>8 DEF Held, Refreshed
  <2> QED BY <2>1, Sizes, OneLess
<1> HIDE DEF t
<1>9. Room'
  <2> SUFFICES ASSUME Uncrowded'
               PROVE  Cardinality(Held({})') + Cardinality(Creators') <= MaxSessions
    BY DEF Room
  <2>1. Held({})' = (Live' \ {}) \cup Refreshed'
    BY DEF Held, Refreshed
  <2>2. /\ Cardinality(Held({})') \in Nat /\ Cardinality(Held({})) \in Nat
        /\ Cardinality(Held({})') + 1 <= Cardinality(Held({}))
    BY <1>5, <1>8, <2>1
  <2>3. Cardinality(Held({})) + Cardinality(Creators) <= MaxSessions
    BY <1>5 DEF Limits, Room
  <2> QED BY <1>7, <2>2, <2>3, SessionsAssumption
<1>10. RoomAtLogin'
  <2> SUFFICES ASSUME Uncrowded', NEW q \in Requests, req'[q].at = "counted"
               PROVE  /\ Cardinality(Held(req[q].victims)') + Cardinality(Creators') < MaxSessions
                      /\ \A o \in Requests : req'[o].at = "counted" => o = q
    BY DEF RoomAtLogin
  <2>1. \A o \in Requests : req'[o].at = "counted" => req'[o] = req[o]
    BY <1>1
  <2>2. Held(req[q].victims)' = (Live' \ req[q].victims) \cup Refreshed'
    BY <2>1 DEF Held, Refreshed
  <2>3. /\ Cardinality(Held(req[q].victims)') \in Nat /\ Cardinality(Held(req[q].victims)) \in Nat
        /\ Cardinality(Held(req[q].victims)') + 1 <= Cardinality(Held(req[q].victims))
    BY <1>5, <1>8, <2>2
  <2>4. Cardinality(Held(req[q].victims)) + Cardinality(Creators) < MaxSessions
    BY <1>5, <2>1 DEF Limits, RoomAtLogin
  <2>5. \A o \in Requests : req'[o].at = "counted" => o = q
    BY <1>5, <2>1 DEF Limits, RoomAtLogin
  <2> QED BY <1>7, <2>3, <2>4, <2>5, SessionsAssumption
<1> QED BY <1>9, <1>10 DEF Limits

-----------------------------------------------------------------------------
LEMMA Start == Init => IInv
<1> SUFFICES ASSUME Init PROVE IInv
  OBVIOUS
<1>1. Live = {} /\ \A r \in Requests : req[r].at = "idle" /\ req[r].token = None
  BY DEF Init, Live, Idle
<1>2. TypeOK
  <2>1. Idle \in ReqType
    BY DEF Idle, ReqType, Phases
  <2> QED BY <1>1, <2>1 DEF Init, TypeOK, ReqType
<1>3. Chain
  BY <1>1 DEF Init, Chain, SharedNoted, ReplacedEnded, ReplacedShared, OneSuccessorUnlessShared
<1>4. Resets
  <2>1. NothingYet
    BY <1>1 DEF Init, NothingYet
  <2> QED BY <1>1, <2>1 DEF Resets, OpensFresh, ResetEndsSessions, UsedShared
<1>5. Limits
  <2>1. Held({}) = {} /\ Creators = {}
    BY <1>1 DEF Held, Creators
  <2>2. Cardinality({}) = 0
    BY FS_EmptySet
  <2>3. Cardinality(Held({})) + Cardinality(Creators) <= MaxSessions
    BY <2>1, <2>2, SessionsAssumption
  <2> QED BY <1>1, <2>3 DEF Limits, Room, RoomAtLogin
<1> QED BY <1>2, <1>3, <1>4, <1>5 DEF IInv

\* The statements, and the steps that only let a request go on or end.
LEMMA PlainStep ==
  ASSUME IInv, TypeOK', UNCHANGED <<parent, era, origin, shared, strays, crowded>>,
         \A t \in Tokens : /\ row'[t] = "live" => row[t] = "live"
                           /\ Ended(t) => Ended(t)',
         \A k \in ResetTokens : /\ reset'[k] = "used" => reset[k] = "used"
                                /\ reset[k] = "none" => reset'[k] = "none" \/ era > 0,
         \A q \in Requests :
            \/ req'[q] = Idle \/ req'[q] = req[q]
            \/ /\ GoesOn(q) /\ req[q].at = "found"
               /\ req'[q].victims = req[q].victims
  PROVE  Chain' /\ Resets' /\ Limits'
<1>1. Chain' /\ Resets'
  BY CarryOn DEF IInv
<1>2. Limits'
  <2>1. Idle.at = "idle"
    BY DEF Idle
  <2> QED BY <2>1, CalmLimits DEF IInv, GoesOn
<1> QED BY <1>1, <1>2

LEMMA NextStep == IInv /\ [Next]_vars => IInv'
<1> SUFFICES ASSUME IInv, [Next]_vars PROVE IInv'
  OBVIOUS
<1> DEFINE Goal == Chain' /\ Resets' /\ Limits'
<1>1. TypeOK /\ TypeOK' /\ Chain /\ Resets /\ Limits
  BY TypeStep DEF IInv
<1>2. ASSUME UNCHANGED vars PROVE Goal
  BY <1>1, <1>2, PlainStep DEF vars, rows, memory, Ended
<1>3. ASSUME Statement PROVE Goal
  BY <1>1, <1>3, StatementStep, PlainStep DEF memory
<1>4. ASSUME NEW r \in Requests, Register(r) PROVE Goal
  BY <1>1, <1>4, Opens, RegisterLimits
<1>5. ASSUME NEW r \in Requests, LoginVerify(r) PROVE Goal
  <2>1. /\ req'[r].at = "verified" /\ \A q \in Requests \ {r} : req'[q] = req[q]
        /\ UNCHANGED <<shared, crowded, row>>
    BY <1>1, <1>5 DEF LoginVerify, Enter, TypeOK, rows, memory
  <2>2. Limits'
    BY <1>1, <2>1, CalmLimits
  <2> QED BY <1>1, <1>5, <2>2, Opens
<1>6. ASSUME NEW r \in Requests, NEW t \in Tokens, RefreshFind(r, t) PROVE Goal
  BY <1>1, <1>6, Finds, FindLimits
<1>7. ASSUME NEW r \in Requests, NEW k \in ResetTokens, ResetFind(r, k) PROVE Goal
  <2>1. /\ req'[r].at = "hashing" /\ \A q \in Requests \ {r} : req'[q] = req[q]
        /\ UNCHANGED <<crowded, row>>
        /\ shared \subseteq shared' /\ shared' \subseteq shared \cup {k}
    BY <1>1, <1>7 DEF ResetFind, Enter, TypeOK, rows
  <2>2. Limits'
    <3>1. Uncrowded' => Uncrowded
      BY <2>1 DEF Uncrowded
    <3>2. Live' = Live /\ Refreshed' \subseteq Refreshed /\ Creators' \subseteq Creators
      BY <2>1 DEF Live, Refreshed, Creators
    <3>3. Held({})' \subseteq Held({})
      BY <3>2 DEF Held, Refreshed
    <3>4. ASSUME NEW q \in Requests, req'[q].at = "counted"
          PROVE  /\ req[q].at = "counted" /\ req'[q].victims = req[q].victims
                 /\ ((Live' \ req[q].victims) \cup Refreshed') \subseteq Held(req[q].victims)
      <4>1. req'[q] = req[q]
        BY <2>1, <3>4
      <4> QED BY <3>2, <3>4, <4>1 DEF Held, Refreshed
    <3> QED BY <1>1, <3>1, <3>2, <3>3, <3>4, NoMore DEF Limits
  <2> QED BY <1>1, <1>7, <2>2, FindsReset
<1>8. ASSUME NEW r \in Requests, LoginCount(r) PROVE Goal
  <2>1. UNCHANGED <<row, parent, reset, era, origin, shared, strays>>
    BY <1>8 DEF LoginCount, rows
  <2>2. GoesOn(r) /\ \A q \in Requests \ {r} : req'[q] = req[q]
    <3>1. req[r] \in ReqType /\ req[r].at = "verified"
      BY <1>1, <1>8 DEF TypeOK, ReqType, LoginCount
    <3>2. PICK V : req' = [req EXCEPT ![r] = [req[r] EXCEPT !.at = "counted", !.victims = V]]
      BY <1>8 DEF LoginCount
    <3> QED BY <1>1, <3>1, <3>2 DEF TypeOK, ReqType, GoesOn
  <2>3. Chain' /\ Resets'
    BY <1>1, <2>1, <2>2, CarryOn DEF Ended
  <2> QED BY <1>1, <1>8, <2>3, CountLimits
<1>9. ASSUME NEW r \in Requests, LoginRevoke(r) PROVE Goal
  <2>1. req[r] \in ReqType /\ req[r].at = "counted"
    BY <1>1, <1>9 DEF TypeOK, ReqType, LoginRevoke
  <2>2. GoesOn(r) /\ \A q \in Requests \ {r} : req'[q] = req[q]
    BY <1>1, <1>9, <2>1 DEF TypeOK, ReqType, LoginRevoke, GoesOn
  <2>3. {t \in req[r].victims : row[t] # "deleted"} \in SUBSET Tokens
    BY <2>1 DEF ReqType
  <2>4. /\ UNCHANGED <<parent, reset, era, origin, shared, strays>>
        /\ \A t \in Tokens : row'[t] \in {row[t], "revoked"}
    BY <1>1, <1>9, <2>3, RevokeEnds DEF LoginRevoke, memory
  <2>5. Chain' /\ Resets'
    BY <1>1, <2>2, <2>4, CarryOn DEF Ended
  <2> QED BY <1>1, <1>9, <2>5, RevokeLimits
<1>10. ASSUME NEW r \in Requests, NEW t \in Tokens, Create(r, t) PROVE Goal
  BY <1>1, <1>10, Creates, CreateLimits
<1>11. ASSUME NEW r \in Requests, RefreshTouch(r) PROVE Goal
  <2>1. req[r] \in ReqType /\ req[r].at = "found"
    BY <1>1, <1>11 DEF TypeOK, ReqType, RefreshTouch
  <2>2. /\ GoesOn(r) /\ req'[r].victims = req[r].victims
        /\ \A q \in Requests \ {r} : req'[q] = req[q]
    BY <1>1, <1>11, <2>1 DEF TypeOK, ReqType, RefreshTouch, Move, GoesOn
  <2>3. UNCHANGED <<row, parent, reset, era, memory>>
    BY <1>11 DEF RefreshTouch
  <2> QED BY <1>1, <2>1, <2>2, <2>3, PlainStep DEF memory, Ended
<1>12. ASSUME NEW r \in Requests, RefreshTimedOut(r) PROVE Goal
  <2> DEFINE T == {req[r].token} \cap {t \in Tokens : row[t] \in {"live", "expired"}}
  <2>1. /\ UNCHANGED <<parent, reset, era, memory>>
        /\ \A t \in Tokens : row'[t] \in {row[t], "revoked"}
    <3>1. T \in SUBSET Tokens /\ Revoke(T)
      BY <1>12 DEF RefreshTimedOut
    <3> HIDE DEF T
    <3> QED BY <1>1, <1>12, <3>1, RevokeEnds DEF RefreshTimedOut
  <2>2. \A q \in Requests : req'[q] = Idle \/ req'[q] = req[q]
    BY <1>1, <1>12, AnsweredIdle DEF RefreshTimedOut
  <2> QED BY <1>1, <2>1, <2>2, PlainStep DEF memory, Ended
<1>13. ASSUME NEW r \in Requests, RefreshRevoke(r) PROVE Goal
  <2>1. CASE Revoke({req[r].token}) /\ Move(r, "create")
    <3>1. req[r].at = "touched" /\ UNCHANGED <<reset, era, memory>>
      BY <1>13 DEF RefreshRevoke
    <3> QED BY <1>1, <2>1, <3>1, Rotates, RotateLimits
  <2>2. CASE Answer(r) /\ UNCHANGED rows
    <3>1. \A q \in Requests : req'[q] = Idle \/ req'[q] = req[q]
      BY <1>1, <2>2, AnsweredIdle
    <3>2. UNCHANGED <<reset, era, memory>>
      BY <1>13 DEF RefreshRevoke
    <3> QED BY <1>1, <2>2, <3>1, <3>2, PlainStep DEF rows, memory, Ended
  <2> QED BY <1>13, <2>1, <2>2 DEF RefreshRevoke
<1>14. ASSUME NEW r \in Requests, ResetCommit(r) PROVE Goal
  <2>1. /\ UNCHANGED <<shared, crowded>>
        /\ \A t \in Tokens : row'[t] = "live" => row[t] = "live"
    <3>1. {t \in Tokens : row[t] \in {"live", "expired"}} \in SUBSET Tokens
      OBVIOUS
    <3> QED BY <1>1, <1>14, <3>1, RevokeEnds DEF ResetCommit, memory
  <2>2. ASSUME NEW q \in Requests
        PROVE  \/ req'[q].at = "idle"
               \/ /\ req'[q].token = req[q].token /\ req'[q].victims = req[q].victims
                  /\ req'[q].at = req[q].at
    <3>1. req'[q] = IF q = r \/ req[q] = Idle THEN Idle ELSE [req[q] EXCEPT !.stray = TRUE]
      BY <1>14 DEF ResetCommit
    <3>2. req[q] \in ReqType /\ Idle.at = "idle"
      BY <1>1 DEF TypeOK, ReqType, Idle
    <3> QED BY <3>1, <3>2 DEF ReqType
  <2>3. Limits'
    BY <1>1, <2>1, <2>2, CalmLimits
  <2> QED BY <1>1, <1>14, <2>3, Commits
<1>15. ASSUME NEW r \in Requests, Fail(r) PROVE Goal
  <2>1. \A q \in Requests : req'[q] = Idle \/ req'[q] = req[q]
    BY <1>1, <1>15, AnsweredIdle DEF Fail
  <2>2. UNCHANGED <<rows, reset, era, memory>>
    BY <1>15 DEF Fail
  <2> QED BY <1>1, <2>1, <2>2, PlainStep DEF rows, memory, Ended
<1>16. Goal
  <2> HIDE DEF Goal
  <2> QED BY <1>2, <1>3, <1>4, <1>5, <1>6, <1>7, <1>8, <1>9, <1>10, <1>11, <1>12, <1>13, <1>14, <1>15
          DEF Next, Begin, Step
<1> QED BY <1>1, <1>16 DEF IInv

\* The strengthened invariant holds in every reachable state.
THEOREM Inductive == Spec => []IInv
BY Start, NextStep, PTL DEF Spec

\* Rows, requests and reset tokens keep their types.
THEOREM TypeCorrect == Spec => []TypeOK
<1>1. IInv => TypeOK
  BY DEF IInv
<1> QED BY <1>1, Inductive, PTL

\* Rotation is linear, but for tokens that two requests used at once.
THEOREM OneSuccessor == Spec => []OneSuccessorUnlessShared
<1>1. IInv => OneSuccessorUnlessShared
  BY DEF IInv, Chain
<1> QED BY <1>1, Inductive, PTL

\* The limit is kept, for any limit, unless a login was crowded or a token shared.
THEOREM LimitHolds == Spec => []LimitUnlessCrowded
<1>1. IInv => LimitUnlessCrowded
  <2> SUFFICES ASSUME IInv, Uncrowded PROVE Cardinality(Live) <= MaxSessions
    BY DEF LimitUnlessCrowded, Uncrowded
  <2>1. Live \subseteq Held({})
    BY DEF Held
  <2>2. /\ Cardinality(Live) \in Nat /\ Cardinality(Held({})) \in Nat
        /\ Cardinality(Live) <= Cardinality(Held({}))
    BY <2>1, Sizes, Smaller
  <2>3. Cardinality(Creators) \in Nat
    BY Sizes
  <2>4. Cardinality(Held({})) + Cardinality(Creators) <= MaxSessions
    BY DEF IInv, Limits, Room
  <2> QED BY <2>2, <2>3, <2>4, SessionsAssumption
<1> QED BY <1>1, Inductive, PTL

\* A password reset ends every session that no request in flight carries over.
THEOREM ResetEnds == Spec => []ResetEndsSessions
<1>1. IInv => ResetEndsSessions
  BY DEF IInv, Resets
<1> QED BY <1>1, Inductive, PTL

\* A reset token sets one password, unless two resets used it at once.
THEOREM ResetOnce == Spec => ResetOnceUnlessShared
<1> DEFINE Once == \A r \in Requests :
                      /\ req[r].at = "hashing" /\ req'[r] = Idle /\ era' # era
                      /\ reset[req[r].token] = "used"
                      => req[r].token \in shared
<1>1. IInv => Once
  BY DEF IInv, Resets, UsedShared
<1>2. IInv /\ [Next]_vars => [Once]_vars
  BY <1>1
<1> QED BY <1>2, Inductive, PTL DEF Spec, ResetOnceUnlessShared

-----------------------------------------------------------------------------
(* The tabs of SessionClients, for any number of them.  Of a session the    *)
(* browser has the cookie, or the answer that brings the next one is on its *)
(* way: while nothing crossed, was lost or signed in again there is one     *)
(* exchange at most, and the session it replaces is the one in the jar.     *)

Exchange(r) == wire[r].to # None
Calm == why \cap {"crossed", "lost", "again"} = {}

Answers == Tokens \cup {"none", "refused"}
Pages == {"in", "refreshing", "failed", "out", "entering"}

\* What was sent to the browser is a row.
BrowserTyped ==
    /\ jar \in mine \cup {None}
    /\ page \in [Tabs -> Pages]
    /\ wire \in [Requests -> [to : Tabs \cup {None}, ans : Answers]]
    /\ mine \subseteq Tokens /\ \A t \in mine : row[t] # "unused"
    /\ \A r \in Requests : wire[r].ans \in Tokens => wire[r].ans \in mine

\* A tab has one exchange and waits for it, and its answer comes last.
WireStands(r) ==
    /\ ~Exchange(r) => wire[r] = NoWire
    /\ Exchange(r) => /\ page[wire[r].to] \in {"entering", "refreshing"}
                      /\ \A q \in Requests : wire[q].to = wire[r].to => q = r
                      /\ req[r] # Idle => wire[r].ans = "none"
Wires == \A r \in Requests : WireStands(r)

\* Unless tabs crossed, the browser has one.
OneAtATime ==
    "crossed" \notin why =>
        \A r, q \in Requests : Exchange(r) /\ Exchange(q) => q = r

\* While nothing happened that may cost the session, the cookie's is live or is
\* being replaced.
Kept ==
    why = {} =>
        /\ jar # None => jar \in Live \/ \E r \in Requests : Exchange(r)
        /\ jar = None => \A b \in Tabs : page[b] \in {"out", "entering"}
        /\ \A b \in Tabs : page[b] # "failed"
        /\ \A r \in Requests : Exchange(r) => wire[r].ans = "none" \/ wire[r].ans \in Live

\* An answer with a new session comes after the end of the cookie's.
Replaces ==
    Calm => \A r \in Requests : Exchange(r) =>
        \/ jar \notin Live \/ wire[r].ans = "refused"
        \/ req[r].at \in {"found", "touched"} /\ req[r].token = jar

\* What the browser was sent and is live it has, or is about to have.
Accounted ==
    Calm => \A t \in mine \cap Live : t = jar \/ \E r \in Requests : wire[r].ans = t

Away == left = "yes" => jar = None /\ \A r \in Requests : ~Exchange(r)

CRest == /\ BrowserTyped /\ Wires /\ OneAtATime
         /\ Kept /\ Replaces /\ Accounted /\ Away
CInv == TypeOK /\ CRest

\* No row lives again or is taken back.
Quiet == \A t \in Tokens : /\ row'[t] = "live" => row[t] = "live"
                           /\ row[t] # "unused" => row'[t] # "unused"

LEMMA RevokeQuiet ==
  ASSUME TypeOK, NEW T \in SUBSET Tokens, Revoke(T)
  PROVE  Quiet
BY RevokeEnds DEF Quiet

\* What the handlers' steps do to the tables and to the other requests.
LEMMA WorkQuiet ==
  ASSUME TypeOK, NEW r \in Requests,
         \/ LoginCount(r) \/ LoginRevoke(r) \/ RefreshTouch(r) \/ RefreshRevoke(r)
         \/ RefreshTimedOut(r) \/ Fail(r)
  PROVE  /\ Quiet /\ req[r].at # "idle"
         /\ \A q \in Requests \ {r} : req'[q] = req[q]
<1>1. UNCHANGED row => Quiet
  BY DEF Quiet
<1>2. CASE LoginCount(r)
  <2>1. req[r].at = "verified" /\ UNCHANGED row
    BY <1>2 DEF LoginCount, rows
  <2>2. \A q \in Requests \ {r} : req'[q] = req[q]
    <3>1. PICK V \in Victims :
             req' = [req EXCEPT ![r] = [req[r] EXCEPT !.at = "counted", !.victims = V]]
      BY <1>2 DEF LoginCount
    <3>2. req \in [Requests -> ReqType]
      BY TypeParts
    <3> QED BY <3>1, <3>2
  <2> QED BY <1>1, <2>1, <2>2
<1>3. CASE LoginRevoke(r)
  <2>1. {t \in req[r].victims : row[t] # "deleted"} \in SUBSET Tokens
    BY DEF TypeOK
  <2> QED BY <1>3, <2>1, RevokeQuiet DEF LoginRevoke, TypeOK
<1>4. CASE RefreshTouch(r)
  BY <1>1, <1>4, Moved DEF RefreshTouch
<1>5. CASE RefreshRevoke(r)
  <2>1. {req[r].token} \in SUBSET Tokens
    BY <1>5 DEF RefreshRevoke, TypeOK
  <2>2. Quiet
    BY <1>1, <1>5, <2>1, RevokeQuiet DEF RefreshRevoke, rows
  <2> QED BY <1>5, <2>2, Moved, AnsweredIdle DEF RefreshRevoke
<1>6. CASE RefreshTimedOut(r)
  <2> DEFINE T == {req[r].token} \cap {t \in Tokens : row[t] \in {"live", "expired"}}
  <2>1. T \in SUBSET Tokens /\ Revoke(T)
    BY <1>6 DEF RefreshTimedOut
  <2> HIDE DEF T
  <2> QED BY <1>6, <2>1, RevokeQuiet, AnsweredIdle DEF RefreshTimedOut
<1>7. CASE Fail(r)
  BY <1>1, <1>7, AnsweredIdle DEF Fail, rows
<1> QED BY <1>2, <1>3, <1>4, <1>5, <1>6, <1>7

LEMMA LogoutQuiet ==
  ASSUME TypeOK, NEW t \in Tokens, Logout(t)
  PROVE  Quiet /\ UNCHANGED req /\ row'[t] = "revoked"
BY RevokeQuiet, RevokeEnds DEF Logout

LEMMA EndQuiet ==
  ASSUME TypeOK, LogoutAllSessions \/ \E t \in Tokens : Logout(t) \/ Expire(t)
  PROVE  Quiet /\ UNCHANGED req
<1>1. CASE LogoutAllSessions
  <2>1. {t \in Tokens : row[t] \in {"live", "expired"}} \in SUBSET Tokens
    OBVIOUS
  <2> QED BY <1>1, <2>1, RevokeQuiet DEF LogoutAllSessions
<1>2. ASSUME NEW t \in Tokens, Expire(t) PROVE Quiet /\ UNCHANGED req
  BY <1>2 DEF Expire, Quiet, TypeOK
<1> QED BY <1>1, <1>2, LogoutQuiet

LEMMA CreateOne ==
  ASSUME TypeOK, NEW r \in Requests, NEW t \in Tokens, Create(r, t)
  PROVE  /\ req[r].at = "create" /\ req'[r] = Idle
         /\ \A q \in Requests \ {r} : req'[q] = req[q]
         /\ row[t] = "unused" /\ row'[t] = "live"
         /\ \A u \in Tokens \ {t} : row'[u] = row[u]
BY AnsweredIdle DEF Create, TypeOK

LEMMA NotIdle ==
  ASSUME NEW r \in Requests, req[r].at # "idle"
  PROVE  req[r] # Idle
BY DEF Idle

-----------------------------------------------------------------------------
\* Every step of the composition is a step of the sessions, or leaves them alone.
LEMMA ClientsStep == BrowserTyped /\ [ClientsNext]_clientVars => [Next]_vars
<1> SUFFICES ASSUME BrowserTyped, [ClientsNext]_clientVars PROVE Next \/ UNCHANGED vars
  OBVIOUS
<1>1. jar # None => jar \in Tokens
  BY DEF BrowserTyped
<1>2. UNCHANGED clientVars => UNCHANGED vars
  BY DEF clientVars
<1>3. ASSUME NEW b \in Tabs, RefreshWithoutCookie(b) \/ GiveUp(b) \/ OpenTab(b)
      PROVE  UNCHANGED vars
  BY <1>3 DEF RefreshWithoutCookie, GiveUp, OpenTab
<1>4. ASSUME NEW b \in Tabs, SignOut(b) \/ SignOutUnheard(b) PROVE Next \/ UNCHANGED vars
  BY <1>1, <1>4 DEF SignOut, SignOutUnheard, Next, Statement
<1>5. ASSUME NEW b \in Tabs, NEW r \in Requests, SignIn(b, r) \/ Refresh(b, r)
      PROVE  Next \/ UNCHANGED vars
  BY <1>1, <1>5 DEF SignIn, Refresh, Next, Begin
<1>6. ASSUME NEW r \in Requests, Handle(r) PROVE Next
  BY <1>6 DEF Handle, Work, Refuse, Grant, Next, Step
<1>7. ASSUME NEW r \in Requests, Receive(r) \/ Lose(r) PROVE UNCHANGED vars
  BY <1>7 DEF Receive, Lose
<1>8. ASSUME NEW r \in Requests, LoginElsewhere(r) PROVE Next
  BY <1>8 DEF LoginElsewhere, Next, Begin
<1>9. ASSUME EndElsewhere PROVE Next
  BY <1>9 DEF EndElsewhere, Next, Statement
<1> QED BY <1>2, <1>3, <1>4, <1>5, <1>6, <1>7, <1>8, <1>9 DEF ClientsNext

-----------------------------------------------------------------------------
\* Steps of the server that the browser does not hear of.
LEMMA Unheard ==
  ASSUME CInv, Quiet, UNCHANGED <<jar, page, wire, mine, left>>, why \subseteq why',
         \A q \in Requests : Exchange(q) =>
             /\ req[q] = Idle => req'[q] = Idle
             /\ req[q].at \in {"found", "touched"} /\ req[q].token = jar =>
                    \/ jar \notin Live'
                    \/ req'[q].at \in {"found", "touched"} /\ req'[q].token = jar,
         why' = {} => \/ UNCHANGED row
                      \/ \E q \in Requests : Exchange(q) /\ wire[q].ans = "none"
  PROVE  CRest'
<1>1. Live' \subseteq Live
  BY DEF Quiet, Live
<1>2. BrowserTyped'
  BY DEF CInv, CRest, BrowserTyped, Quiet
<1>3. Wires' /\ OneAtATime' /\ Away'
  BY DEF CInv, CRest, Wires, WireStands, OneAtATime, Away, Exchange, NoWire
<1>4. Kept'
  <2> SUFFICES ASSUME why' = {} PROVE Kept'
    BY DEF Kept
  <2>1. CASE UNCHANGED row
    BY <2>1 DEF CInv, CRest, Kept, Exchange, Live
  <2>2. ASSUME NEW q \in Requests, Exchange(q), wire[q].ans = "none" PROVE Kept'
    <3>1. \A r \in Requests : Exchange(r) => r = q
      BY <2>2 DEF CInv, CRest, OneAtATime
    <3> QED BY <2>2, <3>1 DEF CInv, CRest, Kept, Exchange
  <2> QED BY <2>1, <2>2
<1>5. Replaces'
  BY <1>1 DEF CInv, CRest, Replaces, Calm, Exchange
<1>6. Accounted'
  BY <1>1 DEF CInv, CRest, Accounted, Calm
<1> QED BY <1>2, <1>3, <1>4, <1>5, <1>6 DEF CRest

LEMMA WorkStep ==
  ASSUME CInv, NEW r \in Requests, Work(r)
  PROVE  CRest'
<1>1. /\ Quiet /\ req[r].at # "idle" /\ req[r] # Idle
      /\ \A q \in Requests \ {r} : req'[q] = req[q]
  BY WorkQuiet, NotIdle DEF Work, CInv
<1>2. UNCHANGED <<jar, page, wire, mine, left>> /\ why \subseteq why'
  BY DEF Work
<1>3. ASSUME why' = {} PROVE UNCHANGED row \/ \E q \in Requests : Exchange(q) /\ wire[q].ans = "none"
  BY <1>1, <1>3 DEF Work, Exchange, CInv, CRest, Wires, WireStands
<1>4. ASSUME req[r].at \in {"found", "touched"}, req[r].token = jar
      PROVE  \/ jar \notin Live'
             \/ req'[r].at \in {"found", "touched"} /\ req'[r].token = jar
  <2>1. CASE RefreshTouch(r)
    <3>1. req'[r] = [req[r] EXCEPT !.at = "touched"]
      BY <2>1, Moved DEF RefreshTouch, CInv
    <3>2. req[r] \in ReqType
      BY DEF CInv, TypeOK, ReqType
    <3> QED BY <1>4, <3>1, <3>2 DEF ReqType
  <2>2. CASE RefreshRevoke(r) /\ req'[r] # Idle
    <3> DEFINE T == {req[r].token}
    <3>1. T \in SUBSET Tokens
      BY <2>2 DEF RefreshRevoke, CInv, TypeOK
    <3>2. Revoke(T)
      BY <2>2, AnsweredIdle DEF RefreshRevoke, CInv
    <3>3. jar \in T
      BY <1>4
    <3> HIDE DEF T
    <3>4. row'[jar] = "revoked"
      BY <3>1, <3>2, <3>3, RevokeEnds DEF CInv
    <3> QED BY <3>4 DEF Live
  <2>3. ~LoginCount(r) /\ ~LoginRevoke(r)
    BY <1>4 DEF LoginCount, LoginRevoke
  <2> QED BY <2>1, <2>2, <2>3 DEF Work
<1> QED BY <1>1, <1>2, <1>3, <1>4, Unheard

LEMMA ElsewhereStep ==
  ASSUME CInv, EndElsewhere \/ \E r \in Requests : LoginElsewhere(r)
  PROVE  CRest'
<1>1. CASE EndElsewhere
  <2>1. Quiet /\ UNCHANGED req
    BY <1>1, EndQuiet DEF EndElsewhere, CInv
  <2> QED BY <1>1, <2>1, Unheard DEF EndElsewhere
<1>2. ASSUME NEW r \in Requests, LoginElsewhere(r) PROVE CRest'
  <2>1. /\ UNCHANGED <<row, browser>> /\ ~Exchange(r)
        /\ \A q \in Requests \ {r} : req'[q] = req[q]
    <3>1. UNCHANGED <<row, browser>> /\ wire[r] = NoWire
      BY <1>2 DEF LoginElsewhere, LoginVerify, rows, Free
    <3>2. \A q \in Requests \ {r} : req'[q] = req[q]
      BY <1>2 DEF LoginElsewhere, LoginVerify, Enter, CInv, TypeOK
    <3> QED BY <3>1, <3>2 DEF NoWire, Exchange
  <2> QED BY <2>1, Unheard DEF browser, Quiet
<1> QED BY <1>1, <1>2

-----------------------------------------------------------------------------
\* The answer of a handler goes to the tab that waits for it.
LEMMA AnsweredWire ==
  ASSUME CInv, NEW r \in Requests, NEW ans \in Answers, Answered(r, ans)
  PROVE  /\ \A q \in Requests \ {r} : wire'[q] = wire[q]
         /\ wire'[r].to = wire[r].to
         /\ Exchange(r) => wire'[r].ans = ans
         /\ ~Exchange(r) => wire'[r] = wire[r]
         /\ wire' \in [Requests -> [to : Tabs \cup {None}, ans : Answers]]
BY DEF Answered, CInv, CRest, BrowserTyped, Exchange

LEMMA RefuseStep ==
  ASSUME CInv, NEW r \in Requests, Refuse(r)
  PROVE  CRest'
<1>1. /\ Quiet /\ req[r] # Idle /\ req'[r] = Idle
      /\ \A q \in Requests \ {r} : req'[q] = req[q]
  BY WorkQuiet, NotIdle DEF Refuse, CInv
<1>2. Live' \subseteq Live
  BY <1>1 DEF Quiet, Live
<1>3. UNCHANGED <<jar, page, mine, left>> /\ why' = why \cup {"fault"}
  BY DEF Refuse
<1>4. /\ \A q \in Requests \ {r} : wire'[q] = wire[q]
      /\ wire'[r].to = wire[r].to
      /\ Exchange(r) => wire'[r].ans = "refused" /\ wire[r].ans = "none"
      /\ ~Exchange(r) => wire'[r] = wire[r]
      /\ wire' \in [Requests -> [to : Tabs \cup {None}, ans : Answers]]
  BY <1>1, AnsweredWire DEF Refuse, Answers, CInv, CRest, Wires, WireStands
<1>5. \A q \in Requests : Exchange(q)' <=> Exchange(q)
  BY <1>4 DEF Exchange
<1>6. \A q \in Requests : wire'[q].ans \in Tokens <=> wire[q].ans \in Tokens
  BY <1>4, TabsAssumption
<1>7. BrowserTyped'
  BY <1>1, <1>3, <1>4, <1>6, TabsAssumption DEF CInv, CRest, BrowserTyped, Quiet
<1>8. Wires' /\ OneAtATime' /\ Away'
  BY <1>1, <1>3, <1>4, <1>5 DEF CInv, CRest, Wires, WireStands, OneAtATime, Away, Exchange, NoWire
<1>9. Kept' /\ Replaces'
  BY <1>1, <1>2, <1>3, <1>4, <1>5 DEF CInv, CRest, Kept, Replaces, Calm
<1>10. Accounted'
  BY <1>2, <1>3, <1>4, TabsAssumption DEF CInv, CRest, Accounted, Calm, Live
<1> QED BY <1>7, <1>8, <1>9, <1>10 DEF CRest

LEMMA GrantStep ==
  ASSUME CInv, NEW r \in Requests, NEW t \in Tokens, Grant(r, t)
  PROVE  CRest'
<1>1. /\ req[r].at = "create" /\ req[r] # Idle /\ req'[r] = Idle
      /\ \A q \in Requests \ {r} : req'[q] = req[q]
      /\ row[t] = "unused" /\ row'[t] = "live"
      /\ \A u \in Tokens \ {t} : row'[u] = row[u]
  BY CreateOne, NotIdle DEF Grant, CInv
<1>2. Live' = Live \cup {t} /\ t \notin Live /\ t \notin mine /\ t # jar
  BY <1>1, SessionsAssumption DEF Live, CInv, CRest, BrowserTyped
<1>3. /\ UNCHANGED <<jar, page, why, left>>
      /\ mine' = IF Exchange(r) THEN mine \cup {t} ELSE mine
  BY DEF Grant, Exchange
<1>4. /\ \A q \in Requests \ {r} : wire'[q] = wire[q]
      /\ wire'[r].to = wire[r].to
      /\ Exchange(r) => wire'[r].ans = t /\ wire[r].ans = "none"
      /\ ~Exchange(r) => wire'[r] = wire[r]
      /\ wire' \in [Requests -> [to : Tabs \cup {None}, ans : Answers]]
  BY <1>1, AnsweredWire DEF Grant, Answers, CInv, CRest, Wires, WireStands
<1>5. \A q \in Requests : Exchange(q)' <=> Exchange(q)
  BY <1>4 DEF Exchange
<1>7. BrowserTyped'
  BY <1>1, <1>3, <1>4 DEF CInv, CRest, BrowserTyped
<1>8. Wires' /\ OneAtATime' /\ Away'
  BY <1>1, <1>3, <1>4, <1>5 DEF CInv, CRest, Wires, WireStands, OneAtATime, Away, Exchange, NoWire
<1>9. Kept'
  BY <1>2, <1>3, <1>4, <1>5 DEF CInv, CRest, Kept
<1>10. Replaces'
  <2> SUFFICES ASSUME Calm, NEW q \in Requests, Exchange(q)
               PROVE  \/ jar \notin Live' \/ wire'[q].ans = "refused"
                      \/ req'[q].at \in {"found", "touched"} /\ req'[q].token = jar
    BY <1>3, <1>5 DEF Replaces, Calm
  <2>1. \/ jar \notin Live \/ wire[q].ans = "refused"
        \/ req[q].at \in {"found", "touched"} /\ req[q].token = jar
    BY DEF CInv, CRest, Replaces
  <2> QED BY <1>1, <1>2, <1>4, <2>1
<1>11. Accounted'
  <2> SUFFICES ASSUME Calm, NEW u \in mine' \cap Live'
               PROVE  u = jar \/ \E q \in Requests : wire'[q].ans = u
    BY <1>3 DEF Accounted, Calm
  <2>1. CASE u = t
    BY <1>2, <1>3, <1>4, <2>1
  <2>2. CASE u # t
    <3>1. u \in mine \cap Live /\ u \in Tokens
      BY <1>2, <1>3, <2>2 DEF Live
    <3>2. u = jar \/ \E q \in Requests : wire[q].ans = u
      BY <3>1 DEF CInv, CRest, Accounted
    <3>3. wire[r].ans = u => wire'[r] = wire[r]
      BY <1>4, <3>1, TabsAssumption
    <3> QED BY <1>4, <3>2, <3>3
  <2> QED BY <2>1, <2>2
<1> QED BY <1>7, <1>8, <1>9, <1>10, <1>11 DEF CRest

-----------------------------------------------------------------------------
\* A tab that sends had no exchange, and has this one.
LEMMA Sends ==
  ASSUME CInv, NEW r \in Requests, NEW b \in Tabs, page[b] \in {"in", "out"}, wire[r] = NoWire,
         NEW ans \in {"none", "refused"}, NEW p \in {"entering", "refreshing"},
         Send(r, b, ans, p), UNCHANGED <<row, jar, mine>>,
         why \cup Crossing(b) \subseteq why',
         req'[r] # Idle => ans = "none",
         \A q \in Requests \ {r} : req'[q] = req[q]
  PROVE  /\ wire'[r] = [to |-> b, ans |-> ans] /\ \A q \in Requests \ {r} : wire'[q] = wire[q]
         /\ page'[b] = p /\ \A c \in Tabs \ {b} : page'[c] = page[c]
         /\ Exchange(r)' /\ ~Exchange(r)
         /\ "crossed" \notin why' => \A q \in Requests : ~Exchange(q)
         /\ BrowserTyped' /\ Wires' /\ OneAtATime' /\ Accounted'
<1>1. /\ wire'[r] = [to |-> b, ans |-> ans] /\ \A q \in Requests \ {r} : wire'[q] = wire[q]
      /\ wire' \in [Requests -> [to : Tabs \cup {None}, ans : Answers]]
  BY DEF Send, CInv, CRest, BrowserTyped, Answers
<1>2. /\ page'[b] = p /\ \A c \in Tabs \ {b} : page'[c] = page[c]
      /\ page' \in [Tabs -> Pages]
  BY DEF Send, CInv, CRest, BrowserTyped, Pages
<1>3. Exchange(r)' /\ ~Exchange(r) /\ \A q \in Requests \ {r} : Exchange(q)' <=> Exchange(q)
  BY <1>1, TabsAssumption DEF Exchange, NoWire
<1>4. \A q \in Requests : wire[q].to # b
  BY TabsAssumption DEF CInv, CRest, Wires, WireStands, Exchange
<1>5. "crossed" \notin why' => \A q \in Requests : ~Exchange(q)
  BY <1>4 DEF Crossing, Others, Exchange
<1>6. BrowserTyped'
  BY <1>1, <1>2, TabsAssumption DEF CInv, CRest, BrowserTyped
<1>7. Wires'
  <2>1. WireStands(r)'
    BY <1>1, <1>2, <1>3, <1>4 DEF WireStands, Exchange
  <2>2. ASSUME NEW q \in Requests \ {r} PROVE WireStands(q)'
    <3>1. WireStands(q) /\ wire[q] \in [to : Tabs \cup {None}, ans : Answers]
      BY DEF CInv, CRest, Wires, BrowserTyped
    <3> QED BY <1>1, <1>2, <1>3, <1>4, <3>1 DEF WireStands, Exchange, NoWire
  <2> QED BY <2>1, <2>2 DEF Wires
<1>8. OneAtATime'
  BY <1>3, <1>5 DEF OneAtATime
<1>9. Accounted'
  <2>1. Calm' => Calm
    BY DEF Calm
  <2>2. \A t \in Tokens : wire[r].ans # t
    BY TabsAssumption DEF NoWire
  <2> QED BY <1>1, <2>1, <2>2 DEF CInv, CRest, BrowserTyped, Accounted, Live
<1> QED BY <1>1, <1>2, <1>3, <1>5, <1>6, <1>7, <1>8, <1>9

LEMMA SignInStep ==
  ASSUME CInv, NEW b \in Tabs, NEW r \in Requests, SignIn(b, r)
  PROVE  CRest'
<1>1. /\ UNCHANGED <<row, jar, mine>> /\ left' = "no"
      /\ \A q \in Requests \ {r} : req'[q] = req[q]
      /\ why \cup Crossing(b) \subseteq why'
      /\ jar # None => "again" \in why'
      /\ page[b] = "out" /\ wire[r] = NoWire /\ Send(r, b, "none", "entering")
  BY Entered DEF SignIn, Register, LoginVerify, rows, Free, CInv
<1>2. /\ wire'[r] = [to |-> b, ans |-> "none"] /\ \A q \in Requests \ {r} : wire'[q] = wire[q]
      /\ page'[b] = "entering" /\ \A c \in Tabs \ {b} : page'[c] = page[c]
      /\ Exchange(r)' /\ ~Exchange(r)
      /\ "crossed" \notin why' => \A q \in Requests : ~Exchange(q)
      /\ BrowserTyped' /\ Wires' /\ OneAtATime' /\ Accounted'
  BY <1>1, Sends
<1>3. Kept'
  BY <1>1, <1>2 DEF CInv, CRest, Kept, Exchange
<1>4. Replaces'
  <2>1. None \notin Live'
    BY SessionsAssumption DEF Live
  <2> QED BY <1>1, <2>1 DEF Replaces, Calm
<1>5. Away'
  BY <1>1 DEF Away
<1> QED BY <1>2, <1>3, <1>4, <1>5 DEF CRest

LEMMA RefreshStep ==
  ASSUME CInv, NEW b \in Tabs, NEW r \in Requests, Refresh(b, r)
  PROVE  CRest'
<1>1. /\ page[b] = "in" /\ wire[r] = NoWire /\ jar # None /\ jar \in Tokens
      /\ why' = why \cup Crossing(b) /\ UNCHANGED <<jar, mine, left>>
      /\ req[r] = Idle
  BY DEF Refresh, MayRefresh, Free, CInv, CRest, BrowserTyped
<1>2. PICK ans \in {"none", "refused"} :
         /\ Send(r, b, ans, "refreshing") /\ UNCHANGED row
         /\ \A q \in Requests \ {r} : req'[q] = req[q]
         /\ req'[r] # Idle => ans = "none"
         /\ ans = "none" => req'[r].at = "found" /\ req'[r].token = jar
         /\ ans = "refused" => row[jar] # "live"
  <2>1. CASE RefreshFind(r, jar) /\ Send(r, b, "none", "refreshing")
    <3>1. UNCHANGED row /\ Enter(r, "found", jar, origin[jar], jar \in strays)
      BY <2>1 DEF RefreshFind, rows
    <3>2. /\ req'[r].at = "found" /\ req'[r].token = jar
          /\ \A q \in Requests \ {r} : req'[q] = req[q]
      BY <3>1, TypeParts DEF Enter, CInv
    <3> QED BY <2>1, <3>1, <3>2
  <2>2. CASE row[jar] # "live" /\ Send(r, b, "refused", "refreshing") /\ UNCHANGED vars
    BY <1>1, <2>2 DEF vars, rows
  <2> QED BY <2>1, <2>2 DEF Refresh
<1>3. /\ wire'[r] = [to |-> b, ans |-> ans] /\ \A q \in Requests \ {r} : wire'[q] = wire[q]
      /\ page'[b] = "refreshing" /\ \A c \in Tabs \ {b} : page'[c] = page[c]
      /\ Exchange(r)' /\ ~Exchange(r)
      /\ "crossed" \notin why' => \A q \in Requests : ~Exchange(q)
      /\ BrowserTyped' /\ Wires' /\ OneAtATime' /\ Accounted'
  BY <1>1, <1>2, Sends
<1>4. Kept'
  <2> SUFFICES ASSUME why' = {} PROVE Kept'
    BY DEF Kept
  <2>1. jar \in Live /\ \A q \in Requests : ~Exchange(q)
    BY <1>1, <1>3 DEF CInv, CRest, Kept
  <2>2. ans = "none"
    BY <1>2, <2>1 DEF Live
  <2> QED BY <1>1, <1>2, <1>3, <2>1, <2>2 DEF CInv, CRest, Kept, Exchange
<1>5. Replaces'
  <2> SUFFICES ASSUME Calm' PROVE Replaces'
    BY DEF Replaces
  <2>1. \A q \in Requests \ {r} : ~Exchange(q)'
    BY <1>3 DEF Calm, Exchange
  <2> QED BY <1>1, <1>2, <1>3, <2>1 DEF Replaces
<1>6. Away'
  BY <1>1 DEF CInv, CRest, Away
<1> QED BY <1>3, <1>4, <1>5, <1>6 DEF CRest

-----------------------------------------------------------------------------
\* An exchange that is over leaves the others as they are.
LEMMA Over ==
  ASSUME CInv, NEW r \in Requests, Exchange(r), wire' = [wire EXCEPT ![r] = NoWire],
         NEW p \in Pages, page' = [page EXCEPT ![wire[r].to] = p],
         jar' \in {jar, wire[r].ans}, jar' \in mine \cup {None},
         why \subseteq why', UNCHANGED <<vars, mine, left>>
  PROVE  /\ wire'[r] = NoWire /\ \A q \in Requests \ {r} : wire'[q] = wire[q]
         /\ wire[r].to \in Tabs /\ page'[wire[r].to] = p
         /\ \A c \in Tabs \ {wire[r].to} : page'[c] = page[c]
         /\ ~Exchange(r)' /\ \A q \in Requests \ {r} : Exchange(q)' <=> Exchange(q)
         /\ BrowserTyped' /\ Wires' /\ OneAtATime' /\ Away' /\ Live' = Live
<1> DEFINE b == wire[r].to
<1>1. /\ wire'[r] = NoWire /\ \A q \in Requests \ {r} : wire'[q] = wire[q]
      /\ wire' \in [Requests -> [to : Tabs \cup {None}, ans : Answers]]
  BY DEF CInv, CRest, BrowserTyped, Answers, NoWire
<1>2. /\ b \in Tabs /\ page'[b] = p /\ \A c \in Tabs \ {b} : page'[c] = page[c]
      /\ page' \in [Tabs -> Pages]
  BY DEF CInv, CRest, BrowserTyped, Exchange
<1>3. ~Exchange(r)' /\ \A q \in Requests \ {r} : Exchange(q)' <=> Exchange(q)
  BY <1>1 DEF Exchange, NoWire
<1>4. UNCHANGED <<row, req>> /\ Live' = Live
  BY DEF vars, rows, Live
<1>5. BrowserTyped'
  BY <1>1, <1>2, <1>4, TabsAssumption DEF CInv, CRest, BrowserTyped, NoWire
<1>6. Wires'
  <2>1. WireStands(r)'
    BY <1>1, <1>3 DEF WireStands
  <2>2. ASSUME NEW q \in Requests \ {r} PROVE WireStands(q)'
    <3>1. WireStands(q) /\ wire[q] \in [to : Tabs \cup {None}, ans : Answers]
      BY DEF CInv, CRest, Wires, BrowserTyped
    <3>2. WireStands(r)
      BY DEF CInv, CRest, Wires
    <3>3. Exchange(q) => wire[q].to # b
      BY <3>2 DEF WireStands, Exchange
    <3>4. CASE ~Exchange(q)
      BY <1>1, <1>3, <3>1, <3>4 DEF WireStands, NoWire
    <3>5. CASE Exchange(q)
      <4>1. wire[q].to \in Tabs \ {b}
        BY <3>1, <3>3, <3>5 DEF Exchange
      <4>2. \A v \in Requests : wire'[v].to = wire[q].to => v = q
        BY <1>1, <3>1, <3>5 DEF WireStands, Exchange, NoWire
      <4> QED BY <1>1, <1>2, <1>3, <1>4, <3>1, <3>5, <4>1, <4>2 DEF WireStands
    <3> QED BY <3>4, <3>5
  <2> QED BY <2>1, <2>2 DEF Wires
<1>7. OneAtATime'
  BY <1>3 DEF CInv, CRest, OneAtATime
<1>8. Away'
  BY DEF CInv, CRest, Away
<1> QED BY <1>1, <1>2, <1>3, <1>4, <1>5, <1>6, <1>7, <1>8

LEMMA ReceiveStep ==
  ASSUME CInv, NEW r \in Requests, Receive(r)
  PROVE  CRest'
<1> DEFINE b == wire[r].to
           ans == wire[r].ans
<1>1. Exchange(r) /\ ans # "none" /\ req[r] = Idle
  BY DEF Receive, CInv, CRest, Wires, WireStands, NoWire
<1>2. \A q \in Requests : Exchange(q) /\ "crossed" \notin why => q = r
  BY <1>1 DEF CInv, CRest, OneAtATime
<1>3. UNCHANGED <<vars, why, mine, left>>
  BY DEF Receive
<1>4. CASE /\ ans = "refused" /\ UNCHANGED jar
           /\ page' = [page EXCEPT ![b] = IF page[b] = "entering" THEN "out" ELSE "failed"]
  <2> DEFINE p == IF page[b] = "entering" THEN "out" ELSE "failed"
  <2>1. /\ p \in Pages /\ wire' = [wire EXCEPT ![r] = NoWire]
        /\ page' = [page EXCEPT ![wire[r].to] = p]
        /\ jar' \in {jar, wire[r].ans} /\ jar' \in mine \cup {None}
    BY <1>4 DEF Receive, Pages, CInv, CRest, BrowserTyped
  <2> HIDE DEF p
  <2>2. /\ wire'[r] = NoWire /\ \A q \in Requests \ {r} : wire'[q] = wire[q]
        /\ ~Exchange(r)' /\ \A q \in Requests \ {r} : Exchange(q)' <=> Exchange(q)
        /\ BrowserTyped' /\ Wires' /\ OneAtATime' /\ Away' /\ Live' = Live
    BY <1>1, <1>3, <2>1, Over
  <2>3. why # {}
    BY <1>1, <1>4, TabsAssumption DEF CInv, CRest, Kept, Live
  <2>4. Kept'
    BY <1>3, <2>3 DEF Kept
  <2>5. Replaces'
    BY <1>2, <1>3, <2>2 DEF Replaces, Calm
  <2>6. Accounted'
    BY <1>3, <1>4, <2>2, TabsAssumption DEF CInv, CRest, Accounted, Calm, Live
  <2> QED BY <2>2, <2>4, <2>5, <2>6 DEF CRest
<1>5. CASE ans \in Tokens /\ jar' = ans /\ page' = [page EXCEPT ![b] = "in"]
  <2>1. wire' = [wire EXCEPT ![r] = NoWire] /\ ans \in mine
    BY <1>5 DEF Receive, CInv, CRest, BrowserTyped
  <2>2. /\ wire'[r] = NoWire /\ \A q \in Requests \ {r} : wire'[q] = wire[q]
        /\ ~Exchange(r)' /\ \A q \in Requests \ {r} : Exchange(q)' <=> Exchange(q)
        /\ page'[b] = "in" /\ \A c \in Tabs \ {b} : page'[c] = page[c]
        /\ BrowserTyped' /\ Wires' /\ OneAtATime' /\ Away' /\ Live' = Live
    BY <1>1, <1>3, <1>5, <2>1, Over DEF Pages
  <2>3. "crossed" \notin why => \A q \in Requests : ~Exchange(q)'
    BY <1>2, <2>2
  <2>4. Kept'
    <3> SUFFICES ASSUME why' = {} PROVE Kept'
      BY DEF Kept
    <3>1. ans \in Live /\ \A c \in Tabs : page[c] # "failed"
      BY <1>1, <1>3 DEF CInv, CRest, Kept
    <3> QED BY <1>3, <1>5, <2>2, <2>3, <3>1, SessionsAssumption DEF Kept
  <2>5. Replaces'
    BY <1>3, <2>3 DEF Replaces, Calm
  <2>6. Accounted'
    <3> SUFFICES ASSUME Calm, NEW t \in mine \cap Live PROVE t = ans
      BY <1>3, <1>5, <2>2 DEF Accounted, Calm
    <3>1. jar \notin Live
      BY <1>1, <1>5, TabsAssumption DEF CInv, CRest, Replaces, Idle
    <3>2. PICK q \in Requests : wire[q].ans = t
      BY <3>1 DEF CInv, CRest, Accounted
    <3>3. Exchange(q)
      BY <3>2, TabsAssumption DEF CInv, CRest, BrowserTyped, Wires, WireStands, NoWire
    <3> QED BY <1>2, <3>2, <3>3 DEF Calm
  <2> QED BY <2>2, <2>4, <2>5, <2>6 DEF CRest
<1> QED BY <1>4, <1>5 DEF Receive

LEMMA LoseStep ==
  ASSUME CInv, NEW r \in Requests, Lose(r)
  PROVE  CRest'
<1> DEFINE p == IF page[wire[r].to] = "entering" THEN "out" ELSE "failed"
<1>1. /\ p \in Pages /\ wire' = [wire EXCEPT ![r] = NoWire] /\ Exchange(r)
      /\ page' = [page EXCEPT ![wire[r].to] = p]
      /\ jar' \in {jar, wire[r].ans} /\ jar' \in mine \cup {None}
      /\ why' = why \cup {"lost"} /\ UNCHANGED <<vars, mine, left>>
  BY DEF Lose, Pages, Exchange, CInv, CRest, BrowserTyped
<1> HIDE DEF p
<1>2. BrowserTyped' /\ Wires' /\ OneAtATime' /\ Away'
  BY <1>1, Over
<1>3. Kept' /\ Replaces' /\ Accounted'
  BY <1>1 DEF Kept, Replaces, Accounted, Calm
<1> QED BY <1>2, <1>3 DEF CRest

-----------------------------------------------------------------------------
\* A tab without an exchange turns to another page.
LEMMA Turns ==
  ASSUME CInv, NEW b \in Tabs, page[b] \in {"in", "failed", "out"},
         NEW p \in Pages, page' = [page EXCEPT ![b] = p],
         Quiet, UNCHANGED <<req, wire, mine>>, jar' \in {jar, None}, why \subseteq why'
  PROVE  /\ page'[b] = p /\ \A c \in Tabs \ {b} : page'[c] = page[c]
         /\ BrowserTyped' /\ Wires' /\ OneAtATime' /\ Replaces'
         /\ \A q \in Requests : Exchange(q)' <=> Exchange(q)
<1>1. /\ page'[b] = p /\ \A c \in Tabs \ {b} : page'[c] = page[c]
      /\ page' \in [Tabs -> Pages]
  BY DEF CInv, CRest, BrowserTyped
<1>2. BrowserTyped'
  BY <1>1 DEF CInv, CRest, BrowserTyped, Quiet
<1>3. ASSUME NEW q \in Requests PROVE WireStands(q)'
  <2>1. WireStands(q) /\ wire[q] \in [to : Tabs \cup {None}, ans : Answers]
    BY DEF CInv, CRest, Wires, BrowserTyped
  <2>2. Exchange(q) => wire[q].to \in Tabs \ {b}
    BY <2>1 DEF WireStands, Exchange
  <2>3. Exchange(q)' <=> Exchange(q)
    BY DEF Exchange
  <2> QED BY <1>1, <2>1, <2>2, <2>3 DEF WireStands, NoWire
<1>4. OneAtATime' /\ \A q \in Requests : Exchange(q)' <=> Exchange(q)
  BY DEF CInv, CRest, OneAtATime, Exchange
<1>5. Replaces'
  <2>1. Live' \subseteq Live /\ None \notin Live'
    BY SessionsAssumption DEF Quiet, Live
  <2> QED BY <2>1 DEF CInv, CRest, Replaces, Calm, Exchange
<1> QED BY <1>1, <1>2, <1>3, <1>4, <1>5 DEF Wires

LEMMA PageStep ==
  ASSUME CInv, NEW b \in Tabs, RefreshWithoutCookie(b) \/ GiveUp(b) \/ OpenTab(b)
  PROVE  CRest'
<1>1. UNCHANGED <<row, req, jar, wire, why, mine, left>> /\ Quiet /\ Live' = Live
  BY DEF RefreshWithoutCookie, GiveUp, OpenTab, vars, rows, Quiet, Live
<1>2. PICK p \in {"failed", "out", "in"} :
         /\ page' = [page EXCEPT ![b] = p]
         /\ page[b] \in {"in", "failed", "out"}
         /\ p = "failed" => jar = None /\ page[b] = "in"
         /\ p = "in" => jar # None
  BY DEF RefreshWithoutCookie, GiveUp, OpenTab, MayRefresh
<1>3. /\ page'[b] = p /\ \A c \in Tabs \ {b} : page'[c] = page[c]
      /\ BrowserTyped' /\ Wires' /\ OneAtATime' /\ Replaces'
      /\ \A q \in Requests : Exchange(q)' <=> Exchange(q)
  BY <1>1, <1>2, Turns DEF Pages
<1>4. Kept'
  BY <1>1, <1>2, <1>3 DEF CInv, CRest, Kept
<1>5. Accounted' /\ Away'
  BY <1>1, <1>3 DEF CInv, CRest, Accounted, Calm, Away
<1> QED BY <1>3, <1>4, <1>5 DEF CRest

LEMMA SignOutStep ==
  ASSUME CInv, NEW b \in Tabs, SignOut(b) \/ SignOutUnheard(b)
  PROVE  CRest'
<1>1. jar # None => jar \in Tokens
  BY DEF CInv, CRest, BrowserTyped
<1>2. /\ Quiet /\ UNCHANGED req
      /\ SignOut(b) /\ jar # None => row'[jar] = "revoked"
  <2>1. UNCHANGED vars => Quiet /\ UNCHANGED req
    BY DEF vars, rows, Quiet
  <2> QED BY <1>1, <2>1, LogoutQuiet DEF SignOut, SignOutUnheard, CInv
<1>3. /\ page[b] \in {"in", "failed"} /\ page' = [page EXCEPT ![b] = "out"]
      /\ why \subseteq why' /\ why' # {} /\ UNCHANGED <<wire, mine>> /\ jar' \in {jar, None}
      /\ SignOutUnheard(b) => "lost" \in why' /\ left' = "raced"
      /\ SignOut(b) => /\ jar' = None
                       /\ left' = "yes" => \A q \in Requests : wire[q] = NoWire
  BY DEF SignOut, SignOutUnheard
<1>4. BrowserTyped' /\ Wires' /\ OneAtATime' /\ Replaces'
  BY <1>2, <1>3, Turns DEF Pages
<1>5. Kept'
  BY <1>3 DEF Kept
<1>6. Accounted'
  <2>1. Live' \subseteq Live
    BY <1>2 DEF Quiet, Live
  <2>2. SignOut(b) => jar \notin Live'
    BY <1>1, <1>2, SessionsAssumption DEF Live
  <2> QED BY <1>3, <2>1, <2>2 DEF CInv, CRest, Accounted, Calm
<1>7. Away'
  BY <1>3 DEF Away, Exchange, NoWire
<1> QED BY <1>4, <1>5, <1>6, <1>7 DEF CRest

-----------------------------------------------------------------------------
LEMMA ClientsStart == ClientsInit => CInv
<1> SUFFICES ASSUME ClientsInit PROVE CInv
  OBVIOUS
<1>1. TypeOK
  BY Start DEF ClientsInit, IInv
<1>2. /\ \A r \in Requests : wire[r] = NoWire /\ ~Exchange(r)
      /\ wire \in [Requests -> [to : Tabs \cup {None}, ans : Answers]]
  BY DEF ClientsInit, NoWire, Exchange, Answers
<1>3. BrowserTyped /\ Wires
  BY <1>2, TabsAssumption DEF ClientsInit, BrowserTyped, Pages, Wires, WireStands, NoWire
<1>4. OneAtATime /\ Kept /\ Replaces /\ Accounted /\ Away
  BY <1>2 DEF ClientsInit, OneAtATime, Kept, Replaces, Accounted, Away
<1> QED BY <1>1, <1>3, <1>4 DEF CInv, CRest

LEMMA ClientsNextStep == CInv /\ [ClientsNext]_clientVars => CInv'
<1> SUFFICES ASSUME CInv, [ClientsNext]_clientVars PROVE CInv'
  OBVIOUS
<1>1. TypeOK'
  BY ClientsStep, TypeStep DEF CInv, CRest
<1>2. CASE UNCHANGED clientVars
  <2>1. UNCHANGED <<row, req, browser>>
    BY <1>2 DEF clientVars, vars, rows
  <2>2. CRest'
    BY <2>1, Unheard DEF browser, Quiet
  <2> QED BY <1>1, <2>2 DEF CInv
<1>3. CASE ClientsNext
  <2>1. CRest'
    BY <1>3, WorkStep, RefuseStep, GrantStep, ElsewhereStep, SignInStep, RefreshStep,
       ReceiveStep, LoseStep, PageStep, SignOutStep DEF ClientsNext, Handle
  <2> QED BY <1>1, <2>1 DEF CInv
<1> QED BY <1>2, <1>3

\* What holds of the browser in every reachable state.
THEOREM ClientsInductive == ClientsSpec => []CInv
BY ClientsStart, ClientsNextStep, PTL DEF ClientsSpec

\* The server that the tabs talk to is the one of Sessions: every step of the
\* composition is one of its steps or leaves the tables and requests alone, so
\* that what was proved of it holds here.
THEOREM ClientsImplementSessions == ClientsSpec => Spec
<1>1. ClientsInit => Init
  BY DEF ClientsInit
<1>2. CInv /\ [ClientsNext]_clientVars => [Next]_vars
  BY ClientsStep DEF CInv, CRest
<1> QED BY <1>1, <1>2, ClientsInductive, PTL DEF ClientsSpec, Spec

\* Rotation alone never makes a refresh fail, for any number of tabs.
THEOREM RotationKeepsSignedIn == ClientsSpec => []KeptSignedIn
<1>1. CInv => KeptSignedIn
  BY DEF CInv, CRest, Kept, KeptSignedIn
<1> QED BY <1>1, ClientsInductive, PTL

\* After a logout nothing that was sent to the browser is live, but for what
\* crossed, was lost or was signed in again.
THEOREM LogoutEnds == ClientsSpec => []LogoutSticks
<1>1. CInv => LogoutSticks
  <2> SUFFICES ASSUME CInv, left = "yes", Calm PROVE jar = None /\ mine \cap Live = {}
    BY DEF LogoutSticks, Calm, CInv, CRest, Away
  <2>1. jar = None /\ \A r \in Requests : wire[r].ans = "none"
    BY DEF CInv, CRest, Away, Wires, WireStands, NoWire
  <2> QED BY <2>1, SessionsAssumption, TabsAssumption DEF CInv, CRest, Accounted, Live
<1> QED BY <1>1, ClientsInductive, PTL
=============================================================================
