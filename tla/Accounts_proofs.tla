--------------------------- MODULE Accounts_proofs ---------------------------
(***************************************************************************)
(* Account deletion for any number of users, deletions and requests.  The  *)
(* argument: a request's check holds until some other step makes it fail,  *)
(* and that step is noted in raced; so a write whose check no longer holds *)
(* is one of those that stale remembers, and every other write is as good  *)
(* as if it had been made at the check.                                    *)
(***************************************************************************)
EXTENDS Accounts, TLAPS, FiniteSetTheorems

\* A request that goes back to a row names the row's user; the row exists, and it
\* is past its grace period if the deletion is to be forced.
RowsFit ==
    \A r \in Requests : req[r].op \in {"cancel", "force"} =>
        /\ deletion[req[r].row] \in Rows
        /\ deletion[req[r].row].user = req[r].user
        /\ req[r].op = "force" => deletion[req[r].row].age # "grace"

\* Whatever speaks against a request by now has been noted.
RacesNoted == \A r \in Requests : Reasons(r) \subseteq raced[r]

\* Of two pending rows of a user, one was scheduled in a race.
OnePending ==
    "second" \notin stale =>
        \A d, e \in Deletions :
            Pending(d) /\ Pending(e) /\ deletion[d].user = deletion[e].user => d = e

\* A user whose deletion is cancelled schedules none.
KeptIdle ==
    \A r \in Requests : req[r].op = "schedule" => req[r].user \notin kept

\* Nothing of a kept user is pending or about to be forced.
KeptSafe ==
    stale \cap {"second", "ended"} = {} =>
        /\ \A d \in Deletions : Pending(d) => deletion[d].user \notin kept
        /\ \A r \in Requests : req[r].op = "force" => req[r].user \notin kept

IInv == TypeOK /\ RowsFit /\ RacesNoted /\ OnePending /\ KeptIdle /\ KeptSafe

-----------------------------------------------------------------------------
LEMMA RaceTyped ==
  ASSUME TypeOK, Race, req' \in [Requests -> Ops \cup {Idle}]
  PROVE  raced' \in [Requests -> SUBSET {"owner", "second", "ended"}]
<1>1. \A r \in Requests : Reasons(r)' \subseteq {"owner", "second", "ended"}
  BY DEF Reasons
<1> QED BY <1>1 DEF TypeOK, Race

LEMMA BeginTyped ==
  ASSUME TypeOK, NEW r \in Requests, NEW o \in Ops, Begin(r, o)
  PROVE  req' \in [Requests -> Ops \cup {Idle}] /\ stale' = stale
BY DEF TypeOK, Begin

LEMMA DoneTyped ==
  ASSUME TypeOK, NEW r \in Requests, Done(r)
  PROVE  /\ req' \in [Requests -> Ops \cup {Idle}]
         /\ stale' \subseteq {"owner", "second", "ended"}
BY DEF TypeOK, Done

LEMMA EraseTyped ==
  ASSUME TypeOK, NEW u, Erase(u)
  PROVE  /\ TeamTypeOK'
         /\ deletion' \in [Deletions -> Rows \cup {Unused}]
         /\ \A d \in Deletions : deletion'[d].status \in {"PENDING", "CANCELLED", "EXPIRED"}
                                    => deletion'[d].user \in accounts'
<1>1. TeamTypeOK'
  BY DEF TypeOK, TeamTypeOK, Erase
<1>2. \A d \in Deletions : deletion[d] \in Rows \cup {Unused} => deletion'[d] \in Rows \cup {Unused}
  <2> SUFFICES ASSUME NEW d \in Deletions, deletion[d] \in Rows \cup {Unused}
               PROVE  deletion'[d] \in Rows \cup {Unused}
    OBVIOUS
  <2>1. CASE deletion[d].user = u
    <3>1. deletion[d] \in Rows \/ deletion[d] = Unused
      OBVIOUS
    <3> QED BY <2>1, <3>1, TeamAssumption DEF TypeOK, TeamTypeOK, Erase, Rows, Unused
  <2>2. CASE deletion[d].user # u
    BY <2>2 DEF TypeOK, Erase
  <2> QED BY <2>1, <2>2
<1> QED BY <1>1, <1>2 DEF TypeOK, Erase, Rows, Unused

LEMMA StatusTyped ==
  ASSUME TypeOK, NEW d \in Deletions, NEW st \in {"CANCELLED", "EXPIRED"}, SetStatus(d, st)
  PROVE  /\ deletion' = [deletion EXCEPT ![d] = [deletion[d] EXCEPT !.status = st]]
         /\ deletion[d] \in Rows
         /\ deletion'[d] \in Rows
         /\ deletion' \in [Deletions -> Rows \cup {Unused}]
<1>1. deletion[d] \in Rows
  BY DEF SetStatus, TypeOK, Unused, Rows
<1>2. deletion' = [deletion EXCEPT ![d] = [deletion[d] EXCEPT !.status = st]]
  BY DEF SetStatus, TypeOK
<1>3. [deletion[d] EXCEPT !.status = st] \in Rows
  BY <1>1 DEF Rows
<1> QED BY <1>1, <1>2, <1>3 DEF TypeOK

LEMMA TeamTyped ==
  ASSUME TypeOK, TeamNext
  PROVE  TeamTypeOK' /\ accounts' = accounts
BY DEF TypeOK, TeamNext, TeamTypeOK, CanRemove, Remove, CanAdd, Add, CanSetRole, SetRole, Members

\* Every step keeps the types.
LEMMA TypeStep == TypeOK /\ [Next]_vars => TypeOK'
<1> SUFFICES ASSUME TypeOK, [Next]_vars PROVE TypeOK'
  OBVIOUS
<1> DEFINE ReqOK == req' \in [Requests -> Ops \cup {Idle}]
           RowsOK == \A d \in Deletions : deletion[d].status \in {"PENDING", "CANCELLED", "EXPIRED"}
                                            => deletion[d].user \in accounts
           Rest == /\ TeamTypeOK'
                   /\ deletion' \in [Deletions -> Rows \cup {Unused}]
                   /\ held' \subseteq Deletions
                   /\ stale' \subseteq {"owner", "second", "ended"}
                   /\ kept' \subseteq Users
                   /\ RowsOK'
           Goal == ReqOK /\ Rest
<1>1. CASE UNCHANGED vars
  BY <1>1 DEF vars, TypeOK, TeamTypeOK, Pending
<1>2. CASE Next
  <2> USE DEF TypeOK
  <2>1. ASSUME NEW r \in Requests, NEW u \in Users, DeleteCheck(r, u) PROVE Goal
    <3>1. [op |-> "delete", user |-> u, row |-> None] \in Ops
      BY DEF Ops
    <3> QED BY <2>1, <3>1, BeginTyped DEF DeleteCheck, TeamTypeOK
  <2>2. ASSUME NEW r \in Requests, NEW u \in Users, ScheduleCheck(r, u) PROVE Goal
    <3>1. [op |-> "schedule", user |-> u, row |-> None] \in Ops
      BY DEF Ops
    <3> QED BY <2>2, <3>1, BeginTyped DEF ScheduleCheck, TeamTypeOK
  <2>3. ASSUME NEW r \in Requests, NEW u \in Users, CancelCheck(r, u) PROVE Goal
    <3>1. PICK d \in PendingOf(u) : Begin(r, [op |-> "cancel", user |-> u, row |-> d])
      BY <2>3 DEF CancelCheck
    <3>2. [op |-> "cancel", user |-> u, row |-> d] \in Ops
      BY DEF Ops, PendingOf
    <3> QED BY <2>3, <3>1, <3>2, BeginTyped DEF CancelCheck, TeamTypeOK
  <2>4. ASSUME NEW r \in Requests, NEW u \in Users, ForceCheck(r, u) PROVE Goal
    <3>1. PICK d \in PendingOf(u) : Begin(r, [op |-> "force", user |-> u, row |-> d])
      BY <2>4 DEF ForceCheck
    <3>2. [op |-> "force", user |-> u, row |-> d] \in Ops
      BY DEF Ops, PendingOf
    <3> QED BY <2>4, <3>1, <3>2, BeginTyped DEF ForceCheck, TeamTypeOK
  <2>5. ASSUME NEW r \in Requests, DeleteAccount(r) PROVE Goal
    BY <2>5, DoneTyped, EraseTyped DEF DeleteAccount
  <2>6. ASSUME NEW r \in Requests, CancelScheduledDeletion(r) PROVE Goal
    <3>1. req[r].row \in Deletions /\ req[r].user \in Users
      BY <2>6 DEF CancelScheduledDeletion, Ops, Idle
    <3>2. RowsOK'
      BY <2>6, <3>1, StatusTyped DEF CancelScheduledDeletion, SetStatus, Rows
    <3> QED BY <2>6, <3>1, <3>2, StatusTyped, DoneTyped DEF CancelScheduledDeletion, TeamTypeOK
  <2>7. ASSUME NEW r \in Requests, ForceDeleteAccount(r) PROVE Goal
    BY <2>7, DoneTyped, EraseTyped DEF ForceDeleteAccount
  <2>8. ASSUME NEW r \in Requests, NEW d \in Deletions, ScheduleDeletion(r, d) PROVE Goal
    <3>1. req[r].user \in Users
      BY <2>8 DEF ScheduleDeletion, TeamTypeOK
    <3>2. [user |-> req[r].user, status |-> "PENDING", age |-> "grace"] \in Rows
      BY <3>1 DEF Rows
    <3> QED BY <2>8, <3>2, DoneTyped DEF ScheduleDeletion, TeamTypeOK
  <2>9. ASSUME NEW r \in Requests, Fail(r) PROVE Goal
    BY <2>9 DEF Fail, TeamTypeOK
  <2>10. ASSUME FindOverdue PROVE Goal
    BY <2>10 DEF FindOverdue, TeamTypeOK
  <2>11. ASSUME JobFails PROVE Goal
    BY <2>11 DEF JobFails, TeamTypeOK
  <2>12. ASSUME NEW d \in Deletions, ComesOfAge(d) PROVE Goal
    <3>1. deletion[d] \in Rows
      BY <2>12 DEF ComesOfAge, Pending, Unused
    <3>2. PICK a \in {"elapsed", "overdue"} :
             deletion' = [deletion EXCEPT ![d] = [deletion[d] EXCEPT !.age = a]]
      BY <2>12 DEF ComesOfAge
    <3>3. [deletion[d] EXCEPT !.age = a] \in Rows
      BY <3>1 DEF Rows
    <3>4. RowsOK'
      BY <2>12, <3>1, <3>2 DEF ComesOfAge, Rows
    <3> QED BY <2>12, <3>2, <3>3, <3>4 DEF ComesOfAge, TeamTypeOK
  <2>13. ASSUME NEW d \in Deletions, Expire(d) PROVE Goal
    <3>1. CASE SetStatus(d, "EXPIRED")
      <4>1. RowsOK'
        BY <2>13, <3>1, StatusTyped DEF Expire, SetStatus, Rows
      <4> QED BY <2>13, <3>1, <4>1, StatusTyped DEF Expire, TeamTypeOK
    <3>2. CASE UNCHANGED deletion
      BY <2>13, <3>2 DEF Expire, TeamTypeOK
    <3> QED BY <2>13, <3>1, <3>2 DEF Expire
  <2>14. ASSUME TeamNext PROVE Goal
    BY <2>14, TeamTyped DEF TeamNext
  <2>15. Goal
    <3> HIDE DEF Goal
    <3> QED BY <1>2, <2>1, <2>2, <2>3, <2>4, <2>5, <2>6, <2>7, <2>8, <2>9, <2>10, <2>11,
               <2>12, <2>13, <2>14 DEF Next, RequestNext, JobNext
  <2>16. Race
    BY <1>2 DEF Next
  <2> QED BY <2>15, <2>16, RaceTyped
<1> QED BY <1>1, <1>2

-----------------------------------------------------------------------------
\* The five ways in which the rows change.
LEMMA RowsStep ==
  ASSUME TypeOK, Next
  PROVE  \/ UNCHANGED deletion
         \/ \E u \in Users : Erase(u)
         \/ \E d \in Deletions, st \in {"CANCELLED", "EXPIRED"} : SetStatus(d, st)
         \/ \E r \in Requests, d \in Deletions : ScheduleDeletion(r, d)
         \/ \E d \in Deletions : ComesOfAge(d)
<1> DEFINE Goal == \/ UNCHANGED deletion
                   \/ \E u \in Users : Erase(u)
                   \/ \E d \in Deletions, st \in {"CANCELLED", "EXPIRED"} : SetStatus(d, st)
                   \/ \E r \in Requests, d \in Deletions : ScheduleDeletion(r, d)
                   \/ \E d \in Deletions : ComesOfAge(d)
<1>1. CASE RequestNext
  <2>1. ASSUME NEW r \in Requests, NEW u \in Users,
               DeleteCheck(r, u) \/ ScheduleCheck(r, u) \/ CancelCheck(r, u) \/ ForceCheck(r, u)
        PROVE  Goal
    BY <2>1 DEF DeleteCheck, ScheduleCheck, CancelCheck, ForceCheck
  <2>2. ASSUME NEW r \in Requests, DeleteAccount(r) \/ ForceDeleteAccount(r) PROVE Goal
    <3>1. req[r].user \in Users
      BY <2>2 DEF TypeOK, Ops, Idle, DeleteAccount, ForceDeleteAccount
    <3> QED BY <2>2, <3>1 DEF DeleteAccount, ForceDeleteAccount
  <2>3. ASSUME NEW r \in Requests, CancelScheduledDeletion(r) PROVE Goal
    <3>1. req[r].row \in Deletions
      BY <2>3 DEF TypeOK, Ops, Idle, CancelScheduledDeletion
    <3> QED BY <2>3, <3>1 DEF CancelScheduledDeletion
  <2>4. ASSUME NEW r \in Requests, NEW d \in Deletions, ScheduleDeletion(r, d) PROVE Goal
    BY <2>4
  <2>5. ASSUME NEW r \in Requests, Fail(r) PROVE Goal
    BY <2>5 DEF Fail
  <2> HIDE DEF Goal
  <2>6. Goal
    BY <1>1, <2>1, <2>2, <2>3, <2>4, <2>5 DEF RequestNext
  <2> QED BY <2>6 DEF Goal
<1>2. CASE JobNext
  <2>1. ASSUME NEW d \in Deletions, Expire(d) PROVE Goal
    BY <2>1 DEF Expire
  <2> QED BY <1>2, <2>1 DEF JobNext, FindOverdue, JobFails
<1>3. CASE TeamNext
  BY <1>3 DEF TeamNext
<1> QED BY <1>1, <1>2, <1>3 DEF Next

\* A row stays its user's row, and does not grow younger.
LEMMA RowsStay ==
  ASSUME TypeOK, Next
  PROVE  \A d \in Deletions : deletion[d] \in Rows =>
            /\ deletion'[d].user = deletion[d].user
            /\ deletion[d].age # "grace" => deletion'[d].age # "grace"
<1> DEFINE Goal == \A d \in Deletions : deletion[d] \in Rows =>
                      /\ deletion'[d].user = deletion[d].user
                      /\ deletion[d].age # "grace" => deletion'[d].age # "grace"
<1> USE DEF TypeOK
<1>1. ASSUME NEW u, Erase(u) PROVE Goal
  <2> SUFFICES ASSUME NEW d \in Deletions, deletion[d] \in Rows
               PROVE  /\ deletion'[d].user = deletion[d].user
                      /\ deletion[d].age # "grace" => deletion'[d].age # "grace"
    OBVIOUS
  <2>1. deletion'[d] = IF deletion[d].user = u THEN [deletion[d] EXCEPT !.status = "deleted"]
                                               ELSE deletion[d]
    BY <1>1 DEF Erase
  <2> QED BY <2>1 DEF Rows
<1>2. ASSUME NEW d \in Deletions, NEW st \in {"CANCELLED", "EXPIRED"}, SetStatus(d, st) PROVE Goal
  <2>1. deletion' = [deletion EXCEPT ![d] = [deletion[d] EXCEPT !.status = st]]
    BY <1>2 DEF SetStatus
  <2> QED BY <2>1 DEF Rows
<1>3. ASSUME NEW r \in Requests, NEW d \in Deletions, ScheduleDeletion(r, d) PROVE Goal
  BY <1>3 DEF ScheduleDeletion, Rows, Unused
<1>4. ASSUME NEW d \in Deletions, ComesOfAge(d) PROVE Goal
  <2>1. PICK a \in {"elapsed", "overdue"} :
           deletion' = [deletion EXCEPT ![d] = [deletion[d] EXCEPT !.age = a]]
    BY <1>4 DEF ComesOfAge
  <2> QED BY <2>1 DEF Rows
<1>5. ASSUME UNCHANGED deletion PROVE Goal
  BY <1>5
<1> HIDE DEF Goal
<1>6. Goal
  BY <1>1, <1>2, <1>3, <1>4, <1>5, RowsStep
<1> QED BY <1>6 DEF Goal

\* What is pending was pending, or is scheduled by this very step.
LEMMA PendingStep ==
  ASSUME TypeOK, Next
  PROVE  \A d \in Deletions :
            Pending(d)' => \/ Pending(d) /\ deletion'[d].user = deletion[d].user
                           \/ \E r \in Requests : ScheduleDeletion(r, d)
<1> DEFINE Goal == \A d \in Deletions :
                      Pending(d)' => \/ Pending(d) /\ deletion'[d].user = deletion[d].user
                                     \/ \E r \in Requests : ScheduleDeletion(r, d)
<1> USE DEF TypeOK, Pending
<1>1. ASSUME NEW u, Erase(u) PROVE Goal
  <2> SUFFICES ASSUME NEW d \in Deletions, Pending(d)'
               PROVE  Pending(d) /\ deletion'[d].user = deletion[d].user
    OBVIOUS
  <2>1. deletion'[d] = IF deletion[d].user = u THEN [deletion[d] EXCEPT !.status = "deleted"]
                                               ELSE deletion[d]
    BY <1>1 DEF Erase
  <2>2. "status" \in DOMAIN deletion[d]
    BY DEF Rows, Unused
  <2> QED BY <2>1, <2>2
<1>2. ASSUME NEW d \in Deletions, NEW st \in {"CANCELLED", "EXPIRED"}, SetStatus(d, st) PROVE Goal
  BY <1>2, StatusTyped DEF Rows
<1>3. ASSUME NEW r \in Requests, NEW d \in Deletions, ScheduleDeletion(r, d) PROVE Goal
  <2>1. \A e \in Deletions : e # d => deletion'[e] = deletion[e]
    BY <1>3 DEF ScheduleDeletion
  <2> QED BY <1>3, <2>1
<1>4. ASSUME NEW d \in Deletions, ComesOfAge(d) PROVE Goal
  <2>1. PICK a \in {"elapsed", "overdue"} :
           deletion' = [deletion EXCEPT ![d] = [deletion[d] EXCEPT !.age = a]]
    BY <1>4 DEF ComesOfAge
  <2> QED BY <1>4, <2>1 DEF Rows, Unused, ComesOfAge
<1>5. ASSUME UNCHANGED deletion PROVE Goal
  BY <1>5
<1> HIDE DEF Goal
<1>6. Goal
  BY <1>1, <1>2, <1>3, <1>4, <1>5, RowsStep
<1> QED BY <1>6 DEF Goal

\* A request that is under way was begun by one of the four checks, or was there.
LEMMA RequestStep ==
  ASSUME TypeOK, Next, NEW r \in Requests
  PROVE  \/ req'[r] = req[r]
         \/ req'[r] = Idle
         \/ \E u \in Users : DeleteCheck(r, u) \/ ScheduleCheck(r, u)
                                \/ CancelCheck(r, u) \/ ForceCheck(r, u)
<1> DEFINE Checks(q) == \E u \in Users : DeleteCheck(q, u) \/ ScheduleCheck(q, u)
                                            \/ CancelCheck(q, u) \/ ForceCheck(q, u)
           Goal == req'[r] = req[r] \/ req'[r] = Idle \/ Checks(r)
<1>1. ASSUME NEW q \in Requests, Checks(q) PROVE Goal
  <2>1. PICK o : req' = [req EXCEPT ![q] = o]
    BY <1>1 DEF DeleteCheck, ScheduleCheck, CancelCheck, ForceCheck, Begin
  <2>2. CASE q = r
    BY <1>1, <2>2
  <2>3. CASE q # r
    BY <2>1, <2>3 DEF TypeOK
  <2> QED BY <2>2, <2>3
<1>2. ASSUME NEW q \in Requests, req' = [req EXCEPT ![q] = Idle] PROVE Goal
  BY <1>2 DEF TypeOK
<1>3. ASSUME UNCHANGED req PROVE Goal
  BY <1>3
<1> HIDE DEF Goal
<1>4. CASE RequestNext
  <2>1. PICK q \in Requests :
           \/ Checks(q)
           \/ DeleteAccount(q) \/ CancelScheduledDeletion(q) \/ ForceDeleteAccount(q)
           \/ \E d \in Deletions : ScheduleDeletion(q, d)
           \/ Fail(q)
    BY <1>4 DEF RequestNext
  <2>2. Checks(q) \/ req' = [req EXCEPT ![q] = Idle]
    <3> HIDE DEF Checks
    <3> QED BY <2>1 DEF DeleteAccount, CancelScheduledDeletion, ForceDeleteAccount, ScheduleDeletion, Fail,
           Done
  <2>3. Goal
    <3> HIDE DEF Checks
    <3> QED BY <2>2, <1>1, <1>2
  <2> QED BY <2>3 DEF Goal
<1>5. CASE JobNext
  BY <1>5, <1>3 DEF JobNext, FindOverdue, JobFails, ComesOfAge, Expire
<1>6. CASE TeamNext
  BY <1>6, <1>3 DEF TeamNext
<1> QED BY <1>4, <1>5, <1>6 DEF Next, Goal

-----------------------------------------------------------------------------
LEMMA RacesStep == TypeOK /\ RacesNoted /\ [Next]_vars => RacesNoted'
<1> SUFFICES ASSUME TypeOK, RacesNoted, [Next]_vars, NEW r \in Requests
             PROVE  Reasons(r)' \subseteq raced'[r]
  BY DEF RacesNoted
<1>1. CASE UNCHANGED vars
  <2>1. Reasons(r)' = Reasons(r)
    BY <1>1 DEF vars, Reasons, LastOwner, PendingOf, Pending
  <2> QED BY <1>1, <2>1 DEF RacesNoted, vars
<1>2. CASE Next /\ req'[r] = Idle
  BY <1>2 DEF Reasons, Idle
<1>3. CASE Next /\ req[r] # Idle /\ req'[r] # Idle
  <2>1. Idle \notin {req[r], req'[r]}
    BY <1>3
  <2>2. raced'[r] = raced[r] \cup (Reasons(r)' \ Reasons(r))
    BY <1>3, <2>1 DEF Next, Race
  <2> QED BY <2>2 DEF RacesNoted
<1>4. CASE Next /\ req[r] = Idle /\ req'[r] # Idle
  <2>1. PICK u \in Users : DeleteCheck(r, u) \/ ScheduleCheck(r, u)
                              \/ CancelCheck(r, u) \/ ForceCheck(r, u)
    BY <1>4, RequestStep
  <2>2. UNCHANGED <<role, deletion>>
    BY <2>1 DEF DeleteCheck, ScheduleCheck, CancelCheck, ForceCheck
  <2>3. CASE DeleteCheck(r, u)
    <3>1. req'[r] = [op |-> "delete", user |-> u, row |-> None]
      BY <2>3 DEF DeleteCheck, Begin, TypeOK
    <3> QED BY <2>2, <2>3, <3>1 DEF DeleteCheck, Reasons, LastOwner
  <2>4. CASE ScheduleCheck(r, u)
    <3>1. req'[r] = [op |-> "schedule", user |-> u, row |-> None]
      BY <2>4 DEF ScheduleCheck, Begin, TypeOK
    <3> QED BY <2>2, <2>4, <3>1 DEF ScheduleCheck, Reasons, PendingOf, Pending
  <2>5. CASE CancelCheck(r, u) \/ ForceCheck(r, u)
    <3>1. PICK d \in PendingOf(u), op \in {"cancel", "force"} :
             Begin(r, [op |-> op, user |-> u, row |-> d])
      BY <2>5 DEF CancelCheck, ForceCheck
    <3>2. req'[r] = [op |-> op, user |-> u, row |-> d]
      BY <3>1 DEF Begin, TypeOK
    <3> QED BY <2>2, <3>1, <3>2 DEF Reasons, PendingOf, Pending
  <2> QED BY <2>1, <2>3, <2>4, <2>5
<1> QED BY <1>1, <1>2, <1>3, <1>4

LEMMA FitStep == TypeOK /\ RowsFit /\ [Next]_vars => RowsFit'
<1> SUFFICES ASSUME TypeOK, TypeOK', RowsFit, [Next]_vars,
                    NEW r \in Requests, req'[r].op \in {"cancel", "force"}
             PROVE  /\ deletion'[req'[r].row] \in Rows
                    /\ deletion'[req'[r].row].user = req'[r].user
                    /\ req'[r].op = "force" => deletion'[req'[r].row].age # "grace"
  BY TypeStep DEF RowsFit
<1>1. CASE UNCHANGED vars
  BY <1>1 DEF vars, RowsFit
<1>2. CASE Next
  <2>1. req'[r] \in Ops /\ req'[r].row \in Deletions /\ req'[r].user \in Users
    BY DEF TypeOK, Ops, Idle
  <2>2. SUFFICES /\ deletion[req'[r].row] \in Rows
                 /\ deletion[req'[r].row].user = req'[r].user
                 /\ req'[r].op = "force" => deletion[req'[r].row].age # "grace"
    <3>1. deletion'[req'[r].row].user = req'[r].user
      BY <1>2, <2>1, <2>2, RowsStay
    <3>2. deletion'[req'[r].row] \in Rows
      BY <2>1, <3>1, TeamAssumption DEF TypeOK, Unused
    <3> QED BY <1>2, <2>1, <2>2, <3>1, <3>2, RowsStay
  <2>3. CASE req'[r] = req[r]
    BY <2>3 DEF RowsFit
  <2>4. CASE req'[r] # req[r]
    <3>1. req'[r] # Idle
      BY DEF Idle
    <3>2. PICK u \in Users : DeleteCheck(r, u) \/ ScheduleCheck(r, u)
                                \/ CancelCheck(r, u) \/ ForceCheck(r, u)
      BY <1>2, <2>4, <3>1, RequestStep
    <3>3. ~DeleteCheck(r, u) /\ ~ScheduleCheck(r, u)
      BY DEF DeleteCheck, ScheduleCheck, Begin, TypeOK
    <3>4. CASE CancelCheck(r, u)
      <4>1. PICK d \in PendingOf(u) : Begin(r, [op |-> "cancel", user |-> u, row |-> d])
        BY <3>4 DEF CancelCheck
      <4>2. req'[r] = [op |-> "cancel", user |-> u, row |-> d]
        BY <4>1 DEF Begin, TypeOK
      <4> QED BY <4>2 DEF PendingOf, Pending, TypeOK, Unused
    <3>5. CASE ForceCheck(r, u)
      <4>1. PICK d \in PendingOf(u) : /\ deletion[d].age # "grace"
                                      /\ Begin(r, [op |-> "force", user |-> u, row |-> d])
        BY <3>5 DEF ForceCheck
      <4>2. req'[r] = [op |-> "force", user |-> u, row |-> d]
        BY <4>1 DEF Begin, TypeOK
      <4> QED BY <4>1, <4>2 DEF PendingOf, Pending, TypeOK, Unused
    <3> QED BY <3>2, <3>3, <3>4, <3>5
  <2> QED BY <2>3, <2>4
<1> QED BY <1>1, <1>2

\* A reason that was noted is remembered when the request writes.
LEMMA StaleStep ==
  ASSUME Next
  PROVE  stale \subseteq stale'
BY DEF Next, RequestNext, JobNext, TeamNext, Done, Begin, DeleteCheck, ScheduleCheck, CancelCheck,
       ForceCheck, DeleteAccount, CancelScheduledDeletion, ForceDeleteAccount, ScheduleDeletion,
       Fail, FindOverdue, JobFails, ComesOfAge, Expire

LEMMA OnePendingStep == TypeOK /\ RacesNoted /\ OnePending /\ [Next]_vars => OnePending'
<1> SUFFICES ASSUME TypeOK, RacesNoted, OnePending, [Next]_vars, "second" \notin stale',
                    NEW d \in Deletions, NEW e \in Deletions, d # e,
                    Pending(d)', Pending(e)', deletion'[d].user = deletion'[e].user
             PROVE  FALSE
  BY DEF OnePending
<1>1. CASE UNCHANGED vars
  BY <1>1 DEF vars, OnePending, Pending
<1>2. CASE Next
  <2>1. ASSUME NEW f \in Deletions, NEW g \in Deletions, f # g, Pending(g)',
               deletion'[f].user = deletion'[g].user,
               NEW r \in Requests, ScheduleDeletion(r, f)
        PROVE  FALSE
    <3>1. /\ deletion' = [deletion EXCEPT
                ![f] = [user |-> req[r].user, status |-> "PENDING", age |-> "grace"]]
          /\ req[r].op = "schedule"
          /\ raced[r] \subseteq stale'
      BY <2>1 DEF ScheduleDeletion, Done
    <3>2. deletion'[f].user = req[r].user /\ deletion'[g] = deletion[g]
      BY <2>1, <3>1 DEF TypeOK
    <3>3. g \in PendingOf(req[r].user)
      BY <2>1, <3>2 DEF PendingOf, Pending
    <3>4. "second" \in Reasons(r)
      BY <3>1, <3>3 DEF Reasons
    <3> QED BY <3>1, <3>4 DEF RacesNoted
  <2>2. Pending(d) /\ deletion'[d].user = deletion[d].user
    BY <1>2, <2>1, PendingStep
  <2>3. Pending(e) /\ deletion'[e].user = deletion[e].user
    BY <1>2, <2>1, PendingStep
  <2> QED BY <1>2, <2>2, <2>3, StaleStep DEF OnePending
<1> QED BY <1>1, <1>2

\* Only a cancellation that nothing of the user's overlaps makes a user kept.
LEMMA KeptGrows ==
  ASSUME Next
  PROVE  \/ kept' \subseteq kept
         \/ \E r \in Requests : /\ CancelScheduledDeletion(r) /\ ~Overlapped(r)
                                /\ kept' = kept \cup {req[r].user}
BY DEF Next, RequestNext, JobNext, TeamNext, DeleteCheck, ScheduleCheck, CancelCheck, ForceCheck,
       DeleteAccount, CancelScheduledDeletion, ForceDeleteAccount, ScheduleDeletion, Fail,
       FindOverdue, JobFails, ComesOfAge, Expire

LEMMA KeptIdleStep == TypeOK /\ KeptIdle /\ [Next]_vars => KeptIdle'
<1> SUFFICES ASSUME TypeOK, KeptIdle, [Next]_vars,
                    NEW r \in Requests, req'[r].op = "schedule", req'[r].user \in kept'
             PROVE  FALSE
  BY DEF KeptIdle
<1>1. CASE UNCHANGED vars
  BY <1>1 DEF vars, KeptIdle
<1>2. CASE Next
  <2>1. CASE req'[r] = req[r]
    <3>1. PICK q \in Requests : /\ CancelScheduledDeletion(q) /\ ~Overlapped(q)
                                /\ kept' = kept \cup {req[q].user}
      BY <1>2, <2>1, KeptGrows DEF KeptIdle
    <3>2. req[q].user = req[r].user
      BY <2>1, <3>1 DEF KeptIdle
    <3>3. q # r
      BY <2>1, <3>1 DEF CancelScheduledDeletion
    <3> QED BY <2>1, <3>1, <3>2, <3>3 DEF Overlapped
  <2>2. CASE req'[r] # req[r]
    <3>1. req'[r] # Idle
      BY DEF Idle
    <3>2. PICK u \in Users : DeleteCheck(r, u) \/ ScheduleCheck(r, u)
                                \/ CancelCheck(r, u) \/ ForceCheck(r, u)
      BY <1>2, <2>2, <3>1, RequestStep
    <3>3. ~DeleteCheck(r, u) /\ ~CancelCheck(r, u) /\ ~ForceCheck(r, u)
      BY DEF DeleteCheck, CancelCheck, ForceCheck, Begin, TypeOK
    <3>4. ScheduleCheck(r, u)
      BY <3>2, <3>3
    <3>5. req'[r].user = u /\ kept' = kept \ {u}
      BY <3>4 DEF ScheduleCheck, Begin, TypeOK
    <3> QED BY <3>5
  <2> QED BY <2>1, <2>2
<1> QED BY <1>1, <1>2

LEMMA KeptSafeStep == IInv /\ [Next]_vars => KeptSafe'
<1> SUFFICES ASSUME IInv, [Next]_vars, stale' \cap {"second", "ended"} = {}
             PROVE  /\ \A d \in Deletions : Pending(d)' => deletion'[d].user \notin kept'
                    /\ \A r \in Requests : req'[r].op = "force" => req'[r].user \notin kept'
  BY DEF KeptSafe
<1>1. CASE UNCHANGED vars
  BY <1>1 DEF vars, IInv, KeptSafe, Pending
<1>2. CASE Next
  <2>1. stale \cap {"second", "ended"} = {}
    BY <1>2, StaleStep
  <2>2. TypeOK
    BY DEF IInv
  <2>3. ASSUME NEW d \in Deletions, Pending(d)', deletion'[d].user \in kept' PROVE FALSE
    <3>1. CASE Pending(d) /\ deletion'[d].user = deletion[d].user
      <4>1. deletion[d].user \notin kept
        BY <2>1, <3>1 DEF IInv, KeptSafe
      <4>2. PICK q \in Requests : /\ CancelScheduledDeletion(q)
                                  /\ kept' = kept \cup {req[q].user}
        BY <1>2, <2>3, <3>1, <4>1, KeptGrows
      <4>3. req[q].row \in Deletions /\ req[q].user = deletion[d].user
        BY <2>2, <2>3, <3>1, <4>1, <4>2 DEF CancelScheduledDeletion, TypeOK, Ops, Idle
      <4>4. raced[q] \subseteq stale' /\ SetStatus(req[q].row, "CANCELLED")
        BY <4>2 DEF CancelScheduledDeletion, Done
      <4>5. Pending(req[q].row)
        BY <4>2, <4>4 DEF IInv, RacesNoted, Reasons, CancelScheduledDeletion
      <4>6. deletion[req[q].row].user = req[q].user
        BY <4>2 DEF IInv, RowsFit, CancelScheduledDeletion
      <4>7. req[q].row = d
        BY <2>1, <3>1, <4>3, <4>5, <4>6 DEF IInv, OnePending
      <4>8. deletion'[d].status = "CANCELLED"
        BY <2>2, <4>3, <4>4, <4>7, StatusTyped DEF Rows, TypeOK
      <4> QED BY <2>3, <4>8 DEF Pending
    <3>2. ASSUME NEW r \in Requests, ScheduleDeletion(r, d) PROVE FALSE
      <4>1. req[r].op = "schedule" /\ deletion'[d].user = req[r].user /\ kept' = kept
        BY <2>2, <3>2 DEF ScheduleDeletion, TypeOK
      <4> QED BY <2>3, <4>1 DEF IInv, KeptIdle
    <3> QED BY <1>2, <2>2, <2>3, <3>1, <3>2, PendingStep
  <2>4. ASSUME NEW r \in Requests, req'[r].op = "force", req'[r].user \in kept' PROVE FALSE
    <3>1. CASE req'[r] = req[r]
      <4>1. req[r].user \notin kept
        BY <2>1, <2>4, <3>1 DEF IInv, KeptSafe
      <4>2. PICK q \in Requests : /\ CancelScheduledDeletion(q) /\ ~Overlapped(q)
                                  /\ kept' = kept \cup {req[q].user}
        BY <1>2, <2>4, <3>1, <4>1, KeptGrows
      <4>3. q # r
        BY <2>4, <3>1, <4>2 DEF CancelScheduledDeletion
      <4> QED BY <2>4, <3>1, <4>1, <4>2, <4>3 DEF Overlapped
    <3>2. CASE req'[r] # req[r]
      <4>1. req'[r] # Idle
        BY <2>4 DEF Idle
      <4>2. PICK u \in Users : DeleteCheck(r, u) \/ ScheduleCheck(r, u)
                                  \/ CancelCheck(r, u) \/ ForceCheck(r, u)
        BY <1>2, <2>2, <3>2, <4>1, RequestStep
      <4>3. ~DeleteCheck(r, u) /\ ~CancelCheck(r, u) /\ ~ScheduleCheck(r, u)
        BY <2>2, <2>4 DEF DeleteCheck, CancelCheck, ScheduleCheck, Begin, TypeOK
      <4>4. PICK d \in PendingOf(u) : /\ Begin(r, [op |-> "force", user |-> u, row |-> d])
                                      /\ kept' = kept
        BY <4>2, <4>3 DEF ForceCheck
      <4>5. req'[r].user = u
        BY <2>2, <4>4 DEF Begin, TypeOK
      <4> QED BY <2>1, <2>4, <4>4, <4>5 DEF IInv, KeptSafe, PendingOf
    <3> QED BY <3>1, <3>2
  <2> QED BY <2>3, <2>4
<1> QED BY <1>1, <1>2

-----------------------------------------------------------------------------
LEMMA InitInv == Init => IInv
<1> SUFFICES ASSUME Init PROVE IInv
  OBVIOUS
<1>1. TypeOK
  BY TeamAssumption DEF Init, TeamInit, TypeOK, TeamTypeOK, UserRole, Unused, Idle, Rows
<1>2. RowsFit /\ RacesNoted /\ OnePending /\ KeptIdle /\ KeptSafe
  BY DEF Init, RowsFit, RacesNoted, OnePending, KeptIdle, KeptSafe, Reasons, Idle, Pending, Unused
<1> QED BY <1>1, <1>2 DEF IInv

\* The strengthened invariant holds in every reachable state.
THEOREM Inductive == Spec => []IInv
<1>1. IInv /\ [Next]_vars => IInv'
  BY TypeStep, FitStep, RacesStep, OnePendingStep, KeptIdleStep, KeptSafeStep DEF IInv
<1> QED BY <1>1, InitInv, PTL DEF Spec

\* Rows, requests and roles keep their types, and no row that can still be written
\* belongs to an account that is gone.
THEOREM TypeCorrect == Spec => []TypeOK
<1>1. IInv => TypeOK
  BY DEF IInv
<1> QED BY <1>1, Inductive, PTL

\* At most one pending deletion a user, but for two schedules that met.
THEOREM OnePendingHolds == Spec => []OnePendingUnlessRaced
<1>1. IInv => OnePendingUnlessRaced
  <2> SUFFICES ASSUME IInv, "second" \notin stale, NEW u \in Users
               PROVE  Cardinality(PendingOf(u)) <= 1
    BY DEF OnePendingUnlessRaced
  <2>1. CASE PendingOf(u) = {}
    BY <2>1, FS_EmptySet
  <2>2. CASE PendingOf(u) # {}
    <3>1. PICK d : d \in PendingOf(u)
      BY <2>2
    <3>2. PendingOf(u) = {d}
      BY <3>1 DEF IInv, OnePending, PendingOf
    <3>3. Cardinality({d}) = 1
      BY FS_Singleton
    <3> QED BY <3>2, <3>3
  <2> QED BY <2>1, <2>2
<1> QED BY <1>1, Inductive, PTL

\* After a cancellation the account is safe from the job and from force.
THEOREM CancelledIsKeptHolds == Spec => []CancelledIsKept
<1>1. IInv => CancelledIsKept
  BY DEF IInv, KeptSafe, CancelledIsKept, PendingOf
<1> QED BY <1>1, Inductive, PTL

\* The last Product Owner's account goes only after a grace period.
THEOREM LastOwnerGoesLateHolds == Spec => LastOwnerGoesLate
<1> DEFINE Late == \A u \in accounts \ accounts' :
                      LastOwner(u) => \/ "owner" \in stale'
                                      \/ \E d \in Deletions :
                                            deletion[d].user = u /\ deletion[d].age # "grace"
<1>1. IInv /\ [Next]_vars => [Late]_vars
  <2> SUFFICES ASSUME IInv, Next, NEW u \in accounts \ accounts', LastOwner(u),
                      "owner" \notin stale'
               PROVE  \E d \in Deletions : deletion[d].user = u /\ deletion[d].age # "grace"
    OBVIOUS
  <2>1. PICK r \in Requests : DeleteAccount(r) \/ ForceDeleteAccount(r)
    BY DEF Next, RequestNext, JobNext, TeamNext, DeleteCheck, ScheduleCheck, CancelCheck, ForceCheck,
           CancelScheduledDeletion, ScheduleDeletion, Fail, FindOverdue, JobFails, ComesOfAge,
           Expire, Remove, Add, SetRole
  <2>2. u = req[r].user /\ raced[r] \subseteq stale'
    BY <2>1 DEF DeleteAccount, ForceDeleteAccount, Erase, Done
  <2>3. CASE DeleteAccount(r)
    BY <2>2, <2>3 DEF DeleteAccount, IInv, RacesNoted, Reasons
  <2>4. CASE ForceDeleteAccount(r)
    <3>1. req[r].op = "force" /\ req[r].row \in Deletions
      BY <2>4 DEF ForceDeleteAccount, IInv, TypeOK, Ops, Idle
    <3> QED BY <2>2, <3>1 DEF IInv, RowsFit
  <2> QED BY <2>1, <2>3, <2>4
<1> QED BY <1>1, Inductive, PTL DEF Spec, LastOwnerGoesLate
=============================================================================
