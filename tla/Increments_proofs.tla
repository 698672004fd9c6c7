--------------------------- MODULE Increments_proofs ---------------------------
(***************************************************************************)
(* Increments keep their promises for any number of Increments, Sprints,   *)
(* items and overlapping requests.                                         *)
(***************************************************************************)
EXTENDS Increments, TLAPS

\* A composition that found no Increment and is about to create one.
Lacks(w) == In(w, "write") /\ req[w].inc = None

\* What a request in each phase carries.
Carries(r) ==
    /\ r.phase \notin {"idle", "compose", "write"} => r.inc \in Incs
    /\ r.inc = None /\ r.phase \in {"compose", "write"} => r.sprint \in Sprints

Typed == TypeOK /\ \A w \in Workers : Carries(req[w])

\* As long as nothing is strained, one open Increment of a Sprint was composed, and a
\* composition that found none is alone and right about it.
Gathered ==
    ~strained =>
       /\ \A i, j \in composed :
             sprint[i] = sprint[j] /\ {status[i], status[j]} \subseteq OpenStatuses => i = j
       /\ \A w \in Workers : Lacks(w) =>
             /\ \A i \in composed : sprint[i] = req[w].sprint => status[i] \notin OpenStatuses
             /\ \A v \in Workers : Lacks(v) /\ req[v].sprint = req[w].sprint => v = w

\* No Increment holds an item that was deleted.
Rooted == members \cap (Incs \X deleted) = {}

Inv == Typed /\ Gathered /\ Rooted /\ \A i \in composed : Exists(i)

-----------------------------------------------------------------------------
\* Nothing exists and nothing is in flight at first.
LEMMA InitInv == Init => Inv
<1> SUFFICES ASSUME Init PROVE Inv
  OBVIOUS
<1>1. Idle \in Request /\ Carries(Idle) /\ Idle.phase = "idle" /\ Idle.inc = None
  BY DEF Idle, Request, Phases, IncrementStatuses, Carries, Absent
<1> QED
  BY <1>1 DEF Init, Inv, Typed, TypeOK, Gathered, Rooted, Lacks, In

\* A worker's request goes from one well-shaped record to another.
LEMMA ReqTyped ==
  ASSUME Typed, NEW w \in Workers, NEW r \in Request, Carries(r),
         req' = [req EXCEPT ![w] = r]
  PROVE  /\ req' \in [Workers -> Request]
         /\ \A v \in Workers : Carries(req'[v])
BY DEF Typed, TypeOK

\* An answered request is well shaped.
LEMMA IdleTyped == Idle \in Request /\ Carries(Idle)
BY DEF Idle, Request, Phases, IncrementStatuses, Carries, Absent

\* The types survive a request's arrival.
LEMMA ArriveTyped == ASSUME Inv, NEW w \in Workers, Arrive(w) PROVE Typed'
<1> USE DEF Idle, Request, Phases, IncrementStatuses, Absent, Carries
<1>0. Typed /\ TypeOK /\ req[w] \in Request
  BY DEF Inv, Typed, TypeOK
<1>1. ASSUME NEW r \in Request, Carries(r), Begin(w, r), r.inc # None => Exists(r.inc),
             UNCHANGED <<status, sprint, verified, members, passed, deleted, composed, strained>>
      PROVE  Typed'
  <2>1. req' \in [Workers -> Request] /\ \A v \in Workers : Carries(req'[v])
    BY <1>0, <1>1, ReqTyped DEF Begin
  <2>2. \A v \in Workers : req'[v].inc # None => status[req'[v].inc] # Absent
    BY <1>0, <1>1 DEF Begin, TypeOK, Exists
  <2> QED
    BY <1>0, <1>1, <2>1, <2>2 DEF Typed, TypeOK
<1>2. ASSUME NEW s \in Sprints, NEW p \in PBIs, Compose(w, s, p) PROVE Typed'
  <2> DEFINE r == [Idle EXCEPT !.phase = "compose", !.sprint = s, !.items = {p}]
  <2>1. r \in Request /\ Carries(r) /\ r.inc = None
    OBVIOUS
  <2>2. Begin(w, r)
    BY <1>2 DEF Compose
  <2> HIDE DEF Request, Phases, IncrementStatuses, Absent, Carries, Idle, r
  <2> QED
    BY <1>1, <1>2, <2>1, <2>2 DEF Compose
<1>3. ASSUME NEW i \in Incs, NEW s \in Sprints, NEW st \in IncrementStatuses,
             NEW P \in SUBSET PBIs, CreateIncrement(w, i, s, st, P)
      PROVE  Typed'
  <2> DEFINE r == [Idle EXCEPT !.phase = IF P = {} THEN "count" ELSE "members",
                               !.inc = i, !.items = P]
  <2>1. r \in Request /\ Carries(r) /\ r.inc = i
    OBVIOUS
  <2>2. req' = [req EXCEPT ![w] = r]
    BY <1>3 DEF CreateIncrement, Begin
  <2>3. req' \in [Workers -> Request] /\ \A v \in Workers : Carries(req'[v])
    BY <1>0, <2>1, <2>2, ReqTyped
  <2>4. \A v \in Workers : req'[v].inc # None => status'[req'[v].inc] # Absent
    <3> SUFFICES ASSUME NEW v \in Workers, req'[v].inc # None
                 PROVE  status'[req'[v].inc] # Absent
      OBVIOUS
    <3>1. req'[v].inc \in Incs
      BY <2>3
    <3>2. req'[v].inc = i \/ status[req'[v].inc] # Absent
      BY <1>0, <2>1, <2>2 DEF TypeOK
    <3> QED
      BY <1>0, <1>3, <3>1, <3>2 DEF CreateIncrement, TypeOK
  <2>5. sprint' \in [Incs -> Sprints \cup {None}] /\ \A k \in Incs : status'[k] # Absent => sprint'[k] # None
    BY <1>0, <1>3, NoneAssumption DEF CreateIncrement, TypeOK
  <2> QED
    BY <1>0, <1>3, <2>3, <2>4, <2>5 DEF CreateIncrement, Typed, TypeOK
<1>4. ASSUME NEW i \in Incs, NEW st \in IncrementStatuses \cup {Absent},
             NEW edits \in BOOLEAN, NEW P \in SUBSET PBIs, UpdateIncrement(w, i, st, edits, P)
      PROVE  Typed'
  <2> DEFINE ph == IF st = "VERIFIED" /\ status[i] = "DRAFT" /\ i \notin verified
                   THEN "judge" ELSE "write"
             r == [Idle EXCEPT !.phase = ph, !.inc = i, !.to = st, !.edits = edits, !.items = P]
  <2>1. r \in Request /\ Carries(r) /\ r.inc = i
    BY NoneAssumption
  <2>2. Begin(w, r) /\ Exists(i)
    BY <1>4 DEF UpdateIncrement, Editable
  <2> HIDE DEF Request, Phases, IncrementStatuses, Absent, Carries, Idle, r
  <2> QED
    BY <1>1, <1>4, <2>1, <2>2 DEF UpdateIncrement
<1>5. ASSUME NEW i \in Incs, DeliverIncrement(w, i) PROVE Typed'
  <2> DEFINE r == [Idle EXCEPT !.phase = "deliver", !.inc = i]
  <2>1. r \in Request /\ Carries(r) /\ r.inc = i
    OBVIOUS
  <2>2. Begin(w, r) /\ Exists(i)
    BY <1>5 DEF DeliverIncrement
  <2> HIDE DEF Request, Phases, IncrementStatuses, Absent, Carries, Idle, r
  <2> QED
    BY <1>1, <1>5, <2>1, <2>2 DEF DeliverIncrement
<1>6. ASSUME NEW i \in Incs, NEW j \in Incs, NEW result \in BOOLEAN, CreateTest(w, i, j, result)
      PROVE  Typed'
  <2> DEFINE r == [Idle EXCEPT !.phase = "record", !.inc = i, !.priors = {j}, !.ok = result]
  <2>1. r \in Request /\ Carries(r) /\ r.inc = i
    OBVIOUS
  <2>2. Begin(w, r) /\ Exists(i)
    BY <1>6 DEF CreateTest, Testable
  <2> HIDE DEF Request, Phases, IncrementStatuses, Absent, Carries, Idle, r
  <2> QED
    BY <1>1, <1>6, <2>1, <2>2 DEF CreateTest
<1>7. ASSUME NEW i \in Incs, VerifyIntegration(w, i) PROVE Typed'
  <2> DEFINE r == [Idle EXCEPT !.phase = "judge", !.inc = i]
  <2>1. r \in Request /\ Carries(r) /\ r.inc = i
    OBVIOUS
  <2>2. Begin(w, r) /\ Exists(i)
    BY <1>7 DEF VerifyIntegration, Testable
  <2> HIDE DEF Request, Phases, IncrementStatuses, Absent, Carries, Idle, r
  <2> QED
    BY <1>1, <1>7, <2>1, <2>2 DEF VerifyIntegration
<1> QED
  BY <1>2, <1>3, <1>4, <1>5, <1>6, <1>7 DEF Arrive

\* A step of a request in flight that writes no Increment row keeps the types.
LEMMA RowsKept ==
  ASSUME Inv, NEW w \in Workers, NEW r \in Request, Carries(r),
         req' = [req EXCEPT ![w] = r], r.inc \in {None, req[w].inc},
         status' \in [Incs -> IncrementStatuses \cup {Absent}],
         \A i \in Incs : (status'[i] = Absent) = (status[i] = Absent),
         UNCHANGED sprint, verified' \in SUBSET Incs, members' \in SUBSET (Incs \X PBIs),
         passed' \in SUBSET (Incs \X Incs), UNCHANGED deleted, composed' = composed, strained' \in BOOLEAN
  PROVE  Typed' /\ \A i \in composed' : status'[i] # Absent
<1>1. req' \in [Workers -> Request] /\ \A v \in Workers : Carries(req'[v])
  BY ReqTyped DEF Inv
<1>2. \A v \in Workers : req'[v].inc # None => status[req'[v].inc] # Absent
  BY DEF Inv, Typed, TypeOK
<1>3. \A v \in Workers : req'[v].inc # None => req'[v].inc \in Incs
  BY <1>1 DEF Request
<1>4. \A v \in Workers : req'[v].inc # None => status'[req'[v].inc] # Absent
  BY <1>2, <1>3
<1> QED
  BY <1>1, <1>4 DEF Inv, Typed, TypeOK, Exists

\* The types survive each step of a request.
LEMMA AdvanceTyped ==
  ASSUME Inv, NEW w \in Workers, Advance(w) \/ Fail(w)
  PROVE  Typed' /\ \A i \in composed' : status'[i] # Absent
<1> USE DEF Request, Phases, IncrementStatuses, Absent, Carries
<1>0. TypeOK /\ req[w] \in Request /\ Carries(req[w]) /\ \A i \in composed : Exists(i)
  BY DEF Inv, Typed, TypeOK
<1>1. CASE FindOpen(w)
  <2>1. CASE \E i \in Finds(req[w].sprint) :
                req' = [req EXCEPT ![w].phase = "link", ![w].inc = i] /\ UNCHANGED strained
    <3>1. PICK i \in Finds(req[w].sprint) :
                req' = [req EXCEPT ![w].phase = "link", ![w].inc = i] /\ UNCHANGED strained
      BY <2>1
    <3>2. i \in Incs /\ status[i] # Absent
      BY <3>1 DEF Finds, Open, OpenStatuses
    <3> DEFINE r == [req[w] EXCEPT !.phase = "link", !.inc = i]
    <3>3. r \in Request /\ Carries(r) /\ r.inc = i
      BY <1>0, <3>2
    <3>4. req' = [req EXCEPT ![w] = r]
      BY <1>0, <3>1 DEF TypeOK
    <3>5. req' \in [Workers -> Request] /\ \A v \in Workers : Carries(req'[v])
      BY <3>3, <3>4, ReqTyped DEF Inv
    <3>6. \A v \in Workers : req'[v].inc # None => status[req'[v].inc] # Absent
      BY <1>0, <3>2, <3>3, <3>4 DEF TypeOK
    <3> QED
      BY <1>0, <1>1, <3>1, <3>5, <3>6 DEF FindOpen, Typed, TypeOK, Exists
  <2>2. CASE Goto(w, "write") /\ strained' \in BOOLEAN
    <3> DEFINE r == [req[w] EXCEPT !.phase = "write"]
    <3>1. r \in Request /\ Carries(r) /\ r.inc = req[w].inc
      BY <1>0, <1>1 DEF FindOpen, In
    <3>2. req' = [req EXCEPT ![w] = r]
      BY <1>0, <2>2 DEF TypeOK, Goto
    <3> QED
      BY <1>0, <1>1, <2>2, <3>1, <3>2, RowsKept DEF FindOpen, TypeOK
  <2> QED
    BY <1>1, <2>1, <2>2 DEF FindOpen
<1>2. ASSUME NEW i \in Incs, CreateComposed(w, i)
      PROVE  Typed' /\ \A k \in composed' : status'[k] # Absent
  <2> DEFINE r == [req[w] EXCEPT !.phase = "link", !.inc = i]
  <2>1. r \in Request /\ Carries(r) /\ r.inc = i
    BY <1>0
  <2>2. req' = [req EXCEPT ![w] = r]
    BY <1>0, <1>2 DEF TypeOK, CreateComposed
  <2>3. req' \in [Workers -> Request] /\ \A v \in Workers : Carries(req'[v])
    BY <2>1, <2>2, ReqTyped DEF Inv
  <2>4. \A v \in Workers : req'[v].inc # None => req'[v].inc \in Incs /\ status'[req'[v].inc] # Absent
    BY <1>0, <1>2, <2>1, <2>2, <2>3 DEF TypeOK, CreateComposed
  <2>5. req[w].sprint \in Sprints
    BY <1>0, <1>2 DEF CreateComposed, In
  <2>6. sprint' \in [Incs -> Sprints \cup {None}] /\ \A k \in Incs : status'[k] # Absent => sprint'[k] # None
    BY <1>0, <1>2, <2>5, NoneAssumption DEF CreateComposed, TypeOK
  <2> QED
    BY <1>0, <1>2, <2>3, <2>4, <2>6 DEF CreateComposed, Typed, TypeOK, Exists
<1>3. CASE Link(w) \/ ExemptFirst(w) \/ Fail(w) \/ WriteDelivered(w)
  <2>1. req' = [req EXCEPT ![w] = Idle] /\ Idle.inc = None
    BY <1>3 DEF Link, ExemptFirst, Fail, WriteDelivered, Answer, Idle
  <2>2. req[w].inc \in Incs \/ Fail(w)
    BY <1>0, <1>3 DEF Link, ExemptFirst, WriteDelivered, In
  <2>3. /\ status' \in [Incs -> IncrementStatuses \cup {Absent}]
        /\ \A i \in Incs : (status'[i] = Absent) = (status[i] = Absent)
    <3>1. CASE WriteDelivered(w)
      <4>1. status[req[w].inc] # Absent
        BY <1>0, <2>2, <3>1, NoneAssumption DEF TypeOK, WriteDelivered, In
      <4> QED
        BY <1>0, <2>2, <3>1, <4>1 DEF WriteDelivered, TypeOK
    <3> QED
      BY <1>0, <1>3, <3>1 DEF Link, ExemptFirst, Fail, TypeOK
  <2>4. members' \in SUBSET (Incs \X PBIs) /\ verified' \in SUBSET Incs
    BY <1>0, <1>3, <2>2 DEF Link, ExemptFirst, Fail, WriteDelivered, TypeOK, In
  <2> QED
    BY <1>0, <1>3, <2>1, <2>3, <2>4, IdleTyped, RowsKept
    DEF Link, ExemptFirst, Fail, WriteDelivered, TypeOK
<1> DEFINE Moves == \E r \in Request : /\ Carries(r) /\ r.inc \in {None, req[w].inc}
                                       /\ req' = [req EXCEPT ![w] = r]
         Rows == /\ status' \in [Incs -> IncrementStatuses \cup {Absent}]
                 /\ \A k \in Incs : (status'[k] = Absent) = (status[k] = Absent)
                 /\ verified' \in SUBSET Incs /\ members' \in SUBSET (Incs \X PBIs)
                 /\ passed' \in SUBSET (Incs \X Incs) /\ strained' \in BOOLEAN
                 /\ UNCHANGED <<sprint, deleted, composed>>
<1>r. ASSUME Moves, Rows PROVE Typed' /\ \A k \in composed' : status'[k] # Absent
  <2>1. PICK r \in Request : /\ Carries(r) /\ r.inc \in {None, req[w].inc}
                             /\ req' = [req EXCEPT ![w] = r]
    BY <1>r
  <2> HIDE DEF Request, Phases, IncrementStatuses, Absent, Carries
  <2> QED
    BY <1>r, <2>1, RowsKept
<1>4. ASSUME Answer(w) PROVE Moves
  BY <1>4, IdleTyped DEF Answer, Idle
<1>5. ASSUME req[w].inc \in Incs, NEW ph \in {"exempt", "write", "clear", "members"}, Goto(w, ph)
      PROVE  Moves
  <2> DEFINE r == [req[w] EXCEPT !.phase = ph]
  <2>1. r \in Request /\ Carries(r) /\ r.inc = req[w].inc
    BY <1>0, <1>5, NoneAssumption
  <2>2. req' = [req EXCEPT ![w] = r]
    BY <1>0, <1>5 DEF TypeOK, Goto
  <2> QED
    BY <2>1, <2>2
<1>6. ASSUME req[w].inc \in Incs, NEW ph \in {"judge", "flag", "tally"}, NEW P \in SUBSET Incs,
             NEW ok \in BOOLEAN,
             req' = [req EXCEPT ![w].phase = ph, ![w].priors = P, ![w].ok = ok]
      PROVE  Moves
  <2> DEFINE r == [req[w] EXCEPT !.phase = ph, !.priors = P, !.ok = ok]
  <2>1. r \in Request /\ Carries(r) /\ r.inc = req[w].inc
    BY <1>0, <1>6
  <2>2. req' = [req EXCEPT ![w] = r]
    BY <1>0, <1>6 DEF TypeOK
  <2> QED
    BY <2>1, <2>2
<1>7. CASE CountOthers(w) \/ Recheck(w) \/ Judge(w) \/ Tally(w)
  <2>1. req[w].inc \in Incs
    BY <1>0, <1>7 DEF CountOthers, Recheck, Judge, Tally, In
  <2>2. CASE CountOthers(w) \/ Recheck(w)
    <3>1. Moves
      BY <1>4, <1>5, <2>1, <2>2 DEF CountOthers, Recheck
    <3>2. Rows
      BY <1>0, <2>2 DEF CountOthers, Recheck, TypeOK
    <3> QED
      BY <3>1, <3>2, <1>r
  <2>3. CASE Judge(w) \/ Tally(w)
    <3>1. Moves
      BY <1>6, <2>1, <2>3 DEF Judge, Tally, Priors
    <3>2. Rows
      BY <1>0, <2>3 DEF Judge, Tally, TypeOK
    <3> QED
      BY <3>1, <3>2, <1>r
  <2> QED
    BY <1>7, <2>2, <2>3
<1>8. CASE WriteMembers(w)
  <2>1. req[w].inc \in Incs
    BY <1>0, <1>8 DEF WriteMembers, In
  <2>2. Moves
    <3>1. CASE req' = [req EXCEPT ![w].phase = "count", ![w].items = {}]
      <4> DEFINE r == [req[w] EXCEPT !.phase = "count", !.items = {}]
      <4>1. r \in Request /\ Carries(r) /\ r.inc = req[w].inc
        BY <1>0, <2>1
      <4>2. req' = [req EXCEPT ![w] = r]
        BY <1>0, <3>1 DEF TypeOK
      <4> QED
        BY <4>1, <4>2
    <3> QED
      BY <1>4, <1>8, <3>1 DEF WriteMembers
  <2>3. members' \in SUBSET (Incs \X PBIs)
    BY <1>0, <1>8, <2>1 DEF WriteMembers, TypeOK
  <2>4. Rows
    BY <1>0, <1>8, <2>3 DEF WriteMembers, TypeOK
  <2> QED
    BY <2>2, <2>4, <1>r
<1>9. CASE WriteUpdate(w)
  <2> DEFINE i == req[w].inc
  <2>1. i \in Incs /\ status[i] # Absent /\ req[w].to \in IncrementStatuses \cup {Absent}
    BY <1>0, <1>9 DEF WriteUpdate, TypeOK
  <2>2. Moves
    BY <1>4, <1>5, <1>9, <2>1 DEF WriteUpdate
  <2>3. /\ status' \in [Incs -> IncrementStatuses \cup {Absent}]
        /\ \A k \in Incs : (status'[k] = Absent) = (status[k] = Absent)
    <3>1. CASE req[w].to = Absent
      BY <1>0, <1>9, <3>1 DEF WriteUpdate, TypeOK
    <3>2. CASE req[w].to # Absent
      <4>1. status' = [status EXCEPT ![i] = req[w].to]
        BY <1>9, <3>2 DEF WriteUpdate
      <4> QED
        BY <1>0, <2>1, <3>2, <4>1 DEF TypeOK
    <3> QED
      BY <3>1, <3>2
  <2>4. strained' \in BOOLEAN
    BY <1>0, <1>9 DEF WriteUpdate
  <2>5. UNCHANGED <<sprint, verified, members, passed, deleted, composed>>
    BY <1>9 DEF WriteUpdate
  <2>6. Rows
    BY <1>0, <2>3, <2>4, <2>5 DEF TypeOK
  <2> QED
    BY <2>2, <2>6, <1>r
<1>10. CASE ClearMembers(w)
  <2>1. req[w].inc \in Incs
    BY <1>0, <1>10 DEF ClearMembers, In
  <2>2. Moves
    BY <1>4, <1>5, <1>10, <2>1 DEF ClearMembers
  <2>3. members' \in SUBSET (Incs \X PBIs)
    BY <1>0, <1>10 DEF ClearMembers, TypeOK
  <2>4. Rows
    BY <1>0, <1>10, <2>3 DEF ClearMembers, TypeOK
  <2> QED
    BY <2>2, <2>4, <1>r
<1>11. CASE RecordTest(w)
  <2>1. req[w].inc \in Incs
    BY <1>0, <1>11 DEF RecordTest, In
  <2>2. Moves
    BY <1>6, <1>11, <2>1 DEF RecordTest
  <2>3. passed' \in SUBSET (Incs \X Incs)
    BY <1>0, <1>11, <2>1 DEF RecordTest, TypeOK
  <2>4. Rows
    BY <1>0, <1>11, <2>3 DEF RecordTest, TypeOK
  <2> QED
    BY <2>2, <2>4, <1>r
<1>12. CASE SetVerified(w)
  <2>1. req[w].inc \in Incs
    BY <1>0, <1>12 DEF SetVerified, In
  <2>2. Moves
    <3>1. CASE req' = [req EXCEPT ![w].phase = "recheck", ![w].ok = FALSE]
      <4> DEFINE r == [req[w] EXCEPT !.phase = "recheck", !.ok = FALSE]
      <4>1. r \in Request /\ Carries(r) /\ r.inc = req[w].inc
        BY <1>0, <2>1
      <4>2. req' = [req EXCEPT ![w] = r]
        BY <1>0, <3>1 DEF TypeOK
      <4> QED
        BY <4>1, <4>2
    <3> QED
      BY <1>4, <1>12, <3>1 DEF SetVerified
  <2>3. verified' \in SUBSET Incs
    BY <1>0, <1>12, <2>1 DEF SetVerified, TypeOK
  <2>4. Rows
    BY <1>0, <1>12, <2>3 DEF SetVerified, TypeOK
  <2> QED
    BY <2>2, <2>4, <1>r
<1> QED
  BY <1>1, <1>2, <1>3, <1>7, <1>8, <1>9, <1>10, <1>11, <1>12 DEF Advance

-----------------------------------------------------------------------------
\* What a composition counts on survives a step that opens no composed Increment and
\* makes no request lack one.
LEMMA GatheredKept ==
  ASSUME Inv, ~strained' => ~strained, composed' = composed,
         \A i \in composed : sprint'[i] = sprint[i]
                            /\ (status'[i] \in OpenStatuses => status[i] \in OpenStatuses),
         \A v \in Workers : Lacks(v)' => Lacks(v) /\ req'[v].sprint = req[v].sprint
  PROVE  Gathered'
BY DEF Inv, Gathered

\* A worker that takes up an Increment, or ends, lacks none afterwards.
LEMMA LacksKept ==
  ASSUME Inv, NEW w \in Workers, NEW r, req' = [req EXCEPT ![w] = r],
         r.phase # "write" \/ r.inc # None
  PROVE  \A v \in Workers : Lacks(v)' => Lacks(v) /\ req'[v].sprint = req[v].sprint
BY DEF Inv, Typed, TypeOK, Lacks, In

\* An arriving request creates no composed Increment and opens none.
LEMMA ArriveGathered == ASSUME Inv, NEW w \in Workers, Arrive(w) PROVE Gathered'
<1> DEFINE Fewer == \A v \in Workers : Lacks(v)' => Lacks(v) /\ req'[v].sprint = req[v].sprint
           Same == \A i \in composed : sprint'[i] = sprint[i] /\ status'[i] = status[i]
<1>1. Fewer
  <2>1. ASSUME NEW r, Begin(w, r), r.phase # "write" \/ r.inc # None PROVE Fewer
    BY <2>1, LacksKept DEF Begin
  <2>2. ASSUME NEW s \in Sprints, NEW p \in PBIs, Compose(w, s, p) PROVE Fewer
    BY <2>1, <2>2 DEF Compose, Idle
  <2>3. ASSUME NEW i \in Incs, NEW s \in Sprints, NEW st \in IncrementStatuses,
               NEW P \in SUBSET PBIs, CreateIncrement(w, i, s, st, P) PROVE Fewer
    BY <2>1, <2>3 DEF CreateIncrement, Idle
  <2>4. ASSUME NEW i \in Incs, NEW st \in IncrementStatuses \cup {Absent},
               NEW edits \in BOOLEAN, NEW P \in SUBSET PBIs,
               UpdateIncrement(w, i, st, edits, P) PROVE Fewer
    BY <2>1, <2>4, NoneAssumption DEF UpdateIncrement, Idle
  <2>5. ASSUME NEW i \in Incs, DeliverIncrement(w, i) PROVE Fewer
    BY <2>1, <2>5 DEF DeliverIncrement, Idle
  <2>6. ASSUME NEW i \in Incs, NEW j \in Incs, NEW result \in BOOLEAN,
               CreateTest(w, i, j, result) PROVE Fewer
    BY <2>1, <2>6 DEF CreateTest, Idle
  <2>7. ASSUME NEW i \in Incs, VerifyIntegration(w, i) PROVE Fewer
    BY <2>1, <2>7 DEF VerifyIntegration, Idle
  <2> QED
    BY <2>2, <2>3, <2>4, <2>5, <2>6, <2>7 DEF Arrive
<1>2. UNCHANGED <<composed, strained>>
  BY DEF Arrive, Compose, CreateIncrement, UpdateIncrement, DeliverIncrement, CreateTest,
         VerifyIntegration
<1>3. Same
  <2>1. CASE UNCHANGED <<status, sprint>>
    BY <2>1
  <2>2. ASSUME NEW i \in Incs, NEW s \in Sprints, NEW st \in IncrementStatuses,
               NEW P \in SUBSET PBIs, CreateIncrement(w, i, s, st, P)
        PROVE  Same
    <3>1. i \notin composed
      BY <2>2 DEF Inv, CreateIncrement
    <3> QED
      BY <2>2, <3>1 DEF Inv, Typed, TypeOK, CreateIncrement
  <2> QED
    BY <2>1, <2>2 DEF Arrive, Compose, UpdateIncrement, DeliverIncrement, CreateTest,
           VerifyIntegration
<1> QED
  BY <1>1, <1>2, <1>3, GatheredKept

\* A step of a request keeps it: a composition that finds none is alone with it, and the
\* Increment it creates is the only open one of its Sprint.
LEMMA AdvanceGathered ==
  ASSUME Inv, NEW w \in Workers, Advance(w) \/ Fail(w) PROVE Gathered'
<1> DEFINE Fewer == \A v \in Workers : Lacks(v)' => Lacks(v) /\ req'[v].sprint = req[v].sprint
<1>0. TypeOK /\ Gathered /\ req[w] \in Request /\ Carries(req[w]) /\ composed \subseteq Incs
  BY DEF Inv, Typed, TypeOK
<1>1. ASSUME Answer(w) PROVE Fewer
  BY <1>1, LacksKept DEF Answer, Idle
<1>2. ASSUME NEW ph, Goto(w, ph), ph # "write" \/ req[w].inc # None PROVE Fewer
  <2>1. req' = [req EXCEPT ![w] = [req[w] EXCEPT !.phase = ph]]
    BY <1>0, <1>2 DEF Goto, TypeOK
  <2> QED
    BY <1>0, <1>2, <2>1, LacksKept DEF Request
<1>3. CASE FindOpen(w)
  <2>1. CASE \E i \in Finds(req[w].sprint) :
                req' = [req EXCEPT ![w].phase = "link", ![w].inc = i] /\ UNCHANGED strained
    <3>1. PICK i : req' = [req EXCEPT ![w].phase = "link", ![w].inc = i]
      BY <2>1
    <3>2. req' = [req EXCEPT ![w] = [req[w] EXCEPT !.phase = "link", !.inc = i]]
      BY <1>0, <3>1 DEF TypeOK
    <3>3. Fewer
      BY <1>0, <3>2, LacksKept DEF Request
    <3>4. UNCHANGED <<status, sprint, composed, strained>>
      BY <1>3, <2>1 DEF FindOpen
    <3> HIDE DEF Fewer
    <3>5. \A v \in Workers : Lacks(v)' => Lacks(v) /\ req'[v].sprint = req[v].sprint
      BY <3>3 DEF Fewer
    <3> QED
      BY <3>4, <3>5, GatheredKept
  <2>2. CASE /\ Finds(req[w].sprint) = {} /\ Goto(w, "write")
             /\ strained' = (strained \/ \E v \in Workers \ {w} :
                     In(v, "write") /\ req[v].inc = None /\ req[v].sprint = req[w].sprint)
    <3> SUFFICES ASSUME ~strained' PROVE Gathered'
      BY DEF Gathered
    <3>1. ~strained /\ \A v \in Workers \ {w} : ~(Lacks(v) /\ req[v].sprint = req[w].sprint)
      BY <2>2 DEF Lacks
    <3>2. /\ \A v \in Workers \ {w} : req'[v] = req[v]
          /\ req'[w].sprint = req[w].sprint
      BY <1>0, <2>2 DEF Goto, TypeOK, Request
    <3>3. \A i \in composed : sprint[i] = req[w].sprint => status[i] \notin OpenStatuses
      BY <1>0, <2>2 DEF Finds, Open
    <3>4. UNCHANGED <<status, sprint, composed>>
      BY <1>3 DEF FindOpen
    <3>5. \A v \in Workers \ {w} : Lacks(v)' = Lacks(v)
      BY <3>2 DEF Lacks, In
    <3> QED
      BY <1>0, <3>1, <3>2, <3>3, <3>4, <3>5 DEF Gathered
  <2> QED
    BY <1>3, <2>1, <2>2 DEF FindOpen
<1>4. ASSUME NEW i \in Incs, CreateComposed(w, i) PROVE Gathered'
  <2> SUFFICES ASSUME ~strained' PROVE Gathered'
    BY DEF Gathered
  <2>1. ~strained /\ Lacks(w) /\ i \notin composed
    BY <1>4 DEF CreateComposed, Lacks, Inv
  <2>2. /\ \A k \in composed : status'[k] = status[k] /\ sprint'[k] = sprint[k]
        /\ sprint'[i] = req[w].sprint /\ composed' = composed \cup {i}
    BY <1>0, <1>4, <2>1 DEF CreateComposed, TypeOK
  <2>3. /\ \A k \in composed : sprint[k] = req[w].sprint => status[k] \notin OpenStatuses
        /\ \A v \in Workers \ {w} : ~(Lacks(v) /\ req[v].sprint = req[w].sprint)
    BY <1>0, <2>1 DEF Gathered
  <2>4. /\ \A v \in Workers \ {w} : req'[v] = req[v]
        /\ req'[w].phase = "link"
    BY <1>0, <1>4 DEF CreateComposed, TypeOK, Request
  <2>5. /\ ~Lacks(w)'
        /\ \A v \in Workers \ {w} : Lacks(v)' = Lacks(v)
    BY <2>4 DEF Lacks, In
  <2>6. \A k, l \in composed' :
           sprint'[k] = sprint'[l] /\ {status'[k], status'[l]} \subseteq OpenStatuses => k = l
    BY <1>0, <2>1, <2>2, <2>3 DEF Gathered
  <2>7. ASSUME NEW v \in Workers, Lacks(v)'
        PROVE  /\ \A k \in composed' : sprint'[k] = req'[v].sprint => status'[k] \notin OpenStatuses
               /\ \A u \in Workers : Lacks(u)' /\ req'[u].sprint = req'[v].sprint => u = v
    <3>1. v # w /\ Lacks(v) /\ req'[v] = req[v] /\ req[v].sprint # req[w].sprint
      BY <2>3, <2>4, <2>5, <2>7
    <3> QED
      BY <1>0, <2>1, <2>2, <2>4, <2>5, <3>1 DEF Gathered
  <2> QED
    BY <2>6, <2>7 DEF Gathered
<1>5. CASE \/ Link(w) \/ CountOthers(w) \/ ExemptFirst(w) \/ Recheck(w) \/ ClearMembers(w) \/ Fail(w)
  <2>1. Fewer
    BY <1>0, <1>1, <1>2, <1>5, NoneAssumption
    DEF Link, CountOthers, ExemptFirst, Recheck, ClearMembers, Fail, In, Carries
  <2> QED
    BY <1>5, <2>1, GatheredKept DEF Link, CountOthers, ExemptFirst, Recheck, ClearMembers, Fail
<1>6. ASSUME NEW r, req' = [req EXCEPT ![w] = r], r.phase # "write",
             UNCHANGED <<status, sprint, composed, strained>>
      PROVE  Gathered'
  BY <1>6, LacksKept, GatheredKept
<1>7. CASE WriteMembers(w)
  <2>1. CASE req' = [req EXCEPT ![w].phase = "count", ![w].items = {}]
    <3>1. req' = [req EXCEPT ![w] = [req[w] EXCEPT !.phase = "count", !.items = {}]]
      BY <1>0, <2>1 DEF TypeOK
    <3>2. [req[w] EXCEPT !.phase = "count", !.items = {}].phase # "write"
      BY <1>0 DEF Request
    <3> QED
      BY <1>6, <1>7, <3>1, <3>2 DEF WriteMembers
  <2> QED
    BY <1>1, <1>7, <2>1, GatheredKept DEF WriteMembers
<1>8. ASSUME NEW ph \in {"judge", "flag", "tally"}, NEW P, NEW ok,
             req' = [req EXCEPT ![w].phase = ph, ![w].priors = P, ![w].ok = ok],
             UNCHANGED <<status, sprint, composed, strained>>
      PROVE  Gathered'
  <2>1. req' = [req EXCEPT ![w] = [req[w] EXCEPT !.phase = ph, !.priors = P, !.ok = ok]]
    BY <1>0, <1>8 DEF TypeOK
  <2>2. [req[w] EXCEPT !.phase = ph, !.priors = P, !.ok = ok].phase # "write"
    BY <1>0 DEF Request
  <2> QED
    BY <1>6, <1>8, <2>1, <2>2
<1>9. CASE Judge(w) \/ Tally(w) \/ RecordTest(w)
  BY <1>8, <1>9 DEF Judge, Tally, RecordTest
<1>10. CASE SetVerified(w)
  <2>1. CASE req' = [req EXCEPT ![w].phase = "recheck", ![w].ok = FALSE]
    <3>1. req' = [req EXCEPT ![w] = [req[w] EXCEPT !.phase = "recheck", !.ok = FALSE]]
      BY <1>0, <2>1 DEF TypeOK
    <3>2. [req[w] EXCEPT !.phase = "recheck", !.ok = FALSE].phase # "write"
      BY <1>0 DEF Request
    <3> QED
      BY <1>6, <1>10, <3>1, <3>2 DEF SetVerified
  <2> QED
    BY <1>1, <1>10, <2>1, GatheredKept DEF SetVerified
<1>11. CASE WriteUpdate(w) \/ WriteDelivered(w)
  <2>1. Fewer
    BY <1>1, <1>2, <1>11 DEF WriteUpdate, WriteDelivered
  <2>2. /\ ~strained' => ~strained
        /\ UNCHANGED <<sprint, composed>>
    BY <1>0, <1>11 DEF WriteUpdate, WriteDelivered, TypeOK
  <2>3. ASSUME ~strained'
        PROVE  \A k \in composed : status'[k] \in OpenStatuses => status[k] \in OpenStatuses
    BY <1>0, <1>11, <2>3 DEF WriteUpdate, WriteDelivered, TypeOK, OpenStatuses
  <2> SUFFICES ASSUME ~strained' PROVE Gathered'
    BY DEF Gathered
  <2> QED
    BY <2>1, <2>2, <2>3, GatheredKept
<1> QED
  BY <1>3, <1>4, <1>5, <1>7, <1>9, <1>10, <1>11 DEF Advance

-----------------------------------------------------------------------------
\* A deleted item takes its rows with it, and touches nothing else.
LEMMA DeletePBIInv == ASSUME Inv, NEW p \in PBIs, DeletePBI(p) PROVE Inv'
<1>1. /\ members' = members \ (Incs \X {p}) /\ deleted' = deleted \cup {p}
      /\ UNCHANGED <<status, sprint, verified, passed, req, composed, strained>>
  BY DEF DeletePBI
<1>2. Typed' /\ \A i \in composed' : Exists(i)'
  BY <1>1 DEF Inv, Typed, TypeOK, Exists
<1>3. Gathered'
  BY <1>1, GatheredKept DEF Inv, Lacks, In
<1>4. Rooted'
  BY <1>1 DEF Inv, Rooted
<1> QED
  BY <1>2, <1>3, <1>4 DEF Inv

\* No request puts a deleted item into an Increment.
LEMMA RequestRooted ==
  ASSUME Inv, NEW w \in Workers, Arrive(w) \/ Advance(w) \/ Fail(w) PROVE Rooted'
<1>1. UNCHANGED deleted
  BY DEF Arrive, Compose, CreateIncrement, UpdateIncrement, DeliverIncrement, CreateTest,
         VerifyIntegration, Advance, FindOpen, CreateComposed, Link, WriteMembers, CountOthers,
         ExemptFirst, Recheck, WriteUpdate, ClearMembers, WriteDelivered, RecordTest, Judge,
         Tally, SetVerified, Fail
<1>2. CASE members' \subseteq members
  BY <1>1, <1>2 DEF Inv, Rooted
<1>3. CASE Link(w) \/ WriteMembers(w)
  <2>1. /\ members' = members \cup ({req[w].inc} \X req[w].items)
        /\ req[w].items \cap deleted = {}
    BY <1>3 DEF Link, WriteMembers
  <2>2. ({req[w].inc} \X req[w].items) \cap (Incs \X deleted) = {}
    BY <2>1
  <2> QED
    BY <1>1, <2>1, <2>2 DEF Inv, Rooted
<1> QED
  BY <1>2, <1>3 DEF Arrive, Compose, CreateIncrement, UpdateIncrement, DeliverIncrement,
         CreateTest, VerifyIntegration, Advance, FindOpen, CreateComposed, CountOthers,
         ExemptFirst, Recheck, WriteUpdate, ClearMembers, WriteDelivered, RecordTest, Judge,
         Tally, SetVerified, Fail

\* A composed Increment keeps its row when a request arrives.
LEMMA ArriveExists ==
  ASSUME Inv, NEW w \in Workers, Arrive(w) PROVE \A i \in composed' : status'[i] # Absent
<1>1. composed' = composed /\ composed \subseteq Incs /\ TypeOK
  BY DEF Inv, Typed, TypeOK, Arrive, Compose, CreateIncrement, UpdateIncrement, DeliverIncrement,
         CreateTest, VerifyIntegration
<1>2. \/ UNCHANGED status
      \/ \E i \in Incs, st \in IncrementStatuses : status' = [status EXCEPT ![i] = st]
  BY DEF Arrive, Compose, CreateIncrement, UpdateIncrement, DeliverIncrement, CreateTest,
         VerifyIntegration
<1> QED
  BY <1>1, <1>2 DEF Inv, Exists, TypeOK, IncrementStatuses, Absent

\* The invariant is inductive.
LEMMA NextInv == Inv /\ [Next]_vars => Inv'
<1> SUFFICES ASSUME Inv, [Next]_vars PROVE Inv'
  OBVIOUS
<1>1. ASSUME NEW w \in Workers, Arrive(w) PROVE Inv'
  BY <1>1, ArriveTyped, ArriveGathered, RequestRooted, ArriveExists DEF Inv, Exists
<1>2. ASSUME NEW w \in Workers, Advance(w) \/ Fail(w) PROVE Inv'
  BY <1>2, AdvanceTyped, AdvanceGathered, RequestRooted DEF Inv, Exists
<1>3. ASSUME NEW p \in PBIs, DeletePBI(p) PROVE Inv'
  BY <1>3, DeletePBIInv
<1>4. CASE UNCHANGED vars
  BY <1>4 DEF vars, Inv, Typed, TypeOK, Gathered, Rooted, Lacks, In, Exists
<1> QED
  BY <1>1, <1>2, <1>3, <1>4 DEF Next

THEOREM Invariance == Spec => []Inv
<1>1. Init => Inv
  BY InitInv
<1>2. Inv /\ [Next]_vars => Inv'
  BY NextInv
<1> QED
  BY <1>1, <1>2, PTL DEF Spec

\* Rows and requests stay well shaped: every Increment has its Sprint, and no request
\* holds an Increment that does not exist (increment.service.ts).
THEOREM IncrementsTyped == Spec => []TypeOK
<1>1. Inv => TypeOK
  BY DEF Inv, Typed
<1> QED
  BY <1>1, Invariance, PTL

\* The Done items of a Sprint gather in one open Increment as long as compositions look
\* and create in turn and no edit reopens one (increment.service.ts, composeDonePBI).
THEOREM GatherInOne == Spec => []OneOpenUnlessStrained
<1>1. Inv => OneOpenUnlessStrained
  BY DEF Inv, Gathered, OneOpenUnlessStrained
<1> QED
  BY <1>1, Invariance, PTL

-----------------------------------------------------------------------------
\* What an Increment is: its status, verification, items and tests.
Untouched(i) ==
    /\ status'[i] = status[i]
    /\ (i \in verified') = (i \in verified)
    /\ ItemsOf(i)' = ItemsOf(i)
    /\ TestsOf(i)' = TestsOf(i)

\* A request that arrives touches at most an Increment that did not exist, and takes hold
\* of none that is delivered.
LEMMA ArriveHolds ==
  ASSUME Inv, NEW w \in Workers, Arrive(w), NEW i \in Incs, status[i] = "DELIVERED"
  PROVE  Untouched(i) /\ UNCHANGED deleted /\ \A v \in Workers : req'[v].inc = i => req[v].inc = i
<1>0. TypeOK
  BY DEF Inv, Typed
<1> DEFINE Releases == \A v \in Workers : req'[v].inc = i => req[v].inc = i
<1>1. ASSUME NEW r, Begin(w, r), r.inc # i PROVE Releases
  BY <1>0, <1>1 DEF Begin, TypeOK
<1> HIDE DEF Releases
<1>2. Releases
  <2>1. ASSUME NEW s \in Sprints, NEW p \in PBIs, Compose(w, s, p) PROVE Releases
    BY <1>1, <2>1, NoneAssumption DEF Compose, Idle
  <2>2. ASSUME NEW j \in Incs, NEW s \in Sprints, NEW st \in IncrementStatuses,
               NEW P \in SUBSET PBIs, CreateIncrement(w, j, s, st, P) PROVE Releases
    BY <1>1, <2>2 DEF CreateIncrement, Exists, Absent, Idle
  <2>3. ASSUME NEW j \in Incs, NEW st \in IncrementStatuses \cup {Absent},
               NEW edits \in BOOLEAN, NEW P \in SUBSET PBIs,
               UpdateIncrement(w, j, st, edits, P) PROVE Releases
    BY <1>1, <2>3 DEF UpdateIncrement, Editable, Idle
  <2>4. ASSUME NEW j \in Incs, DeliverIncrement(w, j) PROVE Releases
    BY <1>1, <2>4 DEF DeliverIncrement, Idle
  <2>5. ASSUME NEW j \in Incs, NEW k \in Incs, NEW result \in BOOLEAN,
               CreateTest(w, j, k, result) PROVE Releases
    BY <1>1, <2>5 DEF CreateTest, Testable, LockedStatuses, Idle
  <2>6. ASSUME NEW j \in Incs, VerifyIntegration(w, j) PROVE Releases
    BY <1>1, <2>6 DEF VerifyIntegration, Testable, LockedStatuses, Idle
  <2> QED
    BY <2>1, <2>2, <2>3, <2>4, <2>5, <2>6 DEF Arrive
<1>3. UNCHANGED <<verified, members, passed, deleted>>
  BY DEF Arrive, Compose, CreateIncrement, UpdateIncrement, DeliverIncrement, CreateTest,
         VerifyIntegration
<1>4. status'[i] = status[i]
  BY <1>0 DEF Arrive, Compose, CreateIncrement, UpdateIncrement, DeliverIncrement, CreateTest,
         VerifyIntegration, TypeOK, Exists, Absent
<1> QED
  BY <1>2, <1>3, <1>4 DEF Untouched, ItemsOf, TestsOf, Releases

\* A step of a request touches the Increment it holds alone, and takes hold of none that is
\* delivered.
LEMMA AdvanceHolds ==
  ASSUME Inv, NEW w \in Workers, Advance(w) \/ Fail(w), NEW i \in Incs,
         status[i] = "DELIVERED", req[w].inc # i
  PROVE  Untouched(i) /\ UNCHANGED deleted /\ \A v \in Workers : req'[v].inc = i => req[v].inc = i
<1>0. TypeOK /\ req[w] \in Request /\ Carries(req[w])
  BY DEF Inv, Typed, TypeOK
<1> DEFINE Releases == \A v \in Workers : req'[v].inc = i => req[v].inc = i
<1>1. ASSUME NEW r, req' = [req EXCEPT ![w] = r], r.inc # i PROVE Releases
  BY <1>0, <1>1 DEF TypeOK
<1>2. ASSUME Answer(w) PROVE Releases
  BY <1>1, <1>2, NoneAssumption DEF Answer, Idle
<1>3. ASSUME NEW ph, Goto(w, ph) PROVE Releases
  <2>1. req' = [req EXCEPT ![w] = [req[w] EXCEPT !.phase = ph]]
    BY <1>0, <1>3 DEF Goto, TypeOK
  <2> QED
    BY <1>0, <1>1, <2>1 DEF Request
<1>4. ASSUME NEW ph, NEW k \in Incs \ {i}, req' = [req EXCEPT ![w].phase = ph, ![w].inc = k]
      PROVE  Releases
  <2>1. req' = [req EXCEPT ![w] = [req[w] EXCEPT !.phase = ph, !.inc = k]]
    BY <1>0, <1>4 DEF TypeOK
  <2> QED
    BY <1>0, <1>1, <2>1 DEF Request
<1>5. ASSUME NEW ph, NEW P, NEW ok,
             req' = [req EXCEPT ![w].phase = ph, ![w].priors = P, ![w].ok = ok]
      PROVE  Releases
  <2>1. req' = [req EXCEPT ![w] = [req[w] EXCEPT !.phase = ph, !.priors = P, !.ok = ok]]
    BY <1>0, <1>5 DEF TypeOK
  <2> QED
    BY <1>0, <1>1, <2>1 DEF Request
<1>6. ASSUME NEW ph, NEW P, req' = [req EXCEPT ![w].phase = ph, ![w].items = P] PROVE Releases
  <2>1. req' = [req EXCEPT ![w] = [req[w] EXCEPT !.phase = ph, !.items = P]]
    BY <1>0, <1>6 DEF TypeOK
  <2> QED
    BY <1>0, <1>1, <2>1 DEF Request
<1>7. ASSUME NEW ph, NEW ok, req' = [req EXCEPT ![w].phase = ph, ![w].ok = ok] PROVE Releases
  <2>1. req' = [req EXCEPT ![w] = [req[w] EXCEPT !.phase = ph, !.ok = ok]]
    BY <1>0, <1>7 DEF TypeOK
  <2> QED
    BY <1>0, <1>1, <2>1 DEF Request
<1> HIDE DEF Releases
<1>8. CASE FindOpen(w)
  <2>1. Releases
    BY <1>3, <1>4, <1>8 DEF FindOpen, Finds, Open, OpenStatuses
  <2> QED
    BY <1>8, <2>1 DEF FindOpen, Untouched, ItemsOf, TestsOf, Releases
<1>9. ASSUME NEW k \in Incs, CreateComposed(w, k)
      PROVE  Untouched(i) /\ UNCHANGED deleted /\ Releases
  <2>1. k # i
    BY <1>9 DEF CreateComposed, Exists, Absent
  <2>2. Releases
    BY <1>4, <1>9, <2>1 DEF CreateComposed
  <2> QED
    BY <1>0, <1>9, <2>1, <2>2 DEF CreateComposed, TypeOK, Untouched, ItemsOf, TestsOf
<1>10. CASE Link(w) \/ WriteMembers(w) \/ ClearMembers(w)
  <2>1. Releases
    BY <1>2, <1>3, <1>6, <1>10 DEF Link, WriteMembers, ClearMembers
  <2>2. \A m : m[1] = i => (m \in members') = (m \in members)
    BY <1>0, <1>10 DEF Link, WriteMembers, ClearMembers
  <2>3. ItemsOf(i)' = ItemsOf(i)
    BY <2>2 DEF ItemsOf
  <2>4. UNCHANGED <<status, verified, passed, deleted>>
    BY <1>10 DEF Link, WriteMembers, ClearMembers
  <2> QED
    BY <2>1, <2>3, <2>4 DEF Untouched, TestsOf, Releases
<1>11. CASE CountOthers(w) \/ Recheck(w) \/ Judge(w) \/ Tally(w) \/ Fail(w)
  <2>1. Releases
    <3>1. CASE CountOthers(w) \/ Recheck(w) \/ Fail(w)
      BY <1>2, <1>3, <3>1 DEF CountOthers, Recheck, Fail
    <3>2. CASE Judge(w)
      BY <1>5, <3>2 DEF Judge
    <3>3. CASE Tally(w)
      BY <1>5, <3>3 DEF Tally
    <3> QED
      BY <1>11, <3>1, <3>2, <3>3
  <2> QED
    BY <1>11, <2>1 DEF CountOthers, Recheck, Judge, Tally, Fail, Untouched, ItemsOf, TestsOf, Releases
<1>12. CASE ExemptFirst(w) \/ SetVerified(w)
  <2>1. Releases
    BY <1>2, <1>7, <1>12 DEF ExemptFirst, SetVerified
  <2> QED
    BY <1>12, <2>1 DEF ExemptFirst, SetVerified, Untouched, ItemsOf, TestsOf, Releases
<1>13. CASE WriteUpdate(w) \/ WriteDelivered(w)
  <2>1. Releases
    BY <1>2, <1>3, <1>13 DEF WriteUpdate, WriteDelivered
  <2> QED
    BY <1>0, <1>13, <2>1 DEF WriteUpdate, WriteDelivered, TypeOK, Untouched, ItemsOf, TestsOf, Releases
<1>14. CASE RecordTest(w)
  <2>1. Releases
    BY <1>5, <1>14 DEF RecordTest
  <2>2. \A t : t[1] = i => (t \in passed') = (t \in passed)
    BY <1>14 DEF RecordTest
  <2>3. TestsOf(i)' = TestsOf(i)
    BY <2>2 DEF TestsOf
  <2>4. UNCHANGED <<status, verified, members, deleted>>
    BY <1>14 DEF RecordTest
  <2> QED
    BY <2>1, <2>3, <2>4 DEF Untouched, ItemsOf, Releases
<1> QED
  BY <1>8, <1>9, <1>10, <1>11, <1>12, <1>13, <1>14 DEF Advance, Releases

\* What was delivered stays as it was delivered, once the requests that held the Increment
\* are answered (increment.service.ts:206, incrementIntegration.service.ts:37 and 139).
THEOREM DeliveredStays == Spec => DeliveredIsFinal
<1> DEFINE Final == \A i \in Incs : Sealed(i) =>
          /\ Sealed(i)'
          /\ ItemsOf(i)' = ItemsOf(i) \ (Incs \X deleted')
          /\ TestsOf(i)' = TestsOf(i)
          /\ (i \in verified)' = (i \in verified)
<1>1. Inv /\ [Next]_vars => [Final]_vars
  <2> SUFFICES ASSUME Inv, Next, NEW i \in Incs, Sealed(i)
               PROVE  /\ Sealed(i)'
                      /\ ItemsOf(i)' = ItemsOf(i) \ (Incs \X deleted')
                      /\ TestsOf(i)' = TestsOf(i)
                      /\ (i \in verified)' = (i \in verified)
    OBVIOUS
  <2>1. \A w \in Workers : status[i] = "DELIVERED" /\ req[w].inc # i
    BY DEF Sealed
  <2>2. ItemsOf(i) \cap (Incs \X deleted) = {}
    BY DEF Inv, Rooted, ItemsOf
  <2>3. ASSUME NEW w \in Workers, Arrive(w) \/ Advance(w) \/ Fail(w)
        PROVE  Untouched(i) /\ UNCHANGED deleted /\ \A v \in Workers : req'[v].inc # i
    BY <2>1, <2>3, ArriveHolds, AdvanceHolds
  <2>4. CASE \E w \in Workers : Arrive(w) \/ Advance(w) \/ Fail(w)
    BY <2>1, <2>2, <2>3, <2>4 DEF Untouched, Sealed
  <2>5. ASSUME NEW p \in PBIs, DeletePBI(p)
        PROVE  /\ ItemsOf(i)' = ItemsOf(i) \ (Incs \X deleted')
               /\ UNCHANGED <<status, verified, passed, req>>
    BY <2>2, <2>5 DEF DeletePBI, ItemsOf
  <2>6. CASE \E p \in PBIs : DeletePBI(p)
    BY <2>5, <2>6 DEF Sealed, TestsOf
  <2> QED
    BY <2>4, <2>6 DEF Next
<1>2. Spec => [][Final]_vars
  BY <1>1, Invariance, PTL DEF Spec
<1> QED
  BY <1>2 DEF DeliveredIsFinal


=============================================================================
