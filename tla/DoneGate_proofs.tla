--------------------------- MODULE DoneGate_proofs ---------------------------
(***************************************************************************)
(* The gate to "Done" for any number of items, DoD items and requests.  The *)
(* argument: a gate that has passed and was not overtaken has passed the    *)
(* items that are active now, each of them still verified; a gate that has  *)
(* only read its items can pass no more once they were replaced, since ids  *)
(* do not come back; and a request that writes a status on one that is      *)
(* another by now was overtaken.                                            *)
(***************************************************************************)
EXTENDS DoneGate, TLAPS

\* What is about an item of the backlog names one, a verification about to be written
\* a DoD item; an edit has not found its item Done.
Carries(q) ==
    /\ q.op \in {"gate", "checks", "done", "edit", "remove", "return", "find", "put"} => q.pbi \in PBIs
    /\ q.op = "put" => q.at \in DodItems
    /\ q.op = "edit" => q.found = FALSE

\* Who has read an item has read one that was there.
Exist(q) == q.op \in {"edit", "remove"} => status[q.pbi] # "none"

\* Only a team with a definition has a replacement of it.
Owned(q) == q.op \in {"delete", "create"} => exists

\* The items a gate has read are those that are active, or have gone for good.
ReadStands(q) ==
    q.op = "checks" =>
        /\ q.ids # {} /\ q.ids \subseteq used
        /\ q.ids = active \/ q.ids \cap dodItems = {}

\* A gate that passed holds of what there is, unless it was overtaken.
PassedStands(r) ==
    req[r].op = "done" /\ r \notin overtaken =>
        /\ req[r].ids = active
        /\ \A d \in active : <<req[r].pbi, d>> \in verified

\* What has read a status that is another by now was overtaken.
ReadLate(r) ==
    /\ req[r].op \in {"edit", "remove"} /\ req[r].found # (status[req[r].pbi] = "DONE")
    => r \in overtaken

Stands(r) ==
    /\ Carries(req[r]) /\ Owned(req[r]) /\ ReadStands(req[r])
    /\ PassedStands(r) /\ ReadLate(r) /\ Exist(req[r])

IInv == TypeOK /\ DefinitionKept /\ \A r \in Requests : Stands(r)

-----------------------------------------------------------------------------
\* The types but for the requests.
DataTyped ==
    /\ exists \in BOOLEAN /\ torn \in BOOLEAN
    /\ used \subseteq DodItems /\ dodItems \subseteq used /\ active \subseteq dodItems
    /\ ~exists => dodItems = {}
    /\ checked \subseteq PBIs \X dodItems /\ verified \subseteq checked
    /\ status \in [PBIs -> {"none", "open", "DONE"}]
    /\ inForce \subseteq DodItems

LEMMA TypeParts ==
  TypeOK <=> DataTyped /\ req \in [Requests -> Request] /\ overtaken \subseteq Requests
BY DEF TypeOK, DataTyped

\* Where a request goes, the others stay.
LEMMA Goes ==
  ASSUME TypeOK, NEW r \in Requests, NEW x \in Request, Go(r, x)
  PROVE  /\ req' \in [Requests -> Request]
         /\ req'[r] = x
         /\ \A v \in Requests \ {r} : req'[v] = req[v]
BY DEF TypeOK, Go

LEMMA IdleTyped == Idle \in Request
BY DEF Idle, Request, Ops

\* A request that stays as it is still stands when what it relies on does.
LEMMA StaysPut ==
  ASSUME IInv, NEW v \in Requests, req'[v] = req[v],
         exists => exists', used \subseteq used',
         req[v].op = "checks" => \/ active' = active /\ dodItems' = dodItems
                                 \/ req[v].ids \cap dodItems' = {},
         req[v].op = "done" /\ v \notin overtaken' =>
             v \notin overtaken /\ active' = active
             /\ \A d \in active : <<req[v].pbi, d>> \in verified => <<req[v].pbi, d>> \in verified',
         req[v].op \in {"edit", "remove"} /\ v \notin overtaken' =>
             \/ v \notin overtaken /\ status' = status
             \/ req[v].found = (status'[req[v].pbi] = "DONE"),
         \A p \in PBIs : status[p] # "none" => status'[p] # "none"
  PROVE  Stands(v)'
<1>1. Stands(v)
  BY DEF IInv
<1>2. Carries(req[v])' /\ Owned(req[v])'
  BY <1>1 DEF Stands, Carries, Owned
<1>3. ReadStands(req[v])'
  BY <1>1 DEF Stands, ReadStands
<1>4. PassedStands(v)'
  BY <1>1 DEF Stands, PassedStands
<1>5. ReadLate(v)'
  BY <1>1 DEF Stands, ReadLate
<1>6. Exist(req[v])'
  BY <1>1 DEF Stands, Exist, Carries
<1> QED BY <1>2, <1>3, <1>4, <1>5, <1>6 DEF Stands

\* A step of one request that leaves the data alone.
LEMMA QuietStep ==
  ASSUME IInv, NEW r \in Requests, NEW x \in Request, Go(r, x),
         UNCHANGED <<exists, dodItems, active, used, checked, verified, status, inForce>>,
         torn' \in BOOLEAN, overtaken' \in {overtaken, overtaken \ {r}},
         torn => torn', req[r].op = "create" => torn' \/ dodItems # {},
         Stands(r)'
  PROVE  IInv'
<1>1. TypeOK
  BY DEF IInv
<1>2. /\ req' \in [Requests -> Request] /\ req'[r] = x
      /\ \A v \in Requests \ {r} : req'[v] = req[v]
  BY <1>1, Goes
<1>3. TypeOK'
  BY <1>1, <1>2, TypeParts DEF TypeOK
<1>4. ASSUME NEW v \in Requests PROVE Stands(v)'
  <2>1. CASE v = r
    BY <2>1
  <2>2. CASE v # r
    <3>1. v \in overtaken' <=> v \in overtaken
      BY <2>2
    <3> QED BY <1>2, <2>2, <3>1, StaysPut
  <2> QED BY <2>1, <2>2
<1>5. DefinitionKept'
  <2>1. CASE active = inForce
    BY <2>1 DEF DefinitionKept
  <2>2. CASE active # inForce
    <3>1. dodItems = {} /\ (torn \/ Standing({"create"}) # {})
      BY <2>2 DEF IInv, DefinitionKept
    <3>2. ASSUME ~torn' PROVE Standing({"create"})' # {}
      <4>1. PICK v \in Requests : req[v].op = "create"
        BY <3>1, <3>2 DEF Standing
      <4>2. v # r
        BY <3>1, <3>2, <4>1
      <4> QED BY <1>2, <4>1, <4>2 DEF Standing
    <3> QED BY <3>1, <3>2 DEF DefinitionKept
  <2> QED BY <2>1, <2>2
<1> QED BY <1>3, <1>4, <1>5 DEF IInv

-----------------------------------------------------------------------------
(* updatePBI: the gate's reads, and the write.                             *)

LEMMA UpdateStands ==
  ASSUME IInv, NEW r \in Requests, NEW p \in PBIs, NEW op \in {"gate", "edit"},
         UpdatePBI(r, p, op)
  PROVE  IInv'
<1> DEFINE x == [Idle EXCEPT !.op = op, !.pbi = p]
<1>1. x \in Request /\ x.op = op /\ x.pbi = p /\ x.found = FALSE
  BY DEF Idle, Request, Ops
<1>2. Go(r, x) /\ UNCHANGED <<data, status, overtaken>> /\ status[p] # "DONE" /\ req[r].op = "idle"
  BY DEF UpdatePBI, Locked, Idle
<1>3. req'[r] = x
  BY <1>1, <1>2, Goes DEF IInv
<1> HIDE DEF x
<1>4. Stands(r)'
  <2>1. (status'[p] = "DONE") = FALSE /\ status'[p] # "none"
    BY <1>2 DEF UpdatePBI
  <2>2. ReadLate(r)'
    BY <1>1, <1>3, <2>1 DEF ReadLate
  <2> QED BY <1>1, <1>3, <2>1, <2>2 DEF Stands, Carries, Owned, ReadStands, PassedStands, Exist
<1>5. TypeOK
  BY DEF IInv
<1> QED BY <1>1, <1>2, <1>4, <1>5, QuietStep DEF data, TypeOK

LEMMA ReadActiveStands ==
  ASSUME IInv, NEW r \in Requests, ReadActive(r)
  PROVE  IInv'
<1> DEFINE x == [req[r] EXCEPT !.op = IF active = {} THEN "done" ELSE "checks", !.ids = active]
<1>1. TypeOK /\ req[r] \in Request /\ req[r].op = "gate" /\ req[r].pbi \in PBIs
  BY DEF IInv, TypeOK, ReadActive, Stands, Carries
<1>2. /\ x \in Request /\ x.ids = active /\ x.pbi = req[r].pbi
      /\ x.op = IF active = {} THEN "done" ELSE "checks"
  BY <1>1 DEF Request, Ops, TypeOK
<1>3. Go(r, x) /\ UNCHANGED <<data, status, overtaken>>
  BY DEF ReadActive
<1>4. req'[r] = x
  BY <1>1, <1>2, <1>3, Goes
<1> HIDE DEF x
<1>5. Stands(r)'
  BY <1>1, <1>2, <1>3, <1>4
     DEF Stands, Carries, Owned, ReadStands, PassedStands, ReadLate, Exist, data, TypeOK
<1> QED BY <1>1, <1>2, <1>3, <1>5, QuietStep DEF data, TypeOK

\* Every item of a gate that passes is verified, so it is there, and active.
LEMMA ReadVerifiedStands ==
  ASSUME IInv, NEW r \in Requests, ReadVerified(r)
  PROVE  IInv'
<1>1. TypeOK /\ req[r] \in Request /\ req[r].op = "checks" /\ req[r].pbi \in PBIs /\ ReadStands(req[r])
  BY DEF IInv, TypeOK, ReadVerified, Stands, Carries
<1>2. CASE Missing(req[r].pbi, req[r].ids) = {}
  <2> DEFINE x == [req[r] EXCEPT !.op = "done"]
  <2>1. x \in Request /\ x.op = "done" /\ x.ids = req[r].ids /\ x.pbi = req[r].pbi
    BY <1>1 DEF Request, Ops
  <2>2. Go(r, x) /\ UNCHANGED <<data, status, overtaken>>
    BY <1>2 DEF ReadVerified
  <2>3. req'[r] = x
    BY <1>1, <2>1, <2>2, Goes
  <2>4. \A d \in req[r].ids : <<req[r].pbi, d>> \in verified
    BY <1>2 DEF Missing
  <2>5. req[r].ids = active
    <3>1. \A d \in req[r].ids : d \in dodItems
      BY <1>1, <2>4 DEF TypeOK
    <3> QED BY <1>1, <3>1 DEF ReadStands
  <2> HIDE DEF x
  <2>6. Stands(r)'
    BY <1>1, <2>1, <2>2, <2>3, <2>4, <2>5
       DEF Stands, Carries, Owned, ReadStands, PassedStands, ReadLate, Exist, data
  <2> QED BY <1>1, <2>1, <2>2, <2>6, QuietStep DEF data, TypeOK
<1>3. CASE Missing(req[r].pbi, req[r].ids) # {}
  <2>1. Go(r, Idle) /\ overtaken' = overtaken \ {r} /\ UNCHANGED <<data, status>>
    BY <1>3 DEF ReadVerified, Answer
  <2>2. req'[r] = Idle
    BY <1>1, <2>1, Goes, IdleTyped
  <2>3. Stands(r)'
    BY <2>2 DEF Idle, Stands, Carries, Owned, ReadStands, PassedStands, ReadLate, Exist
  <2> QED BY <1>1, <2>1, <2>3, QuietStep, IdleTyped DEF data, TypeOK
<1> QED BY <1>2, <1>3

\* The other statuses are as they were, and no replacement moves.
LEMMA StatusStands ==
  ASSUME IInv, UNCHANGED data, status' \in [PBIs -> {"none", "open", "DONE"}],
         req' \in [Requests -> Request], NEW R \in SUBSET Requests,
         \A v \in R : req'[v] = Idle /\ req[v].op # "create",
         \A v \in Requests \ R : req'[v] = req[v],
         overtaken' = (overtaken \ R) \cup Late,
         \A p \in PBIs : status[p] # "none" => status'[p] # "none"
  PROVE  IInv'
<1>1. TypeOK
  BY DEF IInv
<1>2. Late \subseteq Requests
  BY DEF Late, Standing
<1>3. TypeOK'
  BY <1>1, <1>2 DEF TypeOK, data
<1>4. ASSUME NEW v \in Requests PROVE Stands(v)'
  <2>1. CASE v \in R
    BY <2>1 DEF Idle, Stands, Carries, Owned, ReadStands, PassedStands, ReadLate, Exist
  <2>2. CASE v \notin R
    <3>1. v \notin overtaken' => v \notin overtaken
      BY <2>2
    <3>2. req[v].op \in {"edit", "remove"} /\ v \notin overtaken'
            => req[v].found = (status'[req[v].pbi] = "DONE")
      <4>1. req[v].found \in BOOLEAN
        BY <1>1 DEF TypeOK, Request
      <4> QED BY <4>1 DEF Late, Standing
    <3> QED BY <2>2, <3>1, <3>2, StaysPut DEF data
  <2> QED BY <2>1, <2>2
<1>5. Standing({"create"}) \subseteq Standing({"create"})'
  BY DEF Standing
<1>6. DefinitionKept'
  BY <1>5 DEF IInv, DefinitionKept, data
<1> QED BY <1>3, <1>4, <1>6 DEF IInv

LEMMA WriteStands ==
  ASSUME IInv, NEW r \in Requests, WriteStatus(r)
  PROVE  IInv'
<1> DEFINE s == IF req[r].op = "done" \/ (req[r].op = "remove" /\ req[r].found) THEN "DONE" ELSE "open"
<1>1. TypeOK
  BY DEF IInv
<1>2. /\ status' = [status EXCEPT ![req[r].pbi] = s] /\ s \in {"open", "DONE"}
      /\ overtaken' = (overtaken \ {r}) \cup Late
      /\ Go(r, Idle) /\ UNCHANGED data /\ req[r].op # "create"
  BY DEF WriteStatus
<1> HIDE DEF s
<1>3. /\ status' \in [PBIs -> {"none", "open", "DONE"}]
      /\ \A p \in PBIs : status[p] # "none" => status'[p] # "none"
  BY <1>1, <1>2 DEF TypeOK
<1>4. /\ req' \in [Requests -> Request] /\ req'[r] = Idle
      /\ \A v \in Requests \ {r} : req'[v] = req[v]
  BY <1>1, <1>2, Goes, IdleTyped
<1>5. /\ \A v \in {r} : req'[v] = Idle /\ req[v].op # "create"
      /\ {r} \in SUBSET Requests
  BY <1>2, <1>4
<1> QED BY <1>2, <1>3, <1>4, <1>5, StatusStands

LEMMA StartStands ==
  ASSUME IInv, Start \/ Rollback
  PROVE  IInv'
<1>1. TypeOK
  BY DEF IInv
<1>2. UNCHANGED <<data, req>> /\ overtaken' = overtaken \cup Late
  BY DEF Start, Rollback, StartSprint, RollbackSprintStart
<1>3. /\ status' \in [PBIs -> {"none", "open", "DONE"}]
      /\ \A p \in PBIs : status[p] # "none" => status'[p] # "none"
  BY <1>1 DEF Start, Rollback, StartSprint, RollbackSprintStart, TypeOK
<1>4. req' \in [Requests -> Request]
  BY <1>1, <1>2 DEF TypeOK
<1>5. /\ \A v \in {} : req'[v] = Idle /\ req[v].op # "create"
      /\ \A v \in Requests \ {} : req'[v] = req[v]
      /\ overtaken' = (overtaken \ {}) \cup Late /\ {} \in SUBSET Requests
      /\ UNCHANGED data
  BY <1>2
<1> QED BY <1>3, <1>4, <1>5, StatusStands

\* Nobody has read an item before there is one; or it was read so.
LEMMA CreatePBIStands ==
  ASSUME IInv, NEW p \in PBIs, NEW s \in {"open", "DONE"}, CreatePBI(p, s)
  PROVE  IInv'
<1>1. TypeOK /\ status[p] = "none" /\ UNCHANGED <<data, req, overtaken>>
      /\ status' = [status EXCEPT ![p] = s]
  BY DEF IInv, CreatePBI
<1>2. TypeOK'
  BY <1>1 DEF TypeOK, data
<1>3. ASSUME NEW v \in Requests PROVE Stands(v)'
  <2>1. Carries(req[v]) /\ Exist(req[v])
    BY DEF IInv, Stands
  <2>2. req[v].op \in {"edit", "remove"} => status'[req[v].pbi] = status[req[v].pbi]
    BY <1>1, <2>1 DEF Carries, Exist, TypeOK
  <2>3. ReadLate(v)'
    BY <1>1, <1>3, <2>2 DEF IInv, Stands, ReadLate
  <2>4. Exist(req[v])'
    BY <1>1, <2>1 DEF Exist, TypeOK, Carries
  <2>5. PassedStands(v)' /\ Carries(req[v])' /\ Owned(req[v])' /\ ReadStands(req[v])'
    BY <1>1 DEF IInv, Stands, data, Carries, Owned, ReadStands, PassedStands
  <2> QED BY <2>3, <2>4, <2>5 DEF Stands
<1>4. DefinitionKept'
  BY <1>1 DEF IInv, DefinitionKept, data, Standing
<1> QED BY <1>2, <1>3, <1>4 DEF IInv

LEMMA RemoveStands ==
  ASSUME IInv, NEW r \in Requests, NEW p \in PBIs, NEW op \in {"remove", "return"},
         RemovePBI(r, p, op)
  PROVE  IInv'
<1> DEFINE found == status[p] = "DONE"
           x == [Idle EXCEPT !.op = op, !.pbi = p, !.found = found]
<1>0. found \in BOOLEAN
  OBVIOUS
<1>1. x \in Request /\ x.op = op /\ x.pbi = p /\ x.found = found
  <2> HIDE DEF found
  <2> QED BY <1>0 DEF Idle, Request, Ops
<1>2. Go(r, x) /\ UNCHANGED <<data, status, overtaken>> /\ status[p] # "none" /\ req[r].op = "idle"
  BY DEF RemovePBI, Idle
<1>3. req'[r] = x
  BY <1>1, <1>2, Goes DEF IInv
<1> HIDE DEF x
<1>4. Stands(r)'
  BY <1>1, <1>2, <1>3 DEF Stands, Carries, Owned, ReadStands, PassedStands, ReadLate, Exist
<1>5. TypeOK
  BY DEF IInv
<1> QED BY <1>1, <1>2, <1>4, <1>5, QuietStep DEF data, TypeOK

-----------------------------------------------------------------------------
(* verifyDoDForPBI                                                         *)

LEMMA VerifyStands ==
  ASSUME IInv, NEW r \in Requests, NEW p \in PBIs, NEW ids \in SUBSET DodItems,
         NEW yes \in SUBSET ids, VerifyDoDForPBI(r, p, ids, yes)
  PROVE  IInv'
<1> DEFINE x == [Idle EXCEPT !.op = "find", !.pbi = p, !.ids = ids, !.yes = yes]
<1>1. x \in Request /\ x.op = "find" /\ x.pbi = p
  BY DEF Idle, Request, Ops
<1>2. TypeOK /\ Go(r, x) /\ UNCHANGED <<data, status, overtaken>> /\ req[r].op = "idle"
  BY DEF IInv, VerifyDoDForPBI, Idle
<1>3. req'[r] = x
  BY <1>1, <1>2, Goes
<1> HIDE DEF x
<1>4. Stands(r)'
  BY <1>1, <1>3 DEF Stands, Carries, Owned, ReadStands, PassedStands, ReadLate, Exist
<1> QED BY <1>1, <1>2, <1>4, QuietStep DEF data, TypeOK

LEMMA FindStands ==
  ASSUME IInv, NEW r \in Requests, NEW d \in DodItems, FindCheck(r, d)
  PROVE  IInv'
<1> DEFINE found == <<req[r].pbi, d>> \in checked
           x == [req[r] EXCEPT !.op = "put", !.at = d, !.found = found]
<1>0. found \in BOOLEAN
  OBVIOUS
<1>1. TypeOK /\ req[r] \in Request /\ req[r].op = "find" /\ req[r].pbi \in PBIs
  BY DEF IInv, TypeOK, FindCheck, Stands, Carries
<1>2. x \in Request /\ x.op = "put" /\ x.pbi = req[r].pbi /\ x.at = d
  <2> HIDE DEF found
  <2> QED BY <1>0, <1>1 DEF Request, Ops
<1>3. Go(r, x) /\ UNCHANGED <<data, status, overtaken>>
  BY DEF FindCheck
<1>4. req'[r] = x
  BY <1>1, <1>2, <1>3, Goes
<1> HIDE DEF x
<1>5. Stands(r)'
  BY <1>1, <1>2, <1>4 DEF Stands, Carries, Owned, ReadStands, PassedStands, ReadLate, Exist
<1> QED BY <1>1, <1>2, <1>3, <1>5, QuietStep DEF data, TypeOK

\* The row is of an item of the definition; a gate that relied on it is overtaken.
LEMMA PutStands ==
  ASSUME IInv, NEW r \in Requests, PutCheck(r)
  PROVE  IInv'
<1> DEFINE q == req[r]
           write == <<q.pbi, q.at>>
           rest == q.ids \ {q.at}
           x == IF rest = {} THEN Idle
                ELSE [q EXCEPT !.op = "find", !.ids = rest, !.at = NoItem, !.found = FALSE]
           gates == {v \in Standing({"done"}) : req[v].pbi = q.pbi /\ q.at \in req[v].ids}
<1>1. /\ TypeOK /\ q \in Request /\ q.op = "put" /\ q.pbi \in PBIs /\ Writable(r)
      /\ \A v \in Requests : Stands(v)
  BY DEF IInv, TypeOK, PutCheck, Stands, Carries
<1>2. /\ checked' = checked \cup {write}
      /\ verified' = IF q.at \in q.yes THEN verified \cup {write} ELSE verified \ {write}
      /\ overtaken' = overtaken \cup IF q.at \in q.yes THEN {} ELSE gates
      /\ Go(r, x)
      /\ UNCHANGED <<exists, dodItems, active, used, status, inForce, torn>>
  BY DEF PutCheck
<1>3. write \in PBIs \X dodItems
  BY <1>1 DEF Writable, TypeOK
<1>4. x \in Request /\ (x = Idle \/ (x.op = "find" /\ x.pbi = q.pbi))
  <2> DEFINE y == [q EXCEPT !.op = "find", !.ids = rest, !.at = NoItem, !.found = FALSE]
  <2>1. rest \in SUBSET DodItems
    BY <1>1 DEF Request
  <2>2. y \in Request /\ y.op = "find" /\ y.pbi = q.pbi
    <3> HIDE DEF rest
    <3> QED BY <1>1, <2>1 DEF Request, Ops
  <2>3. x = IF rest = {} THEN Idle ELSE y
    OBVIOUS
  <2> HIDE DEF x, y
  <2> QED BY <2>2, <2>3, IdleTyped
<1>5. /\ req' \in [Requests -> Request] /\ req'[r] = x
      /\ \A v \in Requests \ {r} : req'[v] = req[v]
  BY <1>1, <1>2, <1>4, Goes
<1> HIDE DEF x
<1>6. TypeOK'
  BY <1>1, <1>2, <1>3, <1>5 DEF TypeOK, Standing
<1>7. ASSUME NEW v \in Requests PROVE Stands(v)'
  <2>1. CASE v = r
    BY <1>1, <1>4, <1>5, <2>1
       DEF Idle, Stands, Carries, Owned, ReadStands, PassedStands, ReadLate, Exist
  <2>2. CASE v # r
    <3>1. req[v].op = "done" /\ v \notin overtaken' =>
            \A d \in active : <<req[v].pbi, d>> \in verified => <<req[v].pbi, d>> \in verified'
      <4> SUFFICES ASSUME req[v].op = "done", v \notin overtaken', NEW d \in active,
                          <<req[v].pbi, d>> \in verified
                   PROVE  <<req[v].pbi, d>> \in verified'
        OBVIOUS
      <4>1. CASE q.at \in q.yes
        BY <1>2, <4>1
      <4>2. CASE q.at \notin q.yes
        <5>1. v \notin gates /\ v \notin overtaken
          BY <1>2, <4>2
        <5>2. req[v].ids = active
          BY <1>1, <5>1 DEF Stands, PassedStands
        <5>3. <<req[v].pbi, d>> # write
          BY <5>1, <5>2 DEF Standing
        <5> QED BY <1>2, <4>2, <5>3
      <4> QED BY <4>1, <4>2
    <3> QED BY <1>2, <1>5, <2>2, <3>1, StaysPut
  <2> QED BY <2>1, <2>2
<1>8. Standing({"create"}) \subseteq Standing({"create"})'
  BY <1>1, <1>5 DEF Standing
<1>9. DefinitionKept'
  BY <1>2, <1>8 DEF IInv, DefinitionKept
<1> QED BY <1>6, <1>7, <1>9 DEF IInv

\* The rows a deleted account takes, likewise.
LEMMA EraseStands ==
  ASSUME IInv, NEW lost \in SUBSET checked, EraseVerifier(lost)
  PROVE  IInv'
<1> DEFINE late == {v \in Standing({"put"}) : req[v].found /\ <<req[v].pbi, req[v].at>> \in lost}
           gates == {v \in Standing({"done"}) : \E d \in req[v].ids : <<req[v].pbi, d>> \in lost}
<1>1. TypeOK /\ \A v \in Requests : Stands(v)
  BY DEF IInv
<1>2. /\ checked' = checked \ lost /\ verified' = verified \ lost
      /\ req' = [v \in Requests |-> IF v \in late THEN Idle ELSE req[v]]
      /\ overtaken' = overtaken \cup gates
      /\ UNCHANGED <<exists, dodItems, active, used, status, inForce, torn>>
  BY DEF EraseVerifier
<1>3. TypeOK'
  BY <1>1, <1>2, IdleTyped DEF TypeOK, Standing
<1>4. ASSUME NEW v \in Requests PROVE Stands(v)'
  <2>1. CASE v \in late
    <3>1. req'[v] = Idle
      BY <1>2, <2>1
    <3> QED BY <3>1 DEF Idle, Stands, Carries, Owned, ReadStands, PassedStands, ReadLate, Exist
  <2>2. CASE v \notin late
    <3>1. req'[v] = req[v]
      BY <1>2, <2>2
    <3>2. req[v].op = "done" /\ v \notin overtaken' =>
            \A d \in active : <<req[v].pbi, d>> \in verified => <<req[v].pbi, d>> \in verified'
      <4> SUFFICES ASSUME req[v].op = "done", v \notin overtaken', NEW d \in active,
                          <<req[v].pbi, d>> \in verified
                   PROVE  <<req[v].pbi, d>> \in verified'
        OBVIOUS
      <4>1. v \notin gates /\ v \notin overtaken
        BY <1>2
      <4>2. req[v].ids = active
        BY <1>1, <4>1 DEF Stands, PassedStands
      <4>3. <<req[v].pbi, d>> \notin lost
        BY <4>1, <4>2 DEF Standing
      <4> QED BY <1>2, <4>3
    <3> QED BY <1>2, <3>1, <3>2, StaysPut
  <2> QED BY <2>1, <2>2
<1>5. Standing({"create"}) \subseteq Standing({"create"})'
  BY <1>2 DEF Standing
<1>6. DefinitionKept'
  BY <1>2, <1>5 DEF IInv, DefinitionKept
<1> QED BY <1>3, <1>4, <1>6 DEF IInv

-----------------------------------------------------------------------------
(* The definition and its replacement.                                     *)

LEMMA FindDefinitionStands ==
  ASSUME IInv, NEW r \in Requests, NEW op \in {"get", "default"}, FindDefinition(r, op)
  PROVE  IInv'
<1>1. PICK o \in {"get", "default", "delete"} :
          Go(r, [Idle EXCEPT !.op = o]) /\ (o = "delete" => exists)
  BY DEF FindDefinition
<1> DEFINE x == [Idle EXCEPT !.op = o]
<1>2. x \in Request /\ x.op = o
  BY DEF Idle, Request, Ops
<1>3. TypeOK /\ UNCHANGED <<data, status, overtaken>> /\ req[r].op = "idle"
  BY DEF IInv, FindDefinition, Idle
<1>4. req'[r] = x
  BY <1>1, <1>2, <1>3, Goes
<1> HIDE DEF x
<1>5. Stands(r)'
  BY <1>1, <1>2, <1>3, <1>4
     DEF Stands, Carries, Owned, ReadStands, PassedStands, ReadLate, Exist, data
<1>6. Go(r, x)
  BY <1>1 DEF x
<1> QED BY <1>2, <1>3, <1>5, <1>6, QuietStep DEF data, TypeOK

\* Whatever replaces the items overtakes the gates that passed; a gate that has read
\* the old ones has read none of the new.
LEMMA ReplacedStands ==
  ASSUME IInv, NEW r \in Requests, NEW x \in Request, Go(r, x),
         exists => exists', used \subseteq used', status' = status,
         dodItems' \cap used \subseteq dodItems,
         dodItems' # {} /\ active' # active => dodItems = {},
         dodItems' # dodItems /\ dodItems' # {} => dodItems = {},
         overtaken' = GatesOvertaken,
         x.op \in {"idle", "delete", "create"}, x.op # "idle" => exists',
         NEW v \in Requests
  PROVE  Stands(v)'
<1>1. TypeOK /\ Stands(v)
  BY DEF IInv
<1>2. req'[r] = x /\ (v # r => req'[v] = req[v])
  BY <1>1, Goes
<1>3. CASE v = r
  BY <1>2, <1>3 DEF Stands, Carries, Owned, ReadStands, PassedStands, ReadLate, Exist
<1>4. CASE v # r
  <2>1. v \notin overtaken' => v \notin overtaken /\ req[v].op # "done"
    BY DEF GatesOvertaken, Standing
  <2>2. req[v].op = "checks" => \/ active' = active /\ dodItems' = dodItems
                                \/ req[v].ids \cap dodItems' = {}
    <3> SUFFICES ASSUME req[v].op = "checks", req[v].ids \cap dodItems' # {}
                 PROVE  active' = active /\ dodItems' = dodItems
      OBVIOUS
    <3>1. req[v].ids \subseteq used /\ (req[v].ids = active \/ req[v].ids \cap dodItems = {})
      BY <1>1 DEF Stands, ReadStands
    <3>2. req[v].ids \cap dodItems # {}
      BY <3>1
    <3> QED BY <3>2
  <2> QED BY <1>2, <1>4, <2>1, <2>2, StaysPut
<1> QED BY <1>3, <1>4

LEMMA CreateDefaultStands ==
  ASSUME IInv, NEW r \in Requests, NEW N \in SUBSET (DodItems \ used), CreateDefault(r, N)
  PROVE  IInv'
<1> DEFINE x == IF req[r].op = "get" THEN Idle ELSE [Idle EXCEPT !.op = "delete"]
<1>1. TypeOK /\ ~exists /\ dodItems = {} /\ req[r].op \in {"get", "default"}
  BY DEF IInv, TypeOK, CreateDefault
<1>2. /\ exists' = TRUE /\ dodItems' = N /\ active' = N /\ inForce' = N
      /\ used' = used \cup N /\ torn' = FALSE /\ overtaken' = GatesOvertaken
      /\ Go(r, x) /\ UNCHANGED <<checked, verified, status>>
  BY DEF CreateDefault
<1>3. x \in Request /\ x.op \in {"idle", "delete"}
  BY DEF Idle, Request, Ops
<1>4. req' \in [Requests -> Request]
  BY <1>1, <1>2, <1>3, Goes
<1> HIDE DEF x
<1>5. TypeOK'
  BY <1>1, <1>2, <1>4 DEF TypeOK, GatesOvertaken, Standing
<1>6. ASSUME NEW v \in Requests PROVE Stands(v)'
  BY <1>1, <1>2, <1>3, ReplacedStands
<1> QED BY <1>2, <1>5, <1>6 DEF IInv, DefinitionKept

LEMMA DeleteStands ==
  ASSUME IInv, NEW r \in Requests, DeleteItems(r)
  PROVE  IInv'
<1> DEFINE x == [req[r] EXCEPT !.op = "create"]
<1>1. TypeOK /\ req[r] \in Request /\ req[r].op = "delete" /\ exists
  BY DEF IInv, TypeOK, DeleteItems, Stands, Owned
<1>2. /\ dodItems' = {} /\ active' = {} /\ checked' = {} /\ verified' = {}
      /\ overtaken' = GatesOvertaken /\ Go(r, x)
      /\ UNCHANGED <<exists, used, status, inForce, torn>>
  BY DEF DeleteItems
<1>3. x \in Request /\ x.op = "create"
  BY <1>1 DEF Request, Ops
<1>4. req' \in [Requests -> Request] /\ req'[r] = x
  BY <1>1, <1>2, <1>3, Goes
<1> HIDE DEF x
<1>5. TypeOK'
  BY <1>1, <1>2, <1>4 DEF TypeOK, GatesOvertaken, Standing
<1>6. ASSUME NEW v \in Requests PROVE Stands(v)'
  BY <1>1, <1>2, <1>3, ReplacedStands
<1>7. r \in Standing({"create"})'
  BY <1>3, <1>4 DEF Standing
<1> QED BY <1>2, <1>5, <1>6, <1>7 DEF IInv, DefinitionKept

LEMMA CreateStands ==
  ASSUME IInv, NEW r \in Requests, NEW N \in SUBSET (DodItems \ used), NEW A \in SUBSET N,
         CreateItems(r, N, A)
  PROVE  IInv'
<1>1. TypeOK /\ req[r].op = "create" /\ exists /\ (N = {} \/ dodItems = {})
  BY DEF IInv, CreateItems, Stands, Owned
<1>2. /\ dodItems' = dodItems \cup N /\ active' = active \cup A
      /\ inForce' = active' /\ used' = used \cup N /\ torn' = FALSE
      /\ overtaken' = GatesOvertaken /\ Go(r, Idle)
      /\ UNCHANGED <<exists, checked, verified, status>>
  BY DEF CreateItems
<1>3. req' \in [Requests -> Request]
  BY <1>1, <1>2, Goes, IdleTyped
<1>4. TypeOK'
  BY <1>1, <1>2, <1>3 DEF TypeOK, GatesOvertaken, Standing
<1>5. ASSUME NEW v \in Requests PROVE Stands(v)'
  <2>1. Idle.op = "idle"
    BY DEF Idle
  <2>2. dodItems' \cap used \subseteq dodItems /\ used \subseteq used'
    BY <1>2
  <2>3. active' # active => dodItems = {}
    BY <1>1, <1>2
  <2>4. dodItems' # dodItems => dodItems = {}
    BY <1>1, <1>2
  <2> QED BY <1>1, <1>2, <2>1, <2>2, <2>3, <2>4, ReplacedStands, IdleTyped
<1> QED BY <1>2, <1>4, <1>5 DEF IInv, DefinitionKept

LEMMA FailStands ==
  ASSUME IInv, NEW r \in Requests, Fail(r)
  PROVE  IInv'
<1>1. TypeOK /\ req'[r] = Idle /\ Go(r, Idle) /\ overtaken' = overtaken \ {r}
  BY Goes, IdleTyped DEF IInv, Fail, Answer
<1>2. Stands(r)'
  BY <1>1 DEF Idle, Stands, Carries, Owned, ReadStands, PassedStands, ReadLate, Exist
<1>3. /\ torn' = (torn \/ (req[r].op = "create" /\ dodItems = {}))
      /\ UNCHANGED <<exists, dodItems, active, used, checked, verified, status, inForce>>
  BY DEF Fail
<1>4. torn' \in BOOLEAN /\ (torn => torn') /\ (req[r].op = "create" => torn' \/ dodItems # {})
  BY <1>3
<1> QED BY <1>1, <1>2, <1>3, <1>4, QuietStep, IdleTyped

-----------------------------------------------------------------------------
LEMMA Initially == Init => IInv
<1> SUFFICES ASSUME Init PROVE IInv
  OBVIOUS
<1>1. TypeOK
  BY IdleTyped DEF Init, TypeOK
<1>2. \A r \in Requests : Stands(r)
  BY DEF Init, Idle, Stands, Carries, Owned, ReadStands, PassedStands, ReadLate, Exist
<1>3. DefinitionKept
  BY DEF Init, DefinitionKept
<1> QED BY <1>1, <1>2, <1>3 DEF IInv

LEMMA Stutter == IInv /\ UNCHANGED vars => IInv'
BY DEF IInv, TypeOK, DefinitionKept, Stands, Carries, Owned, ReadStands, PassedStands, ReadLate, Exist,
       Standing, vars, data

LEMMA NextStep == IInv /\ [Next]_vars => IInv'
<1>1. ASSUME IInv, NEW lost \in SUBSET checked, EraseVerifier(lost) PROVE IInv'
  BY <1>1, EraseStands
<1>2. ASSUME IInv, NEW r \in Requests, NEW p \in PBIs, NEW op \in {"gate", "edit"},
             UpdatePBI(r, p, op)
      PROVE  IInv'
  BY <1>2, UpdateStands
<1>3. ASSUME IInv, NEW r \in Requests, ReadActive(r) \/ ReadVerified(r) \/ WriteStatus(r)
      PROVE  IInv'
  BY <1>3, ReadActiveStands, ReadVerifiedStands, WriteStands
<1>4. ASSUME IInv, NEW r \in Requests, NEW p \in PBIs, NEW ids \in SUBSET dodItems,
             NEW yes \in SUBSET ids, VerifyDoDForPBI(r, p, ids, yes)
      PROVE  IInv'
  <2>1. ids \in SUBSET DodItems
    BY <1>4 DEF IInv, TypeOK
  <2> QED BY <1>4, <2>1, VerifyStands
<1>5. ASSUME IInv, NEW r \in Requests, NEW d \in DodItems, FindCheck(r, d) PROVE IInv'
  BY <1>5, FindStands
<1>6. ASSUME IInv, NEW r \in Requests, PutCheck(r) \/ DeleteItems(r) \/ Fail(r) PROVE IInv'
  BY <1>6, PutStands, DeleteStands, FailStands
<1>7. ASSUME IInv, NEW r \in Requests, NEW op \in {"get", "default"}, FindDefinition(r, op)
      PROVE  IInv'
  BY <1>7, FindDefinitionStands
<1>8. ASSUME IInv, NEW r \in Requests, NEW N \in SUBSET (DodItems \ used), CreateDefault(r, N)
      PROVE  IInv'
  BY <1>8, CreateDefaultStands
<1>9. ASSUME IInv, NEW r \in Requests, NEW N \in SUBSET (DodItems \ used), NEW A \in SUBSET N,
             CreateItems(r, N, A)
      PROVE  IInv'
  BY <1>9, CreateStands
<1>10. ASSUME IInv, NEW r \in Requests, NEW p \in PBIs, NEW op \in {"remove", "return"},
              RemovePBI(r, p, op)
       PROVE  IInv'
  BY <1>10, RemoveStands
<1>11. ASSUME IInv, NEW p \in PBIs, NEW s \in {"open", "DONE"}, CreatePBI(p, s) PROVE IInv'
  BY <1>11, CreatePBIStands
<1>12. ASSUME IInv, Start \/ Rollback PROVE IInv'
  BY <1>12, StartStands
<1> QED BY <1>1, <1>2, <1>3, <1>4, <1>5, <1>6, <1>7, <1>8, <1>9, <1>10, <1>11, <1>12, Stutter DEF Next

\* The strengthened invariant holds in every reachable state.
THEOREM Inductive == Spec => []IInv
BY Initially, NextStep, PTL DEF Spec

\* Rows and requests keep their types; a verification goes with its item.
THEOREM GateTyped == Spec => []TypeOK
<1>1. IInv => TypeOK
  BY DEF IInv
<1> QED BY <1>1, Inductive, PTL

\* The active items are those of the last answer, but for a replacement between its
\* deletion and its creation, or one that stopped there.
THEOREM DefinitionStays == Spec => []DefinitionKept
<1>1. IInv => DefinitionKept
  BY DEF IInv
<1> QED BY <1>1, Inductive, PTL

\* The steps that change the status of an item, and the request whose step it is.
LEMMA OnlyWrites ==
  ASSUME IInv, [Next]_vars, NEW p \in PBIs, status'[p] # status[p]
  PROVE  \/ status[p] = "none" \/ Start \/ Rollback
         \/ \E r \in Requests :
               /\ req[r].op \in {"done", "edit", "remove", "return"} /\ req[r].pbi = p
               /\ req'[r] # req[r]
               /\ status'[p] = IF req[r].op = "done" \/ (req[r].op = "remove" /\ req[r].found)
                               THEN "DONE" ELSE "open"
<1>1. TypeOK
  BY DEF IInv
<1>2. ASSUME NEW x \in PBIs, NEW s \in {"open", "DONE"}, CreatePBI(x, s) PROVE status[p] = "none"
  BY <1>1, <1>2 DEF CreatePBI, TypeOK
<1>3. ASSUME NEW r \in Requests, WriteStatus(r)
      PROVE  /\ req[r].op \in {"done", "edit", "remove", "return"} /\ req[r].pbi = p
             /\ req'[r] # req[r]
             /\ status'[p] = IF req[r].op = "done" \/ (req[r].op = "remove" /\ req[r].found)
                             THEN "DONE" ELSE "open"
  <2>1. req'[r] = Idle
    BY <1>1, <1>3, Goes, IdleTyped DEF WriteStatus
  <2>2. req'[r] # req[r]
    BY <1>3, <2>1 DEF WriteStatus, Idle
  <2> QED BY <1>1, <1>3, <2>2 DEF WriteStatus, TypeOK
<1>4. \/ \E x \in PBIs, s \in {"open", "DONE"} : CreatePBI(x, s)
      \/ Start \/ Rollback \/ \E r \in Requests : WriteStatus(r)
  BY DEF Next, vars, EraseVerifier, UpdatePBI, RemovePBI, ReadActive, ReadVerified, VerifyDoDForPBI,
         FindCheck, PutCheck, FindDefinition, CreateDefault, DeleteItems, CreateItems, Fail
<1> QED BY <1>2, <1>3, <1>4

\* For any number of requests, what goes through the gate becomes Done only with every
\* item in force verified, unless the definition was gone or the gate was overtaken;
\* what does not is a creation, a rollback, or a removal that was overtaken.
THEOREM DoneVerified == Spec => DoneIsVerified
<1> DEFINE Verified == \A p \in PBIs : status[p] # "DONE" /\ status'[p] = "DONE" =>
                         \/ \A d \in inForce : <<p, d>> \in verified
                         \/ active # inForce
                         \/ \E r \in overtaken : req[r].op \in {"done", "remove"} /\ req[r].pbi = p
                         \/ status[p] = "none" \/ Rollback
<1>1. IInv /\ [Next]_vars => [Verified]_vars
  <2> SUFFICES ASSUME IInv, [Next]_vars, NEW p \in PBIs, status[p] # "DONE", status'[p] = "DONE",
                      active = inForce, status[p] # "none", ~Rollback,
                      ~ \E r \in overtaken : req[r].op \in {"done", "remove"} /\ req[r].pbi = p
               PROVE  \A d \in inForce : <<p, d>> \in verified
    OBVIOUS
  <2>1. ~Start
    BY DEF Start, StartSprint
  <2>2. PICK r \in Requests : /\ req[r].pbi = p
                              /\ \/ req[r].op = "done"
                                 \/ req[r].op = "remove" /\ req[r].found
    BY <2>1, OnlyWrites
  <2>3. Stands(r) /\ r \notin overtaken
    BY <2>2 DEF IInv
  <2>4. req[r].op = "done"
    BY <2>2, <2>3 DEF Stands, ReadLate
  <2> QED BY <2>2, <2>3, <2>4 DEF Stands, PassedStands
<1> QED BY <1>1, Inductive, PTL DEF Spec, DoneIsVerified

\* For any number of requests, a Done item is reopened by an update, or a removal that
\* keeps its status, only if that had read it before it was Done; and else by what the
\* lock does not bind: a removal that returns it, a start and its rollback.
THEOREM DoneStaysDone == Spec => DoneStays
<1> DEFINE Stay == \A p \in PBIs : status[p] = "DONE" /\ status'[p] # "DONE" =>
                     \/ \E r \in overtaken : req[r].op \in {"edit", "remove"} /\ req[r].pbi = p
                     \/ \E r \in Requests :
                           req[r].op = "return" /\ req[r].pbi = p /\ req'[r] # req[r]
                     \/ Start \/ Rollback
<1>1. IInv /\ [Next]_vars => [Stay]_vars
  <2> SUFFICES ASSUME IInv, [Next]_vars, NEW p \in PBIs, status[p] = "DONE", status'[p] # "DONE",
                      ~Start, ~Rollback,
                      ~ \E r \in Requests :
                            req[r].op = "return" /\ req[r].pbi = p /\ req'[r] # req[r]
               PROVE  \E r \in overtaken : req[r].op \in {"edit", "remove"} /\ req[r].pbi = p
    OBVIOUS
  <2>1. PICK r \in Requests : /\ req[r].op \in {"edit", "remove"} /\ req[r].pbi = p
                              /\ req[r].op = "remove" => ~req[r].found
    BY OnlyWrites
  <2>2. Carries(req[r]) /\ ReadLate(r) /\ req[r].found \in BOOLEAN
    BY DEF IInv, Stands, TypeOK, Request
  <2>3. req[r].op = "edit" => req[r].found = FALSE
    BY <2>2 DEF Carries
  <2>4. ~req[r].found
    BY <2>1, <2>3
  <2>5. req[r].found = FALSE
    BY <2>2, <2>4
  <2>6. status[req[r].pbi] = "DONE"
    BY <2>1
  <2>7. req[r].found # (status[req[r].pbi] = "DONE")
    BY <2>5, <2>6
  <2> QED BY <2>1, <2>2, <2>7 DEF ReadLate
<1> QED BY <1>1, Inductive, PTL DEF Spec, DoneStays
=============================================================================
