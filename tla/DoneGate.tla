------------------------------- MODULE DoneGate -------------------------------
(* The Definition of Done as the gate to "Done" (dod.service.ts, and updatePBI  *)
(* of backlog.service.ts), and all that writes an item's status besides.  A      *)
(* request is cut at its awaits.  Replacing the definition deletes its items,    *)
(* and with them the verifications, before it creates the new ones.              *)

CONSTANTS PBIs, DodItems, Requests, NoPBI, NoItem

VARIABLES
    exists,    \* the team has a Definition of Done
    dodItems,  \* its items
    active,    \* those with isActive
    used,      \* ids ever given to an item: a UUID does not come back
    checked,   \* doDChecklistVerification rows: <<item of the backlog, DoD item>>
    verified,  \* those with isVerified
    status,    \* "none" before the item is created, "DONE", or "open" for the others
    req,       \* what each request in flight has read
    inForce,   \* history: the active items the last definition answered with
    torn,      \* history: a replacement stopped between its deletion and its creation
    overtaken  \* history: requests about to write on what no longer holds

data == <<exists, dodItems, active, used, checked, verified, inForce, torn>>
vars == <<data, status, req, overtaken>>

\* Where a request stands: "gate", "checks" and "done" are updates to DONE, "edit" is one
\* that read the item not DONE and writes it another status, "remove" and "return" take
\* it from the Sprint as it was and as READY, "find" and "put" are verifications,
\* "delete" and "create" a replacement of the definition, which "default" precedes, and
\* "get" a read that creates one.
Ops == {"idle", "gate", "checks", "done", "edit", "remove", "return", "find", "put",
        "delete", "create", "default", "get"}

Request == [op : Ops, pbi : PBIs \cup {NoPBI}, ids : SUBSET DodItems,
            yes : SUBSET DodItems, at : DodItems \cup {NoItem}, found : BOOLEAN]

Idle == [op |-> "idle", pbi |-> NoPBI, ids |-> {}, yes |-> {}, at |-> NoItem, found |-> FALSE]

\* The rows keep their types; a verification goes with its item.
TypeOK ==
    /\ exists \in BOOLEAN /\ torn \in BOOLEAN
    /\ used \subseteq DodItems /\ dodItems \subseteq used /\ active \subseteq dodItems
    /\ ~exists => dodItems = {}
    /\ checked \subseteq PBIs \X dodItems /\ verified \subseteq checked
    /\ status \in [PBIs -> {"none", "open", "DONE"}]
    /\ req \in [Requests -> Request]
    /\ inForce \subseteq DodItems /\ overtaken \subseteq Requests

Init ==
    /\ exists = FALSE /\ torn = FALSE
    /\ dodItems = {} /\ active = {} /\ used = {} /\ inForce = {}
    /\ checked = {} /\ verified = {}
    /\ status = [p \in PBIs |-> "none"]
    /\ req = [r \in Requests |-> Idle] /\ overtaken = {}

Go(r, x) == req' = [req EXCEPT ![r] = x]
Answer(r) == Go(r, Idle) /\ overtaken' = overtaken \ {r}
Standing(ops) == {r \in Requests : req[r].op \in ops}

-----------------------------------------------------------------------------
(* updatePBI                                                               *)

\* Mutant: a Done item can be updated like any other.
NeverLocked(p) == FALSE

Locked(p) == status[p] = "DONE"

\* Mutant: a row counts, whatever its isVerified.
Unanswered(p, ids) == {d \in ids : <<p, d>> \notin checked}

Missing(p, ids) == {d \in ids : <<p, d>> \notin verified}

\* The item is read, and the transition is one the workflow allows.  An "edit" is also
\* addPBIToActiveSprint, which reads the item READY, and cancelSprint, which returns to
\* READY the items it has read not DONE.
UpdatePBI(r, p, op) ==
    /\ req[r] = Idle /\ op \in {"gate", "edit"} /\ status[p] # "none" /\ ~Locked(p)
    /\ Go(r, [Idle EXCEPT !.op = op, !.pbi = p])
    /\ UNCHANGED <<data, status, overtaken>>

\* A team without active items has no gate.
ReadActive(r) ==
    /\ req[r].op = "gate"
    /\ Go(r, [req[r] EXCEPT !.op = IF active = {} THEN "done" ELSE "checks", !.ids = active])
    /\ UNCHANGED <<data, status, overtaken>>

ReadVerified(r) ==
    /\ req[r].op = "checks"
    /\ IF Missing(req[r].pbi, req[r].ids) = {}
       THEN Go(r, [req[r] EXCEPT !.op = "done"]) /\ UNCHANGED overtaken
       ELSE Answer(r)
    /\ UNCHANGED <<data, status>>

\* Those who will write on a status that is another by now.
Late == {v \in Standing({"edit", "remove"}) : req[v].found # (status'[req[v].pbi] = "DONE")}

\* The update names the item by its id alone.  The other fields of an update, and one
\* that gives no status, change nothing here.
WriteStatus(r) ==
    LET q == req[r] IN
    /\ q.op \in {"done", "edit", "remove", "return"}
    /\ status' = [status EXCEPT ![q.pbi] =
                     IF q.op = "done" \/ (q.op = "remove" /\ q.found) THEN "DONE" ELSE "open"]
    /\ Go(r, Idle)
    /\ overtaken' = (overtaken \ {r}) \cup Late
    /\ UNCHANGED data

-----------------------------------------------------------------------------
(* The other writers of an item's status: no gate, and no lock.            *)

\* createPBI and createPBIBulk take any status.
CreatePBI(p, s) ==
    /\ status[p] = "none" /\ s \in {"open", "DONE"}
    /\ status' = [status EXCEPT ![p] = s]
    /\ UNCHANGED <<data, req, overtaken>>

\* removePBIFromActiveSprint reads the item's status before its transaction.
RemovePBI(r, p, op) ==
    /\ req[r] = Idle /\ op \in {"remove", "return"} /\ status[p] # "none"
    /\ Go(r, [Idle EXCEPT !.op = op, !.pbi = p, !.found = (status[p] = "DONE")])
    /\ UNCHANGED <<data, status, overtaken>>

\* Every item of the Sprint is in progress when it starts,
StartSprint(P) ==
    /\ P # {} /\ \A p \in P : status[p] # "none"
    /\ status' = [p \in PBIs |-> IF p \in P THEN "open" ELSE status[p]]
    /\ overtaken' = overtaken \cup Late
    /\ UNCHANGED <<data, req>>

\* and has the status the client gives it when the start is rolled back: DONE for D.
RollbackSprintStart(P, D) ==
    /\ D \subseteq P /\ \A p \in P : status[p] # "none"
    /\ status' = [p \in PBIs |-> IF p \in D THEN "DONE" ELSE IF p \in P THEN "open" ELSE status[p]]
    /\ overtaken' = overtaken \cup Late
    /\ UNCHANGED <<data, req>>

-----------------------------------------------------------------------------
(* verifyDoDForPBI                                                         *)

\* The answers name items the definition has, active or not, and come in any order.
VerifyDoDForPBI(r, p, ids, yes) ==
    /\ req[r] = Idle /\ status[p] # "none"
    /\ exists /\ ids # {} /\ ids \subseteq dodItems /\ yes \subseteq ids
    /\ Go(r, [Idle EXCEPT !.op = "find", !.pbi = p, !.ids = ids, !.yes = yes])
    /\ UNCHANGED <<data, status, overtaken>>

FindCheck(r, d) ==
    /\ req[r].op = "find" /\ d \in req[r].ids
    /\ Go(r, [req[r] EXCEPT !.op = "put", !.at = d, !.found = <<req[r].pbi, d>> \in checked])
    /\ UNCHANGED <<data, status, overtaken>>

\* Mutant: a row that was not found is created, whatever became of its item.
WritableUnasked(r) == req[r].found => <<req[r].pbi, req[r].at>> \in checked

\* A row that was found must still be there, one that was not found must not, and its
\* item must; otherwise the statement fails and the answers already written stay.
Writable(r) ==
    LET row == <<req[r].pbi, req[r].at>> IN
    IF req[r].found THEN row \in checked ELSE req[r].at \in dodItems /\ row \notin checked

PutCheck(r) ==
    LET q == req[r]
        row == <<q.pbi, q.at>>
        rest == q.ids \ {q.at}
        gates == {v \in Standing({"done"}) : req[v].pbi = q.pbi /\ q.at \in req[v].ids}
    IN  /\ q.op = "put" /\ Writable(r)
        /\ checked' = checked \cup {row}
        /\ verified' = IF q.at \in q.yes THEN verified \cup {row} ELSE verified \ {row}
        /\ Go(r, IF rest = {} THEN Idle
                 ELSE [q EXCEPT !.op = "find", !.ids = rest, !.at = NoItem, !.found = FALSE])
        /\ overtaken' = overtaken \cup IF q.at \in q.yes THEN {} ELSE gates
        /\ UNCHANGED <<exists, dodItems, active, used, status, inForce, torn>>

-----------------------------------------------------------------------------
(* getDefinitionOfDone, createDefaultDefinitionOfDone, updateDefinitionOfDone *)

\* A gate that has passed has passed other items than there are now; one that has
\* only read its items finds no verification of them any more.
GatesOvertaken == overtaken \cup Standing({"done"})

FindDefinition(r, op) ==
    /\ req[r] = Idle /\ op \in {"get", "default"}
    /\ IF exists THEN op = "default" /\ Go(r, [Idle EXCEPT !.op = "delete"])
                 ELSE Go(r, [Idle EXCEPT !.op = op])
    /\ UNCHANGED <<data, status, overtaken>>

\* One definition per team: a second creation fails.  A replacement then finds it.
CreateDefault(r, N) ==
    /\ req[r].op \in {"get", "default"} /\ ~exists
    /\ N # {} /\ N \cap used = {}
    /\ exists' = TRUE /\ dodItems' = N /\ active' = N /\ inForce' = N
    /\ used' = used \cup N /\ torn' = FALSE
    /\ Go(r, IF req[r].op = "get" THEN Idle ELSE [Idle EXCEPT !.op = "delete"])
    /\ overtaken' = GatesOvertaken
    /\ UNCHANGED <<checked, verified, status>>

\* Mutant: the new items are validated after the old ones have gone.
DeleteThenValidate(r) ==
    /\ req[r].op = "delete"
    /\ dodItems' = {} /\ active' = {} /\ checked' = {} /\ verified' = {}
    /\ Go(r, Idle)
    /\ overtaken' = GatesOvertaken
    /\ UNCHANGED <<exists, used, status, inForce, torn>>

\* The verifications go with the items.
DeleteItems(r) ==
    /\ req[r].op = "delete"
    /\ dodItems' = {} /\ active' = {} /\ checked' = {} /\ verified' = {}
    /\ Go(r, [req[r] EXCEPT !.op = "create"])
    /\ overtaken' = GatesOvertaken
    /\ UNCHANGED <<exists, used, status, inForce, torn>>

\* The orders start from 0, and the order is unique in a definition: items another
\* replacement has created meanwhile refuse these.
CreateItems(r, N, A) ==
    /\ req[r].op = "create"
    /\ N \cap used = {} /\ A \subseteq N /\ (N = {} \/ dodItems = {})
    /\ dodItems' = dodItems \cup N /\ active' = active \cup A
    /\ inForce' = active' /\ used' = used \cup N /\ torn' = FALSE
    /\ overtaken' = GatesOvertaken
    /\ Go(r, Idle)
    /\ UNCHANGED <<exists, checked, verified, status>>

\* deleteAccount takes the verifications the user gave; an update about to write one of
\* them fails.
EraseVerifier(rows) ==
    LET late == {v \in Standing({"put"}) : req[v].found /\ <<req[v].pbi, req[v].at>> \in rows}
        gates == {v \in Standing({"done"}) : \E d \in req[v].ids : <<req[v].pbi, d>> \in rows}
    IN  /\ rows # {} /\ rows \subseteq checked
        /\ checked' = checked \ rows /\ verified' = verified \ rows
        /\ req' = [v \in Requests |-> IF v \in late THEN Idle ELSE req[v]]
        /\ overtaken' = overtaken \cup gates
        /\ UNCHANGED <<exists, dodItems, active, used, status, inForce, torn>>

\* A statement fails, by one of the constraints above or otherwise, or the process ends.
Fail(r) ==
    /\ req[r] # Idle
    /\ torn' = (torn \/ (req[r].op = "create" /\ dodItems = {}))
    /\ Answer(r)
    /\ UNCHANGED <<exists, dodItems, active, used, checked, verified, status, inForce>>

-----------------------------------------------------------------------------
Start == \E P \in SUBSET PBIs : StartSprint(P)
Rollback == \E P \in SUBSET PBIs : \E D \in SUBSET P : RollbackSprintStart(P, D)

Next ==
    \/ \E p \in PBIs, s \in {"open", "DONE"} : CreatePBI(p, s)
    \/ Start \/ Rollback
    \/ \E rows \in SUBSET checked : EraseVerifier(rows)
    \/ \E r \in Requests :
           \/ \E p \in PBIs : \E op \in {"gate", "edit"} : UpdatePBI(r, p, op)
           \/ \E p \in PBIs : \E op \in {"remove", "return"} : RemovePBI(r, p, op)
           \/ ReadActive(r)
           \/ ReadVerified(r)
           \/ WriteStatus(r)
           \/ \E p \in PBIs, ids \in SUBSET dodItems : \E yes \in SUBSET ids :
                 VerifyDoDForPBI(r, p, ids, yes)
           \/ \E d \in DodItems : FindCheck(r, d)
           \/ PutCheck(r)
           \/ \E op \in {"get", "default"} : FindDefinition(r, op)
           \/ \E N \in SUBSET (DodItems \ used) : CreateDefault(r, N)
           \/ DeleteItems(r)
           \/ \E N \in SUBSET (DodItems \ used) : \E A \in SUBSET N : CreateItems(r, N, A)
           \/ Fail(r)

Spec == Init /\ [][Next]_vars

-----------------------------------------------------------------------------
(* Properties                                                              *)

\* The items of the definition are those it was last answered with, whatever
\* replacements overlap, unless one is between its deletion and its creation or
\* stopped there: only then does assertFullDoDVerified take the team for one
\* without a gate.
DefinitionKept ==
    \/ active = inForce
    \/ dodItems = {} /\ (torn \/ Standing({"create"}) # {})

\* An item becomes Done with every item in force verified for it, unless the
\* definition was gone, or changed between the gate's last read and the write.  Only
\* what does not go through the gate makes it Done otherwise: its creation, the
\* rollback of a Sprint's start, and a removal from the Sprint that had found it Done
\* and writes after it was reopened.
DoneIsVerified ==
    [][\A p \in PBIs : status[p] # "DONE" /\ status'[p] = "DONE" =>
         \/ \A d \in inForce : <<p, d>> \in verified
         \/ active # inForce
         \/ \E r \in overtaken : req[r].op \in {"done", "remove"} /\ req[r].pbi = p
         \/ status[p] = "none" \/ Rollback]_vars

\* A Done item is locked: an update, or a removal that keeps its status, reopens it
\* only if it had read it before it was done.  The lock does not bind a removal that
\* returns it to the backlog, the start of a Sprint that has it, or its rollback.
DoneStays ==
    [][\A p \in PBIs : status[p] = "DONE" /\ status'[p] # "DONE" =>
         \/ \E r \in overtaken : req[r].op \in {"edit", "remove"} /\ req[r].pbi = p
         \/ \E r \in Requests : req[r].op = "return" /\ req[r].pbi = p /\ req'[r] # req[r]
         \/ Start \/ Rollback]_vars
=============================================================================
