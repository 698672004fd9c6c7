------------------------------ MODULE Increments ------------------------------
(***************************************************************************)
(* The Increments of one Scrum Team: composed from items as they become    *)
(* Done, created, edited, tested against each other, verified and          *)
(* delivered.  No request here runs in a transaction, so each await ends a *)
(* step, and requests overlap anywhere.                                    *)
(*                                                                         *)
(* Source: packages/backend/src/services/increment.service.ts and          *)
(* incrementIntegration.service.ts.                                        *)
(***************************************************************************)
EXTENDS Naturals, FiniteSets

CONSTANTS
    Incs,       \* ids the Increment table may use
    Sprints,    \* Sprints of the team
    PBIs,       \* its Product Backlog Items
    Workers,    \* requests the server handles at the same time
    None        \* no Increment, no Sprint

ASSUME NoneAssumption == None \notin Incs \cup Sprints

VARIABLES
    status,     \* Increment.status, "ABSENT" while there is no such row
    sprint,     \* Increment.sprintId
    verified,   \* Increments whose integrationVerified is set
    members,    \* IncrementPBI: <<increment, item>>
    passed,     \* IncrementIntegrationTest: <<current, prior>> whose result is PASSED
    deleted,    \* items deleted from the Product Backlog, and from Increments by cascade
    req,        \* what each worker's request is doing
    composed,   \* history: Increments created for an item that became Done
    strained    \* history: two compositions found no open Increment, or one was reopened

vars == <<status, sprint, verified, members, passed, deleted, req, composed, strained>>

Absent == "ABSENT"
IncrementStatuses == {"DRAFT", "VERIFIED", "DELIVERED", "ARCHIVED"}
OpenStatuses == {"DRAFT", "VERIFIED"}
LockedStatuses == {"DELIVERED", "ARCHIVED"}
PriorStatuses == {"VERIFIED", "DELIVERED", "ARCHIVED"}

Phases == {"idle", "compose", "link", "members", "count", "exempt", "judge", "tally",
           "flag", "recheck", "write", "clear", "deliver", "record"}

\* to is the status an edit asks for, Absent when it asks for none; edits tells
\* whether it replaces the items; priors are the Increments to be integrated with, or
\* the one that was tested; ok is a judgement on its way, or a test's result.
Request == [phase : Phases, inc : Incs \cup {None}, priors : SUBSET Incs,
            sprint : Sprints \cup {None}, items : SUBSET PBIs,
            to : IncrementStatuses \cup {Absent}, edits : BOOLEAN, ok : BOOLEAN]

Idle == [phase |-> "idle", inc |-> None, priors |-> {}, sprint |-> None,
         items |-> {}, to |-> Absent, edits |-> FALSE, ok |-> FALSE]

\* Rows refer to Increments that exist, and requests hold what their handlers read.
TypeOK ==
    /\ status \in [Incs -> IncrementStatuses \cup {Absent}]
    /\ sprint \in [Incs -> Sprints \cup {None}]
    /\ verified \in SUBSET Incs
    /\ members \in SUBSET (Incs \X PBIs)
    /\ passed \in SUBSET (Incs \X Incs)
    /\ deleted \in SUBSET PBIs
    /\ req \in [Workers -> Request]
    /\ composed \in SUBSET Incs
    /\ strained \in BOOLEAN
    /\ \A i \in Incs : status[i] # Absent => sprint[i] # None
    /\ \A w \in Workers : req[w].inc # None => status[req[w].inc] # Absent

Init ==
    /\ status = [i \in Incs |-> Absent]
    /\ sprint = [i \in Incs |-> None]
    /\ verified = {} /\ members = {} /\ passed = {} /\ deleted = {}
    /\ req = [w \in Workers |-> Idle]
    /\ composed = {} /\ strained = FALSE

-----------------------------------------------------------------------------
Exists(i) == status[i] # Absent
Open(s) == {i \in Incs : status[i] \in OpenStatuses /\ sprint[i] = s}
Others(i) == {j \in Incs \ {i} : status[j] # Absent}


\* Every other Increment that is verified or past that: whether it is older plays no part.
Priors(i) == {j \in Incs \ {i} : status[j] \in PriorStatuses}

In(w, ph) == req[w].phase = ph
Begin(w, r) == req[w] = Idle /\ req' = [req EXCEPT ![w] = r]
Goto(w, ph) == req' = [req EXCEPT ![w].phase = ph]
Answer(w) == req' = [req EXCEPT ![w] = Idle]

-----------------------------------------------------------------------------
(* composeDonePBI, for an item p found in the backlog of the running Sprint s. *)

Compose(w, s, p) ==
    /\ p \notin deleted
    /\ Begin(w, [Idle EXCEPT !.phase = "compose", !.sprint = s, !.items = {p}])
    /\ UNCHANGED <<status, sprint, verified, members, passed, deleted, composed, strained>>

\* Mutant: the look ignores VERIFIED Increments.
FindsDrafts(s) == {i \in Open(s) : status[i] = "DRAFT"}

Finds(s) == Open(s)

FindOpen(w) ==
    LET s == req[w].sprint IN
    /\ In(w, "compose") /\ req[w].inc = None
    /\ \/ \E i \in Finds(s) :
             /\ req' = [req EXCEPT ![w].phase = "link", ![w].inc = i]
             /\ UNCHANGED strained
       \/ /\ Finds(s) = {}
          /\ Goto(w, "write")
          /\ strained' = (strained \/ \E v \in Workers \ {w} :
                            In(v, "write") /\ req[v].inc = None /\ req[v].sprint = s)
    /\ UNCHANGED <<status, sprint, verified, members, passed, deleted, composed>>

CreateComposed(w, i) ==
    /\ In(w, "write") /\ req[w].inc = None
    /\ ~Exists(i)
    /\ status' = [status EXCEPT ![i] = "DRAFT"]
    /\ sprint' = [sprint EXCEPT ![i] = req[w].sprint]
    /\ composed' = composed \cup {i}
    /\ req' = [req EXCEPT ![w].phase = "link", ![w].inc = i]
    /\ UNCHANGED <<verified, members, passed, deleted, strained>>

Link(w) ==
    /\ In(w, "link")
    /\ req[w].items \cap deleted = {}
    /\ members' = members \cup ({req[w].inc} \X req[w].items)
    /\ Answer(w)
    /\ UNCHANGED <<status, sprint, verified, passed, deleted, composed, strained>>

-----------------------------------------------------------------------------
(* createIncrement: the row, its items, and the first Increment's exemption. *)

CreateIncrement(w, i, s, st, P) ==
    /\ ~Exists(i)
    /\ Begin(w, [Idle EXCEPT !.phase = IF P = {} THEN "count" ELSE "members",
                             !.inc = i, !.items = P])
    /\ status' = [status EXCEPT ![i] = st]
    /\ sprint' = [sprint EXCEPT ![i] = s]
    /\ UNCHANGED <<verified, members, passed, deleted, composed, strained>>

\* createMany, which the keys refuse when an item is there already or exists no more.
WriteMembers(w) ==
    LET new == {req[w].inc} \X req[w].items IN
    /\ In(w, "members")
    /\ new \cap members = {} /\ req[w].items \cap deleted = {}
    /\ members' = members \cup new
    /\ IF req[w].edits THEN Answer(w)
       ELSE req' = [req EXCEPT ![w].phase = "count", ![w].items = {}]
    /\ UNCHANGED <<status, sprint, verified, passed, deleted, composed, strained>>

CountOthers(w) ==
    /\ In(w, "count")
    /\ IF Others(req[w].inc) = {} THEN Goto(w, "exempt") ELSE Answer(w)
    /\ UNCHANGED <<status, sprint, verified, members, passed, deleted, composed, strained>>

ExemptFirst(w) ==
    /\ In(w, "exempt")
    /\ verified' = verified \cup {req[w].inc}
    /\ Answer(w)
    /\ UNCHANGED <<status, sprint, members, passed, deleted, composed, strained>>

-----------------------------------------------------------------------------
(* updateIncrement.  edits tells whether the payload names items.          *)

\* Mutant: delivered Increments may be edited.
EditableAlways(i) == Exists(i)

Editable(i) == Exists(i) /\ status[i] # "DELIVERED"

UpdateIncrement(w, i, st, edits, P) ==
    LET recompute == st = "VERIFIED" /\ status[i] = "DRAFT" /\ i \notin verified IN
    /\ Editable(i)
    /\ P = {} \/ edits
    /\ Begin(w, [Idle EXCEPT !.phase = IF recompute THEN "judge" ELSE "write",
                             !.inc = i, !.to = st, !.edits = edits, !.items = P])
    /\ UNCHANGED <<status, sprint, verified, members, passed, deleted, composed, strained>>

Recheck(w) ==
    /\ In(w, "recheck")
    /\ IF req[w].inc \in verified THEN Goto(w, "write") ELSE Answer(w)
    /\ UNCHANGED <<status, sprint, verified, members, passed, deleted, composed, strained>>

\* Whatever the status is by now.
WriteUpdate(w) ==
    LET i == req[w].inc  st == req[w].to IN
    /\ In(w, "write") /\ i # None
    /\ status' = IF st = Absent THEN status ELSE [status EXCEPT ![i] = st]
    /\ strained' = (strained \/ (st \in OpenStatuses /\ status[i] \notin OpenStatuses))
    /\ IF req[w].edits THEN Goto(w, "clear") ELSE Answer(w)
    /\ UNCHANGED <<sprint, verified, members, passed, deleted, composed>>

ClearMembers(w) ==
    /\ In(w, "clear")
    /\ members' = members \ ({req[w].inc} \X PBIs)
    /\ IF req[w].items = {} THEN Answer(w) ELSE Goto(w, "members")
    /\ UNCHANGED <<status, sprint, verified, passed, deleted, composed, strained>>

-----------------------------------------------------------------------------
(* deliverIncrement.                                                       *)

DeliverIncrement(w, i) ==
    /\ Exists(i) /\ status[i] # "DELIVERED"
    /\ status[i] = "DRAFT" => i \in verified
    /\ Begin(w, [Idle EXCEPT !.phase = "deliver", !.inc = i])
    /\ UNCHANGED <<status, sprint, verified, members, passed, deleted, composed, strained>>

WriteDelivered(w) ==
    /\ In(w, "deliver")
    /\ status' = [status EXCEPT ![req[w].inc] = "DELIVERED"]
    /\ Answer(w)
    /\ UNCHANGED <<sprint, verified, members, passed, deleted, composed, strained>>

-----------------------------------------------------------------------------
(* createTest and verifyIntegration.                                       *)

Testable(i) == Exists(i) /\ status[i] \notin LockedStatuses

CreateTest(w, i, j, result) ==
    /\ Testable(i) /\ Exists(j) /\ i # j
    /\ Begin(w, [Idle EXCEPT !.phase = "record", !.inc = i, !.priors = {j}, !.ok = result])
    /\ UNCHANGED <<status, sprint, verified, members, passed, deleted, composed, strained>>

RecordTest(w) ==
    LET pair == {req[w].inc} \X req[w].priors IN
    /\ In(w, "record")
    /\ passed' = IF req[w].ok THEN passed \cup pair ELSE passed \ pair
    /\ req' = [req EXCEPT ![w].phase = "judge", ![w].priors = {}, ![w].ok = FALSE]
    /\ UNCHANGED <<status, sprint, verified, members, deleted, composed, strained>>

VerifyIntegration(w, i) ==
    /\ Testable(i)
    /\ Begin(w, [Idle EXCEPT !.phase = "judge", !.inc = i])
    /\ UNCHANGED <<status, sprint, verified, members, passed, deleted, composed, strained>>

\* refreshVerificationStatus and verifyIntegration read the priors, then the tests, and
\* then write the flag.
Judge(w) ==
    LET priors == Priors(req[w].inc) IN
    /\ In(w, "judge")
    /\ req' = [req EXCEPT ![w].phase = IF priors = {} THEN "flag" ELSE "tally",
                          ![w].priors = priors, ![w].ok = priors = {}]
    /\ UNCHANGED <<status, sprint, verified, members, passed, deleted, composed, strained>>

Tally(w) ==
    /\ In(w, "tally")
    /\ req' = [req EXCEPT ![w].phase = "flag", ![w].priors = {},
                          ![w].ok = {req[w].inc} \X req[w].priors \subseteq passed]
    /\ UNCHANGED <<status, sprint, verified, members, passed, deleted, composed, strained>>

SetVerified(w) ==
    LET i == req[w].inc IN
    /\ In(w, "flag")
    /\ verified' = IF req[w].ok THEN verified \cup {i} ELSE verified \ {i}
    /\ IF req[w].to = Absent THEN Answer(w)
       ELSE req' = [req EXCEPT ![w].phase = "recheck", ![w].ok = FALSE]
    /\ UNCHANGED <<status, sprint, members, passed, deleted, composed, strained>>

-----------------------------------------------------------------------------
\* deletePBI, whose rows in Increments go by cascade.  It refuses Done items and those of
\* a Sprint; Increments may hold others, and item status is left out here: any may go.
DeletePBI(p) ==
    /\ p \notin deleted
    /\ deleted' = deleted \cup {p}
    /\ members' = members \ (Incs \X {p})
    /\ UNCHANGED <<status, sprint, verified, passed, req, composed, strained>>

\* A statement fails or the server dies; what was written stays.
Fail(w) ==
    /\ req[w] # Idle
    /\ Answer(w)
    /\ UNCHANGED <<status, sprint, verified, members, passed, deleted, composed, strained>>

Arrive(w) ==
    \/ \E s \in Sprints, p \in PBIs : Compose(w, s, p)
    \/ \E i \in Incs :
          \/ \E s \in Sprints, st \in IncrementStatuses, P \in SUBSET PBIs :
                CreateIncrement(w, i, s, st, P)
          \/ \E st \in IncrementStatuses \cup {Absent}, edits \in BOOLEAN, P \in SUBSET PBIs :
                UpdateIncrement(w, i, st, edits, P)
          \/ DeliverIncrement(w, i)
          \/ \E j \in Incs, result \in BOOLEAN : CreateTest(w, i, j, result)
          \/ VerifyIntegration(w, i)

Advance(w) ==
    \/ FindOpen(w) \/ (\E i \in Incs : CreateComposed(w, i)) \/ Link(w)
    \/ WriteMembers(w) \/ CountOthers(w) \/ ExemptFirst(w)
    \/ Recheck(w) \/ WriteUpdate(w) \/ ClearMembers(w) \/ WriteDelivered(w)
    \/ RecordTest(w) \/ Judge(w) \/ Tally(w) \/ SetVerified(w)

Next ==
    \/ \E w \in Workers : Arrive(w) \/ Advance(w) \/ Fail(w)
    \/ \E p \in PBIs : DeletePBI(p)

Spec == Init /\ [][Next]_vars

-----------------------------------------------------------------------------
\* A delivered Increment that no request still holds.
Sealed(i) == status[i] = "DELIVERED" /\ \A w \in Workers : req[w].inc # i

TestsOf(i) == {t \in passed : t[1] = i}
ItemsOf(i) == {m \in members : m[1] = i}

\* What was delivered stays as it was delivered: once the requests that held it are
\* answered, no edit, test, verification or composition takes hold of it again, and
\* its status, items, tests and verification are final, but for items deleted from the
\* Product Backlog.
DeliveredIsFinal ==
    [][\A i \in Incs : Sealed(i) =>
          /\ Sealed(i)'
          /\ ItemsOf(i)' = ItemsOf(i) \ (Incs \X deleted')
          /\ TestsOf(i)' = TestsOf(i)
          /\ (i \in verified)' = (i \in verified)]_vars

\* The items of a Sprint that become Done gather in one open Increment, unless two
\* compositions looked for one before either created it, or an edit reopened one.
OneOpenUnlessStrained ==
    ~strained => \A i, j \in composed :
        sprint[i] = sprint[j] /\ {status[i], status[j]} \subseteq OpenStatuses => i = j

=============================================================================
