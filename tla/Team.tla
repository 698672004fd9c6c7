-------------------------------- MODULE Team ---------------------------------
(***************************************************************************)
(* The members of one Scrum Team and the three requests that change them,  *)
(* each as its check and its write: packages/backend/src/services/         *)
(* team.service.ts.  Modules that extend this one put the two together, at *)
(* once or as the two steps of a request.                                  *)
(***************************************************************************)
EXTENDS Naturals, FiniteSets

CONSTANTS Users,
          MaxSize,    \* config.team.maxSize
          None        \* no user; no role: not a member

ASSUME TeamAssumption ==
    /\ IsFiniteSet(Users) /\ MaxSize \in Nat
    /\ None \notin Users \cup {"PRODUCT_OWNER", "SCRUM_MASTER", "DEVELOPERS"}

VARIABLES accounts,   \* the users there are
          role        \* of each user in the team

UserRole == {"PRODUCT_OWNER", "SCRUM_MASTER", "DEVELOPERS"}
Leaders == {"PRODUCT_OWNER", "SCRUM_MASTER"}

TeamTypeOK ==
    /\ accounts \subseteq Users
    /\ role \in [Users -> UserRole \cup {None}]
    /\ \A u \in Users \ accounts : role[u] = None

\* createTeam: its creator is the Product Owner, and the only member.
TeamInit ==
    /\ accounts = Users
    /\ \E u \in Users : role = [v \in Users |-> IF v = u THEN "PRODUCT_OWNER" ELSE None]

Members == {u \in Users : role[u] # None}

\* Mutant: the member's own row counts, the others do not.
TakenByItself(ro, u) == ro \in Leaders /\ role[u] = ro

\* assertLeadershipRoleAvailable, not counting u's own row, fails.
Taken(ro, u) == ro \in Leaders /\ \E v \in Users \ {u} : role[v] = ro

Full == Cardinality(Members) >= MaxSize

\* addMember
CanAdd(a, u, ro) ==
    /\ role[a] \in Leaders
    /\ u \in accounts /\ role[u] = None
    /\ ~Taken(ro, u) /\ ~Full

\* The row needs its user and is unique.
Add(u, ro) ==
    /\ u \in accounts /\ role[u] = None
    /\ role' = [role EXCEPT ![u] = ro]
    /\ UNCHANGED accounts

\* removeMember; whether tasks are assigned is for those who know tasks to say.
CanRemove(a, u) == role[a] \in Leaders /\ u \in Members \ {a}

Remove(u) ==
    /\ u \in Members
    /\ role' = [role EXCEPT ![u] = None]
    /\ UNCHANGED accounts

\* updateMemberRole
CanSetRole(a, u, ro) ==
    /\ role[a] = "SCRUM_MASTER"
    /\ u \in Members
    /\ ~Taken(ro, u)

SetRole(u, ro) ==
    /\ u \in Members
    /\ role' = [role EXCEPT ![u] = ro]
    /\ UNCHANGED accounts
=============================================================================
