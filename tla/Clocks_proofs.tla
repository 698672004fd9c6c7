---------------------------- MODULE Clocks_proofs ----------------------------
(***************************************************************************)
(* Two clocks of the client.                                               *)
(* The session managers, for any number of tabs and any timeouts: a manager *)
(* that is on has timers that agree with the activity it knows of, one that *)
(* is not has none; so an idle timer that is due while that activity is    *)
(* Idle ticks old comes after the warning, and the managers behave as idle *)
(* clocks.  What another tab knows is the stored activity unless news is on *)
(* its way or its dialog was overtaken.                                    *)
(* The timebox and a page, for any number of requests and rows: a request  *)
(* that will write what it read has, while the row keeps that version, read *)
(* the row as it is; so the row and its true running time move together.   *)
(* An answer holds of its row as long as the version is the row's.         *)
(***************************************************************************)
EXTENDS SessionTimers, TimeboxView, TLAPS

\* What TimersAgree says of one tab.
Agree(b) ==
    /\ idleLeft[b] = Idle - since[b]
    /\ warnLeft[b] # Unset => warnLeft[b] = Idle - Warning - AtMost(since[b], Idle - Warning)
    /\ warnLeft[b] = Unset => shown[b]

\* No timer and no dialog outlives its manager.
Silent(b) == idleLeft[b] = Unset /\ warnLeft[b] = Unset /\ countdown[b] = Unset

Fits(b) == IF state[b] = "on" THEN Agree(b) ELSE Silent(b)

IInv == TypeOK /\ \A b \in Tabs : Fits(b)

-----------------------------------------------------------------------------
\* What restartTimers leaves in a tab agrees with the activity it was given.
LEMMA RestartAgrees ==
  ASSUME TypeOK, NEW b \in Tabs, NEW a \in 0..Idle, NEW f \in BOOLEAN, NEW d \in 0..Unset,
         RestartTimers(b, a, f, d)
  PROVE  /\ since' \in [Tabs -> 0..Idle] /\ shown' \in [Tabs -> BOOLEAN]
         /\ idleLeft' \in [Tabs -> 0..Unset] /\ warnLeft' \in [Tabs -> 0..Unset]
         /\ countdown' \in [Tabs -> 0..Unset]
         /\ Agree(b)'
         /\ \A c \in Tabs \ {b} : UNCHANGED <<since[c], shown[c], idleLeft[c], warnLeft[c],
                                              countdown[c]>>
<1> DEFINE late == a >= Idle - Warning
           w == IF late THEN Unset ELSE Idle - Warning - a
           k == IF late /\ ~f THEN Idle - a ELSE d
<1> USE TimersAssumption
<1>1. /\ Idle - a \in 0..Unset /\ w \in 0..Unset /\ k \in 0..Unset
      /\ f \/ late \in BOOLEAN
  BY DEF Unset
<1>2. /\ since' = [since EXCEPT ![b] = a] /\ idleLeft' = [idleLeft EXCEPT ![b] = Idle - a]
      /\ warnLeft' = [warnLeft EXCEPT ![b] = w] /\ shown' = [shown EXCEPT ![b] = f \/ late]
      /\ countdown' = [countdown EXCEPT ![b] = k]
  BY DEF RestartTimers
<1> HIDE DEF w, k, late
<1>3. /\ since' \in [Tabs -> 0..Idle] /\ shown' \in [Tabs -> BOOLEAN]
      /\ idleLeft' \in [Tabs -> 0..Unset] /\ warnLeft' \in [Tabs -> 0..Unset]
      /\ countdown' \in [Tabs -> 0..Unset]
  BY <1>1, <1>2 DEF TypeOK
<1>4. \A c \in Tabs \ {b} : UNCHANGED <<since[c], shown[c], idleLeft[c], warnLeft[c], countdown[c]>>
  BY <1>2 DEF TypeOK
<1>5. /\ since'[b] = a /\ idleLeft'[b] = Idle - a /\ warnLeft'[b] = w /\ shown'[b] = (f \/ late)
  BY <1>2 DEF TypeOK
<1>6. late => shown'[b]
  BY <1>5
<1>7. CASE late
  <2>1. Agree(b)'
    BY <1>5, <1>6, <1>7 DEF Agree, w
  <2> QED BY <1>3, <1>4, <2>1
<1>8. CASE ~late
  <2>1. w = Idle - Warning - AtMost(a, Idle - Warning) /\ w # Unset
    BY <1>8 DEF w, late, AtMost, Unset
  <2>2. Agree(b)'
    BY <1>5, <2>1 DEF Agree, Unset
  <2> QED BY <1>3, <1>4, <2>2
<1> QED BY <1>7, <1>8

\* A tab whose manager is destroyed is silent; the others notice nothing.
LEMMA DestroySilences ==
  ASSUME TypeOK, NEW b \in Tabs, NEW s \in {"off", "timedOut", "countedDown"}, Destroy(b, s)
  PROVE  /\ state' \in [Tabs -> {"off", "on", "timedOut", "countedDown"}]
         /\ idleLeft' \in [Tabs -> 0..Unset] /\ warnLeft' \in [Tabs -> 0..Unset]
         /\ countdown' \in [Tabs -> 0..Unset] /\ event' \in [Tabs -> BOOLEAN]
         /\ state'[b] # "on" /\ Silent(b)'
         /\ \A c \in Tabs \ {b} : UNCHANGED <<state[c], since[c], shown[c], idleLeft[c],
                                              warnLeft[c], countdown[c]>>
         /\ UNCHANGED <<since, rested, shown, stored, overtaken>>
<1>1. Unset \in 0..Unset
  BY TimersAssumption DEF Unset
<1>2. /\ state' \in [Tabs -> {"off", "on", "timedOut", "countedDown"}]
      /\ idleLeft' \in [Tabs -> 0..Unset] /\ warnLeft' \in [Tabs -> 0..Unset]
      /\ countdown' \in [Tabs -> 0..Unset] /\ event' \in [Tabs -> BOOLEAN]
  BY <1>1 DEF TypeOK, Destroy
<1>3. state'[b] # "on" /\ Silent(b)'
  BY DEF TypeOK, Destroy, Silent
<1>4. \A c \in Tabs \ {b} : UNCHANGED <<state[c], since[c], shown[c], idleLeft[c],
                                       warnLeft[c], countdown[c]>>
  BY DEF TypeOK, Destroy
<1> QED BY <1>2, <1>3, <1>4 DEF Destroy

LEMMA StoreTyped ==
  ASSUME TypeOK, NEW b \in Tabs, StoreActivity(b)
  PROVE  stored' \in 0..Idle /\ event' \in [Tabs -> BOOLEAN]
BY TimersAssumption DEF TypeOK, StoreActivity

\* Steps that leave one tab with what restartTimers gave it, the others alone.
LEMMA Restarted ==
  ASSUME IInv, NEW b \in Tabs, NEW a \in 0..Idle, NEW f \in BOOLEAN, NEW d \in 0..Unset,
         RestartTimers(b, a, f, d), state' = [state EXCEPT ![b] = "on"]
  PROVE  \A c \in Tabs : Fits(c)'
<1> SUFFICES ASSUME NEW c \in Tabs PROVE Fits(c)'
  OBVIOUS
<1>1. CASE c = b
  BY <1>1, RestartAgrees DEF IInv, TypeOK, Fits
<1>2. CASE c # b
  <2>1. UNCHANGED <<state[c], since[c], shown[c], idleLeft[c], warnLeft[c], countdown[c]>>
    BY <1>2, RestartAgrees DEF IInv, TypeOK
  <2> QED BY <2>1 DEF IInv, Fits, Agree, Silent
<1> QED BY <1>1, <1>2

LEMMA Destroyed ==
  ASSUME IInv, NEW b \in Tabs, NEW s \in {"off", "timedOut", "countedDown"}, Destroy(b, s),
         open' \in BOOLEAN
  PROVE  IInv'
<1>1. TypeOK'
  BY DestroySilences DEF IInv, TypeOK
<1>2. ASSUME NEW c \in Tabs PROVE Fits(c)'
  <2>1. CASE c = b
    BY <2>1, DestroySilences DEF IInv, Fits
  <2>2. CASE c # b
    <3>1. UNCHANGED <<state[c], since[c], shown[c], idleLeft[c], warnLeft[c], countdown[c]>>
      BY <2>2, DestroySilences DEF IInv
    <3> QED BY <3>1 DEF IInv, Fits, Agree, Silent
  <2> QED BY <2>1, <2>2
<1> QED BY <1>1, <1>2 DEF IInv

LEMMA Ticked ==
  ASSUME IInv, Tick
  PROVE  IInv'
<1> USE TimersAssumption
<1>1. \A c \in Tabs : /\ since[c] \in 0..Idle /\ rested[c] \in 0..Throttle
                      /\ idleLeft[c] \in 0..Unset /\ warnLeft[c] \in 0..Unset
                      /\ countdown[c] \in 0..Unset
  BY DEF IInv, TypeOK
<1>2. TypeOK'
  <2>1. since' \in [Tabs -> 0..Idle] /\ rested' \in [Tabs -> 0..Throttle]
    BY <1>1 DEF Tick, AtMost
  <2>2. idleLeft' \in [Tabs -> 0..Unset]
    BY <1>1 DEF Tick, Down, Unset
  <2>3. warnLeft' \in [Tabs -> 0..Unset]
    BY <1>1 DEF Tick, Down, Unset
  <2>4. countdown' \in [Tabs -> 0..Unset]
    BY <1>1 DEF Tick, Down, Unset
  <2>5. stored' \in 0..Idle
    BY DEF IInv, TypeOK, Tick, AtMost
  <2> QED BY <2>1, <2>2, <2>3, <2>4, <2>5 DEF IInv, TypeOK, Tick
<1>3. ASSUME NEW c \in Tabs PROVE Fits(c)'
  <2>1. /\ since'[c] = AtMost(since[c] + 1, Idle)
        /\ idleLeft'[c] = IF idleLeft[c] \in 1..Idle THEN idleLeft[c] - 1 ELSE idleLeft[c]
        /\ warnLeft'[c] = IF warnLeft[c] \in 1..Idle THEN warnLeft[c] - 1 ELSE warnLeft[c]
        /\ countdown'[c] = IF countdown[c] \in 1..Idle THEN countdown[c] - 1 ELSE countdown[c]
        /\ state'[c] = state[c] /\ shown'[c] = shown[c]
    BY DEF Tick, Down
  <2>2. CASE state[c] = "on"
    <3>1. Agree(c)
      BY <2>2 DEF IInv, Fits
    <3>2. Agree(c)'
      BY <1>1, <2>1, <3>1 DEF Agree, AtMost, Unset
    <3> QED BY <2>1, <2>2, <3>2 DEF Fits
  <2>3. CASE state[c] # "on"
    <3>1. Silent(c)
      BY <2>3 DEF IInv, Fits
    <3>2. Silent(c)'
      BY <2>1, <3>1 DEF Silent, Unset
    <3> QED BY <2>1, <2>3, <3>2 DEF Fits
  <2> QED BY <2>2, <2>3
<1> QED BY <1>2, <1>3 DEF IInv

\* The warning timer ends where the warning is shown; nothing else is touched.
LEMMA Warned ==
  ASSUME IInv, NEW b \in Tabs, FireWarning(b)
  PROVE  IInv'
<1> USE TimersAssumption
<1> DEFINE k == IF shown[b] THEN countdown[b] ELSE Idle - since[b]
<1>1. k \in 0..Unset /\ Unset \in 0..Unset
  BY DEF IInv, TypeOK, Unset
<1>2. countdown' = [countdown EXCEPT ![b] = k]
  BY DEF FireWarning, IInv, TypeOK
<1> HIDE DEF k
<1>3. TypeOK'
  BY <1>1, <1>2 DEF IInv, TypeOK, FireWarning
<1>4. state[b] = "on" /\ Agree(b)
  <2>1. warnLeft[b] # Unset
    BY DEF FireWarning, Unset
  <2> QED BY <2>1 DEF IInv, Fits, Silent
<1>5. ASSUME NEW c \in Tabs PROVE Fits(c)'
  <2>1. CASE c = b
    BY <1>4, <2>1 DEF FireWarning, IInv, TypeOK, Fits, Agree
  <2>2. CASE c # b
    <3>1. UNCHANGED <<state[c], since[c], shown[c], idleLeft[c], warnLeft[c], countdown[c]>>
      BY <1>2, <2>2 DEF FireWarning, IInv, TypeOK
    <3> QED BY <3>1 DEF IInv, Fits, Agree, Silent
  <2> QED BY <2>1, <2>2
<1> QED BY <1>3, <1>5 DEF IInv

\* An idle timer that is due finds its activity Idle ticks old, and the warning shown.
LEMMA IdleDue ==
  ASSUME IInv, NEW b \in Tabs, FireIdle(b)
  PROVE  state[b] = "on" /\ since[b] = Idle /\ shown[b]
<1> USE TimersAssumption
<1>1. idleLeft[b] = 0 /\ warnLeft[b] # 0
  BY DEF FireIdle
<1>2. state[b] = "on" /\ Agree(b)
  BY <1>1 DEF IInv, Fits, Silent, Unset
<1>3. since[b] \in 0..Idle /\ warnLeft[b] \in 0..Unset
  BY DEF IInv, TypeOK
<1>4. since[b] = Idle
  BY <1>1, <1>2, <1>3 DEF Agree
<1>5. warnLeft[b] = Unset
  BY <1>1, <1>2, <1>4 DEF Agree, AtMost
<1> QED BY <1>2, <1>4, <1>5 DEF Agree

-----------------------------------------------------------------------------
LEMMA Start == Init => IInv
<1> SUFFICES ASSUME Init PROVE IInv
  OBVIOUS
<1>1. 0 \in 0..Idle /\ Throttle \in 0..Throttle /\ Unset \in 0..Unset /\ Idle \in 0..Idle
  BY TimersAssumption DEF Unset
<1> QED BY <1>1 DEF Init, IInv, TypeOK, Fits, Silent

LEMMA Step == IInv /\ [Next]_vars => IInv'
<1> SUFFICES ASSUME IInv, [Next]_vars PROVE IInv'
  OBVIOUS
<1>1. CASE UNCHANGED vars
  BY <1>1 DEF vars, timers, IInv, TypeOK, Fits, Agree, Silent
<1>2. CASE Tick
  BY <1>2, Ticked
<1>3. \A b \in Tabs : since[b] \in 0..Idle /\ stored \in 0..Idle /\ shown[b] \in BOOLEAN
                     /\ countdown[b] \in 0..Unset
  BY DEF IInv, TypeOK
<1>4. 0 \in 0..Idle /\ 0 \in 0..Throttle /\ Throttle \in 0..Throttle /\ Unset \in 0..Unset
  BY TimersAssumption DEF Unset
<1>5. ASSUME NEW b \in Tabs, Initialize(b) PROVE IInv'
  <2>1. \A c \in Tabs : Fits(c)'
    BY <1>4, <1>5, Restarted DEF Initialize
  <2>2. TypeOK'
    BY <1>4, <1>5, RestartAgrees, StoreTyped DEF Initialize, IInv, TypeOK
  <2> QED BY <2>1, <2>2 DEF IInv
<1>6. ASSUME NEW b \in Tabs, state[b] = "on", UNCHANGED state,
             RestartTimers(b, 0, FALSE, Unset)
      PROVE  \A c \in Tabs : Fits(c)'
  <2>1. state' = [state EXCEPT ![b] = "on"]
    BY <1>6 DEF IInv, TypeOK
  <2> QED BY <1>4, <1>6, <2>1, Restarted
<1>7. ASSUME NEW b \in Tabs, HandleUserActivity(b) PROVE IInv'
  <2>1. TypeOK'
    BY <1>4, <1>7, RestartAgrees, StoreTyped DEF HandleUserActivity, IInv, TypeOK
  <2> QED BY <1>6, <1>7, <2>1 DEF HandleUserActivity, IInv
<1>8. ASSUME NEW b \in Tabs, ExtendSession(b) PROVE IInv'
  <2>1. TypeOK'
    BY <1>4, <1>8, RestartAgrees, StoreTyped DEF ExtendSession, IInv, TypeOK
  <2> QED BY <1>6, <1>8, <2>1 DEF ExtendSession, IInv
<1>9. ASSUME NEW b \in Tabs, state[b] = "on", UNCHANGED state, NEW a \in 0..Idle,
             RestartTimers(b, a, shown[b], countdown[b])
      PROVE  \A c \in Tabs : Fits(c)'
  <2>1. state' = [state EXCEPT ![b] = "on"]
    BY <1>9 DEF IInv, TypeOK
  <2> QED BY <1>3, <1>9, <2>1, Restarted
<1>10. ASSUME NEW b \in Tabs, HandleStorageChange(b) PROVE IInv'
  <2>1. CASE stored < since[b]
    <3>1. /\ RestartTimers(b, stored, shown[b], countdown[b])
          /\ overtaken' \subseteq Tabs
      BY <1>10, <2>1 DEF HandleStorageChange, Adopt, IInv, TypeOK
    <3>2. TypeOK'
      BY <1>3, <1>10, <3>1, RestartAgrees DEF HandleStorageChange, IInv, TypeOK
    <3> QED BY <1>3, <1>9, <1>10, <3>1, <3>2 DEF HandleStorageChange, IInv
  <2>2. CASE ~(stored < since[b])
    BY <1>10, <2>2 DEF HandleStorageChange, timers, IInv, TypeOK, Fits, Agree, Silent
  <2> QED BY <2>1, <2>2
<1>11. ASSUME NEW b \in Tabs, CheckForSessionUpdate(b) PROVE IInv'
  <2>1. /\ state[b] = "on" /\ UNCHANGED <<state, rested, stored, event, open>>
        /\ overtaken' \subseteq Tabs
        /\ \E a \in 0..Idle, f \in BOOLEAN, d \in 0..Unset : RestartTimers(b, a, f, d)
    <3>1. /\ state[b] = "on" /\ UNCHANGED <<state, rested, stored, event, open>>
          /\ overtaken' \subseteq Tabs
      BY <1>11 DEF CheckForSessionUpdate, Adopt, IInv, TypeOK
    <3> DEFINE late == since[b] >= Idle - Warning
               k == IF late /\ ~shown[b] THEN Idle - since[b] ELSE countdown[b]
    <3>2. late \in BOOLEAN /\ (shown[b] \/ late) \in BOOLEAN
      BY <1>3
    <3>3. k \in 0..Unset
      BY <1>3, TimersAssumption DEF Unset
    <3>4. CASE stored < since[b]
      <4>1. RestartTimers(b, stored, shown[b] \/ late, k)
        BY <1>11, <3>4 DEF CheckForSessionUpdate, Adopt
      <4> QED BY <1>3, <3>1, <3>2, <3>3, <4>1
    <3>5. CASE ~(stored < since[b])
      BY <1>3, <1>11, <3>1, <3>5 DEF CheckForSessionUpdate
    <3> QED BY <3>4, <3>5
  <2>2. PICK a \in 0..Idle, f \in BOOLEAN, d \in 0..Unset : RestartTimers(b, a, f, d)
    BY <2>1
  <2>3. TypeOK'
    BY <2>1, <2>2, RestartAgrees DEF IInv, TypeOK
  <2>4. state' = [state EXCEPT ![b] = "on"]
    BY <2>1 DEF IInv, TypeOK
  <2> QED BY <2>2, <2>3, <2>4, Restarted DEF IInv
<1>12. ASSUME NEW b \in Tabs, FireWarning(b) PROVE IInv'
  BY <1>12, Warned
<1>13. ASSUME NEW b \in Tabs, FireIdle(b) PROVE IInv'
  <2>1. since[b] = Idle
    BY <1>13, IdleDue
  <2>2. Destroy(b, "timedOut") /\ open' = FALSE
    BY <1>13, <2>1, TimersAssumption DEF FireIdle
  <2> QED BY <2>2, Destroyed
<1>14. ASSUME NEW b \in Tabs, CountedDown(b) \/ Logout(b) \/ Evict(b) PROVE IInv'
  <2>1. open' \in BOOLEAN
    BY <1>14 DEF CountedDown, Logout, Evict, IInv, TypeOK
  <2> QED BY <1>14, <2>1, Destroyed DEF CountedDown, Logout, Evict
<1> QED BY <1>1, <1>2, <1>5, <1>7, <1>8, <1>10, <1>11, <1>12, <1>13, <1>14 DEF Next

\* The strengthened invariant holds in every reachable state.
THEOREM Inductive == Spec => []IInv
BY Start, Step, PTL DEF Spec

\* Ages, timers and flags keep their ranges, for any timeouts.
THEOREM TypeCorrect == Spec => []TypeOK
<1>1. IInv => TypeOK
  BY DEF IInv
<1> QED BY <1>1, Inductive, PTL

\* The timers of every manager that is on agree with the activity it knows of.
THEOREM TimersAgreeHolds == Spec => []TimersAgree
<1>1. IInv => TimersAgree
  BY DEF IInv, Fits, Agree, TimersAgree, On
<1> QED BY <1>1, Inductive, PTL

\* No manager ends a session without having shown its warning.
THEOREM WarnedFirstHolds == Spec => WarnedFirst
<1> DEFINE Warns == \A b \in Tabs : state[b] = "on" /\ state'[b] = "timedOut" => shown[b]
<1>1. IInv /\ [Next]_vars => [Warns]_vars
  <2> SUFFICES ASSUME IInv, Next, NEW b \in Tabs, state[b] = "on", state'[b] = "timedOut"
               PROVE  shown[b]
    OBVIOUS
  <2>1. state \in [Tabs -> {"off", "on", "timedOut", "countedDown"}]
    BY DEF IInv, TypeOK
  <2>2. PICK c \in Tabs : FireIdle(c) /\ state'[c] # state[c]
    BY <2>1 DEF Next, Tick, Initialize, HandleUserActivity, ExtendSession, HandleStorageChange,
                CheckForSessionUpdate, FireWarning, FireIdle, CountedDown, Logout, Evict, Destroy
  <2>3. c = b
    BY <2>1, <2>2 DEF FireIdle, Destroy
  <2> QED BY <2>2, <2>3, IdleDue
<1> QED BY <1>1, Inductive, PTL DEF Spec, WarnedFirst

-----------------------------------------------------------------------------
(* What a tab knows of the others: the stored activity is not newer than   *)
(* the one it counts from, but for an event on its way; and a dialog shows *)
(* the time that is left, but for one that an activity overtook.           *)

Heard(b) == event[b] \/ since[b] <= stored

Dialog(b) ==
    countdown[b] # Unset => shown[b] /\ (b \in overtaken \/ countdown[b] = Idle - since[b])

Knows(b) == state[b] = "on" => Heard(b) /\ Dialog(b)

HInv == IInv /\ \A b \in Tabs : Knows(b)

\* What restartTimers does to the dialog.
LEMMA RestartDialog ==
  ASSUME TypeOK, NEW b \in Tabs, NEW a \in 0..Idle, NEW f \in BOOLEAN, NEW d \in 0..Unset,
         RestartTimers(b, a, f, d), ~f => d = Unset
  PROVE  /\ since'[b] = a
         /\ countdown'[b] # Unset => shown'[b]
         /\ countdown'[b] = d \/ (~f /\ countdown'[b] = Idle - a)
         /\ \A c \in Tabs \ {b} : UNCHANGED <<since[c], shown[c], countdown[c]>>
<1> USE TimersAssumption
<1>1. /\ since' = [since EXCEPT ![b] = a]
      /\ shown' = [shown EXCEPT ![b] = f \/ (a >= Idle - Warning)]
      /\ countdown' = [countdown EXCEPT ![b] = IF (a >= Idle - Warning) /\ ~f THEN Idle - a ELSE d]
  BY DEF RestartTimers
<1>2. /\ since'[b] = a /\ shown'[b] = (f \/ (a >= Idle - Warning))
      /\ countdown'[b] = IF (a >= Idle - Warning) /\ ~f THEN Idle - a ELSE d
  BY <1>1 DEF TypeOK
<1>3. \A c \in Tabs \ {b} : UNCHANGED <<since[c], shown[c], countdown[c]>>
  BY <1>1 DEF TypeOK
<1> QED BY <1>2, <1>3

\* An activity is stored, and every other manager will hear of it.
LEMMA Told ==
  ASSUME HInv, NEW b \in Tabs, RestartTimers(b, 0, FALSE, Unset), StoreActivity(b),
         \A c \in Tabs \ {b} : state'[c] = state[c], overtaken \ {b} \subseteq overtaken'
  PROVE  \A c \in Tabs : Knows(c)'
<1>1. /\ since'[b] = 0
      /\ countdown'[b] # Unset => shown'[b] /\ countdown'[b] = Idle - since'[b]
      /\ \A c \in Tabs \ {b} : UNCHANGED <<since[c], shown[c], countdown[c]>>
  <2>1. 0 \in 0..Idle /\ Unset \in 0..Unset /\ FALSE \in BOOLEAN
    BY TimersAssumption DEF Unset
  <2>2. TypeOK /\ (~FALSE => Unset = Unset)
    BY DEF HInv, IInv
  <2>3. /\ since'[b] = 0
        /\ countdown'[b] # Unset => shown'[b]
        /\ countdown'[b] = Unset \/ countdown'[b] = Idle - 0
        /\ \A c \in Tabs \ {b} : UNCHANGED <<since[c], shown[c], countdown[c]>>
    BY <2>1, <2>2, RestartDialog
  <2> QED BY <2>3
<1>2. stored' = 0 /\ \A c \in Tabs \ {b} : state[c] = "on" => event'[c]
  BY DEF StoreActivity
<1> QED BY <1>1, <1>2 DEF HInv, Knows, Heard, Dialog

\* A manager restarts with an activity not older than the stored one; what its
\* dialog shows then is either of that activity or overtaken.
LEMMA Takes ==
  ASSUME HInv, NEW b \in Tabs, UNCHANGED <<state, stored>>,
         \A c \in Tabs \ {b} : event'[c] = event[c],
         NEW a \in 0..Idle, NEW f \in BOOLEAN, NEW d \in 0..Unset,
         RestartTimers(b, a, f, d), ~f => d = Unset, a <= stored,
         overtaken \subseteq overtaken',
         f => b \in overtaken' \/ d = Unset \/ d = Idle - a
  PROVE  \A c \in Tabs : Knows(c)'
<1>1. TypeOK
  BY DEF HInv, IInv
<1>2. /\ since'[b] = a
      /\ countdown'[b] # Unset => shown'[b]
      /\ countdown'[b] = d \/ (~f /\ countdown'[b] = Idle - a)
      /\ \A c \in Tabs \ {b} : UNCHANGED <<since[c], shown[c], countdown[c]>>
  BY <1>1, RestartDialog
<1>3. Knows(b)'
  BY <1>2 DEF Knows, Heard, Dialog
<1>4. \A c \in Tabs \ {b} : Knows(c)'
  BY <1>2 DEF HInv, Knows, Heard, Dialog
<1> QED BY <1>3, <1>4

\* A manager that is gone knows nothing, and the others what they knew.
LEMMA Gone ==
  ASSUME HInv, NEW b \in Tabs, NEW s \in {"off", "timedOut", "countedDown"}, Destroy(b, s)
  PROVE  \A c \in Tabs : Knows(c)'
<1>1. /\ state'[b] # "on" /\ UNCHANGED <<stored, overtaken>>
      /\ \A c \in Tabs \ {b} : UNCHANGED <<state[c], since[c], shown[c], countdown[c], event[c]>>
  BY DEF Destroy, HInv, IInv, TypeOK
<1> QED BY <1>1 DEF HInv, Knows, Heard, Dialog

LEMMA TicksOn ==
  ASSUME HInv, Tick, NEW c \in Tabs
  PROVE  Knows(c)'
<1> USE TimersAssumption
<1>1. /\ since[c] \in 0..Idle /\ countdown[c] \in 0..Unset /\ stored \in 0..Idle
  BY DEF HInv, IInv, TypeOK
<1>2. /\ since'[c] = AtMost(since[c] + 1, Idle) /\ stored' = AtMost(stored + 1, Idle)
      /\ countdown'[c] = IF countdown[c] \in 1..Idle THEN countdown[c] - 1 ELSE countdown[c]
      /\ UNCHANGED <<state[c], shown[c], event[c], overtaken>>
  BY DEF Tick, Down
<1>3. Heard(c) => Heard(c)'
  BY <1>1, <1>2 DEF Heard, AtMost
<1>4. Dialog(c) => Dialog(c)'
  BY <1>1, <1>2 DEF Dialog, AtMost, Unset
<1> QED BY <1>2, <1>3, <1>4 DEF HInv, Knows

LEMMA KnowsStep == HInv /\ [Next]_vars => HInv'
<1> SUFFICES ASSUME HInv, [Next]_vars PROVE HInv'
  OBVIOUS
<1> DEFINE Goal == \A c \in Tabs : Knows(c)'
<1>0. IInv'
  BY Step DEF HInv
<1>1. ASSUME UNCHANGED vars PROVE Goal
  BY <1>1 DEF vars, timers, HInv, Knows, Heard, Dialog
<1>2. ASSUME Tick PROVE Goal
  BY <1>2, TicksOn
<1>3. ASSUME NEW b \in Tabs, Initialize(b) \/ HandleUserActivity(b) \/ ExtendSession(b) PROVE Goal
  <2>1. /\ RestartTimers(b, 0, FALSE, Unset) /\ StoreActivity(b)
        /\ overtaken \ {b} \subseteq overtaken'
    BY <1>3 DEF Initialize, HandleUserActivity, ExtendSession
  <2>2. \A c \in Tabs \ {b} : state'[c] = state[c]
    BY <1>3 DEF Initialize, HandleUserActivity, ExtendSession, HInv, IInv, TypeOK
  <2> QED BY <2>1, <2>2, Told
\* What a manager that is on knows before it restarts.
<1>10. ASSUME NEW b \in Tabs, state[b] = "on"
      PROVE  /\ since[b] \in 0..Idle /\ stored \in 0..Idle /\ shown[b] \in BOOLEAN
             /\ countdown[b] \in 0..Unset
             /\ Heard(b) /\ Dialog(b) /\ (~shown[b] => countdown[b] = Unset)
  BY <1>10 DEF HInv, IInv, TypeOK, Knows, Dialog
<1>4. ASSUME NEW b \in Tabs, HandleStorageChange(b) PROVE Goal
  <2>1. /\ state[b] = "on" /\ UNCHANGED <<state, stored>>
        /\ \A c \in Tabs \ {b} : event'[c] = event[c]
    BY <1>4 DEF HandleStorageChange, HInv, IInv, TypeOK
  <2>2. CASE stored < since[b]
    <3>1. /\ RestartTimers(b, stored, shown[b], countdown[b])
          /\ overtaken \subseteq overtaken' /\ (shown[b] => b \in overtaken')
      BY <1>4, <2>2 DEF HandleStorageChange, Adopt
    <3> QED BY <1>10, <2>1, <3>1, Takes
  <2>3. CASE ~(stored < since[b])
    BY <1>10, <1>4, <2>1, <2>3 DEF HandleStorageChange, timers, HInv, IInv, TypeOK, Knows, Heard, Dialog
  <2> QED BY <2>2, <2>3
<1>5. ASSUME NEW b \in Tabs, CheckForSessionUpdate(b) PROVE Goal
  <2>1. /\ state[b] = "on" /\ UNCHANGED <<state, stored>>
        /\ \A c \in Tabs \ {b} : event'[c] = event[c]
    BY <1>5 DEF CheckForSessionUpdate
  <2>2. CASE stored < since[b]
    <3> DEFINE late == since[b] >= Idle - Warning
               f == shown[b] \/ late
               k == IF late /\ ~shown[b] THEN Idle - since[b] ELSE countdown[b]
    <3>1. /\ RestartTimers(b, stored, f, k)
          /\ overtaken \subseteq overtaken' /\ (f => b \in overtaken')
      BY <1>5, <2>2 DEF CheckForSessionUpdate, Adopt
    <3>2. f \in BOOLEAN /\ k \in 0..Unset /\ (~f => k = Unset)
      BY <1>10, <2>1, TimersAssumption DEF Unset
    <3> HIDE DEF f, k
    <3>3. stored \in 0..Idle /\ stored <= stored
      BY <1>10, <2>1
    <3> QED BY <2>1, <3>1, <3>2, <3>3, Takes
  <2>3. CASE ~(stored < since[b])
    <3>1. RestartTimers(b, since[b], shown[b], countdown[b]) /\ UNCHANGED overtaken
      BY <1>5, <2>3 DEF CheckForSessionUpdate
    <3>2. since[b] <= stored /\ (b \in overtaken' \/ countdown[b] = Unset \/ countdown[b] = Idle - since[b])
      BY <1>10, <2>1, <2>3, <3>1 DEF Dialog
    <3> QED BY <1>10, <2>1, <3>1, <3>2, Takes
  <2> QED BY <2>2, <2>3
<1>6. ASSUME NEW b \in Tabs, FireWarning(b) PROVE Goal
  <2>1. /\ countdown'[b] = IF shown[b] THEN countdown[b] ELSE Idle - since[b]
        /\ shown'[b] /\ UNCHANGED <<state, since, stored, event, overtaken>>
        /\ \A c \in Tabs \ {b} : UNCHANGED <<shown[c], countdown[c]>>
    BY <1>6 DEF FireWarning, HInv, IInv, TypeOK
  <2> QED BY <2>1 DEF HInv, Knows, Heard, Dialog
<1>7. ASSUME NEW b \in Tabs, FireIdle(b) PROVE Goal
  <2>1. since[b] = Idle
    BY <1>7, IdleDue DEF HInv
  <2>2. Destroy(b, "timedOut")
    BY <1>7, <2>1, TimersAssumption DEF FireIdle
  <2> QED BY <2>2, Gone
<1>8. ASSUME NEW b \in Tabs, CountedDown(b) \/ Logout(b) \/ Evict(b) PROVE Goal
  BY <1>8, Gone DEF CountedDown, Logout, Evict
<1>9. Goal
  <2> HIDE DEF Goal
  <2> QED BY <1>1, <1>2, <1>3, <1>4, <1>5, <1>6, <1>7, <1>8 DEF Next
<1> QED BY <1>0, <1>9 DEF HInv

\* What a manager knows of the activity is what is stored, but for news on its way
\* and dialogs that it overtook.
THEOREM KnowsAlways == Spec => []HInv
<1>1. Init => HInv
  BY Start DEF Init, HInv, Knows
<1> QED BY <1>1, KnowsStep, PTL DEF Spec

\* No manager and no dialog ends a session that another tab kept active, but for
\* news on its way and dialogs that it overtook, for any number of tabs.
THEOREM ClosedOnlyIdleHolds == Spec => ClosedOnlyIdle
<1> DEFINE Closed == \A b \in Tabs :
                        state[b] = "on" /\ state'[b] \in {"timedOut", "countedDown"}
                        => stored = Idle \/ event[b] \/ b \in overtaken
<1>1. HInv /\ [Next]_vars => [Closed]_vars
  <2> SUFFICES ASSUME HInv, Next, NEW b \in Tabs, state[b] = "on",
                      state'[b] \in {"timedOut", "countedDown"}
               PROVE  stored = Idle \/ event[b] \/ b \in overtaken
    OBVIOUS
  <2>1. state \in [Tabs -> {"off", "on", "timedOut", "countedDown"}]
    BY DEF HInv, IInv, TypeOK
  <2>2. PICK c \in Tabs : (FireIdle(c) \/ CountedDown(c)) /\ state'[c] # state[c]
                          /\ \A d \in Tabs \ {c} : state'[d] = state[d]
    BY <2>1 DEF Next, Tick, Initialize, HandleUserActivity, ExtendSession, HandleStorageChange,
                CheckForSessionUpdate, FireWarning, FireIdle, CountedDown, Logout, Evict, Destroy
  <2>3. c = b
    BY <2>2
  <2>4. /\ since[b] \in 0..Idle /\ stored \in 0..Idle /\ countdown[b] \in 0..Unset
        /\ Heard(b) /\ Dialog(b)
    BY DEF HInv, IInv, TypeOK, Knows
  <2>5. since[b] = Idle \/ b \in overtaken
    <3>1. CASE FireIdle(b)
      BY <3>1, IdleDue DEF HInv
    <3>2. CASE CountedDown(b)
      <4>1. countdown[b] = 0 /\ Unset # 0
        BY <3>2, TimersAssumption DEF CountedDown, Unset
      <4> QED BY <2>4, <4>1, TimersAssumption DEF Dialog
    <3> QED BY <2>2, <2>3, <3>1, <3>2
  <2> QED BY <2>4, <2>5, TimersAssumption DEF Heard
<1> QED BY <1>1, KnowsAlways, PTL DEF Spec, ClosedOnlyIdle

-----------------------------------------------------------------------------
\* The managers start as clocks that are off,
LEMMA ClockStart == Init => Clock!Init
BY DEF Init, Clock!Init, ClockState

\* and each of their steps is a step of the clocks, or none.
LEMMA ClockStep == IInv /\ [Next]_vars => [Clock!Next]_<<ClockState, since>>
<1> SUFFICES ASSUME IInv, [Next]_vars PROVE Clock!Next \/ UNCHANGED <<ClockState, since>>
  OBVIOUS
<1> DEFINE Goal == Clock!Next \/ UNCHANGED <<ClockState, since>>
<1>0. /\ state \in [Tabs -> {"off", "on", "timedOut", "countedDown"}]
      /\ since \in [Tabs -> 0..Idle] /\ stored \in 0..Idle
  BY DEF IInv, TypeOK
<1>1. CASE UNCHANGED vars
  BY <1>1 DEF vars, ClockState
<1>2. CASE Tick
  <2>1. \A b \in Tabs : AtMost(since[b] + 1, Idle) = IF since[b] < Idle THEN since[b] + 1 ELSE Idle
    BY <1>0, TimersAssumption DEF AtMost
  <2>2. since' = [b \in Tabs |-> IF since[b] < Idle THEN since[b] + 1 ELSE Idle]
    BY <1>2, <2>1 DEF Tick
  <2>3. UNCHANGED ClockState
    BY <1>2 DEF Tick, ClockState
  <2> QED BY <2>2, <2>3 DEF Clock!Next, Clock!Tick
<1>3. ASSUME NEW b \in Tabs, Initialize(b) PROVE Goal
  <2>1. ClockState' = [ClockState EXCEPT ![b] = "on"]
    BY <1>0, <1>3 DEF Initialize, ClockState
  <2>2. since' = [since EXCEPT ![b] = 0]
    BY <1>3 DEF Initialize, RestartTimers
  <2> QED BY <2>1, <2>2 DEF Clock!Next, Clock!Enter, Clock!Go
\* A restart of the timers with what is known, or with a later activity.
<1>4. ASSUME NEW b \in Tabs, state[b] = "on", UNCHANGED state,
             NEW a \in 0..since[b], since' = [since EXCEPT ![b] = a]
      PROVE  Goal
  <2>1. ClockState[b] = "on" /\ UNCHANGED ClockState
    BY <1>4 DEF ClockState
  <2> QED BY <1>4, <2>1 DEF Clock!Next, Clock!Active
<1>5. ASSUME NEW b \in Tabs, HandleUserActivity(b) \/ ExtendSession(b) PROVE Goal
  <2>1. 0 \in 0..since[b]
    BY <1>0
  <2> USE DEF HandleUserActivity, ExtendSession
  <2>2. state[b] = "on" /\ UNCHANGED state
    BY <1>5
  <2>3. since' = [since EXCEPT ![b] = 0]
    BY <1>5 DEF RestartTimers
  <2> HIDE DEF HandleUserActivity, ExtendSession
  <2> QED BY <1>4, <2>1, <2>2, <2>3
<1>6. ASSUME NEW b \in Tabs, HandleStorageChange(b) PROVE Goal
  <2>1. CASE stored < since[b]
    <3>1. stored \in 0..since[b] /\ since' = [since EXCEPT ![b] = stored]
      BY <1>0, <1>6, <2>1 DEF HandleStorageChange, Adopt, RestartTimers
    <3> QED BY <1>4, <1>6, <3>1 DEF HandleStorageChange
  <2>2. CASE ~(stored < since[b])
    BY <1>6, <2>2 DEF HandleStorageChange, ClockState
  <2> QED BY <2>1, <2>2
<1>7. ASSUME NEW b \in Tabs, CheckForSessionUpdate(b) PROVE Goal
  <2>1. PICK a \in 0..since[b] : since' = [since EXCEPT ![b] = a]
    <3>1. CASE stored < since[b]
      BY <1>0, <1>7, <3>1 DEF CheckForSessionUpdate, Adopt, RestartTimers
    <3>2. CASE ~(stored < since[b])
      <4>1. since[b] \in 0..since[b]
        BY <1>0
      <4> QED BY <1>7, <3>2, <4>1 DEF CheckForSessionUpdate, RestartTimers
    <3> QED BY <3>1, <3>2
  <2> QED BY <1>4, <1>7, <2>1 DEF CheckForSessionUpdate
<1>8. ASSUME NEW b \in Tabs, FireWarning(b) PROVE Goal
  BY <1>8 DEF FireWarning, ClockState
<1>9. ASSUME NEW b \in Tabs, FireIdle(b) PROVE Goal
  <2>1. state[b] = "on" /\ since[b] = Idle
    BY <1>9, IdleDue
  <2>2. Destroy(b, "timedOut")
    BY <1>9, <2>1, TimersAssumption DEF FireIdle
  <2>3. ClockState[b] = "on" /\ ClockState' = [ClockState EXCEPT ![b] = "timedOut"]
    BY <1>0, <2>1, <2>2 DEF Destroy, ClockState
  <2> QED BY <2>1, <2>2, <2>3 DEF Clock!Next, Clock!TimeOut, Clock!Go, Destroy
<1>10. ASSUME NEW b \in Tabs, CountedDown(b) \/ Logout(b) \/ Evict(b) PROVE Goal
  <2>1. state[b] = "on"
    BY <1>10, TimersAssumption DEF CountedDown, Logout, Evict, IInv, Fits, Silent, Unset
  <2>2. PICK s \in {"off", "countedDown"} : Destroy(b, s)
    BY <1>10 DEF CountedDown, Logout, Evict
  <2>3. ClockState[b] = "on" /\ ClockState' = [ClockState EXCEPT ![b] = "off"]
    BY <1>0, <2>1, <2>2 DEF Destroy, ClockState
  <2> QED BY <2>2, <2>3 DEF Clock!Next, Clock!Leave, Clock!Go, Destroy
<1>11. Goal
  <2> HIDE DEF Goal
  <2>1. CASE UNCHANGED vars
    BY <1>1, <2>1 DEF Goal
  <2>2. CASE Tick
    BY <1>2, <2>2 DEF Goal
  <2> QED BY <2>1, <2>2, <1>3, <1>5, <1>6, <1>7, <1>8, <1>9, <1>10 DEF Next
<1> QED BY <1>11

\* Safety of the refinement: every behaviour of the managers is one of idle clocks,
\* for any number of tabs.  That a clock also does time out is left to TLC.
THEOREM ManagersRefineClocks == Spec => Clock!Safety
BY ClockStart, ClockStep, Inductive, PTL DEF Spec, Clock!Safety

-----------------------------------------------------------------------------
(* The timebox of an event, for any number of requests, and the page that   *)
(* shows it.  A request that is about to write, or to answer, remembers a   *)
(* row that was stored; versions only grow, and a row of the same version   *)
(* is the same row.  So what a request writes is wrong by no more than the  *)
(* time it took, and what a page was told of a version holds as long as     *)
(* the row has it.                                                          *)

BoxReq == [at : Phases, op : Ops, key : Keys, id : Rows \cup {NoRow},
           seen : RowType \cup {NoRow}, time : 0..MaxTime]

\* A request that has read its row saw a state of it that was there.
ReqStands(q) ==
    /\ q.at = "write" => q.op # "get"
    /\ q.at = "write" \/ (q.at = "answer" /\ q.op = "get") =>
           /\ q.id \in Stored /\ q.seen \in RowType
           /\ q.seen.startedAt <= q.time /\ q.time <= now
           /\ q.seen.version <= row[q.id].version
           /\ q.seen.version = row[q.id].version => q.seen = row[q.id]

\* Nothing has run before it started, nor without a row.
RowStands(x) ==
    /\ ran[x] <= now
    /\ row[x] = NoRow => ran[x] = 0 /\ slack[x] = 0
    /\ row[x] # NoRow => row[x].startedAt <= now

BoxInv ==
    /\ BoxTypeOK
    /\ \A x \in Rows : RowStands(x)
    /\ \A r \in Requests : ReqStands(req[r])
    /\ ElapsedUnlessTorn

\* Rows stay, and change with their version; time goes on.
Onward ==
    /\ now <= now'
    /\ \A x \in Stored : x \in Stored' /\ (row'[x] = row[x] \/ row'[x].version > row[x].version)

RowShape(b) ==
    /\ b.status # "RUNNING" => b.startedAt = 0
    /\ b.status = "IDLE" => b.banked = 0

LEMMA BoxParts ==
  BoxTypeOK <=>
    /\ linked \in BOOLEAN /\ now \in 0..MaxTime /\ controls \in 0..MaxControls
    /\ row \in [Rows -> RowType \cup {NoRow}] /\ \A x \in Stored : RowShape(row[x])
    /\ req \in [Requests -> BoxReq]
    /\ ran \in [Rows -> 0..MaxTime] /\ slack \in [Rows -> Nat] /\ torn \subseteq Rows
<1>1. (\A x \in Stored : RowShape(row[x])) <=>
         \A x \in Stored : /\ row[x].status # "RUNNING" => row[x].startedAt = 0
                           /\ row[x].status = "IDLE" => row[x].banked = 0
  BY DEF RowShape
<1> QED BY <1>1 DEF BoxTypeOK, BoxReq

LEMMA StoredTyped ==
  ASSUME BoxInv, NEW x \in Stored
  PROVE  x \in Rows /\ row[x] \in RowType /\ row[x].startedAt <= now /\ RowShape(row[x])
BY BoxParts DEF BoxInv, Stored, RowStands

\* What has elapsed by a moment after the start is no negative number.
LEMMA ElapsedNat ==
  ASSUME NEW b \in RowType, NEW t \in Nat, b.startedAt <= t
  PROVE  Elapsed(b, t) \in Nat
BY DEF Elapsed, RowType

LEMMA RestTyped == AtRest \in BoxReq /\ ReqStands(AtRest)
<1>1. AtRest \in BoxReq
  BY TimeboxAssumption DEF AtRest, BoxReq, Phases, Ops, Keys
<1>2. ReqStands(AtRest)
  BY DEF AtRest, ReqStands
<1> QED BY <1>1, <1>2

LEMMA ReqStays ==
  ASSUME BoxInv, Onward, BoxTypeOK', NEW v \in Requests, req'[v] = req[v]
  PROVE  ReqStands(req[v])'
<1>1. ReqStands(req[v]) /\ req[v] \in BoxReq
  BY BoxParts DEF BoxInv
<1>2. /\ now \in Nat /\ now' \in Nat /\ now <= now'
  BY DEF BoxInv, BoxTypeOK, Onward
<1>3. CASE ~(req[v].at = "write" \/ (req[v].at = "answer" /\ req[v].op = "get"))
  BY <1>1, <1>3 DEF ReqStands
<1>4. CASE req[v].at = "write" \/ (req[v].at = "answer" /\ req[v].op = "get")
  <2> DEFINE x == req[v].id
  <2>1. /\ x \in Stored /\ req[v].seen \in RowType
        /\ req[v].seen.startedAt <= req[v].time /\ req[v].time <= now
        /\ req[v].seen.version <= row[x].version
        /\ req[v].seen.version = row[x].version => req[v].seen = row[x]
    BY <1>1, <1>4 DEF ReqStands
  <2>2. x \in Stored' /\ (row'[x] = row[x] \/ row'[x].version > row[x].version)
    BY <2>1 DEF Onward
  <2>3. row[x] \in RowType /\ row'[x] \in RowType
    BY <2>1, <2>2, BoxParts, StoredTyped DEF BoxTypeOK, Stored
  <2>4. /\ req[v].seen.version \in Nat /\ row[x].version \in Nat /\ row'[x].version \in Nat
        /\ req[v].time \in Nat
    BY <1>1, <2>1, <2>3 DEF RowType, BoxReq
  <2>5. /\ req[v].seen.version <= row'[x].version /\ req[v].time <= now'
        /\ req[v].seen.version = row'[x].version => req[v].seen = row'[x]
    BY <1>2, <2>1, <2>2, <2>4
  <2> QED BY <1>1, <2>1, <2>2, <2>5 DEF ReqStands
<1> QED BY <1>3, <1>4

\* A step that leaves the rows alone.
LEMMA BoxGoes ==
  ASSUME BoxInv, NEW r \in Requests, NEW q \in BoxReq, ReqStands(q), Go(r, q),
         UNCHANGED <<now, row, memory>>, linked' \in BOOLEAN, controls' \in 0..MaxControls
  PROVE  /\ BoxInv' /\ Onward
         /\ req'[r] = q /\ \A v \in Requests \ {r} : req'[v] = req[v]
<1>1. req'[r] = q /\ \A v \in Requests \ {r} : req'[v] = req[v]
  BY BoxParts DEF Go, BoxInv
<1>2. req' \in [Requests -> BoxReq]
  BY BoxParts DEF Go, BoxInv
<1>3. UNCHANGED <<ran, slack, torn>> /\ Stored' = Stored
  BY DEF memory, Stored
<1>4. BoxTypeOK'
  BY <1>2, <1>3, BoxParts DEF BoxInv, BoxTypeOK, BoxReq
<1>5. Onward
  BY <1>3, BoxParts DEF Onward, BoxInv
<1>6. ReqStands(req[r])'
  BY <1>1, <1>3 DEF ReqStands
<1>7. \A v \in Requests : ReqStands(req[v])'
  BY <1>1, <1>4, <1>5, <1>6, ReqStays
<1>8. \A x \in Rows : RowStands(x)'
  BY <1>3 DEF BoxInv, RowStands
<1>9. ElapsedUnlessTorn'
  BY <1>3 DEF BoxInv, ElapsedUnlessTorn, Exact, Elapsed
<1> QED BY <1>1, <1>4, <1>5, <1>7, <1>8, <1>9 DEF BoxInv

\* What With leaves of a request.
LEMMA WithGives ==
  ASSUME BoxInv, NEW r \in Requests, NEW x \in Rows, NEW b \in RowType, With(r, x, b)
  PROVE  \E q \in BoxReq :
            /\ Go(r, q) /\ q.op = req[r].op
            /\ q.at = "write" => q.op # "get"
            /\ q.at = "write" \/ (q.at = "answer" /\ q.op = "get") =>
                   q.id = x /\ q.seen = b /\ q.time = now
<1> DEFINE op == req[r].op
           done == [AtRest EXCEPT !.at = "answer", !.op = op]
           on == [AtRest EXCEPT !.at = IF op = "get" THEN "answer" ELSE "write", !.op = op,
                                !.id = x, !.seen = b, !.time = now]
<1>1. op \in Ops /\ now \in 0..MaxTime
  BY BoxParts DEF BoxInv, BoxReq
<1>2. done \in BoxReq /\ done.at = "answer" /\ done.op = op
  BY <1>1, RestTyped DEF BoxReq, Phases, AtRest
<1>3. /\ on \in BoxReq /\ on.op = op /\ on.id = x /\ on.seen = b /\ on.time = now
      /\ on.at = IF op = "get" THEN "answer" ELSE "write"
  BY <1>1, RestTyped DEF BoxReq, Phases, AtRest
<1>4. Go(r, IF op = "pause" /\ b.status # "RUNNING" THEN done ELSE on)
  BY DEF With
<1> HIDE DEF done, on
<1>5. CASE op = "pause" /\ b.status # "RUNNING"
  <2>1. Go(r, done)
    BY <1>4, <1>5
  <2> QED BY <1>2, <1>5, <2>1
<1>6. CASE ~(op = "pause" /\ b.status # "RUNNING")
  <2>1. Go(r, on)
    BY <1>4, <1>6
  <2> QED BY <1>3, <2>1
<1> QED BY <1>5, <1>6

-----------------------------------------------------------------------------
\* A read or a re-read of a row that is stored.
LEMMA TakesRow ==
  ASSUME BoxInv, NEW r \in Requests, NEW x \in Stored, With(r, x, row[x]),
         UNCHANGED <<linked, now, row, controls, memory>>
  PROVE  /\ BoxInv' /\ Onward /\ req'[r].op = req[r].op
         /\ \A v \in Requests \ {r} : req'[v] = req[v]
<1>1. x \in Rows /\ row[x] \in RowType /\ row[x].startedAt <= now
  BY StoredTyped
<1>2. PICK q \in BoxReq :
         /\ Go(r, q) /\ q.op = req[r].op
         /\ q.at = "write" => q.op # "get"
         /\ q.at = "write" \/ (q.at = "answer" /\ q.op = "get") =>
                q.id = x /\ q.seen = row[x] /\ q.time = now
  BY <1>1, WithGives
<1>3. ReqStands(q)
  <2>1. now \in Nat /\ row[x].version \in Nat
    BY <1>1, BoxParts DEF BoxInv, RowType
  <2> QED BY <1>1, <1>2, <2>1 DEF ReqStands
<1>4. linked' \in BOOLEAN /\ controls' \in 0..MaxControls
  BY BoxParts DEF BoxInv
<1> QED BY <1>2, <1>3, <1>4, BoxGoes

\* A request that goes on without a row.
LEMMA GoesOn ==
  ASSUME BoxInv, NEW r \in Requests, NEW q \in BoxReq, q.at \in {"idle", "find", "create", "reread"},
         Go(r, q), UNCHANGED <<now, row, memory>>, linked' \in BOOLEAN,
         controls' \in 0..MaxControls
  PROVE  /\ BoxInv' /\ Onward /\ req'[r] = q
         /\ \A v \in Requests \ {r} : req'[v] = req[v]
<1>1. ReqStands(q)
  BY DEF ReqStands
<1> QED BY <1>1, BoxGoes

LEMMA FindStep ==
  ASSUME BoxInv, NEW r \in Requests, Find(r)
  PROVE  /\ BoxInv' /\ Onward /\ req'[r].op = req[r].op
         /\ \A v \in Requests \ {r} : req'[v] = req[v]
<1>0. /\ UNCHANGED <<linked, now, row, controls, memory>>
      /\ linked' \in BOOLEAN /\ controls' \in 0..MaxControls
  BY BoxParts DEF Find, BoxInv
<1>1. CASE Matches(req[r].key) = {}
  <2> DEFINE q == [req[r] EXCEPT !.at = "create"]
  <2>1. q \in BoxReq /\ q.at = "create" /\ q.op = req[r].op
    BY BoxParts DEF BoxInv, BoxReq, Phases
  <2>2. Go(r, q)
    BY <1>1 DEF Find
  <2> HIDE DEF q
  <2> QED BY <1>0, <2>1, <2>2, GoesOn
<1>2. CASE Matches(req[r].key) # {}
  <2>1. PICK x \in Stored : With(r, x, row[x])
    BY <1>2 DEF Find, Matches
  <2> QED BY <1>0, <2>1, TakesRow
<1> QED BY <1>1, <1>2

LEMMA ReReadStep ==
  ASSUME BoxInv, NEW r \in Requests, ReRead(r)
  PROVE  /\ BoxInv' /\ Onward /\ req'[r].op = req[r].op
         /\ \A v \in Requests \ {r} : req'[v] = req[v]
<1>1. PICK x \in Stored : With(r, x, row[x])
  BY DEF ReRead, Matches
<1> QED BY <1>1, TakesRow DEF ReRead

\* The new row has not run.
LEMMA Inserts ==
  ASSUME BoxInv, NEW r \in Requests, NEW x \in Rows, row[x] = NoRow, NEW b \in RowType,
         b.status = "IDLE", b.startedAt = 0, b.banked = 0,
         row' = [row EXCEPT ![x] = b], With(r, x, b), UNCHANGED <<linked, now, controls, memory>>
  PROVE  /\ BoxInv' /\ Onward /\ req'[r].op = req[r].op
         /\ \A v \in Requests \ {r} : req'[v] = req[v]
<1>1. PICK q \in BoxReq :
         /\ Go(r, q) /\ q.op = req[r].op
         /\ q.at = "write" => q.op # "get"
         /\ q.at = "write" \/ (q.at = "answer" /\ q.op = "get") =>
                q.id = x /\ q.seen = b /\ q.time = now
  BY WithGives
<1>2. /\ req'[r] = q /\ \A v \in Requests \ {r} : req'[v] = req[v]
      /\ req' \in [Requests -> BoxReq]
  BY <1>1, BoxParts DEF Go, BoxInv
<1>3. /\ row' \in [Rows -> RowType \cup {NoRow}] /\ row'[x] = b /\ b # NoRow
      /\ \A y \in Rows \ {x} : row'[y] = row[y]
      /\ Stored' = Stored \cup {x} /\ x \notin Stored
  BY BoxParts, RowTypeAssumption DEF BoxInv, Stored
<1>4. UNCHANGED <<ran, slack, torn>> /\ now \in Nat /\ b.version \in Nat
  BY BoxParts DEF memory, BoxInv, RowType
<1>5. BoxTypeOK'
  <2>1. \A y \in Stored' : RowShape(row'[y])
    BY <1>3, BoxParts DEF BoxInv, RowShape, Stored
  <2> QED BY <1>2, <1>3, <1>4, <2>1, BoxParts DEF BoxInv, BoxTypeOK, RowShape, BoxReq
<1>6. Onward
  BY <1>3, <1>4 DEF Onward, Stored
<1>7. ReqStands(req[r])'
  BY <1>1, <1>2, <1>3, <1>4 DEF ReqStands
<1>8. \A v \in Requests : ReqStands(req[v])'
  BY <1>2, <1>5, <1>6, <1>7, ReqStays
<1>9. \A y \in Rows : RowStands(y)'
  BY <1>3, <1>4 DEF BoxInv, RowStands
<1>10. ElapsedUnlessTorn'
  <2>1. Exact(x)'
    <3>1. ran[x] = 0 /\ slack[x] = 0
      BY DEF BoxInv, RowStands
    <3> QED BY <1>3, <1>4, <3>1 DEF Exact, Elapsed
  <2>2. ASSUME NEW y \in Stored \ torn PROVE Exact(y)'
    <3>1. Exact(y) /\ row'[y] = row[y]
      BY <1>3 DEF BoxInv, ElapsedUnlessTorn, Stored
    <3> QED BY <1>4, <3>1 DEF Exact, Elapsed
  <2> QED BY <1>3, <1>4, <2>1, <2>2 DEF ElapsedUnlessTorn
<1> QED BY <1>1, <1>2, <1>5, <1>6, <1>8, <1>9, <1>10 DEF BoxInv

LEMMA CreateStep ==
  ASSUME BoxInv, NEW r \in Requests, Create(r)
  PROVE  /\ BoxInv' /\ Onward /\ req'[r].op = req[r].op
         /\ \A v \in Requests \ {r} : req'[v] = req[v]
<1> DEFINE x == CHOOSE y \in Rows : row[y] = NoRow
           b == Fresh(req[r].key)
<1>0. /\ UNCHANGED <<linked, now, controls, memory>>
      /\ linked' \in BOOLEAN /\ controls' \in 0..MaxControls
  BY BoxParts DEF Create, BoxInv
<1>1. x \in Rows /\ row[x] = NoRow
  <2>1. \E y \in Rows : row[y] = NoRow
    BY DEF Create, Stored
  <2> QED BY <2>1
<1>2. b \in RowType /\ b.status = "IDLE" /\ b.startedAt = 0 /\ b.banked = 0
  <2>1. req[r].key \in Keys
    BY BoxParts DEF BoxInv, BoxReq
  <2> QED BY <2>1, TimeboxAssumption DEF Fresh, RowType
<1>3. \/ Go(r, [req[r] EXCEPT !.at = "reread"]) /\ UNCHANGED row
      \/ row' = [row EXCEPT ![x] = b] /\ With(r, x, b)
  BY DEF Create
<1> HIDE DEF x, b
<1>4. CASE Go(r, [req[r] EXCEPT !.at = "reread"]) /\ UNCHANGED row
  <2> DEFINE q == [req[r] EXCEPT !.at = "reread"]
  <2>1. q \in BoxReq /\ q.at = "reread" /\ q.op = req[r].op
    BY BoxParts DEF BoxInv, BoxReq, Phases
  <2>2. Go(r, q)
    BY <1>4
  <2> HIDE DEF q
  <2> QED BY <1>0, <1>4, <2>1, <2>2, GoesOn
<1>5. CASE row' = [row EXCEPT ![x] = b] /\ With(r, x, b)
  BY <1>0, <1>1, <1>2, <1>5, Inserts
<1> QED BY <1>3, <1>4, <1>5

-----------------------------------------------------------------------------
\* What a request writes: off by the time since it read the clock, if it writes
\* over what it saw.
LEMMA WrittenTyped ==
  ASSUME NEW b \in RowType, NEW q \in BoxReq, q.seen \in RowType, q.seen.startedAt <= q.time
  PROVE  /\ Started(b, q) \in RowType /\ Banked(b, q) \in RowType /\ ResetTo(b) \in RowType
         /\ RowShape(Started(b, q)) /\ RowShape(Banked(b, q)) /\ RowShape(ResetTo(b))
         /\ Started(b, q).version = b.version + 1 /\ Banked(b, q).version = b.version + 1
         /\ ResetTo(b).version = b.version + 1
         /\ Started(b, q).startedAt = q.time /\ Banked(b, q).startedAt = 0
         /\ ResetTo(b).startedAt = 0
         /\ \A t : /\ Elapsed(Started(b, q), t) = b.banked + (t - q.time)
                   /\ Elapsed(Banked(b, q), t) = Elapsed(q.seen, q.time) + 0
                   /\ Elapsed(ResetTo(b), t) = 0
<1>1. /\ q.time \in 0..MaxTime /\ q.time \in Nat /\ 0 \in 0..MaxTime
  BY TimeboxAssumption DEF BoxReq
<1>2. /\ Elapsed(q.seen, q.time) \in Nat /\ b.version + 1 \in Nat
  BY <1>1, ElapsedNat DEF RowType
<1> DEFINE e == Elapsed(q.seen, q.time)
<1> HIDE DEF e
<1>3. /\ Started(b, q) = [b EXCEPT !.status = "RUNNING", !.startedAt = q.time, !.version = b.version + 1]
      /\ Banked(b, q) = [b EXCEPT !.status = "PAUSED", !.startedAt = 0, !.version = b.version + 1,
                                  !.banked = e]
      /\ ResetTo(b) = [b EXCEPT !.status = "IDLE", !.startedAt = 0, !.version = b.version + 1,
                                !.banked = 0]
  BY DEF Started, Banked, ResetTo, RowType, e
<1>4. e \in Nat
  BY <1>2 DEF e
<1>5. /\ Started(b, q) \in RowType /\ Banked(b, q) \in RowType /\ ResetTo(b) \in RowType
  <2>1. Started(b, q) \in RowType
    BY <1>1, <1>2, <1>3 DEF RowType
  <2>2. Banked(b, q) \in RowType
    BY <1>1, <1>2, <1>3, <1>4 DEF RowType
  <2>3. ResetTo(b) \in RowType
    <3>1. ResetTo(b) = [key |-> b.key, status |-> "IDLE", startedAt |-> 0, banked |-> 0,
                        version |-> b.version + 1]
      BY <1>3 DEF RowType
    <3>2. b.key \in Keys /\ 0 \in Nat
      BY DEF RowType
    <3> QED BY <1>1, <1>2, <3>1, <3>2 DEF RowType
  <2> QED BY <2>1, <2>2, <2>3
<1>6. /\ RowShape(Started(b, q)) /\ RowShape(Banked(b, q)) /\ RowShape(ResetTo(b))
      /\ Started(b, q).version = b.version + 1 /\ Banked(b, q).version = b.version + 1
      /\ ResetTo(b).version = b.version + 1
      /\ Started(b, q).startedAt = q.time /\ Banked(b, q).startedAt = 0
      /\ ResetTo(b).startedAt = 0
  BY <1>3 DEF RowType, RowShape
<1>7. ASSUME NEW t
      PROVE  /\ Elapsed(Started(b, q), t) = b.banked + (t - q.time)
             /\ Elapsed(Banked(b, q), t) = e + 0
             /\ Elapsed(ResetTo(b), t) = 0
  BY <1>3 DEF RowType, Elapsed
<1> QED BY <1>5, <1>6, <1>7 DEF e

LEMMA WriteStep ==
  ASSUME BoxInv, NEW r \in Requests, Write(r)
  PROVE  /\ BoxInv' /\ Onward /\ req[r].op # "get" /\ req'[r].op = req[r].op
         /\ \A v \in Requests \ {r} : req'[v] = req[v]
<1> DEFINE q == req[r]
           x == q.id
           b == row[x]
           w == CASE q.op = "start" -> Started(b, q)
                  [] q.op = "reset" -> ResetTo(b)
                  [] OTHER -> Banked(b, q)
           done == [AtRest EXCEPT !.at = "answer", !.op = q.op]
<1>1. /\ q.at = "write" /\ q \in BoxReq /\ ReqStands(q)
      /\ row' = [row EXCEPT ![x] = w] /\ Go(r, done) /\ Remember(q)
      /\ UNCHANGED <<linked, now, controls>>
  BY BoxParts DEF Write, BoxInv
<1>2. /\ x \in Stored /\ q.seen \in RowType /\ q.op # "get"
      /\ q.seen.startedAt <= q.time /\ q.time <= now
      /\ q.seen.version <= b.version
      /\ q.seen.version = b.version => q.seen = b
  BY <1>1 DEF ReqStands
<1>3. x \in Rows /\ b \in RowType /\ b.startedAt <= now /\ RowShape(b)
  BY <1>2, StoredTyped
<1>4. /\ now \in Nat /\ q.time \in Nat /\ now <= MaxTime /\ b.version \in Nat
      /\ b.banked \in Nat /\ b.startedAt \in Nat /\ ran[x] \in Nat /\ slack[x] \in Nat
  BY <1>1, <1>3, BoxParts DEF BoxInv, BoxReq, RowType
<1>5. done \in BoxReq /\ done.at = "answer" /\ done.op = q.op
  BY <1>1, RestTyped DEF BoxReq, Phases, AtRest
<1>6. /\ w \in RowType /\ RowShape(w) /\ w.version = b.version + 1
      /\ w.startedAt <= now
  <2>1. w \in {Started(b, q), Banked(b, q), ResetTo(b)}
    OBVIOUS
  <2>2. /\ Started(b, q) \in RowType /\ Banked(b, q) \in RowType /\ ResetTo(b) \in RowType
        /\ RowShape(Started(b, q)) /\ RowShape(Banked(b, q)) /\ RowShape(ResetTo(b))
        /\ Started(b, q).version = b.version + 1 /\ Banked(b, q).version = b.version + 1
        /\ ResetTo(b).version = b.version + 1
        /\ Started(b, q).startedAt = q.time /\ Banked(b, q).startedAt = 0
        /\ ResetTo(b).startedAt = 0
    BY <1>1, <1>2, <1>3, WrittenTyped
  <2> HIDE DEF w, b, q, x
  <2> QED BY <1>2, <1>4, <2>1, <2>2
<1>7. /\ q.op = "start" => Elapsed(w, now) = b.banked + (now - q.time)
      /\ q.op = "reset" => Elapsed(w, now) = 0
      /\ q.op \notin {"start", "reset"} => Elapsed(w, now) = Elapsed(q.seen, q.time) + 0
  BY <1>1, <1>2, <1>3, WrittenTyped
<1> HIDE DEF w, done
<1>8. /\ row' \in [Rows -> RowType \cup {NoRow}] /\ row'[x] = w /\ w # NoRow
      /\ \A y \in Rows \ {x} : row'[y] = row[y]
      /\ Stored' = Stored
  BY <1>1, <1>2, <1>3, <1>6, BoxParts, RowTypeAssumption DEF BoxInv, Stored
<1>9. /\ req'[r] = done /\ \A v \in Requests \ {r} : req'[v] = req[v]
      /\ req' \in [Requests -> BoxReq]
  BY <1>1, <1>5, BoxParts DEF Go, BoxInv
<1>10. /\ ran' \in [Rows -> 0..MaxTime] /\ slack' \in [Rows -> Nat] /\ torn' \subseteq Rows
       /\ \A y \in Rows \ {x} : ran'[y] = ran[y] /\ slack'[y] = slack[y]
       /\ torn \ {x} \subseteq torn'
  <2>1. now - q.time \in Nat /\ slack[x] + now - q.time \in Nat
    BY <1>2, <1>4
  <2>2. /\ ran \in [Rows -> 0..MaxTime] /\ slack \in [Rows -> Nat] /\ torn \subseteq Rows
        /\ 0 \in 0..MaxTime
    BY BoxParts, TimeboxAssumption DEF BoxInv
  <2> QED BY <1>1, <1>3, <2>1, <2>2 DEF Remember
<1>11. BoxTypeOK'
  <2>1. \A y \in Stored' : RowShape(row'[y])
    BY <1>6, <1>8, BoxParts DEF BoxInv, Stored
  <2> QED BY <1>1, <1>8, <1>9, <1>10, <2>1, BoxParts DEF BoxInv, BoxTypeOK, RowShape, BoxReq
<1>12. Onward
  BY <1>1, <1>4, <1>6, <1>8 DEF Onward, Stored
<1>13. \A v \in Requests : ReqStands(req[v])'
  <2>1. ReqStands(req[r])'
    BY <1>2, <1>5, <1>9 DEF ReqStands
  <2> QED BY <1>9, <1>11, <1>12, <2>1, ReqStays
<1>14. \A y \in Rows : RowStands(y)'
  <2>1. ran'[x] <= now
    BY <1>1, <1>3, <1>4, BoxParts DEF BoxInv, RowStands, Remember
  <2> QED BY <1>1, <1>6, <1>8, <1>10, <2>1 DEF BoxInv, RowStands
<1>17. \A y : Exact(y)' <=> /\ -slack'[y] <= Elapsed(row'[y], now') - ran'[y]
                            /\ Elapsed(row'[y], now') - ran'[y] <= slack'[y]
  BY DEF Exact, Elapsed
<1>15. ASSUME NEW y \in Rows, y = x, y \notin torn' PROVE Exact(y)'
  <2>1. ran' = [ran EXCEPT ![x] = ran'[x]] /\ slack' = [slack EXCEPT ![x] = slack'[x]]
    BY <1>1, <1>3, BoxParts DEF Remember, BoxInv
  <2>2. CASE q.op = "reset"
    <3>1. ran'[x] = 0 /\ slack'[x] = 0
      BY <1>1, <1>3, <2>2, BoxParts DEF Remember, BoxInv
    <3>2. Elapsed(row'[x], now') = 0
      BY <1>1, <1>7, <1>8, <2>2
    <3> QED BY <1>15, <1>17, <3>1, <3>2
  <2>3. CASE q.op # "reset"
    <3>1. /\ ran'[x] = ran[x] /\ slack'[x] = slack[x] + now - q.time
          /\ x \notin torn /\ ~Tears(q)
      BY <1>1, <1>3, <1>15, <2>3, BoxParts DEF Remember, BoxInv
    <3>2. /\ -slack[x] <= Elapsed(b, now) - ran[x]
          /\ Elapsed(b, now) - ran[x] <= slack[x]
      BY <1>2, <3>1 DEF BoxInv, ElapsedUnlessTorn, Exact
    <3> DEFINE off == Elapsed(w, now) - Elapsed(b, now)
    <3>3. off \in Int /\ 0 - (now - q.time) <= off /\ off <= now - q.time /\ Elapsed(b, now) \in Int
      <4>1. CASE q.op = "start"
        <5>1. Elapsed(b, now) = b.banked
          BY <3>1, <4>1, <1>4 DEF Tears, Elapsed
        <5> QED BY <1>2, <1>4, <1>7, <4>1, <5>1
      <4>2. CASE q.op # "start"
        <5>1. b.version = q.seen.version
          BY <3>1, <4>2 DEF Tears
        <5>2. Elapsed(w, now) = Elapsed(b, q.time) + 0
          BY <1>2, <1>7, <2>3, <4>2, <5>1
        <5>3. /\ Elapsed(b, now) = b.banked + IF b.status = "RUNNING" THEN now - b.startedAt ELSE 0
              /\ Elapsed(b, q.time) =
                    b.banked + IF b.status = "RUNNING" THEN q.time - b.startedAt ELSE 0
          BY DEF Elapsed
        <5>4. CASE b.status = "RUNNING"
          BY <1>2, <1>4, <5>2, <5>3, <5>4
        <5>5. CASE b.status # "RUNNING"
          BY <1>2, <1>4, <5>2, <5>3, <5>5
        <5> QED BY <5>4, <5>5
      <4> QED BY <4>1, <4>2
    <3>4. Elapsed(w, now) = Elapsed(b, now) + off /\ Elapsed(w, now) \in Int
      <4>1. Elapsed(w, now) \in Nat
        BY <1>4, <1>6, ElapsedNat
      <4> QED BY <3>3, <4>1
    <3> HIDE DEF off
    <3>5. /\ -slack'[x] <= Elapsed(w, now) - ran'[x]
          /\ Elapsed(w, now) - ran'[x] <= slack'[x]
      BY <1>2, <1>4, <3>1, <3>2, <3>3, <3>4
    <3> QED BY <1>1, <1>8, <1>15, <1>17, <3>5
  <2> QED BY <2>2, <2>3
<1>16. ElapsedUnlessTorn'
  <2>1. ASSUME NEW y \in Stored', y \notin torn', y # x PROVE Exact(y)'
    <3>1. y \in Stored \ torn /\ row'[y] = row[y] /\ ran'[y] = ran[y] /\ slack'[y] = slack[y]
      BY <1>8, <1>10, <2>1 DEF Stored
    <3>2. Exact(y)
      BY <3>1 DEF BoxInv, ElapsedUnlessTorn
    <3> QED BY <1>1, <1>17, <3>1, <3>2 DEF Exact
  <2>2. \A y \in Stored' : y \in Rows
    BY DEF Stored
  <2> QED BY <1>15, <2>1, <2>2 DEF ElapsedUnlessTorn
<1> QED BY <1>2, <1>5, <1>9, <1>11, <1>12, <1>13, <1>14, <1>16 DEF BoxInv

\* A tick runs the clocks that are running.
LEMMA TimeStep ==
  ASSUME BoxInv, TimePasses
  PROVE  BoxInv' /\ Onward /\ UNCHANGED req
<1>1. /\ now \in Nat /\ now' = now + 1 /\ now < MaxTime /\ MaxTime \in Nat
      /\ UNCHANGED <<linked, row, req, controls, slack, torn>>
      /\ Stored' = Stored
  BY BoxParts, TimeboxAssumption DEF BoxInv, TimePasses, Stored
<1>2. \A x \in Rows : /\ ran[x] \in 0..MaxTime /\ ran[x] <= now /\ slack[x] \in Nat
                      /\ ran'[x] = ran[x] + IF Runs(x) THEN 1 ELSE 0
  BY BoxParts DEF BoxInv, RowStands, TimePasses
<1>3. ran' \in [Rows -> 0..MaxTime]
  <2>1. \A x \in Rows : ran[x] + (IF Runs(x) THEN 1 ELSE 0) \in 0..MaxTime
    BY <1>1, <1>2
  <2> QED BY <2>1 DEF TimePasses
<1>4. BoxTypeOK'
  BY <1>1, <1>3, BoxParts DEF BoxInv, BoxTypeOK, BoxReq, RowShape
<1>5. Onward
  BY <1>1 DEF Onward
<1>6. \A v \in Requests : ReqStands(req[v])'
  BY <1>1, <1>4, <1>5, ReqStays
<1>7. ASSUME NEW x \in Rows PROVE RowStands(x)'
  <2>1. RowStands(x)
    BY DEF BoxInv
  <2>2. row[x] # NoRow => row[x].startedAt \in Nat
    BY BoxParts DEF BoxInv, RowType
  <2> QED BY <1>1, <1>2, <2>1, <2>2 DEF RowStands, Runs
<1>8. ASSUME NEW x \in Stored \ torn PROVE Exact(x)'
  <2>1. x \in Rows /\ row[x] \in RowType /\ Exact(x) /\ row[x] # NoRow
    BY StoredTyped DEF BoxInv, ElapsedUnlessTorn, Stored
  <2>2. row[x].banked \in Nat /\ row[x].startedAt \in Nat
    BY <2>1 DEF RowType
  <2>3. CASE row[x].status = "RUNNING"
    BY <1>1, <1>2, <2>1, <2>2, <2>3 DEF Exact, Elapsed, Runs
  <2>4. CASE row[x].status # "RUNNING"
    BY <1>1, <1>2, <2>1, <2>2, <2>4 DEF Exact, Elapsed, Runs
  <2> QED BY <2>3, <2>4
<1>9. ElapsedUnlessTorn'
  BY <1>1, <1>8 DEF ElapsedUnlessTorn
<1> QED BY <1>1, <1>4, <1>5, <1>6, <1>7, <1>9 DEF BoxInv

-----------------------------------------------------------------------------
\* A request arrives, answers, fails or begins again.
LEMMA ArriveStep ==
  ASSUME BoxInv, NEW r \in Requests, NEW op \in Ops, Arrive(r, op)
  PROVE  /\ BoxInv' /\ Onward /\ req'[r].op = op
         /\ \A v \in Requests \ {r} : req'[v] = req[v]
<1> DEFINE q == [AtRest EXCEPT !.at = "find", !.op = op, !.key = Key]
<1>1. q \in BoxReq /\ q.at = "find" /\ q.op = op
  BY RestTyped DEF BoxReq, Phases, Keys, Key, AtRest
<1>2. /\ Go(r, q) /\ UNCHANGED <<linked, now, row, memory>> /\ linked' \in BOOLEAN
  BY BoxParts DEF Arrive, BoxInv
<1>3. controls' \in 0..MaxControls
  BY BoxParts, TimeboxAssumption DEF Arrive, BoxInv
<1> HIDE DEF q
<1> QED BY <1>1, <1>2, <1>3, GoesOn

LEMMA LeaveStep ==
  ASSUME BoxInv, NEW r \in Requests, Answer(r) \/ Fail(r)
  PROVE  /\ BoxInv' /\ Onward /\ req'[r] = AtRest
         /\ \A v \in Requests \ {r} : req'[v] = req[v]
<1>1. /\ Go(r, AtRest) /\ UNCHANGED <<linked, now, row, controls, memory>>
      /\ linked' \in BOOLEAN /\ controls' \in 0..MaxControls
  BY BoxParts DEF Answer, Fail, BoxInv
<1>2. AtRest.at = "idle"
  BY DEF AtRest
<1> QED BY <1>1, <1>2, RestTyped, GoesOn

LEMMA AgainStep ==
  ASSUME BoxInv, NEW r \in Requests, Go(r, [AtRest EXCEPT !.at = "find", !.key = Key]),
         UNCHANGED <<linked, now, row, controls, memory>>
  PROVE  /\ BoxInv' /\ Onward /\ req'[r].op = "get"
         /\ \A v \in Requests \ {r} : req'[v] = req[v]
<1> DEFINE q == [AtRest EXCEPT !.at = "find", !.key = Key]
<1>1. q \in BoxReq /\ q.at = "find" /\ q.op = "get"
  BY RestTyped DEF BoxReq, Phases, Keys, Key, AtRest
<1>2. linked' \in BOOLEAN /\ controls' \in 0..MaxControls
  BY BoxParts DEF BoxInv
<1> HIDE DEF q
<1>3. Go(r, q)
  BY DEF q
<1> QED BY <1>1, <1>2, <1>3, GoesOn

LEMMA MaterialiseStep ==
  ASSUME BoxInv, Materialise
  PROVE  BoxInv' /\ Onward /\ UNCHANGED req
<1>1. UNCHANGED <<now, row, req, controls, ran, slack, torn>> /\ linked' \in BOOLEAN
      /\ Stored' = Stored
  BY DEF Materialise, memory, Stored
<1>2. BoxTypeOK'
  BY <1>1, BoxParts DEF BoxInv, BoxTypeOK, BoxReq, RowShape
<1>3. Onward
  BY <1>1, BoxParts DEF Onward, BoxInv
<1>4. \A v \in Requests : ReqStands(req[v])'
  BY <1>1, <1>2, <1>3, ReqStays
<1> QED BY <1>1, <1>2, <1>3, <1>4 DEF BoxInv, RowStands, ElapsedUnlessTorn, Exact, Elapsed

-----------------------------------------------------------------------------
(* The page.                                                                *)

PageTyped ==
    /\ mounted \in BOOLEAN /\ invalid \in BOOLEAN /\ jumped \in BOOLEAN
    /\ view \in Answers \cup {NoView} /\ wire \in Answers \cup {NoView}
    /\ anchor \in Anchors \cup {NoView} /\ lag \in 0..MaxTime /\ clock \in 0..MaxTime
    /\ (mounted /\ view # NoView) <=> anchor # NoView

\* An answer holds of its row while that has the answer's version.
Tells(a) ==
    a # NoView =>
        /\ a.id \in Stored /\ a.version <= row[a.id].version /\ a.at <= now
        /\ a.version = row[a.id].version =>
               a.status = row[a.id].status /\ a.elapsed = Elapsed(row[a.id], a.at)

\* The anchor is what the row of the data had elapsed when the data was sent, unless
\* the data jumped to another row.
AnchorStands ==
    anchor # NoView =>
        /\ lag <= anchor.at /\ anchor.at <= now
        /\ ~jumped => /\ anchor.version = view.version
                      /\ row[view.id].version = view.version =>
                             anchor.elapsed = Elapsed(row[view.id], anchor.at - lag)

PInv == /\ BoxInv /\ PageTyped /\ req[Load].op = "get"
        /\ Tells(view) /\ Tells(wire) /\ AnchorStands

LEMMA TellsOn ==
  ASSUME BoxInv, Onward, BoxInv', NEW a \in Answers, Tells(a)
  PROVE  /\ a.id \in Stored' /\ a.version <= row'[a.id].version /\ a.at <= now'
         /\ a.version = row'[a.id].version => row'[a.id] = row[a.id] /\ a.version = row[a.id].version
         /\ Tells(a)'
<1>0. a # NoView
  BY NoViewAssumption
<1>1. /\ a.id \in Stored /\ a.version <= row[a.id].version /\ a.at <= now
      /\ a.version = row[a.id].version =>
             a.status = row[a.id].status /\ a.elapsed = Elapsed(row[a.id], a.at)
  BY <1>0 DEF Tells
<1>2. a.id \in Stored' /\ (row'[a.id] = row[a.id] \/ row'[a.id].version > row[a.id].version)
  BY <1>1 DEF Onward
<1>3. /\ row[a.id].version \in Nat /\ row'[a.id].version \in Nat /\ a.version \in Nat
      /\ a.at \in Nat /\ now \in Nat /\ now' \in Nat /\ now <= now'
  <2>1. row[a.id] \in RowType /\ row'[a.id] \in RowType
    BY <1>1, <1>2 DEF BoxInv, BoxTypeOK, Stored
  <2>2. now \in Nat /\ now' \in Nat /\ now <= now'
    BY DEF BoxInv, BoxTypeOK, Onward
  <2> QED BY <2>1, <2>2 DEF RowType, Answers
<1>4. a.version <= row'[a.id].version /\ a.at <= now'
  BY <1>1, <1>2, <1>3
<1>5. a.version = row'[a.id].version => row'[a.id] = row[a.id] /\ a.version = row[a.id].version
  BY <1>1, <1>2, <1>3
<1>6. Tells(a)'
  BY <1>1, <1>2, <1>4, <1>5 DEF Tells, Elapsed
<1> QED BY <1>2, <1>4, <1>5, <1>6

\* What the page shows still holds when only the server went on.
LEMMA AnchorStays ==
  ASSUME PInv, Onward, BoxInv', UNCHANGED <<view, anchor, lag, jumped>>
  PROVE  AnchorStands'
<1> SUFFICES ASSUME anchor # NoView PROVE AnchorStands'
  BY DEF AnchorStands
<1>1. /\ view \in Answers /\ anchor \in Anchors /\ Tells(view) /\ AnchorStands
  BY DEF PInv, PageTyped
<1>2. /\ lag <= anchor.at /\ anchor.at <= now
      /\ ~jumped => /\ anchor.version = view.version
                    /\ row[view.id].version = view.version =>
                           anchor.elapsed = Elapsed(row[view.id], anchor.at - lag)
  BY <1>1 DEF AnchorStands
<1>3. view.version = row'[view.id].version =>
          row'[view.id] = row[view.id] /\ view.version = row[view.id].version
  BY <1>1, TellsOn DEF PInv
<1>4. anchor.at <= now'
  <2>1. now \in Nat /\ now' \in Nat /\ now <= now' /\ anchor.at \in Nat
    BY <1>1 DEF PInv, BoxInv, BoxTypeOK, Onward, Anchors
  <2> QED BY <1>2, <2>1
<1> QED BY <1>2, <1>3, <1>4 DEF AnchorStands, Elapsed

LEMMA ServerStep ==
  ASSUME PInv, Onward, BoxInv', req'[Load].op = "get", UNCHANGED page
  PROVE  PInv'
<1>1. UNCHANGED <<mounted, view, invalid, wire, anchor, clock, lag, jumped>>
  BY DEF page
<1>2. AnchorStands'
  BY <1>1, AnchorStays
<1>3. Tells(view)'
  <2>1. view \in Answers => Tells(view)'
    BY <1>1, TellsOn DEF PInv, Tells, Elapsed
  <2> QED BY <1>1, <2>1 DEF PInv, PageTyped, Tells
<1>4. Tells(wire)'
  <2>1. wire \in Answers => Tells(wire)'
    BY <1>1, TellsOn DEF PInv, Tells, Elapsed
  <2> QED BY <1>1, <2>1 DEF PInv, PageTyped, Tells
<1>5. PageTyped'
  BY <1>1 DEF PInv, PageTyped
<1> QED BY <1>2, <1>3, <1>4, <1>5 DEF PInv

\* An anchor set from an answer starts where the answer was.
LEMMA SetsAnchor ==
  ASSUME PInv, BoxInv', Onward, now' = now, NEW a \in Answers, Tells(a), SetAnchor(a), view' = a
  PROVE  /\ AnchorStands' /\ anchor' \in Anchors /\ anchor' # NoView /\ lag' \in 0..MaxTime
         /\ jumped' = FALSE
<1>1. /\ anchor' = [version |-> a.version, elapsed |-> a.elapsed, at |-> now]
      /\ lag' = now - a.at /\ jumped' = FALSE
  BY DEF SetAnchor
<1>2. /\ a.version = row[a.id].version => a.elapsed = Elapsed(row[a.id], a.at)
      /\ a.version = row'[a.id].version => row'[a.id] = row[a.id] /\ a.version = row[a.id].version
  BY TellsOn, NoViewAssumption DEF PInv, Tells
<1>3. /\ now \in 0..MaxTime /\ a.at \in 0..MaxTime /\ MaxTime \in Nat
      /\ a.version \in Nat /\ a.elapsed \in Int
  BY TimeboxAssumption DEF PInv, BoxInv, BoxTypeOK, Answers
<1>4. anchor' \in Anchors /\ anchor' # NoView
  BY <1>1, <1>3, NoViewAssumption DEF Anchors
<1>5. a.at <= now
  BY NoViewAssumption DEF Tells
<1>6. lag' \in 0..MaxTime /\ lag' <= now /\ now - lag' = a.at
  BY <1>1, <1>3, <1>5
<1>7. /\ anchor'.version = a.version /\ anchor'.elapsed = a.elapsed /\ anchor'.at = now
  BY <1>1
<1>8. row'[a.id].version = a.version => anchor'.elapsed = Elapsed(row'[a.id], anchor'.at - lag')
  <2>1. anchor'.at - lag' = a.at
    BY <1>6, <1>7
  <2> QED BY <1>2, <1>7, <2>1
<1>9. AnchorStands'
  BY <1>3, <1>6, <1>7, <1>8 DEF AnchorStands, Elapsed
<1> QED BY <1>1, <1>4, <1>6, <1>9

-----------------------------------------------------------------------------
LEMMA Rests ==
  ASSUME PInv, UNCHANGED boxVars
  PROVE  BoxInv' /\ Onward /\ req'[Load].op = "get" /\ now' = now
<1>1. UNCHANGED <<linked, now, row, req, controls, ran, slack, torn>>
  BY DEF boxVars, memory
<1>2. Stored' = Stored
  BY <1>1 DEF Stored
<1>3. BoxTypeOK'
  BY <1>1, <1>2, BoxParts DEF PInv, BoxInv, BoxTypeOK, BoxReq, RowShape
<1>4. Onward
  BY <1>1, <1>2, BoxParts DEF Onward, PInv, BoxInv
<1>5. \A v \in Requests : ReqStands(req[v])'
  BY <1>1, <1>3, <1>4, ReqStays DEF PInv
<1>6. BoxInv'
  BY <1>1, <1>2, <1>3, <1>5 DEF PInv, BoxInv, RowStands, ElapsedUnlessTorn, Exact, Elapsed
<1> QED BY <1>1, <1>4, <1>6 DEF PInv

LEMMA Fetches ==
  ASSUME PInv, Arrive(Load, "get")
  PROVE  BoxInv' /\ Onward /\ req'[Load].op = "get" /\ now' = now
BY ArriveStep, ViewAssumption DEF PInv, Ops, Arrive

LEMMA MountStep ==
  ASSUME PInv, Mount
  PROVE  PInv'
<1>1. BoxInv' /\ Onward /\ req'[Load].op = "get" /\ now' = now
  BY Rests, Fetches DEF Mount
<1>2. ~mounted /\ mounted' = TRUE /\ UNCHANGED <<view, invalid, wire>> /\ anchor = NoView
      /\ clock' \in 0..MaxTime
  BY DEF Mount, PInv, PageTyped, BoxInv, BoxTypeOK
<1>3. Tells(view)' /\ Tells(wire)'
  <2>1. \A a \in Answers : Tells(a) => Tells(a)'
    BY <1>1, TellsOn DEF PInv
  <2> QED BY <1>2, <2>1 DEF PInv, PageTyped, Tells, Elapsed
<1>4. CASE view = NoView
  <2>1. UNCHANGED <<anchor, lag, jumped>>
    BY <1>4 DEF Mount
  <2>2. PageTyped' /\ AnchorStands'
    BY <1>2, <1>4, <2>1 DEF PInv, PageTyped, AnchorStands
  <2> QED BY <1>1, <1>3, <2>2 DEF PInv
<1>5. CASE view # NoView
  <2>1. SetAnchor(view) /\ view \in Answers /\ view' = view
    BY <1>2, <1>5 DEF Mount, PInv, PageTyped
  <2>2. /\ AnchorStands' /\ anchor' \in Anchors /\ anchor' # NoView /\ lag' \in 0..MaxTime
        /\ jumped' = FALSE
    BY <1>1, <2>1, SetsAnchor DEF PInv
  <2>3. mounted' \in BOOLEAN /\ jumped' \in BOOLEAN
    BY <1>2, <2>2
  <2>4. mounted' /\ view' # NoView
    BY <1>2, <1>5, <2>1
  <2>5. view' \in Answers \cup {NoView} /\ wire' \in Answers \cup {NoView} /\ invalid' \in BOOLEAN
    BY <1>2, <2>1 DEF PInv, PageTyped
  <2>6. PageTyped'
    BY <1>2, <2>2, <2>3, <2>4, <2>5 DEF PageTyped
  <2> QED BY <1>1, <1>3, <2>2, <2>6 DEF PInv
<1> QED BY <1>4, <1>5

LEMMA UnmountStep ==
  ASSUME PInv, Unmount \/ Lose
  PROVE  PInv'
<1>1. BoxInv' /\ Onward /\ req'[Load].op = "get" /\ now' = now
  BY Rests DEF Unmount, Lose
<1>2. \A a \in Answers : Tells(a) => Tells(a)'
  BY <1>1, TellsOn DEF PInv
<1>3. CASE Unmount
  <2>1. /\ UNCHANGED <<view, invalid, wire>> /\ mounted' = FALSE /\ anchor' = NoView /\ lag' = 0
        /\ jumped' = FALSE /\ clock' = 0
    BY <1>3 DEF Unmount
  <2>2. Tells(view)' /\ Tells(wire)'
    BY <1>2, <2>1 DEF PInv, PageTyped, Tells, Elapsed
  <2>3. lag' \in 0..MaxTime /\ clock' \in 0..MaxTime
    BY <2>1, TimeboxAssumption
  <2>4. mounted' \in BOOLEAN /\ jumped' \in BOOLEAN /\ ~mounted'
    BY <2>1
  <2>5. PageTyped'
    BY <2>1, <2>3, <2>4 DEF PInv, PageTyped
  <2>6. AnchorStands'
    BY <2>1 DEF AnchorStands
  <2> QED BY <1>1, <2>2, <2>5, <2>6 DEF PInv
<1>4. CASE Lose
  <2>1. UNCHANGED <<mounted, view, invalid, anchor, clock, lag, jumped>> /\ wire' = NoView
    BY <1>4 DEF Lose
  <2>2. Tells(view)' /\ Tells(wire)'
    BY <1>2, <2>1 DEF PInv, PageTyped, Tells, Elapsed
  <2>3. AnchorStands'
    BY <1>1, <2>1, AnchorStays
  <2>4. PageTyped'
    BY <2>1 DEF PInv, PageTyped
  <2> QED BY <1>1, <2>2, <2>3, <2>4 DEF PInv
<1> QED BY <1>3, <1>4

\* Only the component's time moves.
LEMMA TickStep ==
  ASSUME PInv, TickOfPage
  PROVE  PInv'
<1>1. /\ BoxInv' /\ Onward /\ req'[Load].op = "get" /\ clock' = now
      /\ UNCHANGED <<mounted, view, invalid, wire, anchor, lag, jumped>>
  BY Rests DEF TickOfPage
<1>2. Tells(view)' /\ Tells(wire)'
  <2>1. \A a \in Answers : Tells(a) => Tells(a)'
    BY <1>1, TellsOn DEF PInv
  <2> QED BY <1>1, <2>1 DEF PInv, PageTyped, Tells, Elapsed
<1>3. AnchorStands'
  BY <1>1, AnchorStays
<1>4. PageTyped'
  BY <1>1 DEF PInv, PageTyped, BoxInv, BoxTypeOK
<1> QED BY <1>1, <1>2, <1>3, <1>4 DEF PInv

LEMMA SendStep ==
  ASSUME PInv, Send
  PROVE  PInv'
<1> DEFINE q == req[Load]
           b == q.seen
<1>1. q.at = "answer" /\ q.op = "get" /\ ReqStands(q) /\ q \in BoxReq
  BY ViewAssumption, BoxParts DEF Send, Answer, PInv, BoxInv
<1>2. /\ q.id \in Stored /\ b \in RowType
      /\ b.startedAt <= q.time /\ q.time <= now
      /\ b.version <= row[q.id].version
      /\ b.version = row[q.id].version => b = row[q.id]
  BY <1>1 DEF ReqStands
<1>3. /\ now \in 0..MaxTime /\ now \in Nat /\ b.startedAt \in Nat /\ q.time \in Nat
  BY <1>1, <1>2, TimeboxAssumption DEF PInv, BoxInv, BoxTypeOK, RowType, BoxReq
<1>4. Elapsed(b, now) \in Int
  <2>1. b.startedAt <= now
    BY <1>2, <1>3
  <2> QED BY <1>2, <1>3, <2>1, ElapsedNat
<1>5. /\ BoxInv' /\ Onward /\ req'[Load].op = "get" /\ UNCHANGED <<now, row>>
  <2>1. Answer(Load)
    BY DEF Send
  <2>2. BoxInv' /\ Onward /\ req'[Load] = AtRest
    BY <2>1, ViewAssumption, LeaveStep DEF PInv
  <2> QED BY <2>1, <2>2 DEF Answer, AtRest
<1> DEFINE e == Elapsed(b, now)
           a == [id |-> q.id, status |-> b.status, version |-> b.version, elapsed |-> e, at |-> now]
<1>6. UNCHANGED <<mounted, view, invalid, anchor, clock, lag, jumped>> /\ wire' = a
  BY DEF Send
<1>7. a \in Answers
  <2>1. q.id \in Rows /\ b.status \in {"IDLE", "RUNNING", "PAUSED"} /\ b.version \in Nat
    BY <1>2 DEF Stored, RowType
  <2>2. e \in Int
    BY <1>4
  <2> HIDE DEF e, b, q
  <2> QED BY <1>3, <2>1, <2>2 DEF Answers
<1>8. Tells(wire)'
  <2>1. wire'.id \in Stored' /\ wire'.version <= row'[wire'.id].version /\ wire'.at <= now'
    BY <1>2, <1>3, <1>5, <1>6 DEF Stored
  <2>2. wire'.version = row'[wire'.id].version =>
            wire'.status = row'[wire'.id].status /\ wire'.elapsed = Elapsed(row'[wire'.id], wire'.at)
    BY <1>2, <1>5, <1>6
  <2> QED BY <2>1, <2>2 DEF Tells, Elapsed
<1> HIDE DEF a
<1>9. Tells(view)'
  <2>1. \A c \in Answers : Tells(c) => Tells(c)'
    BY <1>5, TellsOn DEF PInv
  <2> QED BY <1>6, <2>1 DEF PInv, PageTyped, Tells, Elapsed
<1>10. AnchorStands'
  BY <1>5, <1>6, AnchorStays
<1>11. PageTyped'
  BY <1>6, <1>7 DEF PInv, PageTyped
<1> QED BY <1>5, <1>8, <1>9, <1>10, <1>11 DEF PInv

LEMMA ReceiveStep ==
  ASSUME PInv, Receive
  PROVE  PInv'
<1>1. BoxInv' /\ Onward /\ req'[Load].op = "get" /\ now' = now
  BY Rests DEF Receive
<1>2. /\ wire \in Answers /\ Tells(wire) /\ wire' = NoView /\ view' = wire /\ invalid' = FALSE
      /\ mounted' = mounted /\ clock' = clock
  BY DEF Receive, PInv, PageTyped
<1>3. Tells(view)' /\ Tells(wire)'
  <2>1. \A a \in Answers : Tells(a) => Tells(a)'
    BY <1>1, TellsOn DEF PInv
  <2> QED BY <1>2, <2>1 DEF Tells, Elapsed
<1>4. wire # NoView
  BY <1>2, NoViewAssumption
<1>5. CASE ~mounted
  <2>1. UNCHANGED <<anchor, lag, jumped>> /\ anchor = NoView
    BY <1>5 DEF Receive, PInv, PageTyped
  <2>2. PageTyped' /\ AnchorStands'
    BY <1>2, <1>5, <2>1 DEF PInv, PageTyped, AnchorStands
  <2> QED BY <1>1, <1>3, <2>2 DEF PInv
<1>6. CASE mounted /\ SameVersion(wire)
  <2>1. /\ UNCHANGED <<anchor, lag>> /\ jumped' = (jumped \/ wire.id # view.id)
        /\ anchor # NoView /\ anchor.version = wire.version /\ view # NoView
    BY <1>6 DEF Receive, SameVersion, PInv, PageTyped
  <2>2. PageTyped'
    <3>1. jumped' \in BOOLEAN
      BY <2>1
    <3> QED BY <1>2, <1>4, <1>6, <2>1, <3>1 DEF PInv, PageTyped
  <2>3. /\ lag <= anchor.at /\ anchor.at <= now
        /\ ~jumped => /\ anchor.version = view.version
                      /\ row[view.id].version = view.version =>
                             anchor.elapsed = Elapsed(row[view.id], anchor.at - lag)
    BY <2>1 DEF PInv, AnchorStands
  <2>4. wire.version = row'[wire.id].version =>
            row'[wire.id] = row[wire.id] /\ wire.version = row[wire.id].version
    BY <1>1, <1>2, TellsOn DEF PInv
  <2>5. AnchorStands'
    BY <1>1, <1>2, <2>1, <2>3, <2>4 DEF AnchorStands, Elapsed
  <2> QED BY <1>1, <1>3, <2>2, <2>5 DEF PInv
<1>7. CASE mounted /\ ~SameVersion(wire)
  <2>1. SetAnchor(wire)
    BY <1>7 DEF Receive
  <2>2. /\ AnchorStands' /\ anchor' \in Anchors /\ anchor' # NoView /\ lag' \in 0..MaxTime
        /\ jumped' = FALSE
    BY <1>1, <1>2, <2>1, SetsAnchor
  <2>3. PageTyped'
    BY <1>2, <1>4, <1>7, <2>2 DEF PInv, PageTyped
  <2> QED BY <1>1, <1>3, <2>2, <2>3 DEF PInv
<1> QED BY <1>5, <1>6, <1>7

\* A click that succeeded starts the query again.
LEMMA PressedStep ==
  ASSUME PInv, Pressed
  PROVE  PInv'
<1> DEFINE again == mounted /\ (view # NoView \/ ~Fetching)
           f == [AtRest EXCEPT !.at = "find", !.key = Key]
<1>1. f \in BoxReq /\ f.at = "find" /\ f.op = "get"
  BY RestTyped DEF BoxReq, Phases, Keys, Key, AtRest
<1>2. /\ UNCHANGED <<linked, now, row, controls, memory, mounted, view, anchor, clock, lag, jumped>>
      /\ invalid' = TRUE /\ wire' = IF again THEN NoView ELSE wire
      /\ req' = [req EXCEPT ![Click] = AtRest, ![Load] = IF again THEN f ELSE @]
  BY DEF Pressed
<1> HIDE DEF again, f
<1>3. /\ req' \in [Requests -> BoxReq] /\ req'[Click] = AtRest
      /\ req'[Load] = req[Load] \/ req'[Load] = f
      /\ \A v \in Requests \ {Click, Load} : req'[v] = req[v]
  BY <1>1, <1>2, RestTyped, ViewAssumption, BoxParts DEF PInv, BoxInv
<1>4. UNCHANGED <<ran, slack, torn>> /\ Stored' = Stored
  BY <1>2 DEF memory, Stored
<1>5. BoxTypeOK'
  BY <1>2, <1>3, <1>4, BoxParts DEF PInv, BoxInv, BoxTypeOK, BoxReq, RowShape
<1>6. Onward
  BY <1>2, <1>4, BoxParts DEF Onward, PInv, BoxInv
<1>7. ASSUME NEW v \in Requests PROVE ReqStands(req[v])'
  <2>1. CASE req'[v] = req[v]
    BY <1>5, <1>6, <2>1, ReqStays DEF PInv
  <2>2. CASE req'[v].at \in {"idle", "find"}
    BY <2>2 DEF ReqStands
  <2> QED BY <1>1, <1>3, <2>1, <2>2 DEF AtRest
<1>8. BoxInv'
  BY <1>2, <1>4, <1>5, <1>7 DEF PInv, BoxInv, RowStands, ElapsedUnlessTorn, Exact, Elapsed
<1>9. req'[Load].op = "get"
  BY <1>1, <1>3 DEF PInv
<1>10. Tells(view)' /\ Tells(wire)'
  <2>1. \A a \in Answers : Tells(a) => Tells(a)'
    BY <1>6, <1>8, TellsOn DEF PInv
  <2>2. wire' = NoView \/ wire' = wire
    BY <1>2
  <2> QED BY <1>2, <2>1, <2>2 DEF PInv, PageTyped, Tells, Elapsed
<1>11. AnchorStands'
  BY <1>2, <1>6, <1>8, AnchorStays
<1>12. PageTyped'
  BY <1>2 DEF PInv, PageTyped
<1> QED BY <1>8, <1>9, <1>10, <1>11, <1>12 DEF PInv

-----------------------------------------------------------------------------
LEMMA ViewStart == ViewInit => PInv
<1> SUFFICES ASSUME ViewInit PROVE PInv
  OBVIOUS
<1>1. /\ linked \in BOOLEAN /\ now = 0 /\ controls = 0 /\ row = [x \in Rows |-> NoRow]
      /\ req = [r \in Requests |-> AtRest]
      /\ ran = [x \in Rows |-> 0] /\ slack = [x \in Rows |-> 0] /\ torn = {}
      /\ Stored = {}
  BY DEF ViewInit, BoxInit, Stored
<1>2. BoxTypeOK
  BY <1>1, RestTyped, BoxParts, TimeboxAssumption
<1>3. BoxInv
  BY <1>1, <1>2, RestTyped DEF BoxInv, RowStands, ElapsedUnlessTorn
<1>4. req[Load].op = "get"
  BY <1>1, ViewAssumption DEF AtRest
<1>5. Tells(view) /\ Tells(wire) /\ AnchorStands
  BY DEF ViewInit, Tells, AnchorStands
<1>6. lag \in 0..MaxTime /\ clock \in 0..MaxTime
  BY TimeboxAssumption DEF ViewInit
<1>7. mounted \in BOOLEAN /\ invalid \in BOOLEAN /\ jumped \in BOOLEAN
  BY DEF ViewInit
<1>8. PageTyped
  BY <1>6, <1>7 DEF ViewInit, PageTyped
<1> QED BY <1>3, <1>4, <1>5, <1>8 DEF PInv

LEMMA ViewStep == PInv /\ [ViewNext]_viewVars => PInv'
<1> SUFFICES ASSUME PInv, [ViewNext]_viewVars PROVE PInv'
  OBVIOUS
<1>0. BoxInv /\ req[Load].op = "get" /\ Load \in Requests /\ Click \in Requests \ {Load}
  BY ViewAssumption DEF PInv
<1>1. CASE UNCHANGED viewVars
  BY <1>1, Rests, ServerStep DEF viewVars
<1>2. CASE Poll
  BY <1>2, Fetches, ServerStep DEF Poll
<1>3. CASE LoadFails
  <2>1. CASE Fail(Load) /\ UNCHANGED page
    BY <1>0, <2>1, LeaveStep, ServerStep DEF AtRest
  <2>2. CASE ~(Fail(Load) /\ UNCHANGED page)
    <3>1. /\ Go(Load, [AtRest EXCEPT !.at = "find", !.key = Key])
          /\ UNCHANGED <<linked, now, row, controls, memory>> /\ UNCHANGED page
      BY <1>3, <2>2 DEF LoadFails
    <3>2. BoxInv' /\ Onward /\ req'[Load].op = "get"
      BY <1>0, <3>1, AgainStep
    <3> QED BY <3>1, <3>2, ServerStep
  <2> QED BY <2>1, <2>2
<1>4. ASSUME NEW op \in Controls, Press(op) PROVE PInv'
  <2>1. op \in Ops /\ Arrive(Click, op) /\ UNCHANGED page
    BY <1>4 DEF Press, Controls
  <2> QED BY <1>0, <2>1, ArriveStep, ServerStep
<1>5. ASSUME UNCHANGED page, NEW r \in Requests, Handle(r) PROVE PInv'
  <2>1. /\ BoxInv' /\ Onward /\ req'[r].op = req[r].op
        /\ \A v \in Requests \ {r} : req'[v] = req[v]
    BY <1>0, <1>5, FindStep, CreateStep, ReReadStep, WriteStep DEF Handle
  <2>2. req'[Load].op = "get"
    BY <1>0, <2>1
  <2> QED BY <1>5, <2>1, <2>2, ServerStep
<1>6. ASSUME UNCHANGED page, NEW r \in Requests \ {Load}, Answer(r) \/ Fail(r) PROVE PInv'
  <2>1. BoxInv' /\ Onward /\ req'[Load] = req[Load]
    BY <1>0, <1>6, LeaveStep
  <2> QED BY <1>0, <1>6, <2>1, ServerStep
<1>7. ASSUME UNCHANGED page, NEW r \in Requests \ {Load}, NEW op \in Controls, Arrive(r, op)
      PROVE  PInv'
  <2>1. op \in Ops
    BY DEF Controls
  <2>2. BoxInv' /\ Onward /\ req'[Load] = req[Load]
    BY <1>0, <1>7, <2>1, ArriveStep
  <2> QED BY <1>0, <1>7, <2>2, ServerStep
<1>8. ASSUME UNCHANGED page, Materialise \/ TimePasses PROVE PInv'
  BY <1>0, <1>8, MaterialiseStep, TimeStep, ServerStep
<1>9. Others \subseteq Requests \ {Load}
  BY DEF Others
<1> QED BY <1>0, <1>1, <1>2, <1>3, <1>4, <1>5, <1>6, <1>7, <1>8, <1>9,
        MountStep, UnmountStep, TickStep, SendStep, ReceiveStep, PressedStep DEF ViewNext

\* What holds of the timebox and its page in every reachable state.
THEOREM ViewInductive == ViewSpec => []PInv
BY ViewStart, ViewStep, PTL DEF ViewSpec

\* Rows, requests, answers and anchors keep their types.
THEOREM ViewTyped == ViewSpec => []ViewTypeOK
<1>1. PInv => ViewTypeOK
  BY DEF PInv, BoxInv, PageTyped, ViewTypeOK
<1> QED BY <1>1, ViewInductive, PTL

\* A clock that no run was torn from shows the time it has run, but for the delays
\* of its requests, for any number of requests and rows and any moment.
THEOREM ClockExact == ViewSpec => []ElapsedUnlessTorn
<1>1. PInv => ElapsedUnlessTorn
  BY DEF PInv, BoxInv
<1> QED BY <1>1, ViewInductive, PTL

\* What a page shows of a running clock is late by the age of its data and of its
\* own time, and by nothing else, for any number of requests and rows.
THEOREM PageLate == ViewSpec => []ShownIsLate
<1>1. PInv => ShownIsLate
  <2> SUFFICES ASSUME PInv, mounted, Running, ~jumped, row[view.id].version = view.version
               PROVE  Shown + lag + (now - clock) = Elapsed(row[view.id], now)
    BY DEF ShownIsLate
  <2> DEFINE b == row[view.id]
  <2>1. view \in Answers /\ anchor \in Anchors /\ anchor # NoView /\ view.status = "RUNNING"
    BY DEF PInv, PageTyped, Running
  <2>2. b.status = "RUNNING" /\ view.id \in Stored
    BY <2>1 DEF PInv, Tells, Running
  <2>3. anchor.elapsed = Elapsed(b, anchor.at - lag)
    BY <2>1 DEF PInv, AnchorStands
  <2>4. /\ b.banked \in Int /\ b.startedAt \in Int /\ now \in Int /\ lag \in Int
        /\ anchor.at \in Int /\ clock \in Int
    BY <2>1, <2>2, StoredTyped, TimeboxAssumption
       DEF PInv, PageTyped, BoxInv, BoxTypeOK, RowType, Anchors
  <2>5. Elapsed(b, anchor.at - lag) = b.banked + (anchor.at - lag - b.startedAt)
    BY <2>2 DEF Elapsed
  <2>6. Elapsed(b, now) = b.banked + (now - b.startedAt)
    BY <2>2 DEF Elapsed
  <2>7. Shown = anchor.elapsed + (clock - anchor.at)
    BY DEF Shown
  <2> HIDE DEF b
  <2> QED BY <2>3, <2>4, <2>5, <2>6, <2>7 DEF b
<1> QED BY <1>1, ViewInductive, PTL
=============================================================================
