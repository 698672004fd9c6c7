----------------------------- MODULE IdleClock ------------------------------
(***************************************************************************)
(* What the session managers promise, without timers, events and storage:  *)
(* the manager of a tab counts the time since the last activity it knows   *)
(* of, and ends the session when, and only when, that has reached the idle *)
(* timeout.                                                                *)
(***************************************************************************)
EXTENDS Naturals

CONSTANTS Tabs,
          Idle       \* the idle timeout, in ticks of the clock

VARIABLES state,     \* of each tab: "off", "on", or "timedOut"
          since      \* ticks since the last activity, as far as Idle

Go(b, s) == state' = [state EXCEPT ![b] = s]

Enter(b) == Go(b, "on") /\ since' = [since EXCEPT ![b] = 0]

\* An activity, perhaps of another tab and heard of late.
Active(b) ==
    /\ state[b] = "on"
    /\ \E a \in 0..since[b] : since' = [since EXCEPT ![b] = a]
    /\ UNCHANGED state

Tick ==
    /\ since' = [b \in Tabs |-> IF since[b] < Idle THEN since[b] + 1 ELSE Idle]
    /\ UNCHANGED state

TimeOut(b) == state[b] = "on" /\ since[b] = Idle /\ Go(b, "timedOut") /\ UNCHANGED since

\* The user logs out, or the tab learns that the session is over.
Leave(b) == state[b] = "on" /\ Go(b, "off") /\ UNCHANGED since

Init == state = [b \in Tabs |-> "off"] /\ since = [b \in Tabs |-> 0]

Next == Tick \/ \E b \in Tabs : Enter(b) \/ Active(b) \/ TimeOut(b) \/ Leave(b)

Safety == Init /\ [][Next]_<<state, since>>

Spec ==
    /\ Safety
    /\ WF_<<state, since>>(Tick)
    /\ \A b \in Tabs : WF_<<state, since>>(TimeOut(b))
=============================================================================
