---------------------------- MODULE MCTimeboxView ----------------------------
(* A small instance of TimeboxView for TLC: one other participant.         *)
EXTENDS TimeboxView
=============================================================================
