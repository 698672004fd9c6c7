-------------------------- MODULE MCSessionTimers --------------------------
(* Three tabs of one browser, an idle timeout of four ticks, the last two *)
(* of them under the warning.                                             *)
EXTENDS SessionTimers, TLC

CONSTANTS b1, b2, b3
MCTabs == {b1, b2, b3}
=============================================================================
