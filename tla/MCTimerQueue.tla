---------------------------- MODULE MCTimerQueue ----------------------------
(* Three timers, a millisecond of two clock units. *)
EXTENDS TimerQueue

CONSTANTS t1, t2, t3

MCTimer == {t1, t2, t3}
MCDelays == {0, 1, 2}
=============================================================================
