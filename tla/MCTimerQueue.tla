--------------------------- MODULE MCTimerQueue ---------------------------
(* Two addresses and three timers, so that an address is reused; two ticks *)
(* and intervals 0 and 1, so that a callback can outlast an interval.      *)
EXTENDS TimerQueue
=============================================================================
