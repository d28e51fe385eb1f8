------------------------------ MODULE MCTimerQueue ------------------------------
(* TimerQueue for TLC: timers are interchangeable. *)
EXTENDS TimerQueue, TLC

Symmetry == Permutations(Timers)

================================================================================
