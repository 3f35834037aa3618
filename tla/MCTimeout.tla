----------------------------- MODULE MCTimeout -----------------------------
(* The timer service on small instances.                                   *)
EXTENDS Timeout, TLC

\* The timers are interchangeable: no action or invariant tells them apart.
TimerSymmetry == Permutations(Timers)
=============================================================================
