---------------------------- MODULE MCScheduler ------------------------------
(* Two timers, short and long against the longest instruction.              *)
EXTENDS Scheduler

TwoTimers  == {1, 2}
OneOrThree == {1, 3}
ThreeCycles == {3}
=============================================================================
