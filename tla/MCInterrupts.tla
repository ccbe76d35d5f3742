---------------------------- MODULE MCInterrupts -----------------------------
(* Timer 0, and INT1, which the board drives, above it.                     *)
EXTENDS Cpu, TLC

TimerAndInt1 == {Tmr, 4}
Timer0 == {0}
Int1First == (Tmr :> {7}) @@ (4 :> {0})
EdgeOrNested == {{}, {"ltm", "sfnm"}}
NoneMasked == {{}}
=============================================================================
