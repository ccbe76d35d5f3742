--------------------------- MODULE TimerRegisters ----------------------------
(***************************************************************************)
(* i186.cpp, i186.h: the registers of the three 80186 timers, and what a   *)
(* timer that reaches its limit does to them.  The input pins are not      *)
(* driven on this board: a timer clocked by its pin stands still, and one  *)
(* that waits for a trigger (RTG) never starts and is left out.            *)
(***************************************************************************)
EXTENDS Integers

CONSTANTS Clock,     \* the timers: timer 2 feeds the others their prescaled clock
          Wrap,      \* how many values a count or a maximum has: 2^16
          Maxima,    \* values written to the maxima
          Controls   \* the control words written to each timer

Value == 0..(Wrap - 1)
Sources == {"clock", "prescale", "pin"}      \* of ticks: bits P and EXT
Control == [inh : BOOLEAN, en : BOOLEAN, int : BOOLEAN, mc : BOOLEAN,
            alt : BOOLEAN, cont : BOOLEAN, src : Sources]

ASSUME TimerAssumption ==
  /\ Clock \subseteq 0..2
  /\ Wrap \in Nat \ {0}
  /\ Maxima \subseteq Value
  /\ Controls \in [Clock -> SUBSET Control]
  /\ 2 \in Clock => \A c \in Controls[2] : ~c.alt /\ c.src = "clock"

Cleared == [en |-> FALSE, int |-> FALSE, mc |-> FALSE, alt |-> FALSE, cont |-> FALSE,
            src |-> "clock", riu |-> FALSE, maxA |-> 0, maxB |-> 0]

(* What the timer counts up to; 0 stands for a full turn of the count.     *)
Limit(r) == IF r.riu THEN r.maxB ELSE r.maxA

Runs(r) == r.en /\ r.src = "clock"
Prescaled(r) == r.en /\ r.src = "prescale"

(* timer_elapsed: a second half follows the first if ALT is set, and CONT  *)
(* starts over.                                                            *)
GoesOn(r) == r.cont \/ (r.alt /\ ~r.riu)
Elapsed(r) == [r EXCEPT !.mc = TRUE, !.en = GoesOn(r), !.riu = r.alt /\ ~r.riu]

(* A control word written: EN changes only with /INH, RIU needs ALT.       *)
Written(r, c) ==
  [r EXCEPT !.en = IF c.inh THEN c.en ELSE @, !.int = c.int, !.mc = c.mc, !.alt = c.alt,
            !.cont = c.cont, !.src = c.src, !.riu = @ /\ c.alt]
=============================================================================
