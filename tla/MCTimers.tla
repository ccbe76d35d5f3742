------------------------------ MODULE MCTimers -------------------------------
EXTENDS Timers, TLC

Timers02 == {0, 2}
Small == {0, 1}
Off == [inh |-> TRUE, en |-> FALSE, int |-> FALSE, mc |-> FALSE, alt |-> FALSE,
        cont |-> FALSE, src |-> "clock"]
On == [Off EXCEPT !.en = TRUE]
Programs ==
  (0 :> {Off, [On EXCEPT !.alt = TRUE, !.cont = TRUE],
         [On EXCEPT !.src = "prescale", !.cont = TRUE, !.int = TRUE],
         [On EXCEPT !.alt = TRUE, !.int = TRUE], [On EXCEPT !.inh = FALSE]})
  @@ (2 :> {Off, [On EXCEPT !.cont = TRUE], [On EXCEPT !.int = TRUE]})
=============================================================================
