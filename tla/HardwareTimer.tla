---------------------------- MODULE HardwareTimer ----------------------------
(***************************************************************************)
(* What the timers promise the firmware: a counter that is incremented at  *)
(* every tick of its clock and compared with its limit then.  When they    *)
(* are equal the timer elapses: it requests its interrupt, starts from     *)
(* zero or stops, and timer 2 ticks the timers it clocks.                  *)
(*                                                                         *)
(* Time is the ticks: nothing is said of how long one takes.  A register   *)
(* written while the timer runs may take effect after the next tick.       *)
(***************************************************************************)
EXTENDS TimerRegisters

VARIABLES reg, count,
          due,          \* the timers that reached their limit and have not elapsed
          status,       \* the interrupts requested
          unspecified   \* the firmware did what this specification leaves open

hardware == <<reg, count, due, status, unspecified>>

HardwareInit ==
  /\ reg = [t \in Clock |-> Cleared] /\ count = [t \in Clock |-> 0]
  /\ due = {} /\ status = {} /\ unspecified = FALSE

Ticked(n) == (n + 1) % Wrap

Tick(S) ==
  /\ S \subseteq {t \in Clock \ due : Runs(reg[t])}
  /\ count' = [t \in Clock |-> IF t \in S THEN Ticked(count[t]) ELSE count[t]]
  /\ due' = due \cup {t \in S : count'[t] = Limit(reg[t])}
  /\ UNCHANGED <<reg, status>>

Elapse(t) ==
  LET fed  == IF t = 2 THEN {u \in Clock : Prescaled(reg[u])} ELSE {}
      done == {t} \cup {u \in fed : Ticked(count[u]) = Limit(reg[u])}
  IN  /\ t \in due
      /\ due' = due \ {t}
      /\ reg' = [u \in Clock |-> IF u \in done THEN Elapsed(reg[u]) ELSE reg[u]]
      /\ count' = [u \in Clock |-> IF u \in done THEN 0
                                   ELSE IF u \in fed THEN Ticked(count[u]) ELSE count[u]]
      /\ status' = status \cup {u \in done : reg[u].int}

(* The count a write finds: the next one, if it waits for the tick.        *)
Found(t) ==
  {count[t]} \cup (IF Runs(reg[t]) /\ Ticked(count[t]) # Limit(reg[t])
                     THEN {Ticked(count[t])} ELSE {})

Writes(t, r, n) ==
  /\ t \in due => n = count[t] /\ Runs(r) /\ Limit(r) = Limit(reg[t])
  /\ reg' = [reg EXCEPT ![t] = r] /\ count' = [count EXCEPT ![t] = n]
  /\ UNCHANGED <<due, status>>

Write(t) ==
  \/ \E n \in Value : Writes(t, reg[t], n)
  \/ \E m \in Maxima, n \in Found(t) : Writes(t, [reg[t] EXCEPT !.maxA = m], n)
  \/ \E m \in Maxima, n \in Found(t) : Writes(t, [reg[t] EXCEPT !.maxB = m], n)
  \/ \E c \in Controls[t], n \in Found(t) : Writes(t, Written(reg[t], c), n)

Acknowledge ==
  status' \in SUBSET status /\ UNCHANGED <<reg, count, due>>

Reset ==
  /\ reg' = [t \in Clock |-> Cleared] /\ count' = [t \in Clock |-> 0]
  /\ due' = {} /\ status' = {}

HardwareNext ==
  \/ \E S \in SUBSET Clock : Tick(S)
  \/ \E t \in Clock : Elapse(t) \/ Write(t)
  \/ Acknowledge
  \/ Reset

HardwareSpec ==
  HardwareInit /\ [][unspecified' \/ (HardwareNext /\ UNCHANGED unspecified)]_hardware
=============================================================================
