------------------------------- MODULE Timers --------------------------------
(***************************************************************************)
(* i186.cpp: the 80186 timers.  A timer on the CPU's clock is not counted: *)
(* an emu_timer is armed for the cycles left until its limit, and its      *)
(* count is worked out from that when somebody wants it.  One clocked by   *)
(* timer 2 is counted.                                                     *)
(*                                                                         *)
(* Time passes one cycle at a time; an emu_timer that is due is called     *)
(* back before any more passes, though an instruction that overruns it     *)
(* may still write a register first.                                       *)
(***************************************************************************)
EXTENDS TimerRegisters, FiniteSets

CONSTANT PerCount   \* cycles of the CPU per count: 4

ASSUME PerCountAssumption == PerCount \in Nat \ {0}

VARIABLES
  reg,          \* control, maxA and maxB
  count,        \* t->count
  rem,          \* what is left of int_timer, Never if it is not enabled
  status,       \* m_intr.status
  unspecified   \* history: a timer was left counting something it should not

timers == <<reg, count, rem, status, unspecified>>

Never == -1

TimersInit ==
  /\ reg = [t \in Clock |-> Cleared] /\ count = [t \in Clock |-> 0]
  /\ rem = [t \in Clock |-> Never]
  /\ status = {} /\ unspecified = FALSE

Armed(t) == rem[t] # Never

Advance ==
  /\ \E t \in Clock : Armed(t)
  /\ \A t \in Clock : rem[t] # 0
  /\ rem' = [t \in Clock |-> IF Armed(t) THEN rem[t] - 1 ELSE Never]
  /\ UNCHANGED <<reg, count, status, unspecified>>

-----------------------------------------------------------------------------
(* restart_timer                                                           *)
Full(limit) == PerCount * (IF limit = 0 THEN Wrap ELSE limit)

Restarted(t) ==
  LET r == Elapsed(reg[t])
  IN  IF ~r.en \/ (rem[t] = 0 /\ ~Runs(r)) THEN Never
      ELSE IF Runs(r) THEN Full(Limit(r)) ELSE rem[t]

(* timer_elapsed, with inc_timer of the timers that timer 2 clocks.        *)
Incremented(t) == (count[t] + 1) % Wrap

Fed(t) == IF t = 2 THEN {u \in Clock \ {2} : Prescaled(reg[u])} ELSE {}
Finished(t) == {t} \cup {u \in Fed(t) : Incremented(u) = Limit(reg[u])}

TimerElapsed(t) ==
  /\ rem[t] = 0
  /\ reg' = [u \in Clock |-> IF u \in Finished(t) THEN Elapsed(reg[u]) ELSE reg[u]]
  /\ count' = [u \in Clock |-> IF u \in Finished(t) THEN 0
                               ELSE IF u \in Fed(t) THEN Incremented(u) ELSE count[u]]
  /\ rem' = [u \in Clock |-> IF u \in Finished(t) THEN Restarted(u) ELSE rem[u]]
  /\ status' = status \cup {u \in Finished(t) : reg[u].int}
  /\ unspecified' = (unspecified \/ ~Runs(reg[t]))

-----------------------------------------------------------------------------
(* internal_timer_sync                                                     *)
Synced(t) ==
  IF Runs(reg[t]) /\ Armed(t) THEN (Limit(reg[t]) - rem[t] \div PerCount) % Wrap
  ELSE count[t]

RearmedAtOnce(r, n) ==
  LET diff == Limit(r) - n
  IN  IF r.en /\ r.src # "pin" THEN PerCount * (IF diff < 0 THEN diff + Wrap ELSE diff)
      ELSE Never

(* The end of internal_timer_update, with registers r and count n.         *)
Rearmed(r, n) ==
  LET diff == Limit(r) - n
  IN  IF r.en /\ r.src # "pin" THEN PerCount * (IF diff <= 0 THEN diff + Wrap ELSE diff)
      ELSE Never

Updates(t, r, n) ==
  /\ reg' = [reg EXCEPT ![t] = r]
  /\ count' = [count EXCEPT ![t] = n]
  /\ rem' = [rem EXCEPT ![t] = Rearmed(r, n)]
  /\ UNCHANGED status

(* In the last count before the limit a timer that is armed anew does not  *)
(* elapse: its count is rounded up to the limit, and goes round.           *)
LastCount(t) == Runs(reg[t]) /\ Armed(t) /\ rem[t] < PerCount

ReadCount(t) ==
  /\ count' = [count EXCEPT ![t] = Synced(t)]
  /\ UNCHANGED <<reg, rem, status, unspecified>>

WriteCount(t) ==
  \E n \in Value :
    IF reg[t].en
      THEN /\ Updates(t, reg[t], n)
           /\ unspecified' = (unspecified \/ (Runs(reg[t]) /\ rem[t] = 0))
      ELSE /\ count' = [count EXCEPT ![t] = n]
           /\ UNCHANGED <<reg, rem, status, unspecified>>

WriteMax(t, r) ==
  /\ r # reg[t]
  /\ IF reg[t].en
       THEN /\ Updates(t, r, Synced(t))
            /\ unspecified' = (unspecified \/ LastCount(t))
       ELSE reg' = [reg EXCEPT ![t] = r] /\ UNCHANGED <<count, rem, status, unspecified>>

WriteMaxA(t) == \E m \in Maxima : WriteMax(t, [reg[t] EXCEPT !.maxA = m])
WriteMaxB(t) == t # 2 /\ \E m \in Maxima : WriteMax(t, [reg[t] EXCEPT !.maxB = m])

(* Without being armed anew it keeps counting for a clock or a limit it no *)
(* longer has, or for one it did not have.                                 *)
Misarmed(t, r) ==
  Armed(t) /\ (Runs(reg[t]) # Runs(r) \/ (Runs(r) /\ Limit(r) # Limit(reg[t])))

(* The emu_timer is armed anew when EN changes, or INT does without it.    *)
WriteControl(t) ==
  \E c \in Controls[t] :
    LET r == Written(reg[t], c)
        off == reg[t].en /\ ~r.en
        on == ~reg[t].en /\ r.en /\ r.src = "clock"
        forced == reg[t].en = r.en /\ reg[t].int # r.int
    IN  IF off \/ on \/ forced
          THEN /\ Updates(t, r, IF on THEN count[t] ELSE Synced(t))
               /\ unspecified' = (unspecified \/ (~on /\ LastCount(t)))
          ELSE /\ reg' = [reg EXCEPT ![t] = r]
               /\ unspecified' = (unspecified \/ Misarmed(t, r))
               /\ UNCHANGED <<count, rem, status>>

(* The interrupt controller clears a bit of the status.                    *)
Acknowledged ==
  /\ \E t \in status : status' = status \ {t}
  /\ UNCHANGED <<reg, count, rem, unspecified>>

(* device_reset: what is armed stays so.                                   *)
ResetTimers ==
  /\ reg' = [t \in Clock |-> Cleared] /\ count' = [t \in Clock |-> 0]
  /\ status' = {}
  /\ UNCHANGED <<rem, unspecified>>

-----------------------------------------------------------------------------
TimersNext ==
  \/ Advance \/ Acknowledged \/ ResetTimers
  \/ \E t \in Clock :
       \/ TimerElapsed(t)
       \/ ReadCount(t) \/ WriteCount(t) \/ WriteMaxA(t) \/ WriteMaxB(t) \/ WriteControl(t)

TimersSpec == TimersInit /\ [][TimersNext]_timers

(* Worked out from the cycles left, the count is that of a counter: every  *)
(* timer elapses at the tick that takes it to its limit, requests its      *)
(* interrupt then, and goes on or stops as its control word says, whatever *)
(* is read and written meanwhile.  Not when a running timer was misarmed,  *)
(* or armed anew in its last count.                                        *)
Left(t) == (rem[t] + PerCount - 1) \div PerCount
TrueCount == [t \in Clock |-> IF Runs(reg[t]) /\ Armed(t)
                               THEN (Limit(reg[t]) - Left(t)) % Wrap ELSE count[t]]
Counters == INSTANCE HardwareTimer
              WITH count <- TrueCount, due <- {t \in Clock : Runs(reg[t]) /\ rem[t] = 0}

CountsAsHardware == Counters!HardwareSpec
=============================================================================
