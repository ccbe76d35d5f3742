------------------------------ MODULE Scheduler ------------------------------
(***************************************************************************)
(* shim/emu.cpp: running_machine, which alternates between the CPU and the *)
(* timers on one clock of CPU cycles.  run_cycles fires what is due, runs  *)
(* the CPU up to the next expiry, and repeats.  Within a slice the time is *)
(* derived from icount, what the CPU has left; a timer armed to expire     *)
(* inside the slice cuts it short (abort_timeslice).  An instruction ends  *)
(* only after it has started, so slices overshoot.                         *)
(*                                                                         *)
(* A timer belongs to a device whose callback restarts it with the full    *)
(* duration of its period or leaves it off (i186.cpp: timer_elapsed,       *)
(* restart_timer, without ALT); the first period may be shorter or longer. *)
(***************************************************************************)
EXTENDS Integers, FiniteSets

CONSTANTS Timer,      \* the timers, numbered in the order they were allocated
          Durations,  \* durations a timer is armed for
          Amounts,    \* arguments of run_cycles
          MaxCost,    \* cycles of the longest instruction
          MaxSlice,   \* MAX_SLICE
          Horizon     \* bound: run_cycles is not asked to go beyond this time

ASSUME SchedulerAssumption ==
  /\ Timer \subseteq Nat
  /\ Durations \subseteq Nat \ {0}
  /\ Amounts \subseteq Nat \ {0}
  /\ MaxCost \in Nat \ {0} /\ MaxSlice \in Nat \ {0}
  /\ Horizon \in Nat

VARIABLES
  at,         \* where run_cycles stands: out of it, firing timers, in the CPU's slice
  base,       \* m_base_cycles
  target,     \* where run_cycles is to stop
  slice_base, icount, slice_end,
  enabled,    \* the timers with m_enabled
  expire,     \* m_expire
  reload,     \* the duration the device restarts a timer with
  first,      \* history: when a timer armed by the CPU was to fire first, and
  ticks,      \*          how often it has fired since
  last        \* history: the time of the last callback

slice == <<slice_base, icount, slice_end>>
timers == <<enabled, expire, reload, first, ticks>>
scheduler == <<at, base, target, slice, timers, last>>

SchedulerTypeOK ==
  /\ at \in {"out", "fire", "cpu", "last"}
  /\ base \in Nat /\ target \in Nat
  /\ slice_base \in Nat /\ icount \in Int /\ slice_end \in Nat
  /\ enabled \subseteq Timer
  /\ expire \in [Timer -> Nat] /\ reload \in [Timer -> Nat]
  /\ first \in [Timer -> Nat] /\ ticks \in [Timer -> Nat]
  /\ last \in Nat

SchedulerInit ==
  /\ at = "out" /\ base = 0 /\ target = 0
  /\ slice_base = 0 /\ icount = 0 /\ slice_end = 0
  /\ enabled = {} /\ expire = [t \in Timer |-> 0] /\ reload = [t \in Timer |-> 0]
  /\ first = [t \in Timer |-> 0] /\ ticks = [t \in Timer |-> 0]
  /\ last = 0

(* now_cycles, outside of callbacks.                                       *)
Now == IF at = "cpu" THEN base + slice_base - icount ELSE base

-----------------------------------------------------------------------------
(* run_cycles                                                              *)
RunCycles(n) ==
  /\ at = "out" /\ base + n <= Horizon
  /\ target' = base + n /\ at' = "fire"
  /\ UNCHANGED <<base, slice, timers, last>>

Firing == at \in {"fire", "last"}

(* fire_due_timers: the earliest first, the one allocated first among      *)
(* equals.                                                                 *)
Due == {t \in enabled : expire[t] <= base}

AnyDue(t) == t \in Due

IsNext(t) ==
  /\ t \in Due
  /\ \A u \in Due : expire[t] < expire[u] \/ (expire[t] = expire[u] /\ t <= u)

(* The callback runs with time pinned to the expiry, so a restart counts   *)
(* from there.  It may stop timers chained to its own.                     *)
RestartLate(t) == base + reload[t]

RestartTime(t) == expire[t] + reload[t]

FireTimer ==
  /\ Firing
  /\ \E t \in enabled : \E stopped \in SUBSET (enabled \ {t}) :
       /\ IsNext(t)
       /\ last' = expire[t]
       /\ \/ /\ reload[t] > 0
             /\ enabled' = enabled \ stopped
             /\ expire' = [expire EXCEPT ![t] = RestartTime(t)]
             /\ ticks' = [ticks EXCEPT ![t] = @ + 1]
          \/ /\ enabled' = enabled \ (stopped \cup {t})
             /\ UNCHANGED <<expire, ticks>>
  /\ UNCHANGED <<at, base, target, slice, reload, first>>

Smaller(m, n) == IF m < n THEN m ELSE n
Larger(m, n) == IF m > n THEN m ELSE n

(* next_timer_expiry, or the target when that comes first.                 *)
IsNextStop(c) ==
  /\ c = target \/ \E t \in enabled : c = expire[t]
  /\ c <= target /\ \A t \in enabled : c <= expire[t]

StartSlice ==
  /\ at = "fire" /\ Due = {}
  /\ \E c \in {target} \cup {expire[t] : t \in enabled} :
       /\ IsNextStop(c)
       /\ slice_base' = Smaller(Larger(c - base, 1), MaxSlice)
  /\ icount' = slice_base' /\ slice_end' = base + slice_base'
  /\ at' = "cpu"
  /\ UNCHANGED <<base, target, timers, last>>

(* An instruction, cost.before cycles before its effect on a device and    *)
(* cost.after from there.                                                  *)
Costs == {c \in [before : 0..MaxCost, after : 0..MaxCost] : c.before + c.after \in 1..MaxCost}

Spend(cost) ==
  /\ at = "cpu" /\ icount > 0
  /\ icount' = icount - cost.before - cost.after
  /\ UNCHANGED <<at, base, target, slice_base, slice_end, timers, last>>

Compute == \E cost \in Costs : Spend(cost)

(* A halted CPU gives up what is left of its slice.                        *)
Halt ==
  /\ at = "cpu" /\ icount > 0
  /\ icount' = 0
  /\ UNCHANGED <<at, base, target, slice_base, slice_end, timers, last>>

(* adjust and timer_list_changed, on behalf of an instruction.             *)
CutsSliceNever(t, left) == FALSE

CutsSlice(t, left) == expire'[t] < slice_end /\ left > 0

Arm ==
  /\ at = "cpu" /\ icount > 0
  /\ \E cost \in Costs, t \in Timer, d, period \in Durations :
       LET left == icount - cost.before
           now == base + slice_base - left
       IN  /\ enabled' = enabled \cup {t}
           /\ expire' = [expire EXCEPT ![t] = now + d]
           /\ reload' = [reload EXCEPT ![t] = period]
           /\ first' = [first EXCEPT ![t] = now + d] /\ ticks' = [ticks EXCEPT ![t] = 0]
           /\ IF CutsSlice(t, left)
                THEN slice_base' = slice_base - left /\ icount' = 0 - cost.after
                ELSE icount' = left - cost.after /\ UNCHANGED slice_base
  /\ UNCHANGED <<at, base, target, slice_end, last>>

Disarm ==
  /\ at = "cpu" /\ icount > 0
  /\ \E cost \in Costs : icount' = icount - cost.before - cost.after
  /\ \E t \in enabled : enabled' = enabled \ {t}
  /\ UNCHANGED <<at, base, target, slice_base, slice_end, expire, reload, first, ticks, last>>

EndSlice ==
  /\ at = "cpu" /\ icount <= 0
  /\ base' = base + slice_base - icount
  /\ at' = IF base' < target THEN "fire" ELSE "last"
  /\ UNCHANGED <<target, slice, timers, last>>

ReturnWhenQuiet ==
  /\ at = "last" /\ enabled = {}
  /\ at' = "out"
  /\ UNCHANGED <<base, target, slice, timers, last>>

Return ==
  /\ at = "last" /\ Due = {}
  /\ at' = "out"
  /\ UNCHANGED <<base, target, slice, timers, last>>

-----------------------------------------------------------------------------
LoopStep == FireTimer \/ StartSlice \/ EndSlice \/ Return
CpuStep == Compute \/ Halt \/ Arm \/ Disarm

SchedulerNext == (\E n \in Amounts : RunCycles(n)) \/ LoopStep \/ CpuStep

SchedulerSpec == SchedulerInit /\ [][SchedulerNext]_scheduler

(* run_cycles runs on its caller's thread.                                 *)
FairSchedulerSpec == SchedulerSpec /\ WF_scheduler(LoopStep \/ CpuStep)

-----------------------------------------------------------------------------
(* emu.h:370-371: timers fire "at their exact expiry".  Their time is exact*)
(* by definition; what takes work is that the CPU is never further past it *)
(* than one instruction, and that nothing due is left when run_cycles      *)
(* returns.                                                                *)
TimersOnTime ==
  /\ \A t \in enabled : Now - expire[t] < MaxCost
  /\ at = "out" => \A t \in enabled : expire[t] > base

(* emu.cpp:149-171: callbacks run in the order of their times, also when   *)
(* one restarts a timer into what the CPU overshot.                        *)
CallbackOrder == \A t \in enabled : expire[t] >= last

(* i186.cpp:1402, emu.cpp:112: however late its callbacks run, a timer that*)
(* restarts itself does not drift: it expires at whole periods from its    *)
(* first expiry (the DAC is written from such a timer).                    *)
ExactPeriods == \A t \in enabled : expire[t] = first[t] + ticks[t] * reload[t]

(* emu.h:370-372: run_cycles advances by at least what was asked, and      *)
(* overshoots by less than an instruction.                                 *)
RunsAsAsked == at \in {"last", "out"} => base \in target..(target + MaxCost - 1)

(* emu.cpp:173-209: run_cycles returns, for a timer that restarts itself   *)
(* moves on, and an instruction takes time.                                *)
RunReturns == at # "out" ~> at = "out"
=============================================================================
