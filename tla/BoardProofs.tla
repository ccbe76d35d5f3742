----------------------------- MODULE BoardProofs -----------------------------
(***************************************************************************)
(* Theorems about Scheduler, for any timers, durations and costs: when     *)
(* timers fire, what run_cycles does and why it returns; and about Board,  *)
(* for any timers, any firmware that answers in time and any order of host *)
(* calls: it runs on the scheduler as specified, its mailbox loses no      *)
(* byte, and every sample is the DAC's level at its time.                  *)
(***************************************************************************)
EXTENDS Board, FiniteSetTheorems, SequenceTheorems, TLAPS

(* Within a slice no timer expires before the slice's end, which cutting   *)
(* the slice short moves forward, and the CPU passes neither that end nor  *)
(* the target by a whole instruction.                                      *)
SliceInv ==
  at = "cpu" =>
    /\ icount <= slice_base
    /\ base + slice_base <= slice_end /\ slice_end <= target
    /\ base + slice_base - icount < slice_end + MaxCost
    /\ \A t \in enabled : expire[t] >= base + slice_base

PlaceInv ==
  /\ at = "fire" => base < target
  /\ at \in {"last", "out"} => target <= base /\ base < target + MaxCost
  /\ last <= base

SInv ==
  /\ SchedulerTypeOK
  /\ SliceInv /\ PlaceInv
  /\ TimersOnTime /\ CallbackOrder /\ ExactPeriods

(* The invariant holds before the machine has run.                         *)
LEMMA SInit == SchedulerInit => SInv
BY SchedulerAssumption
   DEF SchedulerAssumption, SchedulerInit, SInv, SchedulerTypeOK, SliceInv, PlaceInv,
       TimersOnTime, CallbackOrder, ExactPeriods

(* An instruction that arms no timer: time passes, by at most MaxCost.     *)
LEMMA CpuTime ==
  ASSUME SInv, at = "cpu", icount > 0, at' = at,
         NEW spent \in 1..MaxCost, icount' = icount - spent,
         UNCHANGED <<base, target, slice_base, slice_end, expire, reload, first, ticks, last>>,
         enabled' \subseteq enabled
  PROVE  SInv'
<1> USE SchedulerAssumption DEF SchedulerAssumption, SInv, SchedulerTypeOK
<1>1. SchedulerTypeOK'
  OBVIOUS
<1>2. SliceInv'
  BY DEF SliceInv
<1>3. PlaceInv'
  BY DEF PlaceInv
<1>4. TimersOnTime'
  BY DEF SliceInv, TimersOnTime, Now
<1>5. CallbackOrder' /\ ExactPeriods'
  BY DEF CallbackOrder, ExactPeriods
<1>6. QED  BY <1>1, <1>2, <1>3, <1>4, <1>5

(* adjust: the new timer expires after the instruction's effect, and is    *)
(* either beyond the slice or made its end.                                *)
LEMMA ArmTime == ASSUME SInv, Arm PROVE SInv'
<1> USE SchedulerAssumption DEF SchedulerAssumption, SInv, SchedulerTypeOK
<1>1. PICK cost \in Costs, t \in Timer, d \in Durations, period \in Durations :
        LET left == icount - cost.before
            now == base + slice_base - left
        IN  /\ enabled' = enabled \cup {t}
            /\ expire' = [expire EXCEPT ![t] = now + d]
            /\ reload' = [reload EXCEPT ![t] = period]
            /\ first' = [first EXCEPT ![t] = now + d] /\ ticks' = [ticks EXCEPT ![t] = 0]
            /\ IF CutsSlice(t, left)
                 THEN slice_base' = slice_base - left /\ icount' = 0 - cost.after
                 ELSE icount' = left - cost.after /\ UNCHANGED slice_base
  BY DEF Arm
<1>2. /\ at = "cpu" /\ icount > 0
      /\ UNCHANGED <<at, base, target, slice_end, last>>
  BY DEF Arm
<1>3. PICK left \in Int, now \in Nat :
        /\ left = icount - cost.before /\ now = base + slice_base - left
        /\ left <= icount
  <2>1. cost.before \in 0..MaxCost
    BY DEF Costs
  <2>2. icount - cost.before <= slice_base
    BY <1>2, <2>1 DEF SliceInv
  <2>3. base + slice_base - (icount - cost.before) \in Nat
    BY <2>1, <2>2
  <2>4. QED  BY <2>1, <2>3
<1>4. /\ enabled' = enabled \cup {t}
      /\ expire' = [expire EXCEPT ![t] = now + d]
      /\ reload' = [reload EXCEPT ![t] = period]
      /\ first' = [first EXCEPT ![t] = now + d] /\ ticks' = [ticks EXCEPT ![t] = 0]
      /\ \/ /\ now + d < slice_end /\ left > 0
            /\ slice_base' = slice_base - left /\ icount' = 0 - cost.after
         \/ /\ now + d >= slice_end \/ left <= 0
            /\ icount' = left - cost.after /\ UNCHANGED slice_base
  BY <1>1, <1>3 DEF CutsSlice
<1>5. /\ cost.after \in 0..MaxCost /\ cost.before + cost.after <= MaxCost
      /\ cost.before \in 0..MaxCost
      /\ d \in Nat /\ d > 0 /\ period \in Nat /\ MaxCost \in Nat
  BY DEF Costs
<1>6. /\ base \in Nat /\ slice_base \in Nat /\ icount \in Int /\ slice_end \in Nat /\ target \in Nat
      /\ expire \in [Timer -> Nat] /\ enabled \subseteq Timer
  OBVIOUS
<1>7. /\ icount <= slice_base /\ base + slice_base <= slice_end /\ slice_end <= target
      /\ \A u \in enabled : expire[u] >= base + slice_base
  BY <1>2 DEF SliceInv
<1> HIDE DEF SInv, SchedulerTypeOK
<1>8. \A u \in enabled' : expire'[u] = IF u = t THEN now + d ELSE expire[u]
  BY <1>4, <1>6
<1>9. /\ slice_base' \in Nat /\ icount' \in Int /\ slice_base' <= slice_base
      /\ icount' <= slice_base'
      /\ base + slice_base' - icount' = now + cost.after
      /\ now + d >= base + slice_base'
      /\ now + cost.after < base + slice_base + MaxCost
      /\ base + slice_base' <= slice_end
      /\ base + slice_base' - icount' < slice_end + MaxCost
  BY <1>2, <1>3, <1>4, <1>5, <1>6, <1>7
<1>10. SchedulerTypeOK'
  BY <1>2, <1>4, <1>6, <1>9 DEF SInv, SchedulerTypeOK
<1>11. SliceInv'
  <2>1. ASSUME NEW u \in enabled' PROVE expire'[u] >= base + slice_base'
    <3>1. CASE u = t
      BY <1>8, <1>9, <3>1
    <3>2. CASE u # t
      <4>1. u \in enabled /\ expire'[u] = expire[u] /\ expire[u] \in Nat
        BY <1>4, <1>6, <1>8, <3>2
      <4>2. expire[u] >= base + slice_base
        BY <1>7, <4>1
      <4>3. QED  BY <1>6, <1>9, <4>1, <4>2
    <3>3. QED  BY <3>1, <3>2
  <2>2. base' = base /\ slice_end' = slice_end /\ target' = target
    BY <1>2
  <2>3. QED  BY <1>7, <1>9, <2>1, <2>2 DEF SliceInv
<1>12. PlaceInv'
  BY <1>2 DEF SInv, PlaceInv
<1>13. TimersOnTime'
  <2>1. PICK end \in Nat : end = now + cost.after
    BY <1>3, <1>5
  <2>2. base' + slice_base' - icount' = end
    BY <1>2, <1>9, <2>1
  <2>3. Now' = end
    BY <1>2, <2>2 DEF Now
  <2>4. ASSUME NEW u \in enabled' PROVE end - expire'[u] < MaxCost
    <3>1. CASE u = t
      BY <1>3, <1>5, <1>8, <2>1, <3>1
    <3>2. CASE u # t
      <4>1. u \in enabled /\ expire'[u] = expire[u] /\ expire[u] \in Nat
        BY <1>4, <1>6, <1>8, <3>2
      <4>2. expire[u] >= base + slice_base
        BY <1>7, <4>1
      <4>3. QED  BY <1>5, <1>6, <1>9, <2>1, <4>1, <4>2
    <3>3. QED  BY <3>1, <3>2
  <2>5. \A u \in enabled' : Now' - expire'[u] < MaxCost
    BY <2>3, <2>4
  <2>6. QED  BY <1>2, <2>5 DEF TimersOnTime
<1>14. CallbackOrder'
  <2>1. last <= base /\ last \in Nat /\ \A u \in enabled : expire[u] >= last
    BY DEF SInv, PlaceInv, CallbackOrder, SchedulerTypeOK
  <2>2. now + d >= last
    BY <1>3, <1>5, <1>6, <1>7, <2>1
  <2>3. QED  BY <1>2, <1>4, <1>8, <2>1, <2>2 DEF CallbackOrder
<1>15. ExactPeriods'
  BY <1>4, <1>5, <1>6 DEF SInv, SchedulerTypeOK, ExactPeriods
<1>16. QED  BY <1>10, <1>11, <1>12, <1>13, <1>14, <1>15 DEF SInv

(* One more period.                                                        *)
LEMMA NextPeriod ==
  ASSUME NEW a \in Nat, NEW n \in Nat, NEW r \in Nat
  PROVE  (a + n * r) + r = a + (n + 1) * r
OBVIOUS

(* A callback: the timers still due are not earlier than the one that ran. *)
LEMMA FireTime == ASSUME SInv, FireTimer PROVE SInv'
<1>0. PICK t \in enabled : \E stopped \in SUBSET (enabled \ {t}) :
        /\ IsNext(t)
        /\ last' = expire[t]
        /\ \/ /\ reload[t] > 0
              /\ enabled' = enabled \ stopped
              /\ expire' = [expire EXCEPT ![t] = RestartTime(t)]
              /\ ticks' = [ticks EXCEPT ![t] = @ + 1]
           \/ /\ enabled' = enabled \ (stopped \cup {t})
              /\ UNCHANGED <<expire, ticks>>
  BY DEF FireTimer
<1>1. PICK stopped \in SUBSET (enabled \ {t}) :
        /\ IsNext(t)
        /\ last' = expire[t]
        /\ \/ /\ reload[t] > 0
              /\ enabled' = enabled \ stopped
              /\ expire' = [expire EXCEPT ![t] = RestartTime(t)]
              /\ ticks' = [ticks EXCEPT ![t] = @ + 1]
           \/ /\ enabled' = enabled \ (stopped \cup {t})
              /\ UNCHANGED <<expire, ticks>>
  BY <1>0
<1>2. Firing /\ UNCHANGED <<at, base, target, slice, reload, first>>
  BY DEF FireTimer
<1>3. SchedulerTypeOK
  BY DEF SInv
<1>4. t \in Timer /\ expire[t] \in Nat /\ reload[t] \in Nat /\ ticks[t] \in Nat /\ first[t] \in Nat
  BY <1>3 DEF SchedulerTypeOK
<1>5. expire[t] <= base /\ \A u \in enabled : expire[u] >= expire[t]
  BY <1>1, <1>3, <1>4 DEF IsNext, Due, SchedulerTypeOK
<1>6. enabled' \subseteq enabled /\ \A u \in enabled' : expire'[u] >= expire[u]
  BY <1>1, <1>3, <1>4 DEF RestartTime, SchedulerTypeOK
<1>7. SchedulerTypeOK'
  BY <1>1, <1>2, <1>3, <1>4, <1>6 DEF SchedulerTypeOK, RestartTime, slice
<1>8. SliceInv' /\ PlaceInv'
  BY <1>1, <1>2, <1>5 DEF Firing, SInv, SliceInv, PlaceInv
<1>9. TimersOnTime'
  <2>1. Now' = Now /\ Now = base /\ at # "out" /\ at' = at
    BY <1>2 DEF Now, Firing
  <2>2. base \in Nat /\ MaxCost \in Nat /\ expire \in [Timer -> Nat] /\ expire' \in [Timer -> Nat]
        /\ enabled \subseteq Timer
    BY <1>3, <1>7, SchedulerAssumption DEF SchedulerTypeOK, SchedulerAssumption
  <2>3. \A u \in enabled : base - expire[u] < MaxCost
    BY <2>1 DEF SInv, TimersOnTime
  <2>4. \A u \in enabled' : base - expire'[u] < MaxCost
    BY <1>6, <2>2, <2>3
  <2>5. QED  BY <2>1, <2>4 DEF TimersOnTime
<1>10. CallbackOrder'
  BY <1>1, <1>3, <1>4, <1>5, <1>6, <1>7 DEF CallbackOrder, SchedulerTypeOK
<1>11. ExactPeriods'
  <2>1. expire[t] = first[t] + ticks[t] * reload[t]
    BY <1>1 DEF SInv, ExactPeriods
  <2>2. expire[t] + reload[t] = first[t] + (ticks[t] + 1) * reload[t]
    <3>1. (first[t] + ticks[t] * reload[t]) + reload[t]
            = first[t] + (ticks[t] + 1) * reload[t]
      BY <1>4, NextPeriod
    <3>2. QED  BY <2>1, <3>1
  <2>3. QED
    BY <1>1, <1>2, <1>3, <1>6, <2>2 DEF SInv, ExactPeriods, SchedulerTypeOK, RestartTime
<1>12. QED  BY <1>7, <1>8, <1>9, <1>10, <1>11 DEF SInv

(* The loop of run_cycles around the CPU.                                  *)
LEMMA LoopTime ==
  ASSUME SInv, (\E n \in Amounts : RunCycles(n)) \/ StartSlice \/ EndSlice \/ Return
  PROVE  SInv'
<1> USE SchedulerAssumption DEF SchedulerAssumption, SInv, SchedulerTypeOK
<1>1. CASE \E n \in Amounts : RunCycles(n)
  BY <1>1 DEF RunCycles, SliceInv, PlaceInv, TimersOnTime, CallbackOrder, ExactPeriods, Now,
              slice, timers
<1>2. CASE StartSlice
  <2>1. PICK c \in {target} \cup {expire[t] : t \in enabled} :
          IsNextStop(c) /\ slice_base' = Smaller(Larger(c - base, 1), MaxSlice)
    BY <1>2 DEF StartSlice
  <2>2. /\ at = "fire" /\ at' = "cpu" /\ Due = {}
        /\ icount' = slice_base' /\ slice_end' = base + slice_base'
        /\ UNCHANGED <<base, target, timers, last>>
    BY <1>2 DEF StartSlice
  <2>3. /\ base \in Nat /\ target \in Nat /\ enabled \subseteq Timer
        /\ expire \in [Timer -> Nat] /\ MaxSlice \in Nat \ {0} /\ MaxCost \in Nat \ {0}
    OBVIOUS
  <2> HIDE DEF SInv, SchedulerTypeOK
  <2>4. c \in Nat /\ c <= target /\ \A t \in enabled : c <= expire[t]
    BY <2>1, <2>3 DEF IsNextStop
  <2>5. base < target /\ \A t \in enabled : base < expire[t]
    BY <2>2, <2>3 DEF PlaceInv, Due, SInv
  <2>6. c > base
    BY <2>1, <2>3, <2>4, <2>5 DEF IsNextStop
  <2>7. PICK n \in Nat : n = slice_base' /\ n <= c - base
    BY <2>1, <2>3, <2>4, <2>6 DEF Smaller, Larger
  <2>8. /\ icount' = n /\ slice_base' = n /\ slice_end' = base + n /\ at' = "cpu"
        /\ base' = base /\ target' = target /\ enabled' = enabled /\ expire' = expire
    BY <2>2, <2>7 DEF timers
  <2>9. base + n \in Nat /\ n \in Int /\ base + n - n = base
    BY <2>3
  <2>10. base + n <= target
    <3>1. base \in Nat /\ target \in Nat /\ c \in Nat /\ c <= target
      BY <2>3, <2>4
    <3>2. n <= c - base
      BY <2>7
    <3>3. QED  BY <3>1, <3>2
  <2>11. SchedulerTypeOK'
    BY <2>2, <2>8, <2>9 DEF SInv, SchedulerTypeOK, timers
  <2>12. SliceInv'
    <3>1. ASSUME NEW t \in enabled PROVE expire[t] >= base + n
      <4>1. expire[t] \in Nat /\ c <= expire[t]
        BY <2>3, <2>4
      <4>2. QED  BY <2>3, <2>4, <2>7, <4>1
    <3>2. base < base + n + MaxCost /\ n <= n /\ base + n <= base + n
      BY <2>3
    <3>3. QED  BY <2>8, <2>9, <2>10, <3>1, <3>2 DEF SliceInv
  <2>13. PlaceInv'
    BY <2>2 DEF SInv, PlaceInv
  <2>14. TimersOnTime'
    <3>1. Now' = base
      BY <2>8, <2>9 DEF Now
    <3>2. \A t \in enabled : base - expire[t] < MaxCost
      BY <2>3, <2>5
    <3>3. QED  BY <2>8, <3>1, <3>2 DEF TimersOnTime
  <2>15. QED
    BY <2>2, <2>11, <2>12, <2>13, <2>14 DEF SInv, CallbackOrder, ExactPeriods, timers
<1>3. CASE EndSlice
  <2>1. /\ at = "cpu" /\ icount <= 0
        /\ base' = base + slice_base - icount
        /\ at' = IF base' < target THEN "fire" ELSE "last"
        /\ UNCHANGED <<target, slice, timers, last>>
    BY <1>3 DEF EndSlice
  <2>2. base' \in Nat /\ base' >= base /\ base' < target + MaxCost
    BY <2>1 DEF SliceInv
  <2>3. SchedulerTypeOK'
    BY <2>1, <2>2 DEF slice, timers
  <2>4. SliceInv' /\ PlaceInv'
    BY <2>1, <2>2 DEF SliceInv, PlaceInv
  <2>5. TimersOnTime'
    BY <2>1, <2>2 DEF TimersOnTime, Now, timers
  <2>6. QED  BY <2>1, <2>3, <2>4, <2>5 DEF CallbackOrder, ExactPeriods, timers
<1>4. CASE Return
  <2>1. at = "last" /\ at' = "out" /\ Due = {} /\ UNCHANGED <<base, target, slice, timers, last>>
    BY <1>4 DEF Return
  <2>2. \A t \in enabled : expire[t] > base
    BY <2>1 DEF Due
  <2>3. TimersOnTime'
    BY <2>1, <2>2 DEF TimersOnTime, Now, timers
  <2>4. QED
    BY <2>1, <2>3 DEF SliceInv, PlaceInv, CallbackOrder, ExactPeriods, slice, timers
<1>5. QED  BY <1>1, <1>2, <1>3, <1>4

(* Every step keeps the invariant.                                         *)
LEMMA SStep == SInv /\ [SchedulerNext]_scheduler => SInv'
<1> SUFFICES ASSUME SInv, [SchedulerNext]_scheduler PROVE SInv'
  OBVIOUS
<1>1. CASE (\E n \in Amounts : RunCycles(n)) \/ StartSlice \/ EndSlice \/ Return
  BY <1>1, LoopTime
<1>2. CASE FireTimer
  BY <1>2, FireTime
<1>3. CASE Compute
  <2>1. PICK cost \in Costs : Spend(cost)
    BY <1>3 DEF Compute
  <2>2. PICK spent \in 1..MaxCost : spent = cost.before + cost.after
    BY DEF Costs
  <2>3. icount' = icount - spent
    <3>1. icount' = icount - cost.before - cost.after
      BY <2>1 DEF Spend
    <3>2. icount \in Int /\ cost.before \in Int /\ cost.after \in Int
      BY SchedulerAssumption DEF SInv, SchedulerTypeOK, Costs, SchedulerAssumption
    <3>3. QED  BY <2>2, <3>1, <3>2
  <2>4. QED  BY <2>1, <2>3, CpuTime DEF Spend, timers
<1>4. CASE Halt
  <2>1. at = "cpu" /\ icount > 0 /\ icount' = 0
        /\ UNCHANGED <<at, base, target, slice_base, slice_end, timers, last>>
    BY <1>4 DEF Halt
  <2> USE SchedulerAssumption DEF SchedulerAssumption, SInv, SchedulerTypeOK
  <2>2. SchedulerTypeOK' /\ SliceInv' /\ PlaceInv'
    BY <2>1 DEF SliceInv, PlaceInv, timers
  <2>3. TimersOnTime'
    BY <2>1 DEF SliceInv, TimersOnTime, Now, timers
  <2>4. QED  BY <2>1, <2>2, <2>3 DEF CallbackOrder, ExactPeriods, timers
<1>5. CASE Arm
  BY <1>5, ArmTime
<1>6. CASE Disarm
  <2>1. PICK cost \in Costs : icount' = icount - cost.before - cost.after
    BY <1>6 DEF Disarm
  <2>2. PICK spent \in 1..MaxCost : spent = cost.before + cost.after
    BY DEF Costs
  <2>3. icount' = icount - spent
    <3>1. icount \in Int /\ cost.before \in Int /\ cost.after \in Int
      BY SchedulerAssumption DEF SInv, SchedulerTypeOK, Costs, SchedulerAssumption
    <3>2. QED  BY <2>1, <2>2, <3>1
  <2>4. enabled' \subseteq enabled
    BY <1>6 DEF Disarm
  <2>5. QED  BY <1>6, <2>3, <2>4, CpuTime DEF Disarm
<1>7. CASE UNCHANGED scheduler
  BY <1>7 DEF scheduler, slice, timers, SInv, SchedulerTypeOK, SliceInv, PlaceInv,
              TimersOnTime, CallbackOrder, ExactPeriods, Now
<1>8. QED
  BY <1>1, <1>2, <1>3, <1>4, <1>5, <1>6, <1>7 DEF SchedulerNext, LoopStep, CpuStep

LEMMA SInvHolds == SchedulerSpec => []SInv
BY SInit, SStep, PTL DEF SchedulerSpec

(* emu.h:370-371.  Whatever devices arm, stop or restart, no callback runs *)
(* a whole instruction late, and none that is due is left when run_cycles  *)
(* returns.                                                                *)
THEOREM OnTime == SchedulerSpec => []TimersOnTime
<1>1. SInv => TimersOnTime
  BY DEF SInv
<1>2. QED  BY <1>1, SInvHolds, PTL

(* emu.cpp:149-171.  Callbacks run in the order of their times.            *)
THEOREM InOrder == SchedulerSpec => []CallbackOrder
<1>1. SInv => CallbackOrder
  BY DEF SInv
<1>2. QED  BY <1>1, SInvHolds, PTL

(* emu.cpp:112, i186.cpp:1402.  A self-restarting timer never drifts.      *)
THEOREM NoDrift == SchedulerSpec => []ExactPeriods
<1>1. SInv => ExactPeriods
  BY DEF SInv
<1>2. QED  BY <1>1, SInvHolds, PTL

(* emu.h:370-372.  run_cycles does what was asked, and overshoots by less  *)
(* than an instruction.                                                    *)
THEOREM AsAsked == SchedulerSpec => []RunsAsAsked
<1>1. SInv => RunsAsAsked
  BY SchedulerAssumption DEF SchedulerAssumption, SInv, PlaceInv, RunsAsAsked, SchedulerTypeOK
<1>2. QED  BY <1>1, SInvHolds, PTL

-----------------------------------------------------------------------------
(* A callback is owed for each cycle since a timer's expiry.  An           *)
(* instruction that cuts its slice short, and so ends it, still took time. *)
Owed == {call \in enabled \X Nat : expire[call[1]] <= call[2] /\ call[2] <= base}
TakesTime == at = "cpu" /\ icount <= 0 => icount < slice_base
MovesOn ==
  /\ at = "cpu" => IF at' = "cpu" THEN icount' < icount ELSE base' > base
  /\ at # "cpu" /\ at' = "cpu" => base < target
  /\ Firing /\ at' = at => Owed' \subseteq Owed /\ Owed' # Owed

(* A slice has at least a cycle, and no instruction takes less.            *)
LEMMA TimeStep == SInv /\ TakesTime /\ [SchedulerNext]_scheduler => TakesTime'
<1> SUFFICES ASSUME SInv, TakesTime, [SchedulerNext]_scheduler, at' = "cpu", icount' <= 0
             PROVE  icount' < slice_base'
  BY DEF TakesTime
<1>0. /\ slice_base \in Nat /\ icount \in Int /\ MaxCost \in Nat
      /\ at = "cpu" => icount <= slice_base
  BY SchedulerAssumption DEF SchedulerAssumption, SInv, SchedulerTypeOK, SliceInv
<1>1. ASSUME NEW cost \in Costs
      PROVE  /\ cost.before \in Nat /\ cost.after \in Nat /\ cost.before + cost.after > 0
             /\ icount > 0 => icount - cost.before - cost.after < icount
  BY <1>0 DEF Costs
<1>2. CASE Compute \/ Disarm
  BY <1>0, <1>1, <1>2 DEF Compute, Spend, Disarm
<1>3. CASE Halt
  BY <1>0, <1>3 DEF Halt
<1>4. CASE Arm
  <2>1. PICK cost \in Costs :
          \/ /\ slice_base' = slice_base - (icount - cost.before)
             /\ icount' = 0 - cost.after
          \/ icount' = (icount - cost.before) - cost.after /\ slice_base' = slice_base
    BY <1>4 DEF Arm
  <2>2. at = "cpu"  BY <1>4 DEF Arm
  <2>3. CASE slice_base' = slice_base - (icount - cost.before) /\ icount' = 0 - cost.after
    <3>1. slice_base' = (slice_base - icount) + cost.before  BY <1>0, <1>1, <2>3
    <3> QED BY <1>0, <1>1, <2>2, <2>3, <3>1
  <2>4. CASE icount' = (icount - cost.before) - cost.after /\ slice_base' = slice_base
    BY <1>0, <1>1, <1>4, <2>2, <2>4 DEF Arm
  <2> QED BY <2>1, <2>3, <2>4
<1>5. CASE StartSlice
  <2>1. PICK c \in {target} \cup {expire[t] : t \in enabled} :
          slice_base' = Smaller(Larger(c - base, 1), MaxSlice)
    BY <1>5 DEF StartSlice
  <2>2. c \in Nat /\ base \in Nat /\ MaxSlice \in Nat /\ MaxSlice > 0
    BY SchedulerAssumption DEF SchedulerAssumption, SInv, SchedulerTypeOK
  <2>3. slice_base' \in Nat /\ slice_base' > 0
    BY <2>1, <2>2 DEF Smaller, Larger
  <2>4. icount' = slice_base'
    BY <1>5 DEF StartSlice
  <2> QED BY <2>3, <2>4
<1>6. CASE FireTimer \/ EndSlice \/ Return \/ \E n \in Amounts : RunCycles(n)
  BY <1>6 DEF FireTimer, Firing, EndSlice, Return, RunCycles
<1>7. CASE UNCHANGED scheduler
  BY <1>7 DEF scheduler, slice, TakesTime
<1> QED BY <1>2, <1>3, <1>4, <1>5, <1>6, <1>7 DEF SchedulerNext, LoopStep, CpuStep

(* emu.cpp:149-171, 173-209.  Whatever the firmware does and however its   *)
(* timers restart, every step of run_cycles moves it on: a callback leaves *)
(* fewer owed, an instruction uses up its slice, and each slice, which     *)
(* starts only before the target, takes the clock forward.                 *)
THEOREM Progress == SchedulerSpec => [][MovesOn]_scheduler
<1>1. SchedulerInit => TakesTime
  BY DEF SchedulerInit, TakesTime
<1>2. SInv /\ TakesTime /\ [SchedulerNext]_scheduler => [MovesOn]_scheduler
  <2> SUFFICES ASSUME SInv, TakesTime, SchedulerNext PROVE MovesOn
    BY Zenon
  <2>0. /\ slice_base \in Nat /\ icount \in Int /\ base \in Nat /\ MaxCost \in Nat
        /\ enabled \subseteq Timer /\ expire \in [Timer -> Nat] /\ reload \in [Timer -> Nat]
    BY SchedulerAssumption DEF SchedulerAssumption, SInv, SchedulerTypeOK
  <2>1. ASSUME NEW cost \in Costs
        PROVE  /\ cost.before \in Nat /\ cost.after \in Nat /\ cost.before + cost.after > 0
               /\ icount - cost.before - cost.after < icount
    BY <2>0 DEF Costs
  <2>2. CASE Compute \/ Disarm
    BY <2>1, <2>2 DEF Compute, Spend, Disarm, MovesOn, Firing
  <2>3. CASE Halt
    BY <2>0, <2>3 DEF Halt, MovesOn, Firing
  <2>4. CASE Arm
    <3>1. PICK cost \in Costs :
            icount' = 0 - cost.after \/ icount' = (icount - cost.before) - cost.after
      BY <2>4 DEF Arm
    <3>2. icount > 0 /\ at = "cpu" /\ at' = "cpu"  BY <2>4 DEF Arm
    <3>3. icount' < icount  BY <2>0, <2>1, <3>1, <3>2
    <3> QED BY <3>2, <3>3 DEF MovesOn, Firing
  <2>5. CASE EndSlice
    <3>1. at = "cpu" /\ at' # "cpu" /\ base' = base + slice_base - icount /\ icount <= 0
      BY <2>5 DEF EndSlice
    <3>2. base' > base  BY <2>0, <3>1 DEF TakesTime
    <3> QED BY <3>1, <3>2 DEF MovesOn, Firing
  <2>6. CASE StartSlice
    BY <2>6 DEF StartSlice, SInv, PlaceInv, MovesOn, Firing
  <2>7. CASE Return \/ \E n \in Amounts : RunCycles(n)
    BY <2>7 DEF Return, RunCycles, MovesOn, Firing
  <2>8. CASE FireTimer
    <3>1. PICK t \in enabled, stopped \in SUBSET enabled :
            /\ IsNext(t)
            /\ \/ /\ reload[t] > 0
                  /\ enabled' = enabled \ stopped
                  /\ expire' = [expire EXCEPT ![t] = RestartTime(t)]
               \/ enabled' = enabled \ (stopped \cup {t}) /\ expire' = expire
      BY <2>8 DEF FireTimer
    <3>2. at # "cpu" /\ at' = at /\ base' = base
      BY <2>8 DEF FireTimer, Firing
    <3>3. /\ enabled' \subseteq enabled
          /\ \A u \in enabled' : expire'[u] \in Nat /\ expire'[u] >= expire[u]
      BY <2>0, <3>1 DEF RestartTime
    <3>4. Owed' \subseteq Owed
      BY <2>0, <3>2, <3>3 DEF Owed
    <3>5. <<t, expire[t]>> \in Owed
      BY <2>0, <3>1 DEF Owed, IsNext, Due
    <3>6. <<t, expire[t]>> \notin Owed'
      <4>1. t \in enabled' => expire'[t] = expire[t] + reload[t] /\ reload[t] > 0
        BY <2>0, <3>1 DEF RestartTime
      <4>2. t \in enabled' => ~(expire'[t] <= expire[t])
        BY <2>0, <4>1
      <4> QED BY <4>2 DEF Owed
    <3> QED BY <3>2, <3>4, <3>5, <3>6 DEF MovesOn
  <2> QED BY <2>2, <2>3, <2>4, <2>5, <2>6, <2>7, <2>8 DEF SchedulerNext, LoopStep, CpuStep
<1> QED BY <1>1, <1>2, TimeStep, SInvHolds, PTL DEF SchedulerSpec

-----------------------------------------------------------------------------
(* Every step of the board is one of the scheduler's, or none of it.       *)
LEMMA BoardRuns == [Next]_vars => [SchedulerNext]_scheduler
<1> SUFFICES ASSUME [Next]_vars PROVE [SchedulerNext]_scheduler
  OBVIOUS
<1>1. CASE Feed \/ Stop \/ HostRuns
  <2>1. \E n \in Amounts : RunCycles(n)
    BY <1>1, BoardAssumption DEF BoardAssumption, Feed, Stop, HostRuns
  <2> QED BY <2>1 DEF SchedulerNext
<1>2. CASE Reset \/ Pull
  BY <1>2 DEF Reset, Pull
<1>3. CASE LoopStep /\ UNCHANGED board
  BY <1>3 DEF SchedulerNext
<1>4. CASE Firmware
  <2>1. Compute \/ Arm \/ Disarm \/ Halt
    BY <1>4 DEF Firmware, FirmwareComputes, FirmwareHalts, ReadMailbox, RaiseRdy, WriteDac,
                WriteIndex, Compute
  <2> QED BY <2>1 DEF SchedulerNext, CpuStep
<1>5. CASE UNCHANGED vars
  BY <1>5 DEF vars
<1> QED BY <1>1, <1>2, <1>3, <1>4, <1>5 DEF Next, Host, Machine

(* The board implements the scheduler: with whatever firmware and host it  *)
(* runs, emu.cpp's clock and timers behave as Scheduler says, so its       *)
(* theorems hold of the board too.                                         *)
THEOREM Implements == Spec => SchedulerSpec
<1>1. Init => SchedulerInit
  BY DEF Init
<1> QED BY <1>1, BoardRuns, PTL DEF Spec, SchedulerSpec

(* In particular the DAC is written at whole periods of its timer          *)
(* (doubletalk_board.cpp:139-140 stamps what the firmware's timer interrupt*)
(* writes).                                                                *)
THEOREM NoDriftOnBoard == Spec => []ExactPeriods
BY Implements, NoDrift, PTL

-----------------------------------------------------------------------------
(* While the bell rings the CPU is running, has not reached the time by    *)
(* which it answers, and will not stop before it.  So when the host looks  *)
(* at RDY again no byte is waiting.                                        *)
BellInv ==
  /\ bell \in Nat
  /\ int1 \in BOOLEAN /\ pending \in BOOLEAN
  /\ int1 <=> pending
  /\ pending => unread = {mailbox}
  /\ ~pending => unread = {}
  /\ ~repeated
  /\ int1 => /\ at # "out"
             /\ Now <= bell + Latency
             /\ bell + Latency < target

(* run_cycles around the CPU keeps the time.                               *)
LEMMA LoopKeepsNow ==
  ASSUME SInv, SInv', FireTimer \/ StartSlice \/ EndSlice
  PROVE  Now' = Now /\ target' = target /\ at' # "out"
<1>1. base \in Nat /\ slice_base \in Nat /\ icount \in Int
  BY DEF SInv, SchedulerTypeOK
<1>2. CASE FireTimer
  BY <1>2 DEF FireTimer, Firing, Now
<1>3. CASE StartSlice
  <2>1. PICK n \in Nat : slice_base' = n
    BY DEF SInv, SchedulerTypeOK
  <2>2. /\ at = "fire" /\ at' = "cpu" /\ icount' = n /\ base' = base /\ target' = target
    BY <1>3, <2>1 DEF StartSlice
  <2>3. base + n - n = base
    BY <1>1
  <2> QED BY <2>1, <2>2, <2>3 DEF Now
<1>4. CASE EndSlice
  BY <1>4 DEF EndSlice, Now
<1> QED BY <1>2, <1>3, <1>4

(* A run of the CPU, or of run_cycles, that leaves the mail alone.         *)
LEMMA BellWaits ==
  ASSUME BellInv, UNCHANGED <<mail, bell>>,
         int1 => at' # "out" /\ Now' <= bell + Latency /\ target' = target
  PROVE  BellInv'
BY DEF BellInv, mail

(* BellInv survives every step.                                            *)
LEMMA BellStep == SInv /\ SInv' /\ BellInv /\ [Next]_vars => BellInv'
<1> SUFFICES ASSUME SInv, SInv', BellInv, [Next]_vars PROVE BellInv'
  OBVIOUS
<1>0. base \in Nat /\ bell \in Nat /\ Latency \in Nat /\ Amounts \subseteq Nat
  BY BoardAssumption, SchedulerAssumption
     DEF BoardAssumption, SchedulerAssumption, SInv, SchedulerTypeOK, BellInv
<1>1. CASE Feed \/ Stop
  <2>1. PICK n \in Amounts : RunCycles(n)
    BY <1>1, BoardAssumption DEF BoardAssumption, Feed, Stop
  <2>2. Latency < n /\ n \in Nat
    BY <1>0, BoardAssumption DEF BoardAssumption
  <2>3. at = "out" /\ at' = "fire" /\ target' = base + n /\ base' = base
    BY <2>1 DEF RunCycles
  <2>4. ~int1 /\ unread = {}
    BY <2>3 DEF BellInv
  <2>5. /\ int1' = TRUE /\ pending' = TRUE /\ bell' = base
        /\ unread' = {mailbox'} /\ repeated' = repeated
    BY <1>1, <2>4 DEF Feed, Stop, HostWrite
  <2>6. Now' = base
    BY <2>3 DEF Now
  <2>7. base <= base + Latency /\ base + Latency < base + n
    BY <1>0, <2>2
  <2> QED BY <1>0, <2>3, <2>5, <2>6, <2>7 DEF BellInv
<1>2. CASE HostRuns
  <2>1. at = "out" /\ UNCHANGED board
    BY <1>2 DEF HostRuns, RunCycles
  <2> QED BY <2>1, BellWaits DEF BellInv, board, host
<1>3. CASE Reset
  BY <1>3 DEF Reset, BellInv
<1>4. CASE Pull
  <2>1. at = "out" /\ UNCHANGED <<mail, host>>
    BY <1>4 DEF Pull
  <2> QED BY <2>1, BellWaits DEF BellInv, host
<1>5. CASE LoopStep /\ UNCHANGED board
  <2>1. UNCHANGED <<mail, bell>>
    BY <1>5 DEF board, host
  <2>2. CASE FireTimer \/ StartSlice \/ EndSlice
    <3>1. Now' = Now /\ target' = target /\ at' # "out"
      BY <2>2, LoopKeepsNow
    <3> QED BY <2>1, <3>1, BellWaits DEF BellInv
  <2>3. CASE Return
    <3>1. at = "last" /\ target <= base /\ target \in Nat
      BY <2>3 DEF Return, SInv, PlaceInv, SchedulerTypeOK
    <3>2. Now = base
      BY <3>1 DEF Now
    <3>3. ~int1
      BY <1>0, <3>1, <3>2 DEF BellInv
    <3> QED BY <2>1, <3>3, BellWaits
  <2> QED BY <1>5, <2>2, <2>3 DEF LoopStep
<1>6. CASE FirmwareComputes \/ WriteDac \/ WriteIndex
  <2>1. UNCHANGED <<mail, bell>> /\ Answers
    BY <1>6 DEF FirmwareComputes, WriteDac, WriteIndex, board, host
  <2>2. at' = at /\ target' = target
    BY <1>6 DEF FirmwareComputes, WriteDac, WriteIndex, Compute, Spend, Arm, Disarm
  <2> QED BY <2>1, <2>2, BellWaits DEF Answers, BellInv
<1>7. CASE FirmwareHalts
  BY <1>7, BellWaits DEF FirmwareHalts, board, host
<1>8. CASE ReadMailbox
  <2>1. /\ int1 /\ pending' = FALSE /\ int1' = FALSE /\ bell' = bell
        /\ unread' = unread \ {mailbox} /\ repeated' = (repeated \/ mailbox \notin unread)
    BY <1>8 DEF ReadMailbox, host
  <2>2. unread = {mailbox}
    BY <2>1 DEF BellInv
  <2> QED BY <1>0, <2>1, <2>2 DEF BellInv
<1>9. CASE RaiseRdy
  BY <1>9 DEF RaiseRdy, host, BellInv
<1>10. CASE UNCHANGED vars
  <2>1. UNCHANGED <<mail, bell, scheduler>>
    BY <1>10 DEF vars, board, host
  <2>2. UNCHANGED <<at, target>> /\ Now' = Now
    BY <2>1 DEF scheduler, slice, Now
  <2> QED BY <2>1, <2>2, BellWaits DEF BellInv
<1> QED
  BY <1>1, <1>2, <1>3, <1>4, <1>5, <1>6, <1>7, <1>8, <1>9, <1>10 DEF Next, Host, Machine, Firmware

(* doubletalk_board.cpp:110-128, dtalk.cpp:530-541.  If the firmware's     *)
(* interrupt routine answers within fewer cycles than every caller of      *)
(* host_write then runs, each byte is read exactly once and none is        *)
(* overwritten, however timers fire and whatever the host does in between. *)
THEOREM MailboxReliable == Spec => []BytesOnce
<1>1. Init => SInv /\ BellInv
  <2>1. Init => SInv
    BY SInit DEF Init
  <2>2. Init => /\ bell \in Nat /\ int1 = FALSE /\ pending = FALSE
                /\ unread = {} /\ repeated = FALSE
    BY DEF Init
  <2>3. Init => BellInv
    BY <2>2 DEF BellInv
  <2> QED BY <2>1, <2>3
<1>2. SInv /\ [Next]_vars => SInv'
  BY SStep, BoardRuns
<1>3. SInv /\ BellInv /\ [Next]_vars => BellInv'
  BY <1>2, BellStep
<1>4. BellInv => BytesOnce
  BY DEF BellInv, BytesOnce
<1> QED BY <1>1, <1>2, <1>3, <1>4, PTL DEF Spec

-----------------------------------------------------------------------------
(* The grid of the samples: sample n is taken at SampleCycle(n), and       *)
(* FirstIndex(c) samples come before cycle c.                              *)
LEMMA Times ==
  \A a, b, k \in Nat : a <= b => k * a <= k * b /\ a * k <= b * k /\ k * a \in Nat
OBVIOUS

LEMMA Quotient ==
  ASSUME NEW x \in Nat, NEW d \in Nat \ {0}
  PROVE  /\ x \div d \in Nat
         /\ d * (x \div d) <= x /\ x < d * (x \div d) + d
OBVIOUS

LEMMA SampleCycles ==
  ASSUME NEW n \in Nat
  PROVE  /\ SampleCycle(n) \in Nat /\ n <= SampleCycle(n)
         /\ \A i \in 0..n : SampleCycle(i) <= SampleCycle(n)
         /\ \A c \in Nat : SampleCycle(n) < c <=> n * Cycles < c * Rate
<1> USE BoardAssumption
<1>1. ASSUME NEW m \in Nat
      PROVE  /\ m * Cycles \in Nat /\ SampleCycle(m) \in Nat
             /\ Rate * SampleCycle(m) <= m * Cycles
             /\ m * Cycles < Rate * SampleCycle(m) + Rate
  BY Quotient DEF SampleCycle
<1>2. ASSUME NEW m \in Nat, NEW c \in Nat
      PROVE  SampleCycle(m) < c <=> m * Cycles < c * Rate
  <2>1. PICK q \in Nat : q = SampleCycle(m)  BY <1>1
  <2>2. PICK x \in Nat : x = m * Cycles  BY <1>1
  <2>3. Rate * q <= x /\ x < Rate * q + Rate  BY <1>1, <2>1, <2>2
  <2>4. CASE q < c
    <3>1. (q + 1) * Rate <= c * Rate  BY <2>4, Times
    <3> QED  BY <2>1, <2>2, <2>3, <2>4, <3>1
  <2>5. CASE ~(q < c)
    <3>1. c * Rate <= q * Rate  BY <2>5, Times
    <3> QED  BY <2>1, <2>2, <2>3, <2>5, <3>1
  <2> QED  BY <2>4, <2>5
<1>3. n <= SampleCycle(n)
  <2>1. n * Rate <= n * Cycles  BY Times
  <2> QED  BY <1>1, <1>2, <2>1
<1>4. ASSUME NEW i \in 0..n PROVE SampleCycle(i) <= SampleCycle(n)
  <2>1. i * Cycles <= n * Cycles  BY Times
  <2>2. n * Cycles < (SampleCycle(n) + 1) * Rate  BY <1>1, <1>2
  <2>3. (SampleCycle(n) + 1) * Rate \in Nat /\ i * Cycles \in Nat /\ n * Cycles \in Nat
    BY <1>1, Times
  <2>4. i * Cycles < (SampleCycle(n) + 1) * Rate  BY <2>1, <2>2, <2>3
  <2>5. SampleCycle(i) < SampleCycle(n) + 1  BY <1>1, <1>2, <2>4
  <2> QED  BY <1>1, <2>5
<1> QED  BY <1>1, <1>2, <1>3, <1>4

LEMMA GridBefore ==
  ASSUME NEW c \in Nat
  PROVE  /\ FirstIndex(c) \in Nat /\ FirstIndex(c) <= c
         /\ \A n \in Nat : SampleCycle(n) < c <=> n < FirstIndex(c)
<1> USE BoardAssumption
<1> DEFINE y == c * Rate
           f == FirstIndex(c)
<1>1. y \in Nat  BY Times
<1>2. f \in Nat /\ Cycles * f < y + Cycles /\ y <= Cycles * f
  <2>1. f = (y + Cycles - 1) \div Cycles  BY DEF FirstIndex
  <2> HIDE DEF y, f
  <2>2. y + Cycles - 1 \in Nat  BY <1>1
  <2> QED  BY <1>1, <2>1, <2>2, Quotient
<1>3. ASSUME NEW n \in Nat PROVE SampleCycle(n) < c <=> n < f
  <2>1. SampleCycle(n) < c <=> n * Cycles < y  BY SampleCycles
  <2> HIDE DEF y, f
  <2>2. PICK x \in Nat : x = n * Cycles  BY Times
  <2>3. PICK z \in Nat : z = f * Cycles  BY <1>2, Times
  <2>4. z < y + Cycles /\ y <= z  BY <1>2, <2>3
  <2>5. CASE n < f
    <3>1. (n + 1) * Cycles <= z  BY <1>2, <2>3, <2>5, Times
    <3> QED  BY <1>1, <2>1, <2>2, <2>4, <2>5, <3>1
  <2>6. CASE ~(n < f)
    <3>1. z <= x  BY <1>2, <2>2, <2>3, <2>6, Times
    <3> QED  BY <1>1, <2>1, <2>2, <2>4, <2>6, <3>1
  <2> QED  BY <2>5, <2>6
<1>4. f <= c
  <2>1. ~(SampleCycle(c) < c)  BY SampleCycles
  <2> QED  BY <1>2, <1>3, <2>1
<1> QED  BY <1>2, <1>3, <1>4

(* dtalk.cpp:568-600.  A mark's position on the grid, rounded down, is its *)
(* first sample or the one before; positions are in the order of time.  It *)
(* is what Dtalk takes of them (Floored).                                  *)
THEOREM MarkPlaces ==
  ASSUME NEW c \in Nat
  PROVE  /\ FirstIndexFloor(c) \in {FirstIndex(c) - 1, FirstIndex(c)} /\ FirstIndexFloor(c) \in Nat
         /\ \A b \in 0..c : FirstIndex(b) <= FirstIndex(c)
<1> USE BoardAssumption
<1> DEFINE y == c * Rate
           f == FirstIndex(c)
           p == FirstIndexFloor(c)
<1>1. y \in Nat  BY Times
<1>2. p \in Nat /\ Cycles * p <= y /\ y < Cycles * p + Cycles
  BY <1>1, Quotient DEF FirstIndexFloor
<1>3. f \in Nat /\ Cycles * f < y + Cycles /\ y <= Cycles * f
  <2>1. f = (y + Cycles - 1) \div Cycles  BY DEF FirstIndex
  <2> HIDE DEF y, f
  <2>2. y + Cycles - 1 \in Nat  BY <1>1
  <2> QED  BY <1>1, <2>1, <2>2, Quotient
<1> HIDE DEF y, f, p
<1>4. p < f + 1
  <2>1. PICK u \in Nat : u = Cycles * f  BY <1>3, Times
  <2>2. PICK v \in Nat : v = Cycles * p  BY <1>2, Times
  <2>3. v < u + Cycles  BY <1>1, <1>2, <1>3, <2>1, <2>2
  <2>4. p >= f + 1 => u + Cycles <= v
    <3>1. p >= f + 1 => Cycles * (f + 1) <= v  BY <1>2, <1>3, <2>2, Times
    <3>2. Cycles * (f + 1) = u + Cycles  BY <1>3, <2>1
    <3> QED BY <3>1, <3>2
  <2> QED BY <1>2, <1>3, <2>1, <2>2, <2>3, <2>4
<1>5. f < p + 2
  <2>1. PICK u \in Nat : u = Cycles * f  BY <1>3, Times
  <2>2. PICK v \in Nat : v = Cycles * p  BY <1>2, Times
  <2>3. u < v + 2 * Cycles  BY <1>1, <1>2, <1>3, <2>1, <2>2
  <2>4. f >= p + 2 => v + 2 * Cycles <= u
    <3>1. f >= p + 2 => Cycles * (p + 2) <= u  BY <1>2, <1>3, <2>1, Times
    <3>2. Cycles * (p + 2) = v + 2 * Cycles  BY <1>2, <2>2
    <3> QED BY <3>1, <3>2
  <2> QED BY <1>2, <1>3, <2>1, <2>2, <2>3, <2>4
<1>6. ASSUME NEW b \in 0..c PROVE FirstIndex(b) <= f
  <2>1. FirstIndex(b) \in Nat /\ \A n \in Nat : n < FirstIndex(b) => SampleCycle(n) < b
    BY GridBefore
  <2>2. SampleCycle(f) \in Nat /\ ~(SampleCycle(f) < c)
    BY <1>3, GridBefore, SampleCycles DEF f
  <2> QED BY <1>3, <2>1, <2>2
<1> QED BY <1>2, <1>3, <1>4, <1>5, <1>6 DEF p, f

-----------------------------------------------------------------------------
(* The log is in the order of time, and what is still to be taken of it is *)
(* its end, after every sample pulled.                                     *)
Level == Levels \cup {Rest}
Event == [time : Nat, level : Level]
Done == Len(log) - Len(dac_events)
InOrderOfTime(s) == \A i, j \in 1..Len(s) : i <= j => s[i].time <= s[j].time

HoldTypeOK ==
  /\ log \in Seq(Event) /\ dac_events \in Seq(Event) /\ tape \in Seq(Level)
  /\ emitted \in Nat

HoldInv ==
  /\ HoldTypeOK
  /\ emitted <= base
  /\ InOrderOfTime(log)
  /\ \A k \in 1..Len(log) : log[k].time <= Now
  /\ Done >= 0
  /\ \A k \in 1..Len(dac_events) : dac_events[k] = log[Done + k]
  /\ dac_level = IF Done = 0 THEN Rest ELSE log[Done].level
  /\ \A k \in 1..Done : log[k].time <= emitted
  /\ \A k \in 1..Len(dac_events), i \in 0..(Len(tape) - 1) : SampleCycle(i) < dac_events[k].time
  /\ Len(tape) = FirstIndex(emitted)
  /\ \A n \in 1..Len(tape) : tape[n] = LevelAt(SampleCycle(n - 1))

(* The level at a cycle is that of the last write up to it.                *)
LEMMA LevelIs ==
  ASSUME log \in Seq(Event), NEW c \in Nat, NEW j \in 0..Len(log),
         \A k \in 1..Len(log) : log[k].time <= c <=> k <= j
  PROVE  LevelAt(c) = IF j = 0 THEN Rest ELSE log[j].level
<1> DEFINE before == {k \in 1..Len(log) : log[k].time <= c}
<1>1. before = 1..j  OBVIOUS
<1>2. CASE j = 0  BY <1>1, <1>2 DEF LevelAt
<1>3. CASE j # 0
  <2>1. Last(1..j) = j  BY <1>3 DEF Last
  <2>2. before # {}  BY <1>1, <1>3
  <2>3. LevelAt(c) = log[Last(before)].level  BY <2>2 DEF LevelAt
  <2> QED  BY <1>1, <1>3, <2>1, <2>3
<1> QED  BY <1>2, <1>3

(* In a sequence in the order of time, what is not later than a cycle is   *)
(* its front, and can be counted.                                          *)
LEMMA FrontIs ==
  ASSUME NEW s \in Seq(Event), InOrderOfTime(s), NEW c \in Nat
  PROVE  LET front == Cardinality({k \in 1..Len(s) : \A i \in 1..k : s[i].time <= c})
         IN  front \in 0..Len(s) /\ \A k \in 1..Len(s) : s[k].time <= c <=> k <= front
<1> DEFINE len == Len(s)
           taken == {k \in 1..len : \A i \in 1..k : s[i].time <= c}
<1>0. len \in Nat /\ \A k \in 1..len : s[k].time \in Nat
  <2>1. \A k \in 1..len : s[k] \in Event  OBVIOUS
  <2> QED  BY <2>1 DEF Event
<1>1. IsFiniteSet(1..len) /\ Cardinality(1..len) = len
  <2> HIDE DEF len
  <2> QED  BY <1>0, FS_Interval
<1>2. IsFiniteSet(taken) /\ Cardinality(taken) \in 0..len
  <2>1. taken \subseteq 1..len  OBVIOUS
  <2> HIDE DEF taken, len
  <2>2. IsFiniteSet(taken) /\ Cardinality(taken) <= len  BY <1>1, <2>1, FS_Subset
  <2>3. Cardinality(taken) \in Nat  BY <2>2, FS_CardinalityType
  <2> QED  BY <1>0, <2>2, <2>3
<1>3. ASSUME NEW k \in taken PROVE k <= Cardinality(taken)
  <2>1. 1..k \subseteq taken  BY <1>0
  <2>2. Cardinality(1..k) = k  BY <1>0, FS_Interval
  <2> QED  BY <1>2, <2>1, <2>2, FS_Subset
<1>4. ASSUME NEW k \in (1..len) \ taken PROVE Cardinality(taken) < k
  <2>1. taken \subseteq 1..(k - 1)  BY <1>0
  <2>2. PICK n \in Nat : n = k - 1 /\ k = n + 1  BY <1>0
  <2> HIDE DEF taken, len
  <2>3. IsFiniteSet(1..n) /\ Cardinality(1..n) = n  BY <2>2, FS_Interval
  <2>4. Cardinality(taken) <= n  BY <2>1, <2>2, <2>3, FS_Subset
  <2>5. Cardinality(taken) \in Nat  BY <1>0, <1>2
  <2> QED  BY <2>2, <2>4, <2>5
<1>5. \A k \in 1..len : k \in taken <=> s[k].time <= c
  BY <1>0 DEF InOrderOfTime
<1> HIDE DEF taken
<1>6. \A k \in 1..len : s[k].time <= c <=> k <= Cardinality(taken)
  BY <1>0, <1>2, <1>3, <1>4, <1>5
<1> QED  BY <1>2, <1>6 DEF taken

(* The events taken by a cycle are those at the front that are not later.  *)
LEMMA TakenIs ==
  ASSUME dac_events \in Seq(Event), InOrderOfTime(dac_events), NEW c \in Nat
  PROVE  /\ TakenBy(c) \in 0..Len(dac_events)
         /\ \A k \in 1..Len(dac_events) : dac_events[k].time <= c <=> k <= TakenBy(c)
BY FrontIs DEF TakenBy

(* What the host pulls holds the level of the last write.                  *)
LEMMA HeldIsLevel ==
  ASSUME HoldInv, NEW c \in Nat, emitted <= c
  PROVE  /\ TakenBy(c) \in 0..Len(dac_events)
         /\ \A k \in 1..Len(dac_events) : dac_events[k].time <= c <=> k <= TakenBy(c)
         /\ HeldAt(c) = LevelAt(c) /\ HeldAt(c) \in Level
         /\ HeldAt(c) = IF Done + TakenBy(c) = 0 THEN Rest ELSE log[Done + TakenBy(c)].level
<1> DEFINE j == TakenBy(c)
<1>0. /\ log \in Seq(Event) /\ dac_events \in Seq(Event) /\ emitted \in Nat
      /\ Len(log) \in Nat /\ Len(dac_events) \in Nat /\ Done \in Nat
      /\ Len(log) = Done + Len(dac_events)
      /\ \A k \in 1..Len(log) : log[k] \in Event
      /\ \A k \in 1..Len(dac_events) : dac_events[k] = log[Done + k]
      /\ InOrderOfTime(log)
  <2>1. log \in Seq(Event) /\ dac_events \in Seq(Event) /\ emitted \in Nat
    BY DEF HoldInv, HoldTypeOK
  <2>2. Done \in Nat /\ Len(log) = Done + Len(dac_events)
    BY <2>1 DEF HoldInv, Done
  <2> QED  BY <2>1, <2>2 DEF HoldInv
<1>1. InOrderOfTime(dac_events)
  <2> SUFFICES ASSUME NEW h \in 1..Len(dac_events), NEW i \in 1..Len(dac_events), h <= i
               PROVE  dac_events[h].time <= dac_events[i].time
    BY DEF InOrderOfTime
  <2>1. Done + h \in 1..Len(log) /\ Done + i \in 1..Len(log) /\ Done + h <= Done + i
    BY <1>0
  <2>2. log[Done + h].time <= log[Done + i].time  BY <1>0, <2>1 DEF InOrderOfTime
  <2> QED  BY <1>0, <2>2
<1>2. /\ j \in 0..Len(dac_events)
      /\ \A k \in 1..Len(dac_events) : dac_events[k].time <= c <=> k <= j
  BY <1>0, <1>1, TakenIs
<1>3. ASSUME NEW k \in 1..Len(log) PROVE log[k].time <= c <=> k <= Done + j
  <2>1. log[k].time \in Nat  BY <1>0 DEF Event
  <2>2. CASE k <= Done
    <3>1. log[k].time <= emitted  BY <2>2 DEF HoldInv
    <3> QED  BY <1>0, <1>2, <2>1, <2>2, <3>1
  <2>3. CASE k > Done
    <3>1. k - Done \in 1..Len(dac_events) /\ dac_events[k - Done] = log[k]
      BY <1>0, <2>3
    <3> QED  BY <1>0, <1>2, <2>3, <3>1
  <2> QED  BY <1>0, <2>2, <2>3
<1>4. LevelAt(c) = IF Done + j = 0 THEN Rest ELSE log[Done + j].level
  <2>1. Done + j \in 0..Len(log)  BY <1>0, <1>2
  <2> HIDE DEF j
  <2> QED  BY <1>0, <1>3, <2>1, LevelIs
<1>5. HeldAt(c) = IF Done + j = 0 THEN Rest ELSE log[Done + j].level
  <2>1. CASE j = 0
    BY <1>0, <2>1 DEF HeldAt, HoldInv
  <2>2. CASE j # 0
    <3>1. dac_events[j] = log[Done + j]  BY <1>0, <1>2, <2>2
    <3> QED  BY <1>0, <1>2, <2>2, <3>1 DEF HeldAt
  <2> QED  BY <2>1, <2>2
<1>6. LevelAt(c) \in Level
  <2>1. Done + j = 0 \/ Done + j \in 1..Len(log)  BY <1>0, <1>2
  <2> QED  BY <1>0, <1>4, <2>1 DEF Level, Event
<1> QED  BY <1>2, <1>4, <1>5, <1>6

-----------------------------------------------------------------------------
(* Time does not go back.                                                  *)
LEMMA TimePasses ==
  ASSUME SInv, SInv', [Next]_vars
  PROVE  /\ base \in Nat /\ base' \in Nat /\ Now \in Int /\ Now' \in Int
         /\ base <= Now /\ base <= base' /\ Now <= Now'
<1>1. /\ base \in Nat /\ base' \in Nat /\ slice_base \in Nat /\ slice_base' \in Nat
      /\ icount \in Int /\ icount' \in Int
      /\ at = "cpu" => icount <= slice_base
  BY DEF SInv, SchedulerTypeOK, SliceInv
<1>2. Now \in Int /\ Now' \in Int /\ base <= Now  BY <1>1 DEF Now
<1>3. [SchedulerNext]_scheduler  BY BoardRuns
<1>4. CASE FireTimer \/ StartSlice \/ EndSlice
  <2>1. Now' = Now  BY <1>4, LoopKeepsNow
  <2>2. base <= base'  BY <1>1, <1>4 DEF FireTimer, StartSlice, EndSlice
  <2> QED  BY <1>1, <1>2, <2>1, <2>2
<1>5. CASE Return \/ \E n \in Amounts : RunCycles(n)
  BY <1>1, <1>2, <1>5 DEF Return, RunCycles, Now
<1>6. CASE Compute \/ Disarm
  <2>1. PICK cost \in Costs : icount' = icount - cost.before - cost.after
    BY <1>6 DEF Compute, Spend, Disarm
  <2>2. UNCHANGED <<at, base, slice_base>>  BY <1>6 DEF Compute, Spend, Disarm
  <2>3. cost.before \in Nat /\ cost.after \in Nat
    BY SchedulerAssumption DEF Costs
  <2> QED  BY <1>1, <1>2, <2>1, <2>2, <2>3 DEF Now
<1>7. CASE Halt
  BY <1>1, <1>2, <1>7 DEF Halt, Now
<1>8. CASE Arm
  <2>1. PICK cost \in Costs, t \in Timer :
          LET left == icount - cost.before
          IN  IF CutsSlice(t, left)
                THEN slice_base' = slice_base - left /\ icount' = 0 - cost.after
                ELSE icount' = left - cost.after /\ UNCHANGED slice_base
    BY <1>8 DEF Arm
  <2>2. at = "cpu" /\ UNCHANGED <<at, base>>  BY <1>8 DEF Arm
  <2>3. cost.before \in Nat /\ cost.after \in Nat
    BY SchedulerAssumption DEF Costs
  <2>4. /\ Now = base + (slice_base - icount) /\ Now' = base + (slice_base' - icount')
        /\ base' = base
    BY <2>2 DEF Now
  <2>5. CASE slice_base' = slice_base /\ icount' = icount - cost.before - cost.after
    BY <1>1, <1>2, <2>3, <2>4, <2>5
  <2>6. CASE slice_base' = slice_base - (icount - cost.before) /\ icount' = 0 - cost.after
    BY <1>1, <1>2, <2>3, <2>4, <2>6
  <2> QED  BY <2>1, <2>5, <2>6
<1>9. CASE UNCHANGED scheduler
  BY <1>1, <1>2, <1>9 DEF scheduler, slice, Now
<1> QED
  BY <1>3, <1>4, <1>5, <1>6, <1>7, <1>8, <1>9 DEF SchedulerNext, LoopStep, CpuStep

(* Samples pulled were decided by what the log held up to their cycles.    *)
LEMMA LevelStays ==
  ASSUME log \in Seq(Event), InOrderOfTime(log), NEW c \in Nat,
         \A k : k \in 1..Len(log) /\ log[k].time <= c
                 <=> k \in 1..Len(log') /\ log'[k].time <= c,
         \A k \in 1..Len(log) : log[k].time <= c => log'[k] = log[k]
  PROVE  LevelAt(c)' = LevelAt(c)
<1>1. PICK before \in SUBSET (1..Len(log)) : before = {k \in 1..Len(log) : log[k].time <= c}
  OBVIOUS
<1>2. before = {k \in 1..Len(log') : log'[k].time <= c}  BY <1>1
<1>3. LevelAt(c) = IF before = {} THEN Rest ELSE log[Last(before)].level
  BY <1>1 DEF LevelAt
<1>4. LevelAt(c)' = IF before = {} THEN Rest ELSE log'[Last(before)].level
  BY <1>2 DEF LevelAt
<1>5. ASSUME before # {} PROVE Last(before) \in before
  <2>1. PICK j \in 0..Len(log) : \A k \in 1..Len(log) : log[k].time <= c <=> k <= j
    BY FrontIs
  <2>2. before = 1..j  BY <1>1, <2>1
  <2>3. j \in 1..j  BY <1>5, <2>2
  <2>4. Last(1..j) = j  BY <2>3 DEF Last
  <2> QED  BY <2>2, <2>3, <2>4
<1> QED  BY <1>1, <1>3, <1>4, <1>5

(* Steps that leave the samples alone.                                      *)
LEMMA HoldWaits ==
  ASSUME SInv, SInv', HoldInv, [Next]_vars, UNCHANGED <<dac_events, dac_level, emitted, log, tape>>
  PROVE  HoldInv'
<1>1. UNCHANGED <<dac_events, dac_level, emitted, log, tape>>  OBVIOUS
<1>2. /\ base \in Nat /\ base' \in Nat /\ Now \in Int /\ Now' \in Int
      /\ base <= base' /\ Now <= Now'
  BY TimePasses
<1>3. \A k \in 1..Len(log) : log[k].time \in Nat
  <2>1. \A k \in 1..Len(log) : log[k] \in Event  BY DEF HoldInv, HoldTypeOK
  <2> QED  BY <2>1 DEF Event
<1>4. emitted' <= base' /\ \A k \in 1..Len(log') : log'[k].time <= Now'
  BY <1>1, <1>2, <1>3 DEF HoldInv, HoldTypeOK
<1>5. \A n \in 1..Len(tape') : tape'[n] = LevelAt(SampleCycle(n - 1))'
  <2>1. \A c \in Nat : LevelAt(c)' = LevelAt(c)
    BY <1>1, LevelStays DEF HoldInv, HoldTypeOK
  <2>2. \A n \in 1..Len(tape) : n - 1 \in Nat  OBVIOUS
  <2>3. \A n \in 1..Len(tape) : SampleCycle(n - 1) \in Nat
    BY <2>2, SampleCycles
  <2> QED  BY <1>1, <2>1, <2>3 DEF HoldInv
<1>6. HoldTypeOK' /\ Done' = Done  BY <1>1 DEF HoldInv, HoldTypeOK, Done
<1> QED  BY <1>1, <1>4, <1>5, <1>6 DEF HoldInv, InOrderOfTime

LEMMA Appended ==
  ASSUME NEW s \in Seq(Event), NEW e \in Event
  PROVE  /\ Append(s, e) \in Seq(Event) /\ Len(Append(s, e)) = Len(s) + 1
         /\ Append(s, e)[Len(s) + 1] = e
         /\ \A k \in 1..Len(s) : Append(s, e)[k] = s[k]
BY AppendProperties

LEMMA AppendedInOrder ==
  ASSUME NEW s \in Seq(Event), NEW e \in Event, InOrderOfTime(s),
         \A k \in 1..Len(s) : s[k].time <= e.time
  PROVE  InOrderOfTime(Append(s, e))
<1> DEFINE t == Append(s, e)
<1>1. /\ Len(t) = Len(s) + 1 /\ t[Len(s) + 1] = e /\ Len(s) \in Nat
      /\ \A k \in 1..Len(s) : t[k] = s[k]
  BY Appended
<1>2. e.time \in Nat /\ e.time <= e.time  BY DEF Event
<1> HIDE DEF t
<1> SUFFICES ASSUME NEW h \in 1..Len(t), NEW i \in 1..Len(t), h <= i
             PROVE  t[h].time <= t[i].time
  BY DEF t, InOrderOfTime
<1>3. CASE i = Len(s) + 1
  <2>1. h = i \/ h \in 1..Len(s)  BY <1>1, <1>3
  <2> QED  BY <1>1, <1>2, <1>3, <2>1
<1>4. CASE i # Len(s) + 1
  <2>1. h \in 1..Len(s) /\ i \in 1..Len(s)  BY <1>1, <1>4
  <2> QED  BY <1>1, <2>1 DEF InOrderOfTime
<1> QED  BY <1>3, <1>4

(* The DAC is written: after everything pulled and everything written.     *)
LEMMA WriteHolds ==
  ASSUME SInv, SInv', HoldInv, [Next]_vars, WriteDac
  PROVE  HoldInv'
<1>1. PICK cost \in Costs, v \in Levels :
        /\ Spend(cost)
        /\ dac_events' = Append(dac_events, [time |-> EffectTime(cost), level |-> v])
        /\ log' = Append(log, [time |-> EffectTime(cost), level |-> v])
  BY DEF WriteDac
<1>2. UNCHANGED <<dac_level, emitted, tape>> /\ at = "cpu" /\ UNCHANGED <<at, base, slice_base>>
  BY <1>1 DEF WriteDac, Spend
<1>3. /\ base \in Nat /\ base <= Now /\ Now \in Int /\ Now' \in Int
  BY TimePasses
<1>4. PICK e \in Event : /\ log' = Append(log, e) /\ dac_events' = Append(dac_events, e)
                         /\ e.time \in Nat /\ Now <= e.time /\ e.time <= Now'
  <2> DEFINE f == [time |-> EffectTime(cost), level |-> v]
  <2>1. /\ slice_base \in Nat /\ icount \in Int /\ cost.before \in Nat /\ cost.after \in Nat
    BY SchedulerAssumption DEF SInv, SchedulerTypeOK, Costs
  <2>2. /\ Now = base + (slice_base - icount) /\ Now' = base + (slice_base - icount')
        /\ icount' = icount - cost.before - cost.after
        /\ f.time = base + (slice_base - (icount - cost.before)) /\ f.level = v
    BY <1>1, <1>2 DEF Now, Spend, EffectTime
  <2>3. f.time \in Nat /\ Now <= f.time /\ f.time <= Now'
    BY <1>3, <2>1, <2>2
  <2>4. f \in Event  BY <2>3 DEF Event, Level
  <2> HIDE DEF f
  <2> QED  BY <1>1, <2>3, <2>4 DEF f
<1>5. /\ log \in Seq(Event) /\ dac_events \in Seq(Event) /\ tape \in Seq(Level)
      /\ emitted \in Nat /\ Len(log) \in Nat /\ Len(dac_events) \in Nat /\ Done \in Nat
      /\ Len(log) = Done + Len(dac_events)
  <2>1. HoldTypeOK  BY DEF HoldInv
  <2>2. Done >= 0  BY DEF HoldInv
  <2> QED  BY <2>1, <2>2 DEF HoldTypeOK, Done
<1>6. /\ log' \in Seq(Event) /\ Len(log') = Len(log) + 1
      /\ log'[Len(log) + 1] = e /\ \A k \in 1..Len(log) : log'[k] = log[k]
      /\ dac_events' \in Seq(Event) /\ Len(dac_events') = Len(dac_events) + 1
      /\ dac_events'[Len(dac_events) + 1] = e
      /\ \A k \in 1..Len(dac_events) : dac_events'[k] = dac_events[k]
  BY <1>4, <1>5, Appended
<1>7. \A k \in 1..Len(log) : log[k].time \in Nat /\ log[k].time <= Now
  <2>1. \A k \in 1..Len(log) : log[k] \in Event  BY <1>5
  <2> QED  BY <2>1 DEF Event, HoldInv
<1>8. InOrderOfTime(log') /\ \A k \in 1..Len(log') : log'[k].time <= Now'
  <2>1. \A k \in 1..Len(log) : log[k].time <= e.time  BY <1>3, <1>4, <1>7
  <2>2. InOrderOfTime(log)  BY DEF HoldInv
  <2>3. \A k \in 1..Len(log') : k \in 1..Len(log) \/ k = Len(log) + 1
    <3>1. Len(log) \in Nat /\ Len(log') = Len(log) + 1  BY <1>5, <1>6
    <3> QED  BY <3>1
  <2>4. \A k \in 1..Len(log') : log'[k].time <= Now'
    BY <1>3, <1>4, <1>6, <1>7, <2>1, <2>3
  <2>5. InOrderOfTime(log')
    BY <1>4, <1>5, <2>1, <2>2, AppendedInOrder
  <2> QED  BY <2>4, <2>5
<1>9. Done' = Done /\ \A k \in 1..Len(dac_events') : dac_events'[k] = log'[Done + k]
  <2>1. Done' = Done  BY <1>5, <1>6 DEF Done
  <2>2. \A k \in 1..Len(dac_events) : dac_events[k] = log[Done + k]  BY DEF HoldInv
  <2>3. \A k \in 1..Len(dac_events') : k \in 1..Len(dac_events) \/ k = Len(dac_events) + 1
    BY <1>5, <1>6
  <2>4. \A k \in 1..Len(dac_events) : Done + k \in 1..Len(log)
    BY <1>5
  <2>5. Done + (Len(dac_events) + 1) = Len(log) + 1  BY <1>5
  <2> QED  BY <1>6, <2>1, <2>2, <2>3, <2>4, <2>5
<1>10. /\ \A k \in 1..Done : log'[k].time <= emitted
       /\ dac_level = IF Done = 0 THEN Rest ELSE log'[Done].level
  <2>1. \A k \in 1..Done : k \in 1..Len(log)  BY <1>5
  <2>2. Done # 0 => Done \in 1..Done  BY <1>5
  <2>3. /\ \A k \in 1..Done : log[k].time <= emitted
        /\ dac_level = IF Done = 0 THEN Rest ELSE log[Done].level
    BY DEF HoldInv
  <2> QED  BY <1>6, <2>1, <2>2, <2>3
<1>11. \A i \in 0..(Len(tape) - 1) : SampleCycle(i) < e.time /\ SampleCycle(i) \in Nat
  <2>1. Len(tape) = FirstIndex(emitted) /\ emitted <= base  BY DEF HoldInv
  <2>2. \A i \in 0..(Len(tape) - 1) : i \in Nat /\ i < Len(tape)  BY <1>5
  <2>3. \A i \in 0..(Len(tape) - 1) : SampleCycle(i) < emitted /\ SampleCycle(i) \in Nat
    BY <1>5, <2>1, <2>2, GridBefore, SampleCycles
  <2> QED  BY <1>3, <1>4, <1>5, <2>1, <2>3 DEF Event
<1>12. \A k \in 1..Len(dac_events'), i \in 0..(Len(tape) - 1) : SampleCycle(i) < dac_events'[k].time
  <2>1. \A k \in 1..Len(dac_events), i \in 0..(Len(tape) - 1) : SampleCycle(i) < dac_events[k].time
    BY DEF HoldInv
  <2> QED  BY <1>5, <1>6, <1>11, <2>1
<1>13. \A n \in 1..Len(tape) : tape[n] = LevelAt(SampleCycle(n - 1))'
  <2> SUFFICES ASSUME NEW n \in 1..Len(tape) PROVE tape[n] = LevelAt(SampleCycle(n - 1))'
    OBVIOUS
  <2>1. PICK c \in Nat : c = SampleCycle(n - 1) /\ c < e.time  BY <1>5, <1>11
  <2>2. LevelAt(c)' = LevelAt(c)
    <3>1. InOrderOfTime(log)  BY DEF HoldInv
    <3>2. \A k : k \in 1..Len(log) /\ log[k].time <= c
                  <=> k \in 1..Len(log') /\ log'[k].time <= c
      <4>1. \A k \in 1..Len(log') : k \in 1..Len(log) \/ k = Len(log) + 1
        BY <1>5, <1>6
      <4>2. \A k \in 1..Len(log) : k \in 1..Len(log')  BY <1>5, <1>6
      <4>3. ~(log'[Len(log) + 1].time <= c)  BY <1>4, <1>6, <2>1
      <4> QED  BY <1>6, <4>1, <4>2, <4>3
    <3> QED  BY <1>5, <1>6, <3>1, <3>2, LevelStays
  <2>3. tape[n] = LevelAt(c)  BY <2>1 DEF HoldInv
  <2> QED  BY <2>1, <2>2, <2>3
<1>14. HoldTypeOK'  BY <1>2, <1>5, <1>6 DEF HoldTypeOK
<1>15. emitted' <= base' /\ Len(tape') = FirstIndex(emitted') /\ Done' >= 0
  BY <1>2, <1>5, <1>9 DEF HoldInv
<1> QED  BY <1>2, <1>8, <1>9, <1>10, <1>12, <1>13, <1>14, <1>15 DEF HoldInv

(* What was neither pulled nor taken is cut off, and the DAC rests.        *)
LEMMA ResetHolds ==
  ASSUME SInv, SInv', HoldInv, [Next]_vars, Reset
  PROVE  HoldInv'
<1> DEFINE e == [time |-> emitted, level |-> Rest]
           front == SubSeq(log, 1, Done)
<1>1. /\ UNCHANGED <<emitted, tape>> /\ dac_events' = <<>> /\ dac_level' = Rest
      /\ log' = Append(SubSeq(log, 1, Len(log) - Len(dac_events)),
                       [time |-> emitted, level |-> Rest])
  BY DEF Reset
<1>2. base \in Nat /\ base <= base' /\ base' \in Nat /\ base <= Now /\ Now <= Now'
      /\ Now \in Int /\ Now' \in Int
  BY TimePasses
<1>3. /\ log \in Seq(Event) /\ dac_events \in Seq(Event) /\ tape \in Seq(Level)
      /\ emitted \in Nat /\ Len(log) \in Nat /\ Len(dac_events) \in Nat /\ Done \in Nat
      /\ Len(log) = Done + Len(dac_events) /\ Done = Len(log) - Len(dac_events)
  <2>1. HoldTypeOK  BY DEF HoldInv
  <2>2. Done >= 0  BY DEF HoldInv
  <2> QED  BY <2>1, <2>2 DEF HoldTypeOK, Done
<1>4. \A k \in 1..Len(log) : log[k] \in Event /\ log[k].time \in Nat
  <2>1. \A k \in 1..Len(log) : log[k] \in Event  BY <1>3
  <2> QED  BY <2>1 DEF Event
<1>5. e \in Event /\ e.time = emitted /\ e.level = Rest  BY <1>3 DEF Event, Level
<1>6. /\ front \in Seq(Event) /\ Len(front) = Done
      /\ \A k \in 1..Done : front[k] = log[k] /\ k \in 1..Len(log)
  <2>1. \A k \in 1..Done : k \in 1..Len(log) /\ log[k] \in Event  BY <1>3, <1>4
  <2>2. /\ front \in Seq(Event) /\ Len(front) = IF 1 <= Done THEN Done - 1 + 1 ELSE 0
        /\ \A k \in 1..(Done - 1 + 1) : front[k] = log[1 + k - 1]
    <3> HIDE DEF Done
    <3> QED  BY <1>3, <2>1, SubSeqProperties
  <2> QED  BY <1>3, <2>1, <2>2
<1>7. log' = Append(front, e)  BY <1>1, <1>3
<1> HIDE DEF e, front
<1>8. /\ log' \in Seq(Event) /\ Len(log') = Done + 1 /\ log'[Done + 1] = e
      /\ \A k \in 1..Done : log'[k] = log[k] /\ k \in 1..Len(log) /\ log[k].time <= emitted
  BY <1>5, <1>6, <1>7, Appended DEF HoldInv
<1>9. InOrderOfTime(log')
  <2>1. InOrderOfTime(front)
    BY <1>3, <1>6 DEF HoldInv, InOrderOfTime
  <2> QED  BY <1>5, <1>6, <1>7, <1>8, <2>1, AppendedInOrder
<1>10. \A k \in 1..Len(log') : log'[k].time <= emitted /\ log'[k].time <= Now'
  <2>1. \A k \in 1..Len(log') : k \in 1..Done \/ k = Done + 1  BY <1>3, <1>8
  <2>2. emitted <= base  BY DEF HoldInv
  <2>3. \A k \in 1..Done : log'[k].time \in Nat /\ log'[k].time <= emitted
    BY <1>4, <1>8
  <2> QED  BY <1>2, <1>3, <1>5, <1>8, <2>1, <2>2, <2>3
<1>11. Len(dac_events') = 0 /\ dac_events' \in Seq(Event)  BY <1>1
<1>12. Done' = Done + 1  BY <1>3, <1>8, <1>11 DEF Done
<1>13. \A n \in 1..Len(tape) : tape[n] = LevelAt(SampleCycle(n - 1))'
  <2> SUFFICES ASSUME NEW n \in 1..Len(tape) PROVE tape[n] = LevelAt(SampleCycle(n - 1))'
    OBVIOUS
  <2>1. n - 1 \in Nat /\ n - 1 < Len(tape) /\ n - 1 \in 0..(Len(tape) - 1)  BY <1>3
  <2>2. PICK c \in Nat : c = SampleCycle(n - 1) /\ c < emitted
    <3>1. Len(tape) = FirstIndex(emitted)  BY DEF HoldInv
    <3> QED  BY <1>3, <2>1, <3>1, SampleCycles, GridBefore
  <2>3. ASSUME NEW k \in 1..Len(log), log[k].time <= c PROVE k \in 1..Done
    <3>1. ASSUME k > Done PROVE FALSE
      <4>1. k - Done \in 1..Len(dac_events) /\ Done + (k - Done) = k  BY <1>3, <3>1
      <4>2. dac_events[k - Done] = log[k]  BY <4>1 DEF HoldInv
      <4>3. c < log[k].time  BY <2>1, <2>2, <4>1, <4>2 DEF HoldInv
      <4> QED  BY <1>4, <2>3, <4>3
    <3> QED  BY <1>3, <3>1
  <2>4. LevelAt(c)' = LevelAt(c)
    <3>1. \A k \in 1..Len(log') : k \in 1..Done \/ k = Done + 1  BY <1>3, <1>8
    <3>2. \A k \in 1..Done : k \in 1..Len(log')  BY <1>3, <1>8
    <3>3. ~(log'[Done + 1].time <= c)  BY <1>3, <1>5, <1>8, <2>2
    <3>4. \A k : k \in 1..Len(log) /\ log[k].time <= c
                  <=> k \in 1..Len(log') /\ log'[k].time <= c
      BY <1>8, <2>3, <3>1, <3>2, <3>3
    <3>5. InOrderOfTime(log)  BY DEF HoldInv
    <3> QED  BY <1>3, <1>8, <2>3, <3>4, <3>5, LevelStays
  <2>5. tape[n] = LevelAt(c)  BY <2>2 DEF HoldInv
  <2> QED  BY <2>2, <2>4, <2>5
<1>14. HoldTypeOK'  BY <1>1, <1>3, <1>8, <1>11 DEF HoldTypeOK
<1>15. dac_level' = IF Done' = 0 THEN Rest ELSE log'[Done'].level
  BY <1>1, <1>3, <1>5, <1>8, <1>12
<1>16. emitted' <= base' /\ Len(tape') = FirstIndex(emitted') /\ Done' >= 0
  BY <1>1, <1>2, <1>3, <1>12 DEF HoldInv
<1>17. \A k \in 1..Done' : log'[k].time <= emitted'
  BY <1>1, <1>8, <1>10, <1>12
<1>18. /\ \A k \in 1..Len(dac_events') : dac_events'[k] = log'[Done' + k]
       /\ \A k \in 1..Len(dac_events'), i \in 0..(Len(tape') - 1) :
             SampleCycle(i) < dac_events'[k].time
  BY <1>11
<1>19. \A n \in 1..Len(tape') : tape'[n] = LevelAt(SampleCycle(n - 1))'
  BY <1>1, <1>13
<1> QED
  BY <1>9, <1>10, <1>14, <1>15, <1>16, <1>17, <1>18, <1>19 DEF HoldInv

(* A pull takes the samples up to now.                                     *)
LEMMA PulledSamples ==
  ASSUME HoldInv, base \in Nat
  PROVE  /\ FirstIndex(base) - Len(tape) \in Nat
         /\ Len(Pulled(Len(tape))) = FirstIndex(base) - Len(tape)
         /\ Pulled(Len(tape)) \in Seq(Level)
         /\ \A i \in 1..(FirstIndex(base) - Len(tape)) :
               Pulled(Len(tape))[i] = LevelAt(SampleCycle(Len(tape) + i - 1))
<1> DEFINE index == Len(tape)
           end == FirstIndex(base)
           indices == {n \in index..(index + base) : SampleCycle(n) < base}
<1>1. /\ tape \in Seq(Level) /\ index \in Nat /\ emitted \in Nat /\ emitted <= base
      /\ index = FirstIndex(emitted)
  BY DEF HoldInv, HoldTypeOK
<1>2. end \in Nat /\ end <= base /\ \A n \in Nat : SampleCycle(n) < base <=> n < end
  BY GridBefore
<1>3. \A n \in Nat : SampleCycle(n) \in Nat /\ (SampleCycle(n) < emitted <=> n < index)
  BY <1>1, SampleCycles, GridBefore
<1> HIDE DEF index, end
<1>4. index <= end
  <2>1. ASSUME end < index PROVE FALSE
    BY <1>1, <1>2, <1>3, <2>1
  <2> QED  BY <1>1, <1>2, <2>1
<1>5. indices = index..(end - 1)
  <2>1. ASSUME NEW n \in index..(index + base) PROVE SampleCycle(n) < base <=> n \in index..(end - 1)
    BY <1>1, <1>2
  <2>2. index..(end - 1) \subseteq index..(index + base)  BY <1>1, <1>2
  <2> QED  BY <2>1, <2>2
<1>6. Cardinality(indices) = end - index
  <2> HIDE DEF indices
  <2> QED  BY <1>1, <1>2, <1>4, <1>5, FS_Interval
<1>7. Pulled(index) = [i \in 1..(end - index) |-> HeldAt(SampleCycle(index + i - 1))]
  BY <1>6 DEF Pulled
<1>8. ASSUME NEW i \in 1..(end - index)
      PROVE  /\ HeldAt(SampleCycle(index + i - 1)) = LevelAt(SampleCycle(index + i - 1))
             /\ HeldAt(SampleCycle(index + i - 1)) \in Level
  <2>1. index + i - 1 \in Nat /\ ~(index + i - 1 < index)  BY <1>1, <1>2
  <2>2. SampleCycle(index + i - 1) \in Nat /\ emitted <= SampleCycle(index + i - 1)
    BY <1>1, <1>3, <2>1
  <2> QED  BY <2>2, HeldIsLevel
<1>9. end - index \in Nat  BY <1>1, <1>2, <1>4
<1>10. Pulled(index) \in Seq(Level) /\ Len(Pulled(index)) = end - index
  BY <1>7, <1>8, <1>9
<1> QED  BY <1>7, <1>8, <1>9, <1>10 DEF index, end

LEMMA Joined ==
  ASSUME NEW s \in Seq(Level), NEW t \in Seq(Level)
  PROVE  /\ s \o t \in Seq(Level) /\ Len(s \o t) = Len(s) + Len(t)
         /\ \A n \in 1..Len(s) : (s \o t)[n] = s[n]
         /\ \A n \in 1..(Len(s) + Len(t)) : ~(n <= Len(s)) => (s \o t)[n] = t[n - Len(s)]
BY ConcatProperties

LEMMA PullHolds ==
  ASSUME SInv, SInv', HoldInv, [Next]_vars, Pull
  PROVE  HoldInv'
<1> DEFINE index == Len(tape)
           end == FirstIndex(base)
           final == SampleCycle(end - 1)
<1>1. /\ base \in Nat /\ base <= Now /\ Now <= Now' /\ Now \in Int /\ Now' \in Int
  BY TimePasses
<1>2. /\ log \in Seq(Event) /\ dac_events \in Seq(Event) /\ tape \in Seq(Level)
      /\ emitted \in Nat /\ Len(log) \in Nat /\ Len(dac_events) \in Nat /\ Done \in Nat
      /\ Len(log) = Done + Len(dac_events) /\ Done = Len(log) - Len(dac_events)
      /\ index \in Nat /\ index = FirstIndex(emitted) /\ emitted <= base
  <2>1. HoldTypeOK  BY DEF HoldInv
  <2>2. Done >= 0 /\ index = FirstIndex(emitted) /\ emitted <= base  BY DEF HoldInv
  <2> QED  BY <2>1, <2>2 DEF HoldTypeOK, Done
<1>3. PICK new \in Seq(Level) :
        /\ new = Pulled(index)
        /\ end - index \in Nat /\ Len(new) = end - index
        /\ \A i \in 1..(end - index) : new[i] = LevelAt(SampleCycle(index + i - 1))
  BY <1>1, PulledSamples
<1>4. /\ UNCHANGED <<base, log>> /\ emitted' = base /\ tape' = tape \o new
      /\ IF new = <<>>
           THEN UNCHANGED <<dac_events, dac_level>>
           ELSE /\ dac_level' = HeldAt(SampleCycle(index + Len(new) - 1))
                /\ dac_events' = SubSeq(dac_events, TakenBy(SampleCycle(index + Len(new) - 1)) + 1,
                                        Len(dac_events))
  BY <1>2, <1>3 DEF Pull, scheduler
<1>5. end \in Nat /\ \A n \in Nat : SampleCycle(n) \in Nat /\ (SampleCycle(n) < base <=> n < end)
                   /\ (SampleCycle(n) < emitted <=> n < index)
  BY <1>1, <1>2, GridBefore, SampleCycles
<1> HIDE DEF index, end, final
<1>6. /\ tape' \in Seq(Level) /\ Len(tape') = end
      /\ \A n \in 1..index : tape'[n] = tape[n]
      /\ \A n \in 1..end : ~(n <= index) => tape'[n] = new[n - index]
  <2>1. /\ tape' \in Seq(Level) /\ Len(tape') = index + Len(new)
        /\ \A n \in 1..index : tape'[n] = tape[n]
        /\ \A n \in 1..(index + Len(new)) : ~(n <= index) => tape'[n] = new[n - index]
    BY <1>2, <1>4, Joined DEF index
  <2>2. index + Len(new) = end
    <3>1. index \in Nat /\ end \in Nat /\ Len(new) = end - index  BY <1>2, <1>3, <1>5
    <3> QED  BY <3>1
  <2> QED  BY <2>1, <2>2
<1>7. \A c \in Nat : LevelAt(c)' = LevelAt(c)
  <2>1. InOrderOfTime(log)  BY DEF HoldInv
  <2> QED  BY <1>2, <1>4, <2>1, LevelStays
<1>8. \A n \in 1..Len(tape') : tape'[n] = LevelAt(SampleCycle(n - 1))'
  <2> SUFFICES ASSUME NEW n \in 1..end PROVE tape'[n] = LevelAt(SampleCycle(n - 1))'
    BY <1>6
  <2>1. PICK c \in Nat : c = SampleCycle(n - 1)  BY <1>5
  <2>2. CASE n <= index
    <3>1. n \in 1..index  BY <1>2, <1>5, <2>2
    <3>2. tape[n] = LevelAt(c)  BY <2>1, <3>1 DEF HoldInv, index
    <3> QED  BY <1>6, <1>7, <2>1, <2>2, <3>2
  <2>3. CASE ~(n <= index)
    <3>1. index \in Nat /\ end \in Nat  BY <1>2, <1>5
    <3>2. PICK i \in 1..(end - index) : i = n - index  BY <2>3, <3>1
    <3>3. index + i - 1 = n - 1  BY <3>1, <3>2
    <3>4. new[i] = LevelAt(c)  BY <1>3, <2>1, <3>3
    <3> QED  BY <1>6, <1>7, <2>1, <2>3, <3>2, <3>4
  <2> QED  BY <2>2, <2>3
<1>9. \A k \in 1..Len(log) : log[k] \in Event /\ log[k].time \in Nat
  <2>1. \A k \in 1..Len(log) : log[k] \in Event  BY <1>2
  <2> QED  BY <2>1 DEF Event
<1>10. /\ emitted' \in Nat /\ emitted' <= base' /\ InOrderOfTime(log')
       /\ \A k \in 1..Len(log') : log'[k].time <= Now'
       /\ Len(tape') = FirstIndex(emitted')
  <2>1. InOrderOfTime(log) /\ \A k \in 1..Len(log) : log[k].time <= Now
    BY DEF HoldInv
  <2> QED  BY <1>1, <1>4, <1>6, <1>9, <2>1 DEF end
(* What is left of the events, and what was taken of them.                 *)
<1>11. /\ dac_events' \in Seq(Event)
       /\ Done' >= 0 /\ \A k \in 1..Len(dac_events') : dac_events'[k] = log[Done' + k]
       /\ dac_level' = IF Done' = 0 THEN Rest ELSE log[Done'].level
       /\ \A k \in 1..Done' : log[k].time <= base
       /\ \A k \in 1..Len(dac_events'), i \in 0..(end - 1) : SampleCycle(i) < dac_events'[k].time
  <2>1. CASE new = <<>>
    <3>1. end = index  BY <1>2, <1>3, <1>5, <2>1
    <3>2. Done' = Done /\ dac_events' = dac_events /\ dac_level' = dac_level
      BY <1>4, <2>1 DEF Done
    <3>3. \A k \in 1..Done : k \in 1..Len(log) /\ log[k].time <= emitted
      BY <1>2 DEF HoldInv
    <3>4. \A k \in 1..Done : log[k].time <= base  BY <1>1, <1>2, <1>9, <3>3
    <3> QED  BY <1>2, <3>1, <3>2, <3>4 DEF HoldInv, index
  <2>2. CASE new # <<>>
    <3>1. /\ end - 1 \in Nat /\ end - 1 < end /\ ~(end - 1 < index)
          /\ index + Len(new) - 1 = end - 1
      <4>1. index \in Nat /\ end \in Nat /\ Len(new) = end - index /\ Len(new) \in Nat
        BY <1>2, <1>3, <1>5
      <4>2. Len(new) # 0  BY <2>2
      <4> QED  BY <4>1, <4>2
    <3>2. final \in Nat /\ emitted <= final /\ final < base
      BY <1>1, <1>2, <1>5, <3>1 DEF final
    <3>3. PICK j \in 0..Len(dac_events) :
            /\ j = TakenBy(final)
            /\ \A k \in 1..Len(dac_events) : dac_events[k].time <= final <=> k <= j
            /\ HeldAt(final) = IF Done + j = 0 THEN Rest ELSE log[Done + j].level
      BY <3>2, HeldIsLevel
    <3>4. dac_level' = HeldAt(final) /\ dac_events' = SubSeq(dac_events, j + 1, Len(dac_events))
      BY <1>4, <2>2, <3>1, <3>3 DEF final
    <3>5. /\ dac_events' \in Seq(Event) /\ Len(dac_events') = Len(dac_events) - j
          /\ \A k \in 1..(Len(dac_events) - j) :
                dac_events'[k] = dac_events[j + k] /\ j + k \in 1..Len(dac_events) /\ ~(j + k <= j)
      <4>1. \A k \in (j + 1)..Len(dac_events) : k \in 1..Len(dac_events)  BY <1>2
      <4>2. \A k \in (j + 1)..Len(dac_events) : dac_events[k] \in Event  BY <1>2, <4>1
      <4>3. /\ dac_events' \in Seq(Event)
            /\ Len(dac_events') = IF j + 1 <= Len(dac_events) THEN Len(dac_events) - (j + 1) + 1 ELSE 0
            /\ \A k \in 1..(Len(dac_events) - (j + 1) + 1) :
                  dac_events'[k] = dac_events[(j + 1) + k - 1]
        BY <1>2, <3>4, <4>2, SubSeqProperties
      <4>4. Len(dac_events') = Len(dac_events) - j  BY <1>2, <4>3
      <4>5. Len(dac_events) - (j + 1) + 1 = Len(dac_events) - j  BY <1>2
      <4>6. \A k \in 1..(Len(dac_events) - j) :
              (j + 1) + k - 1 = j + k /\ j + k \in 1..Len(dac_events) /\ ~(j + k <= j)
        BY <1>2
      <4> QED  BY <4>3, <4>4, <4>5, <4>6
    <3>6. Done' = Done + j
      BY <1>2, <1>4, <3>5 DEF Done
    <3>7. \A k \in 1..(Len(dac_events) - j) : dac_events'[k] = log[Done' + k]
      <4>1. \A k \in 1..Len(dac_events) : dac_events[k] = log[Done + k]  BY DEF HoldInv
      <4>2. \A k \in 1..(Len(dac_events) - j) : Done + (j + k) = (Done + j) + k  BY <1>2
      <4> QED  BY <3>5, <3>6, <4>1, <4>2
    <3>8. \A k \in 1..(Done + j) : log[k].time <= base
      <4> SUFFICES ASSUME NEW k \in 1..(Done + j) PROVE log[k].time <= base
        OBVIOUS
      <4>1. k \in 1..Len(log)  BY <1>2
      <4>2. CASE k <= Done
        <5>1. log[k].time <= emitted  BY <1>2, <4>1, <4>2 DEF HoldInv
        <5>2. log[k].time \in Nat  BY <1>9, <4>1
        <5>3. emitted \in Nat /\ base \in Nat /\ emitted <= base  BY <1>1, <1>2
        <5> QED  BY <5>1, <5>2, <5>3
      <4>3. CASE k > Done
        <5>1. k - Done \in 1..Len(dac_events) /\ k - Done <= j /\ Done + (k - Done) = k
          BY <1>2, <4>3
        <5>2. dac_events[k - Done] = log[k]  BY <5>1 DEF HoldInv
        <5>3. log[k].time <= final  BY <3>3, <5>1, <5>2
        <5>4. log[k].time \in Nat  BY <1>9, <4>1
        <5>5. final \in Nat /\ final < base /\ base \in Nat  BY <1>1, <3>2
        <5> QED  BY <5>3, <5>4, <5>5
      <4> QED  BY <1>2, <4>2, <4>3
    <3>9. ASSUME NEW k \in 1..(Len(dac_events) - j), NEW i \in 0..(end - 1)
          PROVE  SampleCycle(i) < dac_events'[k].time
      <4>1. ~(dac_events[j + k].time <= final) /\ dac_events'[k] = dac_events[j + k]
        BY <3>3, <3>5
      <4>2. dac_events[j + k].time \in Nat
        <5>1. dac_events[j + k] \in Event  BY <1>2, <3>5
        <5> QED  BY <5>1 DEF Event
      <4>3. SampleCycle(i) <= final /\ SampleCycle(i) \in Nat
        BY <3>1, SampleCycles DEF final
      <4> QED  BY <3>2, <4>1, <4>2, <4>3
    <3>10. Done + j \in Nat  BY <1>2
    <3>11. dac_level' = IF Done' = 0 THEN Rest ELSE log[Done'].level
      BY <3>3, <3>4, <3>6
    <3>12. Done' >= 0  BY <3>6, <3>10
    <3>13. \A k \in 1..Done' : log[k].time <= base  BY <3>6, <3>8
    <3>14. \A k \in 1..Len(dac_events') : dac_events'[k] = log[Done' + k]  BY <3>5, <3>7
    <3>15. \A k \in 1..Len(dac_events'), i \in 0..(end - 1) : SampleCycle(i) < dac_events'[k].time
      BY <3>5, <3>9
    <3> QED  BY <3>5, <3>11, <3>12, <3>13, <3>14, <3>15
  <2> QED  BY <2>1, <2>2
<1>12. HoldTypeOK'  BY <1>2, <1>4, <1>6, <1>10, <1>11 DEF HoldTypeOK
<1> QED  BY <1>4, <1>6, <1>8, <1>10, <1>11, <1>12 DEF HoldInv

LEMMA HoldStep == SInv /\ SInv' /\ HoldInv /\ [Next]_vars => HoldInv'
<1> SUFFICES ASSUME SInv, SInv', HoldInv, [Next]_vars PROVE HoldInv'
  OBVIOUS
<1>1. CASE WriteDac  BY <1>1, WriteHolds
<1>2. CASE Reset  BY <1>2, ResetHolds
<1>3. CASE Pull  BY <1>3, PullHolds
<1>4. CASE ~(WriteDac \/ Reset \/ Pull)
  <2>1. UNCHANGED <<dac_events, dac_level, emitted, log, tape>>
    BY <1>4 DEF Next, Host, Machine, Firmware, Feed, Stop, HostRuns, HostWrite, FirmwareComputes,
         FirmwareHalts, ReadMailbox, RaiseRdy, WriteIndex, vars, board, audio
  <2> QED  BY <2>1, HoldWaits
<1> QED  BY <1>1, <1>2, <1>3, <1>4

(* doubletalk_board.cpp:174-193.  For any ratio of the clocks, any writes  *)
(* to the DAC and any cutting into pulls, every sample of the grid comes   *)
(* out once, in its place, at the level last written before it.            *)
THEOREM SamplesHold == Spec => []ZeroOrderHold
<1>1. Init => SInv /\ HoldInv
  <2> SUFFICES ASSUME Init PROVE SInv /\ HoldInv
    OBVIOUS
  <2>1. SInv /\ base = 0 /\ at = "out"  BY SInit DEF Init, SchedulerInit
  <2>2. /\ log = <<>> /\ dac_events = <<>> /\ tape = <<>> /\ dac_level = Rest /\ emitted = 0
    BY DEF Init
  <2>3. FirstIndex(0) = 0
    <3>1. FirstIndex(0) \in Nat /\ FirstIndex(0) <= 0  BY GridBefore
    <3> QED  BY <3>1
  <2>4. Done = 0 /\ HoldTypeOK  BY <2>2 DEF Done, HoldTypeOK
  <2> QED  BY <2>1, <2>2, <2>3, <2>4 DEF HoldInv, InOrderOfTime
<1>2. HoldInv => ZeroOrderHold
  <2> SUFFICES ASSUME HoldInv PROVE ZeroOrderHold
    OBVIOUS
  <2>1. /\ emitted \in Nat /\ Len(tape) = FirstIndex(emitted)
        /\ \A n \in 1..Len(tape) : tape[n] = LevelAt(SampleCycle(n - 1))
    BY DEF HoldInv, HoldTypeOK
  <2>2. {n \in 0..emitted : SampleCycle(n) < emitted} = 0..(FirstIndex(emitted) - 1)
    BY <2>1, GridBefore
  <2>3. Cardinality(0..(FirstIndex(emitted) - 1)) = FirstIndex(emitted)
    <3>1. FirstIndex(emitted) \in Nat  BY <2>1, GridBefore
    <3> QED  BY <3>1, FS_Interval
  <2> QED  BY <2>1, <2>2, <2>3 DEF ZeroOrderHold
<1>3. Spec => []SInv
  BY SInvHolds, Implements, PTL
<1> QED  BY <1>1, <1>2, <1>3, HoldStep, PTL DEF Spec
=============================================================================
