----------------------------- MODULE TimersProofs -----------------------------
(***************************************************************************)
(* The timers of i186.cpp count as the hardware's do, for any timers, any  *)
(* size of the count, any number of cycles to a count and any control      *)
(* words.                                                                  *)
(***************************************************************************)
EXTENDS Timers, TLAPS

USE TimerAssumption, PerCountAssumption

Registers == [en : BOOLEAN, int : BOOLEAN, mc : BOOLEAN, alt : BOOLEAN, cont : BOOLEAN,
              src : Sources, riu : BOOLEAN, maxA : Value, maxB : Value]

Turn == PerCount * Wrap     \* the most cycles an emu_timer is armed for

TimersOK ==
  /\ reg \in [Clock -> Registers]
  /\ count \in [Clock -> Value]
  /\ rem \in [Clock -> -1..Turn]
  /\ unspecified \in BOOLEAN
  /\ \A t \in Clock \cap {2} : reg[t].src = "clock"

(* The refinement mapping, one timer at a time.                            *)
Counts(cycles) == (cycles + PerCount - 1) \div PerCount
CountOf(r, n, cycles) ==
  IF Runs(r) /\ cycles # Never THEN (Limit(r) - Counts(cycles)) % Wrap ELSE n
Due == {t \in Clock : Runs(reg[t]) /\ rem[t] = 0}

LEMMA Mapping ==
  /\ TrueCount = [t \in Clock |-> CountOf(reg[t], count[t], rem[t])]
  /\ TrueCount' = [t \in Clock |-> CountOf(reg'[t], count'[t], rem'[t])]
  /\ Counters!hardware = <<reg, TrueCount, Due, status, unspecified>>
  /\ Counters!hardware' = <<reg', TrueCount', Due', status', unspecified'>>
BY DEF TrueCount, CountOf, Counts, Left, Armed, Counters!hardware, Due

(* Both specifications mean the same registers.                            *)
LEMMA SameRegisters ==
  /\ \A r : /\ Counters!Runs(r) = Runs(r) /\ Counters!Prescaled(r) = Prescaled(r)
           /\ Counters!Limit(r) = Limit(r) /\ Counters!Elapsed(r) = Elapsed(r)
           /\ \A c : Counters!Written(r, c) = Written(r, c)
  /\ Counters!Cleared = Cleared /\ Counters!Value = Value
BY DEF Counters!Runs, Runs, Counters!Prescaled, Prescaled, Counters!Limit, Limit,
       Counters!Elapsed, Elapsed, Counters!GoesOn, GoesOn, Counters!Written, Written,
       Counters!Cleared, Cleared, Counters!Value, Value

-----------------------------------------------------------------------------
(* Arithmetic of counts and cycles.                                        *)
LEMMA ModWithin ==
  ASSUME NEW x \in (-Wrap)..(Wrap - 1)
  PROVE  x % Wrap = IF x < 0 THEN x + Wrap ELSE x
OBVIOUS

LEMMA CountsOf ==
  /\ Counts(0) = 0
  /\ \A m \in Nat : /\ Counts(m) \in Nat
                    /\ m > 0 => Counts(m) > 0 /\ Counts(m - 1) \in {Counts(m), Counts(m) - 1}
                    /\ Counts(m) \in {m \div PerCount, (m \div PerCount) + 1}
  /\ \A k \in Nat : Counts(PerCount * k) = k /\ PerCount * k \in Nat
  /\ \A m, k \in Nat : m <= PerCount * k => Counts(m) <= k
<1>1. Counts(0) = 0  BY DEF Counts
<1>2. ASSUME NEW m \in Nat
      PROVE  /\ Counts(m) \in Nat
             /\ m > 0 => Counts(m) > 0 /\ Counts(m - 1) \in {Counts(m), Counts(m) - 1}
             /\ Counts(m) \in {m \div PerCount, (m \div PerCount) + 1}
  BY DEF Counts
<1>3. ASSUME NEW k \in Nat PROVE Counts(PerCount * k) = k /\ PerCount * k \in Nat
  BY DEF Counts
<1>4. ASSUME NEW m \in Nat, NEW k \in Nat, m <= PerCount * k PROVE Counts(m) <= k
  <2>1. PICK q \in Nat : q = Counts(m)  BY <1>2
  <2>2. PerCount * q <= m + PerCount - 1  BY <2>1 DEF Counts
  <2>3. PerCount * q < PerCount * (k + 1)  BY <1>4, <2>2
  <2> QED  BY <2>1, <2>3
<1> QED  BY <1>1, <1>2, <1>3, <1>4

LEMMA TurnNat == Turn \in Nat /\ Turn >= PerCount /\ Wrap \in Nat /\ Wrap > 0
BY DEF Turn

LEMMA LimitValue == ASSUME NEW r \in Registers PROVE Limit(r) \in Value
BY DEF Registers, Limit

(* A timer armed anew with a count counts from it.                         *)
LEMMA RearmedCounts ==
  ASSUME NEW r \in Registers, NEW n \in Value
  PROVE  /\ Rearmed(r, n) \in -1..Turn
         /\ Runs(r) => Rearmed(r, n) > 0
         /\ CountOf(r, n, Rearmed(r, n)) = n
<1> DEFINE diff == Limit(r) - n
           k == IF diff <= 0 THEN diff + Wrap ELSE diff
<1>1. Limit(r) \in Value  BY LimitValue
<1>2. k \in 1..Wrap /\ (Limit(r) - k) \in (-Wrap)..(Wrap - 1)
      /\ (Limit(r) - k = n \/ Limit(r) - k + Wrap = n)
  BY <1>1 DEF Value
<1>3. Rearmed(r, n) = IF r.en /\ r.src # "pin" THEN PerCount * k ELSE Never
  BY DEF Rearmed
<1> HIDE DEF k
<1>4. PerCount * k \in 1..Turn
  BY <1>2 DEF Turn
<1>5. Counts(PerCount * k) = k
  BY <1>2, CountsOf
<1>6. (Limit(r) - k) % Wrap = n
  BY <1>2, ModWithin DEF Value
<1>7. Rearmed(r, n) \in -1..Turn /\ (Runs(r) => Rearmed(r, n) = PerCount * k)
  BY <1>3, <1>4, TurnNat DEF Never, Runs
<1> QED  BY <1>4, <1>5, <1>6, <1>7 DEF CountOf

(* What internal_timer_sync works out is a count, and but for the last one *)
(* before the limit the one there is or, if the tick is under way, the     *)
(* next.                                                                   *)
LEMMA SyncedCounts ==
  ASSUME TimersOK, NEW t \in Clock
  PROVE  /\ Synced(t) \in Value
         /\ ~LastCount(t) => Synced(t) \in Counters!Found(t)
<1>1. reg[t] \in Registers /\ count[t] \in Value /\ rem[t] \in -1..Turn
  BY DEF TimersOK
<1>2. TrueCount[t] = CountOf(reg[t], count[t], rem[t])
  BY Mapping
<1>3. CASE ~(Runs(reg[t]) /\ Armed(t))
  BY <1>1, <1>2, <1>3 DEF Synced, Counters!Found, CountOf, Armed
<1>4. CASE Runs(reg[t]) /\ Armed(t)
  <2> DEFINE L == Limit(reg[t])
             m == rem[t]
             q == m \div PerCount
             c == Counts(m)
  <2>1. L \in Value  BY <1>1, LimitValue
  <2>2. m \in Nat /\ m <= PerCount * Wrap
    BY <1>1, <1>4, TurnNat DEF Armed, Never, Turn
  <2>3. q \in 0..Wrap /\ c \in 0..Wrap /\ c \in {q, q + 1}
    <3>1. c \in Nat /\ c \in {q, q + 1} /\ c <= Wrap
      BY <2>2, CountsOf, TurnNat
    <3>2. q \in Nat  BY <2>2
    <3> QED  BY <3>1, <3>2, TurnNat
  <2>4. Synced(t) = (L - q) % Wrap /\ TrueCount[t] = (L - c) % Wrap
    BY <1>2, <1>4 DEF Synced, CountOf, Armed
  <2> HIDE DEF L, q, c, m
  <2>5. Synced(t) \in Value
    <3>1. L - q \in (-Wrap)..(Wrap - 1)  BY <2>1, <2>3, TurnNat DEF Value
    <3> QED  BY <3>1, <2>4, ModWithin, TurnNat DEF Value
  <2>6. ASSUME ~LastCount(t) PROVE q > 0
    <3>1. m >= PerCount  BY <2>2, <2>6, <1>4 DEF LastCount, m
    <3> QED  BY <2>2, <3>1 DEF q
  <2>7. ASSUME ~LastCount(t), c = q + 1
        PROVE  Synced(t) = Counters!Ticked(TrueCount[t]) /\ Synced(t) # L
    <3>1. q \in 1..(Wrap - 1)  BY <2>3, <2>6, <2>7, TurnNat
    <3>2. L - q \in (-Wrap)..(Wrap - 1) /\ L - c \in (-Wrap)..(Wrap - 1)
      BY <2>1, <2>7, <3>1, TurnNat DEF Value
    <3>3. /\ Synced(t) = IF L - q < 0 THEN L - q + Wrap ELSE L - q
          /\ TrueCount[t] = IF L - c < 0 THEN L - c + Wrap ELSE L - c
      BY <2>4, <3>2, ModWithin
    <3>4. Synced(t) # L  BY <2>1, <3>1, <3>3 DEF Value
    <3>5. (TrueCount[t] + 1) % Wrap = Synced(t)
      <4>1. CASE L - q < 0
        BY <4>1, <2>1, <2>7, <3>1, <3>3, ModWithin, TurnNat DEF Value
      <4>2. CASE L - q = 0
        <5>1. TrueCount[t] + 1 = Wrap  BY <4>2, <2>1, <2>7, <3>1, <3>3 DEF Value
        <5>2. Wrap % Wrap = 0  BY TurnNat
        <5>3. Synced(t) = 0  BY <4>2, <3>3, <2>1, <3>1 DEF Value
        <5> QED  BY <5>1, <5>2, <5>3
      <4>3. CASE L - q > 0
        BY <4>3, <2>1, <2>7, <3>1, <3>3, ModWithin, TurnNat DEF Value
      <4> QED  BY <4>1, <4>2, <4>3, <2>1, <3>1 DEF Value
    <3> QED  BY <3>4, <3>5 DEF Counters!Ticked
  <2>8. ASSUME ~LastCount(t) PROVE Synced(t) \in Counters!Found(t)
    <3>1. CASE c = q  BY <3>1, <2>4 DEF Counters!Found
    <3>2. CASE c = q + 1
      <4>1. Synced(t) = Counters!Ticked(TrueCount[t]) /\ Synced(t) # L
        BY <2>7, <2>8, <3>2
      <4> QED  BY <1>4, <4>1, SameRegisters DEF Counters!Found, L
    <3> QED  BY <2>3, <3>1, <3>2
  <2> QED  BY <2>5, <2>8
<1> QED  BY <1>3, <1>4
-----------------------------------------------------------------------------
(* A register of the timer t, and with it its count, are written.          *)
LEMMA UpdateWrites ==
  ASSUME TimersOK, NEW t \in Clock, NEW r \in Registers, NEW n \in Value,
         t = 2 => r.src = "clock",
         t \notin Due, Updates(t, r, n), unspecified' \in BOOLEAN
  PROVE  TimersOK' /\ Counters!Writes(t, r, n)
<1>1. /\ reg' = [reg EXCEPT ![t] = r]
      /\ count' = [count EXCEPT ![t] = n]
      /\ rem' = [rem EXCEPT ![t] = Rearmed(r, n)]
      /\ status' = status
  BY DEF Updates
<1>2. TimersOK'
  BY <1>1, RearmedCounts DEF TimersOK
<1>3. TrueCount' = [TrueCount EXCEPT ![t] = n]
  <2>1. ASSUME NEW u \in Clock
        PROVE  CountOf(reg'[u], count'[u], rem'[u]) = IF u = t THEN n ELSE TrueCount[u]
    <3>1. CASE u = t
      BY <1>1, <3>1, RearmedCounts DEF TimersOK
    <3>2. CASE u # t
      BY <1>1, <3>2, Mapping DEF TimersOK
    <3> QED  BY <3>1, <3>2
  <2>2. TrueCount' = [u \in Clock |-> CountOf(reg'[u], count'[u], rem'[u])]
    BY Mapping
  <2> QED  BY <2>1, <2>2, Mapping
<1>4. Due' = Due
  BY <1>1, RearmedCounts DEF TimersOK, Due
<1> QED
  BY <1>1, <1>2, <1>3, <1>4, SameRegisters DEF Counters!Writes, Due

(* ... or the register alone, where that changes neither what is counted   *)
(* nor how far it is.                                                      *)
LEMMA RegisterWrites ==
  ASSUME TimersOK, NEW t \in Clock, NEW r \in Registers,
         t = 2 => r.src = "clock",
         Armed(t) => (Runs(r) <=> Runs(reg[t])) /\ (Runs(r) => Limit(r) = Limit(reg[t])),
         reg' = [reg EXCEPT ![t] = r], UNCHANGED <<count, rem, status>>,
         unspecified' \in BOOLEAN
  PROVE  TimersOK' /\ Counters!Writes(t, r, TrueCount[t])
<1>1. TimersOK'  BY DEF TimersOK
<1>2. TrueCount' = [TrueCount EXCEPT ![t] = TrueCount[t]]
  <2>1. ASSUME NEW u \in Clock
        PROVE  CountOf(reg'[u], count'[u], rem'[u]) = TrueCount[u]
    <3>1. CASE u = t  BY <3>1, Mapping DEF TimersOK, CountOf, Armed
    <3>2. CASE u # t  BY <3>2, Mapping DEF TimersOK
    <3> QED  BY <3>1, <3>2
  <2>2. TrueCount' = [u \in Clock |-> CountOf(reg'[u], count'[u], rem'[u])]
    BY Mapping
  <2> QED  BY <2>1, <2>2, Mapping
<1>3. Due' = Due
  BY DEF TimersOK, Due, Armed, Never
<1>4. t \in Due => Runs(r) /\ Limit(r) = Limit(reg[t])
  BY DEF Due, Armed, Never
<1> QED
  BY <1>1, <1>2, <1>3, <1>4, SameRegisters DEF Counters!Writes, Due

-----------------------------------------------------------------------------
(* The firmware reads and writes the registers of the timer t.             *)
LEMMA WrittenRegisters ==
  ASSUME TimersOK, NEW t \in Clock
  PROVE  /\ reg[t] \in Registers /\ (t = 2 => reg[t].src = "clock")
         /\ \A m \in Maxima : [reg[t] EXCEPT !.maxA = m] \in Registers
         /\ \A m \in Maxima : [reg[t] EXCEPT !.maxB = m] \in Registers
         /\ \A c \in Controls[t] : /\ Written(reg[t], c) \in Registers
                                   /\ t = 2 => Written(reg[t], c).src = "clock"
<1>1. reg[t] \in Registers /\ (t = 2 => reg[t].src = "clock")  BY DEF TimersOK
<1>2. \A c \in Controls[t] : c \in Control /\ (t = 2 => c.src = "clock")
  OBVIOUS
<1>3. \A m \in Maxima : [reg[t] EXCEPT !.maxA = m] \in Registers
  BY <1>1 DEF Registers
<1>4. \A m \in Maxima : [reg[t] EXCEPT !.maxB = m] \in Registers
  BY <1>1 DEF Registers
<1>5. ASSUME NEW c \in Controls[t]
      PROVE  /\ Written(reg[t], c) \in Registers
             /\ t = 2 => Written(reg[t], c).src = "clock"
  BY <1>1, <1>2 DEF Registers, Written, Control
<1> QED  BY <1>1, <1>3, <1>4, <1>5

LEMMA ReadCountStep ==
  ASSUME TimersOK, NEW t \in Clock, ReadCount(t)
  PROVE  TimersOK' /\ UNCHANGED Counters!hardware
<1>1. Synced(t) \in Value  BY SyncedCounts
<1>2. TimersOK'  BY <1>1 DEF TimersOK, ReadCount
<1>3. \A u \in Clock : CountOf(reg'[u], count'[u], rem'[u]) = CountOf(reg[u], count[u], rem[u])
  BY DEF TimersOK, ReadCount, CountOf, Synced, Armed
<1>4. Due' = Due  BY DEF ReadCount, Due
<1> QED  BY <1>2, <1>3, <1>4, Mapping DEF ReadCount

(* What the count of the timer t is when it is not worked out.             *)
LEMMA CountKept ==
  ASSUME NEW t \in Clock, ~Runs(reg[t])
  PROVE  TrueCount[t] = count[t] /\ t \notin Due /\ Synced(t) = count[t] /\ ~LastCount(t)
BY Mapping DEF CountOf, Due, Synced, LastCount

LEMMA WriteCountStep ==
  ASSUME TimersOK, NEW t \in Clock, WriteCount(t), ~unspecified'
  PROVE  TimersOK' /\ unspecified' = unspecified /\ Counters!Write(t)
<1>1. PICK n \in Value :
        IF reg[t].en
          THEN /\ Updates(t, reg[t], n)
               /\ unspecified' = (unspecified \/ (Runs(reg[t]) /\ rem[t] = 0))
          ELSE /\ count' = [count EXCEPT ![t] = n]
               /\ UNCHANGED <<reg, rem, status, unspecified>>
  BY DEF WriteCount
<1>2. reg[t] \in Registers /\ (t = 2 => reg[t].src = "clock")  BY DEF TimersOK
<1>3. CASE reg[t].en
  <2>1. t \notin Due /\ unspecified' = unspecified
    BY <1>1, <1>3 DEF Due, TimersOK
  <2>2. TimersOK' /\ Counters!Writes(t, reg[t], n)
    BY <1>1, <1>2, <1>3, <2>1, UpdateWrites DEF TimersOK
  <2> QED  BY <2>1, <2>2, SameRegisters DEF Counters!Write
<1>4. CASE ~reg[t].en
  <2>1. ~Runs(reg[t])  BY <1>4 DEF Runs
  <2>2. TimersOK'  BY <1>1, <1>4 DEF TimersOK
  <2>3. TrueCount' = [TrueCount EXCEPT ![t] = n]
    <3>1. \A u \in Clock : CountOf(reg'[u], count'[u], rem'[u])
                             = IF u = t THEN n ELSE CountOf(reg[u], count[u], rem[u])
      BY <1>1, <1>4, <2>1 DEF TimersOK, CountOf
    <3> QED  BY <3>1, Mapping
  <2>4. Due' = Due /\ t \notin Due  BY <1>1, <1>4, <2>1 DEF Due
  <2>5. reg' = [reg EXCEPT ![t] = reg[t]]  BY <1>1, <1>4 DEF TimersOK
  <2>6. Counters!Writes(t, reg[t], n)
    BY <1>1, <1>4, <2>3, <2>4, <2>5 DEF Counters!Writes, Due
  <2> QED  BY <1>1, <1>4, <2>2, <2>6, SameRegisters DEF Counters!Write
<1> QED  BY <1>3, <1>4

(* A maximum, or a control word: the timer finds the count as it is, or as *)
(* the tick under way leaves it.                                           *)
LEMMA WriteMaxStep ==
  ASSUME TimersOK, NEW t \in Clock, NEW r \in Registers,
         r.src = reg[t].src, r.en = reg[t].en, WriteMax(t, r), ~unspecified'
  PROVE  /\ TimersOK' /\ unspecified' = unspecified
         /\ \E n \in Counters!Found(t) : Counters!Writes(t, r, n)
<1>1. t = 2 => r.src = "clock"  BY DEF TimersOK
<1>2. CASE reg[t].en
  <2>1. /\ Updates(t, r, Synced(t)) /\ ~LastCount(t) /\ unspecified' = unspecified
    BY <1>2 DEF WriteMax, TimersOK
  <2>2. t \notin Due
    BY <2>1 DEF Due, LastCount, Armed, Never
  <2>3. Synced(t) \in Value /\ Synced(t) \in Counters!Found(t)
    BY <2>1, SyncedCounts
  <2> QED  BY <1>1, <2>1, <2>2, <2>3, UpdateWrites DEF TimersOK
<1>3. CASE ~reg[t].en
  <2>1. reg' = [reg EXCEPT ![t] = r] /\ UNCHANGED <<count, rem, status, unspecified>>
    BY <1>3 DEF WriteMax
  <2>2. ~Runs(reg[t]) /\ ~Runs(r)  BY <1>3 DEF Runs
  <2>3. TimersOK' /\ Counters!Writes(t, r, TrueCount[t])
    BY <1>1, <2>1, <2>2, RegisterWrites DEF TimersOK
  <2> QED  BY <2>1, <2>3 DEF Counters!Found
<1> QED  BY <1>2, <1>3

LEMMA WriteControlStep ==
  ASSUME TimersOK, NEW t \in Clock, WriteControl(t), ~unspecified'
  PROVE  TimersOK' /\ unspecified' = unspecified /\ Counters!Write(t)
<1> DEFINE r(c)      == Written(reg[t], c)
           off(c)    == reg[t].en /\ ~r(c).en
           on(c)     == ~reg[t].en /\ r(c).en /\ r(c).src = "clock"
           forced(c) == reg[t].en = r(c).en /\ reg[t].int # r(c).int
<1>1. PICK c \in Controls[t] :
        IF off(c) \/ on(c) \/ forced(c)
          THEN /\ Updates(t, r(c), IF on(c) THEN count[t] ELSE Synced(t))
               /\ unspecified' = (unspecified \/ (~on(c) /\ LastCount(t)))
          ELSE /\ reg' = [reg EXCEPT ![t] = r(c)]
               /\ unspecified' = (unspecified \/ Misarmed(t, r(c)))
               /\ UNCHANGED <<count, rem, status>>
  BY DEF WriteControl
<1>2. r(c) \in Registers /\ (t = 2 => r(c).src = "clock")  BY WrittenRegisters
<1>3. ~unspecified /\ unspecified' = unspecified  BY <1>1 DEF TimersOK
<1> SUFFICES TimersOK' /\ \E n \in Counters!Found(t) : Counters!Writes(t, r(c), n)
  BY <1>3, SameRegisters DEF Counters!Write
<1>4. TrueCount[t] \in Counters!Found(t)  BY DEF Counters!Found
<1>5. CASE on(c)
  <2>1. Updates(t, r(c), count[t])  BY <1>1, <1>5
  <2>2. ~Runs(reg[t])  BY <1>5 DEF Runs
  <2>3. TrueCount[t] = count[t] /\ t \notin Due /\ count[t] \in Value
    BY <2>2, CountKept DEF TimersOK
  <2> QED  BY <1>2, <1>3, <1>4, <2>1, <2>3, UpdateWrites DEF TimersOK
<1>6. CASE ~on(c) /\ (off(c) \/ forced(c))
  <2>1. Updates(t, r(c), Synced(t)) /\ ~LastCount(t)  BY <1>1, <1>3, <1>6
  <2>2. t \notin Due  BY <2>1 DEF Due, LastCount, Armed, Never
  <2>3. Synced(t) \in Value /\ Synced(t) \in Counters!Found(t)  BY <2>1, SyncedCounts
  <2> QED  BY <1>2, <1>3, <2>1, <2>2, <2>3, UpdateWrites DEF TimersOK
<1>7. CASE ~(off(c) \/ on(c) \/ forced(c))
  <2>1. /\ reg' = [reg EXCEPT ![t] = r(c)] /\ ~Misarmed(t, r(c))
        /\ UNCHANGED <<count, rem, status>>
    BY <1>1, <1>3, <1>7
  <2> HIDE DEF r
  <2>2. Armed(t) => (Runs(r(c)) <=> Runs(reg[t])) /\ (Runs(r(c)) => Limit(r(c)) = Limit(reg[t]))
    BY <2>1 DEF Misarmed
  <2>3. TimersOK' /\ Counters!Writes(t, r(c), TrueCount[t])
    BY <1>2, <1>3, <2>1, <2>2, RegisterWrites DEF TimersOK
  <2> QED  BY <1>4, <2>3
<1> QED  BY <1>5, <1>6, <1>7

-----------------------------------------------------------------------------
(* A cycle passes: the timers ticked whose whole counts left got fewer.    *)
LEMMA AdvanceStep ==
  ASSUME TimersOK, Advance
  PROVE  TimersOK' /\ unspecified' = unspecified /\ \E S \in SUBSET Clock : Counters!Tick(S)
<1>0. PICK S \in SUBSET Clock :
        S = {t \in Clock : Runs(reg[t]) /\ Armed(t) /\ Counts(rem[t] - 1) # Counts(rem[t])}
  OBVIOUS
<1>1. /\ \A t \in Clock : rem[t] # 0
      /\ rem' = [t \in Clock |-> IF Armed(t) THEN rem[t] - 1 ELSE Never]
      /\ UNCHANGED <<reg, count, status, unspecified>>
  BY DEF Advance
<1>2. TimersOK'
  <2>1. \A t \in Clock : (IF Armed(t) THEN rem[t] - 1 ELSE Never) \in -1..Turn
    BY <1>1, TurnNat DEF TimersOK, Armed, Never
  <2>2. rem' \in [Clock -> -1..Turn]  BY <1>1, <2>1
  <2> QED  BY <1>1, <2>2 DEF TimersOK
<1>3. Due = {}  BY <1>1 DEF Due
<1>4. ASSUME NEW t \in Clock
      PROVE  /\ TrueCount'[t] = IF t \in S THEN Counters!Ticked(TrueCount[t]) ELSE TrueCount[t]
             /\ t \in Due' <=> t \in S /\ TrueCount'[t] = Limit(reg[t])
  <2>1. TrueCount'[t] = CountOf(reg[t], count[t], rem'[t])
        /\ TrueCount[t] = CountOf(reg[t], count[t], rem[t])
    BY <1>1, Mapping
  <2>2. CASE ~(Runs(reg[t]) /\ Armed(t))
    <3>1. rem'[t] = Never \/ ~Runs(reg[t])  BY <1>1, <2>2
    <3>2. TrueCount'[t] = count[t] /\ TrueCount[t] = count[t]
      BY <2>1, <2>2, <3>1 DEF CountOf, Armed
    <3>3. t \notin Due'  BY <1>1, <3>1 DEF Due, Never
    <3> QED  BY <1>0, <2>2, <3>2, <3>3
  <2>3. CASE Runs(reg[t]) /\ Armed(t)
    <3> DEFINE L == Limit(reg[t])
               k == Counts(rem[t])
               j == Counts(rem[t] - 1)
    <3>1. rem[t] \in Nat /\ rem[t] > 0 /\ rem[t] <= PerCount * Wrap /\ rem'[t] = rem[t] - 1
      BY <1>1, <2>3, TurnNat DEF TimersOK, Armed, Never, Turn
    <3>2. L \in Value  BY LimitValue DEF TimersOK
    <3>3. k \in 1..Wrap /\ j \in {k, k - 1} /\ (rem'[t] = 0 <=> j = 0)
      <4>1. k \in Nat /\ k > 0 /\ j \in {k, k - 1} /\ k <= Wrap
        BY <3>1, CountsOf, TurnNat
      <4>2. rem'[t] = 0 <=> j = 0
        <5>1. CASE rem'[t] = 0  BY <5>1, <3>1, CountsOf
        <5>2. CASE rem'[t] > 0
          BY <5>2, <3>1, CountsOf
        <5> QED  BY <3>1, <5>1, <5>2
      <4> QED  BY <4>1, <4>2, TurnNat
    <3>4. TrueCount[t] = (L - k) % Wrap /\ TrueCount'[t] = (L - j) % Wrap
      BY <2>1, <2>3, <3>1 DEF CountOf, Armed, Never
    <3>5. t \in S <=> j # k  BY <1>0, <2>3
    <3>6. t \in Due' <=> j = 0  BY <1>1, <2>3, <3>3 DEF Due
    <3> HIDE DEF L, k, j
    <3>7. CASE j = k
      BY <3>3, <3>4, <3>5, <3>6, <3>7
    <3>8. CASE j = k - 1
      <4>1. L - k \in (-Wrap)..(Wrap - 1) /\ L - j \in (-Wrap)..(Wrap - 1)
        BY <3>2, <3>3, <3>8, TurnNat DEF Value
      <4>2. /\ TrueCount[t] = IF L - k < 0 THEN L - k + Wrap ELSE L - k
            /\ TrueCount'[t] = IF L - j < 0 THEN L - j + Wrap ELSE L - j
        BY <3>4, <4>1, ModWithin
      <4>3. TrueCount'[t] = L <=> j = 0
        BY <3>2, <3>3, <3>8, <4>2, TurnNat DEF Value
      <4>4. (TrueCount[t] + 1) % Wrap = TrueCount'[t]
        <5>1. CASE L - j < 0
          BY <5>1, <3>2, <3>3, <3>8, <4>2, ModWithin, TurnNat DEF Value
        <5>2. CASE L - j = 0
          <6>1. TrueCount[t] + 1 = Wrap /\ TrueCount'[t] = 0
            BY <5>2, <3>2, <3>3, <3>8, <4>2, TurnNat DEF Value
          <6>2. Wrap % Wrap = 0  BY TurnNat
          <6> QED  BY <6>1, <6>2
        <5>3. CASE L - j > 0
          BY <5>3, <3>2, <3>3, <3>8, <4>2, ModWithin, TurnNat DEF Value
        <5> QED  BY <5>1, <5>2, <5>3, <3>2, <3>3 DEF Value
      <4>5. t \in S  BY <3>3, <3>5, <3>8
      <4> QED  BY <3>6, <4>3, <4>4, <4>5 DEF Counters!Ticked, L
    <3> QED  BY <3>3, <3>7, <3>8
  <2> QED  BY <2>2, <2>3
<1>5. S \subseteq {t \in Clock \ Due : Counters!Runs(reg[t])}
  BY <1>0, <1>3, SameRegisters
<1>6. TrueCount' = [t \in Clock |-> IF t \in S THEN Counters!Ticked(TrueCount[t]) ELSE TrueCount[t]]
  BY <1>4, Mapping
<1>7. Due' = Due \cup {t \in S : TrueCount'[t] = Counters!Limit(reg[t])}
  <2>1. Due' \subseteq Clock /\ S \subseteq Clock  BY DEF Due
  <2> QED  BY <1>3, <1>4, <2>1, SameRegisters
<1>8. Counters!Tick(S)
  BY <1>1, <1>5, <1>6, <1>7 DEF Counters!Tick, Due
<1> QED  BY <1>1, <1>2, <1>8

(* The limit: timer 2 ticks those it clocks, and what reached its limit    *)
(* starts over or stops.                                                   *)
LEMMA TimerElapsedStep ==
  ASSUME TimersOK, NEW t \in Clock, TimerElapsed(t), ~unspecified'
  PROVE  TimersOK' /\ unspecified' = unspecified /\ Counters!Elapse(t)
<1>1. /\ rem[t] = 0
      /\ reg' = [u \in Clock |-> IF u \in Finished(t) THEN Elapsed(reg[u]) ELSE reg[u]]
      /\ count' = [u \in Clock |-> IF u \in Finished(t) THEN 0
                                   ELSE IF u \in Fed(t) THEN Incremented(u) ELSE count[u]]
      /\ rem' = [u \in Clock |-> IF u \in Finished(t) THEN Restarted(u) ELSE rem[u]]
      /\ status' = status \cup {u \in Finished(t) : reg[u].int}
      /\ Runs(reg[t]) /\ unspecified' = unspecified
  BY DEF TimerElapsed, TimersOK
<1>2. t \in Finished(t) /\ Finished(t) \subseteq Clock /\ Fed(t) \subseteq Clock
  BY DEF Finished, Fed
<1>3. \A u \in Fed(t) : u # t /\ ~Runs(reg[u]) /\ Prescaled(reg[u])
  BY DEF Fed, Runs, Prescaled
<1>4. Fed(t) = IF t = 2 THEN {u \in Clock : Prescaled(reg[u])} ELSE {}
  BY DEF Fed, Prescaled, TimersOK
<1>5. ASSUME NEW u \in Clock
      PROVE  /\ Elapsed(reg[u]) \in Registers /\ Elapsed(reg[u]).src = reg[u].src
             /\ Prescaled(reg[u]) => ~Runs(Elapsed(reg[u]))
             /\ Incremented(u) \in Value
             /\ Restarted(u) \in -1..Turn
             /\ Runs(Elapsed(reg[u])) => Restarted(u) = Full(Limit(Elapsed(reg[u])))
             /\ rem[u] = 0 /\ ~Runs(Elapsed(reg[u])) => Restarted(u) = Never
  <2>1. /\ Elapsed(reg[u]) \in Registers /\ Elapsed(reg[u]).src = reg[u].src
    BY DEF Registers, Elapsed, GoesOn, TimersOK
  <2>2. Incremented(u) \in Value  BY TurnNat DEF Incremented, TimersOK, Value
  <2>3. Full(Limit(Elapsed(reg[u]))) \in 0..Turn
    BY <2>1, LimitValue, TurnNat DEF Full, Value, Turn
  <2>4. rem[u] \in -1..Turn  BY DEF TimersOK
  <2> QED  BY <2>1, <2>2, <2>3, <2>4, TurnNat DEF Restarted, Never, Runs, Prescaled
<1>6. ASSUME NEW r \in Registers
      PROVE  Full(Limit(r)) > 0 /\ Full(Limit(r)) # Never /\ CountOf(r, 0, Full(Limit(r))) = 0
  <2> DEFINE k == IF Limit(r) = 0 THEN Wrap ELSE Limit(r)
  <2>1. k \in 1..Wrap /\ (Limit(r) = k \/ (Limit(r) = 0 /\ k = Wrap))
    BY LimitValue, TurnNat DEF Value
  <2>2. Full(Limit(r)) = PerCount * k  BY DEF Full
  <2> HIDE DEF k
  <2>3. PerCount * k > 0 /\ Counts(PerCount * k) = k  BY <2>1, CountsOf
  <2>4. Limit(r) - k \in (-Wrap)..(Wrap - 1) /\ (Limit(r) - k = 0 \/ Limit(r) - k = -Wrap)
    BY <2>1, TurnNat
  <2>5. (Limit(r) - k) % Wrap = 0  BY <2>4, ModWithin, TurnNat
  <2> QED  BY <2>2, <2>3, <2>5 DEF CountOf, Never
<1>7. TimersOK'
  BY <1>1, <1>2, <1>5, TurnNat DEF TimersOK, Value
<1>8. \A u \in Fed(t) : TrueCount[u] = count[u] /\ u \notin Due
  BY <1>2, <1>3, CountKept
<1>9. ASSUME NEW u \in Clock
      PROVE  /\ TrueCount'[u] = IF u \in Finished(t) THEN 0
                                ELSE IF u \in Fed(t) THEN Incremented(u) ELSE TrueCount[u]
             /\ u \in Due' <=> u \in Due \ {t}
  <2>1. TrueCount'[u] = CountOf(reg'[u], count'[u], rem'[u])
        /\ TrueCount[u] = CountOf(reg[u], count[u], rem[u])
    BY Mapping
  <2>2. CASE u \in Finished(t)
    <3>1. reg'[u] = Elapsed(reg[u]) /\ count'[u] = 0 /\ rem'[u] = Restarted(u)
      BY <1>1, <2>2
    <3>2. CASE Runs(Elapsed(reg[u]))
      <4>1. rem'[u] = Full(Limit(Elapsed(reg[u])))  BY <1>5, <3>1, <3>2
      <4>2. u = t  BY <1>2, <1>3, <1>5, <2>2, <3>2 DEF Finished
      <4> QED  BY <1>5, <1>6, <2>1, <2>2, <3>1, <4>1, <4>2 DEF Due
    <3>3. CASE ~Runs(Elapsed(reg[u]))
      <4>1. u = t \/ u \notin Due  BY <1>2, <1>8, <2>2 DEF Finished
      <4> QED  BY <2>1, <2>2, <3>1, <3>3, <4>1 DEF CountOf, Due
    <3> QED  BY <3>2, <3>3
  <2>3. CASE u \in Fed(t) /\ u \notin Finished(t)
    <3>1. reg'[u] = reg[u] /\ count'[u] = Incremented(u) /\ rem'[u] = rem[u] /\ u # t
      BY <1>1, <1>2, <2>3
    <3> QED  BY <1>3, <2>1, <2>3, <3>1 DEF CountOf, Due
  <2>4. CASE u \notin Fed(t) /\ u \notin Finished(t)
    <3>1. reg'[u] = reg[u] /\ count'[u] = count[u] /\ rem'[u] = rem[u] /\ u # t
      BY <1>1, <1>2, <2>4
    <3> QED  BY <2>1, <2>4, <3>1 DEF Due
  <2> QED  BY <2>2, <2>3, <2>4
<1>10. Due' = Due \ {t}  BY <1>9 DEF Due
<1>11. Finished(t) = {t} \cup {u \in Fed(t) : Counters!Ticked(TrueCount[u]) = Limit(reg[u])}
  BY <1>8 DEF Finished, Incremented, Counters!Ticked
<1>12. TrueCount' = [u \in Clock |-> IF u \in Finished(t) THEN 0
                       ELSE IF u \in Fed(t) THEN Counters!Ticked(TrueCount[u]) ELSE TrueCount[u]]
  BY <1>8, <1>9, Mapping DEF Incremented, Counters!Ticked
<1>13. t \in Due  BY <1>1 DEF Due
<1>14. Counters!Elapse(t)
  <2> DEFINE fed == IF t = 2 THEN {u \in Clock : Counters!Prescaled(reg[u])} ELSE {}
             done == {t} \cup {u \in fed : Counters!Ticked(TrueCount[u]) = Counters!Limit(reg[u])}
  <2>1. fed = Fed(t)  BY <1>4, SameRegisters
  <2>2. done = Finished(t)  BY <1>11, <2>1, SameRegisters
  <2> HIDE DEF fed, done
  <2>3. /\ t \in Due /\ Due' = Due \ {t}
        /\ reg' = [u \in Clock |-> IF u \in done THEN Counters!Elapsed(reg[u]) ELSE reg[u]]
        /\ TrueCount' = [u \in Clock |-> IF u \in done THEN 0
                           ELSE IF u \in fed THEN Counters!Ticked(TrueCount[u]) ELSE TrueCount[u]]
        /\ status' = status \cup {u \in done : reg[u].int}
    BY <1>1, <1>10, <1>12, <1>13, <2>1, <2>2, SameRegisters
  <2> QED  BY <2>3 DEF Counters!Elapse, fed, done, Due
<1> QED  BY <1>1, <1>7, <1>14

LEMMA ResetTimersStep ==
  ASSUME TimersOK, ResetTimers
  PROVE  TimersOK' /\ unspecified' = unspecified /\ Counters!Reset
<1>1. Cleared \in Registers /\ ~Runs(Cleared) /\ Cleared.src = "clock" /\ 0 \in Value
  BY TurnNat DEF Cleared, Registers, Sources, Value, Runs
<1>2. TimersOK'  BY <1>1 DEF TimersOK, ResetTimers
<1>3. TrueCount' = [t \in Clock |-> 0]
  BY <1>1, Mapping DEF ResetTimers, CountOf
<1>4. Due' = {}  BY <1>1 DEF ResetTimers, Due
<1> QED  BY <1>2, <1>3, <1>4, SameRegisters DEF ResetTimers, Counters!Reset, Due

-----------------------------------------------------------------------------
(* i186.cpp:1271-1527.  Every register access, callback and cycle is a     *)
(* step of the hardware's counters or none, or has been told to leave what *)
(* they do open.                                                           *)
LEMMA HardwareStep ==
  ASSUME TimersOK, TimersNext, ~unspecified'
  PROVE  /\ TimersOK' /\ unspecified' = unspecified
         /\ Counters!HardwareNext \/ UNCHANGED Counters!hardware
<1>1. CASE Advance
  BY <1>1, AdvanceStep DEF Counters!HardwareNext
<1>2. CASE Acknowledged
  <2>1. TimersOK' /\ TrueCount' = TrueCount /\ Due' = Due
    BY <1>2 DEF Acknowledged, TimersOK, TrueCount, Left, Armed, Due
  <2>2. Counters!Acknowledge
    BY <1>2, <2>1 DEF Acknowledged, Counters!Acknowledge, Due
  <2> QED  BY <1>2, <2>1, <2>2 DEF Acknowledged, Counters!HardwareNext
<1>3. CASE ResetTimers
  BY <1>3, ResetTimersStep DEF Counters!HardwareNext
<1>4. ASSUME NEW t \in Clock, TimerElapsed(t)
      PROVE  TimersOK' /\ unspecified' = unspecified /\ Counters!HardwareNext
  BY <1>4, TimerElapsedStep DEF Counters!HardwareNext
<1>5. ASSUME NEW t \in Clock, ReadCount(t)
      PROVE  TimersOK' /\ unspecified' = unspecified /\ UNCHANGED Counters!hardware
  BY <1>5, ReadCountStep DEF ReadCount
<1>6. ASSUME NEW t \in Clock, WriteCount(t)
      PROVE  TimersOK' /\ unspecified' = unspecified /\ Counters!HardwareNext
  BY <1>6, WriteCountStep DEF Counters!HardwareNext
<1>7. ASSUME NEW t \in Clock, WriteMaxA(t) \/ WriteMaxB(t)
      PROVE  TimersOK' /\ unspecified' = unspecified /\ Counters!HardwareNext
  <2>1. CASE WriteMaxA(t)
    <3>1. PICK m \in Maxima : WriteMax(t, [reg[t] EXCEPT !.maxA = m])
      BY <2>1 DEF WriteMaxA
    <3> DEFINE r == [reg[t] EXCEPT !.maxA = m]
    <3>2. r \in Registers /\ r.src = reg[t].src /\ r.en = reg[t].en
      BY WrittenRegisters DEF Registers
    <3>3. WriteMax(t, r)  BY <3>1
    <3> HIDE DEF r
    <3>4. /\ TimersOK' /\ unspecified' = unspecified
          /\ \E n \in Counters!Found(t) : Counters!Writes(t, r, n)
      BY <3>2, <3>3, WriteMaxStep
    <3>5. Counters!Write(t)  BY <3>4 DEF Counters!Write, r
    <3> QED  BY <3>4, <3>5 DEF Counters!HardwareNext
  <2>2. CASE WriteMaxB(t)
    <3>1. PICK m \in Maxima : WriteMax(t, [reg[t] EXCEPT !.maxB = m])
      BY <2>2 DEF WriteMaxB
    <3> DEFINE r == [reg[t] EXCEPT !.maxB = m]
    <3>2. r \in Registers /\ r.src = reg[t].src /\ r.en = reg[t].en
      BY WrittenRegisters DEF Registers
    <3>3. WriteMax(t, r)  BY <3>1
    <3> HIDE DEF r
    <3>4. /\ TimersOK' /\ unspecified' = unspecified
          /\ \E n \in Counters!Found(t) : Counters!Writes(t, r, n)
      BY <3>2, <3>3, WriteMaxStep
    <3>5. Counters!Write(t)  BY <3>4 DEF Counters!Write, r
    <3> QED  BY <3>4, <3>5 DEF Counters!HardwareNext
  <2> QED  BY <1>7, <2>1, <2>2
<1>8. ASSUME NEW t \in Clock, WriteControl(t)
      PROVE  TimersOK' /\ unspecified' = unspecified /\ Counters!HardwareNext
  BY <1>8, WriteControlStep DEF Counters!HardwareNext
<1> QED
  BY <1>1, <1>2, <1>3, <1>4, <1>5, <1>6, <1>7, <1>8 DEF TimersNext

(* What is once left open stays so.                                        *)
LEMMA UnspecifiedStays ==
  ASSUME [TimersNext]_timers, unspecified
  PROVE  unspecified'
<1>1. CASE UNCHANGED timers  BY <1>1 DEF timers
<1>2. CASE TimersNext
  <2>1. ASSUME NEW t \in Clock, NEW r, WriteMax(t, r) PROVE unspecified'
    BY <2>1 DEF WriteMax
  <2>2. ASSUME NEW t \in Clock, WriteControl(t) PROVE unspecified'
    BY <2>2 DEF WriteControl
  <2>3. CASE Advance \/ Acknowledged \/ ResetTimers
    BY <2>3 DEF Advance, Acknowledged, ResetTimers
  <2>4. ASSUME NEW t \in Clock, TimerElapsed(t) \/ ReadCount(t) \/ WriteCount(t)
        PROVE unspecified'
    BY <2>4 DEF TimerElapsed, ReadCount, WriteCount
  <2> QED  BY <1>2, <2>1, <2>2, <2>3, <2>4 DEF TimersNext, WriteMaxA, WriteMaxB
<1> QED  BY <1>1, <1>2

(* i186.cpp:1271-1527.  The whole of the timers implements the hardware's  *)
(* counters: whatever is read and written meanwhile, each counts, elapses  *)
(* and requests its interrupt at the ticks the hardware would, unless the  *)
(* firmware misarmed one or wrote to it in its last count.                 *)
THEOREM HardwareTimers == TimersSpec => CountsAsHardware
<1> DEFINE Inv == unspecified \/ TimersOK
           Kept == [unspecified' \/ (Counters!HardwareNext /\ UNCHANGED unspecified)]_(
                      Counters!hardware)
<1>1. TimersInit => TimersOK /\ Counters!HardwareInit
  <2> SUFFICES ASSUME TimersInit PROVE TimersOK /\ Counters!HardwareInit
    OBVIOUS
  <2>1. Cleared \in Registers /\ ~Runs(Cleared) /\ Cleared.src = "clock" /\ 0 \in Value
    BY TurnNat DEF Cleared, Registers, Sources, Value, Runs
  <2>2. rem \in [Clock -> -1..Turn]  BY TurnNat DEF TimersInit, Never
  <2>3. TimersOK  BY <2>1, <2>2 DEF TimersInit, TimersOK
  <2>4. TrueCount = [t \in Clock |-> 0] /\ Due = {}
    BY <2>1 DEF TimersInit, TrueCount, Due
  <2> QED  BY <2>3, <2>4, SameRegisters DEF TimersInit, Counters!HardwareInit, Due
<1>2. ASSUME Inv, [TimersNext]_timers PROVE Inv' /\ Kept
  <2>1. CASE unspecified'  BY <2>1
  <2>2. CASE ~unspecified' /\ TimersNext
    <3>1. TimersOK  BY <1>2, <2>2, UnspecifiedStays
    <3> QED  BY <2>2, <3>1, HardwareStep
  <2>3. CASE UNCHANGED timers
    <3>1. Inv'  BY <1>2, <2>3 DEF timers, TimersOK
    <3>2. UNCHANGED Counters!hardware
      BY <2>3 DEF timers, Counters!hardware, TrueCount, Left, Armed
    <3> QED  BY <3>1, <3>2
  <2> QED  BY <1>2, <2>1, <2>2, <2>3
<1> QED  BY <1>1, <1>2, PTL DEF TimersSpec, CountsAsHardware, Counters!HardwareSpec
=============================================================================
