--------------------------- MODULE ResamplerProofs ----------------------------
(***************************************************************************)
(* The output stage for every kernel width, every set of rates, and calls  *)
(* of every size.                                                          *)
(***************************************************************************)
EXTENDS Resampler, TLAPS

USE ResamplerAssumption

Ahead == NextIndex - center
Due == left * step + frac                    \* parts the call still has to go
Most == IF flushed THEN 3 * N ELSE 2 * N + 1

(* Where raw samples end, against what the card made.                      *)
EndInv ==
  /\ center <= NextIndex /\ center <= real + 1
  /\ real <= NextIndex /\ NextIndex <= real + N
  /\ ~flushed => NextIndex = real
  /\ flushed /\ whole => speech = 0 /\ NextIndex = real + N

WindowInv ==
  /\ WindowHeld
  /\ at \in {"host", "fetch"} => center <= base + N

(* Rounds, and that one round fetched enough for the rest of the call.     *)
EnoughInv ==
  /\ round <= IF at \in {"fetch", "process"} THEN 1 ELSE 2
  /\ at = "process" => round > 0
  /\ at = "fetch" /\ left > 0 /\ round > 0 => speech = 0 /\ Ahead < N
  /\ at = "process" /\ speech > 0 => Due <= (Ahead - N) * Den
  /\ at = "flush" => speech = 0 /\ flushed
  /\ Returned /\ left > 0 => speech = 0
  /\ Returned /\ left > 0 /\ whole /\ step < Den => Ahead < N /\ flushed

(* ... and not much more.                                                  *)
LittleInv ==
  ~small =>
    /\ at = "host" \/ (at = "fetch" /\ (round = 0 \/ left = 0)) => Ahead <= Most
    /\ at = "fetch" /\ round = 0 => Den <= left * step
    /\ at = "process" => (Ahead - Most) * Den <= Due
    /\ at = "flush" => (Ahead - 3 * N) * Den <= Due

IInv == TypeOK /\ EndInv /\ WindowInv /\ EnoughInv /\ LittleInv

-----------------------------------------------------------------------------
(* RoundedUp is the least whole number of raw samples not less than n parts. *)
LEMMA RoundsUp ==
  ASSUME NEW n \in Nat
  PROVE  /\ RoundedUp(n) \in Nat
         /\ n <= RoundedUp(n) * Den /\ RoundedUp(n) * Den <= n + Den - 1
BY DEF RoundedUp

LEMMA Typing ==
  ASSUME TypeOK
  PROVE  /\ step \in Nat /\ step > 0 /\ left * step \in Nat /\ Due \in Nat
         /\ Ahead \in Int /\ NextIndex \in Nat /\ Most \in Nat
BY DEF TypeOK, Due, Ahead, NextIndex, Most

(* RawWant fills the window of the whole call, and by one at most exceeds  *)
(* what was there or what it asked for.                                    *)
LEMMA WantEnough ==
  ASSUME TypeOK, center <= NextIndex
  PROVE  /\ RawWant \in Nat \ {0}
         /\ Ahead + RawWant >= RoundedUp(left * step) + 2 * N
         /\ \/ Ahead + RawWant = RoundedUp(left * step) + 2 * N
            \/ RawWant = 1
<1>1. RoundedUp(left * step) \in Nat  BY Typing, RoundsUp
<1>2. AvailableAhead = Ahead /\ Ahead \in Nat
  BY Typing DEF AvailableAhead, Ahead, Max2, TypeOK
<1> QED  BY <1>1, <1>2 DEF RawWant

-----------------------------------------------------------------------------
LEMMA QueueStep ==
  ASSUME IInv, NEW n \in Lengths, Queue(n)
  PROVE  IInv'
<1>1. TypeOK'
  BY DEF IInv, TypeOK, Queue, Min2, resamp, source
<1>2. EndInv'
  BY DEF IInv, TypeOK, EndInv, Queue, NextIndex, Min2, resamp, source
<1>3. WindowInv'
  BY DEF IInv, TypeOK, WindowInv, WindowHeld, Queue, Max2, resamp, source
<1>4. EnoughInv'
  BY DEF IInv, TypeOK, EnoughInv, Returned, Queue, Min2, resamp, source
<1>5. LittleInv'
  BY DEF IInv, TypeOK, LittleInv, Most, Ahead, NextIndex, Queue, resamp, source
<1> QED  BY <1>1, <1>2, <1>3, <1>4, <1>5 DEF IInv

LEMMA SetOutputRateStep ==
  ASSUME IInv, NEW s \in Steps, SetOutputRate(s)
  PROVE  IInv'
<1>1. TypeOK'
  BY DEF IInv, TypeOK, SetOutputRate, Min2, resamp, source
<1>2. EndInv'
  BY DEF IInv, TypeOK, EndInv, SetOutputRate, NextIndex, Min2, resamp, source
<1>3. WindowInv'
  BY DEF IInv, TypeOK, WindowInv, WindowHeld, SetOutputRate, Max2, resamp, source
<1>4. EnoughInv'
  BY DEF IInv, TypeOK, EnoughInv, Returned, SetOutputRate, Min2, resamp, source
<1>5. LittleInv'
  BY DEF IInv, TypeOK, LittleInv, Most, Ahead, NextIndex, SetOutputRate, resamp, source
<1> QED  BY <1>1, <1>2, <1>3, <1>4, <1>5 DEF IInv

LEMMA StopStep ==
  ASSUME IInv, Stop
  PROVE  IInv'
<1>1. TypeOK'
  <2>1. /\ center' \in Nat /\ frac' \in 0..(Den - 1) /\ base' \in Nat /\ size' \in Nat
        /\ asked' \in Nat /\ speech' \in Nat /\ spoken' \in Nat /\ real' \in Nat
    BY DEF Stop
  <2>2. flushed' \in BOOLEAN /\ whole' \in BOOLEAN /\ small' \in BOOLEAN  BY DEF Stop
  <2> QED  BY <2>1, <2>2 DEF IInv, TypeOK, Stop
<1>2. EndInv'
  BY DEF IInv, TypeOK, EndInv, Stop, NextIndex, Min2, resamp, source
<1>3. WindowInv'
  BY DEF IInv, TypeOK, WindowInv, WindowHeld, Stop, Max2, resamp, source
<1>4. EnoughInv'
  BY DEF IInv, TypeOK, EnoughInv, Returned, Stop, Min2, resamp, source
<1>5. LittleInv'
  BY DEF IInv, TypeOK, LittleInv, Most, Ahead, NextIndex, Stop, resamp, source
<1> QED  BY <1>1, <1>2, <1>3, <1>4, <1>5 DEF IInv

LEMMA SynthRawStep ==
  ASSUME IInv, NEW w \in Wants, SynthRaw(w)
  PROVE  IInv'
<1>1. TypeOK'
  BY DEF IInv, TypeOK, SynthRaw, Min2, resamp, source
<1>2. EndInv'
  BY DEF IInv, TypeOK, EndInv, SynthRaw, NextIndex, Min2, resamp, source
<1>3. WindowInv'
  BY DEF IInv, TypeOK, WindowInv, WindowHeld, SynthRaw, Max2, resamp, source
<1>4. EnoughInv'
  BY DEF IInv, TypeOK, EnoughInv, Returned, SynthRaw, Min2, resamp, source
<1>5. LittleInv'
  BY DEF IInv, TypeOK, LittleInv, Most, Ahead, NextIndex, SynthRaw, resamp, source
<1> QED  BY <1>1, <1>2, <1>3, <1>4, <1>5 DEF IInv

LEMMA SynthOutStep ==
  ASSUME IInv, NEW w \in Wants, SynthOut(w)
  PROVE  IInv'
<1>1. TypeOK'
  BY DEF IInv, TypeOK, SynthOut, resamp
<1>2. EndInv'
  BY DEF IInv, TypeOK, EndInv, SynthOut, NextIndex, resamp
<1>3. WindowInv'
  BY DEF IInv, TypeOK, WindowInv, WindowHeld, SynthOut, Max2, resamp
<1>4. EnoughInv'
  BY DEF IInv, TypeOK, EnoughInv, Returned, SynthOut, resamp
<1>5. LittleInv'
  <2>1. ~small' => ~small /\ Den <= left' * step'
    <3>1. left' = w /\ step' = step  BY DEF SynthOut, resamp
    <3>2. ~small' => ~small /\ ~(w * step < Den)  BY Zenon DEF SynthOut
    <3> QED  BY <3>1, <3>2 DEF IInv, TypeOK
  <2>2. at' = "fetch" /\ Ahead' = Ahead /\ Most' = Most /\ (~small => Ahead <= Most)
    BY DEF IInv, LittleInv, Ahead, Most, NextIndex, SynthOut, resamp
  <2> QED  BY <2>1, <2>2 DEF LittleInv
<1> QED  BY <1>1, <1>2, <1>3, <1>4, <1>5 DEF IInv

LEMMA FetchStep ==
  ASSUME IInv, Fetch
  PROVE  IInv'
<1>1. TypeOK /\ center <= NextIndex  BY DEF IInv, EndInv
<1> DEFINE n == Min2(RawWant, speech)
<1>2. /\ n \in Nat \ {0} /\ n <= speech /\ n <= RawWant /\ speech - n \in Nat
      /\ speech - n > 0 => n = RawWant
  BY <1>1, WantEnough DEF Min2, Fetch, TypeOK
<1>3. /\ size' = size + n /\ speech' = speech - n /\ real' = NextIndex + n
      /\ NextIndex' = NextIndex + n /\ Ahead' = Ahead + n /\ Due' = Due
      /\ UNCHANGED <<step, center, frac, base, flushed, asked, left, spoken, whole, small, Most>>
      /\ at = "fetch" /\ at' = "process" /\ left > 0 /\ speech > 0 /\ round' = round + 1
  BY <1>1, <1>2 DEF Fetch, NextIndex, Ahead, Due, Most, TypeOK
<1> HIDE DEF n
<1>4. TypeOK'
  BY <1>1, <1>2, <1>3 DEF TypeOK, NextIndex
<1>5. EndInv'
  BY <1>1, <1>2, <1>3 DEF IInv, EndInv, TypeOK, NextIndex
<1>6. WindowInv'
  BY <1>3 DEF IInv, WindowInv, WindowHeld
<1>7. round = 0
  BY <1>3 DEF IInv, EnoughInv, TypeOK
<1> DEFINE total == RoundedUp(left * step)
<1>8. /\ total \in Nat /\ left * step <= total * Den /\ total * Den <= left * step + Den - 1
      /\ RawWant \in Nat /\ Ahead + RawWant >= total + 2 * N
      /\ Ahead + RawWant = total + 2 * N \/ RawWant = 1
  BY <1>1, Typing, RoundsUp, WantEnough
<1> HIDE DEF total
<1>9. EnoughInv'
  <2>1. ASSUME speech' > 0 PROVE Due <= (Ahead + n - N) * Den
    <3>1. n = RawWant /\ Ahead + n - N >= total + 1
      BY <1>1, <1>2, <1>3, <1>8, <2>1, Typing
    <3>2. (total + 1) * Den <= (Ahead + n - N) * Den
      BY <1>1, <1>2, <1>8, <3>1, Typing
    <3>3. Due <= (total + 1) * Den
      BY <1>1, <1>8 DEF Due, TypeOK
    <3> QED  BY <1>1, <1>2, <1>8, <3>2, <3>3, Typing
  <2>2. speech' > 0 => Due' <= (Ahead' - N) * Den
    BY <1>1, <1>2, <1>3, <2>1, Typing
  <2>3. round' = 1  BY <1>3, <1>7
  <2> QED  BY <1>3, <2>2, <2>3 DEF EnoughInv, Returned
<1>10. LittleInv'
  <2>1. ASSUME ~small PROVE (Ahead + n - Most) * Den <= Due
    <3>1. Ahead <= Most /\ Den <= left * step
      BY <1>3, <1>7, <2>1 DEF IInv, LittleInv
    <3>2. Ahead + n <= total + 2 * N \/ Ahead + n - Most <= 1
      BY <1>1, <1>2, <1>8, <3>1, Typing
    <3>3. CASE Ahead + n - Most <= 1
      BY <1>1, <1>2, <3>1, <3>3, Typing DEF Due, TypeOK
    <3>4. CASE Ahead + n <= total + 2 * N
      <4>1. Ahead + n - Most <= total - 1  BY <1>1, <1>2, <1>8, <3>4, Typing DEF Most
      <4>2. (Ahead + n - Most) * Den <= (total - 1) * Den
        BY <1>1, <1>2, <1>8, <4>1, Typing
      <4>3. (total - 1) * Den <= Due  BY <1>1, <1>8 DEF Due, TypeOK
      <4> QED  BY <1>1, <1>2, <1>8, <4>2, <4>3, Typing
    <3> QED  BY <3>2, <3>3, <3>4
  <2>2. ~small => (Ahead' - Most') * Den <= Due'
    BY <1>1, <1>2, <1>3, <2>1, Typing
  <2> QED  BY <1>3, <2>2 DEF LittleInv
<1> QED  BY <1>4, <1>5, <1>6, <1>9, <1>10 DEF IInv

LEMMA FlushStep ==
  ASSUME IInv, Flush
  PROVE  IInv'
<1>1. /\ Padding \in Nat /\ Padding <= N /\ size' = size + Padding
      /\ Padding = IF flushed THEN 0 ELSE N
      /\ NextIndex' = NextIndex + Padding /\ Ahead' = Ahead + Padding /\ Due' = Due
      /\ UNCHANGED <<step, center, frac, base, asked, left, speech, spoken, real, whole, small>>
      /\ at = "fetch" /\ at' = "flush" /\ speech = 0 /\ left > 0 /\ flushed'
      /\ round' = round + 1
  BY DEF IInv, TypeOK, Flush, Padding, NextIndex, Ahead, Due, source
<1>2. TypeOK'  BY <1>1 DEF IInv, TypeOK
<1>3. EndInv'  BY <1>1 DEF IInv, TypeOK, EndInv, NextIndex
<1>4. WindowInv'  BY <1>1 DEF IInv, TypeOK, WindowInv, WindowHeld
<1>5. EnoughInv'  BY <1>1 DEF IInv, TypeOK, EnoughInv, Returned
<1>6. LittleInv'
  <2>1. ASSUME ~small PROVE (Ahead + Padding - 3 * N) * Den <= Due
    <3>1. CASE round = 0
      <4>1. Ahead + Padding - 3 * N <= 1 /\ Den <= left * step
        BY <1>1, <2>1, <3>1, Typing DEF IInv, LittleInv, Most
      <4> QED  BY <1>1, <4>1, Typing DEF IInv, TypeOK, Due
    <3>2. CASE round > 0
      <4>1. Ahead + Padding - 3 * N <= 0
        BY <1>1, <3>2, Typing DEF IInv, EnoughInv
      <4> QED  BY <1>1, <4>1, Typing DEF IInv
    <3> QED  BY <3>1, <3>2 DEF IInv, TypeOK
  <2>2. ~small => (Ahead' - 3 * N) * Den <= Due'
    BY <1>1, <2>1, Typing DEF IInv
  <2> QED  BY <1>1, <2>2 DEF LittleInv
<1> QED  BY <1>2, <1>3, <1>4, <1>5, <1>6 DEF IInv

LEMMA ProduceStep ==
  ASSUME IInv, Produce
  PROVE  IInv'
<1>1. TypeOK /\ left > 0 /\ Ahead >= N /\ left' = left - 1 /\ at \in {"process", "flush"}
      /\ UNCHANGED <<step, base, size, flushed, at, asked, round, speech, spoken, real, whole,
                     small, NextIndex, Most>>
  BY DEF IInv, TypeOK, Produce, CanProduce, Ahead, NextIndex, Most, source
<1>2. left' * step' = left * step - step  BY <1>1, Typing DEF TypeOK
<1>3. PICK d \in 0..1 :
        center' = center + d /\ frac' = frac + step - d * Den /\ frac' \in 0..(Den - 1)
  <2>1. CASE frac + step < Den  BY <1>1, <2>1 DEF Produce, TypeOK
  <2>2. CASE ~(frac + step < Den)  BY <1>1, <2>2 DEF Produce, TypeOK
  <2> QED  BY <2>1, <2>2
<1>4. Due' = Due - d * Den /\ Ahead' = Ahead - d
  BY <1>1, <1>2, <1>3, Typing DEF Due, Ahead, TypeOK
<1>5. ASSUME NEW k \in Int PROVE (Ahead' - k) * Den = (Ahead - k) * Den - d * Den
  BY <1>1, <1>3, <1>4, Typing
<1>6. TypeOK'  BY <1>1, <1>3 DEF TypeOK
<1>7. EndInv'  BY <1>1, <1>3 DEF IInv, TypeOK, EndInv, NextIndex, Ahead
<1>8. WindowInv'  BY <1>1, <1>3 DEF IInv, TypeOK, WindowInv, WindowHeld, Max2
<1>9. EnoughInv'
  <2>1. at = "process" /\ speech > 0 => Due' <= (Ahead' - N) * Den
    BY <1>1, <1>3, <1>4, <1>5, Typing DEF IInv, EnoughInv
  <2> QED  BY <1>1, <2>1 DEF IInv, EnoughInv, Returned
<1>10. LittleInv'
  <2>1. ~small /\ at = "process" => (Ahead' - Most) * Den <= Due'
    BY <1>1, <1>3, <1>4, <1>5, Typing DEF IInv, LittleInv
  <2>2. ~small /\ at = "flush" => (Ahead' - 3 * N) * Den <= Due'
    BY <1>1, <1>3, <1>4, <1>5, Typing DEF IInv, LittleInv
  <2> QED  BY <1>1, <2>1, <2>2 DEF LittleInv
<1> QED  BY <1>6, <1>7, <1>8, <1>9, <1>10 DEF IInv

LEMMA EvictStep ==
  ASSUME IInv, Evict
  PROVE  IInv'
<1>1. /\ Evictable \in 0..size /\ base' = base + Evictable /\ size' = size - Evictable
      /\ UNCHANGED <<step, center, frac, flushed, asked, left, round, speech, spoken, real,
                     whole, small>>
      /\ at \in {"process", "flush"} /\ at' = (IF at = "process" THEN "fetch" ELSE "host")
      /\ left > 0 => Ahead < N
  BY DEF IInv, TypeOK, Evict, Evictable, CanProduce, Ahead, NextIndex, Min2, Max2, source
<1>2. NextIndex' = NextIndex /\ Ahead' = Ahead /\ Due' = Due /\ Most' = Most
  BY <1>1 DEF IInv, TypeOK, NextIndex, Ahead, Due, Most
<1>3. TypeOK'  BY <1>1 DEF IInv, TypeOK
<1>4. EndInv'  BY <1>1, <1>2 DEF IInv, EndInv
<1>5. WindowInv'
  BY <1>1, <1>3 DEF IInv, TypeOK, WindowInv, WindowHeld, EndInv, Evictable, NextIndex, Min2, Max2
<1>6. EnoughInv'
  <2>1. at = "process" /\ left > 0 => speech = 0
    <3> SUFFICES ASSUME at = "process", left > 0, speech > 0 PROVE FALSE
      BY DEF IInv, TypeOK
    <3>1. Due <= (Ahead - N) * Den /\ Ahead - N < 0 /\ Due >= 0
      BY <1>1, Typing DEF IInv, EnoughInv
    <3>2. Due <= -Den  BY <3>1, Typing DEF IInv
    <3> QED  BY <3>1, <3>2, Typing DEF IInv
  <2> QED  BY <1>1, <1>2, <2>1 DEF IInv, TypeOK, EnoughInv, Returned
<1>7. LittleInv'
  <2>1. ASSUME NEW k \in Nat, k >= N, (Ahead - k) * Den <= Due PROVE Ahead <= k
    <3>1. CASE left > 0  BY <1>1, <2>1, <3>1, Typing DEF IInv
    <3>2. CASE left = 0
      <4>1. Due < Den  BY <3>2 DEF IInv, TypeOK, Due
      <4>2. Ahead - k >= 1 => (Ahead - k) * Den >= Den  BY Typing DEF IInv
      <4> QED  BY <2>1, <4>1, <4>2, Typing DEF IInv
    <3> QED  BY <3>1, <3>2 DEF IInv, TypeOK
  <2>2. Most \in Nat /\ Most >= N /\ 3 * N \in Nat /\ 3 * N >= N
    BY DEF Most
  <2>3. at = "flush" => Most = 3 * N
    BY DEF IInv, EnoughInv, Most
  <2>4. ~small => Ahead <= Most
    BY <1>1, <2>1, <2>2, <2>3 DEF IInv, LittleInv
  <2>5. at' = "fetch" => round' > 0  BY <1>1 DEF IInv, EnoughInv
  <2> QED  BY <1>1, <1>2, <2>4, <2>5 DEF LittleInv
<1> QED  BY <1>3, <1>4, <1>5, <1>6, <1>7 DEF IInv

LEMMA ReturnStep ==
  ASSUME IInv, Return
  PROVE  IInv'
<1>1. left = 0 /\ at = "fetch" /\ at' = "host"
      /\ UNCHANGED <<step, center, frac, base, size, flushed, asked, left, round, speech,
                     spoken, real, whole, small>>
  BY DEF IInv, TypeOK, EnoughInv, Return, resamp, source
<1>2. UNCHANGED <<NextIndex, Ahead, Due, Most>>
  BY <1>1 DEF NextIndex, Ahead, Due, Most
<1> QED
  BY <1>1, <1>2 DEF IInv, TypeOK, EndInv, WindowInv, WindowHeld, EnoughInv, LittleInv, Returned

-----------------------------------------------------------------------------
LEMMA Inductive ==
  /\ Init => IInv
  /\ IInv /\ [Next]_vars => IInv'
<1>1. Init => IInv
  <2> SUFFICES ASSUME Init PROVE IInv  OBVIOUS
  <2>1. TypeOK
    <3>1. /\ step \in 1..Den /\ center \in Nat /\ frac \in 0..(Den - 1) /\ base \in Nat
          /\ size \in Nat /\ asked \in Nat /\ left \in Nat /\ round \in Nat
          /\ speech \in Nat /\ spoken \in Nat /\ real \in Nat
      BY DEF Init
    <3>2. flushed \in BOOLEAN /\ whole \in BOOLEAN /\ small \in BOOLEAN  BY DEF Init
    <3> QED  BY <3>1, <3>2 DEF Init, TypeOK
  <2>2. EndInv /\ WindowInv
    BY DEF Init, EndInv, WindowInv, WindowHeld, NextIndex, Max2
  <2>3. EnoughInv  BY DEF Init, EnoughInv, Returned
  <2>4. LittleInv  BY DEF Init, LittleInv, NextIndex, Ahead, Most
  <2> QED  BY <2>1, <2>2, <2>3, <2>4 DEF IInv
<1>2. ASSUME IInv, Next PROVE IInv'
  BY <1>2, QueueStep, SetOutputRateStep, StopStep, SynthRawStep, SynthOutStep, FetchStep,
     FlushStep, ProduceStep, EvictStep, ReturnStep DEF Next
<1>3. ASSUME IInv, UNCHANGED vars PROVE IInv'
  BY <1>3 DEF vars, resamp, call, source, IInv, TypeOK, EndInv, WindowInv, WindowHeld,
              EnoughInv, LittleInv, Returned, NextIndex, Ahead, Due, Most
<1> QED  BY <1>1, <1>2, <1>3

LEMMA Always == Spec => []IInv
BY Inductive, PTL DEF Spec

(* dtalk.cpp:378-412.  No output sample is made from a raw sample that was *)
(* dropped, whatever the rates and the sizes of calls.                     *)
THEOREM WindowNeverLost == Spec => []WindowHeld
<1>1. IInv => WindowHeld  BY DEF IInv, WindowInv
<1> QED  BY <1>1, Always, PTL

(* dtalk.cpp:822-849.  The guard of 64 rounds never cuts a call short: two *)
(* are enough, as the first fetches all that the call can need.            *)
THEOREM TwoRoundsEnough == Spec => []FullUnlessIdle
<1>1. IInv => FullUnlessIdle
  BY DEF IInv, EnoughInv, FullUnlessIdle, Returned
<1> QED  BY <1>1, Always, PTL

(* dtalk.cpp:420-429, 842.  The tail of an utterance comes out to the last *)
(* sample and nothing after it, as long as no audio follows it unstopped.  *)
THEOREM TailToTheEnd == Spec => []TailExact
<1>1. IInv => TailExact
  BY DEF IInv, TypeOK, EndInv, EnoughInv, TailExact, Returned, Ahead, NextIndex
<1> QED  BY <1>1, Always, PTL

(* dtalk.cpp:366-371, 408-411.  Two windows of history are all that is     *)
(* ever held between calls of a raw sample's worth or more.                *)
THEOREM HistoryStaysSmall == Spec => []HistoryBounded
<1>1. IInv => HistoryBounded
  <2>1. Most <= 3 * N  BY DEF Most
  <2> QED
    BY <2>1, Typing DEF IInv, TypeOK, WindowInv, LittleInv, HistoryBounded, Ahead, NextIndex
<1> QED  BY <1>1, Always, PTL
=============================================================================
