------------------------------ MODULE Resampler ------------------------------
(***************************************************************************)
(* dtalk.cpp: dtalk_synth16_out and its streaming resampler, which turns   *)
(* the card's samples into more samples at the host's rate.  What a sample *)
(* is worth is left out: the model says which raw samples are held, and at *)
(* which position between them the next output sample is taken.            *)
(*                                                                         *)
(* The position is center + frac / Den, exactly; the code has a double.    *)
(***************************************************************************)
EXTENDS Integers

CONSTANTS N,         \* RESAMPLE_N, raw samples needed on either side
          Den,       \* parts of a raw sample
          Steps,     \* values of the step, SAMPLE_RATE / out_rate, in parts
          Rounds,    \* the loop's guard: 64
          Wants,     \* values of max_samples
          Lengths,   \* samples of speech that one dtalk_queue makes
          MaxSpeech  \* bound: samples of speech since the last stop

ASSUME ResamplerAssumption ==
  /\ N \in Nat \ {0} /\ Den \in Nat \ {0} /\ Steps \subseteq 1..Den
  /\ Rounds \in Nat /\ Rounds >= 2 /\ Wants \subseteq Nat \ {0} /\ Lengths \subseteq Nat \ {0}
  /\ MaxSpeech \in Nat

VARIABLES
  step, center, frac,  \* dtalk->resamp: step and pos
  base, size,          \* base_index and hist.size()
  flushed,
  at,                  \* where dtalk_synth16_out stands; "host" between calls
  asked, left, round,  \* max_samples, 0 once it is acted upon; what is not
                       \* produced of it; guard
  speech, spoken,      \* raw samples before the card is idle; bound
  real,                \* history: the end of the raw samples the card made
  whole,               \* history: one utterance, all of it at one kind of rate
  small                \* history: a call asked for less than a raw sample makes

resamp == <<step, center, frac, base, size, flushed>>
call == <<at, asked, left, round>>
source == <<speech, spoken, real, whole, small>>
vars == <<resamp, call, source>>

TypeOK ==
  /\ step \in 1..Den /\ center \in Nat /\ frac \in 0..(Den - 1)
  /\ base \in Nat /\ size \in Nat /\ flushed \in BOOLEAN
  /\ at \in {"host", "fetch", "process", "flush"}
  /\ asked \in Nat /\ left \in Nat /\ round \in Nat
  /\ speech \in Nat /\ spoken \in Nat /\ real \in Nat
  /\ whole \in BOOLEAN /\ small \in BOOLEAN

Init ==
  /\ step \in Steps /\ center = 0 /\ frac = 0 /\ base = 0 /\ size = 0 /\ flushed = FALSE
  /\ at = "host" /\ asked = 0 /\ left = 0 /\ round = 0
  /\ speech = 0 /\ spoken = 0 /\ real = 0 /\ whole = TRUE /\ small = FALSE

NextIndex == base + size
Min2(a, b) == IF a < b THEN a ELSE b
Max2(a, b) == IF a > b THEN a ELSE b
AvailableAhead == Max2(NextIndex - center, 0)
RoundedUp(n) == (n + Den - 1) \div Den

-----------------------------------------------------------------------------
(* The host: dtalk_queue, dtalk_set_output_rate, dtalk_stop (dtalk_reset). *)
Queue(n) ==
  /\ at = "host" /\ spoken + n <= MaxSpeech
  /\ speech' = speech + n /\ spoken' = spoken + n
  /\ whole' = (whole /\ ~flushed) /\ asked' = 0
  /\ UNCHANGED <<resamp, at, left, round, real, small>>

SetOutputRate(s) ==
  /\ at = "host" /\ s # step
  /\ step' = s /\ asked' = 0
  /\ UNCHANGED <<center, frac, base, size, flushed, at, left, round, source>>

Stop ==
  /\ at = "host"
  /\ center' = 0 /\ frac' = 0 /\ base' = 0 /\ size' = 0 /\ flushed' = FALSE
  /\ speech' = 0 /\ spoken' = 0 /\ real' = 0 /\ whole' = TRUE /\ small' = FALSE
  /\ asked' = 0
  /\ UNCHANGED <<step, at, left, round>>

(* At the card's own rate the resampler is passed by.                      *)
SynthRaw(w) ==
  /\ at = "host" /\ step = Den
  /\ asked' = w /\ left' = w - Min2(w, speech) /\ speech' = speech - Min2(w, speech)
  /\ whole' = (whole /\ size = 0)
  /\ UNCHANGED <<resamp, at, round, spoken, real, small>>

-----------------------------------------------------------------------------
SynthOut(w) ==
  /\ at = "host" /\ step < Den
  /\ asked' = w /\ left' = w /\ round' = 0 /\ at' = "fetch"
  /\ small' = (small \/ w * step < Den)
  /\ UNCHANGED <<resamp, speech, spoken, real, whole>>

RawWantOfStep ==
  LET needed == RoundedUp(left * step)
  IN  IF needed > AvailableAhead THEN needed - AvailableAhead ELSE 1
RawWantUnsized == RoundedUp(left * step) + 2 * N

RawWant ==
  LET needed == RoundedUp(left * step) + 2 * N
  IN  IF needed > AvailableAhead THEN needed - AvailableAhead ELSE 1

(* A round asks dtalk_synth16 for the raw samples that are missing.  It    *)
(* returns fewer only when the card has fallen idle.                       *)
Fetch ==
  /\ at = "fetch" /\ left > 0 /\ round < Rounds /\ speech > 0
  /\ LET n == Min2(RawWant, speech)
     IN  size' = size + n /\ speech' = speech - n /\ real' = NextIndex + n
  /\ round' = round + 1 /\ at' = "process"
  /\ UNCHANGED <<step, center, frac, base, flushed, asked, left, spoken, whole, small>>

PaddingEveryTime == N
Padding == IF flushed THEN 0 ELSE N

Flush ==
  /\ at = "fetch" /\ left > 0 /\ round < Rounds /\ speech = 0
  /\ size' = size + Padding /\ flushed' = TRUE
  /\ round' = round + 1 /\ at' = "flush"
  /\ UNCHANGED <<step, center, frac, base, asked, left, source>>

(* process: output samples while there is enough to their right, then what *)
(* is no longer needed to their left is dropped.                           *)
CanProduce == left > 0 /\ center + N <= NextIndex

Produce ==
  /\ at \in {"process", "flush"} /\ CanProduce
  /\ left' = left - 1
  /\ center' = IF frac + step < Den THEN center ELSE center + 1
  /\ frac' = IF frac + step < Den THEN frac + step ELSE frac + step - Den
  /\ UNCHANGED <<step, base, size, flushed, at, asked, round, source>>

EvictableToCenter == Max2(Min2(size, center - base), 0)
Evictable == Max2(Min2(size, center - N - base), 0)

Evict ==
  /\ at \in {"process", "flush"} /\ ~CanProduce
  /\ base' = base + Evictable /\ size' = size - Evictable
  /\ at' = IF at = "process" THEN "fetch" ELSE "host"
  /\ UNCHANGED <<step, center, frac, flushed, asked, left, round, source>>

Return ==
  /\ at = "fetch" /\ (left = 0 \/ round = Rounds)
  /\ at' = "host"
  /\ UNCHANGED <<resamp, asked, left, round, source>>

Next ==
  \/ \E n \in Lengths : Queue(n)
  \/ \E s \in Steps : SetOutputRate(s)
  \/ Stop
  \/ \E w \in Wants : SynthRaw(w) \/ SynthOut(w)
  \/ Fetch \/ Flush \/ Produce \/ Evict \/ Return

Spec == Init /\ [][Next]_vars

-----------------------------------------------------------------------------
Returned == at = "host" /\ asked > 0

(* The loop's guard never cuts a call short: one that produced less than it *)
(* was asked for found the card idle, after at most two rounds.            *)
FullUnlessIdle == Returned => (left > 0 => speech = 0) /\ round <= 2

(* When an utterance has ended, its tail has been produced to the last raw *)
(* sample and no further; a call that returns nothing comes right after    *)
(* it.  Not when audio was queued after the end without a stop, or when    *)
(* the rate was changed to the card's own meanwhile: both leave a tail.    *)
TailExact ==
  /\ Returned /\ left > 0 /\ whole /\ size > 0 /\ step < Den => center = real + 1
  /\ center <= real + 1

(* The window of the next output sample reaches into nothing that has been *)
(* dropped: only before the stream's start is there silence to its left.   *)
WindowHeld == base <= Max2(0, center - N)

(* Between calls no more is held than the windows of a call need, as long  *)
(* as each asks for a raw sample's worth: a smaller one fetches a sample   *)
(* whether it needs it or not.                                             *)
HistoryBounded == at = "host" /\ ~small => size <= 4 * N
=============================================================================
