-------------------------------- MODULE Dtalk --------------------------------
(***************************************************************************)
(* dtalk.cpp: one dtalk instance as its host sees it, from dtalk_queue to  *)
(* the samples dtalk_synth returns.  The emulated card turns text into     *)
(* samples on a fixed grid; pull() trims silence out of them, dtalk_stop   *)
(* throws some away, and the counters samples_base and samples_dropped tie *)
(* positions on the grid to positions in what was delivered.               *)
(*                                                                         *)
(* One unit of time is a chunk of RUN_CHUNK_CYCLES (10 ms emulated).  The  *)
(* firmware is external: it takes bytes while RDY is up, works for some    *)
(* chunks between consuming text and raising SYNC, then speaks.            *)
(***************************************************************************)
EXTENDS Integers, Sequences

CONSTANTS ChunkSamples, \* how many grid samples a chunk may cover
          LeadIn,       \* LEADIN_CAP_SAMPLES
          PauseCaps,    \* values of pause_cap_samples, 0 for no trimming
          Settle,       \* IDLE_SETTLE_CYCLES, in chunks
          MaxGap,       \* longest silence of the firmware before SYNC, in chunks
          BootTime,     \* chunks from reset to RDY
          BootLimit,    \* boot()'s time limit, in chunks
          Resets,       \* whether the host calls dtalk_reset
          Wants,        \* values of max_samples
          MaxText,      \* bound: bytes queued in all
          MaxSpeech,    \* bound: chunks of speech for one byte
          MaxStops,     \* bound: calls of dtalk_stop and dtalk_reset
          MaxMarks      \* bound: index marks waiting to be read

ASSUME DtalkAssumption ==
  /\ ChunkSamples \subseteq Nat \ {0} /\ ChunkSamples # {}
  /\ LeadIn \in Nat \ {0} /\ PauseCaps \subseteq Nat /\ 0 \in PauseCaps
  /\ Settle \in Nat /\ MaxGap \in Nat /\ MaxGap < Settle
  /\ BootTime \in Nat /\ BootLimit \in Nat /\ BootTime < BootLimit
  /\ Resets \in BOOLEAN
  /\ Wants \subseteq Nat \ {0}
  /\ MaxText \in Nat /\ MaxSpeech \in Nat \ {0} /\ MaxStops \in Nat
  /\ MaxMarks \in Nat

VARIABLES
  queue,           \* bytes not yet accepted by the card
  carry,           \* samples pulled but not delivered
  marks,           \* index marks reached
  samples_base, samples_dropped,
  idle_stable,     \* in chunks
  pause_cap, silence_run, heard_speech,
  booted,          \* what boot() last returned
  buffered, gap, sync, \* the card: bytes held, chunks before SYNC, chunks of speech
  now,             \* chunks since power-on, up to BootLimit
  grid,            \* grid samples pulled since power-on
  synth, left,     \* where dtalk_synth stands, with `left' samples to produce
  settled,         \* whether the last dtalk_synth ended because the card was idle
  stopped,         \* whether nothing was queued since the last dtalk_stop
  queued, stops,   \* bounds
  delivered,       \* history: samples delivered since create or reset
  spoke, lead,     \* history: the utterance has sounded; silence kept before that
  fresh            \* history: it was queued right after a stop or reset

card == <<buffered, gap, sync>>
silence == <<silence_run, heard_speech, spoke, lead, fresh>>
stream == <<carry, samples_base, samples_dropped, grid, delivered>>
calls == <<pause_cap, booted, queued, stops, stopped>>
vars == <<card, silence, stream, calls, queue, marks, idle_stable, now, synth, left, settled>>

(* What cycles * SAMPLE_RATE / CPU_HZ yields, in integers, between grid     *)
(* samples p - 1 and p, or at p.                                           *)
Floored(p) == {p - 1, p}

Mark == [pos : Nat, at : Nat]  \* where the code says it fired, and where it did

TypeOK ==
  /\ queue \in Nat /\ carry \in Nat
  /\ marks \in Seq(Mark)
  /\ samples_base \in Nat /\ samples_dropped \in Nat
  /\ idle_stable \in 0..Settle
  /\ pause_cap \in PauseCaps /\ silence_run \in Nat /\ heard_speech \in BOOLEAN
  /\ booted \in BOOLEAN /\ stopped \in BOOLEAN /\ settled \in BOOLEAN
  /\ buffered \in Nat /\ gap \in 0..MaxGap /\ sync \in 0..MaxSpeech
  /\ now \in 0..BootLimit /\ grid \in Nat
  /\ synth \in {"out", "feed", "run"} /\ left \in Nat
  /\ queued \in 0..MaxText /\ stops \in 0..MaxStops
  /\ delivered \in Nat /\ spoke \in BOOLEAN /\ lead \in Nat /\ fresh \in BOOLEAN

Init ==
  /\ queue = 0 /\ carry = 0 /\ marks = <<>>
  /\ grid \in ChunkSamples /\ samples_base \in Floored(grid) /\ samples_dropped = 0
  /\ idle_stable = 0 /\ pause_cap = 0 /\ silence_run = 0 /\ heard_speech = FALSE
  /\ booted = TRUE /\ now = BootTime
  /\ buffered = 0 /\ gap = 0 /\ sync = 0
  /\ synth = "out" /\ left = 0 /\ settled = FALSE /\ stopped = TRUE
  /\ queued = 0 /\ stops = 0
  /\ delivered = 0 /\ spoke = FALSE /\ lead = 0 /\ fresh = TRUE

Smaller(m, n) == IF m < n THEN m ELSE n
Outside == synth = "out"
CardIdle == buffered = 0 /\ gap = 0 /\ sync = 0
Tick(chunks) == now' = Smaller(now + chunks, BootLimit)

-----------------------------------------------------------------------------
(* dtalk_queue                                                             *)
QueueKeepsIdle ==
  /\ Outside /\ queued < MaxText
  /\ \E n \in 1..(MaxText - queued) : queue' = queue + n /\ queued' = queued + n
  /\ settled' = FALSE /\ stopped' = FALSE
  /\ IF queue = 0 /\ CardIdle
       THEN spoke' = FALSE /\ lead' = 0 /\ fresh' = stopped
       ELSE UNCHANGED <<spoke, lead, fresh>>
  /\ UNCHANGED <<card, stream, marks, pause_cap, silence_run, heard_speech, booted, now,
                 synth, left, stops, idle_stable>>

Queue ==
  /\ Outside /\ queued < MaxText
  /\ \E n \in 1..(MaxText - queued) : queue' = queue + n /\ queued' = queued + n
  /\ idle_stable' = 0 /\ settled' = FALSE /\ stopped' = FALSE
  /\ IF queue = 0 /\ CardIdle
       THEN spoke' = FALSE /\ lead' = 0 /\ fresh' = stopped
       ELSE UNCHANGED <<spoke, lead, fresh>>
  /\ UNCHANGED <<card, stream, marks, pause_cap, silence_run, heard_speech, booted, now,
                 synth, left, stops>>

(* drop_pending_audio, with n grid samples not yet pulled.                 *)
DropForgetsCarry(n) ==
  /\ grid' = grid + n /\ samples_dropped' = samples_dropped + n
  /\ carry' = 0

DropPendingAudio(n) ==
  /\ grid' = grid + n /\ samples_dropped' = samples_dropped + n + carry
  /\ carry' = 0

(* What dtalk_stop and dtalk_reset both clear; Ctrl-X or power-on leaves   *)
(* the card with nothing to say.                                           *)
ClearsButHeard ==
  /\ Outside /\ stops < MaxStops /\ stops' = stops + 1
  /\ queue' = 0 /\ marks' = <<>>
  /\ buffered' = 0 /\ gap' = 0 /\ sync' = 0
  /\ idle_stable' = 0 /\ silence_run' = 0 /\ UNCHANGED heard_speech
  /\ spoke' = FALSE /\ lead' = 0 /\ fresh' = TRUE /\ settled' = FALSE /\ stopped' = TRUE
  /\ UNCHANGED <<pause_cap, queued, synth, left>>

Clears ==
  /\ Outside /\ stops < MaxStops /\ stops' = stops + 1
  /\ queue' = 0 /\ marks' = <<>>
  /\ buffered' = 0 /\ gap' = 0 /\ sync' = 0
  /\ idle_stable' = 0 /\ silence_run' = 0 /\ heard_speech' = FALSE
  /\ spoke' = FALSE /\ lead' = 0 /\ fresh' = TRUE /\ settled' = FALSE /\ stopped' = TRUE
  /\ UNCHANGED <<pause_cap, queued, synth, left>>

Stop ==
  /\ Clears
  /\ \E n \in ChunkSamples : DropPendingAudio(n)
  /\ Tick(1)
  /\ UNCHANGED <<samples_base, delivered, booted>>

(* dtalk_reset ignores what boot() returns, and boot() gives up at an      *)
(* absolute time since power-on.                                           *)
BootSucceeds == now + BootTime <= BootLimit

Reset ==
  /\ Resets /\ Clears
  /\ carry' = 0 /\ samples_dropped' = 0 /\ delivered' = 0
  /\ booted' = BootSucceeds
  /\ IF BootSucceeds
       THEN /\ \E n \in ChunkSamples : grid' = grid + n
            /\ samples_base' \in Floored(grid')
       ELSE UNCHANGED <<grid, samples_base>>
  /\ Tick(BootTime)

SetPauseCap ==
  /\ Outside
  /\ pause_cap' \in PauseCaps
  /\ UNCHANGED <<card, silence, stream, queue, booted, queued, stops, stopped, marks,
                 idle_stable, now, synth, left, settled>>

ReadIndexMarks ==
  /\ Outside /\ marks # <<>>
  /\ \E n \in 1..Len(marks) : marks' = SubSeq(marks, n + 1, Len(marks))
  /\ UNCHANGED <<card, silence, stream, calls, queue, idle_stable, now, synth, left, settled>>

-----------------------------------------------------------------------------
(* dtalk_synth and dtalk_synth16: one loop, whatever is done to a sample.  *)
(* It starts by delivering what was carried over.                          *)
Drain(have, want) ==
  LET take == Smaller(have, want)
  IN  /\ carry' = have - take
      /\ left' = want - take
      /\ delivered' = delivered + take

SynthCall ==
  /\ Outside
  /\ \E w \in Wants : Drain(carry, w)
  /\ synth' = "feed" /\ settled' = FALSE
  /\ UNCHANGED <<card, silence, calls, queue, samples_base, samples_dropped, grid, marks,
                 idle_stable, now>>

SynthFull ==
  /\ synth = "feed" /\ left = 0
  /\ synth' = "out"
  /\ UNCHANGED <<card, silence, stream, calls, queue, marks, idle_stable, now, left, settled>>

(* The card takes a byte out of its buffer of b: text it will speak, now   *)
(* or in a while, or a command.                                            *)
Consumes(b) ==
  /\ sync = 0 /\ gap = 0 /\ b > 0 /\ buffered' = b - 1
  /\ \/ gap' \in 1..MaxGap /\ UNCHANGED sync
     \/ sync' \in 1..MaxSpeech /\ UNCHANGED gap
     \/ UNCHANGED <<gap, sync>>

(* feed: bytes go over until RDY stays down, which it does only with bytes *)
(* in the card's buffer.                                                   *)
SynthFeed ==
  /\ synth = "feed" /\ left > 0
  /\ \E m \in 0..queue :
       /\ m < queue => buffered + m > 0
       /\ queue' = queue - m
       /\ \/ buffered' = buffered + m /\ UNCHANGED <<gap, sync>>
          \/ m > 0 /\ Consumes(buffered + m)
  /\ synth' = "run"
  /\ UNCHANGED <<silence, stream, calls, marks, idle_stable, now, left, settled>>

card_busy == sync > 0 \/ buffered > 0

Settled == queue = 0 /\ ~card_busy /\ idle_stable >= Settle

SynthGoesOn ==
  /\ synth = "run" /\ Settled
  /\ synth' = "feed" /\ settled' = TRUE
  /\ UNCHANGED <<card, silence, stream, calls, queue, marks, idle_stable, now, left>>

SynthSettles ==
  /\ synth = "run" /\ Settled
  /\ synth' = "out" /\ settled' = TRUE
  /\ UNCHANGED <<card, silence, stream, calls, queue, marks, idle_stable, now, left>>

(* The card during one chunk.                                              *)
CardRuns ==
  \/ sync > 0 /\ sync' = sync - 1 /\ UNCHANGED <<buffered, gap>>
  \/ /\ sync = 0 /\ gap > 0 /\ gap' = gap - 1 /\ UNCHANGED buffered
     /\ IF gap = 1 THEN sync' \in 1..MaxSpeech ELSE UNCHANGED sync
  \/ Consumes(buffered)
  \/ CardIdle /\ UNCHANGED card

(* pull, on a near-idle samples, then s sounding ones, then z near-idle    *)
(* ones: how many of n near-idle samples are kept after a run of r.        *)
Kept(n, r, cap) == IF cap = 0 THEN n ELSE IF r >= cap THEN 0 ELSE Smaller(n, cap - r)

KeptBefore(a) == Kept(a, silence_run, IF heard_speech THEN pause_cap ELSE LeadIn)
KeptAfter(z) == Kept(z, 0, pause_cap)

(* Samples of the pull kept among its first j.                             *)
KeptOf(j, a, s) ==
  IF j <= a THEN KeptBefore(j)
  ELSE IF j <= a + s THEN KeptBefore(a) + (j - a)
  ELSE KeptBefore(a) + s + KeptAfter(j - a - s)

Pull(a, s, z) ==
  LET n == a + s + z
  IN  /\ grid' = grid + n
      /\ samples_dropped' = samples_dropped + (n - KeptOf(n, a, s))
      /\ silence_run' = IF s = 0 THEN silence_run + KeptBefore(a) ELSE KeptAfter(z)
      /\ heard_speech' = (heard_speech \/ s > 0)
      /\ spoke' = (spoke \/ s > 0)
      /\ lead' = IF spoke THEN lead ELSE lead + KeptBefore(a)
      /\ UNCHANGED fresh
      /\ Drain(carry + KeptOf(n, a, s), left)
      /\ UNCHANGED samples_base

(* An index mark that fires j samples into the pull, which is p in the     *)
(* code's count.                                                           *)
MarkUncorrected(p, j, a, s) ==
  [pos |-> IF p > samples_base THEN p - samples_base ELSE 0,
   at  |-> delivered + carry + KeptOf(j, a, s)]

MarkAt(p, j, a, s) ==
  LET offset == samples_base + samples_dropped'
  IN  [pos |-> IF p > offset THEN p - offset ELSE 0,
       at  |-> delivered + carry + KeptOf(j, a, s)]

RunAndPull ==
  /\ CardRuns /\ Tick(1)
  /\ \E n \in ChunkSamples : \E a, s \in 0..n :
       /\ a + s <= n /\ (sync = 0 \/ s = 0 => a = n)
       /\ Pull(a, s, n - a - s)
       /\ \/ UNCHANGED marks
          \/ /\ sync > 0 /\ Len(marks) < MaxMarks
             /\ \E j \in 0..n : \E p \in Floored(grid + j) :
                  marks' = Append(marks, MarkAt(p, j, a, s))
  /\ synth' = "feed"
  /\ UNCHANGED <<calls, queue, settled>>

SynthRuns ==
  /\ synth = "run" /\ ~Settled
  /\ idle_stable' = IF queue = 0 /\ ~card_busy THEN idle_stable + 1 ELSE 0
  /\ RunAndPull

-----------------------------------------------------------------------------
SynthStep == SynthFull \/ SynthFeed \/ SynthSettles \/ SynthRuns
Next == Queue \/ Stop \/ Reset \/ SetPauseCap \/ ReadIndexMarks \/ SynthCall \/ SynthStep

Spec == Init /\ [][Next]_vars

(* dtalk_synth runs on its caller's thread.                                *)
FairSpec == Spec /\ WF_vars(SynthStep)

-----------------------------------------------------------------------------
(* dtalk.cpp:474-477, 516-526, 571: every sample of the grid is accounted  *)
(* for: discarded at boot, trimmed or cancelled, delivered, or carried.    *)
(* What boot rounds away stays one sample.                                 *)
GridAccounted ==
  booted => samples_base + samples_dropped + delivered + carry \in Floored(grid)

(* dtalk.cpp:516-520: dropped samples are counted, as "otherwise every     *)
(* mark after a cancel would fire late": none is placed after the sample   *)
(* it fired at, but for the sample that boot rounds away.                  *)
MarksNotLate == booted => \A i \in DOMAIN marks : marks[i].pos <= marks[i].at + 1

(* dtalk.cpp:78-85: an utterance's lead-in silence "is always capped", no  *)
(* matter what pause cap the host has set, if the host called dtalk_stop   *)
(* (or dtalk_reset) before it queued the utterance.                        *)
LeadInCapped == fresh => lead <= LeadIn

(* dtalk.h:92-94: dtalk_synth comes up short only "once idle (speech done, *)
(* nothing queued)", although the card looks idle for a while between      *)
(* consuming text and raising SYNC.                                        *)
IdleIsDone == settled => queue = 0 /\ CardIdle

(* dtalk.cpp:711-750: every call of dtalk_synth returns, with the samples  *)
(* asked for or with the card idle.                                        *)
SynthReturns == synth # "out" ~> synth = "out"
=============================================================================
