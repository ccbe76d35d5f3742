----------------------------- MODULE DtalkProofs -----------------------------
(***************************************************************************)
(* Proofs about Dtalk for every chunk size, cap, settle time and bound:    *)
(* the sample accounting, the index marks, the lead-in cap, the idle test, *)
(* and why the loop of dtalk_synth ends.  Everything about silence rests   *)
(* on two facts about Kept.                                                *)
(***************************************************************************)
EXTENDS Dtalk, SequenceTheorems, TLAPS

(* Kept never keeps more than there is, nor beyond the cap.                *)
LEMMA KeptBounds ==
  ASSUME NEW n \in Nat, NEW r \in Nat, NEW cap \in Nat
  PROVE  /\ Kept(n, r, cap) \in 0..n
         /\ cap # 0 /\ r <= cap => r + Kept(n, r, cap) <= cap
         /\ \A j \in 0..n : j - Kept(j, r, cap) <= n - Kept(n, r, cap)
BY DEF Kept, Smaller

(* A chunk has a whole number of samples, at least one.                    *)
LEMMA ChunkNat ==
  ASSUME NEW n \in ChunkSamples
  PROVE  n \in Nat /\ n > 0
BY DtalkAssumption DEF DtalkAssumption

(* Of a pull's first j samples at most j are kept, and what was dropped    *)
(* among them is part of what is dropped in the whole pull.                *)
LEMMA KeptOfBounds ==
  ASSUME TypeOK, NEW n \in Nat, NEW a \in 0..n, NEW s \in 0..n, a + s <= n,
         NEW j \in 0..n
  PROVE  /\ KeptBefore(a) \in 0..a
         /\ KeptAfter(n - a - s) \in 0..(n - a - s)
         /\ KeptOf(j, a, s) \in 0..j
         /\ KeptOf(n, a, s) \in 0..n
         /\ j - KeptOf(j, a, s) <= n - KeptOf(n, a, s)
<1> DEFINE cap == IF heard_speech THEN pause_cap ELSE LeadIn
<1>1. cap \in Nat /\ silence_run \in Nat /\ pause_cap \in Nat
  BY DtalkAssumption DEF DtalkAssumption, TypeOK
<1>2. \A i \in Nat : /\ KeptBefore(i) \in 0..i
                     /\ \A h \in 0..i : h - KeptBefore(h) <= i - KeptBefore(i)
  BY <1>1, KeptBounds DEF KeptBefore
<1>3. \A i \in Nat : /\ KeptAfter(i) \in 0..i
                     /\ \A h \in 0..i : h - KeptAfter(h) <= i - KeptAfter(i)
  BY <1>1, KeptBounds DEF KeptAfter
<1> DEFINE z == n - a - s
<1>4. z \in Nat /\ n = a + s + z /\ a \in Nat /\ s \in Nat /\ j \in Nat /\ n \in Nat
  OBVIOUS
<1>5. KeptBefore(a) \in 0..a /\ KeptAfter(z) \in 0..z
  BY <1>2, <1>3, <1>4
<1>6. KeptOf(n, a, s) \in 0..n /\ n - KeptOf(n, a, s) = (a - KeptBefore(a)) + (z - KeptAfter(z))
  <2>1. CASE n <= a
    <3>1. s = 0 /\ z = 0 /\ n = a  BY <1>4, <2>1
    <3>2. KeptAfter(z) = 0  BY <1>5, <3>1
    <3> QED BY <1>5, <3>1, <3>2, <1>4 DEF KeptOf
  <2>2. CASE n > a /\ n <= a + s
    <3>1. z = 0  BY <1>4, <2>2
    <3>2. KeptAfter(z) = 0  BY <1>5, <3>1
    <3> QED BY <1>5, <3>1, <3>2, <1>4, <2>2 DEF KeptOf
  <2>3. CASE n > a + s
    BY <1>5, <1>4, <2>3 DEF KeptOf
  <2> QED BY <2>1, <2>2, <2>3, <1>4
<1>7. KeptOf(j, a, s) \in 0..j /\ j - KeptOf(j, a, s) <= (a - KeptBefore(a)) + (z - KeptAfter(z))
  <2>1. CASE j <= a
    <3>1. KeptBefore(j) \in 0..j /\ j - KeptBefore(j) <= a - KeptBefore(a)
      BY <1>2, <1>4, <2>1
    <3> QED BY <3>1, <1>5, <1>4, <2>1 DEF KeptOf
  <2>2. CASE j > a /\ j <= a + s
    BY <1>5, <1>4, <2>2 DEF KeptOf
  <2>3. CASE j > a + s
    <3>1. j - a - s \in 0..z
      BY <1>4, <2>3
    <3>2. KeptAfter(j - a - s) \in 0..(j - a - s)
          /\ (j - a - s) - KeptAfter(j - a - s) <= z - KeptAfter(z)
      BY <1>3, <1>4, <3>1
    <3> QED BY <3>1, <3>2, <1>5, <1>4, <2>3 DEF KeptOf
  <2> QED BY <2>1, <2>2, <2>3, <1>4
<1> QED BY <1>4, <1>5, <1>6, <1>7

(* drain_carry moves samples from the carry to the output and loses none.  *)
LEMMA DrainMoves ==
  ASSUME NEW have \in Nat, NEW want \in Nat, delivered \in Nat, Drain(have, want)
  PROVE  /\ carry' \in Nat /\ left' \in Nat /\ delivered' \in Nat
         /\ \E t \in 0..have : carry' = have - t /\ delivered' = delivered + t
BY DEF Drain, Smaller

(* One run of the emulator: the chunk's samples are delivered, carried or  *)
(* dropped, and a mark it adds is not later than where it fired.           *)
Placed(m) == m.pos <= m.at + 1

LEMMA RunMoves ==
  ASSUME TypeOK, RunAndPull
  PROVE  /\ grid' \in Nat /\ carry' \in Nat /\ left' \in Nat /\ delivered' \in Nat
         /\ samples_dropped' \in Nat /\ samples_base' = samples_base
         /\ \E n, k, t \in Nat :
              /\ grid' = grid + n
              /\ samples_dropped' = samples_dropped + (n - k)
              /\ delivered' = delivered + t
              /\ carry' = (carry + k) - t
         /\ \/ marks' = marks
            \/ \E m \in Mark : /\ marks' = Append(marks, m)
                               /\ GridAccounted /\ booted => Placed(m)
<1>1. PICK n \in ChunkSamples : \E a, s \in 0..n :
        /\ a + s <= n /\ Pull(a, s, n - a - s)
        /\ \/ UNCHANGED marks
           \/ \E j \in 0..n : \E p \in Floored(grid + j) :
                marks' = Append(marks, MarkAt(p, j, a, s))
  BY DEF RunAndPull
<1>2. n \in Nat /\ n > 0  BY ChunkNat
<1>3. PICK a \in 0..n, s \in 0..n :
        /\ a + s <= n /\ Pull(a, s, n - a - s)
        /\ \/ UNCHANGED marks
           \/ \E j \in 0..n : \E p \in Floored(grid + j) :
                marks' = Append(marks, MarkAt(p, j, a, s))
  BY <1>1
<1>4. PICK k \in 0..n : k = KeptOf(n, a, s)
  BY <1>2, <1>3, KeptOfBounds
<1>5. a + s + (n - a - s) = n  BY <1>2
<1>6. /\ grid' = grid + n /\ samples_base' = samples_base
      /\ samples_dropped' = samples_dropped + (n - k)
  BY <1>3, <1>4, <1>5 DEF Pull
<1>13. Drain(carry + k, left)
  BY <1>3, <1>4, <1>5 DEF Pull
<1>7. /\ grid \in Nat /\ carry \in Nat /\ left \in Nat /\ delivered \in Nat
      /\ samples_dropped \in Nat /\ samples_base \in Nat
  BY DEF TypeOK
<1>8. carry + k \in Nat  BY <1>4, <1>7, <1>2
<1>9. carry' \in Nat /\ left' \in Nat /\ delivered' \in Nat
  BY <1>13, <1>7, <1>8, DrainMoves
<1>10. grid' \in Nat /\ samples_dropped' \in Nat
  BY <1>2, <1>4, <1>6, <1>7
<1>11. \E t \in Nat : delivered' = delivered + t /\ carry' = (carry + k) - t
  <2>1. \E t \in 0..(carry + k) : carry' = (carry + k) - t /\ delivered' = delivered + t
    BY <1>13, <1>7, <1>8, DrainMoves
  <2> QED BY <2>1, <1>8
<1>12. ASSUME NEW j \in 0..n, NEW p \in Floored(grid + j)
       PROVE  /\ MarkAt(p, j, a, s) \in Mark
              /\ GridAccounted /\ booted => Placed(MarkAt(p, j, a, s))
  <2> DEFINE offset == samples_base + samples_dropped'
             h == KeptOf(j, a, s)
  <2>1. j \in 0..n /\ p \in Int /\ p <= grid + j  BY <1>2, <1>7 DEF Floored
  <2>2. h \in 0..j /\ j - h <= n - k
    BY <2>1, <1>2, <1>3, <1>4, KeptOfBounds
  <2>3. MarkAt(p, j, a, s) = [pos |-> IF p > offset THEN p - offset ELSE 0,
                              at  |-> delivered + carry + h]
    BY DEF MarkAt
  <2> HIDE DEF h
  <2>4. offset \in Nat /\ offset = samples_base + samples_dropped + (n - k)
    BY <1>2, <1>4, <1>6, <1>7, <1>10
  <2> HIDE DEF offset
  <2>5. (IF p > offset THEN p - offset ELSE 0) \in Nat
    BY <2>1, <2>4, <1>2, <1>7
  <2>6. delivered + carry + h \in Nat
    BY <2>1, <2>2, <1>2, <1>7
  <2>7. MarkAt(p, j, a, s) \in Mark
    BY <2>3, <2>5, <2>6 DEF Mark
  <2>8. ASSUME GridAccounted, booted PROVE Placed(MarkAt(p, j, a, s))
    <3>1. grid <= samples_base + samples_dropped + delivered + carry + 1
      BY <2>8, <1>7 DEF GridAccounted, Floored
    <3>2. (IF p > offset THEN p - offset ELSE 0) <= delivered + carry + h + 1
      BY <3>1, <2>1, <2>2, <2>4, <1>2, <1>4, <1>7
    <3> QED BY <3>2, <2>3 DEF Placed
  <2> QED BY <2>7, <2>8
<1>14. k \in Nat  BY <1>2, <1>4
<1> QED BY <1>2, <1>3, <1>6, <1>9, <1>10, <1>11, <1>12, <1>14

(* What a run does to the silence counters and to the card stays in type.  *)
LEMMA RunTypes ==
  ASSUME TypeOK, RunAndPull
  PROVE  /\ silence_run' \in Nat /\ heard_speech' \in BOOLEAN
         /\ spoke' \in BOOLEAN /\ lead' \in Nat /\ fresh' \in BOOLEAN
         /\ buffered' \in Nat /\ gap' \in 0..MaxGap /\ sync' \in 0..MaxSpeech
         /\ now' \in 0..BootLimit /\ synth' = "feed"
<1>1. PICK n \in ChunkSamples : \E a, s \in 0..n : a + s <= n /\ Pull(a, s, n - a - s)
  BY DEF RunAndPull
<1>2. n \in Nat /\ n > 0  BY ChunkNat
<1>3. PICK a \in 0..n, s \in 0..n : a + s <= n /\ Pull(a, s, n - a - s)
  BY <1>1
<1>4. n \in 0..n /\ KeptBefore(a) \in 0..a /\ KeptAfter(n - a - s) \in 0..(n - a - s)
  BY <1>2, <1>3, KeptOfBounds
<1>5. silence_run \in Nat /\ lead \in Nat  BY DEF TypeOK
<1>6. silence_run' \in Nat /\ lead' \in Nat
  <2>1. KeptBefore(a) \in Nat /\ KeptAfter(n - a - s) \in Nat
    BY <1>2, <1>3, <1>4
  <2>2. /\ silence_run' = IF s = 0 THEN silence_run + KeptBefore(a) ELSE KeptAfter(n - a - s)
        /\ lead' = IF spoke THEN lead ELSE lead + KeptBefore(a)
    BY <1>3 DEF Pull
  <2> QED BY <2>1, <2>2, <1>5
<1>7. heard_speech' \in BOOLEAN /\ spoke' \in BOOLEAN
  BY <1>3 DEF Pull
<1>10. fresh' \in BOOLEAN
  BY <1>3 DEF Pull, TypeOK
<1>8. buffered' \in Nat /\ gap' \in 0..MaxGap /\ sync' \in 0..MaxSpeech
  BY DtalkAssumption DEF DtalkAssumption, RunAndPull, CardRuns, Consumes, CardIdle, card, TypeOK
<1>9. now' \in 0..BootLimit
  BY DtalkAssumption DEF DtalkAssumption, RunAndPull, Tick, Smaller, TypeOK
<1> QED BY <1>6, <1>7, <1>8, <1>9, <1>10 DEF RunAndPull

-----------------------------------------------------------------------------
(* The initial state is well typed.                                        *)
LEMMA TypeInit == Init => TypeOK
<1> SUFFICES ASSUME Init PROVE TypeOK
  OBVIOUS
<1>1. marks \in Seq(Mark)
  BY EmptySeq DEF Init
<1>2. samples_base \in Nat /\ grid \in Nat
  BY ChunkNat DEF Init, Floored
<1>3. 0 \in 0..Settle /\ 0 \in 0..MaxGap /\ 0 \in 0..MaxSpeech /\ 0 \in 0..MaxText
      /\ 0 \in 0..MaxStops /\ BootTime \in 0..BootLimit
  BY DtalkAssumption DEF DtalkAssumption
<1> QED BY <1>1, <1>2, <1>3, DtalkAssumption DEF DtalkAssumption, Init, TypeOK

(* dtalk_stop and dtalk_reset leave well-typed counters.                   *)
LEMMA ClearsTypes ==
  ASSUME TypeOK, Clears
  PROVE  /\ queue' \in Nat /\ marks' \in Seq(Mark) /\ idle_stable' \in 0..Settle
         /\ pause_cap' \in PauseCaps /\ silence_run' \in Nat /\ heard_speech' \in BOOLEAN
         /\ stopped' \in BOOLEAN /\ settled' \in BOOLEAN
         /\ buffered' \in Nat /\ gap' \in 0..MaxGap /\ sync' \in 0..MaxSpeech
         /\ synth' \in {"out", "feed", "run"} /\ left' \in Nat
         /\ queued' \in 0..MaxText /\ stops' \in 0..MaxStops
         /\ spoke' \in BOOLEAN /\ lead' \in Nat /\ fresh' \in BOOLEAN
<1>1. marks' \in Seq(Mark)
  BY EmptySeq DEF Clears
<1>2. 0 \in 0..Settle /\ 0 \in 0..MaxGap /\ 0 \in 0..MaxSpeech
  BY DtalkAssumption DEF DtalkAssumption
<1>3. stops' \in 0..MaxStops
  BY DtalkAssumption DEF DtalkAssumption, Clears, TypeOK
<1> QED BY <1>1, <1>2, <1>3 DEF Clears, TypeOK

(* Every step keeps every variable in its type.                            *)
LEMMA TypeStep == TypeOK /\ [Next]_vars => TypeOK'
<1> SUFFICES ASSUME TypeOK, [Next]_vars PROVE TypeOK'
  OBVIOUS
<1> USE DtalkAssumption DEF DtalkAssumption
<1>1. CASE Queue
  <2>1. queue' \in Nat /\ queued' \in 0..MaxText
    BY <1>1 DEF Queue, TypeOK
  <2>2. lead' \in Nat /\ idle_stable' \in 0..Settle
    BY <1>1 DEF Queue, TypeOK
  <2>3. spoke' \in BOOLEAN /\ fresh' \in BOOLEAN
    <3>1. \/ spoke' = FALSE /\ fresh' = stopped
          \/ spoke' = spoke /\ fresh' = fresh
      BY <1>1 DEF Queue
    <3>2. spoke \in BOOLEAN /\ stopped \in BOOLEAN /\ fresh \in BOOLEAN
      BY DEF TypeOK
    <3> QED BY <3>1, <3>2, Zenon
  <2> QED BY <1>1, <2>1, <2>2, <2>3 DEF Queue, card, stream, TypeOK
<1>2. CASE Stop
  <2>1. PICK n \in ChunkSamples : DropPendingAudio(n)
    BY <1>2 DEF Stop
  <2>2. n \in Nat  BY ChunkNat
  <2>3. /\ grid' \in Nat /\ samples_dropped' \in Nat /\ carry' \in Nat
        /\ samples_base' \in Nat /\ delivered' \in Nat /\ booted' \in BOOLEAN
    BY <1>2, <2>1, <2>2 DEF Stop, DropPendingAudio, TypeOK
  <2>4. now' \in 0..BootLimit
    BY <1>2 DEF Stop, Tick, Smaller, TypeOK
  <2> QED BY <1>2, <2>3, <2>4, ClearsTypes DEF Stop, TypeOK
<1>3. CASE Reset
  <2>1. now' \in 0..BootLimit /\ booted' \in BOOLEAN
    BY <1>3 DEF Reset, Tick, Smaller, BootSucceeds, TypeOK
  <2>2. grid' \in Nat /\ samples_base' \in Nat
    <3>1. CASE BootSucceeds
      <4>1. PICK n \in ChunkSamples : grid' = grid + n
        BY <1>3, <3>1 DEF Reset
      <4>2. n \in Nat /\ n > 0 /\ grid \in Nat  BY ChunkNat DEF TypeOK
      <4>3. samples_base' = grid' - 1 \/ samples_base' = grid'
        BY <1>3, <3>1 DEF Reset, Floored
      <4> QED BY <4>1, <4>2, <4>3
    <3>2. CASE ~BootSucceeds
      BY <1>3, <3>2 DEF Reset, TypeOK
    <3> QED BY <3>1, <3>2
  <2> QED BY <1>3, <2>1, <2>2, ClearsTypes DEF Reset, TypeOK
<1>4. CASE SetPauseCap
  BY <1>4 DEF SetPauseCap, card, silence, stream, TypeOK
<1>5. CASE ReadIndexMarks
  <2>1. marks' \in Seq(Mark)
    BY <1>5 DEF ReadIndexMarks, TypeOK
  <2> QED BY <1>5, <2>1 DEF ReadIndexMarks, card, silence, stream, calls, TypeOK
<1>6. CASE SynthCall
  <2>1. PICK w \in Wants : Drain(carry, w)
    BY <1>6 DEF SynthCall
  <2>2. carry' \in Nat /\ left' \in Nat /\ delivered' \in Nat
    <3>1. carry \in Nat /\ w \in Nat /\ delivered \in Nat  BY DEF TypeOK
    <3> QED BY <2>1, <3>1, DrainMoves
  <2> QED BY <1>6, <2>2 DEF SynthCall, card, silence, calls, TypeOK
<1>7. CASE SynthFull
  BY <1>7 DEF SynthFull, card, silence, stream, calls, TypeOK
<1>8. CASE SynthFeed
  BY <1>8 DEF SynthFeed, Consumes, silence, stream, calls, TypeOK
<1>9. CASE SynthSettles
  BY <1>9 DEF SynthSettles, card, silence, stream, calls, TypeOK
<1>10. CASE SynthRuns
  <2>1. RunAndPull  BY <1>10 DEF SynthRuns
  <2>2. idle_stable' \in 0..Settle
    <3>1. idle_stable \in 0..Settle /\ Settle \in Nat  BY DEF TypeOK
    <3>2. queue = 0 /\ ~card_busy => idle_stable < Settle
      BY <1>10, <3>1 DEF SynthRuns, Settled
    <3>3. idle_stable' = IF queue = 0 /\ ~card_busy THEN idle_stable + 1 ELSE 0
      BY <1>10 DEF SynthRuns
    <3> QED BY <3>1, <3>2, <3>3
  <2>3. marks' \in Seq(Mark)
    <3>1. marks \in Seq(Mark)  BY DEF TypeOK
    <3>2. \A m \in Mark : Append(marks, m) \in Seq(Mark)
      BY <3>1, AppendProperties
    <3> QED BY <2>1, <3>1, <3>2, RunMoves
  <2>4. queue' = queue /\ UNCHANGED calls /\ settled' = settled
    BY <2>1 DEF RunAndPull
  <2> QED BY <2>1, <2>2, <2>3, <2>4, RunMoves, RunTypes DEF calls, TypeOK
<1>11. CASE UNCHANGED vars
  BY <1>11 DEF vars, card, silence, stream, calls, TypeOK
<1> QED BY <1>1, <1>2, <1>3, <1>4, <1>5, <1>6, <1>7, <1>8, <1>9, <1>10, <1>11
        DEF Next, SynthStep

(* Every variable of dtalk keeps its type, for every chunk size and cap.   *)
THEOREM TypeCorrect == Spec => []TypeOK
BY TypeInit, TypeStep, PTL DEF Spec

-----------------------------------------------------------------------------
(* What the counters say the grid is.                                      *)
sum == samples_base + samples_dropped + delivered + carry

(* The sample accounting survives every step.                              *)
LEMMA GridStep == TypeOK /\ GridAccounted /\ [Next]_vars => GridAccounted'
<1> SUFFICES ASSUME TypeOK, GridAccounted, [Next]_vars, booted'
             PROVE  sum' = grid' - 1 \/ sum' = grid'
  BY DEF GridAccounted, Floored, sum
<1>0. /\ grid \in Nat /\ carry \in Nat /\ delivered \in Nat
      /\ samples_dropped \in Nat /\ samples_base \in Nat /\ left \in Nat
  BY DEF TypeOK
<1>1. ASSUME UNCHANGED <<stream, booted>> PROVE sum' = grid' - 1 \/ sum' = grid'
  BY <1>1 DEF stream, GridAccounted, Floored, sum
<1>2. CASE Queue \/ SetPauseCap \/ ReadIndexMarks \/ SynthFull \/ SynthFeed \/ SynthSettles
           \/ UNCHANGED vars
  BY <1>1, <1>2 DEF Queue, SetPauseCap, ReadIndexMarks, SynthFull, SynthFeed, SynthSettles,
                    vars, calls
<1>3. CASE Stop
  <2>1. PICK n \in ChunkSamples : DropPendingAudio(n)
    BY <1>3 DEF Stop
  <2>2. n \in Nat  BY ChunkNat
  <2>3. /\ grid' = grid + n /\ samples_dropped' = samples_dropped + n + carry /\ carry' = 0
        /\ samples_base' = samples_base /\ delivered' = delivered
    BY <1>3, <2>1 DEF Stop, DropPendingAudio
  <2>4. sum = grid - 1 \/ sum = grid  BY <1>3 DEF Stop, GridAccounted, Floored, sum
  <2> QED BY <1>0, <2>2, <2>3, <2>4 DEF sum
<1>4. CASE Reset
  <2>1. BootSucceeds  BY <1>4 DEF Reset
  <2>2. /\ carry' = 0 /\ samples_dropped' = 0 /\ delivered' = 0
        /\ samples_base' = grid' - 1 \/ samples_base' = grid'
    BY <1>4, <2>1 DEF Reset, Floored
  <2>3. PICK n \in ChunkSamples : grid' = grid + n
    BY <1>4, <2>1 DEF Reset
  <2>4. n \in Nat  BY ChunkNat
  <2> QED BY <1>0, <2>2, <2>3, <2>4 DEF sum
<1>5. CASE SynthCall
  <2>1. PICK w \in Wants : Drain(carry, w)
    BY <1>5 DEF SynthCall
  <2>2. w \in Nat  BY DtalkAssumption DEF DtalkAssumption
  <2>3. \E t \in 0..carry : carry' = carry - t /\ delivered' = delivered + t
    BY <1>0, <2>1, <2>2, DrainMoves
  <2>4. /\ grid' = grid /\ samples_dropped' = samples_dropped
        /\ samples_base' = samples_base /\ booted
    BY <1>5 DEF SynthCall, calls
  <2>5. sum = grid - 1 \/ sum = grid  BY <2>4 DEF GridAccounted, Floored, sum
  <2> QED BY <1>0, <2>3, <2>4, <2>5 DEF sum
<1>6. CASE SynthRuns
  <2>1. RunAndPull /\ booted  BY <1>6 DEF SynthRuns, RunAndPull, calls
  <2>2. \E n, k, t \in Nat :
          /\ grid' = grid + n
          /\ samples_dropped' = samples_dropped + (n - k)
          /\ delivered' = delivered + t
          /\ carry' = (carry + k) - t
    BY <2>1, RunMoves
  <2>3. samples_base' = samples_base  BY <2>1, RunMoves
  <2>4. sum = grid - 1 \/ sum = grid  BY <2>1 DEF GridAccounted, Floored, sum
  <2> QED BY <1>0, <2>2, <2>3, <2>4 DEF sum
<1> QED BY <1>2, <1>3, <1>4, <1>5, <1>6 DEF Next, SynthStep

(* dtalk.cpp:474-477: whatever is queued, cancelled, trimmed, reset or     *)
(* read, no sample of the grid is lost from or counted twice in the books, *)
(* and the sample boot may round away stays one.                           *)
THEOREM Accounting == Spec => []GridAccounted
<1>1. Init => GridAccounted
  BY ChunkNat DEF Init, GridAccounted, Floored
<1> QED BY <1>1, TypeInit, TypeStep, GridStep, PTL DEF Spec

(* A step adds at most one mark, and not a late one.                       *)
LEMMA MarksStep ==
  TypeOK /\ GridAccounted /\ MarksNotLate /\ [Next]_vars => MarksNotLate'
<1> SUFFICES ASSUME TypeOK, GridAccounted, MarksNotLate, [Next]_vars, booted'
             PROVE  \A i \in DOMAIN marks' : Placed(marks'[i])
  BY DEF MarksNotLate, Placed
<1>0. marks \in Seq(Mark)  BY DEF TypeOK
<1>1. ASSUME UNCHANGED <<marks, booted>> PROVE \A i \in DOMAIN marks' : Placed(marks'[i])
  BY <1>1 DEF MarksNotLate, Placed
<1>2. CASE Queue \/ SetPauseCap \/ SynthCall \/ SynthFull \/ SynthFeed \/ SynthSettles
           \/ UNCHANGED vars
  BY <1>1, <1>2 DEF Queue, SetPauseCap, SynthCall, SynthFull, SynthFeed, SynthSettles, vars, calls
<1>3. CASE Stop \/ Reset
  <2>1. marks' = <<>>  BY <1>3 DEF Stop, Reset, Clears
  <2>2. DOMAIN <<>> = {}  OBVIOUS
  <2> QED BY <2>1, <2>2
<1>4. CASE ReadIndexMarks
  <2>1. PICK n \in 1..Len(marks) : marks' = SubSeq(marks, n + 1, Len(marks))
    BY <1>4 DEF ReadIndexMarks
  <2>2. booted  BY <1>4 DEF ReadIndexMarks, calls
  <2>3. Len(marks) \in Nat /\ n \in Nat  BY <1>0, <2>1, LenProperties
  <2>4. ASSUME NEW i \in DOMAIN marks' PROVE Placed(marks'[i])
    <3>1. DOMAIN marks' = 1..(Len(marks) - n) /\ marks'[i] = marks[i + n]
      BY <1>0, <2>1, <2>3, <2>4
    <3>2. i + n \in DOMAIN marks
      BY <3>1, <1>0, <2>1, <2>3, LenProperties
    <3> QED BY <3>1, <3>2, <2>2 DEF MarksNotLate, Placed
  <2> QED BY <2>4
<1>5. CASE SynthRuns
  <2>1. RunAndPull /\ booted  BY <1>5 DEF SynthRuns, RunAndPull, calls
  <2>2. CASE marks' = marks
    BY <1>1, <2>1, <2>2 DEF RunAndPull, calls
  <2>3. CASE \E m \in Mark : marks' = Append(marks, m) /\ (GridAccounted /\ booted => Placed(m))
    <3>1. PICK m \in Mark : marks' = Append(marks, m) /\ Placed(m)
      BY <2>1, <2>3
    <3>2. /\ Len(marks') = Len(marks) + 1 /\ marks' \in Seq(Mark)
          /\ \A i \in 1..Len(marks) : marks'[i] = marks[i]
          /\ marks'[Len(marks) + 1] = m
      BY <1>0, <3>1, AppendProperties
    <3>3. Len(marks) \in Nat /\ DOMAIN marks = 1..Len(marks) /\ DOMAIN marks' = 1..Len(marks')
      BY <1>0, <3>2, LenProperties
    <3>4. \A i \in 1..Len(marks) : Placed(marks[i])
      BY <2>1, <3>3 DEF MarksNotLate, Placed
    <3>5. ASSUME NEW i \in DOMAIN marks' PROVE Placed(marks'[i])
      <4>1. i \in 1..Len(marks) \/ i = Len(marks) + 1
        BY <3>2, <3>3, <3>5
      <4> QED BY <4>1, <3>1, <3>2, <3>4
    <3> QED BY <3>5
  <2> QED BY <2>1, <2>2, <2>3, RunMoves
<1> QED BY <1>2, <1>3, <1>4, <1>5 DEF Next, SynthStep

(* dtalk.cpp:516-520: however much is trimmed and cancelled, an index mark *)
(* is never placed after the sample at which it fired, nor after the next  *)
(* one when boot rounded a sample away.                                    *)
THEOREM Marks == Spec => []MarksNotLate
<1>1. Init => GridAccounted /\ MarksNotLate
  <2>1. ASSUME Init PROVE DOMAIN marks = {}
    BY <2>1 DEF Init
  <2> QED BY <2>1, ChunkNat DEF Init, GridAccounted, Floored, MarksNotLate
<1> QED BY <1>1, TypeInit, TypeStep, GridStep, MarksStep, PTL DEF Spec

-----------------------------------------------------------------------------
(* Why an idle card that settles has nothing left to say: while there are  *)
(* bytes to come the idle count is zero, and while the firmware is silent  *)
(* before SYNC the count cannot outgrow that silence.                      *)
IdleInv ==
  /\ queue > 0 => idle_stable = 0
  /\ buffered > 0 => idle_stable = 0
  /\ gap > 0 => idle_stable + gap <= MaxGap
  /\ synth # "out" => ~settled
  /\ IdleIsDone

(* IdleInv survives every step.                                            *)
LEMMA IdleStep == TypeOK /\ IdleInv /\ [Next]_vars => IdleInv'
<1> SUFFICES ASSUME TypeOK, IdleInv, [Next]_vars PROVE IdleInv'
  OBVIOUS
<1> USE DtalkAssumption DEF DtalkAssumption
<1>0. /\ idle_stable \in Nat /\ queue \in Nat /\ buffered \in Nat /\ gap \in 0..MaxGap
      /\ sync \in Nat /\ MaxGap \in Nat
  BY DEF TypeOK
<1>1. CASE Queue
  BY <1>0, <1>1 DEF Queue, card, IdleInv, IdleIsDone
<1>2. CASE Stop \/ Reset
  BY <1>2 DEF Stop, Reset, Clears, IdleInv, IdleIsDone, CardIdle
<1>3. CASE SetPauseCap \/ ReadIndexMarks \/ SynthFull \/ UNCHANGED vars
  BY <1>3 DEF SetPauseCap, ReadIndexMarks, SynthFull, vars, card, IdleInv, IdleIsDone, CardIdle
<1>4. CASE SynthCall
  BY <1>4 DEF SynthCall, card, IdleInv, IdleIsDone
<1>5. CASE SynthFeed
  <2>1. ~settled /\ ~settled' /\ idle_stable' = idle_stable
    BY <1>5 DEF SynthFeed, IdleInv
  <2>2. PICK m \in 0..queue :
          /\ queue' = queue - m
          /\ \/ buffered' = buffered + m /\ UNCHANGED <<gap, sync>>
             \/ m > 0 /\ Consumes(buffered + m)
    BY <1>5 DEF SynthFeed
  <2>3. queue' > 0 => idle_stable = 0
    BY <1>0, <2>2 DEF IdleInv
  <2>4. buffered' > 0 => idle_stable = 0
    BY <1>0, <2>2 DEF IdleInv, Consumes
  <2>5. gap' > 0 => idle_stable + gap' <= MaxGap
    BY <1>0, <2>2 DEF IdleInv, Consumes
  <2> QED BY <2>1, <2>3, <2>4, <2>5 DEF IdleInv, IdleIsDone
<1>6. CASE SynthSettles
  <2>1. queue = 0 /\ sync = 0 /\ buffered = 0 /\ idle_stable >= Settle
    BY <1>0, <1>6 DEF SynthSettles, Settled, card_busy
  <2>2. gap = 0
    BY <1>0, <2>1 DEF IdleInv
  <2> QED BY <1>6, <2>1, <2>2 DEF SynthSettles, card, IdleInv, IdleIsDone, CardIdle
<1>7. CASE SynthRuns
  <2>1. ~settled' /\ queue' = queue
    BY <1>7 DEF SynthRuns, RunAndPull, IdleInv
  <2>2. idle_stable' = IF queue = 0 /\ ~card_busy THEN idle_stable + 1 ELSE 0
    BY <1>7 DEF SynthRuns
  <2>3. CardRuns
    BY <1>7 DEF SynthRuns, RunAndPull
  <2>4. CASE queue = 0 /\ ~card_busy
    <3>1. buffered = 0 /\ sync = 0
      BY <1>0, <2>4 DEF card_busy
    <3>2. /\ buffered' = 0
          /\ gap' = 0 \/ (gap > 0 /\ gap' = gap - 1)
      BY <1>0, <2>3, <3>1 DEF CardRuns, Consumes, CardIdle, card
    <3>3. gap' > 0 => (idle_stable + 1) + gap' <= MaxGap
      BY <1>0, <3>2 DEF IdleInv
    <3> QED BY <2>1, <2>2, <2>4, <3>2, <3>3 DEF IdleInv, IdleIsDone
  <2>5. CASE ~(queue = 0 /\ ~card_busy)
    <3>1. idle_stable' = 0  BY <2>2, <2>5
    <3>4. gap' > 0 => 0 + gap' <= MaxGap
      <4>1. gap' = gap \/ gap' = gap - 1 \/ gap' \in 1..MaxGap
        BY <1>0, <2>3 DEF CardRuns, Consumes, CardIdle, card
      <4>3. CASE gap' = gap  BY <1>0, <4>3
      <4>4. CASE gap' = gap - 1  BY <1>0, <4>4
      <4>5. CASE gap' \in 1..MaxGap
        <5>1. \A g \in 1..MaxGap : g > 0 => 0 + g <= MaxGap
          BY <1>0
        <5> QED BY <4>5, <5>1, Zenon
      <4> QED BY <4>1, <4>3, <4>4, <4>5
    <3> QED BY <2>1, <3>1, <3>4 DEF IdleInv, IdleIsDone
  <2> QED BY <2>4, <2>5
<1> QED BY <1>1, <1>2, <1>3, <1>4, <1>5, <1>6, <1>7 DEF Next, SynthStep

(* dtalk.h:92-94: whatever the settle time and the firmware's silence, as  *)
(* long as the first is longer, dtalk_synth stops short only when all that *)
(* was queued has been spoken.                                             *)
THEOREM Idle == Spec => []IdleIsDone
<1>1. Init => IdleInv
  BY DEF Init, IdleInv, IdleIsDone
<1>2. IdleInv => IdleIsDone
  BY DEF IdleInv
<1> QED BY <1>1, <1>2, TypeInit, TypeStep, IdleStep, PTL DEF Spec

(* dtalk.h:92-94.  A call that comes back short leaves nothing queued and  *)
(* the card with nothing to say: the resampler may take the end of the     *)
(* samples it gets for the end of the utterance (dtalk.cpp:840).           *)
THEOREM ShortIsIdle ==
  Spec => [][synth # "out" /\ synth' = "out" /\ left' > 0 => queue' = 0 /\ CardIdle']_vars
<1>1. Init => IdleInv
  BY DEF Init, IdleInv, IdleIsDone
<1>2. TypeOK /\ IdleInv /\ IdleInv' /\ [Next]_vars
        => [synth # "out" /\ synth' = "out" /\ left' > 0 => queue' = 0 /\ CardIdle']_vars
  <2> SUFFICES ASSUME TypeOK, IdleInv', Next, synth # "out", synth' = "out", left' > 0
               PROVE  queue' = 0 /\ CardIdle'
    BY DEF IdleInv
  <2>1. SynthFull \/ SynthFeed \/ SynthSettles \/ SynthRuns
    BY DEF Next, SynthStep, Queue, Stop, Reset, Clears, SetPauseCap, ReadIndexMarks, SynthCall,
           Outside
  <2>2. ~SynthFull  BY DEF SynthFull, TypeOK
  <2>3. ~SynthFeed /\ ~SynthRuns  BY DEF SynthFeed, SynthRuns, RunAndPull
  <2>4. settled'  BY <2>1, <2>2, <2>3 DEF SynthSettles
  <2> QED BY <2>4 DEF IdleInv, IdleIsDone
<1> QED BY <1>1, <1>2, TypeInit, TypeStep, IdleStep, PTL DEF Spec

-----------------------------------------------------------------------------
(* How long a call may go on at most: for the text still to be said, in    *)
(* chunks, and then for the card to settle.  A round is spent for nothing  *)
(* only when the card waits for the next byte.                             *)
ToSay(q, b, g, s) ==
  q + (q + b) * (MaxGap + MaxSpeech + 1) + g + (IF g > 0 THEN MaxSpeech ELSE 0) + s
Waits == queue > 0 /\ CardIdle
Countdown(toSay, idle, spare) == 2 * ((Settle + 1) * toSay + (Settle - idle)) + spare
Spare == IF synth = "feed" THEN (IF Waits THEN 0 ELSE 1) ELSE (IF Waits THEN 1 ELSE 0)
Variant == Countdown(ToSay(queue, buffered, gap, sync), idle_stable, Spare)

LEMMA CountsDown ==
  ASSUME NEW x \in Nat, NEW y \in Nat, NEW i \in 0..Settle, NEW j \in 0..Settle,
         NEW p \in {0, 1}, NEW q \in {0, 1},
         y < x \/ (y = x /\ j > i) \/ (y = x /\ j = i /\ q < p)
  PROVE  Countdown(x, i, p) \in Nat /\ Countdown(y, j, q) \in Nat
         /\ Countdown(y, j, q) < Countdown(x, i, p)
<1> DEFINE f == (Settle + 1) * x
           g == (Settle + 1) * y
<1>0. Settle \in Nat  BY DtalkAssumption
<1>1. f \in Nat /\ g \in Nat  BY <1>0
<1>2. y < x => g + Settle + 1 <= f
  <2> SUFFICES ASSUME y < x PROVE g + Settle + 1 <= f
    OBVIOUS
  <2>1. PICK d \in Nat : x = y + 1 + d  BY SMT
  <2>2. f = g + (Settle + 1) + (Settle + 1) * d  BY <1>0, <2>1
  <2>3. (Settle + 1) * d \in Nat  BY <1>0
  <2> HIDE DEF f, g
  <2> QED BY <1>0, <1>1, <2>2, <2>3
<1>3. y = x => g = f  OBVIOUS
<1>4. /\ Countdown(x, i, p) = 2 * (f + (Settle - i)) + p
      /\ Countdown(y, j, q) = 2 * (g + (Settle - j)) + q
  BY DEF Countdown
<1> HIDE DEF f, g
<1> QED BY <1>0, <1>1, <1>2, <1>3, <1>4

(* A byte is worth more than all that it can make the card do.             *)
LEMMA Said ==
  ASSUME NEW q \in Nat, NEW b \in Nat, NEW g \in 0..MaxGap, NEW s \in 0..MaxSpeech
  PROVE  /\ ToSay(q, b, g, s) \in Nat
         /\ \A m \in 1..q : ToSay(q - m, b + m, g, s) < ToSay(q, b, g, s)
         /\ s > 0 => ToSay(q, b, g, s - 1) < ToSay(q, b, g, s)
         /\ g > 1 => ToSay(q, b, g - 1, s) < ToSay(q, b, g, s)
         /\ g = 1 => \A t \in 0..MaxSpeech :
                       s = 0 => ToSay(q, b, 0, t) < ToSay(q, b, g, s)
         /\ b > 0 /\ g = 0 /\ s = 0 =>
              \A h \in 0..MaxGap, t \in 0..MaxSpeech :
                h = 0 \/ t = 0 => ToSay(q, b - 1, h, t) < ToSay(q, b, g, s)
<1> DEFINE k == MaxGap + MaxSpeech + 1
           w == (q + b) * k
<1>0. MaxGap \in Nat /\ MaxSpeech \in Nat /\ k \in Nat /\ w \in Nat
  BY DtalkAssumption
<1>1. \A m \in 1..q : ((q - m) + (b + m)) * k = w
  <2>1. \A m \in 1..q : (q - m) + (b + m) = q + b  OBVIOUS
  <2> QED BY <2>1
<1>2. b > 0 => (q + (b - 1)) * k = w - k
  <2>1. q + (b - 1) = (q + b) - 1  OBVIOUS
  <2>2. ((q + b) - 1) * k = (q + b) * k - k  BY <1>0
  <2> QED BY <2>1, <2>2
<1>3. \A h, t : /\ ToSay(q, b, h, t) = q + w + h + (IF h > 0 THEN MaxSpeech ELSE 0) + t
                /\ \A m \in 1..q : ToSay(q - m, b + m, h, t)
                     = (q - m) + w + h + (IF h > 0 THEN MaxSpeech ELSE 0) + t
                /\ b > 0 => ToSay(q, b - 1, h, t)
                     = q + (w - k) + h + (IF h > 0 THEN MaxSpeech ELSE 0) + t
  BY <1>1, <1>2 DEF ToSay
<1>4. b > 0 => w >= k
  <2> SUFFICES ASSUME b > 0 PROVE w >= k
    OBVIOUS
  <2>1. (q + (b - 1)) * k \in Nat  BY <1>0
  <2> HIDE DEF w, k
  <2> QED BY <1>0, <1>2, <2>1
<1> DEFINE o == IF g > 0 THEN MaxSpeech ELSE 0
<1>5. ToSay(q, b, g, s) = q + w + g + o + s
  BY <1>3
<1>6. o \in Nat /\ (g = 0 => o = 0) /\ (g > 0 => o = MaxSpeech)
  BY <1>0
<1> HIDE DEF w, k, o
<1>7. ToSay(q, b, g, s) \in Nat
  BY <1>0, <1>5, <1>6
<1>8. \A m \in 1..q : ToSay(q - m, b + m, g, s) < ToSay(q, b, g, s)
  <2> TAKE m \in 1..q
  <2>1. ToSay(q - m, b + m, g, s) = (q - m) + w + g + o + s  BY <1>3 DEF o
  <2> QED BY <1>0, <1>5, <1>6, <2>1
<1>9. s > 0 => ToSay(q, b, g, s - 1) < ToSay(q, b, g, s)
  <2>1. ToSay(q, b, g, s - 1) = q + w + g + o + (s - 1)  BY <1>3 DEF o
  <2> QED BY <1>0, <1>5, <1>6, <2>1
<1>10. g > 1 => ToSay(q, b, g - 1, s) < ToSay(q, b, g, s)
  <2> SUFFICES ASSUME g > 1 PROVE ToSay(q, b, g - 1, s) < ToSay(q, b, g, s)
    OBVIOUS
  <2>1. g - 1 > 0  BY <1>0
  <2>2. ToSay(q, b, g - 1, s) = q + w + (g - 1) + MaxSpeech + s  BY <1>3, <2>1
  <2> QED BY <1>0, <1>5, <1>6, <2>2
<1>11. g = 1 => \A t \in 0..MaxSpeech : s = 0 => ToSay(q, b, 0, t) < ToSay(q, b, g, s)
  <2> SUFFICES ASSUME g = 1, NEW t \in 0..MaxSpeech, s = 0
               PROVE  ToSay(q, b, 0, t) < ToSay(q, b, g, s)
    OBVIOUS
  <2>1. ToSay(q, b, 0, t) = q + w + 0 + 0 + t  BY <1>3
  <2> QED BY <1>0, <1>5, <1>6, <2>1
<1>12. b > 0 /\ g = 0 /\ s = 0 =>
         \A h \in 0..MaxGap, t \in 0..MaxSpeech :
           h = 0 \/ t = 0 => ToSay(q, b - 1, h, t) < ToSay(q, b, g, s)
  <2> SUFFICES ASSUME b > 0, g = 0, s = 0,
                      NEW h \in 0..MaxGap, NEW t \in 0..MaxSpeech, h = 0 \/ t = 0
               PROVE  ToSay(q, b - 1, h, t) < ToSay(q, b, g, s)
    OBVIOUS
  <2> DEFINE u == IF h > 0 THEN MaxSpeech ELSE 0
  <2>1. ToSay(q, b - 1, h, t) = q + (w - k) + h + u + t  BY <1>3
  <2>2. u \in 0..MaxSpeech /\ (h = 0 => u = 0)  BY <1>0
  <2>3. k = MaxGap + MaxSpeech + 1  BY DEF k
  <2> HIDE DEF u
  <2> QED BY <1>0, <1>4, <1>5, <1>6, <2>1, <2>2, <2>3
<1> QED BY <1>7, <1>8, <1>9, <1>10, <1>11, <1>12

(* dtalk.cpp:711-750.  Whatever is queued, trimmed and asked for, each     *)
(* turn of dtalk_synth's loop brings its end nearer: it does not go on for *)
(* ever, whether it finds samples or not.                                  *)
THEOREM SynthEnds ==
  Spec => [][synth # "out" /\ synth' # "out" => Variant' \in Nat /\ Variant' < Variant]_vars
<1>1. Init => IdleInv
  BY DEF Init, IdleInv, IdleIsDone
<1>2. TypeOK /\ TypeOK' /\ IdleInv /\ [Next]_vars
        => [synth # "out" /\ synth' # "out" => Variant' \in Nat /\ Variant' < Variant]_vars
  <2> SUFFICES ASSUME TypeOK, TypeOK', IdleInv, Next, synth # "out", synth' # "out"
               PROVE  Variant' \in Nat /\ Variant' < Variant
    OBVIOUS
  <2>0. /\ queue \in Nat /\ buffered \in Nat /\ gap \in 0..MaxGap /\ sync \in 0..MaxSpeech
        /\ idle_stable \in 0..Settle /\ idle_stable' \in 0..Settle
        /\ queue' \in Nat /\ buffered' \in Nat /\ gap' \in 0..MaxGap /\ sync' \in 0..MaxSpeech
        /\ MaxGap \in Nat /\ MaxSpeech \in Nat /\ Settle \in Nat
    BY DtalkAssumption DEF TypeOK
  <2>1. PICK x \in Nat, y \in Nat : /\ x = ToSay(queue, buffered, gap, sync)
                                    /\ y = ToSay(queue', buffered', gap', sync')
    BY <2>0, Said
  <2>2. PICK p \in {0, 1}, q \in {0, 1} : p = Spare /\ q = Spare'
    BY DEF Spare
  <2>3. Variant = Countdown(x, idle_stable, p) /\ Variant' = Countdown(y, idle_stable', q)
    BY <2>1, <2>2 DEF Variant, Countdown
  <2>4. SUFFICES \/ y < x
                 \/ y = x /\ idle_stable' > idle_stable
                 \/ y = x /\ idle_stable' = idle_stable /\ q < p
    BY <2>0, <2>3, CountsDown
  <2>5. SynthFeed \/ SynthRuns
    BY DEF Next, SynthStep, Queue, Stop, Reset, Clears, SetPauseCap, ReadIndexMarks, SynthCall,
           Outside, SynthFull, SynthSettles
  <2>6. CASE SynthFeed
    <3>1. PICK m \in 0..queue :
            /\ m < queue => buffered + m > 0
            /\ queue' = queue - m
            /\ \/ buffered' = buffered + m /\ UNCHANGED <<gap, sync>>
               \/ m > 0 /\ Consumes(buffered + m)
      BY <2>6 DEF SynthFeed
    <3>2. synth = "feed" /\ synth' = "run" /\ idle_stable' = idle_stable
      BY <2>6 DEF SynthFeed
    <3>3. CASE m = 0
      <4>1. UNCHANGED <<queue, buffered, gap, sync>>
        BY <2>0, <3>1, <3>3
      <4>2. y = x  BY <2>1, <4>1
      <4>3. ~Waits /\ ~Waits'
        BY <2>0, <3>1, <3>3, <4>1 DEF Waits, CardIdle
      <4>4. p = 1 /\ q = 0  BY <2>2, <3>2, <4>3 DEF Spare
      <4> QED BY <3>2, <4>2, <4>4
    <3>4. CASE m > 0
      <4>1. m \in 1..queue /\ queue - m \in Nat /\ buffered + m \in Nat
        BY <2>0, <3>4
      <4>2. ToSay(queue - m, buffered + m, gap, sync) < x
        BY <2>0, <2>1, <4>1, Said
      <4>3. CASE buffered' = buffered + m /\ UNCHANGED <<gap, sync>>
        BY <2>1, <3>1, <4>2, <4>3
      <4>4. CASE Consumes(buffered + m)
        <5>1. /\ sync = 0 /\ gap = 0 /\ buffered + m > 0 /\ buffered' = (buffered + m) - 1
              /\ gap' = 0 \/ sync' = 0
          BY <4>4 DEF Consumes
        <5>2. ToSay(queue - m, (buffered + m) - 1, gap', sync')
                < ToSay(queue - m, buffered + m, gap, sync)
          BY <2>0, <4>1, <5>1, Said
        <5>3. ToSay(queue - m, buffered + m, gap, sync) \in Nat
          BY <2>0, <4>1, Said
        <5>4. y < ToSay(queue - m, buffered + m, gap, sync)
          BY <2>1, <3>1, <5>1, <5>2
        <5> QED BY <4>2, <5>3, <5>4
      <4> QED BY <3>1, <4>3, <4>4
    <3> QED BY <2>0, <3>1, <3>3, <3>4
  <2>7. CASE SynthRuns
    <3>1. /\ synth = "run" /\ synth' = "feed" /\ queue' = queue /\ CardRuns
          /\ idle_stable' = IF queue = 0 /\ ~card_busy THEN idle_stable + 1 ELSE 0
      BY <2>7 DEF SynthRuns, RunAndPull
    <3>2. CASE sync > 0 /\ sync' = sync - 1 /\ UNCHANGED <<buffered, gap>>
      BY <2>0, <2>1, <3>1, <3>2, Said
    <3>3. CASE /\ sync = 0 /\ gap > 0 /\ gap' = gap - 1 /\ UNCHANGED buffered
               /\ IF gap = 1 THEN sync' \in 1..MaxSpeech ELSE UNCHANGED sync
      <4>1. CASE gap = 1
        <5>1. gap' = 0 /\ sync' \in 0..MaxSpeech  BY <2>0, <3>3, <4>1
        <5>2. ToSay(queue, buffered, 0, sync') < ToSay(queue, buffered, gap, sync)
          BY <2>0, <3>3, <4>1, <5>1, Said
        <5> QED BY <2>1, <3>1, <3>3, <5>1, <5>2
      <4>2. CASE gap > 1
        BY <2>0, <2>1, <3>1, <3>3, <4>2, Said
      <4> QED BY <2>0, <3>3, <4>1, <4>2
    <3>4. CASE Consumes(buffered)
      <4>1. /\ sync = 0 /\ gap = 0 /\ buffered > 0 /\ buffered' = buffered - 1
            /\ gap' = 0 \/ sync' = 0
        BY <3>4 DEF Consumes
      <4>2. ToSay(queue, buffered - 1, gap', sync') < ToSay(queue, buffered, gap, sync)
        BY <2>0, <4>1, Said
      <4> QED BY <2>1, <3>1, <4>1, <4>2
    <3>5. CASE CardIdle /\ UNCHANGED card
      <4>1. y = x /\ (Waits' <=> Waits) /\ ~card_busy
        BY <2>0, <2>1, <3>1, <3>5 DEF card, Waits, CardIdle, card_busy
      <4>2. CASE queue = 0
        BY <2>0, <3>1, <4>1, <4>2
      <4>3. CASE queue > 0
        <5>1. idle_stable' = idle_stable
          BY <2>0, <3>1, <4>3 DEF IdleInv
        <5>2. Waits  BY <3>5, <4>3 DEF Waits
        <5>3. p = 1 /\ q = 0  BY <2>2, <3>1, <4>1, <5>2 DEF Spare
        <5> QED BY <4>1, <5>1, <5>3
      <4> QED BY <2>0, <4>2, <4>3
    <3> QED BY <3>1, <3>2, <3>3, <3>4, <3>5 DEF CardRuns
  <2> QED BY <2>5, <2>6, <2>7
<1> QED BY <1>1, <1>2, TypeInit, TypeStep, IdleStep, PTL DEF Spec

-----------------------------------------------------------------------------
(* Why the lead-in cap holds after a stop: heard_speech then says exactly  *)
(* whether the utterance has sounded, and until it has, all silence kept   *)
(* for it is in silence_run.                                               *)
LeadInv ==
  /\ stopped => fresh /\ queue = 0 /\ CardIdle /\ ~spoke
  /\ fresh =>
       /\ heard_speech <=> spoke
       /\ ~spoke => lead <= silence_run /\ silence_run <= LeadIn
       /\ lead <= LeadIn

(* LeadInv survives every step.                                            *)
LEMMA LeadStep == TypeOK /\ LeadInv /\ [Next]_vars => LeadInv'
<1> SUFFICES ASSUME TypeOK, LeadInv, [Next]_vars PROVE LeadInv'
  OBVIOUS
<1>0. /\ lead \in Nat /\ silence_run \in Nat /\ LeadIn \in Nat /\ LeadIn # 0
      /\ queue \in Nat /\ buffered \in Nat /\ gap \in Nat /\ sync \in Nat
  BY DtalkAssumption DEF DtalkAssumption, TypeOK
<1>1. CASE Queue
  <2>1. ~stopped' /\ UNCHANGED <<silence_run, heard_speech>>
    BY <1>1 DEF Queue
  <2>2. CASE queue = 0 /\ CardIdle
    <3>1. lead' = 0 /\ ~spoke' /\ fresh' = stopped
      BY <1>1, <2>2 DEF Queue
    <3>2. SUFFICES ASSUME fresh' PROVE LeadInv'
      BY <2>1 DEF LeadInv
    <3>3. stopped
      BY <3>1, <3>2, Zenon
    <3>4. fresh /\ ~spoke /\ ~heard_speech /\ silence_run <= LeadIn
      BY <3>3 DEF LeadInv
    <3> QED BY <1>0, <2>1, <3>1, <3>4 DEF LeadInv
  <2>3. CASE ~(queue = 0 /\ CardIdle)
    <3>1. UNCHANGED <<lead, spoke, fresh>>
      BY <1>1, <2>3 DEF Queue
    <3> QED BY <2>1, <3>1 DEF LeadInv
  <2> QED BY <2>2, <2>3
<1>2. CASE Stop \/ Reset
  BY <1>0, <1>2 DEF Stop, Reset, Clears, LeadInv, CardIdle
<1>3. CASE SetPauseCap \/ ReadIndexMarks \/ SynthCall \/ SynthFull \/ SynthSettles
           \/ UNCHANGED vars
  BY <1>3 DEF SetPauseCap, ReadIndexMarks, SynthCall, SynthFull, SynthSettles, vars, card,
              silence, calls, LeadInv, CardIdle
<1>4. CASE SynthFeed
  <2>1. UNCHANGED <<silence, stopped>>
    BY <1>4 DEF SynthFeed, calls
  <2>2. stopped => queue' = 0 /\ CardIdle'
    <3>1. SUFFICES ASSUME stopped PROVE queue' = 0 /\ CardIdle'
      OBVIOUS
    <3>2. queue = 0 /\ buffered = 0 /\ gap = 0 /\ sync = 0
      BY <3>1 DEF LeadInv, CardIdle
    <3>3. PICK m \in 0..queue :
            /\ queue' = queue - m
            /\ \/ buffered' = buffered + m /\ UNCHANGED <<gap, sync>>
               \/ m > 0 /\ Consumes(buffered + m)
      BY <1>4 DEF SynthFeed
    <3>4. m = 0  BY <3>2, <3>3
    <3> QED BY <3>2, <3>3, <3>4 DEF CardIdle
  <2> QED BY <2>1, <2>2 DEF silence, LeadInv
<1>5. CASE SynthRuns
  <2>1. PICK n \in ChunkSamples : \E a, s \in 0..n :
          a + s <= n /\ (sync = 0 \/ s = 0 => a = n) /\ Pull(a, s, n - a - s)
    BY <1>5 DEF SynthRuns, RunAndPull
  <2>2. n \in Nat /\ n > 0  BY ChunkNat
  <2>3. PICK a \in 0..n, s \in 0..n :
          a + s <= n /\ (sync = 0 \/ s = 0 => a = n) /\ Pull(a, s, n - a - s)
    BY <2>1
  <2>4. PICK k \in Nat : k = KeptBefore(a)
    BY <2>2, <2>3, KeptOfBounds
  <2>5. a \in Nat /\ s \in Nat  BY <2>2
  <2>6. /\ silence_run' = IF s = 0 THEN silence_run + k ELSE KeptAfter(n - a - s)
        /\ heard_speech' = (heard_speech \/ s > 0)
        /\ spoke' = (spoke \/ s > 0)
        /\ lead' = IF spoke THEN lead ELSE lead + k
        /\ fresh' = fresh
    BY <2>3, <2>4 DEF Pull
  <2>7. stopped' = stopped /\ queue' = queue /\ CardRuns
    BY <1>5 DEF SynthRuns, RunAndPull, calls
  <2>8. stopped => s = 0 /\ UNCHANGED card
    <3>1. SUFFICES ASSUME stopped PROVE s = 0 /\ UNCHANGED card
      OBVIOUS
    <3>2. buffered = 0 /\ gap = 0 /\ sync = 0
      BY <3>1 DEF LeadInv, CardIdle
    <3>3. s = 0  BY <2>2, <2>3, <2>5, <3>2
    <3> QED BY <2>7, <3>2, <3>3 DEF CardRuns, Consumes
  <2>9. stopped' => fresh' /\ queue' = 0 /\ CardIdle' /\ ~spoke'
    <3>1. SUFFICES ASSUME stopped' PROVE fresh' /\ queue' = 0 /\ CardIdle' /\ ~spoke'
      OBVIOUS
    <3>2. fresh /\ queue = 0 /\ CardIdle /\ ~spoke /\ s = 0 /\ UNCHANGED card
      BY <3>1, <2>7, <2>8 DEF LeadInv
    <3>3. ~(s > 0)  BY <3>2
    <3>4. fresh' /\ ~spoke'  BY <3>2, <3>3, <2>6
    <3> QED BY <3>2, <3>4, <2>7 DEF CardIdle, card
  <2>10. SUFFICES ASSUME fresh' PROVE LeadInv'
    BY <2>9 DEF LeadInv
  <2>14. fresh
    BY <2>6, <2>10, Zenon
  <2>13. heard_speech' <=> spoke'
    BY <2>6, <2>14 DEF LeadInv
  <2>11. CASE spoke
    BY <2>6, <2>9, <2>13, <2>14, <2>11 DEF LeadInv
  <2>12. CASE ~spoke
    <3>1. ~heard_speech /\ lead <= silence_run /\ silence_run <= LeadIn
      BY <2>12, <2>14 DEF LeadInv
    <3>2. k = Kept(a, silence_run, LeadIn)
      BY <2>4, <3>1 DEF KeptBefore
    <3>3. silence_run + k <= LeadIn
      BY <1>0, <2>5, <3>1, <3>2, KeptBounds
    <3>4. lead + k <= silence_run + k /\ lead + k <= LeadIn
      BY <1>0, <3>1, <3>3
    <3>5. lead' = lead + k  BY <2>6, <2>12
    <3>6. ~spoke' => silence_run' = silence_run + k
      <4>1. ~spoke' => ~(s > 0)  BY <2>6
      <4>2. ~(s > 0) => s = 0  BY <2>5
      <4> QED BY <4>1, <4>2, <2>6
    <3> QED BY <2>9, <2>13, <3>3, <3>4, <3>5, <3>6 DEF LeadInv
  <2> QED BY <2>11, <2>12
<1> QED BY <1>1, <1>2, <1>3, <1>4, <1>5 DEF Next, SynthStep

(* dtalk.cpp:78-85: the lead-in of an utterance queued after a stop, as    *)
(* both callers in the app do it, is capped whatever the pause cap.        *)
THEOREM LeadInBound == Spec => []LeadInCapped
<1>1. Init => LeadInv
  BY DtalkAssumption DEF DtalkAssumption, Init, LeadInv, CardIdle
<1>2. LeadInv => LeadInCapped
  BY DEF LeadInv, LeadInCapped
<1>3. TypeOK /\ LeadInv /\ [Next]_vars => LeadInv'
  BY LeadStep
<1> QED BY <1>1, <1>2, <1>3, TypeInit, TypeStep, PTL DEF Spec
=============================================================================
