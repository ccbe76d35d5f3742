-------------------------------- MODULE Board --------------------------------
(***************************************************************************)
(* doubletalk_board.cpp on the scheduler: the mailbox between the host and *)
(* the firmware, the host-visible status, and the DAC writes that          *)
(* pull_samples turns into samples of a fixed rate.                        *)
(*                                                                         *)
(* The host (dtalk.cpp) feeds a byte when RDY is up and then runs the CPU  *)
(* for a while; it writes Ctrl-X without looking.  The firmware is         *)
(* external: its interrupt routine reads the mailbox and drops RDY within  *)
(* Latency cycles of the doorbell, and raises RDY again when it pleases.   *)
(***************************************************************************)
EXTENDS Scheduler, Sequences

CONSTANTS Cycles, Rate, \* Cycles of the CPU take as long as Rate samples
          Levels,       \* what the firmware writes to the DAC
          Rest,         \* the level of an idle DAC, 0x80
          Latency,      \* of the firmware's interrupt routine, in cycles
          FeedCycles,   \* what feed runs after a byte
          MaxBytes,     \* bound: bytes the host writes
          MaxEvents,    \* bound: DAC and index events in all
          MaxResets     \* bound: calls of reset

ASSUME BoardAssumption ==
  /\ Cycles \in Nat \ {0} /\ Rate \in Nat \ {0} /\ Rate <= Cycles
  /\ Latency \in Nat /\ \A n \in Amounts : Latency < n
  /\ FeedCycles \in Amounts
  /\ MaxBytes \in Nat /\ MaxEvents \in Nat /\ MaxResets \in Nat

VARIABLES
  mailbox,       \* m_mailbox_data
  pending,       \* m_mailbox_pending
  int1,          \* the level of the INT1 doorbell
  rdy,           \* RDY in m_tts_status
  dac_events, index_events,
  dac_level,
  emitted,       \* m_audio_emitted_cycles
  bell,          \* when the doorbell was rung
  written, resets, \* bounds
  unread,        \* history: bytes the firmware is still to read
  repeated,      \* history: whether it read one that was not there
  log,           \* history: DAC writes, and resets, in the order they took effect
  tape           \* history: every sample pulled since power-on

host == <<written, resets, bell>>
mail == <<mailbox, pending, int1, rdy, unread, repeated>>
audio == <<dac_events, index_events, dac_level, emitted, log, tape>>
board == <<mail, audio, host>>
vars == <<scheduler, board>>

Clear == 0   \* Ctrl-X; other bytes are numbered as they are sent

Init ==
  /\ SchedulerInit
  /\ mailbox = Clear /\ pending = FALSE /\ int1 = FALSE /\ rdy = FALSE
  /\ dac_events = <<>> /\ index_events = <<>> /\ dac_level = Rest /\ emitted = 0
  /\ bell = 0 /\ written = 0 /\ resets = 0
  /\ unread = {} /\ repeated = FALSE
  /\ log = <<>> /\ tape = <<>>

-----------------------------------------------------------------------------
(* The host's side of the mailbox.                                         *)
HostWrite(b, left) ==
  /\ written < MaxBytes /\ written' = written + 1
  /\ mailbox' = b /\ pending' = TRUE
  /\ int1' = TRUE
  /\ bell' = IF int1 THEN bell ELSE base
  /\ unread' = left \cup {b}
  /\ UNCHANGED <<rdy, repeated, audio, resets>>

FeedWithoutRunning ==
  /\ at = "out" /\ rdy
  /\ HostWrite(written + 1, unread)
  /\ UNCHANGED scheduler

(* dtalk.cpp, feed                                                         *)
Feed ==
  /\ rdy
  /\ HostWrite(written + 1, unread)
  /\ RunCycles(FeedCycles)

(* dtalk.cpp, dtalk_stop: whatever it overwrites was to be cleared.        *)
Stop == HostWrite(Clear, {}) /\ \E n \in Amounts : RunCycles(n)

(* dtalk.cpp, boot and the loop of dtalk_synth                             *)
HostRuns == (\E n \in Amounts : RunCycles(n)) /\ UNCHANGED board

(* reset: m_cpu->shim_reset lowers INT1 (ext_state) and stops no emu_timer.*)
(* What was written to the DAC and not pulled is forgotten.                *)
Reset ==
  /\ at = "out" /\ resets < MaxResets /\ resets' = resets + 1
  /\ mailbox' = Clear /\ pending' = FALSE /\ int1' = FALSE /\ rdy' = FALSE /\ unread' = {}
  /\ dac_events' = <<>> /\ index_events' = <<>> /\ dac_level' = Rest
  /\ log' = Append(SubSeq(log, 1, Len(log) - Len(dac_events)), [time |-> emitted, level |-> Rest])
  /\ UNCHANGED <<scheduler, repeated, emitted, tape, written, bell>>

-----------------------------------------------------------------------------
(* pull_samples                                                            *)
SampleCycle(n) == (n * Cycles) \div Rate
FirstIndexFloor(c) == (c * Rate) \div Cycles
FirstIndex(c) == (c * Rate + Cycles - 1) \div Cycles

(* How many events the loop has taken off the front by cycle c.            *)
TakenBy(c) ==
  Cardinality({k \in 1..Len(dac_events) : \A i \in 1..k : dac_events[i].time <= c})

HeldAt(c) == IF TakenBy(c) = 0 THEN dac_level ELSE dac_events[TakenBy(c)].level

Pulled(index) ==
  LET indices == {n \in index..(index + base) : SampleCycle(n) < base}
  IN  [i \in 1..Cardinality(indices) |-> HeldAt(SampleCycle(index + i - 1))]

(* dtalk.cpp, pull and drop_pending_audio: both drain the index events too.*)
Pull ==
  /\ at = "out"
  /\ LET index == FirstIndex(emitted)
         new == Pulled(index)
         final == SampleCycle(index + Len(new) - 1)
     IN  /\ tape' = tape \o new
         /\ IF new = <<>>
              THEN UNCHANGED <<dac_events, dac_level>>
              ELSE /\ dac_level' = HeldAt(final)
                   /\ dac_events' = SubSeq(dac_events, TakenBy(final) + 1, Len(dac_events))
  /\ emitted' = base
  /\ index_events' = <<>>
  /\ UNCHANGED <<scheduler, mail, host, log>>

-----------------------------------------------------------------------------
(* The CPU.  While the doorbell rings, the interrupt routine is not kept   *)
(* waiting for longer than Latency.                                        *)
Answers == int1 => Now' <= bell + Latency

FirmwareComputes == (Compute \/ Arm \/ Disarm) /\ Answers /\ UNCHANGED board
FirmwareHalts == ~int1 /\ Halt /\ UNCHANGED board

(* mailbox_read, by the interrupt routine, which then drops RDY.           *)
ReadMailbox ==
  /\ int1 /\ Compute
  /\ pending' = FALSE /\ int1' = FALSE
  /\ rdy' = FALSE
  /\ unread' = unread \ {mailbox} /\ repeated' = (repeated \/ mailbox \notin unread)
  /\ UNCHANGED <<mailbox, audio, host>>

(* io_write                                                                *)
RaiseRdy ==
  /\ ~int1 /\ ~rdy /\ Compute
  /\ rdy' = TRUE
  /\ UNCHANGED <<mailbox, pending, int1, unread, repeated, audio, host>>

EffectTime(cost) == base + slice_base - (icount - cost.before)

WriteDac ==
  /\ Len(log) < MaxEvents
  /\ \E cost \in Costs, v \in Levels :
       LET event == [time |-> EffectTime(cost), level |-> v]
       IN  /\ Spend(cost)
           /\ dac_events' = Append(dac_events, event)
           /\ log' = Append(log, event)
  /\ Answers
  /\ UNCHANGED <<mail, host, index_events, dac_level, emitted, tape>>

WriteIndex ==
  /\ Len(index_events) < MaxEvents
  /\ \E cost \in Costs :
       /\ Spend(cost)
       /\ index_events' = Append(index_events, EffectTime(cost))
  /\ Answers
  /\ UNCHANGED <<mail, host, dac_events, dac_level, emitted, log, tape>>

-----------------------------------------------------------------------------
Firmware == FirmwareComputes \/ FirmwareHalts \/ ReadMailbox \/ RaiseRdy \/ WriteDac \/ WriteIndex
Machine == (LoopStep /\ UNCHANGED board) \/ Firmware
Host == Feed \/ Stop \/ HostRuns \/ Reset \/ Pull

Next == Host \/ Machine

Spec == Init /\ [][Next]_vars

-----------------------------------------------------------------------------
(* doubletalk_board.cpp:174-193.  However the host cuts the time into      *)
(* pulls, every sample of the grid comes out once, in its place, at the    *)
(* level last written to the DAC before it ("zero-order hold").            *)
Last(S) == CHOOSE k \in S : \A i \in S : i <= k

LevelAt(c) ==
  LET before == {k \in 1..Len(log) : log[k].time <= c}
  IN  IF before = {} THEN Rest ELSE log[Last(before)].level

ZeroOrderHold ==
  /\ Len(tape) = Cardinality({n \in 0..emitted : SampleCycle(n) < emitted})
  /\ \A n \in 1..Len(tape) : tape[n] = LevelAt(SampleCycle(n - 1))

(* doubletalk_board.cpp:110-128.  A byte fed while RDY was up is read by   *)
(* the firmware once: the next byte does not overwrite it, and the bell    *)
(* does not ring for it twice.  Only Ctrl-X and a reset discard bytes.     *)
BytesOnce ==
  /\ unread \subseteq (IF pending THEN {mailbox} ELSE {})
  /\ int1 = pending
  /\ ~repeated
=============================================================================
