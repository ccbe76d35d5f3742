# DoubleDroid in TLA+

DoubleDroid is an Android text-to-speech engine that runs the firmware of the
DoubleTalk PC speech card in an emulator.  This directory specifies the parts
of it whose correctness depends on order, interleaving or history, checks them
with TLC on small instances, and proves the main invariants with TLAPS for all
instances.

File names in the modules' comments are shortened: `Engine.kt` is
`DoubleTalkEngine.kt`, `Service.kt` is `DoubleTalkTtsService.kt`,
`Settings.kt` is `SettingsActivity.kt`; `dtalk.cpp` is in `cpp/doubletalk/`.

## The system

| part | state | operations | talks to |
|---|---|---|---|
| `DoubleTalkEngine` (Kotlin object) | `lock`, `handle`, `lastVoiceSent`, `sampleRate` | `open`, `shutdown`, `applyPrefs`, `stop`, `queue`, `utteranceBytes`, `synthChunk` | called by the service, the settings screen and the import thread; calls JNI under `lock` |
| `DoubleTalkTtsService` | `stopRequested` | `onSynthesizeText` on one synthesis thread, `onStop` on any binder thread | framework callback, engine |
| `SettingsActivity` | `testStop`, `testThread`, preferences, the ROM file and its `.tmp` | sliders and spinners, `startTestSpeech`, `stopTestSpeech`, `importRom` on its own thread | engine, files |
| `dtalk` (C++ API) | host queue, carry, marks, sample counters, silence trimming, idle count, output stage, resampler, rate table | create, reset, queue, stop, synth, setters, index marks | drives the board |
| `doubletalk_board` | mailbox latch, RDY, DAC and index event lists, output position | `host_write`, `mailbox_read`, `io_write`, `pull_samples` | the CPU |
| shim `emu` | timers, current slice, total cycles | `adjust`, `run_cycles`, `fire_due_timers` | board, CPU |
| `i186` / `i86` | registers, flags, interrupt controller, timers, DMA | `execute_run`, the instructions, register writes, timer and line callbacks, reset | board, scheduler |
| `Emoji` | none | `describe` | engine (`sanitizeText`) |
| JNI bridge, voice-data activities | none | forwarding, one intent each | |

The firmware ROM is not in the repository.  It is external, as are the Android
framework and the file system: they are modelled by what the code relies on
(the card takes bytes in order and loads a voice at `nO`; one synthesis thread;
`renameTo` replaces a name at once or fails).

What is hard here: four kinds of threads around one lock, where most operations
are *sequences* of lock sections (stop then queue; open then read then apply);
`volatile` flags that are cleared and set by different threads; a join that
times out; state on the Kotlin side (`lastVoiceSent`) that is meant to mirror
state in the card; a file replaced while another thread may open it and the
process may die; and, in C++, counters that tie positions on the card's sample
grid to positions in a stream from which silence and cancelled audio are cut
out.  In the CPU it is state that is worked out late or kept in two places: an
interrupt offered long after the scan that found it, a timer's count that is
only a number of cycles left, flags that must survive until somebody looks, a
string instruction that an interrupt cuts in two.  `PROJECT.json` lists these
hazards line by line.

## Modules

* **Engine** — the methods of `DoubleTalkEngine`, one action per lock section.
  A synchronized method that only does bookkeeping is one step guarded by
  `lock = Free`; `synthChunk`, which runs the emulator, takes several, and
  `lock` names the thread inside.  `applyPrefs` is two steps, because the code
  reads the preferences before it locks.  Preferences are one value
  (`outputPref`), text is counted in units of what one `synthChunk` call turns
  into sound, and an utterance remembers who queued it, the voice it is for,
  and whether its prefix has an `nO`.
* **Service** — `onSynthesizeText` with a program counter `svc`, one action per
  statement that reads or writes shared state, and `onStop` in two steps.
* **TestSpeech** — the UI thread and the test threads of the settings screen.
* **DoubleDroid** — composes the three with the import thread's `shutdown`,
  states the properties and the fairness.  **MCDoubleDroid** instantiates it.
* **RomImport** — `importRom` by system call, `open` by its steps under the
  lock, process death anywhere.  Names refer to files, so that renaming a file
  another thread is still writing does what it does on disk.
* **VoicePrefix** — `buildPrefix`, `mapRate`, `mapPitch` and the registers of
  the card: what leaving out `nO` and preset-equal values does over a sequence
  of utterances.
* **Dtalk** — the `dtalk` API: the synth loop (feed, settle, run, pull), the
  silence trimmer as a function of runs of near-idle samples, `dtalk_stop`,
  `dtalk_reset`, index marks and the counters `samples_base` and
  `samples_dropped`.  A position computed from a cycle count by integer
  division is the grid sample it falls on or the one before (`Floored`).
  `grid` and `delivered` are history variables, as are `spoke` and `lead`.
* **Scheduler** — `running_machine` of the shim: one clock, derived within a
  slice from `icount`; timers that instructions arm and stop and whose
  callbacks restart them; slices that end at the next expiry, are cut short by
  `abort_timeslice`, or overshoot by part of an instruction.  A timer's
  callback restarts it with its period or leaves it off, and may stop others;
  the i186's ALT mode, in which two periods alternate, is left out.
* **Board** — extends Scheduler with `doubletalk_board`: the mailbox and its
  doorbell, RDY, the DAC and index events, `pull_samples`, and the host's
  `feed`, `dtalk_stop` and `dtalk_reset` as far as they touch the board.  The
  firmware is any sequence of instructions that reads the mailbox within
  `Latency` cycles of the doorbell.  `log` and `tape` record what was written
  to the DAC and every sample pulled.
* **Resampler** — `dtalk_synth16_out` over `dtalk_synth16`: fetch, process,
  evict, flush, and the loop's guard; changes of rate in the middle of speech.
  It says which raw samples are held and where between them the next output
  sample is taken.  The position is an exact fraction, where the code has a
  double; the code's rates give steps whose sums a double holds to far less
  than a sample.
* **Interrupts** — the interrupt controller of `i186.cpp` in master mode: the
  scan of `update_interrupt_state` and its early return, edge and level
  triggered, nested and plain pins, masks, priorities, acknowledgement by the
  CPU or by a read of the poll register, both kinds of EOI, reset.  The
  registers are one record and the code's methods functions on it.
* **Cpu** — extends Interrupts with the loop of `execute_run` as far as
  interrupts see it: where one is taken, what STI, MOV SS and prefixes hold
  off, HLT, IRET, and a repeated string instruction with a segment override
  before or after REP, cut short anywhere.  The firmware is any sequence of
  these, with one string instruction under way at a time.
* **TimerRegisters**, **HardwareTimer**, **Timers** — what the three timers of
  the 80186 hold; what they promise, a counter that ticks and is compared with
  its limit; and what `i186.cpp` does, which arms an emulator timer for the
  cycles until the limit and works the count out of what is left.
* **Alu**, **Machine**, **I86**, **BitLogic**, **I186** — the instructions as
  functions from one machine to the next: addition, subtraction and their
  flags; registers, memory, stack, operands, interrupts and their return; what
  computes with numbers; AND, OR, XOR and TEST, which need `Bitwise` and
  therefore stand apart from what is proved about; what moves data and
  control, and the step of the CPU.  Instructions are records, not bytes, and
  bytes and words are one definition with the half of their range as
  parameter.
* **Routines** — eight routines of the kind firmware is made of, run on I186
  from many inputs with an interrupt between any two instructions, and what
  each must compute.
* **DoubleDroidProofs**, **DtalkProofs**, **VoicePrefixProofs**,
  **RomImportProofs**, **BoardProofs** (with Scheduler), **ResamplerProofs**,
  **CpuProofs** (with Interrupts, Alu, Machine and I86), **TimersProofs** — theorems.

`Dtalk` does not instantiate `Board`: it counts chunks of 10 ms where `Board`
counts cycles.  What it takes from the board is that a pull yields the grid
samples of the time since the last one, `ZeroOrderHold`, and that fed bytes
arrive, `BytesOnce`.  `Resampler` takes from `Dtalk` that `dtalk_synth16`
returns fewer samples than it was asked for only when the card is idle.
`Board` leaves the CPU open and `Cpu` the board: what they share is the line
INT1, the doorbell, which `Cpu` raises and lowers at any time.  `Cpu` and
`I186` are the two halves of one loop: `Cpu` decides when an interrupt is
taken and leaves what instructions compute open, `I186` the reverse.

Operators ending in what a plausible bug would do (`SvcOpenSkipsPrefs`,
`DeleteThenRename`, `DropForgetsCarry`, ...) are not part of any `Next`; each
stands before the definition it varies, and `PROJECT.json` names the property
that fails when it replaces that definition.

## Runs

| run | checks | instance | states |
|---|---|---|---|
| session_service | RequestedVoice, CompleteUnlessStopped, ServiceOwnAudio, AtMostOneLateBuffer, SettingsBeforeSpeech, RequestReturns | the service, 2 binder threads, an import | 239 887 |
| session_test | TestOwnAudio, SettingsPushed, UiReturns | the settings screen, 2 test threads, an import | 48 322 |
| rom_import | RomFileWhole, AtomicReplace | 2 imports, renames that may be refused, 1 crash | 126 100 |
| voice_prefix | SpeaksAsAsked, QualityAsSet | 3 voices, extreme rates and pitches | 98 432 |
| dtalk | GridAccounted, IdleIsDone, MarksNotLate, LeadInCapped, SynthReturns | chunks of 2 samples, caps of 1 | 3 462 472 |
| audio_out | FullUnlessIdle, TailExact, WindowHeld, HistoryBounded | 3 rates, calls for 1, 2 and 8, 15 raw samples | 2 681 506 |
| scheduler | TimersOnTime, CallbackOrder, ExactPeriods, RunReturns | 7 cycles | 353 752 |
| board | ZeroOrderHold, BytesOnce | as scheduler, with mailbox and DAC | 3 563 877 |
| interrupts | OfferIsTrue, RequestSeen, NestedByUrgency, StringWhole, InterruptShadow, HaltWakes | timer 0 and INT1 | 365 657 |
| timers | CountsAsHardware (a refinement) | timers 0 and 2, counts of one bit | 717 808 |
| routines | CarriesExact, OrderDecided, QuotientOrFault, StringsWhole, FramesBalanced | 8 routines, an interrupt anywhere | 1 322 675 |

The twelfth run, `voice_lost` (VoiceAlways), ends in a counterexample.
`lastVoiceSent` is recorded when the prefix is built, before its `nO` is
queued.  If the queue is flushed in between or after, by `onStop` or by the next request, a
later request with that voice leaves `nO` out and is spoken in the wrong one.
The doc comment at DoubleTalkEngine.kt:264-266 says otherwise.

While modelling, these smaller disagreements were met; no run is spent on them:

* SettingsActivity.kt:224-229 promises to restart the engine on the new ROM,
  but the engine is shut down *before* the rename: a request in between opens
  it again on the old image, and nothing restarts it afterwards.
* README.md:57 of the repository says a setting on Auto follows the voice
  preset.  A slider moved back to Auto is only heard at the next voice change,
  because `nO`, which would reload the preset, is left out (Engine.kt:252).
* dtalk.h:187-190 gives marks as positions in the returned stream; when
  silence after a mark is trimmed in the same pull, the mark comes out too
  early by what was trimmed (dtalk.cpp:582).
* dtalk.cpp:367-370 bounds the resampler's history; calls that ask for less
  output than one raw sample makes fetch a sample each whether they need it or
  not, and the history grows.

### Conditions in the properties

Several properties hold only under a condition, and each condition marks a
place where the code itself is weaker:

* `~disturbed` in RequestedVoice and CompleteUnlessStopped: until `onStop`, the
  settings screen or an import has acted.  `voice_lost` shows the first of them
  to be needed; with any of them text may be cut off.
* `svc`, `ui` not in `applyPrefs` in SettingsPushed, and no service in its run:
  `applyPrefs` reads the preferences before it takes the lock, so when the
  service opens the engine while a setting is moved, the older reading may be
  applied last and stay until the next `applyPrefs`.  For the same reason
  SettingsBeforeSpeech is checked without the settings screen: there `open` may
  return because the instance exists while the thread that created it has not
  yet applied the preferences.
* `JoinTimesOut = FALSE` in `session_test`: if the test thread does not end
  within the second that `stopTestSpeech` waits, the next test clears
  `testStop` before the old thread has seen it, and the old thread plays on,
  with the new text.  With TRUE, TLC finds TestOwnAudio violated.
* `~overlapped` and `~refused` in the properties of the ROM file: two imports
  write and rename the same `.tmp`; when the second one's rename fails,
  `dst.delete()` removes the ROM the first has just installed.  That no engine
  boots from half a file (`booted # Part`) needs neither.
* `fresh` in LeadInCapped: `heard_speech` is cleared only by stop and reset, so
  the lead-in of an utterance that follows a finished one without a stop is
  capped by the pause cap or not at all.  The app always stops first.
* `booted` in GridAccounted and MarksNotLate: `boot`'s limit is ten seconds of
  *absolute* emulated time, and `dtalk_reset` ignores its result, so a later
  reset neither waits for RDY nor renews `samples_base`.  The app never resets.
* One sample in GridAccounted and MarksNotLate: `pull_samples` rounds up to the
  next grid sample, `boot` rounds `samples_base` down.
* `whole` in TailExact: the resampler marks its stream flushed and new audio
  does not clear that, so the tail of what is queued after the end without a
  stop is not flushed.  The app always stops first.  A rate changed to the
  card's own in between, where the resampler is passed by, leaves a tail too.
* `small` in HistoryBounded: no call asked for less output than one raw sample
  makes (the comment above).
* `tidy` in OfferIsTrue: the scan returns at a source in service without
  touching what it offered before, so an offer that was masked, reprogrammed or
  withdrawn *while something is in service* stays up.  From there until service
  has ended the property says nothing; RequestSeen holds throughout.
* `kept` in NestedByUrgency: since nothing was in service, no register that
  orders or masks sources was written while one was, and no stale offer was
  taken from the poll register.
* `unspecified` in CountsAsHardware: a control word that changes a running
  timer's clock or limit without arming it anew leaves it counting for the
  old one, a reset leaves it armed, and in the last count before the limit a
  timer armed anew has its count rounded up to the limit and goes round.

### Bounds

All bounds are constants.  The sessions use up to three requests of at most two
units of text, enough for an interrupted request, its successor, and a third
that relies on what the second recorded; chunks are split into at most two
buffers, so that a stop can fall between them.  Two test threads are the
minimum for one to outlive `join`.  For `dtalk` a chunk has two grid samples
and the caps are one sample, so a chunk can hold silence kept, silence dropped
and speech; calls ask for three samples, so that samples are carried over, and
`BootLimit` is reached within a few chunks.  In `scheduler` an instruction
takes up to two cycles, a slice at most two, and durations are one and three,
so that a timer may come due several times within one overshoot, or beyond
the slice; seven cycles are two calls of `run_cycles` and what they overshoot.
In `board` five cycles take as long as three samples, so that pulls start and
end on and between samples.

`interrupts` has two sources, a timer and a pin above it, in both trigger
modes, and interrupts two deep, so that one nests in the other's handler and a
string instruction of two elements is cut in the middle by either; masks are
set by control words.  `timers` has one-bit counts of four cycles, so that
limit 0 (a full turn) and 1 occur and every phase of a count meets every
register access; timer 0 runs on the clock or on timer 2's ticks, once or
continuously, with one or two maxima.  In `audio_out` a window is two samples
to a side and rates are 1, 4/3 and 2 output samples per raw one; 15 raw
samples are several windows, and calls for 1 and 8 lie on either side of what
one window gives.  `routines` takes the edges of bytes and words, all decimal
digits that matter, every shift count up to 15 and 31, 32, copies of up to
four bytes between overlapping places, and one interrupt at each place.
Deadlock checking is off where the system may
really stop: when the bounded requests, clicks, calls or cycles are used up.

### Fairness

Each thread that is inside a handler keeps running when it can
(`WF_vars(SvcRuns)`, `UiRuns`, `TestRuns(t)`); `synchronized` blocks are
granted in the end because every holder of the lock gives it back after
finitely many steps and the threads do not re-enter it for ever: a chunk ends,
and text is finite.  No fairness is assumed of the user, of the framework's
requests or of `onStop`.  In `Dtalk` the loop of `dtalk_synth` runs on its
caller's thread, and the firmware raises SYNC within `MaxGap` chunks; in
`Scheduler` the loop of `run_cycles` runs on its caller's.  In `Cpu` the turns
of `execute_run` go on (`WF_vars(Turn)`), because the host calls `run_cycles`
as long as it wants speech; nothing is assumed of when interrupts come.

## Proofs

* **Types** (`TypeCorrect` in DoubleDroidProofs and DtalkProofs).  TypeOK is inductive; one
  step per action.
* **LateBuffer**: at most one buffer is handed over after `stopRequested`.
  The invariant adds that the count is zero while the flag is clear, and that
  in `buffer`, before the check, it is at most what the check allows.
* **UndisturbedVoice, UndisturbedComplete**: until somebody else acts, nothing
  the service does loses an `nO` or text.  The invariant `AloneInv` relates
  `lastVoiceSent`, the queue and the card's voice at every place of
  `onSynthesizeText`: the queue holds at most the request's own utterance, and
  what was delivered, what is in hand and what is left add up.
* **OwnAudio, OwnTest**: the queue never holds more than what is left of one
  speaker's utterance (`Own`), because each speaker stops before it queues and
  `synthChunk` adds nothing.  OwnAudio assumes `Clicks = {}`: a test speech
  next to a request mixes the two.  OwnTest assumes no requests and a join that
  waits (`~JoinTimesOut`); its invariant adds that no test thread is named
  between the join and the launch of the next (`Starts`).
* **SettingsInForce, SettingsReachEmulator**: outside of `applyPrefs` the
  emulator runs with what is saved, and inside the caller has read what is
  saved (`Pushed`).  That is inductive for one thread that reads and applies,
  so the first assumes no clicks and the second no requests.
* **Accounting, Marks**: that `samples_base + samples_dropped + delivered +
  carry` is `grid`, or one less, is inductive because each pull keeps exactly
  `KeptOf` of its samples and `Drain` moves samples from carry to delivered;
  marks are never late because a prefix of a pull loses no more samples than
  the whole pull.
* **Idle**: from `MaxGap < Settle`, the one thing assumed of the firmware's
  timing (dtalk.cpp:92-94).  The invariant bounds the remaining gap by the
  chunks of idleness not yet counted.
* **ShortIsIdle**: what the resampler's end of stream rests on, from the same
  invariant: only `SynthSettles` leaves the loop with samples still asked for.
* **SynthEnds**: the loop of `dtalk_synth` comes to its end.  `Variant` is a
  number that every turn of the loop lowers: what is queued and buffered, each
  byte weighed with the longest gap and sound it can cause, then the rounds
  left until `idle_stable` reaches `Settle`, and last a bit for the one round
  that may be spent while the card waits for its next byte.  That the loop's turns are taken is its caller's thread running.
* **LeadInBound**: after a stop, `heard_speech` says whether the utterance has
  sounded, and as long as nothing was heard the kept lead-in is the running
  silence, which the trimmer caps.
* **OnTime, InOrder, NoDrift, AsAsked**: `SInv` adds that within a slice no
  timer expires before `base + slice_base`, which is what `abort_timeslice`
  moves back, and that the CPU has passed neither the slice's end nor the
  target by an instruction.  One lemma per kind of step: the CPU's, `Arm`, a
  callback, the loop.
* **Progress**: what makes `run_cycles` return.  An instruction lowers
  `icount`, the end of a slice takes `base` forward, a slice starts only before
  the target, and a callback leaves a proper subset of `Owed`, the expiries up
  to `base`; it needs that a slice cut short by its last instruction still took
  time (`TakesTime`).
* **MarkPlaces**: `Dtalk` counts on the grid and the code in cycles; this is
  what lets `Dtalk` take a rounded position as its sample or the one before.
* **Implements, NoDriftOnBoard, MailboxReliable**: every step of `Board` is a
  step of `Scheduler` or leaves it alone, so the invariant above carries over.
  `BellInv` then says that while the doorbell rings `run_cycles` is still
  under way and will not return before the firmware has answered.  Assumed of
  the firmware is that it answers within `Latency` cycles, less than any
  argument of `run_cycles` after a write (2000 in `feed`, a chunk in
  `dtalk_stop`); the comment at dtalk.cpp:536 gives 2-3 microseconds, some 30
  cycles.
* **CardAsAsked, RateMap, PitchMap**: `SpeaksAsAsked` with `VoiceKnown` (once
  `lastVoiceSent` is set it is the card's voice) is inductive; the maps of rate
  and pitch are monotone and stay in the card's ranges, for every request and
  preset.
* **QualityKept**: a register is loaded with the voice or set by its override,
  whichever comes last in the prefix; a lemma on `Sets` tells which.
* **WholeFile, Replaced**: `RomInv` says that the names of files are distinct
  and that no file has a name before its import writes it (`Names`), and, as
  long as imports keep to their turns (`InTurn`), that one at most is under
  way, that from opening `.tmp` to renaming it the file under that name is its
  own, that from the close on it holds what was picked, and that the ROM
  file's name is taken away only after a rename was refused.  The parts of
  `InTurn` need each other: the rename installs a whole image because `.tmp`
  is still the importer's, which holds because it is alone.
* **SamplesHold**: `ZeroOrderHold` is not inductive, because the levels of
  samples yet to be pulled are in `dac_level` and `dac_events`.  `HoldInv` adds
  that `log` is in the order of time and not ahead of `Now`, that `dac_events`
  is its end, `dac_level` the level before that, and that the cut between the
  two lies after every sample pulled.  So a write, which happens now, cannot
  change a sample pulled, since pulls only reach `base`; a reset cuts off only
  what no pulled sample has seen; and a pull takes exactly the indices between
  `FirstIndex` of where the last one ended and of `base` (`GridBefore`: the
  cycles of samples grow, and those before a cycle are the indices below
  `FirstIndex` of it), each at the level of the log (`HeldIsLevel`).  Any
  clocks with `Rate <= Cycles`, any levels, any cutting into pulls.
* **HardwareTimers**: a refinement.  The mapping takes the count of a running,
  armed timer to be its limit less the counts left, `Counts(rem) % Wrap`, and
  leaves the rest alone.  The invariant is `unspecified \/ TimersOK`; once
  `unspecified` is set it stays, and the hardware's specification allows any
  step that keeps it.  Until then each action is shown to be the hardware's:
  `Advance` because taking a cycle from `rem` changes `Counts` by one exactly
  where the hardware ticks, `TimerElapsed` for timer 2 with the timers it
  prescales, and accesses because the count that is read or armed anew
  (`Synced`) is one the hardware may have.  Any number of values of a count
  and of cycles to it; the code has 2^16 and 4.
* **WindowNeverLost, TwoRoundsEnough, TailToTheEnd, HistoryStaysSmall**: one
  invariant `IInv` of five parts: types, the end of the stream (padding has
  been added exactly when `flushed`), the window, that after a fetch what is
  ahead suffices for all that is still due, and that between calls little is
  held.  The products of counts and steps are what makes it hard: lemmas on
  `RoundedUp` and on `RawWant` keep them in a few places.
* **TrueOffer, NoneForgotten**: `CInv` says that a pending interrupt has the
  line up (`Raises`), that what the scan would offer is offered unless it is in
  service (`Seen`), and, while `tidy`, that the offer is the scan's (`True`).
  The scan has one end because `Above` is a strict total order on sources
  (`OneFirst`, by their being finitely many), and one that was to be offered is
  not overtaken when service only ends (`NotOvertaken`).  One lemma per kind of
  step; any sources, priorities, modes and masks.
* **ServiceNests**: `NestInv` says that, while `kept`, what is in service is
  among the sources the scan sees and the nesting recorded in `nest` is their
  order of urgency, and that an offer is above everything in service; so what
  is acknowledged lands on top, and the most urgent in service, which a
  non-specific EOI ends, is the innermost.
* **Shadowed**: an instruction that holds interrupts off leaves `no_interrupt`
  set or, behind a prefix, the prefix pending (`HeldOff`).
* **WholeString**: `StringInv` relates the place in the instruction, the saved
  one of the outermost interrupt, and `prev_ip`, which must be the first prefix
  whenever a repeat can be broken off.
* **CarryMakesWhole, OverflowIsSigned, ComparisonDecides**: linear arithmetic
  over any width; each flag is first stated as a fact of numbers, and the
  conditions are combined from those.
* **CarryGoesOn**: the induction step for numbers of any length: if the digits
  so far lack just the carry, they still do after one more ADC or SBB, and INC
  and DEC between them keep it.  The induction itself is over data.
* **ReturnsToInterrupted**: for every machine (`Machines`: any registers, flags
  and memory over all addresses a segment and an offset make), any vector and
  any handler, of which it assumes only that SP, SS and the six stored bytes are
  as the interrupt left them.  The three words lie apart even where SP wraps
  (`SlotsOfThree`), and the image of the flags has each at a bit of its own
  (`FlagsPacked`).
* **UnsignedDivision, SignedDivision, UnsignedProduct, SignedProduct**: what
  the code's way through partial results amounts to.  `Div` divides digit by
  digit (`LongDivision`) and `Idiv` by absolute values (`TruncatedDivides`);
  that there is only one quotient (`Unique`, `UniqueInt`) turns "the code finds
  none" into "none fits".  `Imul` is modelled by taking the signs out of the
  upper half of an unsigned product (`SignBack`); the flags it leaves are set
  for every negative product, as the code compares the upper half with 0 only.
  Any machine, any operand, a register or memory, of bytes and words;
  80000000h by -1 is excepted.
* **DecimalExact**: `Aux` is the carry out of the lower digit (`DigitCarry`), and
  so `Adjust4` knows of every digit above nine, whether it shows or not.  All
  pairs of packed digits and carries.
* **ExtendedCarry**: opcode 0x82 extends its immediate to 32 bits before the
  carry is taken from bit 8 (i86.cpp:1452), so that the carry of ADD, ADC, SUB,
  SBB and CMP is inverted for an immediate of 80h or more, and nothing else
  differs from 0x80.  This is what the code does, and no comment or document
  says otherwise; the model follows it (`CarryOut`).

The assumptions are those named in the modules (`EngineAssumption`, ...), all
evaluated by the runs, and the hypotheses stated in the theorems.

Proved and not among the runs' properties: `TypeCorrect` (of the sessions and
of dtalk), `AsAsked`, `Progress`, `MarkPlaces`, `Implements`, `RateMap`,
`PitchMap`, `ExtendedCarry`, `ShortIsIdle`, `SynthEnds`, and the facts of
`Alu`, `Machine` and `I86`.
Types are conjuncts of every invariant that needs them.

## Only model-checked

Liveness (`RequestReturns`, `UiReturns`, `SynthReturns`, `RunReturns`,
`HaltWakes`), which needs fairness and ENABLED.  Of `SynthReturns` and
`RunReturns` the part that is about the code is proved, `SynthEnds` and
`Progress`; left to TLC is that the loop is never stuck and, under fairness,
takes its next step.

The properties of `Routines` (`CarriesExact`, `OrderDecided`,
`QuotientOrFault`, `StringsWhole`, `FramesBalanced`) are about eight programs
run to their end by `I186`, whose words are put together with `Bitwise` and
folds.  What they rest on is proved for every operand: `CarryGoesOn` and
`DecimalExact` for the first, `ComparisonDecides` for the second, the
divisions for the third, `WholeString` for the fourth, `ReturnsToInterrupted`
for the last.

## Not modelled

* **i186.cpp**: DMA (the firmware's audio goes through the DAC port, and the
  channels only appear as sources of interrupts), the timers' input pins,
  iRMX mode, the peripherals of the EB variants, cascaded controllers, chip
  selects and the relocation register.  The board connects none of them.
* **i86.cpp**: ESC, WAIT, NOP and the bus lock, the trap flag, NMI, wait-states,
  the decoding of bytes and the table of timings: decoding is a table, and
  `Scheduler` takes the cost of an instruction as any number up to `MaxCost`.
  `IDIV` of 80000000h by -1 is undefined behaviour of the code (i86.cpp:2480)
  and is not among the inputs of `divide`.
* **dtalk.cpp**: the rate boost, which patches tables inside the firmware that
  is not in the repository, and the output filter, which changes samples'
  values only.
* **doubletalk_board.cpp**: the status latch at port 0x80, which nothing in the
  app reads, and plain memory.
* **Emoji**: `describe` walks a string once and looks units up in tables; it is
  sequential and keeps no state.
* **JNI bridge, voice-data activities, build files, resources**: each function
  forwards its arguments or answers one intent, without state.
