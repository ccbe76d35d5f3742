------------------------------- MODULE Engine -------------------------------
(***************************************************************************)
(* DoubleTalkEngine.kt: the process-wide singleton that owns the one dtalk *)
(* instance.  Every native call runs inside synchronized(lock), so each    *)
(* method below is one atomic step that needs the lock free; only          *)
(* synthChunk, which runs the emulator until audio appears, is several     *)
(* steps long, and `lock' names the thread inside it.                      *)
(*                                                                         *)
(* The card (a ROM that is not part of the repository) is reduced to what  *)
(* the callers depend on: it takes the queued bytes in order, loads a      *)
(* voice when it meets nO, and speaks text in the voice last loaded.  The  *)
(* unit of text is what one synthChunk call turns into sound.              *)
(***************************************************************************)
EXTENDS Integers, Sequences

CONSTANTS Voice,        \* card voices, the n of nO
          Setting,      \* values of the filter / rate boost / pause cap prefs
          StockSetting, \* what a freshly created dtalk instance runs with
          Free          \* the lock when no thread is inside a long section

ASSUME EngineAssumption ==
  /\ Voice \subseteq 0..7
  /\ 0 \in Voice
  /\ StockSetting \in Setting

VARIABLES lock,          \* the thread inside synthChunk, or Free
          handle,        \* 1 while a native instance exists, else 0
          lastVoiceSent, \* the voice buildPrefixFromPrefs last recorded, or -1
          hostQueue,     \* utterances the card has not wholly taken, in order
          cardVoice,     \* the voice the firmware has loaded
          applied,       \* the output settings in force in the instance
          outputPref     \* the output settings saved in SharedPreferences

instance   == <<hostQueue, cardVoice, applied>>
engineVars == <<lock, handle, lastVoiceSent, hostQueue, cardVoice, applied, outputPref>>

(* An utterance: who queued it, the voice it is meant for, whether its     *)
(* prefix (still) carries nO, and how many units of text are left.         *)
Utterance(By) == [by : By, voice : Voice, nO : BOOLEAN, text : Nat]
(* A chunk of sound: whose text it is and the voice it is spoken in.       *)
Chunk(By) == [by : By, voice : Voice]

NoUtterance == [by |-> 0, voice |-> 0, nO |-> FALSE, text |-> 0]
NoChunk == [by |-> 0, voice |-> 0]

EngineTypeOK(By) ==
  /\ handle \in {0, 1}
  /\ lastVoiceSent \in Voice \cup {-1}
  /\ hostQueue \in Seq(Utterance(By))
  /\ cardVoice \in Voice
  /\ applied \in Setting
  /\ outputPref \in Setting

EngineInit ==
  /\ lock = Free
  /\ handle = 0
  /\ lastVoiceSent = -1
  /\ hostQueue = <<>>
  /\ cardVoice = 0
  /\ applied = StockSetting
  /\ outputPref \in Setting

-----------------------------------------------------------------------------
(* open: three ways through the synchronized block.  After OpenBoots the   *)
(* caller still has to run applyPrefs, outside the lock.                   *)
OpenRunning ==
  /\ lock = Free /\ handle = 1
  /\ UNCHANGED engineVars

OpenBoots ==
  /\ lock = Free /\ handle = 0
  /\ handle' = 1
  /\ lastVoiceSent' = -1
  /\ hostQueue' = <<>> /\ cardVoice' = 0 /\ applied' = StockSetting
  /\ UNCHANGED <<lock, outputPref>>

OpenFails ==  \* no ROM file, unreadable, or create() returned 0
  /\ lock = Free /\ handle = 0
  /\ UNCHANGED engineVars

(* applyPrefs reads the preferences before it takes the lock: `read' is    *)
(* what the calling thread saw.                                            *)
ApplyPrefs(read) ==
  /\ lock = Free
  /\ applied' = IF handle = 1 THEN read ELSE applied
  /\ UNCHANGED <<lock, handle, lastVoiceSent, hostQueue, cardVoice, outputPref>>

(* shutdown: the native instance and everything in it are gone.            *)
Shutdown ==
  /\ lock = Free
  /\ handle' = 0
  /\ lastVoiceSent' = IF handle = 1 THEN -1 ELSE lastVoiceSent
  /\ hostQueue' = <<>> /\ cardVoice' = 0 /\ applied' = StockSetting
  /\ UNCHANGED <<lock, outputPref>>

(* stop: dtalk_stop drops the host queue and writes Ctrl-X, which makes    *)
(* the card flush its buffer; the loaded voice persists.                   *)
StopKeepsQueue ==
  /\ lock = Free
  /\ UNCHANGED engineVars

Stop ==
  /\ lock = Free
  /\ hostQueue' = <<>>
  /\ UNCHANGED <<lock, handle, lastVoiceSent, cardVoice, applied, outputPref>>

Queue(u) ==
  /\ lock = Free
  /\ hostQueue' = IF handle = 1 THEN Append(hostQueue, u) ELSE hostQueue
  /\ UNCHANGED <<lock, handle, lastVoiceSent, cardVoice, applied, outputPref>>

(* utteranceBytes: buildPrefixFromPrefs decides under the lock whether nO  *)
(* can be left out and records the voice as sent, before anything is       *)
(* queued.                                                                 *)
BuiltUtterance(by, v, n) ==
  [by |-> by, voice |-> v, nO |-> v # lastVoiceSent, text |-> n]

Build(v) ==
  /\ lock = Free
  /\ lastVoiceSent' = v
  /\ UNCHANGED <<lock, handle, hostQueue, cardVoice, applied, outputPref>>

-----------------------------------------------------------------------------
(* synthChunk, by thread t: enter the lock; take utterances that have no   *)
(* text left; return one chunk, or 0 once nothing is queued.               *)
SynthClosed ==
  /\ lock = Free /\ handle = 0
  /\ UNCHANGED engineVars

SynthEnter(t) ==
  /\ lock = Free /\ handle = 1
  /\ lock' = t
  /\ UNCHANGED <<handle, lastVoiceSent, hostQueue, cardVoice, applied, outputPref>>

LoadedVoice(u) == IF u.nO THEN u.voice ELSE cardVoice

SynthSkip(t) ==
  /\ lock = t /\ hostQueue # <<>> /\ Head(hostQueue).text = 0
  /\ cardVoice' = LoadedVoice(Head(hostQueue))
  /\ hostQueue' = Tail(hostQueue)
  /\ UNCHANGED <<lock, handle, lastVoiceSent, applied, outputPref>>

SynthSpeak(t) ==
  /\ lock = t /\ hostQueue # <<>> /\ Head(hostQueue).text > 0
  /\ cardVoice' = LoadedVoice(Head(hostQueue))
  /\ hostQueue' = <<[Head(hostQueue) EXCEPT !.nO = FALSE, !.text = @ - 1]>> \o Tail(hostQueue)
  /\ lock' = Free
  /\ UNCHANGED <<handle, lastVoiceSent, applied, outputPref>>

SpokenChunk == [by |-> Head(hostQueue).by, voice |-> LoadedVoice(Head(hostQueue))]

SynthIdleKeepsLock(t) ==
  /\ lock = t /\ hostQueue = <<>>
  /\ UNCHANGED engineVars

SynthIdle(t) ==
  /\ lock = t /\ hostQueue = <<>>
  /\ lock' = Free
  /\ UNCHANGED <<handle, lastVoiceSent, hostQueue, cardVoice, applied, outputPref>>
=============================================================================
