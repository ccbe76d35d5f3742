----------------------------- MODULE VoicePrefix -----------------------------
(***************************************************************************)
(* The command prefix of an utterance (DoubleTalkEngine.buildPrefix) and   *)
(* the registers of the card it is meant to set.  The prefix leaves out    *)
(* what the code believes the card already holds; the registers keep       *)
(* their values from one utterance to the next.                            *)
(*                                                                         *)
(* Every utterance here is wholly taken by the card before the next one is *)
(* built; what an interrupted one does is in DoubleDroid.                  *)
(***************************************************************************)
EXTENDS Integers

CONSTANTS Voice,      \* card voices in use
          Rate, Pitch,\* Android rates and pitches requested
          Slider      \* values the settings screen saves, -1 for Auto

ASSUME PrefixAssumption ==
  /\ Voice \subseteq 0..7 /\ 0 \in Voice
  /\ Rate \subseteq Nat /\ Pitch \subseteq Nat
  /\ Slider \subseteq -1..9 /\ -1 \in Slider

(* VOICE_PRESETS, by nO.                                                   *)
Preset(pitch, articulation, formant, tone, expression, reverb) ==
  [pitch |-> pitch, articulation |-> articulation, formant |-> formant,
   tone |-> tone, expression |-> expression, reverb |-> reverb]

VOICE_PRESETS == [v \in 0..7 |->     \* 5, 6 and 7 are aliases of 0, 1 and 2
  <<Preset(50, 5, 5, 1, 5, 0), Preset(30, 4, 5, 1, 7, 2), Preset(40, 4, 1, 0, 6, 0),
    Preset(60, 8, 6, 2, 4, 0), Preset(40, 5, 2, 1, 5, 6)>>[(v % 5) + 1]]

Quality == {"articulation", "formant", "tone", "expression", "reverb"}
Loaded == Quality \cup {"pitch"}         \* the registers an nO reloads
Register == Loaded \cup {"rate", "volume"}

Legal(q) == IF q = "tone" THEN 0..2 ELSE 0..9

VARIABLES lastVoiceSent,
          pref,     \* the saved volume and quality settings
          cardVoice, reg, \* the card: its voice and registers
          asked,    \* the voice, rate and pitch last asked of it
          sentVoice \* whether the last prefix had an nO

vars == <<lastVoiceSent, pref, cardVoice, reg, asked, sentVoice>>

-----------------------------------------------------------------------------
Clamp(n, lo, hi) == IF n < lo THEN lo ELSE IF n > hi THEN hi ELSE n

(* Android units to card units, in Int arithmetic.                         *)
mapRate(rate) ==
  Clamp(IF rate <= 100 THEN (rate * 5 + 50) \div 100
        ELSE 5 + ((rate - 100) * 4 + 150) \div 300, 0, 9)

mapPitch(pitch, presetPitch) ==
  Clamp(IF pitch <= 100 THEN (presetPitch * pitch) \div 100
        ELSE presetPitch + ((99 - presetPitch) * (pitch - 100)) \div 300, 0, 99)

(* buildPrefix: whether nO is sent, and the registers set after it.        *)
Overrides(v) == {q \in Quality : pref[q] \in Legal(q) /\ pref[q] # VOICE_PRESETS[v][q]}

Sets(v, rate, pitch) ==
  [r \in {"rate", "pitch", "volume"} \cup Overrides(v) |->
     IF r = "rate" THEN mapRate(rate)
     ELSE IF r = "pitch" THEN mapPitch(pitch, VOICE_PRESETS[v].pitch)
     ELSE IF r = "volume" /\ pref.volume \notin 0..9 THEN 5
     ELSE pref[r]]

(* The firmware takes the commands in the order they come: nO, which loads *)
(* the voice's preset, and then the registers.                             *)
LoadedRegisters(v, old) == [r \in Register |-> IF r \in Loaded THEN VOICE_PRESETS[v][r] ELSE old[r]]
ThenSet(old, sets) == [r \in Register |-> IF r \in DOMAIN sets THEN sets[r] ELSE old[r]]

VoiceLast(v, nO, sets) ==
  IF nO THEN LoadedRegisters(v, ThenSet(reg, sets)) ELSE ThenSet(reg, sets)

CardAfter(v, nO, sets) ==
  ThenSet(IF nO THEN LoadedRegisters(v, reg) ELSE reg, sets)

-----------------------------------------------------------------------------
Booted ==
  [r \in Register |-> IF r \in Loaded THEN VOICE_PRESETS[0][r] ELSE 5]

Default == [voice |-> 0, rate |-> 100, pitch |-> 100]

Init ==
  /\ lastVoiceSent = -1
  /\ pref = [q \in Quality \cup {"volume"} |-> -1]
  /\ cardVoice = 0 /\ reg = Booted
  /\ asked = Default
  /\ sentVoice = FALSE

(* A slider moves: only the preference changes.                            *)
SetPref(q) ==
  /\ \E n \in Slider : (q = "tone" => n <= 2) /\ pref' = [pref EXCEPT ![q] = n]
  /\ UNCHANGED <<lastVoiceSent, cardVoice, reg, asked, sentVoice>>

(* utteranceBytes with buildPrefixFromPrefs, and the card taking it.       *)
Speak(v, rate, pitch) ==
  /\ sentVoice' = (v # lastVoiceSent)
  /\ lastVoiceSent' = v
  /\ cardVoice' = IF sentVoice' THEN v ELSE cardVoice
  /\ reg' = CardAfter(v, sentVoice', Sets(v, rate, pitch))
  /\ asked' = [voice |-> v, rate |-> rate, pitch |-> pitch]
  /\ UNCHANGED pref

(* shutdown and open: the firmware starts over.                            *)
RebootKeepsVoice ==
  /\ cardVoice' = 0 /\ reg' = Booted /\ asked' = Default
  /\ UNCHANGED <<pref, sentVoice, lastVoiceSent>>

Reboot ==
  /\ lastVoiceSent' = -1
  /\ cardVoice' = 0 /\ reg' = Booted /\ asked' = Default
  /\ UNCHANGED <<pref, sentVoice>>

Next ==
  \/ \E q \in Quality \cup {"volume"} : SetPref(q)
  \/ \E v \in Voice, rate \in Rate, pitch \in Pitch : Speak(v, rate, pitch)
  \/ Reboot

Spec == Init /\ [][Next]_vars

-----------------------------------------------------------------------------
TypeOK ==
  /\ lastVoiceSent \in Voice \cup {-1}
  /\ pref \in [Quality \cup {"volume"} -> -1..9]
  /\ cardVoice \in Voice
  /\ reg \in [Register -> 0..99] /\ reg.rate \in 0..9
  /\ asked \in [voice : Voice, rate : Nat, pitch : Nat]
  /\ sentVoice \in BOOLEAN

(* Engine.kt:213-222: the card holds the voice, rate and pitch last asked  *)
(* for, whichever earlier utterances, skipped nOs and reboots there were.  *)
SpeaksAsAsked ==
  /\ cardVoice = asked.voice
  /\ reg.rate = mapRate(asked.rate)
  /\ reg.pitch = mapPitch(asked.pitch, VOICE_PRESETS[asked.voice].pitch)

(* What a quality register should hold for voice v: the saved override, or *)
(* the voice's preset on Auto.                                             *)
Wanted(v, q) == IF pref[q] \in Legal(q) THEN pref[q] ELSE VOICE_PRESETS[v][q]

(* Engine.kt:204-211: the nO comes first, so that after it every quality   *)
(* register is as the settings call for; without one, real overrides are.  *)
QualityAsSet ==
  [][\A v \in Voice, rate \in Rate, pitch \in Pitch : Speak(v, rate, pitch) =>
       \A q \in Quality : sentVoice' \/ q \in Overrides(v) => reg'[q] = Wanted(v, q)]_vars
=============================================================================
