-------------------------- MODULE VoicePrefixProofs --------------------------
(***************************************************************************)
(* For every set of voices, rates, pitches and slider values, the card     *)
(* holds the voice, the rate and the pitch of the last utterance, and the  *)
(* qualities its prefix was to set.                                        *)
(***************************************************************************)
EXTENDS VoicePrefix, TLAPS

(* The rate the card is sent is a digit, and a faster request is never     *)
(* mapped to a slower card rate.                                           *)
THEOREM RateMap ==
  ASSUME NEW a \in Nat, NEW b \in Nat, a <= b
  PROVE  /\ mapRate(a) \in 0..9
         /\ mapRate(a) <= mapRate(b)
<1> DEFINE Slow(n) == (n * 5 + 50) \div 100
           Fast(n) == 5 + ((n - 100) * 4 + 150) \div 300
<1>1. \A n \in Nat : Slow(n) \in Int /\ Fast(n) \in Int
  OBVIOUS
<1>2. \A n \in Nat : n <= 100 => Slow(n) <= 5
  OBVIOUS
<1>3. \A n \in Nat : ~(n <= 100) => Fast(n) >= 5
  OBVIOUS
<1>4. Slow(a) <= Slow(b) /\ Fast(a) <= Fast(b)
  OBVIOUS
<1>5. \A n \in Nat : mapRate(n) = Clamp(IF n <= 100 THEN Slow(n) ELSE Fast(n), 0, 9)
  BY DEF mapRate
<1> HIDE DEF Slow, Fast
<1> QED BY <1>1, <1>2, <1>3, <1>4, <1>5 DEF Clamp

(* The same of the pitch, for every preset: it stays within the card's     *)
(* range and does not turn back where the two halves of the map meet.      *)
LEMMA Scaled ==
  ASSUME NEW k \in Nat, NEW a \in Nat, NEW b \in Nat, a <= b
  PROVE  /\ k * a \in Nat /\ k * b \in Nat
         /\ k * a <= k * b
<1>1. k * a \in Nat /\ k * b \in Nat /\ k * (b - a) \in Nat  OBVIOUS
<1>2. k * b = k * a + k * (b - a)  OBVIOUS
<1> QED BY <1>1, <1>2

THEOREM PitchMap ==
  ASSUME NEW preset \in 0..99, NEW a \in Nat, NEW b \in Nat, a <= b
  PROVE  /\ mapPitch(a, preset) \in 0..99
         /\ mapPitch(a, preset) <= mapPitch(b, preset)
         /\ mapPitch(100, preset) = preset
<1> DEFINE Low(n) == (preset * n) \div 100
           Up(n) == preset + ((99 - preset) * (n - 100)) \div 300
<1>1. \A n \in Nat : n <= 100 => Low(n) \in 0..preset
  <2> TAKE n \in Nat
  <2> HAVE n <= 100
  <2>1. preset * n \in Nat /\ preset * n <= preset * 100  BY Scaled
  <2> QED BY <2>1
<1>2. \A n \in Nat : n > 100 => Up(n) \in Int /\ Up(n) >= preset
  <2> TAKE n \in Nat
  <2> HAVE n > 100
  <2>1. (99 - preset) * (n - 100) \in Nat
    <3>1. 99 - preset \in Nat /\ n - 100 \in Nat  OBVIOUS
    <3> QED BY <3>1, Scaled
  <2> QED BY <2>1
<1>3. b <= 100 => Low(a) <= Low(b)
  <2>1. preset * a \in Nat /\ preset * b \in Nat /\ preset * a <= preset * b  BY Scaled
  <2> QED BY <2>1
<1>4. a > 100 => Up(a) <= Up(b)
  <2> HAVE a > 100
  <2>1. 99 - preset \in Nat /\ a - 100 \in Nat /\ b - 100 \in Nat /\ a - 100 <= b - 100
    OBVIOUS
  <2>2. /\ (99 - preset) * (a - 100) \in Nat /\ (99 - preset) * (b - 100) \in Nat
        /\ (99 - preset) * (a - 100) <= (99 - preset) * (b - 100)
    BY <2>1, Scaled
  <2> QED BY <2>2
<1>5. Low(100) = preset  OBVIOUS
<1>6. \A n \in Nat : mapPitch(n, preset) = Clamp(IF n <= 100 THEN Low(n) ELSE Up(n), 0, 99)
  BY DEF mapPitch
<1> HIDE DEF Low, Up
<1> DEFINE Raw(n) == IF n <= 100 THEN Low(n) ELSE Up(n)
<1>7. \A n \in Nat : Raw(n) \in Int  BY <1>1, <1>2
<1>8. Raw(a) <= Raw(b)
  <2>1. CASE b <= 100  BY <1>3, <2>1
  <2>2. CASE a > 100  BY <1>4, <2>2
  <2>3. CASE a <= 100 /\ b > 100  BY <1>1, <1>2, <2>3
  <2> QED BY <2>1, <2>2, <2>3
<1>9. Raw(100) = preset  BY <1>5
<1> HIDE DEF Raw
<1>10. \A n \in Nat : mapPitch(n, preset) = Clamp(Raw(n), 0, 99)  BY <1>6 DEF Raw
<1>11. \A x \in Int, y \in Int : x <= y => Clamp(x, 0, 99) <= Clamp(y, 0, 99)  BY DEF Clamp
<1>12. \A x \in Int : Clamp(x, 0, 99) \in 0..99 /\ (x \in 0..99 => Clamp(x, 0, 99) = x)
  BY DEF Clamp
<1>13. mapPitch(a, preset) <= mapPitch(b, preset)  BY <1>7, <1>8, <1>10, <1>11
<1>14. mapPitch(a, preset) \in 0..99  BY <1>7, <1>10, <1>12
<1>15. mapPitch(100, preset) = preset  BY <1>7, <1>9, <1>10, <1>12
<1> QED BY <1>13, <1>14, <1>15

-----------------------------------------------------------------------------
(* What a skipped nO relies on: once lastVoiceSent is set, it is the card's*)
(* voice.                                                                  *)
VoiceKnown == lastVoiceSent # -1 => cardVoice = lastVoiceSent

VoiceInv == VoiceKnown /\ SpeaksAsAsked

(* Booted, the card has Perfect Paul at rate 5 and pitch 50, which is what *)
(* the Android defaults ask for.                                           *)
LEMMA BootedAsDefault ==
  /\ Booted.rate = mapRate(Default.rate)
  /\ Booted.pitch = mapPitch(Default.pitch, VOICE_PRESETS[0].pitch)
<1>1. VOICE_PRESETS[0] = Preset(50, 5, 5, 1, 5, 0)
  <2>1. (0 % 5) + 1 = 1
    OBVIOUS
  <2> QED BY <2>1 DEF VOICE_PRESETS
<1>2. Booted.rate = 5 /\ Booted.pitch = VOICE_PRESETS[0]["pitch"]
  BY DEF Booted, Register, Loaded, Quality
<1>3. VOICE_PRESETS[0].pitch = 50
  BY <1>1 DEF Preset
<1>4. mapRate(100) = 5 /\ mapPitch(100, 50) = 50
  BY DEF mapRate, mapPitch, Clamp
<1> QED BY <1>2, <1>3, <1>4 DEF Default

(* An utterance leaves its rate and its pitch in the registers, whether nO *)
(* was sent or not.                                                        *)
LEMMA SentLast ==
  ASSUME NEW v, NEW rate, NEW pitch, NEW nO
  PROVE  LET after == CardAfter(v, nO, Sets(v, rate, pitch))
         IN  /\ after.rate = mapRate(rate)
             /\ after.pitch = mapPitch(pitch, VOICE_PRESETS[v].pitch)
<1> DEFINE sets == Sets(v, rate, pitch)
           old == IF nO THEN LoadedRegisters(v, reg) ELSE reg
<1>1. /\ "rate" \in DOMAIN sets /\ sets["rate"] = mapRate(rate)
      /\ "pitch" \in DOMAIN sets
      /\ sets["pitch"] = mapPitch(pitch, VOICE_PRESETS[v].pitch)
  BY DEF Sets
<1>2. "rate" \in Register /\ "pitch" \in Register
  BY DEF Register, Loaded
<1>3. CardAfter(v, nO, sets) = ThenSet(old, sets)
  BY DEF CardAfter
<1> HIDE DEF sets, old
<1>4. /\ ThenSet(old, sets)["rate"] = sets["rate"]
      /\ ThenSet(old, sets)["pitch"] = sets["pitch"]
  BY <1>1, <1>2 DEF ThenSet
<1> QED BY <1>1, <1>3, <1>4 DEF sets

(* The card is as last asked, whatever is spoken, saved and rebooted.      *)
THEOREM CardAsAsked == Spec => []SpeaksAsAsked
<1>1. Init => VoiceInv
  BY BootedAsDefault DEF Init, VoiceInv, VoiceKnown, SpeaksAsAsked, Default
<1>2. VoiceInv /\ [Next]_vars => VoiceInv'
  <2> SUFFICES ASSUME VoiceInv, [Next]_vars PROVE VoiceInv'
    OBVIOUS
  <2>1. ASSUME NEW q \in Quality \cup {"volume"}, SetPref(q) PROVE VoiceInv'
    BY <2>1 DEF SetPref, VoiceInv, VoiceKnown, SpeaksAsAsked
  <2>2. ASSUME NEW v \in Voice, NEW rate \in Rate, NEW pitch \in Pitch,
               Speak(v, rate, pitch)
        PROVE  VoiceInv'
    <3>1. /\ asked'.voice = v /\ asked'.rate = rate /\ asked'.pitch = pitch
          /\ lastVoiceSent' = v
      BY <2>2 DEF Speak
    <3>2. cardVoice' = v
      <4>1. v \in 0..7
        BY PrefixAssumption DEF PrefixAssumption
      <4>2. v # -1
        BY <4>1
      <4>3. cardVoice' = IF v # lastVoiceSent THEN v ELSE cardVoice
        BY <2>2, Zenon DEF Speak
      <4> QED BY <4>2, <4>3 DEF VoiceInv, VoiceKnown
    <3>3. reg' = CardAfter(v, sentVoice', Sets(v, rate, pitch))
      BY <2>2 DEF Speak
    <3>4. /\ reg'.rate = mapRate(rate)
          /\ reg'.pitch = mapPitch(pitch, VOICE_PRESETS[v].pitch)
      BY <3>3, SentLast
    <3> QED BY <3>1, <3>2, <3>4 DEF VoiceInv, VoiceKnown, SpeaksAsAsked
  <2>3. CASE Reboot
    BY <2>3, BootedAsDefault DEF Reboot, VoiceInv, VoiceKnown, SpeaksAsAsked, Default
  <2>4. CASE UNCHANGED vars
    BY <2>4 DEF vars, VoiceInv, VoiceKnown, SpeaksAsAsked
  <2> QED BY <2>1, <2>2, <2>3, <2>4 DEF Next
<1>3. VoiceInv => SpeaksAsAsked
  BY DEF VoiceInv
<1> QED BY <1>1, <1>2, <1>3, PTL DEF Spec

(* DoubleTalkEngine.kt:204-211.  Whatever the sliders were moved to, and   *)
(* with nO sent or left out, an utterance leaves every quality register it *)
(* is to set as the settings and the preset of its voice call for.         *)
THEOREM QualityKept == Spec => QualityAsSet
<1>1. ASSUME NEW v \in Voice, NEW rate \in Rate, NEW pitch \in Pitch, Speak(v, rate, pitch),
             NEW q \in Quality, sentVoice' \/ q \in Overrides(v)
      PROVE  reg'[q] = Wanted(v, q)
  <2> DEFINE sets == Sets(v, rate, pitch)
             old == IF sentVoice' THEN LoadedRegisters(v, reg) ELSE reg
  <2>1. reg' = ThenSet(old, sets)
    BY <1>1 DEF Speak, CardAfter
  <2>2. /\ q \in Register /\ q \in Loaded
        /\ q \notin {"rate", "pitch", "volume"}
    BY DEF Register, Loaded, Quality
  <2>3. /\ DOMAIN sets = {"rate", "pitch", "volume"} \cup Overrides(v)
        /\ q \in Overrides(v) => sets[q] = pref[q]
    BY <2>2 DEF Sets
  <2> HIDE DEF sets, old
  <2>4. reg'[q] = IF q \in Overrides(v) THEN pref[q] ELSE old[q]
    BY <2>1, <2>2, <2>3 DEF ThenSet
  <2>5. CASE q \in Overrides(v)
    BY <2>4, <2>5 DEF Overrides, Wanted
  <2>6. CASE q \notin Overrides(v)
    <3>1. old[q] = VOICE_PRESETS[v][q]
      BY <1>1, <2>2, <2>6 DEF old, LoadedRegisters
    <3>2. Wanted(v, q) = VOICE_PRESETS[v][q]
      BY <2>6 DEF Overrides, Wanted
    <3> QED  BY <2>4, <2>6, <3>1, <3>2
  <2> QED  BY <2>5, <2>6
<1>2. \A v \in Voice, rate \in Rate, pitch \in Pitch : Speak(v, rate, pitch) =>
        \A q \in Quality : sentVoice' \/ q \in Overrides(v) => reg'[q] = Wanted(v, q)
  BY <1>1
<1> QED  BY <1>2, PTL DEF QualityAsSet
=============================================================================
