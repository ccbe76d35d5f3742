---------------------------- MODULE MCVoicePrefix ----------------------------
(* Three voices with different presets, the corners of the rate and pitch   *)
(* maps, and sliders on Auto, an extreme and a preset's own value.          *)
EXTENDS VoicePrefix

ThreeVoices == {0, 1, 3}
Rates       == {0, 600}
Pitches     == {100, 40, 400}
Sliders     == {-1, 2}
=============================================================================
