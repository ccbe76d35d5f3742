---------------------------- MODULE MCDoubleDroid ----------------------------
(* Small instances of the app for TLC; each cfg picks its threads.          *)
EXTENDS DoubleDroid, TLC

CONSTANTS b1, b2, t1, t2

Nobody    == {}
NoClick    == {}
AllClicks  == {"speak", "stop", "setting"}
OneBinder == {b1}
TwoBinders == {b1, b2}
TwoTests  == {t1, t2}
TwoVoices == {0, 3}
OneSetting  == {0}
TwoSettings == {0, 1}
=============================================================================
