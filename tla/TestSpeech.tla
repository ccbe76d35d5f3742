----------------------------- MODULE TestSpeech -----------------------------
(***************************************************************************)
(* SettingsActivity.kt without the ROM import: the UI thread, which saves  *)
(* and applies settings and starts and stops the test speech, and the      *)
(* "dtalk-test" threads it spawns.  stopTestSpeech waits for the running   *)
(* thread, but for one second only.                                        *)
(***************************************************************************)
EXTENDS Engine

CONSTANTS Clicks,        \* what the user does, of "speak", "stop" and "setting"
          TestThread,    \* the threads startTestSpeech may create, each once
          NoThread,      \* testThread = null
          MaxTestText,   \* bound: units of text in the test phrase
          JoinTimesOut   \* whether join(1000) may return with the thread alive

ASSUME TestAssumption ==
  /\ MaxTestText \in Nat
  /\ JoinTimesOut \in BOOLEAN
  /\ NoThread \notin TestThread
  /\ Free \notin TestThread

VARIABLES ui,         \* the UI thread's place
          starting,   \* whether it is in startTestSpeech
          uiPref,     \* the preferences applyPrefs has read
          uiUtt,      \* the utterance built for the next test thread
          testStop,
          testThread,
          test,       \* where each test thread stands
          testUtt,    \* the utterance each was given
          testChunk   \* the chunk each is writing to its AudioTrack

testVars == <<ui, starting, uiPref, uiUtt, testStop, testThread, test, testUtt, testChunk>>

UiPlace   == {"idle", "flag", "stop", "join", "open", "readPrefs", "applyPrefs", "build", "launch"}
TestPlace == {"new", "flush", "queue", "loop", "enter", "synth", "write", "done"}
Running   == TestPlace \ {"new", "done"}

TestTypeOK ==
  /\ ui \in UiPlace
  /\ starting \in BOOLEAN
  /\ uiPref \in Setting
  /\ testStop \in BOOLEAN
  /\ testThread \in TestThread \cup {NoThread}
  /\ test \in [TestThread -> TestPlace]

TestInit ==
  /\ ui = "idle" /\ starting = FALSE
  /\ uiPref = StockSetting
  /\ uiUtt = NoUtterance
  /\ testStop = FALSE
  /\ testThread = NoThread
  /\ test = [t \in TestThread |-> "new"]
  /\ testUtt = [t \in TestThread |-> NoUtterance]
  /\ testChunk = [t \in TestThread |-> NoChunk]

UiAt(place) == ui = place
UiGoto(place) == ui' = place
KeepTests == UNCHANGED <<test, testUtt, testChunk>>

-----------------------------------------------------------------------------
(* The user's clicks.                                                      *)
UiSpeak ==
  /\ "speak" \in Clicks
  /\ \E t \in TestThread : test[t] = "new"  \* bound: a thread is left to create
  /\ UiAt("idle") /\ UiGoto("flag") /\ starting' = TRUE
  /\ UNCHANGED <<uiPref, uiUtt, testStop, testThread>> /\ KeepTests
  /\ UNCHANGED engineVars

UiStop ==  \* the stop button, and onDestroy
  /\ "stop" \in Clicks
  /\ UiAt("idle") /\ UiGoto("flag") /\ starting' = FALSE
  /\ UNCHANGED <<uiPref, uiUtt, testStop, testThread>> /\ KeepTests
  /\ UNCHANGED engineVars

UiSetPrefOnly ==
  /\ "setting" \in Clicks
  /\ UiAt("idle") /\ UiGoto("idle") /\ starting' = FALSE
  /\ outputPref' \in Setting
  /\ UNCHANGED <<uiPref, uiUtt, testStop, testThread>> /\ KeepTests
  /\ UNCHANGED <<lock, handle, lastVoiceSent, hostQueue, cardVoice, applied>>

UiSetPref ==
  /\ "setting" \in Clicks
  /\ UiAt("idle") /\ UiGoto("readPrefs") /\ starting' = FALSE
  /\ outputPref' \in Setting
  /\ UNCHANGED <<uiPref, uiUtt, testStop, testThread>> /\ KeepTests
  /\ UNCHANGED <<lock, handle, lastVoiceSent, hostQueue, cardVoice, applied>>

-----------------------------------------------------------------------------
(* stopTestSpeech                                                          *)
UiStopFlag ==
  /\ UiAt("flag") /\ UiGoto("stop")
  /\ testStop' = TRUE
  /\ UNCHANGED <<starting, uiPref, uiUtt, testThread>> /\ KeepTests
  /\ UNCHANGED engineVars

UiStopEngine ==
  /\ UiAt("stop") /\ UiGoto("join") /\ Stop
  /\ UNCHANGED <<starting, uiPref, uiUtt, testStop, testThread>> /\ KeepTests

UiJoin ==
  /\ UiAt("join") /\ UiGoto(IF starting THEN "open" ELSE "idle")
  /\ testThread # NoThread => test[testThread] = "done" \/ JoinTimesOut
  /\ testThread' = NoThread
  /\ UNCHANGED <<starting, uiPref, uiUtt, testStop>> /\ KeepTests
  /\ UNCHANGED engineVars

(* the rest of startTestSpeech; applyPrefs also ends a settings change     *)
UiOpen ==
  /\ UiAt("open")
  /\ \/ OpenRunning /\ UiGoto("build")
     \/ OpenBoots   /\ UiGoto("readPrefs")
     \/ OpenFails   /\ UiGoto("idle")
  /\ UNCHANGED <<starting, uiPref, uiUtt, testStop, testThread>> /\ KeepTests

UiReadPrefs ==
  /\ UiAt("readPrefs") /\ UiGoto("applyPrefs")
  /\ uiPref' = outputPref
  /\ UNCHANGED <<starting, uiUtt, testStop, testThread>> /\ KeepTests
  /\ UNCHANGED engineVars

UiApplyPrefs ==
  /\ UiAt("applyPrefs") /\ UiGoto(IF starting THEN "build" ELSE "idle")
  /\ ApplyPrefs(uiPref)
  /\ UNCHANGED <<starting, uiPref, uiUtt, testStop, testThread>> /\ KeepTests

UiBuild ==
  /\ UiAt("build") /\ UiGoto("launch")
  /\ \E v \in Voice, n \in 0..MaxTestText :
       /\ uiUtt' = BuiltUtterance(0, v, n)
       /\ Build(v)
  /\ UNCHANGED <<starting, uiPref, testStop, testThread>> /\ KeepTests

UiLaunch ==
  /\ UiAt("launch") /\ UiGoto("idle")
  /\ testStop' = FALSE
  /\ \E t \in TestThread :
       /\ test[t] = "new"
       /\ test' = [test EXCEPT ![t] = "flush"]
       /\ testUtt' = [testUtt EXCEPT ![t] = [uiUtt EXCEPT !.by = t]]
       /\ testThread' = t
  /\ UNCHANGED <<starting, uiPref, uiUtt, testChunk>>
  /\ UNCHANGED engineVars

-----------------------------------------------------------------------------
(* The body of thread(name = "dtalk-test").                                *)
TestAt(t, place) == test[t] = place
TestGoto(t, place) == test' = [test EXCEPT ![t] = place]
KeepUi == UNCHANGED <<ui, starting, uiPref, uiUtt, testStop, testThread, testUtt>>

TestFlushKeepsQueue(t) ==
  /\ TestAt(t, "flush") /\ TestGoto(t, "queue")
  /\ KeepUi /\ UNCHANGED testChunk
  /\ UNCHANGED engineVars

TestFlush(t) == TestAt(t, "flush") /\ Stop /\ TestGoto(t, "queue") /\ KeepUi /\ UNCHANGED testChunk

TestQueue(t) ==
  /\ TestAt(t, "queue") /\ Queue(testUtt[t]) /\ TestGoto(t, "loop")
  /\ KeepUi /\ UNCHANGED testChunk

TestLoop(t) ==
  /\ TestAt(t, "loop") /\ TestGoto(t, IF testStop THEN "done" ELSE "enter")
  /\ KeepUi /\ UNCHANGED testChunk
  /\ UNCHANGED engineVars

TestEnter(t) ==
  /\ TestAt(t, "enter") /\ KeepUi /\ UNCHANGED testChunk
  /\ \/ SynthClosed /\ TestGoto(t, "done")
     \/ SynthEnter(t) /\ TestGoto(t, "synth")

TestSynth(t) ==
  /\ TestAt(t, "synth") /\ KeepUi
  /\ \/ SynthSkip(t) /\ UNCHANGED <<test, testChunk>>
     \/ SynthIdle(t) /\ TestGoto(t, "done") /\ UNCHANGED testChunk
     \/ /\ SynthSpeak(t) /\ TestGoto(t, "write")
        /\ testChunk' = [testChunk EXCEPT ![t] = SpokenChunk]

TestWrite(t) ==  \* the AudioTrack writes, cut short by testStop or an error
  /\ TestAt(t, "write") /\ TestGoto(t, "loop")
  /\ KeepUi /\ UNCHANGED testChunk
  /\ UNCHANGED engineVars

-----------------------------------------------------------------------------
UiClick == UiSpeak \/ UiStop \/ UiSetPref
UiStep == UiStopFlag \/ UiStopEngine \/ UiJoin \/ UiOpen \/ UiReadPrefs \/ UiApplyPrefs
            \/ UiBuild \/ UiLaunch
TestStep(t) == TestFlush(t) \/ TestQueue(t) \/ TestLoop(t) \/ TestEnter(t) \/ TestSynth(t)
                 \/ TestWrite(t)

TestNext == UiClick \/ UiStep \/ \E t \in TestThread : TestStep(t)
=============================================================================
