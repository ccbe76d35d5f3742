-------------------------- MODULE DoubleDroidProofs --------------------------
(***************************************************************************)
(* Theorems about the app for any number of binder and test threads,       *)
(* requests, voices and settings.                                          *)
(***************************************************************************)
EXTENDS DoubleDroid, SequenceTheorems, TLAPS

(* Every engine method keeps the engine well typed, whoever the speakers   *)
(* are (Engine.kt:97-181).                                                 *)
LEMMA MethodTypes ==
  ASSUME NEW By, EngineTypeOK(By)
  PROVE  /\ OpenRunning \/ OpenBoots \/ OpenFails => EngineTypeOK(By)'
         /\ \A read \in Setting : ApplyPrefs(read) => EngineTypeOK(By)'
         /\ Shutdown \/ Stop => EngineTypeOK(By)'
         /\ \A u \in Utterance(By) : Queue(u) => EngineTypeOK(By)'
         /\ \A v \in Voice : Build(v) => EngineTypeOK(By)'
         /\ SynthClosed => EngineTypeOK(By)'
<1> USE EngineAssumption DEF EngineAssumption, EngineTypeOK
<1>0. <<>> \in Seq(Utterance(By)) /\ 0 \in Voice /\ StockSetting \in Setting
  OBVIOUS
<1>1. OpenRunning \/ OpenBoots \/ OpenFails => EngineTypeOK(By)'
  <2>1. CASE OpenRunning
    BY <2>1 DEF OpenRunning, engineVars
  <2>2. CASE OpenBoots
    BY <1>0, <2>2 DEF OpenBoots
  <2>3. CASE OpenFails
    BY <2>3 DEF OpenFails, engineVars
  <2>4. QED  BY <2>1, <2>2, <2>3
<1>2. \A read \in Setting : ApplyPrefs(read) => EngineTypeOK(By)'
  BY DEF ApplyPrefs
<1>3. Shutdown \/ Stop => EngineTypeOK(By)'
  <2>1. CASE Shutdown
    BY <1>0, <2>1 DEF Shutdown
  <2>2. CASE Stop
    BY <1>0, <2>2 DEF Stop
  <2>3. QED  BY <2>1, <2>2
<1>4. \A u \in Utterance(By) : Queue(u) => EngineTypeOK(By)'
  BY DEF Queue
<1>5. \A v \in Voice : Build(v) => EngineTypeOK(By)'
  BY DEF Build
<1>6. SynthClosed => EngineTypeOK(By)'
  BY DEF SynthClosed, engineVars
<1>7. QED  BY <1>1, <1>2, <1>3, <1>4, <1>5, <1>6

(* The steps of synthChunk keep it well typed too, and the chunk they      *)
(* produce is by one of the speakers, in a card voice (Engine.kt:176-181). *)
LEMMA SynthTypes ==
  ASSUME NEW By, EngineTypeOK(By), NEW t
  PROVE  /\ SynthEnter(t) => EngineTypeOK(By)'
         /\ SynthSkip(t) => EngineTypeOK(By)'
         /\ SynthIdle(t) => EngineTypeOK(By)'
         /\ SynthSpeak(t) => EngineTypeOK(By)' /\ SpokenChunk \in Chunk(By)
<1> USE DEF EngineTypeOK
<1>1. SynthEnter(t) => EngineTypeOK(By)'
  BY DEF SynthEnter
<1>2. SynthIdle(t) => EngineTypeOK(By)'
  BY DEF SynthIdle
<1>3. hostQueue # <<>> => /\ Head(hostQueue) \in Utterance(By)
                          /\ Tail(hostQueue) \in Seq(Utterance(By))
                          /\ LoadedVoice(Head(hostQueue)) \in Voice
  <2>1. hostQueue # <<>> => /\ Head(hostQueue) \in Utterance(By)
                            /\ Tail(hostQueue) \in Seq(Utterance(By))
    OBVIOUS
  <2>2. QED  BY <2>1 DEF LoadedVoice, Utterance
<1>4. SynthSkip(t) => EngineTypeOK(By)'
  BY <1>3 DEF SynthSkip
<1>5. SynthSpeak(t) => EngineTypeOK(By)' /\ SpokenChunk \in Chunk(By)
  <2> SUFFICES ASSUME SynthSpeak(t)
               PROVE  EngineTypeOK(By)' /\ SpokenChunk \in Chunk(By)
    OBVIOUS
  <2> DEFINE rest == [Head(hostQueue) EXCEPT !.nO = FALSE, !.text = @ - 1]
  <2>1. rest \in Utterance(By)
    <3>1. Head(hostQueue) \in Utterance(By) /\ Head(hostQueue).text \in Nat
      BY <1>3 DEF SynthSpeak, Utterance
    <3>2. Head(hostQueue).text - 1 \in Nat
      BY <3>1 DEF SynthSpeak
    <3>3. QED  BY <3>1, <3>2 DEF Utterance
  <2>2. <<rest>> \o Tail(hostQueue) \in Seq(Utterance(By))
    <3> HIDE DEF rest
    <3>1. <<rest>> \in Seq(Utterance(By))  BY <2>1
    <3>2. QED  BY <3>1, <1>3 DEF SynthSpeak
  <2>3. EngineTypeOK(By)'
    BY <1>3, <2>2 DEF SynthSpeak
  <2>4. SpokenChunk \in Chunk(By)
    BY <1>3 DEF SynthSpeak, SpokenChunk, Chunk, Utterance
  <2>5. QED  BY <2>3, <2>4
<1>6. QED  BY <1>1, <1>2, <1>4, <1>5

-----------------------------------------------------------------------------
(* A built utterance is an utterance of whoever built it, and those of the *)
(* service are among those of all speakers (Engine.kt:313-318).            *)
LEMMA UtteranceTypes ==
  /\ Utterance(0..MaxRequests) \subseteq Utterance(Speaker)
  /\ \A S, by, v, n : by \in S /\ v \in Voice /\ n \in Nat
       => BuiltUtterance(by, v, n) \in Utterance(S)
<1>1. Utterance(0..MaxRequests) \subseteq Utterance(Speaker)
  BY DEF Utterance, Speaker
<1>2. \A S, by, v, n : by \in S /\ v \in Voice /\ n \in Nat
       => BuiltUtterance(by, v, n) \in Utterance(S)
  BY DEF Utterance, BuiltUtterance
<1>3. QED  BY <1>1, <1>2

(* What a step of the synthesis thread or of onStop must keep: everything  *)
(* but the test-speech variables, which it does not touch.                 *)
ServiceSideOK ==
  /\ EngineTypeOK(Speaker)
  /\ ServiceTypeOK
  /\ svcChunk \in Chunk(Speaker)
  /\ lock \in {Free, Svc} \cup TestThread

LEMMA ServiceTypes ==
  ASSUME ServiceSideOK, ServiceNext \/ OnStop
  PROVE  ServiceSideOK'
<1> USE ServiceAssumption DEF ServiceAssumption, ServiceSideOK
<1> DEFINE SvcOK == ServiceTypeOK /\ svcChunk \in Chunk(Speaker)
           LockOK == lock \in {Free, Svc} \cup TestThread
<1>a. ASSUME UNCHANGED engineVars PROVE EngineTypeOK(Speaker)' /\ LockOK'
  BY <1>a DEF engineVars, EngineTypeOK
<1>b. ASSUME KeepSvc, svc' \in SvcPlace \ {"avail"} PROVE SvcOK'
  BY <1>b DEF KeepSvc, ServiceTypeOK
<1>1. CASE SvcRequest
  <2>1. SvcOK'  BY <1>1 DEF SvcRequest, At, Goto, ServiceTypeOK, SvcPlace
  <2>2. QED  BY <1>1, <1>a, <2>1 DEF SvcRequest
<1>2. CASE SvcOpen
  <2>1. SvcOK'  BY <1>2, <1>b DEF SvcOpen, Goto, SvcPlace
  <2>2. LockOK'  BY <1>2 DEF SvcOpen, OpenRunning, OpenBoots, OpenFails, engineVars
  <2>3. QED  BY <1>2, <2>1, <2>2, MethodTypes DEF SvcOpen
<1>3. CASE SvcReadPrefs
  <2>1. SvcOK'
    BY <1>3 DEF SvcReadPrefs, At, Goto, ServiceTypeOK, SvcPlace, EngineTypeOK
  <2>2. QED  BY <1>3, <1>a, <2>1 DEF SvcReadPrefs
<1>4. CASE SvcApplyPrefs
  <2>1. SvcOK'  BY <1>4, <1>b DEF SvcApplyPrefs, Goto, SvcPlace
  <2>2. svcPref \in Setting  BY DEF ServiceTypeOK
  <2>3. LockOK'  BY <1>4 DEF SvcApplyPrefs, ApplyPrefs
  <2>4. QED  BY <1>4, <2>1, <2>2, <2>3, MethodTypes DEF SvcApplyPrefs
<1>5. CASE SvcReset
  <2>1. SvcOK'  BY <1>5 DEF SvcReset, At, Goto, ServiceTypeOK, SvcPlace
  <2>2. QED  BY <1>5, <1>a, <2>1 DEF SvcReset
<1>6. CASE SvcStart
  <2>1. SvcOK'  BY <1>6, <1>b DEF SvcStart, Goto, SvcPlace
  <2>2. QED  BY <1>6, <1>a, <2>1 DEF SvcStart
<1>7. CASE SvcBuild
  <2>1. PICK v \in Voice, n \in 0..MaxText :
            svcUtt' = BuiltUtterance(request, v, n) /\ Build(v)
    BY <1>7 DEF SvcBuild
  <2>2. svcUtt' \in Utterance(0..MaxRequests) /\ svcUtt'.text \in 0..MaxText
    <3>1. request \in 0..MaxRequests /\ n \in Nat
      BY DEF ServiceTypeOK
    <3>2. QED  BY <2>1, <3>1, UtteranceTypes DEF BuiltUtterance
  <2>3. SvcOK'
    BY <1>7, <2>2 DEF SvcBuild, At, Goto, ServiceTypeOK, SvcPlace
  <2>4. LockOK'  BY <2>1 DEF Build
  <2>5. QED  BY <2>1, <2>3, <2>4, MethodTypes
<1>8. CASE SvcFlush
  <2>1. SvcOK'  BY <1>8, <1>b DEF SvcFlush, Goto, SvcPlace
  <2>2. LockOK'  BY <1>8 DEF SvcFlush, Stop
  <2>3. QED  BY <1>8, <2>1, <2>2, MethodTypes DEF SvcFlush
<1>9. CASE SvcQueue
  <2>1. SvcOK'  BY <1>9, <1>b DEF SvcQueue, Goto, SvcPlace
  <2>2. LockOK'  BY <1>9 DEF SvcQueue, Queue
  <2>3. svcUtt \in Utterance(Speaker)  BY UtteranceTypes DEF ServiceTypeOK
  <2>4. QED  BY <1>9, <2>1, <2>2, <2>3, MethodTypes DEF SvcQueue
<1>10. CASE SvcLoop
  <2>1. SvcOK'  BY <1>10, <1>b DEF SvcLoop, Goto, SvcPlace
  <2>2. QED  BY <1>10, <1>a, <2>1 DEF SvcLoop
<1>11. CASE SvcEnter
  <2>1. SvcOK'  BY <1>11, <1>b DEF SvcEnter, Goto, SvcPlace
  <2>2. LockOK'  BY <1>11 DEF SvcEnter, SynthClosed, SynthEnter, engineVars
  <2>3. QED  BY <1>11, <2>1, <2>2, MethodTypes, SynthTypes DEF SvcEnter
<1>12. CASE SvcSynth
  <2>1. CASE SynthSkip(Svc) /\ UNCHANGED svcVars
    <3>1. SvcOK'  BY <2>1 DEF svcVars, ServiceTypeOK
    <3>2. LockOK'  BY <2>1 DEF SynthSkip
    <3>3. QED  BY <2>1, <3>1, <3>2, SynthTypes
  <2>2. CASE SynthIdle(Svc) /\ Goto("end") /\ KeepSvc
    <3>1. SvcOK'  BY <2>2, <1>b DEF Goto, SvcPlace
    <3>2. LockOK'  BY <2>2 DEF SynthIdle
    <3>3. QED  BY <2>2, <3>1, <3>2, SynthTypes
  <2>3. CASE /\ SynthSpeak(Svc) /\ Goto("buffer")
             /\ svcChunk' = SpokenChunk /\ svcLeft' \in 1..MaxBuffers
             /\ UNCHANGED <<request, svcPref, svcUtt, stopRequested, binder, delivered, lateBuffers>>
    <3>1. EngineTypeOK(Speaker)' /\ svcChunk' \in Chunk(Speaker)
      BY <2>3, SynthTypes
    <3>2. LockOK'  BY <2>3 DEF SynthSpeak
    <3>3. ServiceTypeOK'  BY <2>3 DEF Goto, ServiceTypeOK, SvcPlace
    <3>4. QED  BY <3>1, <3>2, <3>3
  <2>4. QED  BY <1>12, <2>1, <2>2, <2>3 DEF SvcSynth
<1>13. CASE SvcBuffer
  <2>1. SvcOK'  BY <1>13 DEF SvcBuffer, At, Goto, ServiceTypeOK, SvcPlace
  <2>2. QED  BY <1>13, <1>a, <2>1 DEF SvcBuffer
<1>14. CASE SvcAvail
  <2>1. SvcOK'
    <3>1. svcLeft \in 0..MaxBuffers /\ svcLeft > 0 /\ lateBuffers \in Nat
      BY <1>14 DEF SvcAvail, At, ServiceTypeOK
    <3>2. svcLeft - 1 \in 0..MaxBuffers /\ lateBuffers + 1 \in Nat
      BY <3>1
    <3>3. svcLeft' \in 0..MaxBuffers /\ lateBuffers' \in Nat /\ stopRequested' \in BOOLEAN
      BY <1>14, <3>1, <3>2 DEF SvcAvail, ServiceTypeOK
    <3>4. QED  BY <1>14, <3>3 DEF SvcAvail, At, Goto, ServiceTypeOK, SvcPlace
  <2>2. QED  BY <1>14, <1>a, <2>1 DEF SvcAvail
<1>15. CASE SvcEnd
  <2>1. SvcOK'  BY <1>15, <1>b DEF SvcEnd, Goto, SvcPlace
  <2>2. QED  BY <1>15, <1>a, <2>1 DEF SvcEnd
<1>16. CASE SvcEndStop
  <2>1. SvcOK'  BY <1>16, <1>b DEF SvcEndStop, Goto, SvcPlace
  <2>2. LockOK'  BY <1>16 DEF SvcEndStop, Stop
  <2>3. QED  BY <1>16, <2>1, <2>2, MethodTypes DEF SvcEndStop
<1>17. CASE OnStop
  <2>1. PICK b \in Binder : OnStopFlag(b) \/ OnStopEngine(b)
    BY <1>17 DEF OnStop
  <2>2. CASE OnStopFlag(b)
    <3>1. SvcOK'  BY <2>2 DEF OnStopFlag, ServiceTypeOK
    <3>2. QED  BY <2>2, <1>a, <3>1 DEF OnStopFlag
  <2>3. CASE OnStopEngine(b)
    <3>1. SvcOK'  BY <2>3 DEF OnStopEngine, ServiceTypeOK
    <3>2. LockOK'  BY <2>3 DEF OnStopEngine, Stop
    <3>3. QED  BY <2>3, <3>1, <3>2, MethodTypes DEF OnStopEngine
  <2>4. QED  BY <2>1, <2>2, <2>3
<1>18. QED
  BY <1>1, <1>2, <1>3, <1>4, <1>5, <1>6, <1>7, <1>8, <1>9, <1>10, <1>11, <1>12,
     <1>13, <1>14, <1>15, <1>16, <1>17 DEF ServiceNext, SvcStep

-----------------------------------------------------------------------------
(* The same for the settings activity: a step of the UI thread or of a     *)
(* test thread keeps its own variables and the engine well typed.          *)
TestSideOK ==
  /\ EngineTypeOK(Speaker)
  /\ TestTypeOK
  /\ uiUtt \in Utterance(Speaker)
  /\ testUtt \in [TestThread -> Utterance(Speaker)]
  /\ testChunk \in [TestThread -> Chunk(Speaker)]
  /\ lock \in {Free, Svc} \cup TestThread

(* The UI thread's steps keep the types (Settings.kt:244-301).             *)
LEMMA UiTypes ==
  ASSUME TestSideOK, UiClick \/ UiStep
  PROVE  TestSideOK'
<1> USE ServiceAssumption, TestAssumption DEF ServiceAssumption, TestAssumption, TestSideOK
<1> DEFINE UiOK == /\ TestTypeOK
                   /\ uiUtt \in Utterance(Speaker)
                   /\ testUtt \in [TestThread -> Utterance(Speaker)]
                   /\ testChunk \in [TestThread -> Chunk(Speaker)]
           LockOK == lock \in {Free, Svc} \cup TestThread
<1>a. ASSUME UNCHANGED engineVars PROVE EngineTypeOK(Speaker)' /\ LockOK'
  BY <1>a DEF engineVars, EngineTypeOK
<1>b. ASSUME KeepTests, ui' \in UiPlace, starting' \in BOOLEAN, uiPref' \in Setting,
             uiUtt' = uiUtt, testStop' \in BOOLEAN, testThread' \in TestThread \cup {NoThread}
      PROVE  UiOK'
  BY <1>b DEF KeepTests, TestTypeOK
<1>1. CASE UiSpeak \/ UiStop
  <2>1. UiOK'  BY <1>1, <1>b DEF UiSpeak, UiStop, UiGoto, UiPlace, TestTypeOK
  <2>2. QED  BY <1>1, <1>a, <2>1 DEF UiSpeak, UiStop
<1>2. CASE UiSetPref
  <2>1. UiOK'  BY <1>2, <1>b DEF UiSetPref, UiGoto, UiPlace, TestTypeOK
  <2>2. EngineTypeOK(Speaker)' /\ LockOK'  BY <1>2 DEF UiSetPref, EngineTypeOK
  <2>3. QED  BY <2>1, <2>2
<1>3. CASE UiStopFlag
  <2>1. UiOK'  BY <1>3, <1>b DEF UiStopFlag, UiGoto, UiPlace, TestTypeOK
  <2>2. QED  BY <1>3, <1>a, <2>1 DEF UiStopFlag
<1>4. CASE UiStopEngine
  <2>1. UiOK'  BY <1>4, <1>b DEF UiStopEngine, UiGoto, UiPlace, TestTypeOK
  <2>2. LockOK'  BY <1>4 DEF UiStopEngine, Stop
  <2>3. QED  BY <1>4, <2>1, <2>2, MethodTypes DEF UiStopEngine
<1>5. CASE UiJoin
  <2>1. UiOK'  BY <1>5, <1>b DEF UiJoin, UiGoto, UiPlace, TestTypeOK
  <2>2. QED  BY <1>5, <1>a, <2>1 DEF UiJoin
<1>6. CASE UiOpen
  <2>1. UiOK'  BY <1>6, <1>b DEF UiOpen, UiGoto, UiPlace, TestTypeOK
  <2>2. LockOK'  BY <1>6 DEF UiOpen, OpenRunning, OpenBoots, OpenFails, engineVars
  <2>3. QED  BY <1>6, <2>1, <2>2, MethodTypes DEF UiOpen
<1>7. CASE UiReadPrefs
  <2>1. UiOK'
    BY <1>7, <1>b DEF UiReadPrefs, UiGoto, UiPlace, TestTypeOK, EngineTypeOK
  <2>2. QED  BY <1>7, <1>a, <2>1 DEF UiReadPrefs
<1>8. CASE UiApplyPrefs
  <2>1. UiOK'  BY <1>8, <1>b DEF UiApplyPrefs, UiGoto, UiPlace, TestTypeOK
  <2>2. LockOK'  BY <1>8 DEF UiApplyPrefs, ApplyPrefs
  <2>3. uiPref \in Setting  BY DEF TestTypeOK
  <2>4. QED  BY <1>8, <2>1, <2>2, <2>3, MethodTypes DEF UiApplyPrefs
<1>9. CASE UiBuild
  <2>1. PICK v \in Voice, n \in 0..MaxTestText :
            uiUtt' = BuiltUtterance(0, v, n) /\ Build(v)
    BY <1>9 DEF UiBuild
  <2>2. uiUtt' \in Utterance(Speaker)
    <3>1. 0 \in Speaker /\ n \in Nat  BY DEF Speaker
    <3>2. QED  BY <2>1, <3>1, UtteranceTypes
  <2>3. UiOK'  BY <1>9, <2>2 DEF UiBuild, UiGoto, UiPlace, KeepTests, TestTypeOK
  <2>4. LockOK'  BY <2>1 DEF Build
  <2>5. QED  BY <2>1, <2>3, <2>4, MethodTypes
<1>10. CASE UiLaunch
  <2>1. PICK t \in TestThread :
            /\ test' = [test EXCEPT ![t] = "flush"]
            /\ testUtt' = [testUtt EXCEPT ![t] = [uiUtt EXCEPT !.by = t]]
            /\ testThread' = t
    BY <1>10 DEF UiLaunch
  <2>2. [uiUtt EXCEPT !.by = t] \in Utterance(Speaker)
    BY DEF Utterance, Speaker
  <2>3. UiOK'
    BY <1>10, <2>1, <2>2 DEF UiLaunch, UiGoto, UiPlace, TestPlace, TestTypeOK
  <2>4. QED  BY <1>10, <1>a, <2>3 DEF UiLaunch
<1>11. QED
  BY <1>1, <1>2, <1>3, <1>4, <1>5, <1>6, <1>7, <1>8, <1>9, <1>10 DEF UiClick, UiStep

(* So do the test threads' (Settings.kt:255-293).                          *)
LEMMA TestTypes ==
  ASSUME TestSideOK, NEW t \in TestThread, TestStep(t)
  PROVE  TestSideOK'
<1> USE DEF TestSideOK
<1> DEFINE UiOK == /\ TestTypeOK
                   /\ uiUtt \in Utterance(Speaker)
                   /\ testUtt \in [TestThread -> Utterance(Speaker)]
                   /\ testChunk \in [TestThread -> Chunk(Speaker)]
           LockOK == lock \in {Free, Svc} \cup TestThread
<1>a. ASSUME UNCHANGED engineVars PROVE EngineTypeOK(Speaker)' /\ LockOK'
  BY <1>a DEF engineVars, EngineTypeOK
<1>b. ASSUME KeepUi, UNCHANGED testChunk, NEW place \in TestPlace, TestGoto(t, place)
      PROVE  UiOK'
  BY <1>b DEF KeepUi, TestGoto, TestTypeOK
<1>1. CASE TestFlush(t)
  <2>1. UiOK'  BY <1>1, <1>b DEF TestFlush, TestPlace
  <2>2. LockOK'  BY <1>1 DEF TestFlush, Stop
  <2>3. QED  BY <1>1, <2>1, <2>2, MethodTypes DEF TestFlush
<1>2. CASE TestQueue(t)
  <2>1. UiOK'  BY <1>2, <1>b DEF TestQueue, TestPlace
  <2>2. LockOK'  BY <1>2 DEF TestQueue, Queue
  <2>3. testUtt[t] \in Utterance(Speaker)  OBVIOUS
  <2>4. QED  BY <1>2, <2>1, <2>2, <2>3, MethodTypes DEF TestQueue
<1>3. CASE TestLoop(t)
  <2>1. UiOK'  BY <1>3, <1>b DEF TestLoop, TestPlace
  <2>2. QED  BY <1>3, <1>a, <2>1 DEF TestLoop
<1>4. CASE TestEnter(t)
  <2>1. UiOK'  BY <1>4, <1>b DEF TestEnter, TestPlace
  <2>2. LockOK'  BY <1>4 DEF TestEnter, SynthClosed, SynthEnter, engineVars
  <2>3. QED  BY <1>4, <2>1, <2>2, MethodTypes, SynthTypes DEF TestEnter
<1>5. CASE TestSynth(t)
  <2>1. CASE SynthSkip(t) /\ UNCHANGED <<test, testChunk>>
    <3>1. UiOK'  BY <1>5, <2>1 DEF TestSynth, KeepUi, TestTypeOK
    <3>2. LockOK'  BY <2>1 DEF SynthSkip
    <3>3. QED  BY <2>1, <3>1, <3>2, SynthTypes
  <2>2. CASE SynthIdle(t) /\ TestGoto(t, "done") /\ UNCHANGED testChunk
    <3>1. UiOK'  BY <1>5, <2>2, <1>b DEF TestSynth, TestPlace
    <3>2. LockOK'  BY <2>2 DEF SynthIdle
    <3>3. QED  BY <2>2, <3>1, <3>2, SynthTypes
  <2>3. CASE /\ SynthSpeak(t) /\ TestGoto(t, "write")
             /\ testChunk' = [testChunk EXCEPT ![t] = SpokenChunk]
    <3>1. EngineTypeOK(Speaker)' /\ SpokenChunk \in Chunk(Speaker)
      BY <2>3, SynthTypes
    <3>2. LockOK'  BY <2>3 DEF SynthSpeak
    <3>3. UiOK'
      BY <1>5, <2>3, <3>1 DEF TestSynth, KeepUi, TestGoto, TestPlace, TestTypeOK
    <3>4. QED  BY <3>1, <3>2, <3>3
  <2>4. QED  BY <1>5, <2>1, <2>2, <2>3 DEF TestSynth
<1>6. CASE TestWrite(t)
  <2>1. UiOK'  BY <1>6, <1>b DEF TestWrite, TestPlace
  <2>2. QED  BY <1>6, <1>a, <2>1 DEF TestWrite
<1>7. QED  BY <1>1, <1>2, <1>3, <1>4, <1>5, <1>6 DEF TestStep

(* The types hold when the app starts ...                                  *)
LEMMA TypeInit == Init => TypeOK
<1> SUFFICES ASSUME Init PROVE TypeOK
  OBVIOUS
<1> USE EngineAssumption, ServiceAssumption, TestAssumption, DoubleDroidAssumption
    DEF EngineAssumption, ServiceAssumption, TestAssumption, DoubleDroidAssumption,
        Init, EngineInit, ServiceInit, TestInit
<1>1. NoUtterance \in Utterance(0..MaxRequests) /\ NoUtterance \in Utterance(Speaker)
      /\ NoUtterance.text = 0 /\ NoChunk \in Chunk(Speaker)
  BY DEF NoUtterance, NoChunk, Utterance, Chunk, Speaker
<1>2. EngineTypeOK(Speaker)
  BY DEF EngineTypeOK
<1>3. ServiceTypeOK /\ svcChunk \in Chunk(Speaker)
  <2>1. binder \in [Binder -> {"idle", "stop"}]  OBVIOUS
  <2>2. svcPref \in Setting  OBVIOUS
  <2>3. svcUtt \in Utterance(0..MaxRequests) /\ svcUtt.text \in 0..MaxText
    BY <1>1
  <2>4. request \in 0..MaxRequests /\ svcLeft \in 0..MaxBuffers
    OBVIOUS
  <2>5. svc \in SvcPlace /\ svc # "avail"
    BY DEF SvcPlace
  <2>6. QED  BY <1>1, <2>1, <2>2, <2>3, <2>4, <2>5 DEF ServiceTypeOK
<1>4. TestTypeOK /\ uiUtt \in Utterance(Speaker)
      /\ testUtt \in [TestThread -> Utterance(Speaker)]
      /\ testChunk \in [TestThread -> Chunk(Speaker)]
  BY <1>1 DEF TestTypeOK, UiPlace, TestPlace
<1>5. imports \in 0..MaxImports
  OBVIOUS
<1>6. disturbed \in BOOLEAN
  BY Zenon
<1>7. QED  BY <1>2, <1>3, <1>4, <1>5, <1>6, Zenon DEF TypeOK

(* ... and after every step of every thread.                               *)
LEMMA TypeStep == TypeOK /\ [Next]_vars => TypeOK'
<1> SUFFICES ASSUME TypeOK, [Next]_vars PROVE TypeOK'
  OBVIOUS
<1>0. ServiceSideOK /\ TestSideOK /\ imports \in 0..MaxImports /\ disturbed \in BOOLEAN
  BY DEF TypeOK, ServiceSideOK, TestSideOK
<1>a. disturbed' \in BOOLEAN
  BY <1>0, Zenon DEF Next, ImportShutdown, vars
<1>1. CASE (ServiceNext \/ OnStop) /\ UNCHANGED <<testVars, imports>>
  <2>1. ServiceSideOK'  BY <1>0, <1>1, ServiceTypes
  <2>2. QED
    BY <1>0, <1>a, <1>1, <2>1 DEF ServiceSideOK, TestSideOK, TestTypeOK, testVars, TypeOK
<1>2. CASE TestNext /\ UNCHANGED <<svcVars, imports>>
  <2>1. TestSideOK'  BY <1>0, <1>2, UiTypes, TestTypes DEF TestNext
  <2>2. QED
    BY <1>0, <1>a, <1>2, <2>1 DEF ServiceSideOK, TestSideOK, ServiceTypeOK, svcVars, TypeOK
<1>3. CASE ImportShutdown
  <2>1. EngineTypeOK(Speaker)' /\ lock' = lock
    BY <1>0, <1>3, MethodTypes DEF ServiceSideOK, ImportShutdown, Shutdown
  <2>2. imports' \in 0..MaxImports
    BY <1>0, <1>3, DoubleDroidAssumption DEF ImportShutdown, DoubleDroidAssumption
  <2>3. QED
    BY <1>0, <1>a, <1>3, <2>1, <2>2
       DEF ImportShutdown, svcVars, testVars, ServiceSideOK, TestSideOK, ServiceTypeOK,
           TestTypeOK, TypeOK
<1>4. CASE UNCHANGED vars
  BY <1>4 DEF vars, engineVars, svcVars, testVars, TypeOK, EngineTypeOK, ServiceTypeOK,
              TestTypeOK
<1>5. QED  BY <1>1, <1>2, <1>3, <1>4 DEF Next

(* Every variable keeps its type, whatever the threads do                  *)
(* (Engine.kt:71-82, Service.kt:28-29, Settings.kt:36-38).                 *)
THEOREM TypeCorrect == Spec => []TypeOK
BY TypeInit, TypeStep, PTL DEF Spec
-----------------------------------------------------------------------------
(* stopRequested is cleared only together with the count, and a thread     *)
(* that is past its check has not been late yet: its own call is the one.  *)
LateInv ==
  /\ lateBuffers <= 1
  /\ ~stopRequested => lateBuffers = 0
  /\ svc = "avail" => lateBuffers = 0

(* Service.kt:113-131, for any number of binder threads calling onStop,    *)
(* test threads and imports: at most one audioAvailable call begins after  *)
(* stopRequested was set.                                                  *)
THEOREM LateBuffer == Spec => []AtMostOneLateBuffer
<1>1. Init => LateInv
  BY DEF Init, ServiceInit, LateInv
<1>2. TypeOK /\ LateInv /\ [Next]_vars => LateInv'
  <2> SUFFICES ASSUME TypeOK, LateInv, [Next]_vars PROVE LateInv'
    OBVIOUS
  <2> USE DEF LateInv
  <2>a. ASSUME KeepSvc, svc' # "avail" PROVE LateInv'
    BY <2>a DEF KeepSvc
  <2>1. CASE SvcRequest
    BY <2>1 DEF SvcRequest, Goto
  <2>2. CASE SvcOpen \/ SvcApplyPrefs \/ SvcStart \/ SvcFlush \/ SvcQueue \/ SvcLoop
             \/ SvcEnter \/ SvcEnd \/ SvcEndStop
    BY <2>2, <2>a DEF SvcOpen, SvcApplyPrefs, SvcStart, SvcFlush, SvcQueue, SvcLoop,
                      SvcEnter, SvcEnd, SvcEndStop, Goto
  <2>3. CASE SvcReadPrefs \/ SvcReset \/ SvcBuild
    BY <2>3 DEF SvcReadPrefs, SvcReset, SvcBuild, Goto
  <2>4. CASE SvcSynth
    BY <2>4 DEF SvcSynth, Goto, KeepSvc, svcVars
  <2>5. CASE SvcBuffer
    BY <2>5 DEF SvcBuffer, Goto
  <2>6. CASE SvcAvail
    BY <2>6 DEF SvcAvail, At, Goto, TypeOK, ServiceTypeOK
  <2>7. CASE OnStop
    BY <2>7 DEF OnStop, OnStopFlag, OnStopEngine
  <2>8. CASE UNCHANGED svcVars
    BY <2>8 DEF svcVars
  <2>9. QED
    BY <2>1, <2>2, <2>3, <2>4, <2>5, <2>6, <2>7, <2>8
       DEF Next, ServiceNext, SvcStep, ImportShutdown, vars
<1>3. LateInv => AtMostOneLateBuffer
  BY DEF LateInv, AtMostOneLateBuffer
<1>4. QED  BY <1>1, <1>2, <1>3, TypeCorrect, PTL DEF Spec
-----------------------------------------------------------------------------
(* While a request is under way the queue is empty or holds just what is   *)
(* left of its utterance.                                                  *)
Left == IF hostQueue = <<>> THEN 0 ELSE Head(hostQueue).text

OwnQueue ==
  /\ Len(hostQueue) <= 1
  /\ hostQueue # <<>> =>
       /\ Head(hostQueue).by = request
       /\ Head(hostQueue).voice = svcUtt.voice
       /\ Head(hostQueue).nO \/ cardVoice = svcUtt.voice

(* Between requests lastVoiceSent is the voice the card has loaded, or -1; *)
(* from utteranceBytes on it is the request's voice, and the card has it   *)
(* or will meet nO first.                                                  *)
Undisturbed ==
  /\ svc \in {"idle", "open", "readPrefs", "applyPrefs", "reset", "start", "build"}
       => hostQueue = <<>> /\ lastVoiceSent \in {-1, cardVoice}
  /\ svc \notin {"idle", "open"} => handle = 1
  /\ svc \in {"flush", "queue"} =>
       /\ hostQueue = <<>> /\ lastVoiceSent = svcUtt.voice
       /\ svcUtt.by = request
       /\ svcUtt.nO \/ cardVoice = svcUtt.voice
       /\ ~stopRequested /\ delivered = 0
  /\ svc \in {"start", "build"} => ~stopRequested
  /\ svc \in {"open", "readPrefs", "applyPrefs", "reset", "start", "build"} => delivered = 0
  /\ svc \in Streaming \cup {"end", "endStop"} =>
       /\ OwnQueue /\ lastVoiceSent = svcUtt.voice
       /\ hostQueue = <<>> \/ stopRequested => cardVoice = svcUtt.voice
  /\ svc \in {"loop", "enter", "synth"} /\ ~stopRequested => delivered + Left = svcUtt.text
  /\ svc \in {"enter", "synth"} => ~stopRequested
  /\ svc = "endStop" => stopRequested
  /\ svc \in {"buffer", "avail"} =>
       /\ cardVoice = svcUtt.voice
       /\ svcChunk.voice = svcUtt.voice
       /\ ~stopRequested
       /\ delivered + 1 + Left = svcUtt.text
  /\ svc = "end" /\ ~stopRequested => hostQueue = <<>> /\ delivered = svcUtt.text

(* A queue of at most one utterance is empty or that utterance.            *)
LEMMA ShortQueue ==
  ASSUME NEW S, NEW q \in Seq(S), q # <<>>
  PROVE  /\ Head(q) \in S
         /\ Len(q) <= 1 => Len(q) = 1 /\ Tail(q) = <<>>
<1>1. Len(q) \in Nat \ {0}
  BY EmptySeq
<1>2. Head(q) \in S /\ Tail(q) \in Seq(S) /\ Len(Tail(q)) = Len(q) - 1
  BY HeadTailProperties
<1>3. Tail(q) # <<>> => Len(Tail(q)) \in Nat \ {0}
  BY <1>2, EmptySeq
<1>4. QED  BY <1>1, <1>2, <1>3

(* The text still to be spoken is a natural number of units.               *)
LEMMA LeftNat == ASSUME TypeOK PROVE Left \in Nat
<1>1. hostQueue # <<>> => Head(hostQueue) \in Utterance(Speaker)
  BY ShortQueue DEF TypeOK, EngineTypeOK
<1>2. QED  BY <1>1 DEF Left, Utterance

(* The invariant of the service alone holds when the app starts.           *)
LEMMA AloneInit == Init => Undisturbed
BY DEF Init, EngineInit, ServiceInit, Undisturbed, OwnQueue, Streaming

(* From the arrival of a request to callback.start.                        *)
LEMMA AloneBefore ==
  ASSUME TypeOK, Undisturbed,
         SvcRequest \/ SvcOpen \/ SvcReadPrefs \/ SvcApplyPrefs \/ SvcReset \/ SvcStart
  PROVE  Undisturbed'
<1> USE DEF Undisturbed, At, Goto, KeepSvc, Streaming, engineVars
<1>1. CASE SvcRequest
  BY <1>1 DEF SvcRequest
<1>2. CASE SvcOpen
  BY <1>2 DEF SvcOpen, OpenRunning, OpenBoots, OpenFails, TypeOK, EngineTypeOK
<1>3. CASE SvcReadPrefs
  BY <1>3 DEF SvcReadPrefs
<1>4. CASE SvcApplyPrefs
  BY <1>4 DEF SvcApplyPrefs, ApplyPrefs
<1>5. CASE SvcReset
  BY <1>5 DEF SvcReset
<1>6. CASE SvcStart
  BY <1>6 DEF SvcStart
<1>7. QED  BY <1>1, <1>2, <1>3, <1>4, <1>5, <1>6

(* utteranceBytes, stop, queue: the utterance carries nO unless the card   *)
(* already has its voice, and it becomes the whole queue.                  *)
LEMMA AloneQueued ==
  ASSUME TypeOK, Undisturbed, SvcBuild \/ SvcFlush \/ SvcQueue
  PROVE  Undisturbed'
<1> USE DEF Undisturbed, At, Goto, KeepSvc, Streaming
<1>1. CASE SvcBuild
  <2>1. PICK v \in Voice, n \in 0..MaxText :
            svcUtt' = BuiltUtterance(request, v, n) /\ Build(v)
    BY <1>1 DEF SvcBuild
  <2>2. /\ svcUtt'.voice = v /\ svcUtt'.by = request
        /\ svcUtt'.nO \/ v = lastVoiceSent
    BY <2>1 DEF BuiltUtterance
  <2>3. v # -1
    BY EngineAssumption DEF EngineAssumption
  <2>4. QED  BY <1>1, <2>1, <2>2, <2>3 DEF SvcBuild, Build
<1>2. CASE SvcFlush
  BY <1>2 DEF SvcFlush, Stop
<1>3. CASE SvcQueue
  <2>1. hostQueue' = <<svcUtt>>
    BY <1>3 DEF SvcQueue, Queue
  <2>2. OwnQueue' /\ Left' = svcUtt'.text /\ hostQueue' # <<>>
    BY <1>3, <2>1 DEF SvcQueue, Queue, OwnQueue, Left
  <2>3. svcUtt.text \in Nat
    BY DEF TypeOK, ServiceTypeOK, Utterance
  <2>4. QED  BY <1>3, <2>2, <2>3 DEF SvcQueue, Queue
<1>4. QED  BY <1>1, <1>2, <1>3

(* The while loop and what follows it.                                     *)
LEMMA AloneStreams ==
  ASSUME TypeOK, Undisturbed,
         SvcLoop \/ SvcEnter \/ SvcBuffer \/ SvcAvail \/ SvcEnd \/ SvcEndStop
  PROVE  Undisturbed'
<1>1. ASSUME UNCHANGED <<hostQueue, request, svcUtt, cardVoice>>
      PROVE  OwnQueue' = OwnQueue /\ Left' = Left
  BY <1>1 DEF OwnQueue, Left
<1> USE DEF Undisturbed, At, Goto, KeepSvc, Streaming
<1>2. CASE SvcLoop
  BY <1>1, <1>2 DEF SvcLoop, engineVars
<1>3. CASE SvcEnter
  BY <1>1, <1>3 DEF SvcEnter, SynthClosed, SynthEnter
<1>4. CASE SvcBuffer
  <2>1. Left \in Nat /\ delivered \in Nat
    BY LeftNat DEF TypeOK, ServiceTypeOK
  <2>2. QED  BY <1>1, <1>4, <2>1 DEF SvcBuffer, engineVars
<1>5. CASE SvcAvail
  BY <1>1, <1>5 DEF SvcAvail, engineVars
<1>6. CASE SvcEnd
  BY <1>1, <1>6 DEF SvcEnd, engineVars
<1>7. CASE SvcEndStop
  BY <1>7 DEF SvcEndStop, Stop
<1>8. QED  BY <1>2, <1>3, <1>4, <1>5, <1>6, <1>7

(* synthChunk: the head of the queue is the request's own utterance.       *)
LEMMA AloneSynth ==
  ASSUME TypeOK, Undisturbed, SvcSynth
  PROVE  Undisturbed'
<1>1. /\ svc = "synth" /\ OwnQueue /\ lastVoiceSent = svcUtt.voice /\ handle = 1
      /\ ~stopRequested /\ delivered + Left = svcUtt.text
      /\ hostQueue = <<>> => cardVoice = svcUtt.voice
  BY DEF Undisturbed, SvcSynth, At, Streaming
<1>2. hostQueue \in Seq(Utterance(Speaker)) /\ delivered \in Nat
  BY DEF TypeOK, EngineTypeOK, ServiceTypeOK
<1>3. hostQueue # <<>> => Tail(hostQueue) = <<>> /\ LoadedVoice(Head(hostQueue)) = svcUtt.voice
  <2>1. hostQueue # <<>> => Tail(hostQueue) = <<>>
    BY <1>1, <1>2, ShortQueue DEF OwnQueue
  <2>2. QED  BY <1>1, <2>1 DEF OwnQueue, LoadedVoice
<1>4. CASE SynthSkip(Svc) /\ UNCHANGED svcVars
  <2>1. hostQueue' = <<>> /\ cardVoice' = svcUtt.voice /\ Left = 0
    BY <1>3, <1>4 DEF SynthSkip, Left
  <2>2. OwnQueue' /\ Left' = 0
    BY <2>1 DEF OwnQueue, Left
  <2>3. QED
    BY <1>1, <1>4, <2>1, <2>2 DEF Undisturbed, SynthSkip, svcVars, Streaming
<1>5. CASE SynthIdle(Svc) /\ Goto("end") /\ KeepSvc
  <2>1. OwnQueue' /\ Left = 0
    BY <1>1, <1>5 DEF OwnQueue, Left, SynthIdle, KeepSvc
  <2>2. QED
    BY <1>1, <1>2, <1>5, <2>1 DEF Undisturbed, SynthIdle, KeepSvc, Goto, Streaming
<1>6. CASE /\ SynthSpeak(Svc) /\ Goto("buffer")
           /\ svcChunk' = SpokenChunk /\ svcLeft' \in 1..MaxBuffers
           /\ UNCHANGED <<request, svcPref, svcUtt, stopRequested, binder, delivered, lateBuffers>>
  <2> DEFINE h == Head(hostQueue)
             rest == [h EXCEPT !.nO = FALSE, !.text = @ - 1]
  <2>1. h \in Utterance(Speaker) /\ h.text \in Nat /\ h.text > 0 /\ Left = h.text
    <3>1. h \in Utterance(Speaker)
      BY <1>2, <1>6, ShortQueue DEF SynthSpeak
    <3>2. QED  BY <1>6, <3>1 DEF SynthSpeak, Utterance, Left
  <2>2. hostQueue' = <<rest>> /\ cardVoice' = svcUtt.voice
    <3>1. hostQueue' = <<rest>> \o <<>> /\ cardVoice' = svcUtt.voice
      BY <1>3, <1>6 DEF SynthSpeak
    <3>2. <<rest>> \o <<>> = <<rest>>
      <4> HIDE DEF rest
      <4>1. <<rest>> \in Seq({rest})  OBVIOUS
      <4>2. QED  BY <4>1, ConcatEmptySeq
    <3>3. QED  BY <3>1, <3>2
  <2>3. rest.by = h.by /\ rest.voice = h.voice /\ rest.text = h.text - 1
    BY <2>1 DEF Utterance
  <2>4. OwnQueue' /\ Left' = h.text - 1 /\ hostQueue' # <<>>
    <3> HIDE DEF rest
    <3>1. Len(hostQueue') = 1 /\ Head(hostQueue') = rest /\ hostQueue' # <<>>
      BY <2>2
    <3>2. QED  BY <1>1, <1>6, <2>2, <2>3, <3>1 DEF OwnQueue, Left, SynthSpeak
  <2>5. svcChunk'.voice = svcUtt'.voice
    BY <1>3, <1>6 DEF SpokenChunk, SynthSpeak
  <2>6. delivered' + 1 + Left' = svcUtt'.text
    <3>1. delivered' = delivered /\ svcUtt' = svcUtt
      BY <1>6
    <3>2. delivered + 1 + (h.text - 1) = delivered + h.text
      BY <1>2, <2>1
    <3>3. delivered + h.text = svcUtt.text
      BY <1>1, <2>1
    <3>4. QED  BY <2>4, <3>1, <3>2, <3>3
  <2>7. QED
    BY <1>1, <1>6, <2>2, <2>4, <2>5, <2>6 DEF Undisturbed, SynthSpeak, Goto, Streaming
<1>7. QED  BY <1>4, <1>5, <1>6 DEF SvcSynth

(* What anyone else does disturbs the service; its own steps keep it.      *)
AloneInv == ~disturbed => Undisturbed

LEMMA AloneStep == TypeOK /\ AloneInv /\ [Next]_vars => AloneInv'
<1> SUFFICES ASSUME TypeOK, AloneInv, [Next]_vars, ~disturbed' PROVE Undisturbed'
  BY DEF AloneInv
<1>1. CASE ServiceNext /\ UNCHANGED <<testVars, imports, disturbed>>
  <2>1. Undisturbed
    BY <1>1 DEF AloneInv
  <2>2. QED
    BY <1>1, <2>1, AloneBefore, AloneQueued, AloneStreams, AloneSynth DEF ServiceNext, SvcStep
<1>2. CASE UNCHANGED vars
  BY <1>2 DEF vars, engineVars, svcVars, AloneInv, Undisturbed, OwnQueue, Left, Streaming
<1>3. QED  BY <1>1, <1>2 DEF Next, ImportShutdown

(* Engine.kt:264-273.  While only the service uses the engine, leaving nO  *)
(* out is safe: for any voices and texts, and whatever callbacks refuse,   *)
(* every chunk a request hands over is spoken in the voice it asked for.   *)
THEOREM UndisturbedVoice == Spec => []RequestedVoice
<1>1. AloneInv => RequestedVoice
  BY DEF AloneInv, Undisturbed, RequestedVoice, VoiceAlways, Handing
<1>2. Init => AloneInv
  BY AloneInit DEF AloneInv
<1>3. QED  BY <1>1, <1>2, AloneStep, TypeCorrect, PTL DEF Spec

(* Service.kt:106-129.  And no request that was not stopped loses text.    *)
THEOREM UndisturbedComplete == Spec => []CompleteUnlessStopped
<1>1. AloneInv => CompleteUnlessStopped
  BY DEF AloneInv, Undisturbed, CompleteUnlessStopped
<1>2. Init => AloneInv
  BY AloneInit DEF AloneInv
<1>3. QED  BY <1>1, <1>2, AloneStep, TypeCorrect, PTL DEF Spec

-----------------------------------------------------------------------------
(* One speaker at a time: the queue holds nothing but what is left of its  *)
(* utterance.                                                              *)
Own(q, by) == q # <<>> => Len(q) <= 1 /\ Head(q).by = by

(* synthChunk takes from the queue and adds nothing (Engine.kt:176-181).   *)
LEMMA OwnSynth ==
  ASSUME TypeOK, NEW by, NEW t, Own(hostQueue, by)
  PROVE  /\ SynthSkip(t) => Own(hostQueue', by)
         /\ SynthSpeak(t) => Own(hostQueue', by) /\ SpokenChunk.by = by
<1>1. hostQueue # <<>> =>
        Tail(hostQueue) = <<>> /\ Head(hostQueue) \in Utterance(Speaker) /\ Head(hostQueue).by = by
  BY ShortQueue DEF TypeOK, EngineTypeOK, Own
<1>2. SynthSkip(t) => Own(hostQueue', by)
  BY <1>1 DEF SynthSkip, Own
<1>3. ASSUME SynthSpeak(t) PROVE Own(hostQueue', by) /\ SpokenChunk.by = by
  <2> DEFINE rest == [Head(hostQueue) EXCEPT !.nO = FALSE, !.text = @ - 1]
  <2>1. hostQueue # <<>> /\ hostQueue' = <<rest>> \o <<>>
    BY <1>1, <1>3 DEF SynthSpeak
  <2>2. rest.by = by /\ SpokenChunk.by = by
    BY <1>1, <2>1 DEF Utterance, SpokenChunk
  <2>3. hostQueue' = <<rest>>
    <3> HIDE DEF rest
    <3>1. <<rest>> \in Seq({rest})  OBVIOUS
    <3>2. QED  BY <2>1, <3>1, ConcatEmptySeq
  <2>4. Len(hostQueue') = 1 /\ Head(hostQueue') = rest
    <3> HIDE DEF rest
    <3>1. QED  BY <2>3
  <2>5. Own(hostQueue', by)
    <3> HIDE DEF rest
    <3>1. QED  BY <2>2, <2>4 DEF Own
  <2>6. QED  BY <2>2, <2>5
<1>4. QED  BY <1>2, <1>3

(* queue after stop: the utterance becomes the whole queue.                *)
LEMMA OwnQueued ==
  ASSUME NEW u, hostQueue = <<>>, Queue(u)
  PROVE  Own(hostQueue', u.by)
<1>1. hostQueue' = <<u>> \/ hostQueue' = <<>>
  BY DEF Queue
<1>2. QED  BY <1>1 DEF Own

-----------------------------------------------------------------------------
(* The settings screen is not used.                                        *)
Quiet == ui = "idle" /\ test = [t \in TestThread |-> "new"]

LEMMA QuietStep == Clicks = {} /\ Quiet /\ [Next]_vars => Quiet' /\ ~TestNext
<1> SUFFICES ASSUME Clicks = {}, Quiet, [Next]_vars PROVE Quiet' /\ ~TestNext
  OBVIOUS
<1>1. ~UiClick  BY DEF UiClick, UiSpeak, UiStop, UiSetPref
<1>2. ~UiStep
  BY DEF Quiet, UiStep, UiAt, UiStopFlag, UiStopEngine, UiJoin, UiOpen, UiReadPrefs,
         UiApplyPrefs, UiBuild, UiLaunch
<1>3. \A t \in TestThread : ~TestStep(t)
  BY DEF Quiet, TestStep, TestAt, TestFlush, TestQueue, TestLoop, TestEnter, TestSynth, TestWrite
<1>4. ~TestNext  BY <1>1, <1>2, <1>3 DEF TestNext
<1>5. Quiet'  BY <1>4 DEF Next, ImportShutdown, Quiet, testVars, vars
<1>6. QED  BY <1>4, <1>5

ServiceOwns ==
  /\ svc \in {"flush", "queue"} => svcUtt.by = request
  /\ svc = "queue" => hostQueue = <<>>
  /\ svc \in Streaming => Own(hostQueue, request)
  /\ Handing => svcChunk.by = request

LEMMA ServiceOwnsStep ==
  ASSUME TypeOK, ServiceOwns, ServiceNext PROVE ServiceOwns'
<1> USE DEF ServiceOwns, At, Goto, KeepSvc, Streaming, Handing
<1>1. CASE SvcRequest  BY <1>1 DEF SvcRequest
<1>2. CASE SvcOpen  BY <1>2 DEF SvcOpen
<1>3. CASE SvcReadPrefs \/ SvcApplyPrefs \/ SvcReset \/ SvcStart
  BY <1>3 DEF SvcReadPrefs, SvcApplyPrefs, SvcReset, SvcStart
<1>4. CASE SvcBuild  BY <1>4 DEF SvcBuild, BuiltUtterance
<1>5. CASE SvcFlush  BY <1>5 DEF SvcFlush, Stop
<1>6. CASE SvcQueue
  <2>1. Own(hostQueue', request)  BY <1>6, OwnQueued DEF SvcQueue
  <2>2. QED  BY <1>6, <2>1 DEF SvcQueue
<1>7. CASE SvcLoop  BY <1>7 DEF SvcLoop, engineVars
<1>8. CASE SvcEnter  BY <1>8 DEF SvcEnter, SynthClosed, SynthEnter, engineVars
<1>9. CASE SvcSynth
  <2>1. CASE SynthSkip(Svc) /\ UNCHANGED svcVars
    BY <1>9, <2>1, OwnSynth DEF SvcSynth, svcVars
  <2>2. CASE SynthIdle(Svc) /\ Goto("end") /\ KeepSvc
    BY <2>2
  <2>3. CASE /\ SynthSpeak(Svc) /\ Goto("buffer") /\ svcChunk' = SpokenChunk
             /\ UNCHANGED <<request, svcUtt>>
    <3>1. Own(hostQueue, request)  BY <1>9 DEF SvcSynth
    <3>2. Own(hostQueue', request) /\ SpokenChunk.by = request
      BY <2>3, <3>1, OwnSynth
    <3>3. QED  BY <2>3, <3>2
  <2>4. QED  BY <1>9, <2>1, <2>2, <2>3 DEF SvcSynth
<1>10. CASE SvcBuffer \/ SvcAvail  BY <1>10 DEF SvcBuffer, SvcAvail, engineVars
<1>11. CASE SvcEnd \/ SvcEndStop  BY <1>11 DEF SvcEnd, SvcEndStop
<1>12. QED
  BY <1>1, <1>2, <1>3, <1>4, <1>5, <1>6, <1>7, <1>8, <1>9, <1>10, <1>11 DEF ServiceNext, SvcStep

(* Service.kt:104-133.  However many requests are stopped by any number of *)
(* binder threads, and engines shut down under them, what a request hands  *)
(* to its callback is its own, as long as the settings screen is not used. *)
THEOREM OwnAudio == Clicks = {} => (Spec => []ServiceOwnAudio)
<1> SUFFICES ASSUME Clicks = {} PROVE Spec => []ServiceOwnAudio
  OBVIOUS
<1>1. Init => Quiet /\ ServiceOwns
  BY DEF Init, TestInit, ServiceInit, Quiet, ServiceOwns, Streaming, Handing
<1>2. TypeOK /\ Quiet /\ ServiceOwns /\ [Next]_vars => Quiet' /\ ServiceOwns'
  <2> SUFFICES ASSUME TypeOK, Quiet, ServiceOwns, [Next]_vars PROVE Quiet' /\ ServiceOwns'
    OBVIOUS
  <2>1. Quiet' /\ ~TestNext  BY QuietStep
  <2>2. CASE ServiceNext  BY <2>1, <2>2, ServiceOwnsStep
  <2>3. CASE OnStop
    BY <2>1, <2>3 DEF OnStop, OnStopFlag, OnStopEngine, Stop, engineVars, ServiceOwns, Own, Handing
  <2>4. CASE ImportShutdown
    BY <2>1, <2>4 DEF ImportShutdown, Shutdown, svcVars, ServiceOwns, Own, Handing
  <2>5. CASE UNCHANGED vars
    BY <2>1, <2>5 DEF vars, engineVars, svcVars, ServiceOwns, Handing
  <2>6. QED  BY <2>1, <2>2, <2>3, <2>4, <2>5 DEF Next
<1>3. ServiceOwns => ServiceOwnAudio  BY DEF ServiceOwns, ServiceOwnAudio
<1>4. QED  BY <1>1, <1>2, <1>3, TypeCorrect, PTL DEF Spec

-----------------------------------------------------------------------------
(* Outside of applyPrefs the emulator runs with what is saved, and the     *)
(* thread in it has read what is saved: while one of the two threads that  *)
(* read and apply preferences is the only one to do so.                    *)
Pushed(place, read) ==
  /\ handle = 1 /\ place \notin {"readPrefs", "applyPrefs"} => applied = outputPref
  /\ place = "applyPrefs" => read = outputPref

(* Engine.kt:97-117.  Whatever re-creates the instance and however often   *)
(* it is shut down, a request speaks with the saved settings, as long as   *)
(* the settings screen is not used.                                        *)
THEOREM SettingsInForce == Clicks = {} => (Spec => []SettingsBeforeSpeech)
<1> SUFFICES ASSUME Clicks = {} PROVE Spec => []SettingsBeforeSpeech
  OBVIOUS
<1> DEFINE Inv == Pushed(svc, svcPref)
<1>1. Init => Quiet /\ Inv
  BY DEF Init, EngineInit, ServiceInit, TestInit, Quiet, Pushed
<1>2. Quiet /\ Inv /\ [Next]_vars => Quiet' /\ Inv'
  <2> SUFFICES ASSUME Quiet, Inv, [Next]_vars PROVE Quiet' /\ Inv'
    OBVIOUS
  <2>1. Quiet' /\ ~TestNext  BY QuietStep
  <2> USE DEF Pushed, At, Goto, KeepSvc
  <2>2. CASE SvcRequest \/ SvcReadPrefs \/ SvcReset \/ SvcStart \/ SvcLoop \/ SvcBuffer
               \/ SvcAvail \/ SvcEnd
    BY <2>1, <2>2 DEF SvcRequest, SvcReadPrefs, SvcReset, SvcStart, SvcLoop, SvcBuffer,
                      SvcAvail, SvcEnd, engineVars
  <2>3. CASE SvcOpen
    BY <2>1, <2>3 DEF SvcOpen, OpenRunning, OpenBoots, OpenFails, engineVars
  <2>4. CASE SvcApplyPrefs
    BY <2>1, <2>4 DEF SvcApplyPrefs, ApplyPrefs
  <2>5. CASE SvcBuild \/ SvcFlush \/ SvcQueue \/ SvcEndStop
    BY <2>1, <2>5 DEF SvcBuild, Build, SvcFlush, SvcQueue, SvcEndStop, Stop, Queue
  <2>6. CASE SvcEnter \/ SvcSynth
    BY <2>1, <2>6 DEF SvcEnter, SvcSynth, SynthClosed, SynthEnter, SynthSkip, SynthIdle,
                      SynthSpeak, engineVars, svcVars
  <2>7. CASE OnStop
    BY <2>1, <2>7 DEF OnStop, OnStopFlag, OnStopEngine, Stop, engineVars
  <2>8. CASE ImportShutdown
    BY <2>1, <2>8 DEF ImportShutdown, Shutdown, svcVars
  <2>9. CASE UNCHANGED vars
    BY <2>1, <2>9 DEF vars, engineVars, svcVars
  <2>10. QED
    BY <2>1, <2>2, <2>3, <2>4, <2>5, <2>6, <2>7, <2>8, <2>9 DEF Next, ServiceNext, SvcStep
<1>3. Inv => SettingsBeforeSpeech  BY DEF Pushed, SettingsBeforeSpeech, Streaming
<1>4. QED  BY <1>1, <1>2, <1>3, PTL DEF Spec

-----------------------------------------------------------------------------
(* The service makes no request.                                           *)
Still == svc = "idle" /\ request = 0

LEMMA StillStep == MaxRequests = 0 /\ Still /\ [Next]_vars => Still' /\ ~ServiceNext
<1> SUFFICES ASSUME MaxRequests = 0, Still, [Next]_vars PROVE Still' /\ ~ServiceNext
  OBVIOUS
<1>1. ~ServiceNext
  BY DEF Still, ServiceNext, SvcStep, At, SvcRequest, SvcOpen, SvcReadPrefs, SvcApplyPrefs,
         SvcReset, SvcStart, SvcBuild, SvcFlush, SvcQueue, SvcLoop, SvcEnter, SvcSynth,
         SvcBuffer, SvcAvail, SvcEnd, SvcEndStop
<1>2. Still'
  BY <1>1 DEF Next, OnStop, OnStopFlag, OnStopEngine, ImportShutdown, Still, svcVars, vars
<1>3. QED  BY <1>1, <1>2

(* Engine.kt:147-155.  Without requests, and whatever is moved, spoken and *)
(* imported on the settings screen, the emulator runs with what is saved.  *)
THEOREM SettingsReachEmulator == MaxRequests = 0 => (Spec => []SettingsPushed)
<1> SUFFICES ASSUME MaxRequests = 0 PROVE Spec => []SettingsPushed
  OBVIOUS
<1> DEFINE Inv == Pushed(ui, uiPref)
<1>1. Init => Still /\ Inv
  BY DEF Init, EngineInit, ServiceInit, TestInit, Still, Pushed
<1>2. Still /\ Inv /\ [Next]_vars => Still' /\ Inv'
  <2> SUFFICES ASSUME Still, Inv, [Next]_vars PROVE Still' /\ Inv'
    OBVIOUS
  <2>1. Still' /\ ~ServiceNext  BY StillStep
  <2> USE DEF Pushed, UiAt, UiGoto
  <2>2. CASE UiSpeak \/ UiStop \/ UiStopFlag \/ UiJoin \/ UiReadPrefs \/ UiLaunch
    BY <2>1, <2>2 DEF UiSpeak, UiStop, UiStopFlag, UiJoin, UiReadPrefs, UiLaunch, engineVars
  <2>3. CASE UiSetPref  BY <2>1, <2>3 DEF UiSetPref
  <2>4. CASE UiStopEngine \/ UiBuild  BY <2>1, <2>4 DEF UiStopEngine, Stop, UiBuild, Build
  <2>5. CASE UiOpen
    BY <2>1, <2>5 DEF UiOpen, OpenRunning, OpenBoots, OpenFails, engineVars
  <2>6. CASE UiApplyPrefs  BY <2>1, <2>6 DEF UiApplyPrefs, ApplyPrefs
  <2>7. ASSUME NEW t \in TestThread, TestStep(t) PROVE Inv'
    BY <2>7 DEF TestStep, KeepUi, TestFlush, TestQueue, TestLoop, TestEnter, TestSynth, TestWrite,
                Stop, Queue, SynthClosed, SynthEnter, SynthSkip, SynthIdle, SynthSpeak, engineVars
  <2>8. CASE OnStop /\ UNCHANGED testVars
    BY <2>1, <2>8 DEF OnStop, OnStopFlag, OnStopEngine, Stop, engineVars, testVars
  <2>9. CASE ImportShutdown  BY <2>1, <2>9 DEF ImportShutdown, Shutdown, testVars
  <2>10. CASE UNCHANGED vars  BY <2>1, <2>10 DEF vars, engineVars, testVars
  <2>11. QED
    BY <2>1, <2>2, <2>3, <2>4, <2>5, <2>6, <2>7, <2>8, <2>9, <2>10
    DEF Next, TestNext, UiClick, UiStep
<1>3. Still /\ Inv => SettingsPushed  BY DEF Still, Pushed, SettingsPushed
<1>4. QED  BY <1>1, <1>2, <1>3, PTL DEF Spec

(* The settings screen, a test thread among its own: TestHas is what holds *)
(* for the thread t while it runs.                                         *)
TestHas(t) ==
  /\ test[t] \in {"flush", "queue"} => testUtt[t].by = t
  /\ test[t] = "queue" => hostQueue = <<>>
  /\ test[t] \in {"loop", "enter", "synth", "write"} => Own(hostQueue, t)
  /\ test[t] = "write" => testChunk[t].by = t

OnlyNamed == \A t \in TestThread : test[t] \in Running => t = testThread

Starts == ui \in {"open", "build", "launch"} \/ (ui \in {"readPrefs", "applyPrefs"} /\ starting)

ScreenOwns ==
  /\ OnlyNamed
  /\ Starts => testThread = NoThread
  /\ \A t \in TestThread : TestHas(t)

(* Where the queue is left alone or emptied, the running thread keeps what *)
(* it has.                                                                 *)
LEMMA TestKeeps ==
  ASSUME ScreenOwns, UNCHANGED <<test, testUtt, testChunk>>, hostQueue' \in {hostQueue, <<>>}
  PROVE  \A t \in TestThread : TestHas(t)'
  BY DEF ScreenOwns, TestHas, Own

(* The UI thread's steps (Settings.kt:244-301).                            *)
LEMMA ScreenOwnsUi ==
  ASSUME TypeOK, ScreenOwns, ~JoinTimesOut, UiClick \/ UiStep PROVE ScreenOwns'
<1> USE DEF UiAt, UiGoto, KeepTests
<1>1. CASE UiSpeak \/ UiStop \/ UiStopFlag \/ UiReadPrefs
  <2>1. UNCHANGED <<test, testUtt, testChunk, testThread, hostQueue>>
    BY <1>1 DEF UiSpeak, UiStop, UiStopFlag, UiReadPrefs, engineVars
  <2>2. Starts' => Starts
    BY <1>1 DEF UiSpeak, UiStop, UiStopFlag, UiReadPrefs, Starts
  <2>3. QED  BY <2>1, <2>2, TestKeeps DEF ScreenOwns, OnlyNamed
<1>2. CASE UiSetPref \/ UiStopEngine \/ UiApplyPrefs \/ UiBuild
  <2>1. UNCHANGED <<test, testUtt, testChunk, testThread>> /\ hostQueue' \in {hostQueue, <<>>}
    BY <1>2 DEF UiSetPref, UiStopEngine, Stop, UiApplyPrefs, ApplyPrefs, UiBuild, Build
  <2>2. Starts' => Starts
    BY <1>2 DEF UiSetPref, UiStopEngine, UiApplyPrefs, UiBuild, Starts
  <2>3. QED  BY <2>1, <2>2, TestKeeps DEF ScreenOwns, OnlyNamed
<1>3. CASE UiOpen
  <2>1. UNCHANGED <<test, testUtt, testChunk, testThread>> /\ hostQueue' \in {hostQueue, <<>>}
    BY <1>3 DEF UiOpen, OpenRunning, OpenBoots, OpenFails, engineVars
  <2>2. Starts
    BY <1>3 DEF UiOpen, Starts
  <2>3. QED  BY <2>1, <2>2, TestKeeps DEF ScreenOwns, OnlyNamed
<1>4. CASE UiJoin
  <2>1. /\ UNCHANGED <<test, testUtt, testChunk, hostQueue>> /\ testThread' = NoThread
        /\ testThread # NoThread => test[testThread] = "done"
    BY <1>4 DEF UiJoin, engineVars
  <2>2. \A t \in TestThread : test[t] \notin Running
    BY <2>1, TestAssumption DEF ScreenOwns, OnlyNamed, Running, TestPlace, TestAssumption
  <2>3. QED  BY <2>1, <2>2, TestKeeps DEF ScreenOwns, OnlyNamed
<1>5. CASE UiLaunch
  <2>1. testThread = NoThread
    BY <1>5 DEF UiLaunch, ScreenOwns, Starts
  <2>2. \A s \in TestThread : test[s] \notin Running
    BY <2>1, TestAssumption DEF ScreenOwns, OnlyNamed, TestAssumption
  <2>3. PICK t \in TestThread :
          /\ test' = [test EXCEPT ![t] = "flush"]
          /\ testUtt' = [testUtt EXCEPT ![t] = [uiUtt EXCEPT !.by = t]]
          /\ testThread' = t
    BY <1>5 DEF UiLaunch
  <2>4. test \in [TestThread -> TestPlace] /\ testUtt \in [TestThread -> Utterance(Speaker)]
        /\ uiUtt \in Utterance(Speaker)
    BY DEF TypeOK, TestTypeOK
  <2>5. /\ test'[t] = "flush" /\ testUtt'[t].by = t
        /\ \A s \in TestThread : s # t => test'[s] = test[s]
    BY <2>3, <2>4 DEF Utterance
  <2>6. ~Starts'
    BY <1>5 DEF UiLaunch, Starts
  <2>7. OnlyNamed'
    BY <2>2, <2>3, <2>5 DEF OnlyNamed
  <2>8. \A s \in TestThread : TestHas(s)'
    BY <2>2, <2>5 DEF TestHas, Running, TestPlace
  <2>9. QED  BY <2>6, <2>7, <2>8 DEF ScreenOwns
<1>6. QED  BY <1>1, <1>2, <1>3, <1>4, <1>5 DEF UiClick, UiStep

(* The test thread's steps (Settings.kt:268-297).                          *)
LEMMA ScreenOwnsTest ==
  ASSUME TypeOK, ScreenOwns, NEW t \in TestThread, TestStep(t) PROVE ScreenOwns'
<1> USE DEF TestAt, TestGoto, KeepUi
<1>1. /\ test[t] \in Running /\ UNCHANGED <<ui, starting, testThread, testUtt>>
      /\ \E p \in TestPlace : test' = [test EXCEPT ![t] = p]
      /\ \E c : testChunk' = [testChunk EXCEPT ![t] = c]
  <2>1. test \in [TestThread -> TestPlace] /\ testChunk \in [TestThread -> Chunk(Speaker)]
    BY DEF TypeOK, TestTypeOK
  <2>2. test = [test EXCEPT ![t] = test[t]] /\ test[t] \in TestPlace
        /\ testChunk = [testChunk EXCEPT ![t] = testChunk[t]]
    BY <2>1
  <2>3. test[t] \in Running /\ UNCHANGED <<ui, starting, testThread, testUtt>>
    BY DEF TestStep, TestFlush, TestQueue, TestLoop, TestEnter, TestSynth, TestWrite,
           Running, TestPlace
  <2>4. \E p \in TestPlace : test' = [test EXCEPT ![t] = p]
    BY <2>2 DEF TestStep, TestFlush, TestQueue, TestLoop, TestEnter, TestSynth, TestWrite,
                TestPlace
  <2>5. \E c : testChunk' = [testChunk EXCEPT ![t] = c]
    BY <2>2 DEF TestStep, TestFlush, TestQueue, TestLoop, TestEnter, TestSynth, TestWrite
  <2>6. QED  BY <2>3, <2>4, <2>5
<1>2. test \in [TestThread -> TestPlace] /\ testChunk \in [TestThread -> Chunk(Speaker)]
  BY DEF TypeOK, TestTypeOK
<1>3. t = testThread /\ \A s \in TestThread : s # t => test'[s] \notin Running
  BY <1>1, <1>2 DEF ScreenOwns, OnlyNamed
<1>4. OnlyNamed' /\ (Starts' => testThread' = NoThread)
  BY <1>1, <1>3 DEF OnlyNamed, ScreenOwns, Starts
<1>5. \A s \in TestThread : s # t => TestHas(s)'
  BY <1>3 DEF TestHas, Running, TestPlace
<1>6. TestHas(t)
  BY DEF ScreenOwns
<1>7. TestHas(t)'
  <2> USE DEF TestHas
  <2>1. CASE TestFlush(t)
    BY <1>2, <1>6, <2>1 DEF TestFlush, Stop
  <2>2. CASE TestQueue(t)
    <3>1. Own(hostQueue', t)
      BY <1>6, <2>2, OwnQueued DEF TestQueue
    <3>2. QED  BY <1>2, <3>1, <2>2 DEF TestQueue
  <2>3. CASE TestLoop(t) \/ TestWrite(t)
    BY <1>2, <1>6, <2>3 DEF TestLoop, TestWrite, engineVars
  <2>4. CASE TestEnter(t)
    BY <1>2, <1>6, <2>4 DEF TestEnter, SynthClosed, SynthEnter, engineVars
  <2>5. CASE TestSynth(t)
    <3>1. test[t] = "synth" /\ Own(hostQueue, t)
      BY <1>6, <2>5 DEF TestSynth
    <3>2. CASE SynthSkip(t) /\ UNCHANGED <<test, testChunk>>
      <4>1. Own(hostQueue', t)  BY <3>1, <3>2, OwnSynth
      <4>2. QED  BY <3>1, <3>2, <4>1
    <3>3. CASE SynthIdle(t) /\ TestGoto(t, "done")
      BY <1>2, <3>3
    <3>4. CASE SynthSpeak(t) /\ TestGoto(t, "write")
               /\ testChunk' = [testChunk EXCEPT ![t] = SpokenChunk]
      <4>1. Own(hostQueue', t) /\ SpokenChunk.by = t  BY <3>1, <3>4, OwnSynth
      <4>2. test'[t] = "write" /\ testChunk'[t] = SpokenChunk
        BY <1>2, <3>4
      <4>3. QED  BY <4>1, <4>2
    <3>5. QED  BY <2>5, <3>2, <3>3, <3>4 DEF TestSynth
  <2>6. QED  BY <2>1, <2>2, <2>3, <2>4, <2>5 DEF TestStep
<1>8. QED  BY <1>4, <1>5, <1>7 DEF ScreenOwns

(* Settings.kt:244-301.  Where the join waits for the thread, stop flag,   *)
(* engine stop and join keep one test thread at a time and its sound its   *)
(* own, for any clicks, test threads and imports; without requests.        *)
THEOREM OwnTest == MaxRequests = 0 /\ ~JoinTimesOut => (Spec => []TestOwnAudio)
<1> SUFFICES ASSUME MaxRequests = 0, ~JoinTimesOut PROVE Spec => []TestOwnAudio
  OBVIOUS
<1>1. Init => Still /\ ScreenOwns
  BY DEF Init, EngineInit, ServiceInit, TestInit, Still, ScreenOwns, OnlyNamed, Starts, TestHas,
         Running, TestPlace
<1>2. TypeOK /\ Still /\ ScreenOwns /\ [Next]_vars => Still' /\ ScreenOwns'
  <2> SUFFICES ASSUME TypeOK, Still, ScreenOwns, [Next]_vars PROVE Still' /\ ScreenOwns'
    OBVIOUS
  <2>1. Still' /\ ~ServiceNext  BY StillStep
  <2>2. CASE TestNext
    BY <2>1, <2>2, ScreenOwnsUi, ScreenOwnsTest DEF TestNext
  <2>3. ASSUME UNCHANGED testVars, hostQueue' \in {hostQueue, <<>>} PROVE ScreenOwns'
    BY <2>3, TestKeeps DEF testVars, ScreenOwns, OnlyNamed, Starts
  <2>4. CASE OnStop /\ UNCHANGED testVars
    BY <2>1, <2>3, <2>4 DEF OnStop, OnStopFlag, OnStopEngine, Stop, engineVars
  <2>5. CASE ImportShutdown
    BY <2>1, <2>3, <2>5 DEF ImportShutdown, Shutdown
  <2>6. CASE UNCHANGED vars
    BY <2>1, <2>3, <2>6 DEF vars, engineVars
  <2>7. QED  BY <2>1, <2>2, <2>4, <2>5, <2>6 DEF Next
<1>3. ScreenOwns => TestOwnAudio
  BY DEF ScreenOwns, OnlyNamed, TestHas, TestOwnAudio
<1>4. QED  BY <1>1, <1>2, <1>3, TypeCorrect, PTL DEF Spec
=============================================================================
