----------------------------- MODULE DoubleDroid -----------------------------
(***************************************************************************)
(* The running app: the TTS service, the settings activity and the ROM     *)
(* import thread around the one engine they share.  Only the import's call *)
(* of shutdown is here; its files are in RomImport.                        *)
(***************************************************************************)
EXTENDS Service, TestSpeech

CONSTANT MaxImports   \* bound: imports that reach shutdown

ASSUME DoubleDroidAssumption ==
  /\ MaxImports \in Nat
  /\ Svc \notin TestThread

VARIABLES
  imports,    \* imports that have shut the engine down so far
  disturbed   \* history: whether anyone but the service has used the engine

vars == <<engineVars, svcVars, testVars, imports, disturbed>>

(* Who may have queued an utterance.                                       *)
Speaker == (0..MaxRequests) \cup TestThread

Init == EngineInit /\ ServiceInit /\ TestInit /\ imports = 0 /\ disturbed = FALSE

ImportShutdown ==
  /\ imports < MaxImports
  /\ Shutdown
  /\ imports' = imports + 1 /\ disturbed' = TRUE
  /\ UNCHANGED <<svcVars, testVars>>

Next ==
  \/ ServiceNext /\ UNCHANGED <<testVars, imports, disturbed>>
  \/ OnStop      /\ UNCHANGED <<testVars, imports>> /\ disturbed' = TRUE
  \/ TestNext    /\ UNCHANGED <<svcVars, imports>> /\ disturbed' = TRUE
  \/ ImportShutdown

Spec == Init /\ [][Next]_vars

(* The threads are scheduled: one that can take a step takes it.  Nothing  *)
(* obliges the framework to make requests or the user to click.            *)
SvcRuns  == SvcStep /\ UNCHANGED <<testVars, imports, disturbed>>
UiRuns   == UiStep /\ UNCHANGED <<svcVars, imports>> /\ disturbed' = TRUE
TestRuns(t) == TestStep(t) /\ UNCHANGED <<svcVars, imports>> /\ disturbed' = TRUE

FairSpec ==
  /\ Spec
  /\ WF_vars(SvcRuns)
  /\ WF_vars(UiRuns)
  /\ \A t \in TestThread : WF_vars(TestRuns(t))

-----------------------------------------------------------------------------
(* Every variable has its type; the lock is held exactly by a thread that  *)
(* is inside synthChunk (Engine.kt:176-181), and a missing instance holds  *)
(* nothing.                                                                *)
TypeOK ==
  /\ EngineTypeOK(Speaker)
  /\ ServiceTypeOK
  /\ svcChunk \in Chunk(Speaker)
  /\ TestTypeOK
  /\ uiUtt \in Utterance(Speaker)
  /\ testUtt \in [TestThread -> Utterance(Speaker)]
  /\ testChunk \in [TestThread -> Chunk(Speaker)]
  /\ lock \in {Free, Svc} \cup TestThread
  /\ imports \in 0..MaxImports /\ disturbed \in BOOLEAN

(* Service.kt:113-131.  Once stopRequested is set, whether by onStop on a  *)
(* binder thread or by a refusing callback, at most one more audioAvailable*)
(* call is begun: the one already past its check.                          *)
AtMostOneLateBuffer == lateBuffers <= 1

Handing == svc \in {"buffer", "avail"}

(* Service.kt:104-107, 131-133.  What a request hands to its callback is   *)
(* its own text, never what an interrupted request left behind.            *)
ServiceOwnAudio == Handing => svcChunk.by = request

(* Settings.kt:244-301.  Stop flag, engine stop and join together keep at  *)
(* most one test thread running, the one testThread names, and what it     *)
(* writes to its track is its own text, never what a stopped test left.    *)
TestOwnAudio ==
  \A t \in TestThread :
    /\ test[t] \in Running => t = testThread
    /\ test[t] = "write" => testChunk[t].by = t

(* Engine.kt:264-266: "Skips the nO command when [cardVoice] matches what  *)
(* the last utterance already loaded onto the card".  So whatever is left  *)
(* out, a request is spoken in the voice it asked for ...                  *)
VoiceAlways ==
  Handing /\ svcChunk.by = request => svcChunk.voice = svcUtt.voice

(* ... as it is while the service has the engine to itself, its callbacks  *)
(* refusing or not.                                                        *)
RequestedVoice == ~disturbed => VoiceAlways

(* Service.kt:106-129.  In the same circumstances, a request that ends     *)
(* without a stop was spoken to its last word.                             *)
CompleteUnlessStopped ==
  ~disturbed /\ svc = "end" /\ ~stopRequested => delivered = svcUtt.text

(* Engine.kt:97-117.  Whatever re-created the instance, the saved settings *)
(* are in force before a request's text is queued.                         *)
SettingsBeforeSpeech ==
  svc \in {"flush", "queue"} \cup Streaming /\ handle = 1 => applied = outputPref

(* Engine.kt:147: applyPrefs will "Push the persistent output-stage/boost  *)
(* settings into the emulator".  Whatever is moved and imported on the     *)
(* settings screen, outside of applyPrefs the emulator runs with what is   *)
(* saved.  Next to a service that opens the engine this does not hold.     *)
SettingsPushed ==
  /\ handle = 1
  /\ svc \notin {"readPrefs", "applyPrefs"}
  /\ ui \notin {"readPrefs", "applyPrefs"}
  => applied = outputPref

(* Service.kt:113-135.  Every request ends: stopped, refused, spoken, or   *)
(* with the engine shut down under it.                                     *)
RequestReturns == svc # "idle" ~> svc = "idle"

(* Settings.kt:244-301.  The UI thread gets out of every click: it blocks  *)
(* on the engine lock and on the join, and both let it go.                 *)
UiReturns == ui # "idle" ~> ui = "idle"
=============================================================================
