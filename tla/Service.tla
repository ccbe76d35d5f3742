------------------------------ MODULE Service ------------------------------
(***************************************************************************)
(* DoubleTalkTtsService.kt: the framework's synthesis thread running       *)
(* onSynthesizeText for one request after another, and the binder threads  *)
(* on which onStop may run at any moment.  `svc' is where the synthesis    *)
(* thread stands; the framework's callback object (start, audioAvailable)  *)
(* is external and may succeed or fail.                                    *)
(***************************************************************************)
EXTENDS Engine

CONSTANTS Svc,         \* the synthesis thread
          Binder,      \* threads that may call onStop
          MaxRequests, \* bound: requests the framework makes
          MaxText,     \* bound: units of text in a request
          MaxBuffers   \* bound: audioAvailable calls one chunk is split into

ASSUME ServiceAssumption ==
  /\ MaxRequests \in Nat /\ MaxText \in Nat /\ MaxBuffers \in Nat \ {0}
  /\ Svc # Free

VARIABLES svc,           \* the synthesis thread's place in onSynthesizeText
          request,       \* number of the current (or last) request
          svcPref,       \* the preferences applyPrefs has read
          svcUtt,        \* the utterance built for the request
          svcChunk,      \* the chunk being handed over
          svcLeft,       \* buffers of that chunk not yet handed over
          stopRequested,
          binder,        \* where each binder thread stands in onStop
          delivered,     \* history: chunks wholly handed over for the request
          lateBuffers    \* history: audioAvailable calls begun since stopRequested was set

svcVars == <<svc, request, svcPref, svcUtt, svcChunk, svcLeft, stopRequested,
             binder, delivered, lateBuffers>>

SvcPlace == {"idle", "open", "readPrefs", "applyPrefs", "reset", "start", "build",
             "flush", "queue", "loop", "enter", "synth", "buffer", "avail", "end", "endStop"}

Streaming == {"loop", "enter", "synth", "buffer", "avail"}

ServiceTypeOK ==
  /\ svc \in SvcPlace
  /\ request \in 0..MaxRequests
  /\ svcPref \in Setting
  /\ svcUtt \in Utterance(0..MaxRequests)
  /\ svcUtt.text \in 0..MaxText
  /\ svcLeft \in 0..MaxBuffers
  /\ svc = "avail" => svcLeft > 0
  /\ stopRequested \in BOOLEAN
  /\ binder \in [Binder -> {"idle", "stop"}]
  /\ delivered \in Nat
  /\ lateBuffers \in Nat

ServiceInit ==
  /\ svc = "idle" /\ request = 0
  /\ svcPref = StockSetting
  /\ svcUtt = NoUtterance
  /\ svcChunk = NoChunk
  /\ svcLeft = 0
  /\ stopRequested = FALSE
  /\ binder = [b \in Binder |-> "idle"]
  /\ delivered = 0 /\ lateBuffers = 0

At(place) == svc = place
Goto(place) == svc' = place
KeepSvc == UNCHANGED <<request, svcPref, svcUtt, svcChunk, svcLeft, stopRequested,
                       binder, delivered, lateBuffers>>

-----------------------------------------------------------------------------
(* A request reaches onSynthesizeText.                                     *)
SvcRequest ==
  /\ At("idle") /\ request < MaxRequests
  /\ Goto("open")
  /\ request' = request + 1 /\ delivered' = 0
  /\ UNCHANGED <<svcPref, svcUtt, svcChunk, svcLeft, stopRequested, binder, lateBuffers>>
  /\ UNCHANGED engineVars

SvcOpenSkipsPrefs ==
  /\ At("open") /\ KeepSvc
  /\ \/ OpenRunning /\ Goto("reset")
     \/ OpenBoots   /\ Goto("reset")
     \/ OpenFails   /\ Goto("idle")

SvcOpen ==
  /\ At("open") /\ KeepSvc
  /\ \/ OpenRunning /\ Goto("reset")
     \/ OpenBoots   /\ Goto("readPrefs")
     \/ OpenFails   /\ Goto("idle")     \* callback.error

SvcReadPrefs ==
  /\ At("readPrefs") /\ Goto("applyPrefs")
  /\ svcPref' = outputPref
  /\ UNCHANGED <<request, svcUtt, svcChunk, svcLeft, stopRequested, binder, delivered, lateBuffers>>
  /\ UNCHANGED engineVars

SvcApplyPrefs ==
  /\ At("applyPrefs") /\ Goto("reset")
  /\ ApplyPrefs(svcPref) /\ KeepSvc

SvcReset ==
  /\ At("reset") /\ Goto("start")
  /\ stopRequested' = FALSE /\ lateBuffers' = 0
  /\ UNCHANGED <<request, svcPref, svcUtt, svcChunk, svcLeft, binder, delivered>>
  /\ UNCHANGED engineVars

(* callback.start may refuse; utteranceBytes runs only after it succeeds.  *)
SvcStartBuildsFirst ==
  /\ At("start") /\ KeepSvc
  /\ \/ Goto("build") /\ UNCHANGED engineVars
     \/ Goto("idle") /\ \E v \in Voice : Build(v)

SvcStart ==
  /\ At("start") /\ KeepSvc
  /\ Goto("build") \/ Goto("idle")
  /\ UNCHANGED engineVars

(* The request's own voice, or the saved default for the meta-voice: any   *)
(* card voice.                                                             *)
SvcBuild ==
  /\ At("build") /\ Goto("flush")
  /\ \E v \in Voice, n \in 0..MaxText :
       /\ svcUtt' = BuiltUtterance(request, v, n)
       /\ Build(v)
  /\ UNCHANGED <<request, svcPref, svcChunk, svcLeft, stopRequested, binder, delivered, lateBuffers>>

SvcFlush == At("flush") /\ Stop /\ Goto("queue") /\ KeepSvc

SvcQueueThenFlush ==
  /\ At("queue") /\ Stop /\ Goto("loop") /\ KeepSvc

SvcQueue == At("queue") /\ Queue(svcUtt) /\ Goto("loop") /\ KeepSvc

-----------------------------------------------------------------------------
(* while (!stopRequested)                                                  *)
SvcLoop ==
  /\ At("loop") /\ KeepSvc
  /\ IF stopRequested THEN Goto("end") ELSE Goto("enter")
  /\ UNCHANGED engineVars

SvcEnter ==
  /\ At("enter") /\ KeepSvc
  /\ \/ SynthClosed /\ Goto("end")     \* 0 samples
     \/ SynthEnter(Svc) /\ Goto("synth")

SvcSynthNoBreak ==
  /\ At("synth")
  /\ \/ SynthSkip(Svc) /\ UNCHANGED svcVars
     \/ SynthIdle(Svc) /\ Goto("loop") /\ KeepSvc
     \/ /\ SynthSpeak(Svc) /\ Goto("buffer")
        /\ svcChunk' = SpokenChunk
        /\ svcLeft' \in 1..MaxBuffers
        /\ UNCHANGED <<request, svcPref, svcUtt, stopRequested, binder, delivered, lateBuffers>>

SvcSynth ==
  /\ At("synth")
  /\ \/ SynthSkip(Svc) /\ UNCHANGED svcVars
     \/ SynthIdle(Svc) /\ Goto("end") /\ KeepSvc
     \/ /\ SynthSpeak(Svc) /\ Goto("buffer")
        /\ svcChunk' = SpokenChunk
        /\ svcLeft' \in 1..MaxBuffers
        /\ UNCHANGED <<request, svcPref, svcUtt, stopRequested, binder, delivered, lateBuffers>>

(* while (off < total && !stopRequested): the check, then the call.        *)
SvcBufferIgnoresStop ==
  /\ At("buffer")
  /\ IF svcLeft = 0
       THEN Goto("loop") /\ delivered' = delivered + 1
       ELSE Goto("avail") /\ UNCHANGED delivered
  /\ UNCHANGED <<request, svcPref, svcUtt, svcChunk, svcLeft, stopRequested, binder, lateBuffers>>
  /\ UNCHANGED engineVars

SvcBuffer ==
  /\ At("buffer")
  /\ IF svcLeft = 0
       THEN Goto("loop") /\ delivered' = delivered + 1
       ELSE (IF stopRequested THEN Goto("loop") ELSE Goto("avail")) /\ UNCHANGED delivered
  /\ UNCHANGED <<request, svcPref, svcUtt, svcChunk, svcLeft, stopRequested, binder, lateBuffers>>
  /\ UNCHANGED engineVars

SvcAvail ==
  /\ At("avail")
  /\ \/ /\ Goto("buffer") /\ svcLeft' = svcLeft - 1
        /\ UNCHANGED stopRequested
     \/ /\ Goto("loop") /\ stopRequested' = TRUE \* the callback refused
        /\ UNCHANGED svcLeft
  /\ lateBuffers' = IF stopRequested THEN lateBuffers + 1 ELSE lateBuffers
  /\ UNCHANGED <<request, svcPref, svcUtt, svcChunk, binder, delivered>>
  /\ UNCHANGED engineVars

SvcEnd ==
  /\ At("end") /\ KeepSvc
  /\ IF stopRequested THEN Goto("endStop") ELSE Goto("idle")
  /\ UNCHANGED engineVars

SvcEndStop == At("endStop") /\ Stop /\ Goto("idle") /\ KeepSvc

-----------------------------------------------------------------------------
(* onStop                                                                  *)
OnStopFlag(b) ==
  /\ binder[b] = "idle"
  /\ stopRequested' = TRUE
  /\ binder' = [binder EXCEPT ![b] = "stop"]
  /\ UNCHANGED <<svc, request, svcPref, svcUtt, svcChunk, svcLeft, delivered, lateBuffers>>
  /\ UNCHANGED engineVars

OnStopEngine(b) ==
  /\ binder[b] = "stop" /\ Stop
  /\ binder' = [binder EXCEPT ![b] = "idle"]
  /\ UNCHANGED <<svc, request, svcPref, svcUtt, svcChunk, svcLeft, stopRequested,
                 delivered, lateBuffers>>

-----------------------------------------------------------------------------
(* One request's code, from its arrival to its return.                     *)
SvcStep ==
  \/ SvcOpen \/ SvcReadPrefs \/ SvcApplyPrefs \/ SvcReset \/ SvcStart \/ SvcBuild
  \/ SvcFlush \/ SvcQueue \/ SvcLoop \/ SvcEnter \/ SvcSynth \/ SvcBuffer \/ SvcAvail
  \/ SvcEnd \/ SvcEndStop

OnStop == \E b \in Binder : OnStopFlag(b) \/ OnStopEngine(b)

ServiceNext == SvcRequest \/ SvcStep
=============================================================================
