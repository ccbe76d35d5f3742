SPECIFICATION FairSpec
CONSTANTS
  ChunkSamples <- TwoSamples
  LeadIn = 1
  PauseCaps <- TrimToOne
  Settle = 2
  MaxGap = 1
  BootTime = 1
  BootLimit = 3
  Resets = TRUE
  Wants <- Three
  MaxText = 2
  MaxSpeech = 1
  MaxStops = 1
  MaxMarks = 1
INVARIANT GridAccounted
INVARIANT IdleIsDone
INVARIANT MarksNotLate
INVARIANT LeadInCapped
PROPERTY SynthReturns
CHECK_DEADLOCK FALSE
