SPECIFICATION FairSpec
CONSTANTS
  Free = Free
  Svc = Svc
  NoThread = NoThread
  b1 = b1
  b2 = b2
  t1 = t1
  t2 = t2
  Voice <- TwoVoices
  Setting <- TwoSettings
  StockSetting = 0
  Binder <- TwoBinders
  Clicks <- NoClick
  TestThread <- Nobody
  MaxRequests = 3
  MaxText = 2
  MaxBuffers = 2
  MaxTestText = 0
  JoinTimesOut = FALSE
  MaxImports = 1
INVARIANT RequestedVoice
INVARIANT CompleteUnlessStopped
INVARIANT ServiceOwnAudio
INVARIANT AtMostOneLateBuffer
INVARIANT SettingsBeforeSpeech
PROPERTY RequestReturns
CHECK_DEADLOCK FALSE
