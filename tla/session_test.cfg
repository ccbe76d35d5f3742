SPECIFICATION FairSpec
CONSTANTS
  Free = Free
  Svc = Svc
  NoThread = NoThread
  b1 = b1
  b2 = b2
  t1 = t1
  t2 = t2
  Voice <- TwoVoices
  Setting <- TwoSettings
  StockSetting = 0
  Binder <- Nobody
  Clicks <- AllClicks
  TestThread <- TwoTests
  MaxRequests = 0
  MaxText = 0
  MaxBuffers = 1
  MaxTestText = 1
  JoinTimesOut = FALSE
  MaxImports = 1
INVARIANT TestOwnAudio
INVARIANT SettingsPushed
PROPERTY UiReturns
CHECK_DEADLOCK FALSE
