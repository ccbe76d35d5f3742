SPECIFICATION Spec
CONSTANTS
  Free = Free
  Svc = Svc
  NoThread = NoThread
  b1 = b1
  b2 = b2
  t1 = t1
  t2 = t2
  Voice <- TwoVoices
  Setting <- OneSetting
  StockSetting = 0
  Binder <- OneBinder
  Clicks <- NoClick
  TestThread <- Nobody
  MaxRequests = 2
  MaxText = 1
  MaxBuffers = 1
  MaxTestText = 1
  JoinTimesOut = FALSE
  MaxImports = 0
INVARIANT VoiceAlways
CHECK_DEADLOCK FALSE
