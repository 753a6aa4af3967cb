\* A sensor or a station polled every 20 s: the backoff 2, 4, 8, 16, 32, 60
\* crosses the interval and reaches its cap.
CONSTANTS
  PollIntervalS = 20
  FirstBackoff = 2
  MaxBackoff = 60
  FailBound = 6
SPECIFICATION AnyWorkerSpec
INVARIANTS LogTellsTruth OneAlarmPerOutage BackoffLaw
PROPERTIES RecoversFromOutage StopExits ImplementsLife
\* A stopped worker has nothing left to do.
CHECK_DEADLOCK FALSE
