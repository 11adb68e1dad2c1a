\* Three readers and an input of two blocks.  Two requests that fill a log of
\* four entries twice: four is the smallest size with a share of failures
\* between the two thresholds.  Two connections.
CONSTANTS
  DupN = 3
  Blocks = 2
  Threads = {t1, t2}
  LogSize = 4
  Durations = {4}
  Failure = Failure
  InitialTimeout = 8
  Minimum = 8
  MaxCalls = 9
  Conns = {c1, c2}
SPECIFICATION MCSpec
INVARIANT AllOrNone
INVARIANT LockStep
INVARIANT NoRequestCutOff
INVARIANT AcceptedIsSent
INVARIANT ReturnedIsVerified
PROPERTY EveryStreamEnds
PROPERTY LogIsReset
PROPERTY SignalEnds
PROPERTY FailureIsReported
CHECK_DEADLOCK FALSE
