\* Two calling threads, at most three requests, one refusal; Low and High calls
\* and close(); jobs that may never return; the wall clock is set once,
\* forward by less than JobCap or to before the start of a job.
CONSTANTS
  Callers = {c1, c2}
  RunPrios = {1, 3}
  Caps <- MCCaps
  QueueWait <- MCQueueWait
  CloseWait = 2
  JobCap = 3
  WallMod = 1000
  BootSkew = 5
  Skews = {0, 7}
  MaxSeq = 3
  MaxRejected = 1
  MaxClockSteps = 1
SPECIFICATION FairSpec
INVARIANTS Accounted
PROPERTIES NoOvertake WatchdogBitesOnlyWedged ServesSerially PortFreed CloseHappens
\* the bounds on requests let the system come to rest
CHECK_DEADLOCK FALSE
