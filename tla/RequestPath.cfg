\* Two calls at a time, of which one finds no permit; the daemon stops, hangs or
\* gives up its port once.
CONSTANTS
  MaxSlots = 2
  Calls = {"status", "set", "dial", "storage"}
  ReadBudget = 1
  WriteMin = 1
  WriteMax = 2
  TmoRead = 2
  TmoWrite = 3
  CacheTtl = 1
  DownTtl = 1
  MaxConns = 1
  HasTimeout = TRUE
  Timeouts = {9}
  MaxWrites = 2
  MaxFaults = 1
SPECIFICATION FairSpec
INVARIANTS HealthyIsHeard AnswerIsRecent ReadsOwnWrites CliActsOnce
CHECK_DEADLOCK FALSE
PROPERTIES RpcdIsFreed
