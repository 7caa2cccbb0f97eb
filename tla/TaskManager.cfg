\* Three submitting threads, one of them outside the runtime, three calls of
\* spawn(), a history of two; bodies that may never return.
CONSTANTS
  Submitters = {s1, s2, s3}
  InRuntime = {s1, s2}
  Cap = 1
  History = 2
  MaxTasks = 3
SPECIFICATION FairSpec
INVARIANTS OpenIsListed HistoryBounded
PROPERTIES FinalIsFinal SlotFreed
\* the bound on spawn() lets the system come to rest
CHECK_DEADLOCK FALSE
