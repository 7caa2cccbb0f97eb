\* cancel() comes before the first poll of the future.
CONSTANTS
  Submitters = {s1}
  InRuntime = {s1}
  Cap = 1
  History = 2
  MaxTasks = 2
SPECIFICATION Spec
INVARIANTS CancelledNeverRuns
SYMMETRY Symmetry
\* the bound on spawn() lets the system come to rest
CHECK_DEADLOCK FALSE
