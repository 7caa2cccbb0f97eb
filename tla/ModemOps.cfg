\* Two users and the watch; three operations; one of their commands fails or
\* the daemon ends.
CONSTANTS
  Users = {u1, u2}
  Watch = watch
  Args <- MCArgs
  Imeis = {"a"}
  Factory = "factory"
  Kinds = {"lock", "cfun", "imei", "restart"}
  MaxOps = 3
  MaxFaults = 1
SPECIFICATION FairSpec
INVARIANTS PutBackOnAir OutageIsJustified
PROPERTIES ReplacedIsBackedUp FlightModeEnds
CHECK_DEADLOCK FALSE
