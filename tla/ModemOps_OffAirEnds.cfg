\* Locks alone, one of their commands fails.
CONSTANTS
  Users = {u1}
  Watch = watch
  Args <- MCArgs
  Imeis = {"a"}
  Factory = "factory"
  Kinds = {"lock"}
  MaxOps = 1
  MaxFaults = 1
SPECIFICATION FairSpec
PROPERTY OffAirEnds
CHECK_DEADLOCK FALSE
