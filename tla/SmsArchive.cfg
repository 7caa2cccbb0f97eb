\* Two requests at a time, two texts under one key; the daemon ends once.
CONSTANTS
  Texts = {t1, t2}
  DedupKeys = {k1}
  Requests = {r1, r2}
  Window = 1
  MaxSubmits = 3
  MaxDrops = 2
  MaxDeaths = 1
SPECIFICATION ArchiveSpec
SYMMETRY Symmetry
INVARIANTS ArchiveKeeps
CHECK_DEADLOCK FALSE
