\* Two options; a dial that saves both and a CLI process that sets the first.
CONSTANTS
  NumKeys = 2
  Values = {old, new}
  Refused = {bad}
  Unset = Unset
  dial = dial
  cli = cli
  Savers = {dial, cli}
  Local = {dial}
  Patched <- MCPatched
  TTL = 1
  MaxLoad = 1
  MayFail = {"set", "commit"}
  MaxOutages = 1
SPECIFICATION Spec
INVARIANTS SavedIsCommitted StaleIsBounded
SYMMETRY Symmetry
