SPECIFICATION Spec
CONSTANTS
  Sites = {a}
  None = None
  StorageOk = FALSE
  Window = 1
  Faults = {"crash"}
  MaxKinds = 1
  MaxActs = 4
  Quiet = 0
INVARIANT ReloadsAreSpaced
CHECK_DEADLOCK FALSE
