SPECIFICATION Spec
CONSTANTS
  Sites = {a, b}
  None = None
  StorageOk = TRUE
  Window = 1
  Faults = {"lost", "typing", "overlap", "moved", "otherAdmin", "crash"}
  MaxKinds = 2
  MaxActs = 11
  Quiet = 4
SYMMETRY Permuted
INVARIANTS TypeOK SavesAreMeant FileIsItsOwn ReloadsAreSpaced
PROPERTY DraftStays
CHECK_DEADLOCK FALSE
