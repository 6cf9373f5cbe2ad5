SPECIFICATION Spec
CONSTANTS
  Items = {a, b}
  None = None
  Gone = Gone
  Faults = {"offline", "lost", "cancel", "repeat", "away", "otherAdmin"}
  MaxKinds = 2
  MaxCalls = 2
  MaxActs = 5
SYMMETRY Permuted
INVARIANTS TypeOK ConfirmedIsDone RowsAreCurrent DoneIsTold
CHECK_DEADLOCK FALSE
