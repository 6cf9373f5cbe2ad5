SPECIFICATION Spec
CONSTANTS
  Cert = {c1, c2}
  Lucky = {c1}
  Req = {r1, r2}
  Sched = Sched
  NoCert = NoCert
  Faults = {"save", "reload"}
  MaxCrashes = 1
SYMMETRY Requests
INVARIANTS UploadsAreTrue BoundHasFiles
