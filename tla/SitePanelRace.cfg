SPECIFICATION Spec
CONSTANTS
  Site = {s1}
  Cert = {c1}
  Req = {r1, r2}
  Cfg <- TwoCfgs
  Refused <- MCRefused
  ByHand = "hand"
  Parts = {"part"}
  NoRow = NoRow
  NoCert = NoCert
  NoTree = NoTree
  Ops <- UpdateOps
  SaveFails = FALSE
CHECK_DEADLOCK FALSE
SYMMETRY Requests
INVARIANT LiveIsModel
