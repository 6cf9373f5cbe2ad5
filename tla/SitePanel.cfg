SPECIFICATION Spec
CONSTANTS
  Site = {s1}
  Cert = {c1, c2}
  Req = {r1}
  Cfg <- TwoCfgs
  Refused <- MCRefused
  ByHand = "hand"
  Parts = {"part"}
  NoRow = NoRow
  NoCert = NoCert
  NoTree = NoTree
  Ops <- AllOps
  SaveFails = TRUE
CHECK_DEADLOCK FALSE
INVARIANTS TypeOK TreesFollowRows NoDanglingCert
PROPERTY LockedIsFrozen
