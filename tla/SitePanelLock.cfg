SPECIFICATION Spec
CONSTANTS
  Site = {s1}
  Cert = {c1}
  Req = {r1, r2}
  Cfg <- TwoCfgs
  Refused <- MCRefused
  ByHand = "hand"
  Parts = {"part"}
  NoRow = NoRow
  NoCert = NoCert
  NoTree = NoTree
  Ops <- LockOps
  SaveFails = FALSE
CHECK_DEADLOCK FALSE
PROPERTY LockedIsFrozen
