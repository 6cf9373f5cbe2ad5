SPECIFICATION Spec
CONSTANTS
  Site = {s1, s2}
  Cert = {c1}
  Req = {r1}
  Cfg <- OneCfg
  Refused <- MCRefused
  ByHand = "hand"
  Parts = {"part"}
  NoRow = NoRow
  NoCert = NoCert
  NoTree = NoTree
  Ops <- NoRestore
  SaveFails = FALSE
SYMMETRY Sites
CHECK_DEADLOCK FALSE
INVARIANT CertsOfLiveExist
