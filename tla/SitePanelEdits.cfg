SPECIFICATION Spec
CONSTANTS
  Site = {s1}
  Cert = {c1}
  Req = {r1}
  Cfg <- OneCfg
  Refused <- MCRefused
  ByHand = "hand"
  Parts = {"part"}
  NoRow = NoRow
  NoCert = NoCert
  NoTree = NoTree
  Ops <- EditCrash
  SaveFails = FALSE
CHECK_DEADLOCK FALSE
PROPERTY EditsSurviveBoot
