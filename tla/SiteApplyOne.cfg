SPECIFICATION Spec
CONSTANTS
  Site = {s1}
  Req = {r1, r2}
  File <- MCFile
  Main = "site.conf"
  Content <- MCContent
  Empty = "empty"
  NoFile = NoFile
  NoDir = NoDir
  NoReq = NoReq
  Accepted <- MCAccepted
  Jobs <- OneSite
  LostReply = TRUE
  MaxTime = 1
  Keep = 1
  PutbackFails = FALSE
SYMMETRY Callers
CHECK_DEADLOCK FALSE
INVARIANTS TypeOK ValidAtRest AsideIsBackedUp
PROPERTY Promise
