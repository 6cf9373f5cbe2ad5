SPECIFICATION FairSpec
CONSTANTS
  Site = {s1, s2}
  Req = {r1, r2}
  File <- MCFile
  Main = "site.conf"
  Content <- MCContent
  Empty = "empty"
  NoFile = NoFile
  NoDir = NoDir
  NoReq = NoReq
  Accepted <- MCAccepted
  Jobs <- TwoSites
  LostReply = FALSE
  MaxTime = 0
  Keep = 1
  PutbackFails = FALSE
CHECK_DEADLOCK FALSE
INVARIANT RunningIsLive
PROPERTY CallsReturn
