SPECIFICATION Spec
CONSTANTS
  Site = {s1}
  Req = {r1}
  File <- MCFile
  Main = "site.conf"
  Content <- MCContent
  Empty = "empty"
  NoFile = NoFile
  NoDir = NoDir
  NoReq = NoReq
  Accepted <- MCAccepted
  Jobs <- Backups
  LostReply = FALSE
  MaxTime = 1
  Keep = 1
  PutbackFails = FALSE
CHECK_DEADLOCK FALSE
INVARIANTS SwapIsAtomic BackupIsTheTree NeverBlanked
