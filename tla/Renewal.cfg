SPECIFICATION FairSpec
CONSTANTS
  Cert = {c1, c2}
  Lucky = {c1}
  Req = {r1}
  Sched = Sched
  NoCert = NoCert
  Faults = {"save", "reload"}
  MaxCrashes = 1
INVARIANTS TypeOK ServedOrOwed NeverOverstated
PROPERTY DueIsRenewed
