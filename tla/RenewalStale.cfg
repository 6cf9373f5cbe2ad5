SPECIFICATION FairSpec
CONSTANTS
  Cert = {c1, c2}
  Lucky = {c1}
  Req = {}
  Sched = Sched
  NoCert = NoCert
  Faults = {"reload"}
  MaxCrashes = 0
PROPERTY StaleIsRead
