SPECIFICATION Spec
CONSTANTS
  User = {u1}
  Req = {r1, r2}
  Password = {p1}
  Secret = {k1, k2}
  NoUser = NoUser
  NoSecret = NoSecret
  NoTok = NoTok
  Ops <- EnrollOps
  MaxEpoch = 1
  MaxTokens = 2
SYMMETRY Symmetric
PROPERTY EnrolledIsNotRekeyed
