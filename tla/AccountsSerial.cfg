SPECIFICATION Spec
CONSTANTS
  User = {u1, u2}
  Req = {r1}
  Password = {p1, p2}
  Secret = {k1, k2}
  NoUser = NoUser
  NoSecret = NoSecret
  NoTok = NoTok
  Ops <- AllOps
  MaxEpoch = 1
  MaxTokens = 2
SYMMETRY Symmetric
INVARIANTS TypeOK OneSystemAdmin SessionsAreCurrent DisabledIsOut
PROPERTY EnrolledIsNotRekeyed
