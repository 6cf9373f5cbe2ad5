SPECIFICATION Spec
CONSTANTS
  User = {u1}
  Req = {r1, r2}
  Password = {p1, p2}
  Secret = {k1}
  NoUser = NoUser
  NoSecret = NoSecret
  NoTok = NoTok
  Ops <- OwnOps
  MaxEpoch = 1
  MaxTokens = 2
SYMMETRY Symmetric
PROPERTY EpochNeverFalls
