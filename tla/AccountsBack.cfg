SPECIFICATION Spec
CONSTANTS
  User = {u1, u2}
  Req = {r1, r2}
  Password = {p1}
  Secret = {k1}
  NoUser = NoUser
  NoSecret = NoSecret
  NoTok = NoTok
  Ops <- DeleteOps
  MaxEpoch = 1
  MaxTokens = 2
SYMMETRY Symmetric
PROPERTY DeletedIsGone
