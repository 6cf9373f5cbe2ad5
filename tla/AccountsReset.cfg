SPECIFICATION Spec
CONSTANTS
  User = {u1}
  Req = {r1, r2}
  Password = {p1, p2}
  Secret = {k1}
  NoUser = NoUser
  NoSecret = NoSecret
  NoTok = NoTok
  Ops <- ResetOps
  MaxEpoch = 1
  MaxTokens = 3
SYMMETRY Symmetric
INVARIANT SessionsAreCurrent
