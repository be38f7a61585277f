SPECIFICATION Spec
CONSTANTS
  Users = {u1}
  Passwords = {p1, p2}
  Jtis = {j1}
  Tokens = {t1, t2}
  Requests = {r1, r2}
  JwtTTL = 2
  Leeway = 1
  ResetTTL = 2
  Nil = Nil
  MaxTime = 4
SYMMETRY Symmetric
INVARIANTS
  LoggedOutStaysOut
  OneGoodToken
PROPERTIES
  SpentTokensRejected
CHECK_DEADLOCK FALSE
