SPECIFICATION Spec
CONSTANTS
  ann = ann
  ANN = ANN
  bob = bob
  Users = {u1, u2}
  Spellings <- Written
  Lower <- LowerCase
  Subjects = {g1, g2}
  Domains = {d1, d2}
  HostedDomain = d1
  Requests = {r1, r2}
  Customers = {k1, k2}
  Cards = {m1}
  Nil = Nil
SYMMETRY Symmetric
INVARIANTS
  IdentityKept
  CardsReachable
