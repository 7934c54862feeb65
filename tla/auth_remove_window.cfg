SPECIFICATION Spec
CONSTANTS
  Threads = {t1, t2}
  Clients = {c1}
  Redirects = {u1}
  Scopes = {s1}
  Names = {n1}
  Bindings = {}
  PairCodes = {p1, p2, p3}
  AuthCodes = {a1}
  RefreshTokens = {r1, r2, r3}
  SigningKeys = {k1, k2}
  Verifiers = {v1}
  CodeTTL = 1
  TokenTTL = 1
  MaxClock = 2
  OnlineOps = {"add", "remove"}
  Faults = {}
  DefaultScope = s1
  Absent = Absent
  NoName = NoName
  NoBinding = NoBinding
SYMMETRY Symmetry
INVARIANT RevocationWindow
