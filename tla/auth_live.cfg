SPECIFICATION FairSpec
CONSTANTS
  Threads = {t1, t2}
  Clients = {c1}
  Redirects = {u1}
  Scopes = {s1}
  Names = {n1}
  Bindings = {}
  PairCodes = {p1, p2, p3}
  AuthCodes = {a1, a2}
  RefreshTokens = {r1, r2}
  SigningKeys = {k1, k2}
  Verifiers = {v1}
  CodeTTL = 1
  TokenTTL = 1
  MaxClock = 0
  OnlineOps = {"reset", "remove"}
  Faults = {"crash", "store"}
  DefaultScope = s1
  Absent = Absent
  NoName = NoName
  NoBinding = NoBinding
ACTION_CONSTRAINT FirstDraw
INVARIANTS
  ClientsKnown
  RemovedStayOut
  ResetInvalidates
PROPERTY RequestsEnd
