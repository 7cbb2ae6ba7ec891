CONSTANTS
  p1 = p1
  a1 = a1
  Requests = {r1, r2, r3}
  Codes = {c1}
  Tokens = {t1, t2}
  SessionIds = {s1}
  Objects = {o1, o2}
  Versions = {v1}
  None = None
  PlannerTokens = {p1}
  StoreTokens = {a1}
  Scopes <- MCScopes
  Granted <- MCGranted
  AllowedScopes <- MCAllowedScopes
  StoreScopes <- MCStoreScopes
  DevNoAuth = FALSE
  DevScopes = {}
SPECIFICATION EndpointsSpec
INVARIANTS CodeIsSpent SessionIsSound
PROPERTY StreamEnds
