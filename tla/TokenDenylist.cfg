SPECIFICATION Spec
CONSTANTS
  NoJti = NoJti
  Instance = {i1, i2}
  Handler = {h1, h2}
  Jti = {j1}
  Exp <- MCExp
  TokenExp = 3
  CacheTtl = 1
  MaxCacheEntries = 1
  FailOpen = FALSE
  MaxTime = 3
SYMMETRY MCSymmetry
INVARIANTS
  TypeOK
  RevocationLatency
  HonouredOnFreshEvidence
  RevocationOutlivesToken
