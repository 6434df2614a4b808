SPECIFICATION Spec
CONSTANTS
  Handler = {h1}
  User = {u1}
  Principal = svc
  Tenant = {t1, t2}
  Home = {t1}
  Ip = {a1}
  KeyUser = u1
  KeyTenant = t1
  Mandate = {t2}
  Enrolled = {}
  MfaEnabled = TRUE
  MaxTokens = 3
  MaxChanges = 1
CHECK_DEADLOCK FALSE
INVARIANTS
  TypeOK
  EachKindAtItsOwnDoor
  KeyConfined
  FactorFollowsSignIn
  RotatedKeyNotRenewed
