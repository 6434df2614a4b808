SPECIFICATION Spec
CONSTANTS
  Thread = {t1, t2}
  NoThread = NoThread
  Group <- MCGroup
  TenantBase = "ou=tenants"
  Root = "root"
  NoBase = "none"
  NoTenant = "none"
  Lower <- MCLower
  Deployment <- MCDeployment
  HasReplica = TRUE
  Cooldown = 1
  MaxChanges = 1
INVARIANT AdminOfOwnTenantOnly
