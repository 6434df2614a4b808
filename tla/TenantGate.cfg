SPECIFICATION Spec
CONSTANTS
  Handler = {h1, h2}
  Tenant = {t1}
  NoTenant = NoTenant
  Registry = {"live", "suspended", "archived", "absent"}
  AdmitTtl = 2
  RefuseTtl = 1
  MaxTime = 3
SYMMETRY MCSymmetry
INVARIANTS
  TypeOK
  SuspensionBites
  ReopeningBites
  AdmittedOnEvidence

PROPERTIES
  AnswersAreBoundedlyStale
