SPECIFICATION Spec
CONSTANTS
  Handler = {h1, h2, h3}
  Assertion = {a1, a2}
  Code = {c1, c2}
  NoJti = NoJti
  Exp <- MCExp
  ShortLived = {a1, c1}
  ShortExp = 1
  LongExp = 2
  Leeway = 1
  MaxTime = 3
SYMMETRY MCSymmetry
INVARIANTS
  TypeOK
  UsedIsRemembered
PROPERTY AcceptedOnceUntilExpiry
