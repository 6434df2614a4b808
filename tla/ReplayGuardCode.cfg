SPECIFICATION Spec
CONSTANTS
  Handler = {h1, h2, h3}
  Assertion = {a1}
  Code = {c1, c2}
  NoJti = NoJti
  Exp <- MCExp
  ShortLived = {c1}
  ShortExp = 1
  LongExp = 2
  Leeway = 1
  MaxTime = 3
SYMMETRY MCSymmetry
PROPERTY CodeRedeemedOnce
