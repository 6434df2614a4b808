SPECIFICATION Spec
CONSTANTS
  Handler = {h1, h2}
  Flow = {f1, f2}
  NoFlow = NoFlow
  Provider = {"corp", "github"}
  Env <- MCEnv
  WellKnown <- MCWellKnown
  Document <- MCDocument
  TokenIss <- MCTokenIss
  Pkce = {"github"}
  Key = {"k1", "k2", "plain"}
  Kid <- MCKid
  NoKid = "no kid"
  Ttl = 1
  MaxRotations = 1
  MaxTime = 1
SYMMETRY MCSymmetry
INVARIANTS
  TypeOK
  OneSignInPerFlow
  SignInIsTimely
  LoginBoundToFlow
  RefusedKeyIsGone
PROPERTIES
  AbandonedFlowsSwept
