SPECIFICATION Spec
CONSTANTS
  Handler = {h1}
  Flow = {f1}
  NoFlow = NoFlow
  Provider = {"microsoft"}
  Env <- MicrosoftEnv
  WellKnown <- MicrosoftWellKnown
  Document <- MicrosoftDocument
  TokenIss <- MicrosoftTokenIss
  Pkce = {}
  Key = {"k1"}
  Kid <- MCKid
  NoKid = "no kid"
  Ttl = 1
  MaxRotations = 0
  MaxTime = 1
INVARIANT
  OfferedIssuerAccepted
