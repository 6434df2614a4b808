---------------------------- MODULE MCOauthLogin ----------------------------
(* Values of the constants of OauthLogin for TLC.                            *)
EXTENDS OauthLogin, TLC

MCSymmetry == Permutations(Handler) \cup Permutations(Flow)

Unset == [auth |-> FALSE, token |-> FALSE, jwks |-> FALSE, issuer |-> None]

\* An OpenID provider configured by its issuer alone with explicit URLs beside
\* it, and GitHub, which has no id_token and checks PKCE.
MCEnv ==
  [p \in {"corp", "github"} |->
     [kind |-> IF p = "corp" THEN "oidc" ELSE "github", id |-> TRUE, secret |-> TRUE,
      auth |-> TRUE, token |-> TRUE, jwks |-> FALSE,
      issuer |-> IF p = "corp" THEN "iss" ELSE None, verify |-> TRUE]]

MCWellKnown == [p \in {"corp", "github"} |-> Unset]

MCDocument ==
  [p \in {"corp", "github"} |->
     IF p = "corp"
     THEN [auth |-> TRUE, token |-> TRUE, jwks |-> TRUE, issuer |-> "iss"]
     ELSE Unset]

MCTokenIss == [p \in {"corp", "github"} |-> IF p = "corp" THEN "iss" ELSE None]

MCKid == [k \in {"k1", "k2", "plain"} |-> IF k = "plain" THEN NoKid ELSE k]

\* The configuration OAUTH_SETUP.md calls the minimum for Microsoft.
MicrosoftEnv ==
  [p \in {"microsoft"} |->
     [kind |-> "oidc", id |-> TRUE, secret |-> TRUE, auth |-> FALSE, token |-> FALSE,
      jwks |-> FALSE, issuer |-> None, verify |-> TRUE]]

MicrosoftWellKnown ==
  [p \in {"microsoft"} |-> [auth |-> TRUE, token |-> TRUE, jwks |-> TRUE, issuer |-> None]]

MicrosoftDocument == [p \in {"microsoft"} |-> Unset]

MicrosoftTokenIss == [p \in {"microsoft"} |-> "the user's tenant"]
===============================================================================
