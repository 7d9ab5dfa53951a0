----------------------------- MODULE ClientAuth ------------------------------
(***************************************************************************)
(* The client-auth providers of fabricd (fabricd/src/auth.rs): which       *)
(* tokens open a session.  A token is opaque; the empty string is told     *)
(* apart because `build` filters it out of the configuration.              *)
(***************************************************************************)

CONSTANTS Tokens,         \* token strings a box can present or an operator set
          EmptyToken,     \* the empty string
          NoToken,        \* the box sent no token / the option is not set
          AuthMode,       \* quic.auth.mode
          StaticToken,    \* quic.auth.static_token
          PreviousToken   \* quic.auth.previous_token

\* What `auth::build` refuses at start-up: a static mode without a secret.
BuildSucceeds == AuthMode = "static" => StaticToken \notin {NoToken, EmptyToken}

ASSUME ClientAuthAssumption ==
    /\ EmptyToken \in Tokens
    /\ NoToken \notin Tokens
    /\ StaticToken \in Tokens \cup {NoToken}
    /\ PreviousToken \in Tokens \cup {NoToken}
    /\ AuthMode \in {"none", "static", "sa-token"}
    /\ BuildSucceeds

\* The secrets the static provider holds: the current one and, during a
\* rotation, the previous one; an empty `previous_token` counts as not set.
StaticSecrets == {StaticToken} \cup ({PreviousToken} \ {NoToken, EmptyToken})

\* ClientAuthenticator::authenticate of the QUIC listener's provider.
\* `verified` is the verdict of the JWKS verifier on the token.
authenticate(token, verified) ==
    \/ AuthMode = "none"
    \/ /\ AuthMode = "static"
       /\ token # NoToken
       /\ token \in StaticSecrets
    \/ /\ AuthMode = "sa-token"
       /\ token # NoToken
       /\ verified
=============================================================================
