----------------------------- MODULE MCAuthTokens -----------------------------
(* One user with two agents, one of which sends no User-Agent header; a      *)
(* second of two ticks, an access token of two seconds, a refresh token of   *)
(* three, so that a pair is replaced at every fraction of a second.          *)
EXTENDS AuthTokens
==============================================================================
