----------------------------- MODULE MC_Handshake -----------------------------
(***************************************************************************)
(* Environments, tokens and clients for TLC.  The environments vary what   *)
(* authentication depends on; some must be refused, some are legal at the  *)
(* edge of a limit.                                                        *)
(***************************************************************************)
EXTENDS Handshake, TLC

Token(form, key, ttl, sid, clt) ==
  [form |-> form, key |-> key, iat |-> 0, exp |-> ttl, ttl |-> ttl, sid |-> sid, clt |-> clt,
   iss |-> "ralleh", aud |-> ""]

MCMintArgs == {[ttl |-> 1, sid |-> "s1", clt |-> "browser", iss |-> "ralleh", aud |-> ""],
               [ttl |-> 2, sid |-> "s1", clt |-> "cli", iss |-> " ", aud |-> ""]}

\* Nothing, the shared secret itself, and what a holder of a wrong or of the right key,
\* or of none, could send.
MCForgeries ==
  {Token(form, "key", 9, "s1", "browser") :
     form \in {"none", "secret", "not ascii", "bad header", "bad claims"}}
    \cup {Token("good", "other", 9, "s2", "browser")}

MCSkews == {-2, -1, 1}

ConnSymmetry == Permutations(Conns)

Signing(key) == [ws_auth_mode |-> " Signed-Token ", WS_AUTH_SIGNING_KEY |-> key,
                 ws_rate_limit_events_per_minute |-> 2]

MCEnvironments ==
  {Environment(given) : given \in
    {Signing("key"), Signing("key ") @@ [ws_auth_token_issuer |-> "ralleh"],
     [ws_rate_limit_events_per_window |-> 1, ws_rate_limit_backend |-> "redis"] @@ Signing("key"),
     Signing("key") @@ [ws_auth_token_audience |-> "voice"],
     Signing(" "), Signing("key") @@ [ws_auth_signing_key_env_var |-> " "],
     [ws_auth_mode |-> "signed-token"],
     [ws_auth_mode |-> "shared-secret", WS_AUTH_TOKEN |-> "key ",
      ws_rate_limit_events_per_window |-> 2],
     [ws_auth_mode |-> "shared-secret"],
     Signing("key") @@ [ws_auth_signing_key_env_var |-> "WS_AUTH_SIGNING_KEY "],
     [ws_auth_mode |-> "shared-secret", WS_AUTH_TOKEN |-> "key ",
      ws_auth_token_env_var |-> " WS_AUTH_TOKEN"],
     [ws_auth_mode |-> "off", ws_rate_limit_events_per_window |-> 1],
     [ws_max_audio_chunk_bytes |-> 1024, ws_max_buffered_audio_bytes |-> 1024,
      ws_rate_limit_events_per_minute |-> NotANumber, ws_rate_limit_events_per_window |-> 1],
     [ws_max_audio_chunk_bytes |-> 2048, ws_max_buffered_audio_bytes |-> 1024],
     [ws_streaming_max_pending_chunks |-> 0], [ws_rate_limit_audio_bytes_per_minute |-> 0],
     [adapter_tts |-> "espeak"],
     [cors_allow_credentials |-> "true", cors_allow_origins |-> {"http://localhost", "*"}]}}
=============================================================================
