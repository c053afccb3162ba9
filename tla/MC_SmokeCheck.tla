---------------------------- MODULE MC_SmokeCheck ----------------------------
(***************************************************************************)
(* Deployments and command lines for TLC: each kind of adapter alone, with *)
(* the settings it depends on right, wrong and missing, and deterministic  *)
(* deployments at the limits of what the script sends.                     *)
(***************************************************************************)
EXTENDS SmokeCheck, TLC

Bridge == [adapter_bridge |-> "openclaw-gateway"]

Hearing == [adapter_vad |-> "silero", adapter_stt |-> "faster-whisper"]

MCEnvironments ==
  {Environment(given) : given \in
    {[adapter_vad |-> "stub", ws_rate_limit_backend |-> "redis"],
     [ws_processing_mode |-> "streaming", ws_rate_limit_events_per_window |-> 2,
      ws_auth_mode |-> "shared-secret", WS_AUTH_TOKEN |-> "key"],
     [ws_rate_limit_events_per_window |-> 1], [ws_max_event_bytes |-> 64],
     [ws_rate_limit_backend |-> "redis", ws_rate_limit_events_per_window |-> 5],
     [ws_rate_limit_backend |-> "redis", ws_rate_limit_audio_bytes_per_window |-> 22],
     [ws_max_audio_chunk_bytes |-> 10], [static_enabled |-> "0"],
     Bridge, Bridge @@ [OPENCLAW_GATEWAY_TOKEN |-> " "], Bridge @@ [OPENCLAW_GATEWAY_TOKEN |-> "key "],
     Bridge @@ [openclaw_gateway_allow_unauthenticated |-> "true"],
     Bridge @@ [OPENCLAW_GATEWAY_TOKEN |-> "key", openclaw_gateway_token_env_var |-> " "],
     Bridge @@ [OPENCLAW_GATEWAY_TOKEN |-> "key", openclaw_agent_target |-> " "],
     Bridge @@ [OPENCLAW_GATEWAY_TOKEN |-> "key", openclaw_gateway_url |-> " "],
     Bridge @@ [OPENCLAW_GATEWAY_TOKEN |-> "key", openclaw_gateway_url |-> "gateway.local"],
     Hearing, [audio_sample_rate |-> 8000] @@ Hearing,
     [adapter_vad |-> "silero", silero_sample_rate |-> 44100],
     [adapter_tts |-> "kokoro", kokoro_allow_fallback |-> "no"],
     [adapter_tts |-> "kokoro", kokoro_output_format |-> "wav"],
     [adapter_tts |-> "kokoro", kokoro_allow_fallback |-> "off", kokoro_output_format |-> "wav"],
     Bridge @@ [adapter_tts |-> "kokoro", OPENCLAW_GATEWAY_TOKEN |-> "key"]}}

MCArguments ==
  {[allow_not_ready |-> FALSE, hello_only |-> FALSE, auth_token |-> "right"],
   [allow_not_ready |-> TRUE, hello_only |-> FALSE, auth_token |-> "none"],
   [allow_not_ready |-> TRUE, hello_only |-> TRUE, auth_token |-> "wrong"]}
=============================================================================
