---------------------------- MODULE Configuration ----------------------------
(***************************************************************************)
(* config.py: what load_settings makes of the environment.  A variable of  *)
(* the environment has the name of the Settings field it fills, without    *)
(* the prefix RALLEH_VOICE_; the secrets it points at have names of their  *)
(* own.  A list is the set of its parts.  Fields nothing in the other      *)
(* modules depends on are left out.                                        *)
(***************************************************************************)
EXTENDS Integers

CONSTANTS
  Unset,       \* the variable is not in the environment
  NotANumber,  \* text that int() and float() refuse
  Refused      \* load_settings raises ValueError: the process does not start

IntMinimum ==
  [ws_max_event_bytes |-> 1, ws_max_audio_chunk_bytes |-> 1, ws_max_buffered_chunks |-> 1,
   ws_max_buffered_audio_bytes |-> 1024, ws_auth_token_ttl_seconds |-> 1,
   ws_streaming_max_pending_chunks |-> 1, ws_rate_limit_window_seconds |-> 1,
   ws_rate_limit_events_per_window |-> 1, ws_rate_limit_audio_bytes_per_window |-> 1,
   ws_rate_limit_redis_timeout_ms |-> 1, openclaw_gateway_timeout_ms |-> 1,
   openclaw_bridge_prompt_max_chars |-> 1]

\* Older names, read when the field's own name is not set.
Alias == [ws_rate_limit_events_per_window |-> "ws_rate_limit_events_per_minute",
          ws_rate_limit_audio_bytes_per_window |-> "ws_rate_limit_audio_bytes_per_minute"]

Deterministic == {"deterministic", "stub"}

Options ==
  [ws_auth_mode |-> {"off", "shared-secret", "signed-token"},
   ws_processing_mode |-> {"buffered", "streaming"},
   ws_rate_limit_backend |-> {"memory", "redis"},
   adapter_vad |-> Deterministic \cup {"silero"},
   adapter_stt |-> Deterministic \cup {"faster-whisper"},
   adapter_tts |-> Deterministic \cup {"kokoro"},
   adapter_bridge |-> Deterministic \cup {"openclaw-gateway"}]

Numbers == {"audio_sample_rate", "silero_sample_rate", "port"}

Booleans == {"cors_allow_credentials", "openclaw_gateway_allow_unauthenticated",
             "kokoro_allow_fallback", "static_enabled"}

Default ==
  [ws_max_event_bytes |-> 262144, ws_max_audio_chunk_bytes |-> 262144,
   ws_max_buffered_chunks |-> 512, ws_max_buffered_audio_bytes |-> 8388608,
   ws_auth_token_ttl_seconds |-> 120, ws_streaming_max_pending_chunks |-> 128,
   ws_rate_limit_window_seconds |-> 60, ws_rate_limit_events_per_window |-> 600,
   ws_rate_limit_audio_bytes_per_window |-> 8388608, ws_rate_limit_redis_timeout_ms |-> 200,
   openclaw_gateway_timeout_ms |-> 10000, openclaw_bridge_prompt_max_chars |-> 12000,
   ws_auth_mode |-> "off", ws_processing_mode |-> "buffered", ws_rate_limit_backend |-> "memory",
   adapter_vad |-> "deterministic", adapter_stt |-> "deterministic",
   adapter_tts |-> "deterministic", adapter_bridge |-> "deterministic",
   port |-> 8099, audio_sample_rate |-> 16000, silero_sample_rate |-> 16000,
   cors_allow_credentials |-> FALSE, openclaw_gateway_allow_unauthenticated |-> FALSE,
   kokoro_allow_fallback |-> TRUE, static_enabled |-> TRUE,
   cors_allow_origins |-> {"http://localhost"},
   ws_auth_token_env_var |-> "WS_AUTH_TOKEN", ws_auth_signing_key_env_var |-> "WS_AUTH_SIGNING_KEY",
   ws_auth_token_issuer |-> "", ws_auth_token_audience |-> "",
   openclaw_gateway_url |-> "http://gateway", openclaw_agent_target |-> "openclaw/default",
   openclaw_gateway_token_env_var |-> "OPENCLAW_GATEWAY_TOKEN", kokoro_output_format |-> "pcm_s16le"]

Fields == DOMAIN Default

\* An environment in which exactly the variables of `given` are set.
Variables == Fields \cup {Alias[f] : f \in DOMAIN Alias}
               \cup {"WS_AUTH_TOKEN", "WS_AUTH_SIGNING_KEY", "OPENCLAW_GATEWAY_TOKEN"}

Environment(given) ==
  [v \in Variables |-> IF v \in DOMAIN given THEN given[v] ELSE Unset]

\* str.strip and str.lower, on the texts the instances use.
Strip(text) == CASE text = " "              -> ""
                 [] text = "key "           -> "key"
                 [] text = " Signed-Token " -> "signed-token"
                 [] text = " WS_AUTH_TOKEN" -> "WS_AUTH_TOKEN"
                 [] text = "WS_AUTH_SIGNING_KEY " -> "WS_AUTH_SIGNING_KEY"
                 [] OTHER                   -> text

\* os.getenv(name, "").strip()
Getenv(env, name) ==
  IF name \in Variables /\ env[name] # Unset THEN Strip(env[name]) ELSE ""

\* The same with the blanks around the name taken off; a blank name names no variable.
Secret(env, name) == Getenv(env, Strip(name))

Raw(env, f) == IF env[f] = Unset /\ f \in DOMAIN Alias THEN env[Alias[f]] ELSE env[f]

EnvIntMin(f, raw) == IF raw = NotANumber THEN Refused
                     ELSE IF raw < IntMinimum[f] THEN Refused ELSE raw

EnvChoice(f, raw) == IF Strip(raw) \in Options[f] THEN Strip(raw) ELSE Refused

EnvBool(raw) == Strip(raw) \in {"1", "true", "yes", "on"}

\* Field f of the Settings, or Refused.
Field(env, f) ==
  LET raw == Raw(env, f) IN
  IF raw = Unset THEN Default[f]
  ELSE IF f \in DOMAIN IntMinimum THEN EnvIntMin(f, raw)
  ELSE IF f \in DOMAIN Options THEN EnvChoice(f, raw)
  ELSE IF f \in Booleans THEN EnvBool(raw)
  ELSE IF f \in Numbers /\ raw = NotANumber THEN Refused
  ELSE raw

\* MUTANT of Valid: a signing key that is not set is noticed at the first hello only.
ValidWithoutKey(env, cfg) ==
  /\ cfg.ws_max_audio_chunk_bytes <= cfg.ws_max_buffered_audio_bytes
  /\ ~(cfg.cors_allow_credentials /\ "*" \in cfg.cors_allow_origins)
  /\ cfg.ws_auth_mode = "shared-secret" => Secret(env, cfg.ws_auth_token_env_var) # ""

\* _validate_settings
Valid(env, cfg) ==
  /\ cfg.ws_max_audio_chunk_bytes <= cfg.ws_max_buffered_audio_bytes
  /\ ~(cfg.cors_allow_credentials /\ "*" \in cfg.cors_allow_origins)
  /\ cfg.ws_auth_mode = "shared-secret" => Secret(env, cfg.ws_auth_token_env_var) # ""
  /\ cfg.ws_auth_mode = "signed-token" => Secret(env, cfg.ws_auth_signing_key_env_var) # ""

LoadSettings(env) ==
  LET cfg == [f \in Fields |-> Field(env, f)] IN
  IF (\E f \in Fields : cfg[f] = Refused) \/ ~Valid(env, cfg) THEN Refused ELSE cfg
=============================================================================
