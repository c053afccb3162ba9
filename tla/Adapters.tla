------------------------------ MODULE Adapters ------------------------------
(***************************************************************************)
(* The adapters of a deployment: which ones adapters/factory.py gives a    *)
(* connection, how they load their models at first use, what a turn gets   *)
(* from them one after the other (VoicePipeline.run_turn), and what        *)
(* /v1/readyz says of them.  The host on which the models live may change  *)
(* at any time: packages are installed, model files appear or are damaged. *)
(* Results of adapters are their outcome or the code of the AdapterError   *)
(* they raise; Unmapped is an exception of another kind.                   *)
(***************************************************************************)
EXTENDS Configuration, FiniteSets

CONSTANTS
  Conns,         \* the connections
  Environments,  \* the environments of the deployments considered
  Schemeless     \* the texts urllib.request.Request finds no URL scheme in

\* A variable that should hold a number holds text int() takes, or text it refuses.
ASSUME EnvironmentAssumption ==
  \A e \in Environments, f \in DOMAIN IntMinimum :
    Raw(e, f) \in {Unset, NotANumber} \/ Raw(e, f) \in Int

ASSUME SchemeAssumption == "" \in Schemeless

VARIABLES
  env, cfg,  \* os.environ and the Settings loaded from it
  host,      \* for each optional model: "ok", "missing" package, "broken" model
  bundle,    \* AdapterBundle of a connection: which TTS it got, which models it loaded
  turn,      \* the turn of a connection: the adapter it waits for, its audio
  result     \* history: at which adapter and how the last turn of a connection ended

deployVars == <<env, cfg, host>>
vars == <<env, cfg, host, bundle, turn, result>>

Models == {"vad", "stt", "tts"}  \* silero, faster-whisper, kokoro
Unmapped == "unmapped exception"
SetupErrors == {"MISSING_DEPENDENCY", "CONFIG_ERROR", "MODEL_INIT_FAILED", "unknown url type"}

\* The models of the deployment; the host's state of the others is never looked at.
InUse == {m \in Models : CASE m = "vad" -> cfg.adapter_vad = "silero"
                           [] m = "stt" -> cfg.adapter_stt = "faster-whisper"
                           [] m = "tts" -> cfg.adapter_tts = "kokoro"}

NoTurn == [stage |-> "idle", audio |-> "blank", speech |-> FALSE]

NoResult == [stage |-> "none", code |-> "none"]

Init ==
  /\ env \in Environments
  /\ cfg = LoadSettings(env) /\ cfg # Refused
  /\ host \in [InUse -> {"ok", "missing", "broken"}]
  /\ bundle = [c \in Conns |-> [tts |-> "none", loaded |-> {}]]
  /\ turn = [c \in Conns |-> NoTurn]
  /\ result = [c \in Conns |-> NoResult]

HostChanges ==
  /\ \E m \in InUse, s \in {"ok", "missing", "broken"} : host[m] # s /\ host' = [host EXCEPT ![m] = s]
  /\ UNCHANGED <<env, cfg, bundle, turn, result>>
-----------------------------------------------------------------------------
(***************************************************************************)
(* The factory and the models.                                             *)
(***************************************************************************)
Misconfigured(m) ==
  \/ m = "vad" /\ cfg.silero_sample_rate \notin {8000, 16000}
  \/ m = "tts" /\ cfg.kokoro_output_format # "pcm_s16le"

\* What importing and constructing the model comes to: "ok" or the error's code.
\* The packages are imported first, then the settings are looked at.  numpy counts as
\* one of the packages, though the VAD imports it when its model is loaded already.
Load(m) ==
  IF host[m] = "missing" THEN "MISSING_DEPENDENCY"
  ELSE IF Misconfigured(m) THEN "CONFIG_ERROR"
  ELSE IF host[m] = "broken" THEN "MODEL_INIT_FAILED"
  ELSE "ok"

\* _ensure_model and _ensure_engine: a model that was loaded is kept, a failure is not.
Ensure(c, m) == IF m \in bundle[c].loaded THEN "ok" ELSE Load(m)

\* The connection uses the model: a fallback may have taken the place of Kokoro.
Real(c, m) == m \in InUse /\ (m = "tts" => bundle[c].tts = "kokoro")

\* MUTANT of BuildTts: the fallback is decided at the first synthesis, too late.
BuildTtsUnprobed ==
  IF cfg.adapter_tts = "kokoro" THEN [tts |-> "kokoro", loaded |-> {}]
                                ELSE [tts |-> "deterministic", loaded |-> {}]

\* _build_tts: Kokoro is probed, which loads it; if that fails the deterministic TTS
\* takes its place for as long as the connection lasts, unless that is not allowed.
BuildTts ==
  IF cfg.adapter_tts \in Deterministic THEN [tts |-> "deterministic", loaded |-> {}]
  ELSE IF Load("tts") = "ok"           THEN [tts |-> "kokoro", loaded |-> {"tts"}]
  ELSE IF cfg.kokoro_allow_fallback    THEN [tts |-> "deterministic", loaded |-> {}]
  ELSE [tts |-> "kokoro", loaded |-> {}]

\* build_adapters, called for every connection.
Connect(c) ==
  /\ bundle[c].tts = "none"
  /\ bundle' = [bundle EXCEPT ![c] = BuildTts]
  /\ UNCHANGED <<deployVars, turn, result>>

\* MUTANT of BridgeReady: readyz does not ask for the token.
BridgeReadyUntokened ==
  Strip(cfg.openclaw_gateway_url) # "" /\ Strip(cfg.openclaw_agent_target) # ""

\* _openclaw_bridge_readiness
BridgeReady ==
  /\ Strip(cfg.openclaw_gateway_url) # "" /\ Strip(cfg.openclaw_agent_target) # ""
  /\ cfg.openclaw_gateway_allow_unauthenticated \/ Secret(env, cfg.openclaw_gateway_token_env_var) # ""

\* readiness_payload: what a probe found is not taken into account.
Ready ==
  /\ {cfg.adapter_vad, cfg.adapter_stt, cfg.adapter_tts} \subseteq Deterministic
  /\ cfg.adapter_bridge \in Deterministic \/ BridgeReady
-----------------------------------------------------------------------------
(***************************************************************************)
(* What an adapter may answer a turn.                                      *)
(***************************************************************************)

\* detect_speech: an empty chunk is no speech and loads nothing.
VadResults(c) ==
  IF turn[c].audio = "blank" THEN {"silence"}
  ELSE IF ~Real(c, "vad") THEN {"speech"}
  ELSE IF Ensure(c, "vad") # "ok" THEN {Ensure(c, "vad")}
  ELSE IF turn[c].audio = "odd length" THEN {"BAD_AUDIO_CHUNK"}
  ELSE {"speech", "silence", "UPSTREAM_ERROR"}

\* The only rate transcribe_stream passes on to the model.
RateFits == cfg.audio_sample_rate = 16000

\* transcribe_stream: the model is loaded even if there is nothing to transcribe.
\* The segments are generated while they are read, outside the try.
SttResults(c) ==
  IF ~Real(c, "stt") THEN {"transcript"}
  ELSE IF Ensure(c, "stt") # "ok" THEN {Ensure(c, "stt")}
  ELSE IF ~RateFits THEN {"CONFIG_ERROR"}
  ELSE IF ~turn[c].speech THEN {"transcript"}
  ELSE IF turn[c].audio = "odd length" THEN {"TRANSCRIPTION_FAILED"}
  ELSE {"transcript", "TRANSCRIPTION_FAILED", "EMPTY_TRANSCRIPT", Unmapped}

\* What OpenClawBridge makes of a request once it has been sent, and a transcript
\* longer than the bridge takes.
GatewayResults == {"reply", "INPUT_TOO_LARGE", "TIMEOUT", "AUTH_FAILED", "UNSUPPORTED_API",
                   "UPSTREAM_ERROR", "NETWORK_ERROR", "CONTRACT_MISMATCH", Unmapped}

\* ask.  The prompt is never empty: a turn without speech asks "(no transcript)".
\* Request refuses an address without a scheme with a ValueError nobody catches.
AskResults(c) ==
  IF cfg.adapter_bridge \in Deterministic THEN {"reply"}
  ELSE IF \/ Strip(cfg.openclaw_agent_target) = ""
          \/ /\ Secret(env, cfg.openclaw_gateway_token_env_var) = ""
             /\ ~cfg.openclaw_gateway_allow_unauthenticated
    THEN {"INPUT_TOO_LARGE", "CONFIG_ERROR"}
  ELSE IF Strip(cfg.openclaw_gateway_url) \in Schemeless THEN {"INPUT_TOO_LARGE", "unknown url type"}
  ELSE GatewayResults

\* synthesize_stream: like the segments, the audio is generated outside the try.
TtsResults(c) ==
  IF ~Real(c, "tts") THEN {"audio"}
  ELSE IF Ensure(c, "tts") # "ok" THEN {Ensure(c, "tts")}
  ELSE {"audio", "UPSTREAM_ERROR", "EMPTY_AUDIO", Unmapped}

Results(c) ==
  CASE turn[c].stage = "vad" -> VadResults(c)
    [] turn[c].stage = "stt" -> SttResults(c)
    [] turn[c].stage = "ask" -> AskResults(c)
    [] turn[c].stage = "tts" -> TtsResults(c)
    [] OTHER                 -> {}

After == [speech |-> "stt", silence |-> "stt", transcript |-> "ask", reply |-> "tts", audio |-> "idle"]

\* A turn with audio of one kind; every chunk of it is treated alike.
StartTurn(c) ==
  /\ bundle[c].tts # "none"
  /\ turn[c].stage = "idle"
  /\ \E audio \in {"blank", "odd length", "even length"} :
       turn' = [turn EXCEPT ![c] = [stage |-> "vad", audio |-> audio, speech |-> FALSE]]
  /\ UNCHANGED <<deployVars, bundle, result>>

\* The adapter whose turn it is answers.  Whatever came of the call, a model that
\* it loaded stays; an error ends the turn.
Step(c) ==
  LET stage == turn[c].stage
      asksModel == /\ stage \in Models /\ Real(c, stage)
                   /\ stage = "vad" => turn[c].audio # "blank"
  IN
  /\ \E r \in Results(c) :
       IF r \in DOMAIN After /\ r # "audio"
         THEN /\ turn' = [turn EXCEPT ![c].stage = After[r], ![c].speech = @ \/ r = "speech"]
              /\ UNCHANGED result
         ELSE /\ turn' = [turn EXCEPT ![c] = NoTurn]
              /\ result' = [result EXCEPT ![c] = [stage |-> stage, code |-> r]]
  /\ bundle' = IF asksModel /\ Ensure(c, stage) = "ok"
                 THEN [bundle EXCEPT ![c].loaded = @ \cup {stage}] ELSE bundle
  /\ UNCHANGED deployVars

ConnNext(c) == Connect(c) \/ StartTurn(c) \/ Step(c)

Next == HostChanges \/ \E c \in Conns : ConnNext(c)

Spec == Init /\ [][Next]_vars
-----------------------------------------------------------------------------
Codes == {"none"} \cup DOMAIN After \cup GatewayResults \cup SetupErrors
           \cup {"BAD_AUDIO_CHUNK", "TRANSCRIPTION_FAILED", "EMPTY_TRANSCRIPT", "EMPTY_AUDIO"}

Stages == {"vad", "stt", "ask", "tts"}

AdaptersTypeOK ==
  /\ env \in Environments /\ cfg = LoadSettings(env)
  /\ host \in [InUse -> {"ok", "missing", "broken"}]
  /\ bundle \in [Conns -> [tts : {"none", "deterministic", "kokoro"}, loaded : SUBSET Models]]
  /\ turn \in [Conns -> [stage : Stages \cup {"idle"}, speech : BOOLEAN,
                         audio : {"blank", "odd length", "even length"}]]
  /\ result \in [Conns -> [stage : Stages \cup {"none"}, code : Codes]]

\* The gateway's address is given, but is none: readyz in app.py does not look at it so
\* closely, and every request fails.
NoAddress ==
  /\ cfg.adapter_bridge = "openclaw-gateway"
  /\ Strip(cfg.openclaw_gateway_url) \in Schemeless \ {""}

\* While /v1/readyz says ready=true no turn of any connection fails for want of a
\* package, a model, a setting, a token or an address, whatever the host is like,
\* but for one case: of the gateway's address readyz only checks that it is not blank.
ReadyMeansServing ==
  Ready => \A c \in Conns : result[c].code \in SetupErrors =>
    NoAddress /\ result[c] = [stage |-> "ask", code |-> "unknown url type"]

\* With the fallback allowed no turn is lost because Kokoro cannot be loaded, when
\* the connection was made before Kokoro broke, after it, or while it was missing.
FallbackCoversKokoro ==
  cfg.kokoro_allow_fallback =>
    \A c \in Conns : result[c].stage = "tts" => result[c].code \notin SetupErrors
=============================================================================
