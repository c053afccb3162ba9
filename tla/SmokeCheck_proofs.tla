--------------------------- MODULE SmokeCheck_proofs ---------------------------
(***************************************************************************)
(* Proofs about the adapters of a deployment and the script that checks    *)
(* it, for any environments, connections and command lines: the types,     *)
(* what readyz promises, that a probed Kokoro stays usable, that the       *)
(* script uses the server as any client does, and what its verdict means.  *)
(***************************************************************************)
EXTENDS SmokeCheck, SequenceTheorems, TLAPS

(***************************************************************************)
(* The adapters.                                                           *)
(***************************************************************************)
Adapter == {"none", "deterministic", "kokoro"}
Audio == {"blank", "odd length", "even length"}
Condition == {"ok", "missing", "broken"}

Bundles == [tts : Adapter, loaded : SUBSET Models]
Turns == [stage : Stages \cup {"idle"}, speech : BOOLEAN, audio : Audio]
Outcomes == [stage : Stages \cup {"none"}, code : Codes]

\* A connection that kept Kokoro although it need not has loaded it.
ProbedIsLoaded ==
  cfg.kokoro_allow_fallback =>
    \A c \in Conns : bundle[c].tts = "kokoro" => "tts" \in bundle[c].loaded

\* What one adapter of connection c may answer in the current state.
LEMMA LoadIsCoded ==
  ASSUME AdaptersTypeOK, NEW m \in InUse
  PROVE  Load(m) \in {"ok", "MISSING_DEPENDENCY", "CONFIG_ERROR", "MODEL_INIT_FAILED"}
BY DEF Load

LEMMA EnsureIsCoded ==
  ASSUME NEW c \in Conns, NEW m
  PROVE  Ensure(c, m) \in {"ok", "MISSING_DEPENDENCY", "CONFIG_ERROR", "MODEL_INIT_FAILED"}
BY DEF Ensure, Load

LEMMA ResultsAreCoded ==
  ASSUME NEW c \in Conns, turn[c] \in Turns, NEW r \in Results(c)
  PROVE  r \in Codes \ {"none"} /\ turn[c].stage \in Stages
<1> DEFINE asked == {"ok", "MISSING_DEPENDENCY", "CONFIG_ERROR", "MODEL_INIT_FAILED"}
<1>1. \A m : Ensure(c, m) \in asked
  BY EnsureIsCoded
<1>2. CASE turn[c].stage = "vad"
  <2>1. Results(c) = VadResults(c)
    BY <1>2 DEF Results
  <2> DEFINE e == Ensure(c, "vad")
  <2>2. e \in asked
    BY <1>1
  <2>3. \/ r \in {"silence", "speech", "BAD_AUDIO_CHUNK", "UPSTREAM_ERROR"}
        \/ e # "ok" /\ r = e
    BY <2>1 DEF VadResults
  <2> HIDE DEF e
  <2>4. r \in Codes \ {"none"}
    BY <2>2, <2>3 DEF Codes, After, GatewayResults, SetupErrors
  <2> QED
    BY <1>2, <2>4 DEF Stages
<1>3. CASE turn[c].stage = "stt"
  <2>1. Results(c) = SttResults(c)
    BY <1>3 DEF Results
  <2> DEFINE e == Ensure(c, "stt")
  <2>2. e \in asked
    BY <1>1
  <2>0. turn[c].speech \in BOOLEAN
    BY DEF Turns
  <2>3. \/ r \in {"transcript", "CONFIG_ERROR", "TRANSCRIPTION_FAILED", "EMPTY_TRANSCRIPT", Unmapped}
        \/ e # "ok" /\ r = e
    <3>1. CASE ~Real(c, "stt") \/ e # "ok" \/ ~RateFits
      BY <2>1, <3>1 DEF SttResults
    <3>2. CASE Real(c, "stt") /\ e = "ok" /\ RateFits
      <4>1. SttResults(c) \subseteq
              {"transcript", "TRANSCRIPTION_FAILED", "EMPTY_TRANSCRIPT", Unmapped}
        BY <2>0, <3>2 DEF SttResults
      <4> QED
        BY <2>1, <4>1
    <3> QED
      BY <3>1, <3>2
  <2> HIDE DEF e
  <2>4. r \in Codes \ {"none"}
    BY <2>2, <2>3 DEF Codes, After, GatewayResults, SetupErrors, Unmapped
  <2> QED
    BY <1>3, <2>4 DEF Stages
<1>4. CASE turn[c].stage = "ask"
  <2>1. Results(c) = AskResults(c)
    BY <1>4 DEF Results
  <2>2. r \in {"reply", "INPUT_TOO_LARGE", "CONFIG_ERROR", "unknown url type"} \cup GatewayResults
    BY <2>1 DEF AskResults
  <2> QED
    BY <1>4, <2>2 DEF Codes, After, GatewayResults, SetupErrors, Stages, Unmapped
<1>5. CASE turn[c].stage = "tts"
  <2>1. Results(c) = TtsResults(c)
    BY <1>5 DEF Results
  <2> DEFINE e == Ensure(c, "tts")
  <2>2. e \in asked
    BY <1>1
  <2>3. \/ r \in {"audio", "UPSTREAM_ERROR", "EMPTY_AUDIO", Unmapped}
        \/ e # "ok" /\ r = e
    BY <2>1 DEF TtsResults
  <2> HIDE DEF e
  <2>4. r \in Codes \ {"none"}
    BY <2>2, <2>3 DEF Codes, After, GatewayResults, SetupErrors, Unmapped
  <2> QED
    BY <1>5, <2>4 DEF Stages
<1>6. CASE turn[c].stage = "idle"
  BY <1>6 DEF Results
<1>7. turn[c].stage \in Stages \cup {"idle"}
  BY DEF Turns
<1> QED
  BY <1>2, <1>3, <1>4, <1>5, <1>6, <1>7 DEF Stages
-----------------------------------------------------------------------------
LEMMA InitTypes == Init => AdaptersTypeOK /\ ProbedIsLoaded
<1> SUFFICES ASSUME Init PROVE AdaptersTypeOK /\ ProbedIsLoaded
  OBVIOUS
<1>1. bundle \in [Conns -> Bundles] /\ \A c \in Conns : bundle[c].tts = "none"
  BY DEF Init, Bundles, Adapter
<1>2. turn \in [Conns -> Turns]
  BY DEF Init, Turns, NoTurn, Audio
<1>3. NoResult \in Outcomes
  BY DEF NoResult, Outcomes, Codes
<1>4. result \in [Conns -> Outcomes]
  BY <1>3 DEF Init
<1> QED
  BY <1>1, <1>2, <1>4
  DEF Init, AdaptersTypeOK, ProbedIsLoaded, Bundles, Turns, Outcomes, Adapter, Audio

LEMMA BuiltBundle ==
  /\ BuildTts \in Bundles
  /\ cfg.kokoro_allow_fallback /\ BuildTts.tts = "kokoro" => "tts" \in BuildTts.loaded
BY DEF BuildTts, Bundles, Adapter, Models

LEMMA ConnectTypes ==
  ASSUME AdaptersTypeOK, ProbedIsLoaded, NEW c \in Conns, Connect(c)
  PROVE  AdaptersTypeOK' /\ ProbedIsLoaded'
<1>1. bundle \in [Conns -> Bundles]
  BY DEF AdaptersTypeOK, Bundles, Adapter
<1> DEFINE b == BuildTts
<1>2. b \in Bundles /\ (cfg.kokoro_allow_fallback /\ b.tts = "kokoro" => "tts" \in b.loaded)
  BY BuiltBundle
<1>3. bundle' = [bundle EXCEPT ![c] = b] /\ UNCHANGED <<env, cfg, host, turn, result>>
  BY DEF Connect, deployVars
<1> HIDE DEF b
<1>4. /\ bundle' \in [Conns -> Bundles] /\ bundle'[c] = b
      /\ \A d \in Conns \ {c} : bundle'[d] = bundle[d]
  BY <1>1, <1>2, <1>3
<1>5. AdaptersTypeOK'
  BY <1>3, <1>4 DEF AdaptersTypeOK, Bundles, Adapter, InUse
<1>6. ProbedIsLoaded'
  BY <1>2, <1>3, <1>4 DEF ProbedIsLoaded
<1> QED
  BY <1>5, <1>6

LEMMA StartTypes ==
  ASSUME AdaptersTypeOK, ProbedIsLoaded, NEW c \in Conns, StartTurn(c)
  PROVE  AdaptersTypeOK' /\ ProbedIsLoaded'
<1>1. turn \in [Conns -> Turns]
  BY DEF AdaptersTypeOK, Turns, Audio
<1>2. PICK audio \in Audio :
        turn' = [turn EXCEPT ![c] = [stage |-> "vad", audio |-> audio, speech |-> FALSE]]
  BY DEF StartTurn, Audio
<1>3. [stage |-> "vad", audio |-> audio, speech |-> FALSE] \in Turns
  BY DEF Turns, Stages
<1>4. turn' \in [Conns -> Turns]
  BY <1>1, <1>2, <1>3
<1>5. UNCHANGED <<env, cfg, host, bundle, result>>
  BY DEF StartTurn, deployVars
<1> QED
  BY <1>4, <1>5 DEF AdaptersTypeOK, ProbedIsLoaded, Turns, Audio, InUse

\* What a step leaves of the connection's bundle, turn and result.
LEMMA StepShape ==
  ASSUME AdaptersTypeOK, NEW c \in Conns, Step(c)
  PROVE  /\ UNCHANGED <<env, cfg, host>>
         /\ turn' \in [Conns -> Turns]
         /\ bundle' \in [Conns -> Bundles]
         /\ \A d \in Conns : /\ bundle'[d].tts = bundle[d].tts
                             /\ bundle[d].loaded \subseteq bundle'[d].loaded
         /\ \/ result' = result
            \/ \E r \in Results(c) :
                 result' = [result EXCEPT ![c] = [stage |-> turn[c].stage, code |-> r]]
<1>1. /\ turn \in [Conns -> Turns] /\ bundle \in [Conns -> Bundles]
      /\ turn[c].stage \in Stages \cup {"idle"}
  BY DEF AdaptersTypeOK, Turns, Audio, Bundles, Adapter
<1>2. UNCHANGED <<env, cfg, host>>
  BY DEF Step, deployVars
<1>3. PICK r \in Results(c) :
        IF r \in DOMAIN After /\ r # "audio"
          THEN /\ turn' = [turn EXCEPT ![c].stage = After[r], ![c].speech = @ \/ r = "speech"]
               /\ UNCHANGED result
          ELSE /\ turn' = [turn EXCEPT ![c] = NoTurn]
               /\ result' = [result EXCEPT ![c] = [stage |-> turn[c].stage, code |-> r]]
  BY DEF Step
<1>4. NoTurn \in Turns
  BY DEF NoTurn, Turns, Audio
<1>5. turn' \in [Conns -> Turns]
  <2>1. CASE r \in DOMAIN After /\ r # "audio"
    <3>1. After[r] \in Stages \cup {"idle"}
      BY <2>1 DEF After, Stages
    <3> DEFINE next == After[r]
               t == [turn[c] EXCEPT !.stage = next, !.speech = @ \/ r = "speech"]
    <3>2. turn' = [turn EXCEPT ![c] = t]
      BY <1>3, <2>1
    <3>3. next \in Stages \cup {"idle"}
      BY <3>1
    <3> HIDE DEF next
    <3>4. t \in Turns
      BY <1>1, <3>3 DEF Turns
    <3> HIDE DEF t
    <3> QED
      BY <1>1, <3>2, <3>4
  <2>2. CASE ~(r \in DOMAIN After /\ r # "audio")
    BY <1>1, <1>3, <1>4, <2>2
  <2> QED
    BY <2>1, <2>2
<1>6. \/ bundle' = bundle
      \/ bundle' = [bundle EXCEPT ![c].loaded = @ \cup {turn[c].stage}] /\ turn[c].stage \in Models
  BY DEF Step
<1>7. /\ bundle' \in [Conns -> Bundles]
      /\ \A d \in Conns : /\ bundle'[d].tts = bundle[d].tts
                          /\ bundle[d].loaded \subseteq bundle'[d].loaded
  <2>1. CASE bundle' = bundle
    BY <1>1, <2>1
  <2>2. CASE bundle' = [bundle EXCEPT ![c].loaded = @ \cup {turn[c].stage}] /\ turn[c].stage \in Models
    <3> DEFINE b == [bundle[c] EXCEPT !.loaded = @ \cup {turn[c].stage}]
    <3>1. bundle' = [bundle EXCEPT ![c] = b]
      BY <2>2
    <3>2. b \in Bundles /\ b.tts = bundle[c].tts /\ bundle[c].loaded \subseteq b.loaded
      BY <1>1, <2>2 DEF Bundles
    <3> HIDE DEF b
    <3> QED
      BY <1>1, <3>1, <3>2
  <2> QED
    BY <1>6, <2>1, <2>2
<1>8. \/ result' = result
      \/ \E s \in Results(c) :
           result' = [result EXCEPT ![c] = [stage |-> turn[c].stage, code |-> s]]
  BY <1>3
<1> QED
  BY <1>2, <1>5, <1>7, <1>8

LEMMA StepTypes ==
  ASSUME AdaptersTypeOK, ProbedIsLoaded, NEW c \in Conns, Step(c)
  PROVE  AdaptersTypeOK' /\ ProbedIsLoaded'
<1>1. result \in [Conns -> Outcomes] /\ turn \in [Conns -> Turns]
  BY DEF AdaptersTypeOK, Outcomes, Turns, Audio
<1>2. result' \in [Conns -> Outcomes]
  <2>1. ASSUME NEW r \in Results(c),
               result' = [result EXCEPT ![c] = [stage |-> turn[c].stage, code |-> r]]
        PROVE  result' \in [Conns -> Outcomes]
    <3>1. r \in Codes /\ turn[c].stage \in Stages
      BY <1>1, <2>1, ResultsAreCoded
    <3>2. [stage |-> turn[c].stage, code |-> r] \in Outcomes
      BY <3>1 DEF Outcomes
    <3> QED
      BY <1>1, <2>1, <3>2
  <2> QED
    BY <1>1, <2>1, StepShape
<1>3. AdaptersTypeOK'
  <2>1. bundle' \in [Conns -> Bundles] /\ turn' \in [Conns -> Turns] /\ UNCHANGED <<env, cfg, host>>
    BY StepShape
  <2>2. InUse' = InUse
    BY <2>1 DEF InUse
  <2>3. /\ env' \in Environments /\ cfg' = LoadSettings(env')
        /\ host' \in [InUse' -> {"ok", "missing", "broken"}]
    BY <2>1, <2>2 DEF AdaptersTypeOK
  <2> QED
    BY <1>2, <2>1, <2>3 DEF AdaptersTypeOK, Bundles, Turns, Outcomes, Adapter, Audio
<1>4. ProbedIsLoaded'
  BY StepShape DEF ProbedIsLoaded
<1> QED
  BY <1>3, <1>4

LEMMA NextTypes ==
  ASSUME AdaptersTypeOK, ProbedIsLoaded, [Next]_vars
  PROVE  AdaptersTypeOK' /\ ProbedIsLoaded' /\ UNCHANGED <<env, cfg>>
<1>1. CASE HostChanges
  <2>1. host' \in [InUse -> Condition] /\ UNCHANGED <<env, cfg, bundle, turn, result>>
    BY <1>1 DEF HostChanges, AdaptersTypeOK, Condition
  <2> QED
    BY <2>1 DEF AdaptersTypeOK, ProbedIsLoaded, InUse, Condition
<1>2. ASSUME NEW c \in Conns, ConnNext(c)
      PROVE  AdaptersTypeOK' /\ ProbedIsLoaded' /\ UNCHANGED <<env, cfg>>
  <2>1. UNCHANGED <<env, cfg>>
    BY <1>2 DEF ConnNext, Connect, StartTurn, Step, deployVars
  <2> QED
    BY <1>2, <2>1, ConnectTypes, StartTypes, StepTypes DEF ConnNext
<1>3. CASE UNCHANGED vars
  BY <1>3 DEF vars, deployVars, AdaptersTypeOK, ProbedIsLoaded, InUse
<1> QED
  BY <1>1, <1>2, <1>3 DEF Next

\* Bundles, turns and results stay what the adapters make them; a Kokoro kept after
\* its probe is loaded.
THEOREM AdaptersTypeCorrect == Spec => [](AdaptersTypeOK /\ ProbedIsLoaded)
BY InitTypes, NextTypes, PTL DEF Spec
-----------------------------------------------------------------------------
LEMMA BridgeIsChosen ==
  ASSUME AdaptersTypeOK, cfg # Refused
  PROVE  cfg.adapter_bridge \in Deterministic \cup {"openclaw-gateway"}
<1> DEFINE f == "adapter_bridge"
           value == Field(env, f)
<1>1. f \in Fields /\ f \in DOMAIN Options /\ f \notin DOMAIN IntMinimum
  BY DEF Fields, Default, Options, IntMinimum
<1>2. cfg.adapter_bridge = value /\ value # Refused
  BY <1>1 DEF AdaptersTypeOK, LoadSettings
<1>3. value \in {Default.adapter_bridge, EnvChoice(f, Raw(env, f))}
  BY <1>1 DEF Field
<1>4. Default.adapter_bridge = "deterministic"
  BY DEF Default
<1>5. Options.adapter_bridge = Deterministic \cup {"openclaw-gateway"}
  BY DEF Options
<1>6. EnvChoice(f, Raw(env, f)) \in Options[f] \cup {Refused}
  BY DEF EnvChoice
<1> HIDE DEF value
<1> QED
  BY <1>2, <1>3, <1>4, <1>5, <1>6 DEF Deterministic

LEMMA ReadyAnswers ==
  ASSUME AdaptersTypeOK, cfg # Refused, Ready, NEW c \in Conns, NEW r \in Results(c)
  PROVE  r \in SetupErrors => NoAddress /\ turn[c].stage = "ask" /\ r = "unknown url type"
<1>1. \A m \in Models : ~Real(c, m)
  BY DEF Ready, Deterministic, Real, InUse, Models
<1>2. ~Real(c, "vad") /\ ~Real(c, "stt") /\ ~Real(c, "tts")
  BY <1>1 DEF Models
<1>3. CASE turn[c].stage = "ask"
  <2>1. \/ AskResults(c) \subseteq {"reply"} \cup GatewayResults
        \/ /\ AskResults(c) = {"INPUT_TOO_LARGE", "unknown url type"}
           /\ Strip(cfg.openclaw_gateway_url) \in Schemeless
           /\ cfg.adapter_bridge \notin Deterministic
    BY DEF Ready, BridgeReady, AskResults
  <2>2. cfg.adapter_bridge \in Deterministic \cup {"openclaw-gateway"}
    BY BridgeIsChosen
  <2>3. cfg.adapter_bridge \notin Deterministic => Strip(cfg.openclaw_gateway_url) # ""
    BY DEF Ready, BridgeReady
  <2> QED
    BY <1>3, <2>1, <2>2, <2>3 DEF Results, GatewayResults, SetupErrors, Unmapped, NoAddress
<1>4. CASE turn[c].stage # "ask"
  BY <1>2, <1>4 DEF Results, VadResults, SttResults, TtsResults, SetupErrors
<1> QED
  BY <1>3, <1>4

LEMMA ReadyStep ==
  ASSUME AdaptersTypeOK, cfg # Refused, ReadyMeansServing, [Next]_vars, UNCHANGED <<env, cfg>>
  PROVE  ReadyMeansServing'
<1>1. Ready' = Ready /\ NoAddress' = NoAddress
  BY DEF Ready, BridgeReady, NoAddress
<1>2. CASE UNCHANGED result
  BY <1>1, <1>2 DEF ReadyMeansServing
<1>3. ASSUME NEW c \in Conns, Step(c) PROVE ReadyMeansServing'
  <2>1. CASE result' = result
    BY <1>1, <2>1 DEF ReadyMeansServing
  <2>2. ASSUME NEW r \in Results(c),
               result' = [result EXCEPT ![c] = [stage |-> turn[c].stage, code |-> r]]
        PROVE  ReadyMeansServing'
    <3>1. result \in [Conns -> Outcomes]
      BY DEF AdaptersTypeOK, Outcomes
    <3>2. /\ result'[c] = [stage |-> turn[c].stage, code |-> r]
          /\ \A d \in Conns \ {c} : result'[d] = result[d]
      BY <2>2, <3>1
    <3>3. Ready /\ r \in SetupErrors => NoAddress /\ turn[c].stage = "ask" /\ r = "unknown url type"
      BY ReadyAnswers
    <3>4. result'[c].code = r /\ result'[c].stage = turn[c].stage
      BY <3>2
    <3>5. ASSUME Ready, NEW d \in Conns, result'[d].code \in SetupErrors
          PROVE  NoAddress /\ result'[d] = [stage |-> "ask", code |-> "unknown url type"]
      <4>1. CASE d = c
        BY <3>2, <3>3, <3>4, <3>5, <4>1
      <4>2. CASE d # c
        BY <3>2, <3>5, <4>2 DEF ReadyMeansServing
      <4> QED
        BY <4>1, <4>2
    <3> QED
      BY <1>1, <3>5 DEF ReadyMeansServing, SetupErrors
  <2> QED
    BY <1>3, <2>1, <2>2, StepShape
<1> QED
  BY <1>2, <1>3 DEF Next, ConnNext, HostChanges, Connect, StartTurn, vars

\* While readyz says ready, no turn fails for want of something readyz could have known,
\* but for a gateway address without a scheme.
THEOREM ReadyServes == Spec => []ReadyMeansServing
<1>1. Init => cfg # Refused /\ ReadyMeansServing
  <2>1. Init => \A c \in Conns : result[c].code = "none"
    BY DEF Init, NoResult
  <2>2. Init => cfg # Refused
    BY DEF Init
  <2> QED
    BY <2>1, <2>2 DEF ReadyMeansServing, SetupErrors
<1>2. cfg # Refused /\ UNCHANGED <<env, cfg>> => (cfg # Refused)'
  OBVIOUS
<1> QED
  BY <1>1, <1>2, ReadyStep, NextTypes, AdaptersTypeCorrect, PTL DEF Spec
-----------------------------------------------------------------------------
LEMMA SpeaksAnyway ==
  ASSUME ProbedIsLoaded, cfg.kokoro_allow_fallback, NEW c \in Conns, turn[c].stage = "tts",
         NEW r \in Results(c)
  PROVE  r \notin SetupErrors
<1>1. Results(c) = TtsResults(c)
  BY DEF Results
<1>2. Real(c, "tts") => Ensure(c, "tts") = "ok"
  BY DEF Real, Ensure, ProbedIsLoaded
<1> QED
  BY <1>1, <1>2 DEF TtsResults, SetupErrors, Unmapped

LEMMA FallbackStep ==
  ASSUME AdaptersTypeOK, ProbedIsLoaded, FallbackCoversKokoro, [Next]_vars, UNCHANGED <<env, cfg>>
  PROVE  FallbackCoversKokoro'
<1>1. CASE UNCHANGED result
  BY <1>1 DEF FallbackCoversKokoro
<1>2. ASSUME NEW c \in Conns, Step(c) PROVE FallbackCoversKokoro'
  <2>1. CASE result' = result
    BY <2>1 DEF FallbackCoversKokoro
  <2>2. ASSUME NEW r \in Results(c),
               result' = [result EXCEPT ![c] = [stage |-> turn[c].stage, code |-> r]]
        PROVE  FallbackCoversKokoro'
    <3>1. result \in [Conns -> Outcomes]
      BY DEF AdaptersTypeOK, Outcomes
    <3>2. /\ result'[c].code = r /\ result'[c].stage = turn[c].stage
          /\ \A d \in Conns \ {c} : result'[d] = result[d]
      BY <2>2, <3>1
    <3>3. cfg.kokoro_allow_fallback /\ turn[c].stage = "tts" => r \notin SetupErrors
      BY SpeaksAnyway
    <3> QED
      BY <3>2, <3>3 DEF FallbackCoversKokoro
  <2> QED
    BY <1>2, <2>1, <2>2, StepShape
<1> QED
  BY <1>1, <1>2 DEF Next, ConnNext, HostChanges, Connect, StartTurn, vars

\* With the fallback allowed, no turn is lost because Kokoro cannot be loaded, whenever
\* it breaks or is repaired.
THEOREM FallbackCovers == Spec => []FallbackCoversKokoro
<1>1. Init => FallbackCoversKokoro
  BY DEF Init, NoResult, FallbackCoversKokoro
<1> QED
  BY <1>1, FallbackStep, NextTypes, AdaptersTypeCorrect, PTL DEF Spec

-----------------------------------------------------------------------------
(***************************************************************************)
(* The script: what it knows in each place, and what is on its way to it.  *)
(***************************************************************************)
ServerEvents == {"session.ready", "session.error", "session.done", "stt.partial", "stt.final",
                 "agent.reply", "audio.output.chunk"}

BeforeConnecting == {"health", "ready", "static", "connect"}
Places == BeforeConnecting \cup {"hello", "hello ack", "send", "receive", "passed", "failed"}

SmokeTypeOK ==
  /\ smoke \in [pc : Places, ok : BOOLEAN, args : Arguments]
  /\ inbox \in Seq(ServerEvents)
  /\ received \in Seq(ServerEvents)

\* From the check of readyz on, the script goes on only if it saw a ready deployment
\* or was told not to care.
ReadinessSeen ==
  \/ smoke.pc = "static" /\ smoke.ok
  \/ smoke.pc \notin {"health", "ready", "static", "failed"}
  => smoke.args.allow_not_ready \/ Ready

\* The one turn of the script: it has not begun, it is in the pipeline and nothing
\* was sent, or its result tells what was.
ScriptTurn ==
  /\ smoke.pc \in BeforeConnecting \cup {"hello", "send"} => inbox = <<>>
  /\ smoke.pc \in BeforeConnecting \cup {"hello", "hello ack", "send"} =>
       turn[Script].stage = "idle" /\ received = <<>>
  /\ smoke.pc \in {"hello", "hello ack", "send"} => bundle[Script].tts # "none"
  /\ smoke.pc = "receive" =>
       \/ turn[Script].stage # "idle" /\ inbox = <<>> /\ received = <<>>
       \/ /\ turn[Script].stage = "idle"
          /\ \/ result[Script].code = "audio"
             \/ received = <<>> /\ (inbox = <<>> \/ Head(inbox) = "session.error")
  /\ smoke.pc = "passed" /\ ~smoke.args.hello_only =>
       turn[Script].stage = "idle" /\ result[Script].code = "audio"

SmokeInv == AdaptersTypeOK /\ ProbedIsLoaded /\ SmokeTypeOK /\ ReadinessSeen /\ ScriptTurn

\* A deployment of deterministic adapters.
Plain ==
  {cfg.adapter_vad, cfg.adapter_stt, cfg.adapter_tts, cfg.adapter_bridge} \subseteq Deterministic

\* What it sends in a turn, in buffered and in streaming mode.
Sequences ==
  {<<"stt.final", "agent.reply", "audio.output.chunk", "session.done">>,
   <<"stt.partial", "stt.final", "agent.reply", "audio.output.chunk", "session.done">>}

\* The script has received the first events of such a turn, the others are to come.
SequenceUnderway ==
  \E events \in Sequences : \E n \in 0..(Len(events) - 1) :
    received = SubSeq(events, 1, n) /\ inbox = SubSeq(events, n + 1, Len(events))

\* Let in by such a deployment, the script has nothing to complain of.
NoComplaint ==
  /\ smoke.pc \in {"health", "ready", "static"} => smoke.ok
  /\ smoke.pc = "hello ack" => inbox = <<"session.ready">>
  /\ bundle[Script].tts # "kokoro"
  /\ smoke.pc = "receive" =>
       IF turn[Script].stage = "idle" THEN SequenceUnderway
                                      ELSE turn[Script].audio = "odd length"

PlainRun == cfg # Refused /\ (Plain /\ Admitted => NoComplaint)
-----------------------------------------------------------------------------
\* Without a turn the pipeline has nothing to do.
LEMMA IdleIsQuiet == turn[Script].stage = "idle" => ~Step(Script)
BY DEF Step, Results

LEMMA OthersLeaveScript ==
  ASSUME AdaptersTypeOK, OthersNext
  PROVE  /\ turn'[Script] = turn[Script] /\ result'[Script] = result[Script]
         /\ bundle'[Script] = bundle[Script]
<1>1. /\ turn \in [Conns -> Turns] /\ result \in [Conns -> Outcomes]
      /\ bundle \in [Conns -> Bundles]
  BY DEF AdaptersTypeOK, Turns, Audio, Outcomes, Bundles, Adapter
<1>2. CASE HostChanges
  BY <1>2 DEF HostChanges
<1>3. ASSUME NEW c \in Conns \ {Script}, Connect(c) \/ StartTurn(c)
      PROVE  /\ turn'[Script] = turn[Script] /\ result'[Script] = result[Script]
             /\ bundle'[Script] = bundle[Script]
  BY <1>1, <1>3, SmokeAssumption DEF Connect, StartTurn
<1>4. ASSUME NEW c \in Conns \ {Script}, Step(c)
      PROVE  /\ turn'[Script] = turn[Script] /\ result'[Script] = result[Script]
             /\ bundle'[Script] = bundle[Script]
  <2>1. \/ result' = result
        \/ \E new : result' = [result EXCEPT ![c] = new]
    BY <1>4 DEF Step
  <2>2. \E next, spoken : turn' = [turn EXCEPT ![c].stage = next, ![c].speech = @ \/ spoken]
                          \/ turn' = [turn EXCEPT ![c] = next]
    <3>1. PICK r \in Results(c) :
            \/ turn' = [turn EXCEPT ![c].stage = After[r], ![c].speech = @ \/ r = "speech"]
            \/ turn' = [turn EXCEPT ![c] = NoTurn]
      BY <1>4 DEF Step
    <3> QED
      BY <3>1
  <2>3. bundle' = bundle \/ \E new : bundle' = [bundle EXCEPT ![c].loaded = new]
    BY <1>4 DEF Step
  <2> QED
    BY <1>1, <2>1, <2>2, <2>3, SmokeAssumption
<1> QED
  BY <1>2, <1>3, <1>4 DEF OthersNext, ConnNext

\* One answer of an adapter to the script's turn.
LEMMA AnswerToScript ==
  ASSUME AdaptersTypeOK, Step(Script)
  PROVE  /\ turn[Script].stage # "idle"
         /\ bundle'[Script].tts = bundle[Script].tts
         /\ \E r \in Results(Script) :
              \/ /\ turn'[Script] # NoTurn /\ turn'[Script].stage # "idle"
                 /\ turn'[Script].audio = turn[Script].audio
                 /\ UNCHANGED result
              \/ /\ turn'[Script] = NoTurn /\ result'[Script].code = r
                 /\ r \notin {"speech", "silence", "transcript", "reply"}
<1>1. turn \in [Conns -> Turns] /\ result \in [Conns -> Outcomes] /\ Script \in Conns
  BY SmokeAssumption DEF AdaptersTypeOK, Turns, Audio, Outcomes
<1>2. PICK r \in Results(Script) :
        IF r \in DOMAIN After /\ r # "audio"
          THEN /\ turn' = [turn EXCEPT ![Script].stage = After[r],
                                       ![Script].speech = @ \/ r = "speech"]
               /\ UNCHANGED result
          ELSE /\ turn' = [turn EXCEPT ![Script] = NoTurn]
               /\ result' = [result EXCEPT ![Script] = [stage |-> turn[Script].stage, code |-> r]]
  BY DEF Step
<1>3. CASE r \in DOMAIN After /\ r # "audio"
  <2>1. After[r] \in {"stt", "ask", "tts"}
    BY <1>3 DEF After
  <2>2. UNCHANGED result /\ turn' = [turn EXCEPT ![Script].stage = After[r],
                                                 ![Script].speech = @ \/ r = "speech"]
    BY <1>2, <1>3
  <2> DEFINE next == After[r]
  <2>3. next # "idle" /\ turn' = [turn EXCEPT ![Script].stage = next,
                                              ![Script].speech = @ \/ r = "speech"]
    BY <2>1, <2>2
  <2> HIDE DEF next
  <2>4. turn'[Script].stage = next /\ turn'[Script].audio = turn[Script].audio
    <3> DEFINE t == [turn[Script] EXCEPT !.stage = next, !.speech = @ \/ r = "speech"]
    <3>1. turn' = [turn EXCEPT ![Script] = t]
      BY <2>3
    <3>2. t.stage = next /\ t.audio = turn[Script].audio
      BY <1>1 DEF Turns
    <3> HIDE DEF t
    <3> QED
      BY <1>1, <3>1, <3>2
  <2>5. turn'[Script] # NoTurn
    <3>1. NoTurn.stage = "idle"
      BY DEF NoTurn
    <3> QED
      BY <2>3, <2>4, <3>1
  <2> QED
    BY <2>2, <2>3, <2>4, <2>5, IdleIsQuiet, StepShape, <1>1
<1>4. CASE ~(r \in DOMAIN After /\ r # "audio")
  <2>1. r \notin {"speech", "silence", "transcript", "reply"}
    BY <1>4 DEF After
  <2>2. turn'[Script] = NoTurn /\ result'[Script].code = r
    BY <1>1, <1>2, <1>4
  <2> QED
    BY <2>1, <2>2, IdleIsQuiet, StepShape, <1>1
<1> QED
  BY <1>3, <1>4

\* The script's turn is let in.
Begun ==
  /\ turn' = [turn EXCEPT ![Script] = [stage |-> "vad", audio |-> "odd length", speech |-> FALSE]]
  /\ UNCHANGED inbox

\* What the script does to the server it could do as any client of it.
LEMMA SmokeStepIsStep ==
  ASSUME SmokeInv, [SmokeNext]_smokeVars
  PROVE  [Next]_vars
<1>1. CASE SendTurn /\ Begun
  <2>1. bundle[Script].tts # "none" /\ turn[Script].stage = "idle"
    BY <1>1 DEF SendTurn, ScriptGoes, SmokeInv, ScriptTurn
  <2>2. StartTurn(Script)
    BY <1>1, <2>1 DEF SendTurn, Begun, StartTurn
  <2> QED
    BY <2>2, SmokeAssumption DEF Next, ConnNext
<1>2. CASE SendTurn /\ ~Begun
  BY <1>2 DEF SendTurn, Begun, vars, deployVars
<1>3. CASE OpenSocket \/ ServerStep
  BY <1>3, SmokeAssumption DEF OpenSocket, ServerStep, Next, ConnNext
<1>4. CASE CheckHealth \/ CheckReady \/ CheckStatic \/ Hello \/ HelloAck \/ ReceiveEvent \/ TimesOut
  BY <1>4 DEF CheckHealth, CheckReady, CheckStatic, HttpCheck, Hello, HelloAck, ReceiveEvent,
     TimesOut
<1>5. CASE OthersNext
  BY <1>5 DEF OthersNext, Next
<1>6. CASE UNCHANGED smokeVars
  BY <1>6 DEF smokeVars
<1> QED
  BY <1>1, <1>2, <1>3, <1>4, <1>5, <1>6 DEF SmokeNext, ScriptStep

\* Sequences of one and of two events.
LEMMA ShortSequences ==
  /\ <<>> \in Seq(ServerEvents)
  /\ \A a \in ServerEvents : <<a>> \in Seq(ServerEvents)
  /\ \A a, b \in ServerEvents :
       <<a, b>> \in Seq(ServerEvents) /\ <<a, b>> # <<>> /\ Head(<<a, b>>) = a
OBVIOUS

\* The events of a turn.
LEMMA EventsTyping ==
  ASSUME NEW code
  PROVE  \A events \in TurnEvents(code) :
           /\ events \in Seq(ServerEvents)
           /\ code # "audio" => events # <<>> /\ Head(events) = "session.error"
<1>1. CASE code # "audio"
  <2>1. TurnEvents(code) = {<<"session.error", "session.done">>}
    BY <1>1 DEF TurnEvents
  <2>2. "session.error" \in ServerEvents /\ "session.done" \in ServerEvents
    BY DEF ServerEvents
  <2> QED
    BY <1>1, <2>1, <2>2, ShortSequences
<1>2. CASE code = "audio"
  <2> DEFINE partial == IF cfg.ws_processing_mode = "streaming" THEN <<"stt.partial">> ELSE <<>>
             texts == <<"stt.final", "agent.reply">>
             chunks(n) == [i \in 1..n |-> "audio.output.chunk"]
  <2>1. \A events \in TurnEvents(code) :
          \E n \in Nat : events = partial \o texts \o chunks(n) \o <<"session.done">>
    <3>1. 1..(IF bundle[Script].tts = "kokoro" THEN MaxAudio ELSE 1) \subseteq Nat
      BY SmokeAssumption
    <3> QED
      BY <1>2, <3>1 DEF TurnEvents
  <2>2. partial \in Seq(ServerEvents) /\ texts \in Seq(ServerEvents)
        /\ <<"session.done">> \in Seq(ServerEvents)
    <3>1. {"stt.partial", "stt.final", "agent.reply", "session.done"} \subseteq ServerEvents
      BY DEF ServerEvents
    <3> QED
      BY <3>1, ShortSequences
  <2>3. \A n \in Nat : chunks(n) \in Seq(ServerEvents)
    <3> SUFFICES ASSUME NEW n \in Nat PROVE chunks(n) \in Seq(ServerEvents)
      OBVIOUS
    <3>1. chunks(n) \in [1..n -> ServerEvents]
      BY DEF ServerEvents
    <3> QED
      BY <3>1, SeqDef
  <2> HIDE DEF partial, texts, chunks
  <2>4. \A p, q \in Seq(ServerEvents) : p \o q \in Seq(ServerEvents)
    BY ConcatProperties
  <2>5. \A n \in Nat : partial \o texts \o chunks(n) \o <<"session.done">> \in Seq(ServerEvents)
    BY <2>2, <2>3, <2>4
  <2> QED
    BY <1>2, <2>1, <2>5
<1> QED
  BY <1>1, <1>2

LEMMA SmokeInitInv == SmokeInit => SmokeInv
<1> SUFFICES ASSUME SmokeInit PROVE SmokeInv
  OBVIOUS
<1>1. AdaptersTypeOK /\ ProbedIsLoaded
  BY InitTypes DEF SmokeInit
<1>2. PICK a \in Arguments : smoke = [pc |-> "health", ok |-> TRUE, args |-> a]
  BY DEF SmokeInit
<1>3. inbox = <<>> /\ received = <<>> /\ turn[Script].stage = "idle"
  BY SmokeAssumption DEF SmokeInit, Init, NoTurn
<1>4. SmokeTypeOK
  BY <1>2, <1>3, EmptySeq DEF SmokeTypeOK, Places, BeforeConnecting
<1> QED
  BY <1>1, <1>2, <1>3, <1>4 DEF SmokeInv, ReadinessSeen, ScriptTurn, BeforeConnecting

\* The script moves on, or not; its arguments never change.
LEMMA SmokeTypes ==
  ASSUME SmokeInv, [SmokeNext]_smokeVars
  PROVE  SmokeTypeOK' /\ smoke'.args = smoke.args
<1> USE DEF SmokeInv, SmokeTypeOK
<1>1. smoke' \in [pc : Places, ok : BOOLEAN, args : Arguments] /\ smoke'.args = smoke.args
  <2>1. CASE CheckHealth
    BY <2>1 DEF CheckHealth, HttpCheck, Places, BeforeConnecting
  <2>2. CASE CheckReady
    BY <2>2 DEF CheckReady, HttpCheck, Places, BeforeConnecting
  <2>3. CASE CheckStatic
    BY <2>3 DEF CheckStatic, HttpCheck, Places, BeforeConnecting
  <2>4. CASE OpenSocket \/ Hello \/ HelloAck \/ SendTurn \/ ReceiveEvent \/ TimesOut
    <3>1. UNCHANGED smoke \/ \E pc \in Places : smoke' = [smoke EXCEPT !.pc = pc]
      BY <2>4 DEF OpenSocket, Hello, HelloAck, SendTurn, ReceiveEvent, TimesOut, ScriptGoes, Places
    <3> QED
      BY <3>1
  <2>5. CASE ServerStep \/ OthersNext \/ UNCHANGED smokeVars
    BY <2>5 DEF ServerStep, OthersNext, smokeVars
  <2> QED
    BY <2>1, <2>2, <2>3, <2>4, <2>5 DEF SmokeNext, ScriptStep
<1>2. inbox' \in Seq(ServerEvents)
  <2>1. CASE CheckHealth \/ CheckReady \/ CheckStatic \/ OpenSocket \/ TimesOut \/ OthersNext
             \/ UNCHANGED smokeVars
    BY <2>1 DEF CheckHealth, CheckReady, CheckStatic, HttpCheck, OpenSocket, TimesOut, OthersNext,
       smokeVars
  <2>2. CASE Hello \/ HelloAck \/ SendTurn
    <3>1. inbox' \in {inbox, <<>>, <<"session.error">>, <<"session.ready">>}
      BY <2>2 DEF Hello, HelloAnswer, HelloAck, SendTurn
    <3>2. "session.error" \in ServerEvents /\ "session.ready" \in ServerEvents
      BY DEF ServerEvents
    <3> QED
      BY <3>1, <3>2, ShortSequences
  <2>3. CASE ServerStep
    BY <2>3, EventsTyping DEF ServerStep
  <2>4. CASE ReceiveEvent
    BY <2>4, HeadTailProperties DEF ReceiveEvent
  <2> QED
    BY <2>1, <2>2, <2>3, <2>4 DEF SmokeNext, ScriptStep
<1>3. received' \in Seq(ServerEvents)
  <2>1. CASE ReceiveEvent
    <3>1. Head(inbox) \in ServerEvents
      BY <2>1, HeadTailProperties DEF ReceiveEvent
    <3> QED
      BY <2>1, <3>1, AppendProperties DEF ReceiveEvent
  <2>2. CASE ~ReceiveEvent
    <3>1. UNCHANGED received
      BY <2>2 DEF SmokeNext, ScriptStep, CheckHealth, CheckReady, CheckStatic, HttpCheck,
         OpenSocket,
         Hello, HelloAck, SendTurn, TimesOut, ServerStep, OthersNext, smokeVars
    <3> QED
      BY <3>1
  <2> QED
    BY <2>1, <2>2
<1> QED
  BY <1>1, <1>2, <1>3

LEMMA ReadinessStep ==
  ASSUME SmokeInv, [SmokeNext]_smokeVars
  PROVE  ReadinessSeen'
<1>1. Ready' = Ready /\ smoke'.args = smoke.args
  <2>1. UNCHANGED <<env, cfg>>
    BY SmokeStepIsStep, NextTypes DEF SmokeInv
  <2> QED
    BY <2>1, SmokeTypes DEF Ready, BridgeReady
<1> USE <1>1 DEF SmokeInv, SmokeTypeOK, ReadinessSeen
<1>2. CASE CheckHealth
  BY <1>2 DEF CheckHealth, HttpCheck
<1>3. CASE CheckReady
  BY <1>3 DEF CheckReady, HttpCheck
<1>4. CASE CheckStatic
  BY <1>4 DEF CheckStatic, HttpCheck
<1>5. CASE OpenSocket \/ Hello \/ HelloAck \/ SendTurn \/ ReceiveEvent
  <2>1. /\ smoke.pc \in {"connect", "hello", "hello ack", "send", "receive"}
        /\ smoke' = smoke \/ \E pc \in Places \ BeforeConnecting : smoke' = [smoke EXCEPT !.pc = pc]
    BY <1>5 DEF OpenSocket, Hello, HelloAck, SendTurn, ReceiveEvent, ScriptGoes, Places,
       BeforeConnecting
  <2> QED
    BY <2>1 DEF BeforeConnecting
<1>6. CASE TimesOut
  BY <1>6 DEF TimesOut
<1>7. CASE ServerStep \/ OthersNext \/ UNCHANGED smokeVars
  <2>1. UNCHANGED smoke
    BY <1>7 DEF ServerStep, OthersNext, smokeVars
  <2> QED
    BY <2>1
<1> QED
  BY <1>2, <1>3, <1>4, <1>5, <1>6, <1>7 DEF SmokeNext, ScriptStep

LEMMA OneError ==
  LET events == Append(<<>>, "session.error")
  IN  ~Judge(events) /\ Last(events) = "session.error"
<1> DEFINE events == Append(<<>>, "session.error")
<1>1. Len(events) = 1 /\ events[1] = "session.error"
  OBVIOUS
<1>2. ~Judge(events)
  BY <1>1 DEF Judge, IsPrefix
<1> HIDE DEF events
<1>3. Last(events) = "session.error"
  BY <1>1 DEF Last
<1> QED
  BY <1>2, <1>3 DEF events

LEMMA NoTurnIsIdle == NoTurn.stage = "idle"
BY DEF NoTurn

LEMMA HeadOfOne == \A a : Head(<<a>>) = a
OBVIOUS

LEMMA ScriptTurnStep ==
  ASSUME SmokeInv, [SmokeNext]_smokeVars
  PROVE  ScriptTurn'
<1> USE DEF SmokeInv, SmokeTypeOK, ScriptTurn, BeforeConnecting
<1>1. smoke'.args = smoke.args
  BY SmokeTypes
<1>2. CASE CheckHealth \/ CheckReady \/ CheckStatic \/ TimesOut
  <2>1. /\ smoke'.pc \in {"ready", "static", "connect", "failed"}
        /\ smoke'.pc # "failed" => smoke.pc \in {"health", "ready", "static"}
        /\ UNCHANGED <<vars, inbox, received>>
    BY <1>2 DEF CheckHealth, CheckReady, CheckStatic, HttpCheck, TimesOut
  <2> QED
    BY <2>1 DEF vars
<1>3. CASE OpenSocket
  <2>1. /\ smoke'.pc = "hello" /\ smoke.pc = "connect"
        /\ UNCHANGED <<turn, result, inbox, received>>
        /\ bundle' = [bundle EXCEPT ![Script] = BuildTts]
    BY <1>3 DEF OpenSocket, ScriptGoes, Connect
  <2>2. bundle'[Script].tts # "none"
    <3>1. bundle \in [Conns -> Bundles]
      BY DEF AdaptersTypeOK, Bundles, Adapter
    <3>2. BuildTts.tts # "none"
      BY DEF BuildTts
    <3> DEFINE b == BuildTts
    <3>3. b.tts # "none" /\ bundle' = [bundle EXCEPT ![Script] = b]
      BY <2>1, <3>2
    <3> HIDE DEF b
    <3> QED
      BY <3>1, <3>3, SmokeAssumption
  <2> QED
    BY <2>1, <2>2
<1>4. CASE Hello
  BY <1>4 DEF Hello, ScriptGoes, vars
<1>5. CASE HelloAck
  BY <1>1, <1>5 DEF HelloAck, ScriptGoes, vars
<1>6. CASE SendTurn
  <2>1. smoke.pc = "send" /\ smoke'.pc = "receive" /\ UNCHANGED received
    BY <1>6 DEF SendTurn, ScriptGoes
  <2>2. CASE Begun
    <3> DEFINE begun == [stage |-> "vad", audio |-> "odd length", speech |-> FALSE]
    <3>1. turn \in [Conns -> Turns] /\ turn' = [turn EXCEPT ![Script] = begun] /\ UNCHANGED inbox
      BY <2>2 DEF Begun, AdaptersTypeOK, Turns, Audio
    <3>2. begun.stage = "vad"
      OBVIOUS
    <3> HIDE DEF begun
    <3>3. turn'[Script].stage = "vad"
      BY <3>1, <3>2, SmokeAssumption
    <3> QED
      BY <2>1, <3>1, <3>3
  <2>3. CASE ~Begun
    <3>1. UNCHANGED turn /\ inbox' = <<"session.error">>
      BY <1>6, <2>3 DEF SendTurn, Begun
    <3> QED
      BY <2>1, <3>1, HeadOfOne
  <2> QED
    BY <2>2, <2>3
<1>7. CASE ReceiveEvent
  <2>1. /\ smoke.pc = "receive" /\ inbox # <<>> /\ UNCHANGED <<turn, result>>
        /\ received' = Append(received, Head(inbox)) /\ turn[Script].stage = "idle"
        /\ smoke'.pc \in {"receive", "passed", "failed"}
        /\ smoke'.pc = "passed" => Judge(received')
        /\ smoke'.pc = "receive" => Last(received') \notin {"session.done", "session.error"}
    BY <1>7 DEF ReceiveEvent, ScriptGoes, vars
  <2>2. CASE result[Script].code = "audio"
    BY <2>1, <2>2
  <2>3. CASE result[Script].code # "audio"
    <3>1. received' = Append(<<>>, "session.error")
      BY <2>1, <2>3
    <3>2. ~Judge(received')
      BY <3>1, OneError
    <3>3. Last(received') = "session.error"
      BY <3>1, OneError
    <3> QED
      BY <2>1, <3>2, <3>3
  <2> QED
    BY <2>2, <2>3
<1>8. CASE ServerStep
  <2>1. /\ Step(Script) /\ UNCHANGED <<smoke, received>>
        /\ IF turn'[Script] = NoTurn THEN inbox' \in TurnEvents(result'[Script].code)
                                     ELSE UNCHANGED inbox
    BY <1>8 DEF ServerStep
  <2>2. turn[Script].stage # "idle" /\ bundle'[Script].tts = bundle[Script].tts
    BY <2>1, AnswerToScript
  <2>3. smoke.pc \notin BeforeConnecting \cup {"hello", "hello ack", "send"}
    BY <2>2
  <2>4. CASE smoke.pc = "receive"
    <3>1. inbox = <<>> /\ received = <<>>
      BY <2>2, <2>4
    <3>2. CASE turn'[Script] # NoTurn
      <4>1. turn'[Script].stage # "idle"
        BY <2>1, <3>2, AnswerToScript
      <4> QED
        BY <2>1, <2>4, <3>1, <3>2, <4>1
    <3>3. CASE turn'[Script] = NoTurn
      <4>1. turn'[Script].stage = "idle"
        BY <3>3, NoTurnIsIdle
      <4>2. result'[Script].code # "audio" => Head(inbox') = "session.error"
        BY <2>1, <3>3, EventsTyping
      <4> QED
        BY <2>1, <2>4, <3>1, <4>1, <4>2
    <3> QED
      BY <3>2, <3>3
  <2>5. CASE smoke.pc # "receive"
    BY <2>1, <2>2, <2>3, <2>5
  <2> QED
    BY <2>4, <2>5
<1>9. CASE OthersNext
  BY <1>9, OthersLeaveScript DEF OthersNext
<1>10. CASE UNCHANGED smokeVars
  BY <1>10 DEF smokeVars, vars
<1> QED
  BY <1>2, <1>3, <1>4, <1>5, <1>6, <1>7, <1>8, <1>9, <1>10 DEF SmokeNext, ScriptStep

LEMMA SmokeStepInv == SmokeInv /\ [SmokeNext]_smokeVars => SmokeInv'
<1> SUFFICES ASSUME SmokeInv, [SmokeNext]_smokeVars PROVE SmokeInv'
  OBVIOUS
<1>1. AdaptersTypeOK' /\ ProbedIsLoaded'
  BY SmokeStepIsStep, NextTypes DEF SmokeInv
<1> QED
  BY <1>1, SmokeTypes, ReadinessStep, ScriptTurnStep DEF SmokeInv

THEOREM SmokeInvariance == SmokeSpec => []SmokeInv
BY SmokeInitInv, SmokeStepInv, PTL DEF SmokeSpec

\* The script sends the server nothing a client may not send in that state: a deployment
\* under the script is one of the deployments of Adapters.
THEOREM SmokeImplementsAdapters == SmokeSpec => Spec
<1>1. SmokeInit => Init
  BY DEF SmokeInit
<1>2. SmokeInv /\ [SmokeNext]_smokeVars => [Next]_vars
  BY SmokeStepIsStep
<1> QED
  BY <1>1, <1>2, SmokeInvariance, PTL DEF SmokeSpec, Spec

\* Hence what readyz and the fallback promise holds under the script as well.
THEOREM SmokeReadyServes == SmokeSpec => [](ReadyMeansServing /\ FallbackCoversKokoro)
BY SmokeImplementsAdapters, ReadyServes, FallbackCovers, PTL

\* "smoke check complete" is never said of a deployment that does not serve: the verdict
\* is drawn from the names of at most eight events, and for every order in which the
\* server, the host and the other clients act it implies that the turn reached its end
\* with audio, and that the deployment reported ready unless that was waived.
THEOREM SmokeVerdictIsSound == SmokeSpec => []SmokePassMeansServed
<1>1. SmokeInv => SmokePassMeansServed
  BY DEF SmokeInv, ReadinessSeen, ScriptTurn, SmokePassMeansServed
<1> QED
  BY <1>1, SmokeInvariance, PTL
-----------------------------------------------------------------------------
\* A number of the Settings is one.
LEMMA LimitIsNumber ==
  ASSUME AdaptersTypeOK, cfg # Refused
  PROVE  cfg.ws_max_event_bytes \in Int
<1> DEFINE raw == Raw(env, "ws_max_event_bytes")
           value == Field(env, "ws_max_event_bytes")
<1>1. "ws_max_event_bytes" \in Fields /\ "ws_max_event_bytes" \in DOMAIN IntMinimum
  BY DEF Fields, Default, IntMinimum
<1>2. cfg.ws_max_event_bytes = value /\ value # Refused
  BY <1>1 DEF AdaptersTypeOK, LoadSettings
<1>3. raw \in {Unset, NotANumber} \/ raw \in Int
  BY <1>1, EnvironmentAssumption DEF AdaptersTypeOK
<1>4. value = IF raw = Unset THEN Default.ws_max_event_bytes
              ELSE EnvIntMin("ws_max_event_bytes", raw)
  BY <1>1 DEF Field
<1>5. Default.ws_max_event_bytes \in Int
  BY DEF Default
<1>6. EnvIntMin("ws_max_event_bytes", raw) \in {Refused, raw}
  BY DEF EnvIntMin
<1>7. raw = NotANumber => EnvIntMin("ws_max_event_bytes", raw) = Refused
  BY DEF EnvIntMin
<1> HIDE DEF raw, value
<1> QED
  BY <1>2, <1>3, <1>4, <1>5, <1>6, <1>7

\* The deterministic adapters take the script's audio as any other.
LEMMA PlainResults ==
  ASSUME Plain, bundle[Script].tts # "kokoro",
         turn[Script].stage # "idle" => turn[Script].audio = "odd length"
  PROVE  Results(Script) \subseteq {"speech", "transcript", "reply", "audio"}
<1>1. ~Real(Script, "vad") /\ ~Real(Script, "stt") /\ ~Real(Script, "tts")
  BY DEF Plain, Deterministic, Real, InUse
<1>2. AskResults(Script) = {"reply"}
  BY DEF Plain, AskResults
<1> QED
  BY <1>1, <1>2 DEF Results, VadResults, SttResults, TtsResults

LEMMA PlainBuild == Plain => BuildTts.tts = "deterministic"
BY DEF Plain, BuildTts

\* What s \o t is, item by item.
LEMMA ConcatIs ==
  ASSUME NEW S, NEW s \in Seq(S), NEW t \in Seq(S), NEW u \in Seq(S),
         Len(u) = Len(s) + Len(t), \A i \in 1..Len(s) : u[i] = s[i],
         \A i \in 1..Len(t) : u[Len(s) + i] = t[i]
  PROVE  s \o t = u
<1> DEFINE v == s \o t
<1>1. v \in Seq(S) /\ Len(v) = Len(u)
      /\ \A i \in 1..Len(u) : v[i] = IF i <= Len(s) THEN s[i] ELSE t[i - Len(s)]
  BY ConcatProperties
<1> HIDE DEF v
<1>2. ASSUME NEW i \in 1..Len(u) PROVE v[i] = u[i]
  <2>1. CASE i <= Len(s)
    BY <1>1, <2>1
  <2>2. CASE ~(i <= Len(s))
    <3>1. i - Len(s) \in 1..Len(t) /\ Len(s) + (i - Len(s)) = i
      BY <2>2
    <3> QED
      BY <1>1, <2>2, <3>1
  <2> QED
    BY <2>1, <2>2
<1>3. v = u
  BY <1>1, <1>2, SeqEqual
<1> QED
  BY <1>3 DEF v

\* Short texts put together.
LEMMA TwoAndOne ==
  ASSUME NEW S, NEW a \in S, NEW b \in S, NEW c \in S
  PROVE  <<a, b>> \o <<c>> = <<a, b, c>> /\ <<a>> \o <<b, c>> = <<a, b, c>>
<1> DEFINE u == <<a, b, c>>  s == <<a, b>>  t == <<c>>  v == <<a>>  w == <<b, c>>
<1>1. {s, t, u, v, w} \subseteq Seq(S)
  OBVIOUS
<1>2. /\ Len(u) = 3 /\ u[1] = a /\ u[2] = b /\ u[3] = c
      /\ Len(s) = 2 /\ s[1] = a /\ s[2] = b /\ Len(t) = 1 /\ t[1] = c
      /\ Len(v) = 1 /\ v[1] = a /\ Len(w) = 2 /\ w[1] = b /\ w[2] = c
  OBVIOUS
<1> HIDE DEF u, s, t, v, w
<1>3. s \o t = u
  <2>1. /\ Len(u) = Len(s) + Len(t) /\ \A i \in 1..Len(s) : u[i] = s[i]
        /\ \A i \in 1..Len(t) : u[Len(s) + i] = t[i]
    BY <1>2
  <2> QED
    BY <1>1, <2>1, ConcatIs
<1>4. v \o w = u
  <2>1. /\ Len(u) = Len(v) + Len(w) /\ \A i \in 1..Len(v) : u[i] = v[i]
        /\ \A i \in 1..Len(w) : u[Len(v) + i] = w[i]
    BY <1>2
  <2> QED
    BY <1>1, <2>1, ConcatIs
<1> QED
  BY <1>3, <1>4 DEF u, s, t, v, w

LEMMA ThreeAndOne ==
  ASSUME NEW S, NEW a \in S, NEW b \in S, NEW c \in S, NEW d \in S
  PROVE  <<a, b, c>> \o <<d>> = <<a, b, c, d>>
<1> DEFINE s == <<a, b, c>>  t == <<d>>  u == <<a, b, c, d>>
<1>1. {s, t, u} \subseteq Seq(S)
  OBVIOUS
<1>2. /\ Len(s) = 3 /\ s[1] = a /\ s[2] = b /\ s[3] = c /\ Len(t) = 1 /\ t[1] = d
      /\ Len(u) = 4 /\ u[1] = a /\ u[2] = b /\ u[3] = c /\ u[4] = d
  OBVIOUS
<1> HIDE DEF s, t, u
<1>3. /\ Len(u) = Len(s) + Len(t) /\ \A i \in 1..Len(s) : u[i] = s[i]
      /\ \A i \in 1..Len(t) : u[Len(s) + i] = t[i]
  BY <1>2
<1>4. s \o t = u
  BY <1>1, <1>3, ConcatIs
<1> QED
  BY <1>4 DEF s, t, u

LEMMA FourAndOne ==
  ASSUME NEW S, NEW a \in S, NEW b \in S, NEW c \in S, NEW d \in S, NEW e \in S
  PROVE  <<a, b, c, d>> \o <<e>> = <<a, b, c, d, e>>
<1> DEFINE s == <<a, b, c, d>>  t == <<e>>  u == <<a, b, c, d, e>>
<1>1. {s, t, u} \subseteq Seq(S)
  OBVIOUS
<1>2. /\ Len(s) = 4 /\ s[1] = a /\ s[2] = b /\ s[3] = c /\ s[4] = d /\ Len(t) = 1 /\ t[1] = e
      /\ Len(u) = 5 /\ u[1] = a /\ u[2] = b /\ u[3] = c /\ u[4] = d /\ u[5] = e
  OBVIOUS
<1> HIDE DEF s, t, u
<1>3. /\ Len(u) = Len(s) + Len(t) /\ \A i \in 1..Len(s) : u[i] = s[i]
      /\ \A i \in 1..Len(t) : u[Len(s) + i] = t[i]
  BY <1>2
<1>4. s \o t = u
  BY <1>1, <1>3, ConcatIs
<1> QED
  BY <1>4 DEF s, t, u

LEMMA PlainTexts ==
  LET texts == <<"stt.final", "agent.reply">>  audio == [i \in 1..1 |-> "audio.output.chunk"]
      done == <<"session.done">>
  IN  /\ texts \o audio \o done
           = <<"stt.final", "agent.reply", "audio.output.chunk", "session.done">>
      /\ <<"stt.partial">> \o texts \o audio \o done
           = <<"stt.partial", "stt.final", "agent.reply", "audio.output.chunk", "session.done">>
<1> DEFINE audio == [i \in 1..1 |-> "audio.output.chunk"]
<1>1. audio = <<"audio.output.chunk">>
  OBVIOUS
<1>2. {"stt.partial", "stt.final", "agent.reply", "audio.output.chunk", "session.done"}
        \subseteq ServerEvents
  BY DEF ServerEvents
<1> HIDE DEF audio
<1>3. <<"stt.final", "agent.reply">> \o <<"audio.output.chunk">> \o <<"session.done">>
        = <<"stt.final", "agent.reply", "audio.output.chunk", "session.done">>
  <2>1. <<"stt.final", "agent.reply">> \o <<"audio.output.chunk">>
          = <<"stt.final", "agent.reply", "audio.output.chunk">>
    BY <1>2, TwoAndOne
  <2>2. <<"stt.final", "agent.reply", "audio.output.chunk">> \o <<"session.done">>
          = <<"stt.final", "agent.reply", "audio.output.chunk", "session.done">>
    BY <1>2, ThreeAndOne
  <2> QED
    BY <2>1, <2>2
<1>4. <<"stt.partial">> \o <<"stt.final", "agent.reply">>
        = <<"stt.partial", "stt.final", "agent.reply">>
  BY <1>2, TwoAndOne
<1>5. <<"stt.partial", "stt.final", "agent.reply">> \o <<"audio.output.chunk">> \o <<"session.done">>
        = <<"stt.partial", "stt.final", "agent.reply", "audio.output.chunk", "session.done">>
  <2>1. <<"stt.partial", "stt.final", "agent.reply">> \o <<"audio.output.chunk">>
          = <<"stt.partial", "stt.final", "agent.reply", "audio.output.chunk">>
    BY <1>2, ThreeAndOne
  <2>2. <<"stt.partial", "stt.final", "agent.reply", "audio.output.chunk">> \o <<"session.done">>
          = <<"stt.partial", "stt.final", "agent.reply", "audio.output.chunk", "session.done">>
    BY <1>2, FourAndOne
  <2> QED
    BY <2>1, <2>2
<1> QED
  BY <1>1, <1>3, <1>4, <1>5 DEF audio

LEMMA PlainEvents ==
  ASSUME bundle[Script].tts # "kokoro"
  PROVE  TurnEvents("audio") \subseteq Sequences
<1> DEFINE texts(partial, n) ==
      partial \o <<"stt.final", "agent.reply">> \o [i \in 1..n |-> "audio.output.chunk"]
        \o <<"session.done">>
<1>1. 1..1 = {1}
  OBVIOUS
<1>2. <<>> \o <<"stt.final", "agent.reply">> = <<"stt.final", "agent.reply">>
  OBVIOUS
<1>3. texts(<<>>, 1) \in Sequences /\ texts(<<"stt.partial">>, 1) \in Sequences
  BY <1>2, PlainTexts DEF Sequences
<1>4. TurnEvents("audio") \subseteq {texts(<<>>, 1), texts(<<"stt.partial">>, 1)}
  BY <1>1 DEF TurnEvents
<1> QED
  BY <1>3, <1>4

\* The sequences, event by event: their last event is the only one that ends a turn.
LEMMA SequenceFacts ==
  ASSUME NEW events \in Sequences
  PROVE  /\ events \in Seq(ServerEvents) /\ Len(events) \in {4, 5} /\ Judge(events)
         /\ \A i \in 1..Len(events) :
              events[i] \in {"session.done", "session.error"} <=> i = Len(events)
<1>1. CASE events = <<"stt.final", "agent.reply", "audio.output.chunk", "session.done">>
  <2>1. events \in Seq(ServerEvents)
    BY <1>1 DEF ServerEvents
  <2>2. Len(events) = 4 /\ events[1] = "stt.final" /\ events[2] = "agent.reply"
        /\ events[3] = "audio.output.chunk" /\ events[4] = "session.done"
    BY <1>1
  <2>3. Judge(events)
    BY <1>1, <2>2 DEF Judge, IsPrefix
  <2> QED
    BY <2>1, <2>2, <2>3
<1>2. CASE events = <<"stt.partial", "stt.final", "agent.reply", "audio.output.chunk", "session.done">>
  <2>1. events \in Seq(ServerEvents)
    BY <1>2 DEF ServerEvents
  <2>2. Len(events) = 5 /\ events[1] = "stt.partial" /\ events[2] = "stt.final"
        /\ events[3] = "agent.reply" /\ events[4] = "audio.output.chunk"
        /\ events[5] = "session.done"
    BY <1>2
  <2>3. Judge(events)
    BY <1>2, <2>2 DEF Judge, IsPrefix
  <2> QED
    BY <2>1, <2>2, <2>3
<1> QED
  BY <1>1, <1>2 DEF Sequences

\* The next event is taken from what is to come to what was received.
LEMMA OneMoreEvent ==
  ASSUME NEW events \in Sequences, NEW n \in 0..(Len(events) - 1)
  PROVE  LET seen == SubSeq(events, 1, n)  coming == SubSeq(events, n + 1, Len(events))
             now == Append(seen, Head(coming))
         IN  /\ now = SubSeq(events, 1, n + 1)
             /\ Tail(coming) = SubSeq(events, n + 2, Len(events))
             /\ Last(now) = events[n + 1] /\ Len(now) = n + 1
<1> DEFINE seen == SubSeq(events, 1, n)
           coming == SubSeq(events, n + 1, Len(events))
           more == SubSeq(events, 1, n + 1)
<1>1. events \in Seq(ServerEvents) /\ Len(events) \in Nat /\ n + 1 \in 1..Len(events)
  BY SequenceFacts
<1>2. Head(coming) = events[n + 1] /\ Tail(coming) = SubSeq(events, n + 2, Len(events))
  <2>1. Len(events) \in (n + 1)..Len(events) /\ (n + 1) + 1 = n + 2
    BY <1>1
  <2> QED
    BY <1>1, <2>1, HeadTailOfSubSeq
<1>3. events[n + 1] \in ServerEvents /\ \A i \in 1..(n + 1) : events[i] \in ServerEvents
  BY <1>1
<1>4. seen \in Seq(ServerEvents) /\ Len(seen) = n
  BY <1>1, <1>3, SubSeqProperties
<1>5. more = seen \o <<events[n + 1]>>
  <2>1. (n + 1) - 1 = n /\ n + 1 \in 1..Len(events) /\ 1 \in 1..Len(events)
    BY <1>1
  <2> QED
    BY <1>1, <2>1, SubSeqRecursiveSecond
<1>6. Append(seen, events[n + 1]) = more
  BY <1>3, <1>4, <1>5, AppendIsConcat
<1>7. Len(more) = n + 1 /\ more[n + 1] = events[n + 1]
  BY <1>3, <1>4, <1>6, AppendProperties
<1> HIDE DEF seen, coming, more
<1>8. Last(more) = events[n + 1]
  BY <1>7 DEF Last
<1> QED
  BY <1>2, <1>6, <1>7, <1>8 DEF seen, coming, more

-----------------------------------------------------------------------------
LEMMA PlainInit == SmokeInit => PlainRun
<1> SUFFICES ASSUME SmokeInit PROVE PlainRun
  OBVIOUS
<1>1. bundle[Script].tts = "none" /\ cfg # Refused
  BY SmokeAssumption DEF SmokeInit, Init
<1>2. smoke.pc = "health" /\ smoke.ok
  BY DEF SmokeInit
<1> QED
  BY <1>1, <1>2 DEF PlainRun, NoComplaint

\* Receiving an event of such a turn.
LEMMA PlainReceive ==
  ASSUME SmokeInv, NoComplaint, ReceiveEvent
  PROVE  smoke'.pc \in {"receive", "passed"} /\ (smoke'.pc = "receive" => SequenceUnderway')
<1>1. /\ smoke.pc = "receive" /\ inbox # <<>>
      /\ received' = Append(received, Head(inbox)) /\ inbox' = Tail(inbox)
      /\ IF Last(received') \in {"session.done", "session.error"} \/ Len(received') = EventLimit
           THEN smoke' = [smoke EXCEPT !.pc = IF Judge(received') THEN "passed" ELSE "failed"]
           ELSE UNCHANGED smoke
  BY DEF ReceiveEvent, ScriptGoes
<1>2. turn[Script].stage = "idle"
  BY <1>1 DEF SmokeInv, ScriptTurn
<1>3. PICK events \in Sequences : \E n \in 0..(Len(events) - 1) :
        received = SubSeq(events, 1, n) /\ inbox = SubSeq(events, n + 1, Len(events))
  BY <1>1, <1>2 DEF NoComplaint, SequenceUnderway
<1>4. PICK n \in 0..(Len(events) - 1) :
        received = SubSeq(events, 1, n) /\ inbox = SubSeq(events, n + 1, Len(events))
  BY <1>3
<1>5. /\ received' = SubSeq(events, 1, n + 1) /\ inbox' = SubSeq(events, n + 2, Len(events))
      /\ Last(received') = events[n + 1] /\ Len(received') = n + 1
  BY <1>1, <1>4, OneMoreEvent
<1>6. Len(events) \in {4, 5} /\ Judge(events) /\ n + 1 \in 1..Len(events)
      /\ (events[n + 1] \in {"session.done", "session.error"} <=> n + 1 = Len(events))
  BY SequenceFacts
<1>7. "pc" \in DOMAIN smoke
  BY DEF SmokeInv, SmokeTypeOK
<1>8. CASE n + 1 = Len(events)
  <2>1. SubSeq(events, 1, Len(events)) = events
    BY SequenceFacts, SubSeqFull
  <2>2. received' = events
    BY <1>5, <1>8, <2>1
  <2>3. smoke' = [smoke EXCEPT !.pc = "passed"]
    BY <1>1, <1>5, <1>6, <1>8, <2>2
  <2> QED
    BY <1>7, <2>3
<1>9. CASE n + 1 # Len(events)
  <2>1. Len(received') # EventLimit
    BY <1>5, <1>6 DEF EventLimit
  <2>2. smoke'.pc = "receive"
    BY <1>1, <1>5, <1>6, <1>9, <2>1
  <2>3. n + 1 \in 0..(Len(events) - 1) /\ (n + 1) + 1 = n + 2
    BY <1>6, <1>9
  <2> QED
    BY <1>5, <2>2, <2>3 DEF SequenceUnderway
<1> QED
  BY <1>8, <1>9

\* Before the first event.
LEMMA NothingYet ==
  ASSUME NEW events \in Sequences
  PROVE  /\ 0 \in 0..(Len(events) - 1) /\ SubSeq(events, 1, 0) = <<>>
         /\ events = SubSeq(events, 0 + 1, Len(events))
<1>1. events \in Seq(ServerEvents) /\ Len(events) \in {4, 5}
  BY SequenceFacts
<1>2. SubSeq(events, 1, 0) = <<>>
  BY SubSeqEmpty
<1>3. SubSeq(events, 1, Len(events)) = events
  BY <1>1, SubSeqFull
<1> QED
  BY <1>1, <1>2, <1>3

LEMMA HelloAdmitted ==
  ASSUME AdaptersTypeOK, cfg # Refused, Admitted
  PROVE  HelloAnswer = "session.ready"
<1>1. cfg.ws_max_event_bytes \in Int /\ HelloBytes \in Int
  BY LimitIsNumber, SmokeAssumption
<1>2. ~(cfg.ws_max_event_bytes < HelloBytes)
  BY <1>1 DEF Admitted
<1> QED
  BY <1>2 DEF HelloAnswer, Admitted

\* One step on such a deployment.
LEMMA PlainStep ==
  ASSUME SmokeInv, cfg # Refused, Plain, Admitted, NoComplaint, [SmokeNext]_smokeVars
  PROVE  NoComplaint' /\ (smoke.pc # "failed" /\ smoke'.pc = "failed" => TimesOut)
<1> USE DEF NoComplaint
<1>2. smoke \in [pc : Places, ok : BOOLEAN, args : Arguments]
  BY DEF SmokeInv, SmokeTypeOK
<1>3. CASE CheckHealth
  BY <1>2, <1>3 DEF CheckHealth, HttpCheck, vars
<1>4. CASE CheckReady
  <2>1. Ready
    BY DEF Plain, Ready
  <2> QED
    BY <1>2, <1>4, <2>1 DEF CheckReady, HttpCheck, vars
<1>5. CASE CheckStatic
  <2>1. cfg.static_enabled
    BY DEF Admitted
  <2> QED
    BY <1>2, <1>5, <2>1 DEF CheckStatic, HttpCheck, vars
<1>6. CASE OpenSocket
  <2> DEFINE b == BuildTts
  <2>1. b.tts = "deterministic"
    BY PlainBuild
  <2>2. bundle \in [Conns -> Bundles] /\ bundle' = [bundle EXCEPT ![Script] = b]
    BY <1>6 DEF OpenSocket, Connect, SmokeInv, AdaptersTypeOK, Bundles, Adapter
  <2> HIDE DEF b
  <2>3. bundle'[Script].tts # "kokoro"
    BY <2>1, <2>2, SmokeAssumption
  <2> QED
    BY <1>2, <1>6, <2>3 DEF OpenSocket, ScriptGoes
<1>7. CASE Hello
  <2>1. ~(AuthRequired /\ smoke.args.auth_token = "none")
    BY DEF Admitted
  <2>2. HelloAnswer = "session.ready"
    BY HelloAdmitted DEF SmokeInv
  <2> QED
    BY <1>2, <1>7, <2>1, <2>2 DEF Hello, ScriptGoes, vars
<1>8. CASE HelloAck
  <2>1. Head(inbox) = "session.ready"
    BY <1>8, HeadOfOne DEF HelloAck, ScriptGoes
  <2> QED
    BY <1>2, <1>8, <2>1 DEF HelloAck, ScriptGoes, vars
<1>9. CASE SendTurn
  <2> DEFINE begun == [stage |-> "vad", audio |-> "odd length", speech |-> FALSE]
  <2>1. /\ turn \in [Conns -> Turns] /\ turn' = [turn EXCEPT ![Script] = begun]
        /\ bundle' = bundle /\ smoke' = [smoke EXCEPT !.pc = "receive"]
    BY <1>9 DEF SendTurn, EarlierRuns, ScriptGoes, Admitted, SmokeInv, AdaptersTypeOK, Turns, Audio
  <2>2. begun.stage = "vad" /\ begun.audio = "odd length"
    OBVIOUS
  <2> HIDE DEF begun
  <2>3. turn'[Script].stage = "vad" /\ turn'[Script].audio = "odd length"
    BY <2>1, <2>2, SmokeAssumption
  <2> QED
    BY <1>2, <2>1, <2>3
<1>10. CASE ReceiveEvent
  <2>1. smoke'.pc \in {"receive", "passed"} /\ (smoke'.pc = "receive" => SequenceUnderway')
    BY <1>10, PlainReceive
  <2>2. UNCHANGED <<turn, bundle>> /\ turn[Script].stage = "idle"
    BY <1>10 DEF ReceiveEvent, vars, SmokeInv, ScriptTurn
  <2> QED
    BY <2>1, <2>2
<1>11. CASE TimesOut
  BY <1>2, <1>11 DEF TimesOut, vars
<1>12. CASE ServerStep
  <2>1. /\ Step(Script) /\ UNCHANGED <<smoke, received>>
        /\ IF turn'[Script] = NoTurn THEN inbox' \in TurnEvents(result'[Script].code)
                                     ELSE UNCHANGED inbox
    BY <1>12 DEF ServerStep
  <2>2. turn[Script].stage # "idle" /\ bundle'[Script].tts = bundle[Script].tts
    BY <2>1, AnswerToScript DEF SmokeInv
  <2>3. smoke.pc \in {"receive", "passed", "failed"}
    BY <1>2, <2>2 DEF SmokeInv, ScriptTurn, Places, BeforeConnecting
  <2>4. CASE smoke.pc = "receive"
    <3>1. inbox = <<>> /\ received = <<>> /\ turn[Script].audio = "odd length"
      BY <2>2, <2>4 DEF SmokeInv, ScriptTurn
    <3>2. Results(Script) \subseteq {"speech", "transcript", "reply", "audio"}
      BY <3>1, PlainResults
    <3>3. \/ turn'[Script].stage # "idle" /\ turn'[Script].audio = "odd length"
          \/ turn'[Script] = NoTurn /\ result'[Script].code = "audio"
      BY <2>1, <3>1, <3>2, AnswerToScript DEF SmokeInv
    <3>4. CASE turn'[Script] = NoTurn /\ result'[Script].code = "audio"
      <4>1. inbox' \in Sequences
        BY <2>1, <3>4, PlainEvents
      <4>2. received' = SubSeq(inbox', 1, 0) /\ inbox' = SubSeq(inbox', 0 + 1, Len(inbox'))
            /\ 0 \in 0..(Len(inbox') - 1)
        BY <2>1, <3>1, <4>1, NothingYet
      <4>3. SequenceUnderway'
        BY <4>1, <4>2 DEF SequenceUnderway
      <4> QED
        BY <2>1, <2>2, <2>4, <3>4, <4>3, NoTurnIsIdle
    <3>5. CASE turn'[Script].stage # "idle" /\ turn'[Script].audio = "odd length"
      BY <2>1, <2>2, <2>4, <3>5
    <3> QED
      BY <3>3, <3>4, <3>5
  <2>5. CASE smoke.pc # "receive"
    BY <2>1, <2>2, <2>3, <2>5
  <2> QED
    BY <2>4, <2>5
<1>13. CASE OthersNext
  <2>1. UNCHANGED <<smoke, inbox, received>> /\ turn'[Script] = turn[Script]
        /\ bundle'[Script] = bundle[Script]
    BY <1>13, OthersLeaveScript DEF OthersNext, SmokeInv
  <2> QED
    BY <2>1 DEF SequenceUnderway
<1>14. CASE UNCHANGED smokeVars
  BY <1>14 DEF smokeVars, vars, SequenceUnderway
<1> QED
  BY <1>3, <1>4, <1>5, <1>6, <1>7, <1>8, <1>9, <1>10, <1>11, <1>12, <1>13, <1>14
  DEF SmokeNext, ScriptStep

LEMMA PlainRunStep ==
  ASSUME SmokeInv, PlainRun, [SmokeNext]_smokeVars
  PROVE  /\ PlainRun'
         /\ Plain /\ Admitted /\ smoke.pc # "failed" /\ smoke'.pc = "failed" => TimesOut
<1>1. UNCHANGED <<env, cfg>> /\ smoke'.args = smoke.args
  BY SmokeStepIsStep, NextTypes, SmokeTypes DEF SmokeInv
<1>2. (Plain /\ Admitted)' <=> (Plain /\ Admitted)
  BY <1>1 DEF Plain, Admitted, EarlierRuns, TurnAdmitted, AuthRequired
<1>3. CASE ~(Plain /\ Admitted)
  BY <1>1, <1>2, <1>3 DEF PlainRun
<1>4. CASE Plain /\ Admitted
  BY <1>1, <1>4, PlainStep DEF PlainRun
<1> QED
  BY <1>3, <1>4

\* On a deployment of deterministic adapters that lets it in, the script fails by one
\* of its own timeouts or not at all: in either processing mode the events that come
\* are one of the two sequences it expects, and it stops at the event that ends them,
\* whatever the host and the other clients do in between.
THEOREM DeterministicPasses == SmokeSpec => DeterministicDeploymentPasses
<1>1. SmokeInv /\ PlainRun /\ [SmokeNext]_smokeVars =>
        [{cfg.adapter_vad, cfg.adapter_stt, cfg.adapter_tts, cfg.adapter_bridge} \subseteq Deterministic
           /\ Admitted /\ smoke.pc # "failed" /\ smoke'.pc = "failed" => TimesOut]_smokeVars
  BY PlainRunStep DEF Plain
<1>2. SmokeInv /\ PlainRun /\ [SmokeNext]_smokeVars => PlainRun'
  BY PlainRunStep
<1> QED
  BY <1>1, <1>2, PlainInit, SmokeInvariance, PTL DEF SmokeSpec, DeterministicDeploymentPasses
=============================================================================
