----------------------------- MODULE SmokeCheck -----------------------------
(***************************************************************************)
(* scripts/smoke_check.py against a deployment: the script asks the HTTP   *)
(* endpoints, opens a websocket, says hello, sends one turn and compares   *)
(* the events it gets with the sequence it expects.  The server's side is  *)
(* module Adapters; the answers of the session handler to the three        *)
(* messages of the script are reduced to what they depend on.              *)
(***************************************************************************)
EXTENDS Adapters, SequencesExt

CONSTANTS
  Script,       \* the connection of the script, one of Conns
  Arguments,    \* [allow_not_ready, hello_only, auth_token]: command lines
  HelloBytes,   \* length of the script's session.hello, its longest message
  AudioBytes,   \* length of the audio it sends
  MaxRuns,      \* bound: runs of the script in one window before this one
  MaxAudio      \* bound: audio chunks of a reply of Kokoro

ASSUME SmokeAssumption ==
  Script \in Conns /\ {HelloBytes, AudioBytes, MaxRuns} \subseteq Nat /\ MaxAudio \in Nat \ {0}

VARIABLES
  smoke,   \* the script: where it is, its arguments, if all HTTP checks so far are ok
  inbox,   \* events of the server the script has not received
  received \* received_types

smokeVars == <<vars, smoke, inbox, received>>

EventLimit == 8  \* events of a turn the script looks at

SmokeInit ==
  /\ Init
  /\ smoke \in {[pc |-> "health", ok |-> TRUE, args |-> a] : a \in Arguments}
  /\ inbox = <<>> /\ received = <<>>

ScriptGoes(from, to) == smoke.pc = from /\ smoke' = [smoke EXCEPT !.pc = to]

\* A check that is not ok stops the script after the last HTTP check.
HttpCheck(from, to, ok) ==
  /\ smoke.pc = from
  /\ smoke' = [smoke EXCEPT !.ok = @ /\ ok,
                            !.pc = IF to = "connect" /\ ~(smoke.ok /\ ok) THEN "failed" ELSE to]
  /\ UNCHANGED <<vars, inbox, received>>

CheckHealth == HttpCheck("health", "ready", TRUE)

\* MUTANT of CheckReady: require_ready is forgotten.
CheckReadyAnyhow == HttpCheck("ready", "static", TRUE)

CheckReady == HttpCheck("ready", "static", Ready \/ smoke.args.allow_not_ready)

\* Without static files /static/ is answered 404, which urlopen raises.
CheckStatic == HttpCheck("static", IF cfg.static_enabled THEN "connect" ELSE "failed", TRUE)

\* websockets.connect: the server builds the adapters and sends session.ready.
OpenSocket ==
  /\ ScriptGoes("connect", "hello")
  /\ Connect(Script)
  /\ UNCHANGED <<inbox, received>>

AuthRequired == cfg.ws_auth_mode # "off"

\* handle_hello for a client whose token is right, wrong or missing, if the message
\* passes the limits of run().  It is the first message that is counted under the
\* session's anonymous identity, and no limit is below one.
HelloAnswer ==
  IF \/ cfg.ws_max_event_bytes < HelloBytes
     \/ AuthRequired /\ smoke.args.auth_token # "right"
    THEN "session.error" ELSE "session.ready"

Hello ==
  /\ smoke.pc = "hello"
  /\ IF AuthRequired /\ smoke.args.auth_token = "none"
       THEN ScriptGoes("hello", "failed") /\ UNCHANGED inbox
       ELSE ScriptGoes("hello", "hello ack") /\ inbox' = <<HelloAnswer>>
  /\ UNCHANGED <<vars, received>>

HelloAck ==
  /\ inbox # <<>>
  /\ ScriptGoes("hello ack", IF Head(inbox) # "session.ready" THEN "failed"
                             ELSE IF smoke.args.hello_only THEN "passed" ELSE "send")
  /\ inbox' = <<>>
  /\ UNCHANGED <<vars, received>>

\* The runs whose messages count against this one's.  After the hello the script is
\* counted under its client's identity: on a limiter of its connection alone if it is in
\* memory, and on the counters of every run of the script if it is in Redis.
EarlierRuns == IF cfg.ws_rate_limit_backend = "redis" THEN 0..MaxRuns ELSE {0}

\* The limits let in the chunk and the message that ends the turn.  The two may fall
\* into different windows.
TurnAdmitted(runs, apart) ==
  /\ cfg.ws_rate_limit_events_per_window >= 2 * runs + (IF apart THEN 1 ELSE 2)
  /\ cfg.ws_rate_limit_audio_bytes_per_window >= (runs + 1) * AudioBytes
  /\ cfg.ws_max_audio_chunk_bytes >= AudioBytes

\* "hello world" is not blank and has an odd length.
SendTurn ==
  /\ ScriptGoes("send", "receive")
  /\ \E runs \in EarlierRuns, apart \in BOOLEAN :
       IF TurnAdmitted(runs, apart)
         THEN /\ turn' = [turn EXCEPT ![Script] =
                            [stage |-> "vad", audio |-> "odd length", speech |-> FALSE]]
              /\ UNCHANGED inbox
         ELSE inbox' = <<"session.error">> /\ UNCHANGED turn
  /\ UNCHANGED <<deployVars, bundle, result, received>>

\* What the session sends at the end of a turn: its output or an error, and done.
TurnEvents(code) ==
  IF code = "audio"
    THEN {(IF cfg.ws_processing_mode = "streaming" THEN <<"stt.partial">> ELSE <<>>)
            \o <<"stt.final", "agent.reply">>
            \o [i \in 1..n |-> "audio.output.chunk"] \o <<"session.done">> :
          n \in 1..(IF bundle[Script].tts = "kokoro" THEN MaxAudio ELSE 1)}
    ELSE {<<"session.error", "session.done">>}

ServerStep ==
  /\ Step(Script)
  /\ IF turn'[Script] = NoTurn
       THEN inbox' \in TurnEvents(result'[Script].code)
       ELSE UNCHANGED inbox
  /\ UNCHANGED <<smoke, received>>

\* MUTANT of Judge: the streaming sequence is not expected.
JudgeBuffered(events) ==
  IsPrefix(<<"stt.final", "agent.reply", "audio.output.chunk", "session.done">>, events)

Judge(events) ==
  \/ IsPrefix(<<"stt.final", "agent.reply", "audio.output.chunk", "session.done">>, events)
  \/ IsPrefix(<<"stt.partial", "stt.final", "agent.reply", "audio.output.chunk", "session.done">>, events)

ReceiveEvent ==
  /\ smoke.pc = "receive" /\ inbox # <<>>
  /\ received' = Append(received, Head(inbox))
  /\ inbox' = Tail(inbox)
  /\ IF Last(received') \in {"session.done", "session.error"} \/ Len(received') = EventLimit
       THEN ScriptGoes("receive", IF Judge(received') THEN "passed" ELSE "failed")
       ELSE UNCHANGED smoke
  /\ UNCHANGED vars

\* MUTANT of Patience: the events of a turn are awaited without a timeout.
PatienceForTurns == {"health", "ready", "static", "connect", "hello", "hello ack", "send"}

\* Where a timeout, or an error of the connection, ends the script.
Patience == {"health", "ready", "static", "connect", "hello", "hello ack", "send", "receive"}

TimesOut ==
  /\ smoke.pc \in Patience
  /\ smoke' = [smoke EXCEPT !.pc = "failed"]
  /\ UNCHANGED <<vars, inbox, received>>

ScriptStep ==
  CheckHealth \/ CheckReady \/ CheckStatic \/ OpenSocket \/ Hello \/ HelloAck \/ SendTurn
    \/ ReceiveEvent \/ TimesOut

\* The other connections and the host go on.
OthersNext ==
  /\ HostChanges \/ \E c \in Conns \ {Script} : ConnNext(c)
  /\ UNCHANGED <<smoke, inbox, received>>

SmokeNext == ScriptStep \/ ServerStep \/ OthersNext

\* asyncio.wait_for and the timeout of urlopen; nothing is assumed of the server.
SmokeSpec == SmokeInit /\ [][SmokeNext]_smokeVars /\ WF_smokeVars(ScriptStep)
-----------------------------------------------------------------------------
\* "smoke check complete" after a turn: the turn went through every configured
\* adapter and its audio came, and unless it was told not to care the script saw
\* a deployment that reports ready.
SmokePassMeansServed ==
  smoke.pc = "passed" =>
    /\ smoke.args.allow_not_ready \/ Ready
    /\ smoke.args.hello_only \/ result[Script].code = "audio"

\* Limits and a token with which the script's messages are let in, whatever earlier runs
\* have spent of the limits.
Admitted ==
  /\ cfg.static_enabled /\ cfg.ws_max_event_bytes >= HelloBytes
  /\ \A runs \in EarlierRuns, apart \in BOOLEAN : TurnAdmitted(runs, apart)
  /\ AuthRequired => smoke.args.auth_token = "right"

\* The script fails on a deployment of deterministic adapters that lets it in only
\* by one of its own timeouts, in either processing mode.  On counters in Redis it is let
\* in only if they have room for the runs of the script before it too.
DeterministicDeploymentPasses ==
  [][{cfg.adapter_vad, cfg.adapter_stt, cfg.adapter_tts, cfg.adapter_bridge} \subseteq Deterministic
       /\ Admitted /\ smoke.pc # "failed" /\ smoke'.pc = "failed" => TimesOut]_smokeVars

\* The script ends, whatever the server does or does not answer.
SmokeEnds == <>(smoke.pc \in {"passed", "failed"})
=============================================================================
