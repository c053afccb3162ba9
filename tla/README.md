# ralleh-voice: a TLA+ model of the voice session

`ralleh-voice` is a FastAPI service. A browser (or the smoke check) opens a
websocket, uploads PCM audio in chunks, and gets back a transcript, the reply of
an agent and synthesised speech. This directory holds TLA+ modules for the parts
of the service whose correctness depends on the order in which things happen,
configurations that model-check them with TLC, and proofs checked by TLAPS.

## 1. Inventory

| Component | Source | State it keeps | Operations | Interacts with |
|---|---|---|---|---|
| Event sending | `ralleh_voice/app.py` `send_event` | `seq_lock`, `next_seq` | send an event | called by the receive loop and by the turn task; writes to the websocket |
| Session handler | `app.py` `VoiceSessionHandler` | `SessionState`: buffered chunks, stream queue and its counter, current turn, turn task, authentication | one handler per client message, the turn task, disconnect cleanup | rate limiter, token check, pipeline, event sending |
| Pipeline | `pipeline.py` `run_turn` | none between turns; `TurnState.cancelled` is shared with the handler | VAD, STT, agent, TTS in sequence, with cancellation checks between them | adapters |
| Rate limiters | `rate_limits.py` | per-identity windows (memory) or bucket counters (Redis) | `allow_event`, `allow_audio_bytes` | called by the receive loop before any handler |
| Session tokens | `auth_tokens.py`, `app.py` `handle_hello` | identity, label and authentication of a connection | mint, verify, hello | environment, rate limiter |
| Event parsing | `events.py` | none | `parse_client_event` | called by the receive loop |
| OpenClaw bridge | `adapters/openclaw_bridge.py` | futures, the event loop's thread pool | `ask`: one HTTP request in a worker thread, error mapping | called by the pipeline; cancelled by the disconnect |
| Speech adapters | `adapters/*.py` | lazily loaded models | detect, transcribe, synthesise | called by the pipeline; packages and model files of the host |
| Adapter factory, readiness | `adapters/factory.py`, `app.py` | the adapters of a connection | choose adapters and fallbacks, report readiness | configuration, host |
| Control Room | `static/index.html` | sockets, reconnect timer, microphone, what the page shows | connect, reconnect, record, cancel | the websocket, the browser |
| Configuration | `config.py` | none | parse and validate the environment | everything |
| Smoke check | `scripts/smoke_check.py` | where the script is | HTTP checks, hello, one turn | readiness, the websocket |
| Deployment files | `deploy/` (Dockerfile, compose, systemd, Caddy) | none | none | not modelled |

Everything in the server runs on one asyncio event loop. Code between two awaits
is atomic; every await is a point where other tasks run. What makes the session
hard is therefore not data races but *stale assumptions across awaits*:

* the receive loop handles messages while a turn task runs, and both change
  `SessionState` and send on one socket;
* `create_task` returns before the task has run, so a message can be handled
  between the creation of a turn and its first statement;
* a cancel is a flag the pipeline looks at only now and then, plus a sentinel in a
  queue that may be full;
* the connection can be lost inside any send; depending on who notices first, the
  cleanup runs, or `run()` ends without it;
* `finally` of a turn resets session-wide references;
* a request to the agent runs on in its thread after the turn that made it is gone;
* what the server is (its environment, its packages, its clock) is looked at in several
  places at several times: at start, per connection, per hello, per turn, per readiness
  check;
* the browser page has one set of variables and possibly several sockets, each with
  handlers that work on those variables.

What makes each component correct:

* *event sending*: frames arrive numbered without gap or repetition; the lock is
  never left held;
* *session handler*: at most one live turn, and the session's references belong to
  it; audio is heard once, in order, by one turn, and only after authentication;
  limits and counters agree with what they count; every turn that has its audio, is
  cancelled or is abandoned ends; the receive loop is never stuck; counters add up;
* *pipeline*: a turn cancelled before its reply produces no output;
* *the client's view*: turns do not overlap, their events come in one order, each
  turn has one `session.done`, last;
* *rate limiters*: exactly the sliding window (memory); never more than the limit in
  a fixed window, by all processes of a host together, for answers that are not late, and
  no unjustified refusal (Redis); the byte count is the sum of the kept chunks; every key
  expires;
* *tokens and hello*: who is authenticated holds a token of this server under that
  token's name, punctual tokens pass and late ones do not although clocks differ, and only
  the holder of a token spends the budget of its identity;
* *configuration*: a server that starts has what its handlers will look for;
* *bridge*: a request belongs to one waiting turn or to nobody; one request per
  conversation at a time; no request is begun for a client the pool knows to be gone; an
  ask ends unless a gateway keeps sending; silence is told from failure;
* *adapters and readiness*: `ready` implies that no turn fails for want of something
  readiness looks at; the fallback covers the real TTS;
* *smoke check*: it ends; "complete" means that a turn was served; it does not fail on a
  deployment that is fine;
* *Control Room*: the hello is first on every socket; Disconnect cancels the retry; a
  connection lost while retries are wanted is retried; "listening" means that a microphone
  is open.

## 2. Modules

| Module | Contents |
|---|---|
| `EventSender` | `send_event`: the lock, the sequence number, and a socket that delivers, swallows or raises |
| `VoiceSession` | one connection: receive loop, handlers, turn tasks, pipeline, cleanup, metrics; extends `EventSender` |
| `TurnProtocol` | abstract: the order of the turn events a client may see |
| `MC_VoiceSession` | instances of `VoiceSession`, and its refinement of `TurnProtocol` |
| `VoiceSessionClaims` | statements of the documentation the code does not keep |
| `SlidingWindow` | abstract: what a sliding-window limiter grants and refuses |
| `MemoryRateLimiter` | the in-memory limiter of one connection; implements `SlidingWindow` for events and for bytes |
| `RedisRateLimiter`, `MC_RedisRateLimiter` | several server processes that count in one Redis, with failures and late scripts |
| `Configuration` | `load_settings`: raw values, aliases, limits, choices, cross-field validation, secrets |
| `Handshake`, `MC_Handshake` | minting and verifying tokens, `handle_hello`, identities and the limiters connections share; extends `Configuration` |
| `Adapters` | the factory, the lazily loaded models, what each adapter may answer a turn, readiness; extends `Configuration` |
| `SmokeCheck`, `MC_SmokeCheck` | the smoke script against `Adapters`, which it extends |
| `OpenClawBridge` | the requests of several sessions in the thread pool, phase by phase |
| `ClientEvents` | `parse_client_event`, as the verdict on a message |
| `ControlRoom` | the browser page; the messages it composes are judged by `ClientEvents`, which it extends |
| `VoiceSession_proofs` | TLAPS proofs about `EventSender`, `VoiceSession` and the refinement of `TurnProtocol` |
| `MemoryRateLimiter_proofs`, `RedisRateLimiter_proofs`, `Handshake_proofs`, `OpenClawBridge_proofs`, `ControlRoom_proofs` | TLAPS proofs about the module in the name |
| `SmokeCheck_proofs` | TLAPS proofs about `Adapters` and `SmokeCheck` |
| `Sums` | what the proofs need to know of sums over finite sets and of folds over sequences |

Composition: `VoiceSession` is the sender, the receive loop, the turn and the client;
`Handshake` is configuration, tokens, hello and limiters; `SmokeCheck` is configuration,
host, adapters, server and script; `ControlRoom` is the page and the server's parser.
Definitions marked `MUTANT of` are plausible mistakes in the definition they name; they
are used by no specification.

### How `VoiceSession` corresponds to the code

*State.* The variables named after fields of `SessionState` are those fields.
`current_turn` and `turn_task` hold the name of the turn task they point to, or
`None`; `stream_queue` holds the name of an `asyncio.Queue`, whose contents are in
`queues`. `cancelled` and `turn_id` are the fields of `TurnState`. `chunks`,
`queue_of` and `audio_chunks` are locals of the turn. `metrics` is what this
connection contributes to `RuntimeMetrics`. Several turn tasks can exist in the
model; that only one is alive at a time is a result, not an assumption.

*The receive loop.* Each handler of `VoiceSessionHandler` does all its work before
its first send and nothing after its last one. One received message is therefore one
action, which leaves the replies in `outbox[Handler]`; the loop then sends them one
by one (`BeginSend`, `WriteFrame`, `HandlerSent` or `HandlerSendFails`) and
`handler_pc` says how it goes on: `accept` (the first `session.ready`, outside the
`try`), `recv`, `send`, `hello` (re-examines the socket afterwards), `reject` and
`close` (a refused token), and the ends `returned`, `crashed`, `cleaned` (only the
last one ran `cleanup_on_disconnect`).

*The turn.* `tpc` names the await a turn is in. `created` is a task the event loop
has not started, `empty` the early return of `run_buffered_turn`, `listen` the wait
for a chunk, then the adapter calls, `emit` and `complete` the output, `closing` the
report of a cancellation or a failure. `interrupted` records `task.cancel()`: the next
step of the task is then the `CancelledError`.

*Inputs.* Which verdict the limiter, the parser or the token check gives, whether an
adapter returns or raises, and when the client leaves are nondeterministic. `Inputs`
restricts the repertoire of an instance. The content of audio, transcripts and
replies is abstracted: a chunk is the number of the message that brought it and its
size; the two hello modes that check a token share one action; the error codes of the
parser are one code; what the VAD says is ignored, since it only selects what the STT
hears.

*Sends.* A send is three steps, take lock and number, write, return, because
`send_text` is an await: other tasks run in between. A peer that is gone swallows
frames until the loss is noticed; then the first send raises `WebSocketDisconnect` and
every later one `RuntimeError`, in whichever task it happens.

### How the rate limiters correspond to the code

*Memory.* The deques and the byte counter of `_IdentityWindow` are variables indexed by
identity. A call does not await, so a call is one action, and `_trim`, which empties both
deques whichever kind is asked for, is part of both. `granted_events`, `granted_audio`
are histories of what was granted when; `SlidingWindow` is stated over them, twice, once
for each kind of request. Its `answer` includes `observed`, which clients are shown.
Identities do not interact (each call touches one entry of a dictionary), so the run has
one.

*Redis.* `eval` blocks the process, so a process has at most one request on its way
(`call`). A message costs one request, or two if it carries audio: `Receive` reads the
clock and asks for the event, and once that is granted `AskAudioBytes` asks for the bytes
with the *same* reading (`received`), as `run()` hands its `now` to `handle_audio_in`; the
second request is sent later (`sent`) and may have a key of a bucket that is over. The
script runs later (`RunScript`), the reply is returned later still; each of the two
requests may take `RoundTrip`. `charged` records what was granted by bucket, `timely` what
was granted at most a second after the message was received. `Fail` is an exception of the Redis
client; the script may have run before, may run afterwards (`abandoned`, one per process)
or never. Expiry is part of `Tick`. A missing key is a count of 0, which is how the script
reads it. `Epoch` is the difference between the hosts' monotonic clocks. A loss of the
Redis data is not modelled: it makes the counts start anew.

### How `Configuration` and `Handshake` correspond to the code

*Configuration.* An environment is a function from the names of variables to `Unset` or
a value; `Environment` sets a few and leaves the rest. `Field` follows `_env_int_min`,
`_env_choice` and `_env_bool`; `Alias` holds the older `..._PER_MINUTE` names. `Valid` is
`_validate_settings`. `LoadSettings` is the record of fields, or `Refused` for every
`ValueError`. A variable that another setting names is read in two ways: `Secret`, in
`_validate_settings`, takes the blanks around the name off, `Getenv`, in `handle_hello`,
does not. `Strip` is `str.strip` (and `lower`, where
the code lowers) on the few texts the instances contain.

*Tokens.* A signature is the key it was made with; a token is the shape its text has
(`form`), its key and its claims. `Verdict` lists the checks of
`verify_signed_session_token` in their order; the order matters, as the reason is sent to
the client. `Mint` is the CLI, on a host whose clock is `skew` ahead; it takes the key as
it is, while the server strips it. `Forgeries` are tokens nobody minted.

*Connections.* `conn` holds the fields of `SessionState` that say who a client is, and
the limiter its connection was given when it was made (`redis`, `memory`, or `degraded`,
which is `memory` because Redis did not answer). `Receive` is one message: counted under
the identity the connection has at that moment, refused without effect when over the
limit, and possibly a hello. The state `crashed` is an exception `run()` does not catch.
Time stays within one rate-limit window, as windows are the business of the limiter
modules; `spent` is then all a limiter knows. It is kept per connection and identity, so
that one can tell who spent what.

### How `Adapters` and `SmokeCheck` correspond to the code

*Adapters.* `host` is what the imports and model files of the machine are like and may
change at any time. `bundle` is the `AdapterBundle` of a connection: its TTS, after the
probe of `build_adapters`, and the models loaded so far. A turn goes through VAD, STT,
bridge and TTS; each `...Results` operator lists what that adapter may answer in the
current state, in the order of the adapter's own checks, as the next stage or the code of
the `AdapterError`. `Unmapped` is an exception that is no `AdapterError`; the segments of
faster-whisper and the audio of Kokoro are generated outside the `try` around the call.
numpy counts as one of the packages of an adapter. `Ready` is `readiness_payload`.
`Schemeless` are the texts in which `urllib` finds no scheme; a blank one is among them.
`readyz` looks only for blanks, the request fails with any of them (`NoAddress`).

*Smoke check.* One action per step of the script. The answers of the session handler to
the script's three messages depend on limits, authentication and the outcome of the turn,
and are computed from those; `VoiceSession` shows in which order such events come. The
hello is counted under an anonymous identity, of which it is the first message; chunk and
end are counted under the client's (`TurnAdmitted`), in one window or in two. That identity
is the same in every run of the script, so that on counters in Redis the runs of the same
window before this one have spent some of the limits (`EarlierRuns`). Other connections and
the host go on meanwhile.

### How `OpenClawBridge` corresponds to the code

`asyncio.to_thread` is the pool: `queue` and `worker`. A call is named by its session and
number; `call` is its future in the pool. `Cancel` is the flag of `handle_cancel`, which
does not touch the call; `Leave` is `task.cancel()`, which cancels the event loop's future.
The pool's future hears of it from a callback in a later iteration of the loop
(`Release`): a call that is still queued then is skipped by the worker that comes to it,
one that a worker has taken meanwhile goes on with nobody waiting. A request goes through
`connect`, `await` (for the headers) and `read`; whatever moves on the socket (`Progress`:
a byte of headers or body, another address of the host, a redirect) starts its silence
(`quiet`) anew, without bound, and only a silence of `Timeout` ends it. `Code` is the
`except` clauses of `ask`, `_http_post_json` and `_extract_reply_text`; `"unmapped"` is
what none of them names. Time passes only while a worker is busy, and not past a timeout
that is due.

### How `ControlRoom` corresponds to the code

`state` and `rendered` are `STATE` and what the buttons were last drawn for (`Enabled`
are the `disabled` attributes); `ws` is the page's socket variable, `socket` the
`readyState` of every `WebSocket` object made; an object that is closed and not current is
used again for the next one. `mic` counts `startMic` calls that wait for the permission
or for the audio context, open streams and running intervals, and says whether the page's
variables hold one of each. Each handler is one action, as the browser runs it; the two
`await`s of `startMic` split it into `StartMic`, `Permission` and `Resumed`. `OnMessage`
has the two kinds of event that change more than text. `ChangePreference` is the listener
of the preferences: the auto-reconnect box may change at any time (`auto`), and any of them
draws the buttons anew. `owed` records that the current socket was lost while a retry was
wanted, `wire` and `refused` what the server gets.

## 3. Runs

| Run | Question |
|---|---|
| `buffered` | Buffered turns of a client that has to say hello: buffer accounting, counters, numbering, order of audio, the client's view; the receive loop comes back |
| `streaming` | Streaming turns: one live turn owns the session, the queue and its counter agree, order of audio, silence of cancelled turns, the client's view |
| `streaming_live` | Whatever a client sends, does a cancelled, abandoned or completely fed streaming turn end, and is no audio kept before authentication? |
| `memory_limiter` | Does the memory limiter grant and refuse exactly what a sliding window does? |
| `redis_limiter` | Do two processes of one host together keep the fixed-window limit for the messages of a window that are answered within a second, through failures, late scripts and two requests per chunk? Is every refusal justified, does every key expire? |
| `handshake` | Who is let in, under which identity and on whose budget, when servers start from eighteen environments and tokens come minted, forged, late and missing? |
| `deployment` | What do a ready answer and a passed smoke check say of the turns that follow, in twenty-three deployments whose packages and models come and go? Does the script end? |
| `bridge` | Two sessions share one worker: do cancelled, abandoned, slow and silent requests leave pool and turns consistent, is nothing begun for a client the pool knows to be gone, and does every ask end once no gateway drips? |
| `control_room` | The page in every order of operator, preferences, timers, permission dialogs and socket events: hello first, no retry after Disconnect, listening true, loss retried |
| `claim_in_progress` | violated: `TURN_IN_PROGRESS` means that a turn is running |
| `claim_bad_chunk` | violated: a message is answered and never ends the session (an undecodable chunk does) |
| `claim_chunk_refused` | violated: the server takes every message of the Control Room |

*Bounds of the session runs.* `MaxMessages` bounds the messages received, `Tasks` the
turn tasks, `MaxOut` the audio chunks of a reply. Five messages are a hello and two
complete buffered turns, or two streaming turns and a message that races the first one's
end; three turn tasks exist so that a third turn could start while two are alive. Queue
and buffer limits are one or two, so that full and empty are both one step away; in
`streaming_live` the queue has one place, so that a sentinel is easily lost. `MaxOut = 1`
tells "no audio", "some audio" and "after the last check" apart. Deadlock checking is off
in all runs: a client or operator that does nothing more leaves the system waiting for
good reason.

*Limiters.* The memory limiter runs over five moments with a window of two, so that an
entry of age one, two and three, an exact boundary and two successive trims occur; chunks
of one and two bytes fill a limit of three exactly, or leave room for a smaller one.
Identities do not interact there (each call touches one entry of a dictionary), so the run
has one. The Redis limiter runs over four moments, two buckets, with two processes, at
most one failure and round trips of up to two seconds, so that the second request of a
chunk may be sent after its bucket and run after its key; a chunk of two bytes and a limit of
three make a count that is neither empty nor at its limit, and a first increment that is
not one. The processes are symmetric there, as their clocks agree (`Epoch <- OneHost`).

*Handshake.* Two connections are the least that can share, or fail to share, a counter. The
environments contain each authentication mode with its secret set, blank, missing, under
another name and under a name with a blank beside it, both limiter backends, the aliases,
and settings at and over each limit, several of which must be refused. With a leeway of
one, a minting clock two behind, one behind or one ahead and lifetimes of one and two, a
token is met before, at and after each of its boundaries within three moments. Two tokens
and four messages allow a second hello with another name and token after a first one of
either outcome.

*Deployment.* Each kind of adapter is configured alone, with its settings right, wrong and
missing (the VAD and the STT, which share the audio, together), one deployment has two
kinds, and deterministic ones sit at the limits of what the script sends (380 bytes of
hello, 11 of audio). Two connections, the script's and another, differ in when they are
made and used while models come and go. Of up to two earlier runs of the script, limits of
five events and of 22 bytes in Redis admit one beside this run and not two. Two audio
chunks are what separates the script's idea of a reply from Kokoro's.

*Bridge.* With one worker and two sessions every call of one session can wait behind the
other's; three asks let an abandoned or marked call be followed by two more; a timeout of
two ticks makes a request that outlives its timeout without ever being silent for as long,
as a socket may stir after every tick.

*Control Room.* Three sockets that are not closed are the current one, one it replaced and
a third one that a late handler of either could disturb; two microphone requests are one
that is held and one that is leaked.

*Fairness.* `buffered` and `streaming_live` assume weak fairness of the receive loop's own
steps and of each turn (the event loop runs every ready task; adapter calls come back: the
bridge has a timeout, the local models are finite) and strong fairness of taking the lock:
`asyncio.Lock` serves waiters in order, while in the model the lock is free only now and
then. `bridge` assumes that the event loop resumes a turn whose future is set, that the
pool's threads run, that the callbacks of a cancelled future are called, and that time
passes. The gateway need not answer; but `AskEnds` is about behaviours in which from some
time on no socket stirs except to end its request (`GatewaysEnd`), an assumption the code
does nothing for and that the property therefore states itself. `deployment`
assumes that the script's awaits time out, which is `asyncio.wait_for` and the timeout of
`urlopen`; nothing of the server. `control_room` assumes that the browser's timers fire.
Nothing is assumed of a client or an operator.

## 4. What the runs found

1. *Empty buffered turn wedges the session* (`claim_in_progress`). `run_buffered_turn`
   returns for an empty list before its `try`, so `turn_task` is never cleared.
2. *Undecodable chunk* (`claim_bad_chunk`). `b64decode` raises a plain `ValueError` for
   text that is not ASCII; `run()` ends with it, without an answer and without cleanup.
3. *The Control Room's audio is refused* (`claim_chunk_refused`). Its chunks carry
   `sample_rate`, `channels` and `format`, which `parse_client_event` does not allow.

Seen while modelling, and described here without a run of their own.

*Session.*

* Between `create_task` and the first step of the turn, `current_turn` is `None`: a cancel
  marks nothing, where `docs/architecture.md:70` says that it marks the active turn. In
  streaming mode the client gets no answer and the turn goes on with what it has.
* The last cancellation check is the one after the last TTS chunk; a turn cancelled later
  sends everything and reports `turn-complete`, where `docs/operations.md:97` says
  `cancelled`.
* The error and the `session.done` of a streaming overflow do not end the running turn or
  empty its queue, where `docs/operations.md:89` says that the buffer is reset.
* A client that leaves during the output makes the turn count in
  `ralleh_voice_ws_turns_failed_total`, possibly after it was counted as completed, where
  the metric's description names adapter and pipeline errors.
* The event envelope of `docs/architecture.md:38-46`, with `session_id` and `seq`, is
  refused by `parse_client_event` when a client sends it.
* `ws_max_event_bytes` and `ws_max_audio_chunk_bytes` have the same default: a chunk too
  large for the second is, in base64, too large for the first, and
  `AUDIO_CHUNK_TOO_LARGE` is never sent.
* A turn without speech asks the agent `(no transcript)`.
* A second `session.hello` with a refused token closes the socket while a turn runs; the
  turn ends by its failing sends, and in streaming mode may wait for audio that cannot come.

*Rate limits.*

* *Redis fails later.* The fallback to memory is chosen when the connection is accepted
  (`build_rate_limiter`). `_allow` lets an exception of `eval` through and `run()`
  (`app.py:186`) catches only `WebSocketDisconnect`: a Redis that fails later ends every
  session at its next message, without an answer and without cleanup, where
  `docs/security.md:22` says that missing connectivity degrades safely to memory. With
  `"over event limit"` and `"limiter raises"` in `Inputs` of `claim_bad_chunk.cfg` TLC
  finds `MessageNeverEndsSession` violated this way, too.
* Buckets are numbered by `time.monotonic()`, whose zero is the host's own
  (`rate_limits.py:119`): two hosts count one identity under different keys, where
  `docs/deploy-contract.md:39` promises a distributed fixed-window limiter. With
  `Epoch <- TwoHosts` TLC finds `FixedWindowLimit` violated.
* A Redis key lives one second longer than its bucket. Connecting and reading each have a
  timeout of at least one second (`rate_limits.py:190-191`), and the bytes of a chunk are
  asked for with the clock's reading of before the request for its event
  (`app.py:136`, `app.py:434`). A script that runs more than a second after its message
  was received may find the key expired and start a second count: that is why
  `FixedWindowLimit` counts only what is granted within that second. With two seconds in
  the definition of `timely` TLC finds it violated.
* The anonymous identity contains the `session_id`, with or without the client's address:
  a client that reconnects has a new budget, where `docs/operations.md:93` expects the
  address to reduce that.

*Tokens.*

* `_validate_settings` takes the blanks around the name of the secret's variable off
  (`config.py:128-140`), `handle_hello` does not (`app.py:308`, `app.py:333`). With a blank
  beside the name a server starts, and then answers every signed hello with
  `AUTH_CONFIG_ERROR`, or compares every shared secret with the empty text.
  `NoConfigErrorAfterStart` is stated for names without blanks; without that restriction
  TLC finds it violated.
* The CLI signs with the key as it is, the server verifies with the key stripped: with a
  trailing blank in the variable no minted token is accepted.
* A token that is not ASCII makes `compare_digest` or `encode` raise what nothing catches:
  the session ends without an answer.
* A client that calls itself `unknown` gets in with a token for any client name.
* Once authenticated a connection stays so after its token has expired.

*Adapters, readiness, bridge.*

* The factory reports a Kokoro that passed its probe as ready, `readiness_payload`
  overrides that: with real adapters `ready` is never true, and the state of the fallback
  does not show as `docs/operations.md:109` says.
* `/v1/readyz` and every new connection build adapters, and so load Kokoro, synchronously
  on the event loop.
* The smoke check fails on a deployment with a working silero or faster-whisper
  ("hello world" is not a whole number of samples) and on a Kokoro reply of more than one
  chunk; its five seconds are less than the bridge's ten.
* In Redis the smoke check's turns of a window share the budget of its client: with limits
  that let in one run a second run in the same window is refused.
* The "request timeout" (`README.md:742-743`) bounds each silence of the socket: a
  gateway that sends a byte of its headers or body now and then, or redirects, holds its
  worker and the turn that waits for it as long as it likes, and the request of a client
  that left goes on to its end. Nothing bounds how long a worker is held, so no property
  says so.
* The address of the gateway is ready when it is not blank. One without a scheme
  (`gateway.local`) is reported ready and fails every turn.
* A connection that is reset, a body that is cut off or not UTF-8, and an address that is
  blank or has no scheme raise exceptions no `except` names: the client gets
  `PIPELINE_FAILURE`, where `docs/adapter-openclaw-bridge.md:70-75` says `ADAPTER_FAILURE`
  with a code.

*Control Room.*

* `onclose` of an old socket, after Disconnect and Connect, shows "disconnected", closes
  the microphone and schedules a reconnect while the new socket is open.
* Disconnect closes a socket only if it is open (`index.html:2050`): one that is still
  connecting opens afterwards, and the page is connected again.
* Auto reconnect is looked at when the socket is lost: checked later it starts no retry,
  unchecked later it stops none.
* Connect during the backoff leaves the reconnect timer running: a second socket is
  opened, and the first stays open without anyone using it.
* Start pressed twice before the permission is given leaks the first stream and its
  interval. `startMic` goes on after Disconnect.
* A late `stt.*` event while recording shows "processing", which disables Stop.

## 5. Proofs

The `*_proofs` modules prove, with TLAPS and for every value of the constants:

| Theorem | Statement |
|---|---|
| `SenderGaplessOrder`, `SenderNoNumberInTheAir`, `SenderDeliveryStep` | the numbering and the lock discipline of `EventSender` |
| `SessionImplementsSender` | a connection implements `SenderSpec`: every step of `VoiceSession` is a step of the sender or leaves it alone |
| `SessionGaplessOrder` | hence the frames of a connection are numbered without gap |
| `SessionTypeCorrect` | the type invariant of `VoiceSession` |
| `OneTurnOwnsSession` | a live turn owns the session's references, so there is at most one |
| `CancelledTurnIsSilent` | a turn cancelled before its reply never reaches its output |
| `AudioNeedsAuth` | nothing is kept, queued or heard before authentication |
| `AudioIsHeardInOrder` | no chunk is heard twice or out of order |
| `PendingIsCounted` | `stream_pending_chunks` is the number of chunks in the queue |
| `BufferIsCounted` | `incoming_bytes` is the size of the buffered chunks, within the limits |
| `TurnsAreAccounted` | every started turn is at work or counted once |
| `ClientIsToldInOrder` | a connection implements `TurnProtocol`: what the client hears of its turns is in order |
| `WindowsStayConsistent`, `WindowsSlide`, `LimiterTypeCorrect` | the memory limiter, which implements `SlidingWindow` for events and for bytes, for any limits, window and sizes of chunks |
| `RedisTypeCorrect`, `RefusalsAreJustified`, `KeysAlwaysExpire` | the Redis limiter, for any clocks, failures and durations of a request |
| `WindowLimitHolds` | all servers whose clocks agree together keep the limit of every window, for what is granted within a second of the message, however long requests take |
| `StartedServersHaveKeys`, `AuthenticatedConnectionsHoldTokens`, `PunctualTokensAreAccepted`, `LateTokensAreRefused`, `HandshakeTypeCorrect` | tokens and hello, for any environments, tokens, skews and leeway; the first for names of variables without blanks |
| `HoldersSpendTheirs` | what is spent under a client's identity was spent by a holder of a token for it |
| `AdaptersTypeCorrect`, `ReadyServes`, `FallbackCovers` | adapters and readiness, for any environments and connections, and any addresses without a scheme |
| `SmokeImplementsAdapters`, `SmokeReadyServes` | the server that the smoke check meets is a behaviour of `Adapters`, so readiness means there what it means alone |
| `SmokeVerdictIsSound`, `DeterministicPasses` | a passed smoke check was served; a deterministic deployment that lets it in passes |
| `SumAdd`, `SumMore`, `SumMonotone`, `TotalSizeFacts` (among others in `Sums`) | how a sum over a finite set, and the total size of a sequence, change when one value or one chunk does |
| `BridgeTypeCorrect`, `PoolIsConsistent`, `OneRequest`, `NoRequestForTheGone`, `TimeoutMeansSilence` | the bridge, for any sessions, workers, timeout and gateways |
| `RoomTypeCorrect`, `HelloIsFirst`, `ListeningIsCapturing`, `DisconnectStays`, `ControlMessagesAccepted` | the page, for any number of sockets and microphones |

*Assumptions.* Those of the modules, which TLC evaluates on every run: `None` is not a
task and not a request, the limits are positive, the mode is one of the two
(`NoneAssumption`, `VoiceAssumption`, `LimiterAssumption`); there are finitely many servers
and at least one (`RedisAssumption`); there are finitely many connections, a numeric
setting is a number, a text that is none or unset, and above all no forged token that is
well formed carries a key of a server (`HandshakeAssumption`, `EnvironmentAssumption`); the
lengths of the script's messages are lengths (`SmokeAssumption`), a blank address has no
scheme (`SchemeAssumption`); `BridgeAssumption`, `RoomAssumption`. Only `WindowLimitHolds`
has a hypothesis of its own, that the clocks agree; it is necessary, as TLC's
counterexample of section 4 shows, and so is the second that its property allows an answer.

*The sender.* `SenderInv` is the type invariant, `GaplessOrder` and `NoNumberInTheAir`.
Gapless order alone is not inductive: that the next frame carries the next number follows
from the lock, which makes the envelope in flight the only number taken and not yet
delivered.

*The session.* `SessionInv` adds to the sender's invariant, the types and
`LiveTurnOwnsSession`:

* `OutboxDiscipline`: who is inside `send_event` has an event to send, and who reports
  nothing has an empty outbox. It makes the types inductive (the head and the tail of
  the outbox exist) and keeps a reply of the receive loop from replacing events that are
  still to be sent;
* `IdleReferences`: `turn_task = None` implies `current_turn = None`, and a live
  streaming turn has a queue. Without the first a new turn could start with the
  `TurnState` of an old one; the second is why a session without a queue has no live
  turn;
* `InterruptedOnLoss`: only the loss of the peer interrupts a turn, which is what the
  sender assumes of interruptions.

The main step is creation: a turn is created only when `turn_task` is `None`, and by
`LiveTurnOwnsSession` no turn is then alive; the turn that ends is the live one, so its
`finally` resets only its own references.

*The audio.* `AudioInv`, on top of `SessionInv`, says where audio is: `OnePlace` (only the
session's queue has contents, and the modes do not mix) and `WaitingInOrder` (what waits
anywhere was sent after what was heard, in increasing order, and the buffer holds only
what was sent after everything the running turn was given), together with
`PendingCountsQueuedChunks`. Most steps are `Quiet`: they leave the audio alone, drop the
buffer or put a sentinel behind it. The others append the newest chunk, hand the buffer
over, take out a head, or drop the queue in `finally`, and each has a lemma. That a chunk
taken out is later than the last one heard is then `WaitingInOrder` of the place it was
taken from; that a dropped queue leaves no count needs that the turn dropping it owns it.

*The accounts of a session.* `BufferAccounting` and `TurnsAccounted` are nearly inductive:
the first needs that the buffer holds chunks, whose sizes `Bytes` adds up (`BytesFacts`,
from `Sums`), the second that a lost connection stays lost and that `tpc` and the counters
move together. `AccountedStep` names the three ways they do: no turn comes to work or
stops, one starts and `started` is counted, one stops and exactly one of the other three is.

*The client's view.* `TurnProtocol` says which event may follow which. `ProtocolInv` says,
for an intact connection, that the live turn's outbox continues what the client has heard
(`TellsTurn`): a turn that is silent follows a client that has heard of every earlier turn
to its end; the outbox of a turn that emits holds events each of which may follow the one
before (`Consecutive`), the first of them the last one heard or one that may follow it
(`HeadIsNext`, by whether its frame is written); a turn that closes has its `session.done`
left, behind an error that names no turn. What the receive loop and an empty turn send
names no turn (`OnlyTurnsAreNamed`), so it may come anywhere in between. `TurnOutputInOrder`
proves that `emit_turn_output` is in order for any number of audio chunks, `StartStep` that
a new turn has the next number, and `LostIsSilent` that a lost connection tells nothing;
that no other turn has anything to tell is `LiveTurnOwnsSession`.

*The memory limiter.* The requests after any moment are those behind a cut of the sorted
deque (`CutAt`). `LimiterInv` says that for every moment not older than a window what was
granted after it is what the deque holds behind its cut. It has to say so for *every*
moment, not only for the beginning of the present window: the next trim is at a later
moment, and what it drops must not be missed by any window still to come. A trim is then a
cut (`popleft` while older), an answer compares what is behind it with the limit, and both
are what `SlidingWindow` says.

*The Redis limiter.* `RedisInv` is the types, `WellKeyed` (a request is counted under the
key of its own kind, identity and bucket) and `CountsAreCharged` (Redis knows of nothing
that was not charged: a key that expires only forgets). A refusal is decided by the count,
and justified because the count is at most what was charged.

`WindowLimitHolds` is the other direction: what was granted is at most the count. This can
only hold while the key lives. `WindowInv` adds that a request belongs to the bucket in
which its message was received (`Bucketed`, also for the second request of a chunk), that
a key with a count lives beyond the second after the end of its bucket (`KeysOutlive`), and
`GrantsCounted`: what was granted in time in a bucket never exceeds the limit, and until a
second after the bucket it is at most the count. A script that runs at most a second after
its message was received finds the count intact; one that runs later adds nothing to what
was granted in time, although it may make the key again.

*Tokens and hello.* `Loaded` (environment and settings never change), `MintedTokens` (what
a minted token contains, at any later time) and `ConnShape`. An accepted token has the
server's key, so it is not a forgery; it was minted, and by `MintedTokens` its times are
those of the minting clock, from which both boundaries follow by arithmetic. What the two
readings of the key have in common is needed only for `StartedServersHaveKeys`: under a
name without blanks they read the same text, and a server with a blank one was refused.
`OnlyHoldersSpend` rests on `AuthenticatedMeansMinted`: a message is counted under the
identity of its connection at that moment, which is the anonymous one, or by that invariant
the holder of a minted token; tokens and key never change, so what is in `spent` stays
justified when a later hello names someone else.

*Adapters.* `ReadyMeansServing` holds because `Ready` excludes every result in
`SetupErrors`, whatever the host is like, except the one of an address without a scheme;
the fallback needs `ProbedIsLoaded`: a Kokoro that a connection kept, although a fallback
was allowed, is loaded and is never loaded again.

*The smoke check.* Its steps are steps of `Adapters` or leave them alone, which gives
`SmokeImplementsAdapters` by cases. `SmokeInv` adds `ReadinessSeen` (past `readyz` the
script saw a ready deployment or was told not to care; the answer stays true, as `Ready`
rests on the settings alone) and `ScriptTurn` (the script's
turn has not begun, is in the pipeline with nothing sent, or has the result its events
tell). For a deterministic deployment `PlainRun` says what the script has received and what
is still to come: together one of the two sequences of events a turn has there.

*The bridge.* `BridgeInv` adds `CallsInOrder` (all calls of a session but its last are
answered, later ones are not made), `AsksCounted`, `InPool` and `NoCallTwice` to the
types: two calls of one session in the pool would both be its last one. A call that is
queued or runs is looked for in queue and workers through every step, so that the turn that
waits for it is never forgotten (`PoolConsistent`). A worker begins only what is still
queued, and when `Release` is done nothing of the session is (`NothingSentForTheGone`).

*The page.* `RoomInv` adds `MicConsistent` (what the page's variables hold is open) and
`CurrentIsGreeted` (the current socket, once open, has been greeted) to the properties:
only the current socket is sent on, and a socket that was replaced never becomes current
again before it is reused.

*Sums and folds.* What a recursive definition computes is out of the provers' reach when it
takes an induction over data with an operator as parameter. `Sums` does the induction in
another form: the set of the subsets for which the claim fails has, by a theorem about
finite sets, a smallest member, and there is none. `SumFunctionOnSet` is
turned so into a function on subsets (`SumIsTally`), two of which agree when they add the
same values, whichever element each takes out first (`TalliesAgree`); the fold of a
sequence is one that takes out the last (`TotalIsSum`).

*Only model-checked.* Liveness under fairness (`HandlerReturnsToLoop`, `CancelledTurnEnds`,
`CleanupEndsTurns`, `FedTurnEnds`, `SmokeEnds`, `AskEnds`, `LostTransportIsRetried`), for
which this prover has no rules. Every other property of a passing run is proved.

## 6. Possible extensions

1. The Control Room composed with `VoiceSession` over a network that delays frames; its
   playback of the audio it receives.
2. The whole server as a composition of several sessions, the pool of `OpenClawBridge` and
   one limiter.

## 7. Not modelled

* *Content*: transcripts, replies, audio samples, prompts, model inference, the text of
  messages and metadata. Which of several errors of one kind is reported, where the reader
  of the report is a person.
* *Of the Control Room*: preferences, panels, the level meter, playback and appearance;
  they are sequential code of the page that changes nothing the server sees.
* *Configuration fields* no other module depends on; they are read the same way.
* *HTTP endpoints* other than readiness: `healthz`, `metrics` and static files are reads.
* *Deployment files*: static configuration without behaviour of its own.
* *The process ending*: nothing is persisted, so a restart is a set of new connections. A
  loss of the Redis data makes its counts start anew.
