---------------------------- MODULE VoiceSession ----------------------------
(***************************************************************************)
(* One websocket connection of the voice server: VoiceSessionHandler, its  *)
(* SessionState, and VoicePipeline.run_turn inside the turn task.          *)
(*                                                                         *)
(* Everything runs on one event loop, so code between two awaits is one    *)
(* action.  The receive loop (Handler) takes a message, changes the        *)
(* session and leaves the events it then awaits in its outbox; a turn      *)
(* task advances from one adapter call or one event to the next.  Both     *)
(* send through EventSender.  The client is free: it sends any message at  *)
(* any time and may leave at any time.                                     *)
(***************************************************************************)
EXTENDS EventSender, Sequences, FiniteSets, SequencesExt

CONSTANTS
  Handler,            \* the task that runs VoiceSessionHandler.run
  Mode,               \* cfg.ws_processing_mode: "buffered" or "streaming"
  AuthOff,            \* cfg.ws_auth_mode = "off"
  MaxBufferedChunks,  \* cfg.ws_max_buffered_chunks
  MaxBufferedBytes,   \* cfg.ws_max_buffered_audio_bytes
  MaxPending,         \* cfg.ws_streaming_max_pending_chunks
  ChunkSizes,         \* sizes of the chunks the client sends
  Inputs,             \* the kinds of messages and faults of this instance
  MaxMessages,        \* bound: messages received in one run
  MaxOut              \* bound: audio chunks the TTS yields in one turn

TurnTasks == Tasks \ {Handler}  \* bound: turn tasks one run may create

InputKinds == {"hello", "bad token", "cancel", "chunk", "bad chunk", "end", "malformed",
               "undecodable chunk", "over event limit", "over audio limit", "limiter raises",
               "adapter raises"}

ASSUME VoiceAssumption ==
  /\ Handler \in Tasks
  /\ Mode \in {"buffered", "streaming"}
  /\ AuthOff \in BOOLEAN
  /\ MaxBufferedChunks \in Nat \ {0}
  /\ MaxBufferedBytes \in Nat \ {0}
  /\ MaxPending \in Nat \ {0}
  /\ ChunkSizes \subseteq Nat \ {0}
  /\ Inputs \subseteq InputKinds
  /\ MaxMessages \in Nat
  /\ MaxOut \in Nat

VARIABLES
  \* SessionState
  hello_received, auth_ok,
  incoming_chunks, incoming_bytes,
  current_turn_id,
  current_turn,           \* the turn task whose TurnState it is, or None
  turn_task,
  stream_queue,           \* the name of the asyncio.Queue, or None
  stream_pending_chunks,
  \* control
  handler_pc,             \* where the receive loop is
  tpc,                    \* where each turn task is
  outbox,                 \* the events a task still has to send, in order
  interrupted,            \* task.cancel() was called on the turn task
  \* state local to a turn
  cancelled,              \* TurnState.cancelled
  turn_id,                \* TurnState.turn_id
  chunks,                 \* the chunks a buffered turn has not pulled yet
  queue_of,               \* the queue run_streaming_turn was given
  audio_chunks,           \* how many chunks the TTS has yielded
  queues,                 \* the contents of each asyncio.Queue
  metrics,                \* this connection's share of RuntimeMetrics
  \* history
  last_heard,             \* the last chunk a pipeline passed to its VAD
  last_event,             \* the last event about a turn the client received
  turn_events             \* how many of those it received

incomingVars == <<incoming_chunks, incoming_bytes>>
authVars == <<hello_received, auth_ok>>
turnRefVars == <<current_turn_id, current_turn, turn_task>>
streamVars == <<stream_queue, stream_pending_chunks, queues>>
turnVars == <<tpc, interrupted, cancelled, turn_id, chunks, queue_of, audio_chunks>>
historyVars == <<last_heard, last_event, turn_events>>
vars == <<senderVars, incomingVars, authVars, turnRefVars, streamVars, turnVars,
          handler_pc, outbox, metrics, historyVars>>
-----------------------------------------------------------------------------
(***************************************************************************)
(* Events.  turn_id is 0 in an event whose payload names no turn.          *)
(***************************************************************************)
EventTypes == {"none", "session.ready", "session.error", "session.done", "stt.partial",
               "stt.final", "agent.reply", "audio.output.chunk"}

Notes == {"", "RATE_LIMITED", "BAD_EVENT", "AUTH_FAILED", "AUTH_REQUIRED", "BAD_AUDIO_CHUNK",
          "TURN_BUFFER_OVERFLOW", "TURN_IN_PROGRESS", "EMPTY_TURN", "ADAPTER_FAILURE",
          "PIPELINE_FAILURE", "cancelled", "rate-limited", "error", "turn-complete"}

Event == [type : EventTypes, turn_id : Nat, note : Notes, index : Nat]

TurnEvent(type, id, note, index) ==
  [type |-> type, turn_id |-> id, note |-> note, index |-> index]

Ready == TurnEvent("session.ready", 0, "", 0)
Error(code) == TurnEvent("session.error", 0, code, 0)
Done(id, reason) == TurnEvent("session.done", id, reason, 0)

\* MUTANT of TurnOutput: the reply overtakes the final transcript.
TurnOutputReplyFirst(id, n) ==
  (IF Mode = "streaming" THEN <<TurnEvent("stt.partial", id, "", 0)>> ELSE <<>>)
    \o <<TurnEvent("agent.reply", id, "", 0), TurnEvent("stt.final", id, "", 0)>>
    \o [i \in 1..n |-> TurnEvent("audio.output.chunk", id, "", i - 1)]

\* emit_turn_output, preceded in streaming mode by the partial transcript.
TurnOutput(id, n) ==
  (IF Mode = "streaming" THEN <<TurnEvent("stt.partial", id, "", 0)>> ELSE <<>>)
    \o <<TurnEvent("stt.final", id, "", 0), TurnEvent("agent.reply", id, "", 0)>>
    \o [i \in 1..n |-> TurnEvent("audio.output.chunk", id, "", i - 1)]

Chunk == [id : Nat, size : ChunkSizes]

\* The None that ends a stream of chunks.
Sentinel == [id |-> 0, size |-> 0]

\* ws_<counter>_total, or ws_turns_<counter>_total.
Counters == {"messages_in", "started", "completed", "cancelled", "failed", "rate_limited",
             "auth_failures"}

Live(t) == tpc[t] \notin {"unborn", "ended"}

Init ==
  /\ SenderInit
  /\ hello_received = FALSE
  /\ auth_ok = FALSE
  /\ incoming_chunks = <<>>
  /\ incoming_bytes = 0
  /\ current_turn_id = 0
  /\ current_turn = None
  /\ turn_task = None
  /\ stream_queue = None
  /\ stream_pending_chunks = 0
  /\ handler_pc = "accept"
  /\ tpc = [t \in TurnTasks |-> "unborn"]
  /\ outbox = [t \in Tasks |-> IF t = Handler THEN <<Ready>> ELSE <<>>]
  /\ interrupted = [t \in TurnTasks |-> FALSE]
  /\ cancelled = [t \in TurnTasks |-> FALSE]
  /\ turn_id = [t \in TurnTasks |-> 0]
  /\ chunks = [t \in TurnTasks |-> <<>>]
  /\ queue_of = [t \in TurnTasks |-> None]
  /\ audio_chunks = [t \in TurnTasks |-> 0]
  /\ queues = [t \in TurnTasks |-> <<>>]
  /\ metrics = [c \in Counters |-> 0]
  /\ last_heard = 0
  /\ last_event = TurnEvent("none", 0, "", 0)
  /\ turn_events = 0
-----------------------------------------------------------------------------
(***************************************************************************)
(* The receive loop: run() and the handlers it awaits.  Each handler does  *)
(* all its work before its first send and nothing after its last one, so   *)
(* one message is one action that leaves the replies in the outbox.        *)
(***************************************************************************)

\* `while True: await self.ws.receive_text()`: the call raises RuntimeError,
\* which run() does not catch, once a failed send has marked the socket.
NextReceive == IF application_state = "CONNECTED" THEN "recv" ELSE "crashed"

\* receive_text returns a message of this kind; `counts` are the counters, in
\* addition to ws_messages_in_total, that its handler increments.
Inbound(kind, counts) ==
  /\ kind \in Inputs
  /\ handler_pc = "recv"
  /\ metrics["messages_in"] < MaxMessages
  /\ metrics' = [c \in Counters |->
                   IF c \in counts \cup {"messages_in"} THEN metrics[c] + 1 ELSE metrics[c]]

Reply(events, then) ==
  /\ outbox' = [outbox EXCEPT ![Handler] = events]
  /\ handler_pc' = then

NoReply == handler_pc' = NextReceive /\ UNCHANGED outbox

\* MUTANT of ClearIncoming: the byte count is not reset.
ClearIncomingChunks == incoming_chunks' = <<>> /\ UNCHANGED incoming_bytes

\* MUTANT of ClearIncoming: the chunks stay for the next turn.
ClearIncomingBytes == incoming_bytes' = 0 /\ UNCHANGED incoming_chunks

\* incoming_chunks.clear(); incoming_bytes = 0
ClearIncoming == incoming_chunks' = <<>> /\ incoming_bytes' = 0

\* MUTANT of PutNowait: the sentinel is forgotten.
PutNothing(item) == queues

\* put_nowait on the session's queue; QueueFull is swallowed.
PutNowait(item) ==
  IF stream_queue # None /\ Len(queues[stream_queue]) < MaxPending
    THEN [queues EXCEPT ![stream_queue] = Append(@, item)]
    ELSE queues

MarkCurrentTurn ==
  IF current_turn # None THEN [cancelled EXCEPT ![current_turn] = TRUE] ELSE cancelled

\* MUTANT of AuthorizedForAudio: only a client that said hello has to be authenticated.
AuthorizedUnlessHello == AuthOff \/ ~hello_received \/ auth_ok

\* _require_auth_for_audio
AuthorizedForAudio == AuthOff \/ (hello_received /\ auth_ok)

\* allow_event or the verdict on audio: the limiter refuses before any handler runs.
EventRefused ==
  /\ Inbound("over event limit", {"rate_limited"})
  /\ Reply(<<Error("RATE_LIMITED")>>, "send")
  /\ UNCHANGED <<senderVars, incomingVars, authVars, turnRefVars, streamVars,
                 turnVars, historyVars>>

\* The handler raises something run() does not catch: a Redis limiter whose server
\* fails, or b64decode on text that is not ASCII (a ValueError, not a
\* binascii.Error).  cleanup_on_disconnect is not called; the server drops the socket.
HandlerRaises ==
  /\ \/ Inbound("limiter raises", {})
     \/ Inbound("undecodable chunk", {}) /\ AuthorizedForAudio
  /\ handler_pc' = "crashed"
  /\ peer' = "gone"
  /\ UNCHANGED <<next_seq, seq_lock, sending, envelope, application_state, delivered,
                 last_seq, outbox, incomingVars, authVars, turnRefVars, streamVars,
                 turnVars, historyVars>>

\* EVENT_TOO_LARGE, BAD_JSON, UNSUPPORTED_EVENT and BAD_EVENT.
Malformed ==
  /\ Inbound("malformed", {})
  /\ Reply(<<Error("BAD_EVENT")>>, "send")
  /\ UNCHANGED <<senderVars, incomingVars, authVars, turnRefVars, streamVars,
                 turnVars, historyVars>>

\* handle_hello when authentication is off or the token is good.
HelloAccepted ==
  /\ Inbound("hello", {})
  /\ hello_received' = TRUE
  /\ auth_ok' = TRUE
  /\ Reply(<<Ready>>, "hello")
  /\ UNCHANGED <<senderVars, incomingVars, turnRefVars, streamVars, turnVars, historyVars>>

\* handle_hello with a missing or a bad token: auth_fail_and_close.  An earlier
\* success stays recorded in auth_ok.
HelloRejected ==
  /\ ~AuthOff
  /\ Inbound("bad token", {"auth_failures"})
  /\ hello_received' = TRUE
  /\ Reply(<<Error("AUTH_FAILED")>>, "reject")
  /\ UNCHANGED <<senderVars, incomingVars, auth_ok, turnRefVars, streamVars,
                 turnVars, historyVars>>

\* handle_cancel.
Cancel ==
  /\ Inbound("cancel", {})
  /\ cancelled' = MarkCurrentTurn
  /\ ClearIncoming
  /\ queues' = PutNowait(Sentinel)
  /\ IF turn_task = None /\ incoming_chunks # <<>>
       THEN Reply(<<Done(0, "cancelled")>>, "send")
       ELSE NoReply
  /\ UNCHANGED <<senderVars, authVars, turnRefVars, stream_queue, stream_pending_chunks,
                 tpc, interrupted, turn_id, chunks, queue_of, audio_chunks, historyVars>>

\* handle_audio_in and handle_audio_end of a client that has not authenticated.
AudioUnauthorized ==
  /\ \E kind \in {"chunk", "bad chunk", "undecodable chunk", "end", "over audio limit"} :
       Inbound(kind, {})
  /\ ~AuthorizedForAudio
  /\ Reply(<<Error("AUTH_REQUIRED")>>, "send")
  /\ UNCHANGED <<senderVars, incomingVars, authVars, turnRefVars, streamVars,
                 turnVars, historyVars>>

\* BAD_AUDIO_CHUNK and AUDIO_CHUNK_TOO_LARGE.
BadChunk ==
  /\ Inbound("bad chunk", {})
  /\ AuthorizedForAudio
  /\ Reply(<<Error("BAD_AUDIO_CHUNK")>>, "send")
  /\ UNCHANGED <<senderVars, incomingVars, authVars, turnRefVars, streamVars,
                 turnVars, historyVars>>

\* allow_audio_bytes refuses the chunk.
AudioRefused ==
  /\ Inbound("over audio limit", {"rate_limited"})
  /\ AuthorizedForAudio
  /\ ClearIncoming
  /\ Reply(<<Error("RATE_LIMITED"), Done(0, "rate-limited")>>, "send")
  /\ UNCHANGED <<senderVars, authVars, turnRefVars, streamVars, turnVars, historyVars>>

Overflow == <<Error("TURN_BUFFER_OVERFLOW"), Done(0, "error")>>

\* A chunk, named by the message that brought it.
NewChunk(size) == [id |-> metrics["messages_in"] + 1, size |-> size]

\* _handle_buffered_audio_chunk
FitsBuffer(size) ==
  /\ Len(incoming_chunks) < MaxBufferedChunks
  /\ incoming_bytes + size <= MaxBufferedBytes

BufferChunk(size) ==
  /\ Mode = "buffered"
  /\ Inbound("chunk", {})
  /\ AuthorizedForAudio
  /\ IF FitsBuffer(size)
       THEN /\ incoming_chunks' = Append(incoming_chunks, NewChunk(size))
            /\ incoming_bytes' = incoming_bytes + size
            /\ NoReply
       ELSE ClearIncoming /\ Reply(Overflow, "send")
  /\ UNCHANGED <<senderVars, authVars, turnRefVars, streamVars, turnVars, historyVars>>

\* asyncio.create_task: the task exists at once and runs at a later iteration.
FreshTask == CHOOSE t \in TurnTasks : tpc[t] = "unborn"

CreateTurn(t, audio, queue) ==
  /\ turn_task' = t
  /\ tpc' = [tpc EXCEPT ![t] = "created"]
  /\ chunks' = [chunks EXCEPT ![t] = audio]
  /\ queue_of' = [queue_of EXCEPT ![t] = queue]
  /\ UNCHANGED <<current_turn_id, current_turn, interrupted, cancelled, turn_id, audio_chunks>>

\* _handle_streaming_audio_chunk.  A new queue carries the name of a fresh task.
StreamChunk(size) ==
  LET queue == IF stream_queue = None THEN FreshTask ELSE stream_queue
      full  == \/ stream_pending_chunks >= MaxPending
               \/ Len(queues[queue]) >= MaxPending
  IN
  /\ Mode = "streaming"
  /\ Inbound("chunk", {})
  /\ AuthorizedForAudio
  /\ stream_queue = None \/ turn_task = None => \E t \in TurnTasks : tpc[t] = "unborn"
  /\ stream_queue' = queue
  /\ IF full
       THEN /\ Reply(Overflow, "send")
            /\ UNCHANGED <<queues, stream_pending_chunks, turnRefVars, turnVars>>
       ELSE /\ queues' = [queues EXCEPT ![queue] = Append(@, NewChunk(size))]
            /\ stream_pending_chunks' = stream_pending_chunks + 1
            /\ IF turn_task = None
                 THEN CreateTurn(FreshTask, <<>>, queue)
                 ELSE UNCHANGED <<turnRefVars, turnVars>>
            /\ NoReply
  /\ UNCHANGED <<senderVars, incomingVars, authVars, historyVars>>

\* handle_audio_end in buffered mode.
EndBuffered ==
  /\ Mode = "buffered"
  /\ Inbound("end", {})
  /\ AuthorizedForAudio
  /\ IF turn_task # None
       THEN /\ Reply(<<Error("TURN_IN_PROGRESS")>>, "send")
            /\ UNCHANGED <<incomingVars, turnRefVars, turnVars>>
       ELSE /\ \E t \in TurnTasks : tpc[t] = "unborn"
            /\ CreateTurn(FreshTask, incoming_chunks, None)
            /\ ClearIncoming
            /\ NoReply
  /\ UNCHANGED <<senderVars, authVars, streamVars, historyVars>>

\* handle_audio_end in streaming mode.
EndStreaming ==
  /\ Mode = "streaming"
  /\ Inbound("end", {})
  /\ AuthorizedForAudio
  /\ queues' = PutNowait(Sentinel)
  /\ IF stream_queue = None
       THEN Reply(<<Error("EMPTY_TURN")>>, "send")
       ELSE IF Len(queues[stream_queue]) < MaxPending THEN NoReply ELSE Reply(Overflow, "send")
  /\ UNCHANGED <<senderVars, incomingVars, authVars, turnRefVars, stream_queue,
                 stream_pending_chunks, turnVars, historyVars>>

Receive ==
  \/ EventRefused \/ HandlerRaises \/ Malformed \/ HelloAccepted \/ HelloRejected
  \/ Cancel \/ AudioUnauthorized \/ BadChunk \/ AudioRefused
  \/ \E size \in ChunkSizes : BufferChunk(size) \/ StreamChunk(size)
  \/ EndBuffered \/ EndStreaming
-----------------------------------------------------------------------------
(***************************************************************************)
(* How run() goes on after a send, and how it ends.                        *)
(***************************************************************************)

\* MUTANT of CleanupOnDisconnect: the turn task is not cancelled.
CleanupWithoutCancel ==
  /\ cancelled' = MarkCurrentTurn
  /\ queues' = PutNowait(Sentinel)
  /\ handler_pc' = "cleaned"
  /\ UNCHANGED interrupted

\* cleanup_on_disconnect, called for a WebSocketDisconnect and nothing else.
CleanupOnDisconnect ==
  /\ cancelled' = MarkCurrentTurn
  /\ queues' = PutNowait(Sentinel)
  /\ interrupted' = IF turn_task # None THEN [interrupted EXCEPT ![turn_task] = TRUE]
                                        ELSE interrupted
  /\ handler_pc' = "cleaned"

cleanupUnchanged == <<incomingVars, authVars, turnRefVars, stream_queue, stream_pending_chunks,
                      tpc, turn_id, chunks, queue_of, audio_chunks, metrics, historyVars>>

\* receive_text reports that the client is gone.
ReceiveDisconnect ==
  /\ handler_pc = "recv"
  /\ peer = "gone"
  /\ CleanupOnDisconnect
  /\ UNCHANGED <<senderVars, outbox, cleanupUnchanged>>

\* A send of the receive loop came back: the next one, or the end of the handler.
HandlerSent ==
  /\ Release(Handler)
  /\ outbox' = [outbox EXCEPT ![Handler] = Tail(@)]
  /\ handler_pc' = CASE Len(outbox[Handler]) > 1          -> handler_pc
                     [] handler_pc = "reject"             -> "close"
                     [] handler_pc = "hello" /\ application_state = "DISCONNECTED" -> "returned"
                     [] OTHER                             -> NextReceive
  /\ UNCHANGED <<incomingVars, authVars, turnRefVars, streamVars, turnVars, metrics, historyVars>>

\* A send of the receive loop raised.  Only a WebSocketDisconnect, and only one
\* raised inside the try of run(), reaches the cleanup.
HandlerSendFails ==
  /\ TransmitFails(Handler)
  /\ outbox' = [outbox EXCEPT ![Handler] = <<>>]
  /\ IF application_state = "CONNECTED" /\ handler_pc # "accept"
       THEN CleanupOnDisconnect
       ELSE handler_pc' = "crashed" /\ UNCHANGED <<cancelled, queues, interrupted>>
  /\ UNCHANGED cleanupUnchanged

\* auth_fail_and_close: ws.close(1008), after which run() returns.  Like a send,
\* close raises WebSocketDisconnect when the loss of the peer is noticed and
\* RuntimeError on a socket that is marked already.
CloseAfterReject ==
  /\ handler_pc = "close"
  /\ \/ /\ MarkClosed
        /\ handler_pc' = "returned"
        /\ UNCHANGED <<cancelled, queues, interrupted>>
     \/ MarkClosed /\ peer = "gone" /\ CleanupOnDisconnect
     \/ /\ application_state = "DISCONNECTED"
        /\ handler_pc' = "crashed"
        /\ UNCHANGED <<senderVars, cancelled, queues, interrupted>>
  /\ UNCHANGED <<outbox, cleanupUnchanged>>
-----------------------------------------------------------------------------
(***************************************************************************)
(* The turn task: run_buffered_turn or run_streaming_turn around           *)
(* VoicePipeline.run_turn.  tpc names the await the task is in:            *)
(*   created -> listen -> vad -> listen ... -> stt -> ask -> tts -> emit   *)
(*   -> complete -> ended; closing reports a cancellation or a failure,    *)
(*   empty reports a turn without audio.                                   *)
(***************************************************************************)
sessionUnchanged == <<incomingVars, authVars, handler_pc>>

At(t, pc) == tpc[t] = pc /\ ~interrupted[t]

Goto(t, pc) == tpc' = [tpc EXCEPT ![t] = pc]

Enqueue(t, events) == outbox' = [outbox EXCEPT ![t] = events]

Count(counter) == metrics' = [metrics EXCEPT ![counter] = @ + 1]

\* MUTANT of CancelTurn: the counter is forgotten.
CancelTurnUncounted(t) ==
  /\ Goto(t, "closing")
  /\ Enqueue(t, <<Done(turn_id[t], "cancelled")>>)
  /\ UNCHANGED metrics

\* `except PipelineCancelled`
CancelTurn(t) ==
  /\ Goto(t, "closing")
  /\ Count("cancelled")
  /\ Enqueue(t, <<Done(turn_id[t], "cancelled")>>)

\* `except PipelineAdapterFailure` and `except Exception`
FailTurn(t, code) ==
  /\ Goto(t, "closing")
  /\ Count("failed")
  /\ Enqueue(t, <<Error(code), Done(turn_id[t], "error")>>)

\* MUTANT of FinishTurn: current_turn keeps pointing at the finished turn.
FinishTurnKeepingTurn(t) ==
  /\ Goto(t, "ended")
  /\ turn_task' = None
  /\ IF Mode = "streaming"
       THEN /\ stream_queue' = None
            /\ stream_pending_chunks' = 0
            /\ queues' = [queues EXCEPT ![queue_of[t]] = <<>>]
       ELSE UNCHANGED streamVars
  /\ UNCHANGED current_turn

\* MUTANT of FinishTurn: the count of pending chunks is not reset.
FinishTurnKeepingPending(t) ==
  /\ Goto(t, "ended")
  /\ current_turn' = None
  /\ turn_task' = None
  /\ IF Mode = "streaming"
       THEN stream_queue' = None /\ queues' = [queues EXCEPT ![queue_of[t]] = <<>>]
       ELSE UNCHANGED <<stream_queue, queues>>
  /\ UNCHANGED stream_pending_chunks

\* `finally` of the turn, and the task is over.  The queue loses its last reader.
FinishTurn(t) ==
  /\ Goto(t, "ended")
  /\ current_turn' = None
  /\ turn_task' = None
  /\ IF Mode = "streaming"
       THEN /\ stream_queue' = None
            /\ stream_pending_chunks' = 0
            /\ queues' = [queues EXCEPT ![queue_of[t]] = <<>>]
       ELSE UNCHANGED streamVars

\* The task ends without having entered the try block: no `finally` runs.
EndWithoutFinally(t) ==
  /\ Goto(t, "ended")
  /\ UNCHANGED <<current_turn, turn_task, streamVars>>

\* A buffered turn without audio reports EMPTY_TURN before its try block.
StartTurn(t) ==
  /\ At(t, "created")
  /\ IF Mode = "buffered" /\ chunks[t] = <<>>
       THEN /\ Goto(t, "empty")
            /\ Enqueue(t, <<Error("EMPTY_TURN")>>)
            /\ UNCHANGED <<current_turn_id, current_turn, turn_id, metrics>>
       ELSE /\ Goto(t, "listen")
            /\ current_turn_id' = current_turn_id + 1
            /\ turn_id' = [turn_id EXCEPT ![t] = current_turn_id + 1]
            /\ current_turn' = t
            /\ Count("started")
            /\ UNCHANGED outbox
  /\ UNCHANGED <<senderVars, sessionUnchanged, turn_task, streamVars, interrupted, cancelled,
                 chunks, queue_of, audio_chunks, historyVars>>

\* MUTANT of EnsureNotCancelled: the check is missing.
EnsureNothing(t, pc) == Goto(t, pc) /\ UNCHANGED <<outbox, metrics>>

\* _ensure_not_cancelled: the turn goes on at pc, or PipelineCancelled is raised.
EnsureNotCancelled(t, pc) ==
  IF cancelled[t] THEN CancelTurn(t)
                  ELSE Goto(t, pc) /\ UNCHANGED <<outbox, metrics>>

Available(t) == IF Mode = "buffered" THEN chunks[t] ELSE queues[queue_of[t]]

\* MUTANT of Pop: the chunk is read and left where it is.
PopNothing(t) == UNCHANGED <<chunks, queues>>

\* The chunk, or the sentinel, is taken out.
Pop(t) == IF Mode = "buffered"
            THEN chunks' = [chunks EXCEPT ![t] = Tail(@)] /\ UNCHANGED queues
            ELSE queues' = [queues EXCEPT ![queue_of[t]] = Tail(@)] /\ UNCHANGED chunks

\* chunk_iter yields a chunk; run_turn checks for cancellation and asks the VAD.
NextChunk(t) ==
  /\ At(t, "listen")
  /\ Available(t) # <<>>
  /\ Head(Available(t)) # Sentinel
  /\ Pop(t)
  /\ stream_pending_chunks' =
       IF Mode = "streaming" /\ stream_pending_chunks > 0 THEN stream_pending_chunks - 1
                                                          ELSE stream_pending_chunks
  /\ EnsureNotCancelled(t, "vad")
  /\ last_heard' = IF cancelled[t] THEN last_heard ELSE Head(Available(t)).id
  /\ UNCHANGED <<senderVars, sessionUnchanged, turnRefVars, stream_queue, interrupted,
                 cancelled, turn_id, queue_of, audio_chunks, last_event, turn_events>>

turnStepUnchanged == <<senderVars, sessionUnchanged, turnRefVars, stream_queue,
                       stream_pending_chunks, interrupted, cancelled, turn_id, queue_of,
                       historyVars>>

\* chunk_iter ends: the list is used up, or the sentinel came out of the queue.
EndOfAudio(t) ==
  /\ At(t, "listen")
  /\ IF Mode = "buffered"
       THEN chunks[t] = <<>> /\ UNCHANGED <<chunks, queues>>
       ELSE Available(t) # <<>> /\ Head(Available(t)) = Sentinel /\ Pop(t)
  /\ EnsureNotCancelled(t, "stt")
  /\ UNCHANGED <<turnStepUnchanged, audio_chunks>>

\* vad.detect_speech returns; what it says only selects what the STT hears.
VadReturns(t) ==
  /\ At(t, "vad")
  /\ Goto(t, "listen")
  /\ UNCHANGED <<turnStepUnchanged, outbox, metrics, chunks, queues, audio_chunks>>

\* The STT's segments are in; the check after each one is the check after the last.
SttReturns(t) ==
  /\ At(t, "stt")
  /\ EnsureNotCancelled(t, "ask")
  /\ UNCHANGED <<turnStepUnchanged, chunks, queues, audio_chunks>>

\* bridge.ask returns the agent's reply.
BridgeReturns(t) ==
  /\ At(t, "ask")
  /\ EnsureNotCancelled(t, "tts")
  /\ UNCHANGED <<turnStepUnchanged, chunks, queues, audio_chunks>>

\* tts.synthesize_stream yields an audio chunk.
TtsYields(t) ==
  /\ At(t, "tts")
  /\ audio_chunks[t] < MaxOut
  /\ EnsureNotCancelled(t, "tts")
  /\ audio_chunks' = [audio_chunks EXCEPT ![t] = IF cancelled[t] THEN @ ELSE @ + 1]
  /\ UNCHANGED <<turnStepUnchanged, chunks, queues>>

\* tts.synthesize_stream ends: run_turn returns without another check.
TtsEnds(t) ==
  /\ At(t, "tts")
  /\ Goto(t, "emit")
  /\ Enqueue(t, TurnOutput(turn_id[t], audio_chunks[t]))
  /\ UNCHANGED <<turnStepUnchanged, metrics, chunks, queues, audio_chunks>>

\* An adapter raises: an AdapterError or anything else.
AdapterRaises(t) ==
  /\ "adapter raises" \in Inputs
  /\ \E pc \in {"vad", "stt", "ask", "tts"} : At(t, pc)
  /\ \E code \in {"ADAPTER_FAILURE", "PIPELINE_FAILURE"} : FailTurn(t, code)
  /\ UNCHANGED <<turnStepUnchanged, chunks, queues, audio_chunks>>
-----------------------------------------------------------------------------
(***************************************************************************)
(* Sending, and what a turn does when a send returns or raises.            *)
(***************************************************************************)
sendUnchanged == <<incomingVars, authVars, turnRefVars, streamVars, turnVars, handler_pc,
                   outbox, metrics>>

Interrupted(t) == t \in TurnTasks /\ interrupted[t]

\* A task enters send_event with the next event of its outbox.
BeginSend(t) ==
  /\ outbox[t] # <<>>
  /\ ~Interrupted(t)
  /\ Acquire(t)
  /\ UNCHANGED <<sendUnchanged, historyVars>>

\* The frame leaves; if it arrives and names a turn, the client takes note.
WriteFrame(t) ==
  /\ ~Interrupted(t)
  /\ Transmit(t)
  /\ IF peer = "up" /\ Head(outbox[t]).turn_id # 0
       THEN last_event' = Head(outbox[t]) /\ turn_events' = turn_events + 1
       ELSE UNCHANGED <<last_event, turn_events>>
  /\ UNCHANGED <<sendUnchanged, last_heard>>

turnSendUnchanged == <<sessionUnchanged, current_turn_id, interrupted, cancelled, turn_id,
                       chunks, queue_of, audio_chunks, historyVars>>

\* A send of the turn came back: the next event, or what follows the last one.
TurnSent(t) ==
  /\ ~interrupted[t]
  /\ Release(t)
  /\ \/ /\ Len(outbox[t]) > 1
        /\ Enqueue(t, Tail(outbox[t]))
        /\ UNCHANGED <<tpc, metrics, current_turn, turn_task, streamVars>>
     \/ /\ Len(outbox[t]) = 1 /\ tpc[t] = "emit"
        /\ Goto(t, "complete")
        /\ Count("completed")
        /\ Enqueue(t, <<Done(turn_id[t], "turn-complete")>>)
        /\ UNCHANGED <<current_turn, turn_task, streamVars>>
     \/ /\ Len(outbox[t]) = 1 /\ tpc[t] \in {"complete", "closing"}
        /\ FinishTurn(t)
        /\ Enqueue(t, <<>>)
        /\ UNCHANGED metrics
     \/ /\ Len(outbox[t]) = 1 /\ tpc[t] = "empty"
        /\ EndWithoutFinally(t)
        /\ Enqueue(t, <<>>)
        /\ UNCHANGED metrics
  /\ UNCHANGED turnSendUnchanged

\* A send of the turn raised.  `except Exception` catches it inside the try,
\* also after ws_turns_completed_total was counted; raised by the events of an
\* except block it goes straight to `finally`.
TurnSendFails(t) ==
  /\ ~interrupted[t]
  /\ TransmitFails(t)
  /\ \/ /\ tpc[t] \in {"emit", "complete"}
        /\ FailTurn(t, "PIPELINE_FAILURE")
        /\ UNCHANGED <<current_turn, turn_task, streamVars>>
     \/ /\ tpc[t] = "closing"
        /\ FinishTurn(t)
        /\ Enqueue(t, <<>>)
        /\ UNCHANGED metrics
     \/ /\ tpc[t] = "empty"
        /\ EndWithoutFinally(t)
        /\ Enqueue(t, <<>>)
        /\ UNCHANGED metrics
  /\ UNCHANGED turnSendUnchanged

\* CancelledError after task.cancel(): no except clause catches it, `finally`
\* runs if the task is inside the try block.
TurnInterrupted(t) ==
  /\ interrupted[t]
  /\ Live(t)
  /\ Interrupt(t)
  /\ IF tpc[t] \in {"created", "empty"} THEN EndWithoutFinally(t) ELSE FinishTurn(t)
  /\ Enqueue(t, <<>>)
  /\ UNCHANGED <<metrics, turnSendUnchanged>>

ClientLeaves ==
  /\ PeerLeaves
  /\ UNCHANGED <<sendUnchanged, historyVars>>

-----------------------------------------------------------------------------
HandlerStep == \/ WriteFrame(Handler) \/ HandlerSent \/ HandlerSendFails
               \/ CloseAfterReject \/ ReceiveDisconnect

TurnStep(t) ==
  \/ StartTurn(t) \/ NextChunk(t) \/ EndOfAudio(t) \/ VadReturns(t) \/ SttReturns(t)
  \/ BridgeReturns(t) \/ TtsYields(t) \/ TtsEnds(t) \/ AdapterRaises(t)
  \/ WriteFrame(t) \/ TurnSent(t) \/ TurnSendFails(t) \/ TurnInterrupted(t)

Next ==
  \/ Receive
  \/ HandlerStep
  \/ \E t \in TurnTasks : TurnStep(t)
  \/ \E t \in Tasks : BeginSend(t)
  \/ ClientLeaves

Spec == Init /\ [][Next]_vars

\* The event loop runs every ready task, adapter calls return (the bridge has a
\* timeout, the local models are finite), a send returns or raises, and
\* asyncio.Lock serves its waiters in order, so a waiter cannot starve though
\* the lock is free only now and then.  The client owes nothing.
Fairness ==
  /\ WF_vars(HandlerStep)
  /\ \A t \in TurnTasks : WF_vars(TurnStep(t))
  /\ \A t \in Tasks : SF_vars(BeginSend(t))

FairSpec == Spec /\ Fairness
-----------------------------------------------------------------------------
SessionTypeOK ==
  /\ hello_received \in BOOLEAN /\ auth_ok \in BOOLEAN
  /\ incoming_chunks \in Seq(Chunk) /\ incoming_bytes \in Nat
  /\ current_turn_id \in Nat
  /\ {current_turn, turn_task, stream_queue} \subseteq TurnTasks \cup {None}
  /\ stream_pending_chunks \in Nat
  /\ handler_pc \in {"accept", "recv", "send", "hello", "reject", "close",
                     "returned", "crashed", "cleaned"}
  /\ metrics \in [Counters -> Nat]

TurnTypeOK ==
  /\ tpc \in [TurnTasks -> {"unborn", "created", "empty", "listen", "vad", "stt", "ask", "tts",
                            "emit", "complete", "closing", "ended"}]
  /\ interrupted \in [TurnTasks -> BOOLEAN]
  /\ cancelled \in [TurnTasks -> BOOLEAN]
  /\ turn_id \in [TurnTasks -> Nat]
  /\ chunks \in [TurnTasks -> Seq(Chunk)]
  /\ queue_of \in [TurnTasks -> TurnTasks \cup {None}]
  /\ audio_chunks \in [TurnTasks -> Nat]
  /\ queues \in [TurnTasks -> Seq(Chunk \cup {Sentinel})]

EventTypeOK ==
  /\ outbox \in [Tasks -> Seq(Event)]
  /\ last_heard \in Nat /\ turn_events \in Nat
  /\ last_event \in Event

TypeOK == SenderTypeOK /\ SessionTypeOK /\ TurnTypeOK /\ EventTypeOK

(***************************************************************************)
(* Safety.                                                                 *)
(***************************************************************************)

Started(t) == tpc[t] \notin {"unborn", "created", "empty", "ended"}

\* The session's references never point at one turn while another is running:
\* a live turn task is the one in turn_task, its TurnState is current_turn from
\* the moment it starts, and in streaming mode it reads the session's queue.
\* Hence there is at most one live turn, a cancel reaches it, and the `finally`
\* of a turn never resets the state of the next.
LiveTurnOwnsSession ==
  \A t \in TurnTasks : Live(t) =>
    /\ turn_task = t
    /\ current_turn = IF Started(t) THEN t ELSE None
    /\ Mode = "streaming" => stream_queue = queue_of[t]

\* stream_pending_chunks, which the server tests before it accepts a chunk, is
\* the number of chunks (sentinels excluded) in the queue the session fills.
PendingCountsQueuedChunks ==
  IF stream_queue = None
    THEN stream_pending_chunks = 0
    ELSE stream_pending_chunks =
           Cardinality({i \in DOMAIN queues[stream_queue] : queues[stream_queue][i] # Sentinel})

Bytes(audio) == FoldLeft(LAMBDA sum, chunk : sum + chunk.size, 0, audio)

\* incoming_bytes is the size of the buffered chunks, through every reset
\* (cancel, rate limit, overflow, end), and the configured limits hold.
BufferAccounting ==
  /\ incoming_bytes = Bytes(incoming_chunks)
  /\ incoming_bytes <= MaxBufferedBytes
  /\ Len(incoming_chunks) <= MaxBufferedChunks

\* No audio of a client that has not authenticated is kept, queued or heard.
NoAudioBeforeAuth ==
  ~AuthOff /\ ~auth_ok =>
    /\ incoming_chunks = <<>>
    /\ stream_queue = None
    /\ \A t \in TurnTasks : tpc[t] = "unborn"

\* Pipelines hear the client's audio in the order it was sent and no chunk twice,
\* neither within a turn nor in the turn after it.
AudioHeardOnceInOrder ==
  [][\A t \in TurnTasks :
       tpc[t] = "listen" /\ tpc'[t] = "vad" => last_heard' > last_heard]_vars

\* A turn cancelled before the agent's reply is in stays cancelled and never gets
\* to its output, whichever await it was in: all that is left is to report it.
BeforeReply(t) == tpc[t] \in {"listen", "vad", "stt", "ask"}

CancelledTurnStaysSilent ==
  [][\A t \in TurnTasks :
       cancelled[t] /\ BeforeReply(t) =>
         (cancelled[t] /\ BeforeReply(t))' \/ tpc'[t] \in {"closing", "ended"}]_vars

\* As long as the connection is intact every started turn is accounted for
\* exactly once, as completed, cancelled or failed, or is still at work.
TurnsAccounted ==
  peer = "up" /\ application_state = "CONNECTED" =>
    metrics["started"] = metrics["completed"] + metrics["cancelled"] + metrics["failed"]
      + Cardinality({t \in TurnTasks : Started(t) /\ tpc[t] \notin {"complete", "closing"}})

(***************************************************************************)
(* Liveness, under Fairness.                                               *)
(***************************************************************************)

\* A turn marked cancelled ends, even if its queue was too full to take the
\* sentinel, is empty, or the connection is lost meanwhile.
CancelledTurnEnds == \A t \in TurnTasks : cancelled[t] ~> tpc[t] = "ended"

\* After the cleanup for a lost connection no turn is left running.
CleanupEndsTurns == handler_pc = "cleaned" ~> \A t \in TurnTasks : ~Live(t)

\* A turn that has been given all its audio ends: it is never left waiting for
\* the lock, for the client or for a sentinel that has been consumed.
FedTurnEnds ==
  \A t \in TurnTasks :
    (IF Mode = "buffered"
       THEN tpc[t] = "created"
       ELSE Live(t) /\ Sentinel \in ToSet(queues[queue_of[t]]))
      ~> tpc[t] = "ended"

\* The receive loop always gets back to the client's next message, whatever a
\* turn is sending at the same time, or run() is over.
HandlerReturnsToLoop ==
  handler_pc \in {"accept", "send", "hello", "reject", "close"}
    ~> handler_pc \in {"recv", "returned", "crashed", "cleaned"}
=============================================================================
