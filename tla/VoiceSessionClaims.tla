--------------------------- MODULE VoiceSessionClaims ---------------------------
(***************************************************************************)
(* What the repository's documentation, messages and metric descriptions   *)
(* say of a session and the code does not keep.  Each property is checked  *)
(* by a run of its own, whose counterexample shows the disagreement.       *)
(***************************************************************************)
EXTENDS VoiceSession

\* The receive loop decides in this step to answer its client with these events.
Answers(events) == peer = "up" /\ outbox[Handler] = <<>> /\ outbox'[Handler] = events

\* app.py:514, "A turn is already running": the answer TURN_IN_PROGRESS to
\* audio.input.end means that a turn task is alive.
InProgressMeansRunning ==
  [][Answers(<<Error("TURN_IN_PROGRESS")>>) => \E t \in TurnTasks : Live(t)]_vars

\* docs/operations.md, "invalid/empty audio chunk => session.error (BAD_AUDIO_CHUNK)":
\* no message of the client ends run() while the socket is open.
MessageNeverEndsSession ==
  [][handler_pc = "recv" /\ handler_pc' = "crashed" => application_state = "DISCONNECTED"]_vars
=============================================================================
