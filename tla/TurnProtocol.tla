----------------------------- MODULE TurnProtocol -----------------------------
(***************************************************************************)
(* What a connection promises a client about turns: the order of the       *)
(* events that name a turn.  The state is what the client has seen.        *)
(***************************************************************************)
EXTENDS Naturals

CONSTANT Partials  \* whether a partial transcript precedes the final one

VARIABLES last_event,  \* the last event that named a turn
          turn_events  \* how many there were

protocolVars == <<last_event, turn_events>>

BetweenTurns(last) == last.type \in {"none", "session.done"}

\* A turn is announced by its transcript, or ended without any output.
OpensTurn(last, e) ==
  /\ BetweenTurns(last)
  /\ e.turn_id = last.turn_id + 1
  /\ \/ e.type = (IF Partials THEN "stt.partial" ELSE "stt.final")
     \/ e.type = "session.done" /\ e.note \in {"cancelled", "error"}

\* After that: transcript, reply, audio chunks numbered from 0, completion.
ContinuesTurn(last, e) ==
  /\ ~BetweenTurns(last)
  /\ e.turn_id = last.turn_id
  /\ \/ last.type = "stt.partial" /\ e.type = "stt.final"
     \/ last.type = "stt.final" /\ e.type = "agent.reply"
     \/ last.type = "agent.reply" /\ e.type = "audio.output.chunk" /\ e.index = 0
     \/ /\ last.type = "audio.output.chunk"
        /\ e.type = "audio.output.chunk"
        /\ e.index = last.index + 1
     \/ /\ last.type \in {"agent.reply", "audio.output.chunk"}
        /\ e.type = "session.done"
        /\ e.note = "turn-complete"

MayFollow(last, e) == OpensTurn(last, e) \/ ContinuesTurn(last, e)

ProtocolInit == last_event.type = "none" /\ last_event.turn_id = 0 /\ turn_events = 0

ProtocolNext == turn_events' = turn_events + 1 /\ MayFollow(last_event, last_event')

ProtocolSpec == ProtocolInit /\ [][ProtocolNext]_protocolVars
=============================================================================
