---------------------------- MODULE MC_VoiceSession ----------------------------
(***************************************************************************)
(* Instances of VoiceSession, and the client's view of them as an          *)
(* implementation of TurnProtocol.  The .cfg files choose the mode, the    *)
(* limits and the client's repertoire.                                     *)
(***************************************************************************)
EXTENDS VoiceSession

Protocol == INSTANCE TurnProtocol WITH Partials <- Mode = "streaming"

\* The client's view of turns is one TurnProtocol allows: turns in order and one
\* at a time, each with exactly one done, which comes last; a turn heard of
\* before its done is complete; audio chunks numbered without gap.
ClientSeesProtocol == Protocol!ProtocolSpec
=============================================================================
