----------------------------- MODULE ControlRoom -----------------------------
(***************************************************************************)
(* The browser client, static/index.html: its sockets, the reconnect timer *)
(* and the microphone.  Handlers of a socket work on the page's variables, *)
(* also when another socket has taken its place in `ws`; startMic gives    *)
(* control back while the browser asks for permission and while the audio  *)
(* context resumes.  Every handler runs to its end (one event loop).  The  *)
(* server may send any event of the WebSocket contract at any time.        *)
(***************************************************************************)
EXTENDS ClientEvents, Integers

CONSTANTS
  MaxSockets,  \* bound: WebSocket objects that are not closed, and the current one
  MaxCaptures  \* bound: microphones that are requested or open, leaked ones included

ASSUME RoomAssumption == MaxSockets \in Nat \ {0} /\ MaxCaptures \in Nat

VARIABLES
  state, rendered,  \* STATE and if the socket was open when the buttons were last drawn
  ws, socket,       \* the current socket (0: null) and the readyState of each
  manual, auto,     \* manuallyDisconnected, the checkbox of auto reconnect
  timer,            \* a reconnect is scheduled
  owed,             \* history: the current socket was lost while a retry was wanted
  mic,              \* startMic calls waiting, streams and flush intervals open, those held
  wire,             \* history, per socket: "silent", "greeted" or "audio first"
  refused           \* history: the types of messages the server does not take

vars == <<state, rendered, ws, socket, manual, auto, timer, owed, mic, wire, refused>>

Sockets == 1..MaxSockets

IsOpen(sockets, k) == k # 0 /\ sockets[k] = "open"

Init ==
  /\ state = "disconnected" /\ rendered = FALSE
  /\ ws = 0 /\ socket = [k \in Sockets |-> "unused"]
  /\ manual = FALSE /\ auto \in BOOLEAN /\ timer = FALSE /\ owed = FALSE
  /\ mic = [asking |-> 0, resuming |-> 0, streams |-> 0, intervals |-> 0,
            held |-> FALSE, ticking |-> FALSE]
  /\ wire = [k \in Sockets |-> "silent"] /\ refused = {}

\* setState and renderState: the buttons are drawn for the socket as it is now.
SetState(next, isConnected) == state' = next /\ rendered' = isConnected

\* The buttons that are not disabled.
Enabled(button) ==
  CASE button = "connect"    -> ~rendered /\ state # "connecting"
    [] button = "disconnect" -> rendered
    [] button = "start"      -> rendered /\ state # "listening"
    [] button = "stop"       -> state = "listening"
    [] button = "cancel"     -> rendered
-----------------------------------------------------------------------------
(***************************************************************************)
(* Messages.                                                               *)
(***************************************************************************)
Fields == [type \in Inbound |->
  CASE type = "session.hello"     -> {"client", "protocol", "preferences", "client_meta"}
    [] type = "audio.input.chunk" -> {"pcm_b64", "sample_rate", "channels", "format"}
    [] type = "audio.input.end"   -> {}
    [] type = "session.cancel"    -> {"reason"}]

Verdict(type) == Parse([text |-> "object", keys |-> {"type", "payload"}, type |-> type,
                        payload |-> "object", fields |-> Fields[type]])

\* wsSend of some messages, one after the other, on the current socket if it is open.
Send(types, sockets) ==
  IF IsOpen(sockets, ws)
    THEN /\ wire' = [wire EXCEPT ![ws] =
              IF "session.hello" \in types THEN "greeted"
              ELSE IF @ = "silent" /\ types # {} THEN "audio first" ELSE @]
         /\ refused' = refused \cup {type \in types : Verdict(type) # "accepted"}
    ELSE UNCHANGED <<wire, refused>>
-----------------------------------------------------------------------------
(***************************************************************************)
(* The microphone.                                                         *)
(***************************************************************************)

\* cleanupAudio closes the stream and the interval the page's variables refer to.
Cleanup == [mic EXCEPT !.streams = IF mic.held THEN @ - 1 ELSE @, !.held = FALSE,
                       !.intervals = IF mic.ticking THEN @ - 1 ELSE @, !.ticking = FALSE]

StartMic ==
  /\ Enabled("start")
  /\ \A open \in {mic.streams, mic.intervals} : mic.asking + mic.resuming + open < MaxCaptures
  /\ IsOpen(socket, ws)
  /\ mic' = [mic EXCEPT !.asking = @ + 1]
  /\ UNCHANGED <<state, rendered, ws, socket, manual, auto, timer, owed, wire, refused>>

\* getUserMedia answers: refused, or a stream that takes the place of the last.
Permission ==
  /\ mic.asking > 0
  /\ \/ mic' = [mic EXCEPT !.asking = @ - 1]
     \/ mic' = [mic EXCEPT !.asking = @ - 1, !.resuming = @ + 1, !.streams = @ + 1, !.held = TRUE]
  /\ UNCHANGED <<state, rendered, ws, socket, manual, auto, timer, owed, wire, refused>>

\* MUTANT of Resumed: what happened while it waited is not noticed.
ResumedAnyhow ==
  /\ mic.resuming > 0
  /\ mic' = [mic EXCEPT !.resuming = @ - 1]
  /\ SetState("listening", IsOpen(socket, ws))
  /\ UNCHANGED <<ws, socket, manual, auto, timer, owed, wire, refused>>

\* The audio context is running, and startMic goes on with what the page's variables
\* are now; without a context it raises, as it does if the context was closed.
Resumed ==
  /\ mic.resuming > 0
  /\ \/ /\ mic' = [mic EXCEPT !.resuming = @ - 1]
        /\ UNCHANGED <<state, rendered>>
     \/ /\ mic.held
        /\ mic' = [mic EXCEPT !.resuming = @ - 1, !.intervals = @ + 1, !.ticking = TRUE]
        /\ SetState("listening", IsOpen(socket, ws))
  /\ UNCHANGED <<ws, socket, manual, auto, timer, owed, wire, refused>>

\* An interval ends while a stream has given samples.
FlushChunk ==
  /\ mic.intervals > 0 /\ mic.streams > 0
  /\ Send({"audio.input.chunk"}, socket)
  /\ UNCHANGED <<state, rendered, ws, socket, manual, auto, timer, owed, mic>>

StopMicAndEndTurn ==
  /\ Enabled("stop")
  /\ \E last \in {{}, {"audio.input.chunk"}} : Send(last \cup {"audio.input.end"}, socket)
  /\ mic' = Cleanup
  /\ SetState("processing", IsOpen(socket, ws))
  /\ UNCHANGED <<ws, socket, manual, auto, timer, owed>>

CancelClick ==
  /\ Enabled("cancel")
  /\ Send({"session.cancel"}, socket)
  /\ mic' = Cleanup
  /\ SetState(IF IsOpen(socket, ws) THEN "connected" ELSE "disconnected", IsOpen(socket, ws))
  /\ UNCHANGED <<ws, socket, manual, auto, timer, owed>>
-----------------------------------------------------------------------------
(***************************************************************************)
(* The transport.                                                          *)
(***************************************************************************)
Reusable == {k \in Sockets : k # ws /\ socket[k] \in {"unused", "closed"}}

\* connectWs draws the buttons before it replaces the socket, and leaves the old one
\* and the microphone as they are.
ConnectWs ==
  /\ manual' = FALSE /\ owed' = FALSE
  /\ SetState("connecting", IsOpen(socket, ws))
  /\ \E k \in Reusable :
       /\ ws' = k
       /\ socket' = [socket EXCEPT ![k] = "connecting"]
       /\ wire' = [wire EXCEPT ![k] = "silent"]
  /\ UNCHANGED <<auto, mic, refused>>

ConnectClick == Enabled("connect") /\ ConnectWs /\ UNCHANGED timer

TimerFires == timer /\ ConnectWs /\ timer' = FALSE

\* MUTANT of Greeting: the hello waits for session.ready.
GreetingLater == {}

Greeting == {"session.hello"}

OnOpen(k) ==
  /\ socket[k] = "connecting"
  /\ socket' = [socket EXCEPT ![k] = "open"]
  /\ SetState("connected", IsOpen(socket', ws))
  /\ Send(Greeting, socket')
  /\ UNCHANGED <<ws, manual, auto, timer, owed, mic>>

\* The events that change more than what is shown.
OnMessage(k) ==
  /\ socket[k] = "open"
  /\ \/ SetState("processing", IsOpen(socket, ws))                             \* stt.*
     \/ state # "listening" /\ SetState("connected", IsOpen(socket, ws))       \* session.done
  /\ UNCHANGED <<ws, socket, manual, auto, timer, owed, mic, wire, refused>>

\* MUTANT of QueueReconnect: whether the operator disconnected is not asked.
QueueReconnectAlways == timer' = (timer \/ auto)

\* MUTANT of QueueReconnect: a page that lost its socket waits for the operator.
QueueReconnectNever == UNCHANGED timer

\* A timer that is already set is replaced.
QueueReconnect == timer' = (timer \/ (auto /\ ~manual))

\* The socket is closed by either side, or could not be opened.
OnClose(k) ==
  /\ socket[k] \in {"connecting", "open", "closing"}
  /\ socket' = [socket EXCEPT ![k] = "closed"]
  /\ mic' = Cleanup
  /\ SetState("disconnected", IsOpen(socket', ws))
  /\ QueueReconnect
  /\ owed' = (owed \/ (k = ws /\ auto /\ ~manual))
  /\ UNCHANGED <<ws, manual, auto, wire, refused>>

DisconnectClick ==
  /\ Enabled("disconnect")
  /\ manual' = TRUE
  /\ mic' = Cleanup
  /\ socket' = IF IsOpen(socket, ws) THEN [socket EXCEPT ![ws] = "closing"] ELSE socket
  /\ timer' = FALSE /\ owed' = FALSE
  /\ SetState("disconnected", FALSE)
  /\ UNCHANGED <<ws, auto, wire, refused>>

\* A preference is changed, the checkbox of auto reconnect or another: the buttons are
\* drawn anew.
ChangePreference ==
  /\ auto' \in BOOLEAN
  /\ SetState(state, IsOpen(socket, ws))
  /\ UNCHANGED <<ws, socket, manual, timer, owed, mic, wire, refused>>

Operator ==
  \/ ConnectClick \/ DisconnectClick \/ StartMic \/ StopMicAndEndTurn \/ CancelClick
  \/ ChangePreference

Next ==
  \/ Operator
  \/ Permission \/ Resumed \/ FlushChunk \/ TimerFires
  \/ \E k \in Sockets : OnOpen(k) \/ OnMessage(k) \/ OnClose(k)

Spec == Init /\ [][Next]_vars

\* The browser's timers fire.  Nothing is assumed of the operator or the server.
FairSpec == Spec /\ WF_vars(TimerFires)
-----------------------------------------------------------------------------
TypeOK ==
  /\ state \in {"disconnected", "connecting", "connected", "listening", "processing"}
  /\ {rendered, manual, auto, timer, owed} \subseteq BOOLEAN
  /\ ws \in 0..MaxSockets
  /\ socket \in [Sockets -> {"unused", "connecting", "open", "closing", "closed"}]
  /\ mic \in [asking : 0..MaxCaptures, resuming : 0..MaxCaptures, streams : 0..MaxCaptures,
              intervals : 0..MaxCaptures, held : BOOLEAN, ticking : BOOLEAN]
  /\ wire \in [Sockets -> {"silent", "greeted", "audio first"}]
  /\ refused \subseteq Inbound

\* On every socket the first message is the hello: no audio, end or cancel overtakes
\* it, whichever socket is current when another opens, closes or is replaced while
\* the microphone is on.
HelloComesFirst == \A k \in Sockets : wire[k] # "audio first"

\* While the page says it listens, and offers Stop, it has a stream and an interval
\* that Stop would close, and they are open.
ListeningMeansCapturing ==
  state = "listening" => mic.held /\ mic.ticking /\ mic.streams > 0 /\ mic.intervals > 0

\* After the operator has disconnected no reconnect is scheduled, also when the
\* sockets the page had opened are closed later.  (A socket that is still connecting is
\* not closed by Disconnect and may open afterwards.)
DisconnectCancelsRetry == manual => ~timer

\* A page that lost its current socket while auto reconnect was checked and the operator
\* had not disconnected tries again, also if the box is unchecked meanwhile, unless the
\* operator disconnects or so many sockets are still open that the bound is reached.
LostTransportIsRetried ==
  owed ~> \/ manual \/ Reusable = {}
          \/ ws # 0 /\ (ws # 0 => socket[ws] \in {"connecting", "open"})

\* README.md, "Operator controls available now": "start mic", "stop mic + send turn".
\* The server takes every message of the page.
TurnsAreAccepted == refused = {}
=============================================================================
