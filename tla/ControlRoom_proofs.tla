-------------------------- MODULE ControlRoom_proofs --------------------------
(***************************************************************************)
(* Proofs about ControlRoom, for any number of sockets and of microphones  *)
(* requested at a time.                                                    *)
(***************************************************************************)
EXTENDS ControlRoom, TLAPS

MicType == [asking : 0..MaxCaptures, resuming : 0..MaxCaptures, streams : 0..MaxCaptures,
            intervals : 0..MaxCaptures, held : BOOLEAN, ticking : BOOLEAN]

\* What the page holds on to is open, and what was requested stays within the bound.
MicConsistent ==
  /\ mic.held => mic.streams >= 1
  /\ mic.ticking => mic.intervals >= 1
  /\ mic.asking + mic.streams <= MaxCaptures
  /\ mic.asking + mic.resuming + mic.intervals <= MaxCaptures

\* Only the current socket is sent on, and when it opened it was greeted.  Another
\* socket may be open and silent; it does not become current again.
CurrentIsGreeted == ws # 0 /\ socket[ws] = "open" => wire[ws] = "greeted"

ListeningHolds == state = "listening" => mic.held /\ mic.ticking

OnlyChunksRefused == refused \subseteq {"audio.input.chunk"}

RoomInv ==
  /\ TypeOK /\ MicConsistent /\ CurrentIsGreeted /\ HelloComesFirst
  /\ ListeningHolds /\ DisconnectCancelsRetry /\ OnlyChunksRefused

LEMMA CurrentSocket == TypeOK /\ ws # 0 => ws \in Sockets
<1> SUFFICES ASSUME TypeOK, ws # 0 PROVE ws \in Sockets
  OBVIOUS
<1>1. ws \in 0..MaxSockets
  BY DEF TypeOK
<1> QED
  BY <1>1, RoomAssumption DEF Sockets

LEMMA MicNumbers ==
  ASSUME TypeOK
  PROVE  /\ mic \in MicType
         /\ mic.asking \in 0..MaxCaptures /\ mic.resuming \in 0..MaxCaptures
         /\ mic.streams \in 0..MaxCaptures /\ mic.intervals \in 0..MaxCaptures
         /\ mic.held \in BOOLEAN /\ mic.ticking \in BOOLEAN
<1>1. mic \in MicType
  BY DEF TypeOK, MicType
<1> QED
  BY <1>1 DEF MicType

\* What the parser makes of the page's messages.
LEMMA PageMessages ==
  /\ Verdict("session.hello") = "accepted"
  /\ Verdict("audio.input.end") = "accepted"
  /\ Verdict("session.cancel") = "accepted"
<1>1. /\ Fields["session.hello"] = {"client", "protocol", "preferences", "client_meta"}
      /\ Fields["audio.input.end"] = {} /\ Fields["session.cancel"] = {"reason"}
  BY DEF Fields, Inbound
<1>2. ASSUME NEW type \in {"session.hello", "audio.input.end", "session.cancel"}
      PROVE  Verdict(type) = "accepted"
  <2>1. type \in Inbound /\ AllowedPayload(type, Fields[type])
    BY <1>1 DEF Inbound, AllowedPayload
  <2>2. Parse([text |-> "object", keys |-> {"type", "payload"}, type |-> type,
               payload |-> "object", fields |-> Fields[type]]) = "accepted"
    BY <2>1 DEF Parse
  <2> QED
    BY <2>2 DEF Verdict
<1> QED
  BY <1>2

\* Sending leaves all but the two histories alone and keeps what is known of them.
LEMMA SendKeeps ==
  ASSUME TypeOK, CurrentIsGreeted, HelloComesFirst, OnlyChunksRefused,
         NEW types \in SUBSET Inbound, Send(types, socket)
  PROVE  /\ wire' \in [Sockets -> {"silent", "greeted", "audio first"}]
         /\ \A k \in Sockets : wire'[k] # "audio first" /\ (wire[k] = "greeted" => wire'[k] = "greeted")
         /\ refused' \subseteq {"audio.input.chunk"}
<1>1. CASE IsOpen(socket, ws)
  <2>1. ws \in Sockets /\ wire[ws] = "greeted"
    BY <1>1, CurrentSocket DEF IsOpen, CurrentIsGreeted
  <2>2. wire' = [wire EXCEPT ![ws] = "greeted"]
    BY <1>1, <2>1 DEF Send
  <2>3. refused' = refused \cup {type \in types : Verdict(type) # "accepted"}
    BY <1>1 DEF Send
  <2>4. \A type \in types : Verdict(type) # "accepted" => type = "audio.input.chunk"
    BY PageMessages DEF Inbound
  <2> QED
    BY <2>1, <2>2, <2>3, <2>4 DEF TypeOK, HelloComesFirst, OnlyChunksRefused
<1>2. CASE ~IsOpen(socket, ws)
  BY <1>2 DEF Send, TypeOK, HelloComesFirst, OnlyChunksRefused
<1> QED
  BY <1>1, <1>2

LEMMA CleanupKeeps ==
  ASSUME TypeOK, MicConsistent, mic' = Cleanup
  PROVE  mic' \in MicType /\ MicConsistent'
<1>1. mic \in MicType
  BY DEF TypeOK, MicType
<1>2. mic' = [asking |-> mic.asking, resuming |-> mic.resuming,
              streams |-> IF mic.held THEN mic.streams - 1 ELSE mic.streams,
              intervals |-> IF mic.ticking THEN mic.intervals - 1 ELSE mic.intervals,
              held |-> FALSE, ticking |-> FALSE]
  BY <1>1 DEF Cleanup, MicType
<1>3. /\ mic.asking \in 0..MaxCaptures /\ mic.resuming \in 0..MaxCaptures
      /\ mic.streams \in 0..MaxCaptures /\ mic.intervals \in 0..MaxCaptures
  BY <1>1 DEF MicType
<1> DEFINE streams == IF mic.held THEN mic.streams - 1 ELSE mic.streams
           intervals == IF mic.ticking THEN mic.intervals - 1 ELSE mic.intervals
<1>4. /\ streams \in 0..MaxCaptures /\ intervals \in 0..MaxCaptures
      /\ streams <= mic.streams /\ intervals <= mic.intervals
  BY <1>3, RoomAssumption DEF MicConsistent
<1> HIDE DEF streams, intervals
<1>5. mic' = [asking |-> mic.asking, resuming |-> mic.resuming, streams |-> streams,
              intervals |-> intervals, held |-> FALSE, ticking |-> FALSE]
  BY <1>2 DEF streams, intervals
<1>6. mic' \in MicType
  BY <1>3, <1>4, <1>5 DEF MicType
<1>7. MicConsistent'
  BY <1>3, <1>4, <1>5, RoomAssumption DEF MicConsistent
<1> QED
  BY <1>6, <1>7

LEMMA RoomInit == Init => RoomInv
<1> SUFFICES ASSUME Init PROVE RoomInv
  OBVIOUS
<1>1. /\ mic = [asking |-> 0, resuming |-> 0, streams |-> 0, intervals |-> 0,
                held |-> FALSE, ticking |-> FALSE]
      /\ 0 \in 0..MaxCaptures /\ 0 \in 0..MaxSockets
  BY RoomAssumption DEF Init
<1>2. mic \in MicType /\ MicConsistent
  BY <1>1, RoomAssumption DEF MicType, MicConsistent
<1>3. TypeOK
  BY <1>1, <1>2 DEF Init, TypeOK, MicType
<1>4. CurrentIsGreeted /\ HelloComesFirst /\ ListeningHolds /\ DisconnectCancelsRetry /\ OnlyChunksRefused
  BY DEF Init, CurrentIsGreeted, HelloComesFirst, ListeningHolds, DisconnectCancelsRetry,
     OnlyChunksRefused
<1> QED
  BY <1>2, <1>3, <1>4 DEF RoomInv

\* startMic before and after the permission dialog.
LEMMA CaptureInv ==
  ASSUME RoomInv, StartMic \/ Permission
  PROVE  RoomInv'
<1> USE RoomAssumption DEF RoomInv
<1>1. /\ mic \in MicType
      /\ mic.asking \in 0..MaxCaptures /\ mic.resuming \in 0..MaxCaptures
      /\ mic.streams \in 0..MaxCaptures /\ mic.intervals \in 0..MaxCaptures
      /\ mic.held \in BOOLEAN /\ mic.ticking \in BOOLEAN
  BY MicNumbers
<1>2. /\ mic' \in MicType /\ MicConsistent'
      /\ (mic.held => mic'.held) /\ (mic.ticking => mic'.ticking)
  <2>1. CASE StartMic
    <3>1. mic.asking + mic.resuming + mic.streams < MaxCaptures
          /\ mic.asking + mic.resuming + mic.intervals < MaxCaptures
      BY <2>1 DEF StartMic
    <3>2. mic' = [asking |-> mic.asking + 1, resuming |-> mic.resuming, streams |-> mic.streams,
                  intervals |-> mic.intervals, held |-> mic.held, ticking |-> mic.ticking]
      BY <2>1, <1>1 DEF StartMic, MicType
    <3>3. mic.asking + 1 \in 0..MaxCaptures
      BY <1>1, <3>1
    <3>4. mic' \in MicType
      BY <1>1, <3>2, <3>3 DEF MicType
    <3>5. MicConsistent'
      BY <1>1, <3>1, <3>2 DEF MicConsistent
    <3> QED
      BY <3>2, <3>4, <3>5
  <2>2. CASE mic.asking > 0 /\ mic' = [mic EXCEPT !.asking = @ - 1]
    <3>1. mic' = [asking |-> mic.asking - 1, resuming |-> mic.resuming, streams |-> mic.streams,
                  intervals |-> mic.intervals, held |-> mic.held, ticking |-> mic.ticking]
      BY <2>2, <1>1 DEF MicType
    <3> QED
      BY <1>1, <2>2, <3>1 DEF MicType, MicConsistent
  <2>3. CASE mic.asking > 0
             /\ mic' = [mic EXCEPT !.asking = @ - 1, !.resuming = @ + 1, !.streams = @ + 1, !.held = TRUE]
    <3>1. mic' = [asking |-> mic.asking - 1, resuming |-> mic.resuming + 1, streams |-> mic.streams + 1,
                  intervals |-> mic.intervals, held |-> TRUE, ticking |-> mic.ticking]
      BY <2>3, <1>1 DEF MicType
    <3>2. /\ mic.asking - 1 \in 0..MaxCaptures /\ mic.resuming + 1 \in 0..MaxCaptures
          /\ mic.streams + 1 \in 0..MaxCaptures
      BY <1>1, <2>3 DEF MicConsistent
    <3>3. mic' \in MicType
      BY <1>1, <3>1, <3>2 DEF MicType
    <3>4. MicConsistent'
      BY <1>1, <3>1 DEF MicConsistent
    <3> QED
      BY <3>1, <3>3, <3>4
  <2> QED
    BY <2>1, <2>2, <2>3 DEF Permission
<1>3. UNCHANGED <<state, rendered, ws, socket, manual, auto, timer, owed, wire, refused>>
  BY DEF StartMic, Permission
<1>4. TypeOK'
  BY <1>2, <1>3 DEF TypeOK, MicType
<1>5. CurrentIsGreeted' /\ HelloComesFirst' /\ ListeningHolds' /\ DisconnectCancelsRetry' /\ OnlyChunksRefused'
  BY <1>2, <1>3 DEF CurrentIsGreeted, HelloComesFirst, ListeningHolds, DisconnectCancelsRetry,
     OnlyChunksRefused
<1> QED
  BY <1>2, <1>4, <1>5

LEMMA ResumedInv ==
  ASSUME RoomInv, Resumed
  PROVE  RoomInv'
<1> USE RoomAssumption DEF RoomInv
<1>1. /\ mic \in MicType /\ mic.resuming > 0
      /\ mic.asking \in 0..MaxCaptures /\ mic.resuming \in 0..MaxCaptures
      /\ mic.streams \in 0..MaxCaptures /\ mic.intervals \in 0..MaxCaptures
      /\ mic.held \in BOOLEAN /\ mic.ticking \in BOOLEAN
  BY MicNumbers DEF Resumed
<1>2. UNCHANGED <<ws, socket, manual, auto, timer, owed, wire, refused>>
  BY DEF Resumed
<1>3. CurrentIsGreeted' /\ HelloComesFirst' /\ DisconnectCancelsRetry' /\ OnlyChunksRefused'
  BY <1>2 DEF CurrentIsGreeted, HelloComesFirst, DisconnectCancelsRetry, OnlyChunksRefused
<1>4. CASE mic' = [mic EXCEPT !.resuming = @ - 1] /\ UNCHANGED <<state, rendered>>
  <2>1. mic' = [asking |-> mic.asking, resuming |-> mic.resuming - 1, streams |-> mic.streams,
                intervals |-> mic.intervals, held |-> mic.held, ticking |-> mic.ticking]
    BY <1>1, <1>4 DEF MicType
  <2>2. mic' \in MicType /\ MicConsistent' /\ ListeningHolds'
    BY <1>1, <1>4, <2>1 DEF MicType, MicConsistent, ListeningHolds
  <2>3. TypeOK'
    BY <1>2, <1>4, <2>2 DEF TypeOK, MicType
  <2> QED
    BY <1>3, <2>2, <2>3
<1>5. CASE /\ mic.held
           /\ mic' = [mic EXCEPT !.resuming = @ - 1, !.intervals = @ + 1, !.ticking = TRUE]
           /\ SetState("listening", IsOpen(socket, ws))
  <2>1. mic' = [asking |-> mic.asking, resuming |-> mic.resuming - 1, streams |-> mic.streams,
                intervals |-> mic.intervals + 1, held |-> TRUE, ticking |-> TRUE]
    BY <1>1, <1>5 DEF MicType
  <2>a. mic.intervals + 1 \in 0..MaxCaptures /\ mic.resuming - 1 \in 0..MaxCaptures
    BY <1>1 DEF MicConsistent
  <2>b. mic' \in MicType
    BY <1>1, <2>1, <2>a DEF MicType
  <2>c. MicConsistent'
    BY <1>1, <1>5, <2>1 DEF MicConsistent
  <2>2. mic' \in MicType /\ MicConsistent' /\ ListeningHolds'
    BY <2>1, <2>b, <2>c DEF ListeningHolds
  <2>3. TypeOK'
    BY <1>2, <1>5, <2>2 DEF TypeOK, MicType, SetState, IsOpen
  <2> QED
    BY <1>3, <2>2, <2>3
<1> QED
  BY <1>4, <1>5 DEF Resumed

LEMMA FlushChunkInv ==
  ASSUME RoomInv, FlushChunk
  PROVE  RoomInv'
<1> USE DEF RoomInv
<1>1. /\ wire' \in [Sockets -> {"silent", "greeted", "audio first"}]
      /\ \A k \in Sockets : wire'[k] # "audio first" /\ (wire[k] = "greeted" => wire'[k] = "greeted")
      /\ refused' \subseteq {"audio.input.chunk"}
  BY SendKeeps DEF FlushChunk, Inbound
<1>2. UNCHANGED <<state, rendered, ws, socket, manual, auto, timer, owed, mic>>
  BY DEF FlushChunk
<1>3. TypeOK'
  BY <1>1, <1>2 DEF TypeOK, Inbound
<1>4. CurrentIsGreeted'
  BY <1>1, <1>2, CurrentSocket DEF CurrentIsGreeted
<1> QED
  BY <1>1, <1>2, <1>3, <1>4
  DEF MicConsistent, HelloComesFirst, ListeningHolds, DisconnectCancelsRetry, OnlyChunksRefused

\* The buttons that end a turn: they may send, close the microphone and draw the page.
LEMMA ButtonInv ==
  ASSUME RoomInv, StopMicAndEndTurn \/ CancelClick
  PROVE  RoomInv'
<1> USE DEF RoomInv
<1>1. PICK types \in SUBSET Inbound : Send(types, socket)
  <2>1. ASSUME NEW last \in {{}, {"audio.input.chunk"}}
        PROVE  last \cup {"audio.input.end"} \in SUBSET Inbound
    BY DEF Inbound
  <2>2. {"session.cancel"} \in SUBSET Inbound
    BY DEF Inbound
  <2> QED
    BY <2>1, <2>2 DEF StopMicAndEndTurn, CancelClick
<1>2. /\ wire' \in [Sockets -> {"silent", "greeted", "audio first"}]
      /\ \A k \in Sockets : wire'[k] # "audio first" /\ (wire[k] = "greeted" => wire'[k] = "greeted")
      /\ refused' \subseteq {"audio.input.chunk"}
  BY <1>1, SendKeeps
<1>3. /\ UNCHANGED <<ws, socket, manual, auto, timer, owed>> /\ mic' = Cleanup
      /\ state' \in {"processing", "connected", "disconnected"} /\ rendered' \in BOOLEAN
  BY DEF StopMicAndEndTurn, CancelClick, SetState, IsOpen
<1>4. mic' \in MicType /\ MicConsistent'
  BY <1>3, CleanupKeeps
<1>5. TypeOK'
  BY <1>2, <1>3, <1>4 DEF TypeOK, Inbound, MicType
<1>6. CurrentIsGreeted'
  BY <1>2, <1>3, CurrentSocket DEF CurrentIsGreeted
<1> QED
  BY <1>2, <1>3, <1>4, <1>5, <1>6 DEF HelloComesFirst, ListeningHolds, DisconnectCancelsRetry,
     OnlyChunksRefused

LEMMA ConnectInv ==
  ASSUME RoomInv, ConnectClick \/ TimerFires
  PROVE  RoomInv'
<1> USE DEF RoomInv
<1>1. ConnectWs /\ timer' \in BOOLEAN /\ owed' = FALSE
  BY DEF ConnectClick, TimerFires, ConnectWs, TypeOK
<1>2. PICK k \in Reusable : /\ ws' = k
                            /\ socket' = [socket EXCEPT ![k] = "connecting"]
                            /\ wire' = [wire EXCEPT ![k] = "silent"]
  BY <1>1 DEF ConnectWs
<1>3. k \in Sockets /\ k \in 0..MaxSockets
  BY RoomAssumption DEF Reusable, Sockets
<1>4. /\ UNCHANGED <<auto, mic, refused>> /\ manual' = FALSE
      /\ state' = "connecting" /\ rendered' \in BOOLEAN
  BY <1>1 DEF ConnectWs, SetState, IsOpen
<1>5. TypeOK'
  BY <1>1, <1>2, <1>3, <1>4 DEF TypeOK
<1>6. CurrentIsGreeted' /\ HelloComesFirst'
  BY <1>2, <1>3 DEF CurrentIsGreeted, HelloComesFirst, TypeOK
<1> QED
  BY <1>4, <1>5, <1>6 DEF MicConsistent, ListeningHolds, DisconnectCancelsRetry, OnlyChunksRefused

LEMMA OnOpenInv ==
  ASSUME RoomInv, NEW k \in Sockets, OnOpen(k)
  PROVE  RoomInv'
<1> USE DEF RoomInv
<1>1. /\ socket' = [socket EXCEPT ![k] = "open"] /\ UNCHANGED <<ws, manual, auto, timer, owed, mic>>
      /\ state' = "connected" /\ rendered' \in BOOLEAN
  BY DEF OnOpen, SetState, IsOpen
<1>2. /\ wire' \in [Sockets -> {"silent", "greeted", "audio first"}]
      /\ \A j \in Sockets : wire'[j] # "audio first"
      /\ ws # 0 /\ socket'[ws] = "open" => wire'[ws] = "greeted"
      /\ refused' = refused
  <2>1. CASE IsOpen(socket', ws)
    <3>1. ws \in Sockets
      BY <1>1, <2>1, CurrentSocket DEF IsOpen
    <3>2. wire' = [wire EXCEPT ![ws] = "greeted"]
      BY <2>1 DEF OnOpen, Send, Greeting
    <3>3. refused' = refused
      BY <2>1, PageMessages DEF OnOpen, Send, Greeting
    <3> QED
      BY <3>1, <3>2, <3>3 DEF TypeOK, HelloComesFirst
  <2>2. CASE ~IsOpen(socket', ws)
    BY <2>2 DEF OnOpen, Send, IsOpen, TypeOK, HelloComesFirst
  <2> QED
    BY <2>1, <2>2
<1>3. TypeOK'
  BY <1>1, <1>2 DEF TypeOK
<1> QED
  BY <1>1, <1>2, <1>3
  DEF MicConsistent, CurrentIsGreeted, HelloComesFirst, ListeningHolds, DisconnectCancelsRetry,
      OnlyChunksRefused

LEMMA OnMessageInv ==
  ASSUME RoomInv, NEW k \in Sockets, OnMessage(k)
  PROVE  RoomInv'
<1> USE DEF RoomInv
<1>1. /\ UNCHANGED <<ws, socket, manual, auto, timer, owed, mic, wire, refused>>
      /\ state' \in {"processing", "connected"} /\ rendered' \in BOOLEAN
  BY DEF OnMessage, SetState, IsOpen
<1>2. TypeOK'
  BY <1>1 DEF TypeOK
<1> QED
  BY <1>1, <1>2
  DEF MicConsistent, CurrentIsGreeted, HelloComesFirst, ListeningHolds, DisconnectCancelsRetry,
      OnlyChunksRefused

LEMMA PreferenceInv ==
  ASSUME RoomInv, ChangePreference
  PROVE  RoomInv'
<1> USE DEF RoomInv
<1>1. /\ UNCHANGED <<state, ws, socket, manual, timer, owed, mic, wire, refused>>
      /\ auto' \in BOOLEAN /\ rendered' \in BOOLEAN
  BY DEF ChangePreference, SetState, IsOpen
<1>2. TypeOK'
  BY <1>1 DEF TypeOK
<1> QED
  BY <1>1, <1>2
  DEF MicConsistent, CurrentIsGreeted, HelloComesFirst, ListeningHolds, DisconnectCancelsRetry,
      OnlyChunksRefused

\* The two ways a connection ends: the microphone is closed, no socket opens, and
\* no timer is set that the operator does not want.
LEMMA DisconnectInv ==
  ASSUME RoomInv, DisconnectClick \/ \E k \in Sockets : OnClose(k)
  PROVE  RoomInv'
<1> USE DEF RoomInv
<1>1. /\ UNCHANGED <<ws, auto, wire, refused>> /\ mic' = Cleanup
      /\ state' = "disconnected" /\ rendered' \in BOOLEAN
  BY DEF DisconnectClick, OnClose, SetState, IsOpen
<1>2. manual' \in BOOLEAN /\ timer' \in BOOLEAN /\ owed' \in BOOLEAN /\ (manual' => ~timer')
  <2>1. CASE DisconnectClick
    BY <2>1 DEF DisconnectClick
  <2>2. CASE \E k \in Sockets : OnClose(k)
    <3>1. manual' = manual /\ timer' = (timer \/ (auto /\ ~manual)) /\ owed' \in BOOLEAN
      BY <2>2 DEF OnClose, QueueReconnect
    <3>2. manual \in BOOLEAN /\ timer \in BOOLEAN /\ auto \in BOOLEAN
      BY DEF TypeOK
    <3> QED
      BY <3>1, <3>2 DEF DisconnectCancelsRetry
  <2> QED
    BY <2>1, <2>2
<1>3. /\ socket' \in [Sockets -> {"unused", "connecting", "open", "closing", "closed"}]
      /\ \A j \in Sockets : socket'[j] = "open" => socket[j] = "open"
  BY DEF DisconnectClick, OnClose, TypeOK
<1>4. mic' \in MicType /\ MicConsistent'
  BY <1>1, CleanupKeeps
<1>5. TypeOK'
  BY <1>1, <1>2, <1>3, <1>4 DEF TypeOK, MicType
<1>6. CurrentIsGreeted'
  BY <1>1, <1>3, CurrentSocket DEF CurrentIsGreeted
<1> QED
  BY <1>1, <1>2, <1>4, <1>5, <1>6
  DEF HelloComesFirst, ListeningHolds, DisconnectCancelsRetry, OnlyChunksRefused

LEMMA RoomStep == RoomInv /\ [Next]_vars => RoomInv'
<1> SUFFICES ASSUME RoomInv, [Next]_vars PROVE RoomInv'
  OBVIOUS
<1>1. CASE UNCHANGED vars
  BY <1>1 DEF vars, RoomInv, TypeOK, MicConsistent, CurrentIsGreeted, HelloComesFirst,
              ListeningHolds, DisconnectCancelsRetry, OnlyChunksRefused
<1>2. CASE Operator
  BY <1>2, ConnectInv, DisconnectInv, CaptureInv, ButtonInv, PreferenceInv DEF Operator
<1>3. CASE Permission \/ Resumed \/ FlushChunk \/ TimerFires
  BY <1>3, CaptureInv, ResumedInv, FlushChunkInv, ConnectInv
<1>4. CASE \E k \in Sockets : OnOpen(k) \/ OnMessage(k) \/ OnClose(k)
  BY <1>4, OnOpenInv, OnMessageInv, DisconnectInv
<1> QED
  BY <1>1, <1>2, <1>3, <1>4 DEF Next

LEMMA RoomInvariant == Spec => []RoomInv
BY RoomInit, RoomStep, PTL DEF Spec
-----------------------------------------------------------------------------
\* The page's variables keep their types: whatever the order of clicks, timers and
\* socket events, no microphone is closed that is not open and none exceeds the bound.
THEOREM RoomTypeCorrect == Spec => []TypeOK
BY RoomInvariant, PTL DEF RoomInv

\* Every connection starts with a hello, with any number of sockets in flight.
THEOREM HelloIsFirst == Spec => []HelloComesFirst
BY RoomInvariant, PTL DEF RoomInv

\* A page that listens has an open microphone, which Stop closes.
THEOREM ListeningIsCapturing == Spec => []ListeningMeansCapturing
<1>1. RoomInv => ListeningMeansCapturing
  <2> SUFFICES ASSUME RoomInv, state = "listening" PROVE mic.held /\ mic.ticking /\ mic.streams > 0 /\ mic.intervals > 0
    BY DEF ListeningMeansCapturing
  <2>1. mic.streams \in 0..MaxCaptures /\ mic.intervals \in 0..MaxCaptures
    BY DEF RoomInv, TypeOK
  <2> QED
    BY <2>1, RoomAssumption DEF RoomInv, ListeningHolds, MicConsistent
<1> QED
  BY <1>1, RoomInvariant, PTL

\* After Disconnect no reconnect is pending.
THEOREM DisconnectStays == Spec => []DisconnectCancelsRetry
BY RoomInvariant, PTL DEF RoomInv

\* Of all the page sends, the server's parser refuses nothing but audio chunks.
THEOREM ControlMessagesAccepted == Spec => []OnlyChunksRefused
BY RoomInvariant, PTL DEF RoomInv
=============================================================================
