-------------------------- MODULE VoiceSession_proofs --------------------------
(***************************************************************************)
(* Proofs about one connection, for any number of turn tasks, any limits   *)
(* and any sizes of chunks: the sender of its events, the session and its  *)
(* turns, the audio, and the accounts the server keeps of them.            *)
(***************************************************************************)
EXTENDS MC_VoiceSession, SequenceTheorems, Sums

(***************************************************************************)
(* The sender.                                                             *)
(***************************************************************************)

\* The strengthening that makes GaplessOrder inductive: the numbers delivered
\* are the numbers taken, up to the one envelope the lock holder carries.
SenderInv == SenderTypeOK /\ GaplessOrder /\ NoNumberInTheAir

LEMMA SenderInitInv == SenderInit => SenderInv
BY NoneAssumption DEF SenderInit, SenderInv, SenderTypeOK, GaplessOrder, NoNumberInTheAir

\* Each kind of step, taken by one task, keeps the invariant.
LEMMA AcquireInv ==
  ASSUME SenderInv, NEW t \in Tasks, Acquire(t)
  PROVE  SenderInv'
BY NoneAssumption
DEF SenderInv, SenderTypeOK, GaplessOrder, NoNumberInTheAir, Acquire

LEMMA TransmitInv ==
  ASSUME SenderInv, NEW t \in Tasks, Transmit(t)
  PROVE  SenderInv'
BY NoneAssumption
DEF SenderInv, SenderTypeOK, GaplessOrder, NoNumberInTheAir, Transmit

LEMMA ReleaseInv ==
  ASSUME SenderInv, NEW t \in Tasks, Release(t)
  PROVE  SenderInv'
BY NoneAssumption
DEF SenderInv, SenderTypeOK, GaplessOrder, NoNumberInTheAir, Release

LEMMA TransmitFailsInv ==
  ASSUME SenderInv, NEW t \in Tasks, TransmitFails(t)
  PROVE  SenderInv'
BY NoneAssumption
DEF SenderInv, SenderTypeOK, GaplessOrder, NoNumberInTheAir, TransmitFails

LEMMA InterruptInv ==
  ASSUME SenderInv, NEW t \in Tasks, InterruptOnDisconnect(t)
  PROVE  SenderInv'
BY NoneAssumption
DEF SenderInv, SenderTypeOK, GaplessOrder, NoNumberInTheAir,
    InterruptOnDisconnect, Interrupt

LEMMA ConnectionInv ==
  ASSUME SenderInv, MarkClosed \/ PeerLeaves
  PROVE  SenderInv'
BY NoneAssumption
DEF SenderInv, SenderTypeOK, GaplessOrder, NoNumberInTheAir, MarkClosed, PeerLeaves

LEMMA SenderStepInv == SenderInv /\ [SenderNext]_senderVars => SenderInv'
<1> SUFFICES ASSUME SenderInv, [SenderNext]_senderVars PROVE SenderInv'
  OBVIOUS
<1>1. ASSUME NEW t \in Tasks,
             Acquire(t) \/ Transmit(t) \/ Release(t) \/ TransmitFails(t)
               \/ InterruptOnDisconnect(t)
      PROVE SenderInv'
  BY <1>1, AcquireInv, TransmitInv, ReleaseInv, TransmitFailsInv, InterruptInv
<1>2. CASE MarkClosed \/ PeerLeaves
  BY <1>2, ConnectionInv
<1>3. CASE UNCHANGED senderVars
  BY <1>3 DEF senderVars, SenderInv, SenderTypeOK, GaplessOrder, NoNumberInTheAir
<1> QED
  BY <1>1, <1>2, <1>3 DEF SenderNext

THEOREM SenderInvariance == SenderSpec => []SenderInv
<1> QED
  BY SenderInitInv, SenderStepInv, PTL DEF SenderSpec

\* However many tasks share the lock, the client's frames are numbered 0, 1, 2
\* and so on without a gap.
THEOREM SenderGaplessOrder == SenderSpec => []GaplessOrder
<1>1. SenderInv => GaplessOrder
  BY DEF SenderInv
<1> QED
  BY <1>1, SenderInvariance, PTL

\* The lock discipline, and the account of the numbers in flight it implies.
THEOREM SenderNoNumberInTheAir == SenderSpec => []NoNumberInTheAir
<1>1. SenderInv => NoNumberInTheAir
  BY DEF SenderInv
<1> QED
  BY <1>1, SenderInvariance, PTL

\* One frame at a time arrives, and its number is the successor of the last one.
THEOREM SenderDeliveryStep == SenderSpec => DeliveryStep
<1>1. SenderInv /\ SenderInv' /\ [SenderNext]_senderVars
        => [delivered' # delivered =>
              delivered' = delivered + 1 /\ last_seq' = last_seq + 1]_senderVars
  <2> SUFFICES ASSUME SenderInv, SenderInv', SenderNext, delivered' # delivered
               PROVE  delivered' = delivered + 1 /\ last_seq' = last_seq + 1
    OBVIOUS
  <2>1. PICK t \in Tasks : Transmit(t)
    BY DEF SenderNext, Acquire, Release, TransmitFails, InterruptOnDisconnect,
           Interrupt, MarkClosed, PeerLeaves
  <2>2. delivered' = delivered + 1
    BY <2>1 DEF Transmit
  <2>3. last_seq = delivered - 1 /\ last_seq' = delivered' - 1 /\ delivered \in Nat
    BY DEF SenderInv, GaplessOrder, SenderTypeOK
  <2> QED
    BY <2>2, <2>3
<1> QED
  BY <1>1, SenderInvariance, PTL DEF SenderSpec, DeliveryStep
-----------------------------------------------------------------------------
(***************************************************************************)
(* The session and its turns.                                              *)
(***************************************************************************)

(***************************************************************************)
(* The inductive invariant: the types, the ownership of the session by its *)
(* live turn, and what makes the two inductive.                            *)
(***************************************************************************)

\* A task that is inside send_event is sending the head of its outbox, and a
\* task that is not reporting anything has an empty one.
OutboxDiscipline ==
  /\ \A t \in Tasks : sending[t] # "idle" => outbox[t] # <<>>
  /\ handler_pc = "recv" => outbox[Handler] = <<>>
  /\ \A t \in TurnTasks :
       tpc[t] \in {"unborn", "created", "listen", "vad", "stt", "ask", "tts"} => outbox[t] = <<>>

\* What the session's references are between two turns.
IdleReferences ==
  /\ turn_task = None => current_turn = None
  /\ \A t \in TurnTasks : Live(t) /\ Mode = "streaming" => queue_of[t] \in TurnTasks

\* task.cancel() is called by the cleanup and by nothing else.
InterruptedOnLoss == \A t \in TurnTasks : interrupted[t] => peer = "gone"

SessionInv ==
  /\ SenderInv
  /\ SessionTypeOK /\ TurnTypeOK /\ EventTypeOK
  /\ LiveTurnOwnsSession
  /\ OutboxDiscipline
  /\ IdleReferences
  /\ InterruptedOnLoss

(***************************************************************************)
(* Events.                                                                 *)
(***************************************************************************)

LEMMA EventTyping ==
  ASSUME NEW type \in EventTypes, NEW id \in Nat, NEW note \in Notes, NEW index \in Nat
  PROVE  TurnEvent(type, id, note, index) \in Event
BY DEF TurnEvent, Event

LEMMA ReplyTyping ==
  /\ Ready \in Event
  /\ \A code \in Notes : Error(code) \in Event
  /\ \A id \in Nat, reason \in Notes : Done(id, reason) \in Event
BY EventTyping DEF Ready, Error, Done, EventTypes, Notes

LEMMA OneOrTwoEvents ==
  /\ \A e \in Event : <<e>> \in Seq(Event) /\ <<e>> # <<>>
  /\ \A e, f \in Event : <<e, f>> \in Seq(Event) /\ <<e, f>> # <<>> /\ Len(<<e, f>>) = 2
OBVIOUS

LEMMA TurnOutputTyping ==
  ASSUME NEW id \in Nat, NEW n \in Nat
  PROVE  TurnOutput(id, n) \in Seq(Event) /\ TurnOutput(id, n) # <<>>
<1> DEFINE E(type) == TurnEvent(type, id, "", 0)
           partial == IF Mode = "streaming" THEN <<E("stt.partial")>> ELSE <<>>
           texts == <<E("stt.final"), E("agent.reply")>>
           audio == [i \in 1..n |-> TurnEvent("audio.output.chunk", id, "", i - 1)]
<1>1. /\ "" \in Notes
      /\ "stt.partial" \in EventTypes /\ "stt.final" \in EventTypes
      /\ "agent.reply" \in EventTypes /\ "audio.output.chunk" \in EventTypes
  BY DEF Notes, EventTypes
<1>2. E("stt.partial") \in Event /\ E("stt.final") \in Event /\ E("agent.reply") \in Event
  BY <1>1, EventTyping
<1>3. \A i \in 1..n : TurnEvent("audio.output.chunk", id, "", i - 1) \in Event
  <2>1. \A i \in 1..n : i - 1 \in Nat
    OBVIOUS
  <2> QED
    BY <1>1, <2>1, EventTyping
<1> HIDE DEF E
<1>4. partial \in Seq(Event)
  BY <1>2, EmptySeq, OneOrTwoEvents
<1>5. texts \in Seq(Event) /\ Len(texts) = 2
  BY <1>2, OneOrTwoEvents
<1>6. audio \in Seq(Event)
  <2>1. audio \in [1..n -> Event]
    BY <1>3
  <2> QED
    BY <2>1, SeqDef
<1>7. TurnOutput(id, n) = (partial \o texts) \o audio
  BY DEF TurnOutput, E
<1> HIDE DEF partial, texts, audio
<1>8. \A p, q \in Seq(Event) : p \o q \in Seq(Event) /\ Len(p \o q) = Len(p) + Len(q)
  BY ConcatProperties
<1>9. partial \o texts \in Seq(Event) /\ Len(partial \o texts) = Len(partial) + 2
  BY <1>4, <1>5, <1>8
<1>10. /\ (partial \o texts) \o audio \in Seq(Event)
      /\ Len((partial \o texts) \o audio) = Len(partial) + 2 + Len(audio)
  BY <1>6, <1>8, <1>9
<1>11. Len(partial) \in Nat /\ Len(audio) \in Nat /\ Len(<<>>) = 0
  BY <1>4, <1>6, LenProperties, EmptySeq
<1> QED
  BY <1>7, <1>10, <1>11

(***************************************************************************)
(* The initial states.                                                     *)
(***************************************************************************)

LEMMA InitInv == Init => SessionInv
<1> SUFFICES ASSUME Init PROVE SessionInv
  OBVIOUS
<1>1. SenderInv
  BY SenderInitInv DEF Init
<1>2. SessionTypeOK
  <2>1. metrics = [c \in Counters |-> 0]
    BY DEF Init
  <2>2. metrics \in [Counters -> Nat]
    BY <2>1
  <2> QED
    BY <2>2, EmptySeq DEF Init, SessionTypeOK
<1>3. TurnTypeOK
  BY EmptySeq DEF Init, TurnTypeOK
<1>4. EventTypeOK
  <2>1. last_event = TurnEvent("none", 0, "", 0) /\ "none" \in EventTypes /\ "" \in Notes
    BY DEF Init, EventTypes, Notes
  <2>2. last_event \in Event
    BY <2>1, EventTyping
  <2>3. outbox \in [Tasks -> Seq(Event)]
    <3>1. <<Ready>> \in Seq(Event) /\ <<>> \in Seq(Event)
      BY EmptySeq, ReplyTyping, OneOrTwoEvents
    <3> QED
      BY <3>1 DEF Init
  <2> QED
    BY <2>2, <2>3 DEF Init, EventTypeOK
<1>5. LiveTurnOwnsSession /\ IdleReferences /\ InterruptedOnLoss
  BY DEF Init, LiveTurnOwnsSession, IdleReferences, InterruptedOnLoss, Live
<1>6. OutboxDiscipline
  BY VoiceAssumption DEF Init, OutboxDiscipline, SenderInit, TurnTasks
<1> QED
  BY <1>1, <1>2, <1>3, <1>4, <1>5, <1>6 DEF SessionInv

(***************************************************************************)
(* VoiceSession uses the sender as EventSender says.                       *)
(***************************************************************************)

LEMMA StepIsSenderStep ==
  ASSUME SessionInv, [Next]_vars
  PROVE  [SenderNext]_senderVars
<1> USE VoiceAssumption DEF SenderNext, senderVars
<1>1. CASE Receive
  <2>1. CASE HandlerRaises
    <3>1. peer \in {"up", "gone"}
      BY DEF SessionInv, SenderInv, SenderTypeOK
    <3> QED
      BY <2>1, <3>1 DEF HandlerRaises, PeerLeaves
  <2>2. CASE ~HandlerRaises
    BY <1>1, <2>2 DEF Receive, EventRefused, Malformed, HelloAccepted, HelloRejected, Cancel,
         AudioUnauthorized, BadChunk, AudioRefused, BufferChunk, StreamChunk, EndBuffered,
         EndStreaming
  <2> QED
    BY <2>1, <2>2
<1>2. CASE HandlerStep
  BY <1>2 DEF HandlerStep, WriteFrame, HandlerSent, HandlerSendFails, CloseAfterReject,
       ReceiveDisconnect
<1>3. ASSUME NEW t \in TurnTasks, TurnStep(t)
      PROVE  [SenderNext]_senderVars
  <2>1. t \in Tasks
    BY DEF TurnTasks
  <2>2. CASE TurnInterrupted(t)
    <3>1. peer = "gone"
      BY <2>2 DEF TurnInterrupted, SessionInv, InterruptedOnLoss
    <3> QED
      BY <2>1, <2>2, <3>1 DEF TurnInterrupted, InterruptOnDisconnect
  <2>3. CASE ~TurnInterrupted(t)
    BY <1>3, <2>1, <2>3 DEF TurnStep, StartTurn, NextChunk, EndOfAudio, VadReturns,
         SttReturns, BridgeReturns, TtsYields, TtsEnds, AdapterRaises, WriteFrame, TurnSent,
         TurnSendFails, turnStepUnchanged
  <2> QED
    BY <2>2, <2>3
<1>4. ASSUME NEW t \in Tasks, BeginSend(t)
      PROVE  [SenderNext]_senderVars
  BY <1>4 DEF BeginSend
<1>5. CASE ClientLeaves
  BY <1>5 DEF ClientLeaves
<1>6. CASE UNCHANGED vars
  BY <1>6 DEF vars
<1> QED
  BY <1>1, <1>2, <1>3, <1>4, <1>5, <1>6 DEF Next

(***************************************************************************)
(* Ownership: the step that creates a turn finds no live one, and the step *)
(* that resets the session is taken by the turn that owns it.              *)
(***************************************************************************)

LEMMA FreshTaskIsUnborn ==
  ASSUME \E t \in TurnTasks : tpc[t] = "unborn"
  PROVE  FreshTask \in TurnTasks /\ tpc[FreshTask] = "unborn"
BY DEF FreshTask

Owned == LiveTurnOwnsSession /\ IdleReferences

LEMMA CreateOwned ==
  ASSUME SessionInv, turn_task = None,
         NEW audio, NEW queue, NEW t \in TurnTasks, tpc[t] = "unborn", CreateTurn(t, audio, queue),
         Mode = "streaming" => queue \in TurnTasks /\ stream_queue' = queue
  PROVE  Owned'
<1>1. \A u \in TurnTasks : ~Live(u)
  BY NoneAssumption DEF SessionInv, LiveTurnOwnsSession, TurnTasks
<1>2. current_turn' = None
  BY DEF SessionInv, IdleReferences, CreateTurn
<1>3. \A u \in TurnTasks : Live(u)' <=> u = t
  BY <1>1 DEF CreateTurn, Live, SessionInv, TurnTypeOK
<1>4. queue_of'[t] = queue /\ ~Started(t)'
  BY DEF CreateTurn, Started, SessionInv, TurnTypeOK
<1>5. turn_task' = t /\ t # None
  BY NoneAssumption DEF CreateTurn, TurnTasks
<1> QED
  BY <1>2, <1>3, <1>4, <1>5 DEF Owned, LiveTurnOwnsSession, IdleReferences

\* Every step that leaves the references of the session and of its turns alone.
LEMMA UntouchedOwned ==
  ASSUME SessionInv, UNCHANGED <<current_turn, turn_task, stream_queue, tpc, queue_of>>
  PROVE  Owned'
BY DEF SessionInv, Owned, LiveTurnOwnsSession, IdleReferences, Live, Started

\* A live turn goes on to another await.
LEMMA AdvanceOwned ==
  ASSUME SessionInv, NEW t \in TurnTasks, NEW pc, Goto(t, pc),
         Started(t), pc \notin {"unborn", "created", "empty", "ended"},
         UNCHANGED <<current_turn, turn_task, stream_queue, queue_of>>
  PROVE  Owned'
BY DEF SessionInv, Owned, LiveTurnOwnsSession, IdleReferences, Live, Started, Goto, TurnTypeOK

\* A live turn ends, with or without its `finally`.
LEMMA EndOwned ==
  ASSUME SessionInv, NEW t \in TurnTasks, Live(t), UNCHANGED queue_of,
         FinishTurn(t) \/ EndWithoutFinally(t)
  PROVE  Owned'
<1>1. \A u \in TurnTasks : Live(u) => u = t
  BY DEF SessionInv, LiveTurnOwnsSession
<1>2. \A u \in TurnTasks : ~Live(u)'
  BY <1>1 DEF Live, Goto, FinishTurn, EndWithoutFinally, SessionInv, TurnTypeOK
<1>3. turn_task' = None => current_turn' = None
  BY DEF FinishTurn, EndWithoutFinally, SessionInv, IdleReferences
<1> QED
  BY <1>2, <1>3 DEF Owned, LiveTurnOwnsSession, IdleReferences

LEMMA ReceiveOwned ==
  ASSUME SessionInv, Receive
  PROVE  Owned'
<1> USE DEF turnRefVars, streamVars, turnVars
<1>1. ASSUME NEW size \in ChunkSizes, StreamChunk(size)
      PROVE  Owned'
  <2> DEFINE queue == IF stream_queue = None THEN FreshTask ELSE stream_queue
  <2>1. stream_queue' = queue /\ Mode = "streaming"
    BY <1>1 DEF StreamChunk
  <2>2. stream_queue = None \/ turn_task = None => FreshTask \in TurnTasks /\ tpc[FreshTask] = "unborn"
    BY <1>1, FreshTaskIsUnborn DEF StreamChunk
  <2>3. queue \in TurnTasks
    BY <2>2 DEF SessionInv, SessionTypeOK
  <2>4. CASE UNCHANGED <<turnRefVars, turnVars>>
    <3>1. \A u \in TurnTasks : Live(u) => queue_of[u] # None
      BY <2>1, NoneAssumption DEF SessionInv, IdleReferences, TurnTasks
    <3>2. \A u \in TurnTasks : Live(u) => stream_queue' = stream_queue
      BY <2>1, <3>1 DEF SessionInv, LiveTurnOwnsSession
    <3> QED
      BY <2>4, <3>2 DEF SessionInv, Owned, LiveTurnOwnsSession, IdleReferences, Live, Started
  <2>5. CASE turn_task = None /\ CreateTurn(FreshTask, <<>>, queue)
    BY <2>1, <2>2, <2>3, <2>5, CreateOwned
  <2> QED
    BY <1>1, <2>4, <2>5 DEF StreamChunk
<1>2. CASE EndBuffered
  <2>1. CASE UNCHANGED <<turnRefVars, turnVars>>
    BY <1>2, <2>1, UntouchedOwned DEF EndBuffered
  <2>2. CASE /\ turn_task = None
             /\ \E t \in TurnTasks : tpc[t] = "unborn"
             /\ CreateTurn(FreshTask, incoming_chunks, None)
    <3>1. Mode # "streaming"
      BY <1>2 DEF EndBuffered
    <3> QED
      BY <2>2, <3>1, CreateOwned, FreshTaskIsUnborn
  <2> QED
    BY <1>2, <2>1, <2>2 DEF EndBuffered
<1>3. CASE \/ EventRefused \/ HandlerRaises \/ Malformed \/ HelloAccepted \/ HelloRejected
           \/ Cancel \/ AudioUnauthorized \/ BadChunk \/ AudioRefused \/ EndStreaming
           \/ \E size \in ChunkSizes : BufferChunk(size)
  <2>1. UNCHANGED <<current_turn, turn_task, stream_queue, tpc, queue_of>>
    BY <1>3 DEF EventRefused, HandlerRaises, Malformed, HelloAccepted, HelloRejected, Cancel,
         AudioUnauthorized, BadChunk, AudioRefused, EndStreaming, BufferChunk
  <2> QED
    BY <2>1, UntouchedOwned
<1> QED
  BY <1>1, <1>2, <1>3 DEF Receive

LEMMA TurnOwned ==
  ASSUME SessionInv, NEW t \in TurnTasks, TurnStep(t)
  PROVE  Owned'
<1> USE DEF turnRefVars, streamVars, turnVars, turnStepUnchanged, turnSendUnchanged, sendUnchanged
<1>1. CASE StartTurn(t)
  <2>1. turn_task = t /\ t # None /\ tpc[t] = "created" /\ current_turn = None
    BY <1>1, NoneAssumption DEF StartTurn, At, SessionInv, LiveTurnOwnsSession, Live, Started,
       TurnTasks
  <2>2. UNCHANGED <<turn_task, stream_queue, queue_of>>
    BY <1>1 DEF StartTurn
  <2>3. \/ current_turn' = None /\ tpc' = [tpc EXCEPT ![t] = "empty"]
        \/ current_turn' = t /\ tpc' = [tpc EXCEPT ![t] = "listen"]
    BY <1>1, <2>1 DEF StartTurn, Goto
  <2> QED
    BY <2>1, <2>2, <2>3 DEF SessionInv, Owned, LiveTurnOwnsSession, IdleReferences, Live, Started,
         TurnTypeOK
<1>2. CASE \/ NextChunk(t) \/ EndOfAudio(t) \/ VadReturns(t) \/ SttReturns(t) \/ BridgeReturns(t)
           \/ TtsYields(t) \/ TtsEnds(t) \/ AdapterRaises(t)
  <2>1. Started(t)
    BY <1>2 DEF NextChunk, EndOfAudio, VadReturns, SttReturns, BridgeReturns, TtsYields, TtsEnds,
         AdapterRaises, At, Started
  <2>2. \E pc \in {"vad", "stt", "listen", "ask", "tts", "emit", "closing"} : Goto(t, pc)
    BY <1>2 DEF NextChunk, EndOfAudio, VadReturns, SttReturns, BridgeReturns, TtsYields, TtsEnds,
         AdapterRaises, EnsureNotCancelled, CancelTurn, FailTurn
  <2>3. UNCHANGED <<current_turn, turn_task, stream_queue, queue_of>>
    BY <1>2 DEF NextChunk, EndOfAudio, VadReturns, SttReturns, BridgeReturns, TtsYields, TtsEnds,
         AdapterRaises
  <2> QED
    BY <2>1, <2>2, <2>3, AdvanceOwned
<1>3. CASE WriteFrame(t)
  BY <1>3, UntouchedOwned DEF WriteFrame
<1>4. CASE TurnSent(t) \/ TurnSendFails(t) \/ TurnInterrupted(t)
  <2>1. UNCHANGED queue_of
    BY <1>4 DEF TurnSent, TurnSendFails, TurnInterrupted
  <2>2. \/ UNCHANGED <<tpc, current_turn, turn_task, stream_queue>>
        \/ /\ Goto(t, "complete") \/ Goto(t, "closing")
           /\ tpc[t] \in {"emit", "complete"}
           /\ UNCHANGED <<current_turn, turn_task, stream_queue>>
        \/ Live(t) /\ (FinishTurn(t) \/ EndWithoutFinally(t))
    BY <1>4 DEF TurnSent, TurnSendFails, TurnInterrupted, FailTurn, Live
  <2>3. CASE UNCHANGED <<tpc, current_turn, turn_task, stream_queue>>
    BY <2>1, <2>3, UntouchedOwned
  <2>4. CASE /\ Goto(t, "complete") \/ Goto(t, "closing")
             /\ tpc[t] \in {"emit", "complete"}
             /\ UNCHANGED <<current_turn, turn_task, stream_queue>>
    BY <2>1, <2>4, AdvanceOwned DEF Started
  <2>5. CASE Live(t) /\ (FinishTurn(t) \/ EndWithoutFinally(t))
    BY <2>1, <2>5, EndOwned
  <2> QED
    BY <2>2, <2>3, <2>4, <2>5
<1> QED
  BY <1>1, <1>2, <1>3, <1>4 DEF TurnStep

LEMMA StepOwned ==
  ASSUME SessionInv, [Next]_vars
  PROVE  Owned'
<1>1. CASE HandlerStep \/ (\E t \in Tasks : BeginSend(t)) \/ ClientLeaves \/ UNCHANGED vars
  <2>1. UNCHANGED <<current_turn, turn_task, stream_queue, tpc, queue_of>>
    BY <1>1 DEF HandlerStep, WriteFrame, HandlerSent, HandlerSendFails, CloseAfterReject,
         ReceiveDisconnect, BeginSend, ClientLeaves, cleanupUnchanged, sendUnchanged, turnRefVars,
         streamVars, turnVars, vars
  <2> QED
    BY <2>1, UntouchedOwned
<1> QED
  BY <1>1, ReceiveOwned, TurnOwned DEF Next

(***************************************************************************)
(* What is in the outboxes, and who is interrupted.                        *)
(***************************************************************************)

LEMMA ReceiveOutbox ==
  ASSUME SessionInv, Receive
  PROVE  OutboxDiscipline'
<1>1. UNCHANGED sending /\ handler_pc = "recv" /\ outbox[Handler] = <<>>
  BY DEF Receive, EventRefused, HandlerRaises, Malformed, HelloAccepted, HelloRejected, Cancel,
       AudioUnauthorized, BadChunk, AudioRefused, BufferChunk, StreamChunk, EndBuffered,
       EndStreaming, Inbound, senderVars, SessionInv, OutboxDiscipline
<1>2. \/ \E events : events # <<>> /\ outbox' = [outbox EXCEPT ![Handler] = events]
                    /\ handler_pc' # "recv"
      \/ UNCHANGED outbox
  BY DEF Receive, EventRefused, HandlerRaises, Malformed, HelloAccepted, HelloRejected, Cancel,
       AudioUnauthorized, BadChunk, AudioRefused, BufferChunk, StreamChunk, EndBuffered,
       EndStreaming, Reply, NoReply, Overflow
<1>3. \A t \in TurnTasks : tpc'[t] = tpc[t] \/ tpc[t] = "unborn"
  <2>1. \/ UNCHANGED tpc
        \/ /\ \E t \in TurnTasks : tpc[t] = "unborn"
           /\ \E audio, queue : CreateTurn(FreshTask, audio, queue)
    BY DEF Receive, EventRefused, HandlerRaises, Malformed, HelloAccepted, HelloRejected, Cancel,
         AudioUnauthorized, BadChunk, AudioRefused, BufferChunk, StreamChunk, EndBuffered,
         EndStreaming, turnVars
  <2> QED
    BY <2>1, FreshTaskIsUnborn DEF CreateTurn, SessionInv, TurnTypeOK
<1> QED
  BY <1>1, <1>2, <1>3, VoiceAssumption DEF SessionInv, OutboxDiscipline, EventTypeOK, TurnTasks

LEMMA HandlerOutbox ==
  ASSUME SessionInv, HandlerStep
  PROVE  OutboxDiscipline'
<1> USE VoiceAssumption DEF SessionInv, OutboxDiscipline, EventTypeOK, TurnTasks, SenderInv, SenderTypeOK
<1>1. CASE WriteFrame(Handler)
  BY <1>1 DEF WriteFrame, Transmit, sendUnchanged, turnVars
<1>2. CASE HandlerSent
  BY <1>2 DEF HandlerSent, Release, turnVars, NextReceive
<1>3. CASE HandlerSendFails
  BY <1>3 DEF HandlerSendFails, TransmitFails, cleanupUnchanged, CleanupOnDisconnect
<1>4. CASE CloseAfterReject
  BY <1>4 DEF CloseAfterReject, MarkClosed, senderVars, cleanupUnchanged, CleanupOnDisconnect
<1>5. CASE ReceiveDisconnect
  BY <1>5 DEF ReceiveDisconnect, senderVars, cleanupUnchanged, CleanupOnDisconnect
<1> QED
  BY <1>1, <1>2, <1>3, <1>4, <1>5 DEF HandlerStep

\* A turn's step leaves the other outboxes alone; its own is empty whenever it
\* goes to a place where it reports nothing.
LEMMA TurnOutbox ==
  ASSUME SessionInv, NEW t \in TurnTasks, TurnStep(t)
  PROVE  OutboxDiscipline'
<1> USE VoiceAssumption DEF SessionInv, OutboxDiscipline, EventTypeOK, TurnTasks, SenderInv,
        SenderTypeOK, TurnTypeOK, Goto, Enqueue, sessionUnchanged, turnStepUnchanged
<1>1. CASE StartTurn(t)
  BY <1>1 DEF StartTurn, At, senderVars
<1>2. CASE TtsEnds(t)
  <2>1. TurnOutput(turn_id[t], audio_chunks[t]) # <<>>
    BY TurnOutputTyping
  <2> QED
    BY <1>2, <2>1 DEF TtsEnds, At, senderVars
<1>3. CASE \/ NextChunk(t) \/ EndOfAudio(t) \/ VadReturns(t) \/ SttReturns(t) \/ BridgeReturns(t)
           \/ TtsYields(t) \/ AdapterRaises(t)
  <2>1. \/ /\ tpc' = [tpc EXCEPT ![t] = "closing"]
           /\ \E events : events # <<>> /\ outbox' = [outbox EXCEPT ![t] = events]
        \/ /\ \E pc : tpc' = [tpc EXCEPT ![t] = pc]
           /\ UNCHANGED outbox
    BY <1>3 DEF NextChunk, EndOfAudio, VadReturns, SttReturns, BridgeReturns, TtsYields,
         AdapterRaises, EnsureNotCancelled, CancelTurn, FailTurn
  <2>2. tpc[t] \in {"listen", "vad", "stt", "ask", "tts"} /\ UNCHANGED <<sending, handler_pc>>
    BY <1>3 DEF NextChunk, EndOfAudio, VadReturns, SttReturns, BridgeReturns, TtsYields,
         AdapterRaises, At, senderVars
  <2> QED
    BY <2>1, <2>2
<1>4. CASE WriteFrame(t)
  BY <1>4 DEF WriteFrame, Transmit, sendUnchanged, turnVars
<1>5. CASE TurnSent(t) \/ TurnSendFails(t) \/ TurnInterrupted(t)
  <2>1. sending' = [sending EXCEPT ![t] = "idle"] /\ UNCHANGED handler_pc
    BY <1>5 DEF TurnSent, TurnSendFails, TurnInterrupted, Release, TransmitFails, Interrupt,
         turnSendUnchanged
  <2>2. \E events : outbox' = [outbox EXCEPT ![t] = events]
    BY <1>5 DEF TurnSent, TurnSendFails, TurnInterrupted, FailTurn
  <2>3. \/ UNCHANGED tpc /\ (tpc[t] \in {"unborn", "created", "listen", "vad", "stt", "ask", "tts"}
                               => outbox'[t] = <<>>)
        \/ \E pc \in {"complete", "closing", "ended"} : tpc' = [tpc EXCEPT ![t] = pc]
    BY <1>5 DEF TurnSent, TurnSendFails, TurnInterrupted, FailTurn, FinishTurn, EndWithoutFinally,
         Release
  <2> QED
    BY <2>1, <2>2, <2>3
<1> QED
  BY <1>1, <1>2, <1>3, <1>4, <1>5 DEF TurnStep

LEMMA StepOutbox ==
  ASSUME SessionInv, [Next]_vars
  PROVE  OutboxDiscipline'
<1>1. ASSUME NEW t \in Tasks, BeginSend(t)
      PROVE  OutboxDiscipline'
  BY <1>1 DEF BeginSend, Acquire, sendUnchanged, turnVars, SessionInv, OutboxDiscipline, SenderInv,
       SenderTypeOK
<1>2. CASE ClientLeaves \/ UNCHANGED vars
  BY <1>2 DEF ClientLeaves, PeerLeaves, sendUnchanged, turnVars, vars, senderVars, SessionInv,
       OutboxDiscipline
<1> QED
  BY <1>1, <1>2, ReceiveOutbox, HandlerOutbox, TurnOutbox DEF Next

LEMMA StepLoss ==
  ASSUME SessionInv, [Next]_vars
  PROVE  InterruptedOnLoss'
<1> USE DEF SessionInv, InterruptedOnLoss
<1>1. peer = "gone" => peer' = "gone"
  <2>1. [SenderNext]_senderVars
    BY StepIsSenderStep
  <2> QED
    BY <2>1 DEF SenderNext, senderVars, Acquire, Transmit, Release, TransmitFails,
         InterruptOnDisconnect, Interrupt, MarkClosed, PeerLeaves
<1>2. CASE UNCHANGED interrupted
  BY <1>1, <1>2
<1>3. CASE peer = "gone"
  BY <1>1, <1>3
<1>4. UNCHANGED interrupted \/ peer = "gone"
  <2>1. CASE Receive
    BY <2>1 DEF Receive, EventRefused, HandlerRaises, Malformed, HelloAccepted, HelloRejected,
         Cancel, AudioUnauthorized, BadChunk, AudioRefused, BufferChunk, StreamChunk, EndBuffered,
         EndStreaming, CreateTurn, turnVars
  <2>2. CASE HandlerStep
    BY <2>2 DEF HandlerStep, WriteFrame, HandlerSent, HandlerSendFails, TransmitFails,
         CloseAfterReject, ReceiveDisconnect, turnVars, sendUnchanged
  <2>3. ASSUME NEW t \in TurnTasks, TurnStep(t)
        PROVE  UNCHANGED interrupted
    BY <2>3 DEF TurnStep, StartTurn, NextChunk, EndOfAudio, VadReturns, SttReturns, BridgeReturns,
         TtsYields, TtsEnds, AdapterRaises, WriteFrame, TurnSent, TurnSendFails, TurnInterrupted,
         turnStepUnchanged, turnSendUnchanged, sendUnchanged, turnVars
  <2>4. CASE (\E t \in Tasks : BeginSend(t)) \/ ClientLeaves \/ UNCHANGED vars
    BY <2>4 DEF BeginSend, ClientLeaves, sendUnchanged, turnVars, vars
  <2> QED
    BY <2>1, <2>2, <2>3, <2>4 DEF Next
<1> QED
  BY <1>2, <1>3, <1>4

(***************************************************************************)
(* Types.                                                                  *)
(***************************************************************************)

LEMMA CountTyping ==
  ASSUME SessionInv
  PROVE  /\ \A kind, counts : Inbound(kind, counts) => metrics' \in [Counters -> Nat]
         /\ \A counter \in Counters : Count(counter) => metrics' \in [Counters -> Nat]
BY DEF SessionInv, SessionTypeOK, Inbound, Count

LEMMA NewChunkTyping ==
  ASSUME SessionInv, NEW size \in ChunkSizes
  PROVE  NewChunk(size) \in Chunk
<1>1. metrics["messages_in"] + 1 \in Nat
  BY DEF SessionInv, SessionTypeOK, Counters
<1> QED
  BY <1>1 DEF NewChunk, Chunk

LEMMA ReceiveSessionType ==
  ASSUME SessionInv, Receive
  PROVE  SessionTypeOK'
<1>1. metrics' \in [Counters -> Nat]
  BY CountTyping DEF Receive, EventRefused, HandlerRaises, Malformed, HelloAccepted, HelloRejected,
       Cancel, AudioUnauthorized, BadChunk, AudioRefused, BufferChunk, StreamChunk, EndBuffered,
       EndStreaming
<1>2. handler_pc' \in {"recv", "send", "hello", "reject", "crashed"}
  BY DEF Receive, EventRefused, HandlerRaises, Malformed, HelloAccepted, HelloRejected,
       Cancel, AudioUnauthorized, BadChunk, AudioRefused, BufferChunk, StreamChunk, EndBuffered,
       EndStreaming, Reply, NoReply, NextReceive
<1>3. hello_received' \in BOOLEAN /\ auth_ok' \in BOOLEAN
  BY DEF Receive, EventRefused, HandlerRaises, Malformed, HelloAccepted, HelloRejected,
       Cancel, AudioUnauthorized, BadChunk, AudioRefused, BufferChunk, StreamChunk, EndBuffered,
       EndStreaming, authVars, SessionInv, SessionTypeOK
<1>4. incoming_chunks' \in Seq(Chunk) /\ incoming_bytes' \in Nat
  <2>1. ASSUME NEW size \in ChunkSizes, BufferChunk(size)
        PROVE  incoming_chunks' \in Seq(Chunk) /\ incoming_bytes' \in Nat
    <3>1. CASE incoming_chunks' = <<>> /\ incoming_bytes' = 0
      BY <3>1, EmptySeq
    <3>2. CASE /\ incoming_chunks' = Append(incoming_chunks, NewChunk(size))
               /\ incoming_bytes' = incoming_bytes + size
      BY <3>2, NewChunkTyping, VoiceAssumption, AppendProperties DEF SessionInv, SessionTypeOK
    <3> QED
      BY <2>1, <3>1, <3>2 DEF BufferChunk, ClearIncoming
  <2>2. CASE incoming_chunks' = <<>> /\ incoming_bytes' = 0
    BY <2>2, EmptySeq
  <2>3. \/ \E size \in ChunkSizes : BufferChunk(size)
        \/ incoming_chunks' = <<>> /\ incoming_bytes' = 0
        \/ UNCHANGED incomingVars
    BY DEF Receive, EventRefused, HandlerRaises, Malformed, HelloAccepted, HelloRejected, Cancel,
         AudioUnauthorized, BadChunk, AudioRefused, StreamChunk, EndBuffered, EndStreaming,
         ClearIncoming
  <2>4. CASE UNCHANGED incomingVars
    BY <2>4 DEF SessionInv, SessionTypeOK, incomingVars
  <2> QED
    BY <2>1, <2>2, <2>3, <2>4
<1>5. /\ current_turn_id' \in Nat
      /\ {current_turn, turn_task, stream_queue}' \subseteq TurnTasks \cup {None}
      /\ stream_pending_chunks' \in Nat
  <2>1. ASSUME NEW size \in ChunkSizes, StreamChunk(size)
        PROVE  /\ UNCHANGED <<current_turn, current_turn_id>>
               /\ turn_task' = turn_task \/ (turn_task = None /\ turn_task' = FreshTask)
               /\ stream_queue' = IF stream_queue = None THEN FreshTask ELSE stream_queue
               /\ stream_pending_chunks' \in {stream_pending_chunks, stream_pending_chunks + 1}
               /\ stream_queue = None \/ turn_task = None => FreshTask \in TurnTasks
    BY <2>1, FreshTaskIsUnborn DEF StreamChunk, CreateTurn, turnRefVars
  <2>2. CASE EndBuffered
    BY <2>2, FreshTaskIsUnborn DEF EndBuffered, CreateTurn, turnRefVars, streamVars, SessionInv,
         SessionTypeOK
  <2>3. CASE UNCHANGED <<turnRefVars, stream_queue, stream_pending_chunks>>
    BY <2>3 DEF turnRefVars, SessionInv, SessionTypeOK
  <2>4. CASE \E size \in ChunkSizes : StreamChunk(size)
    BY <2>1, <2>4 DEF SessionInv, SessionTypeOK
  <2> QED
    BY <2>2, <2>3, <2>4 DEF Receive, EventRefused, HandlerRaises, Malformed, HelloAccepted,
         HelloRejected, Cancel, AudioUnauthorized, BadChunk, AudioRefused, BufferChunk,
         EndStreaming, streamVars
<1> QED
  BY <1>1, <1>2, <1>3, <1>4, <1>5 DEF SessionTypeOK

LEMMA StepSessionType ==
  ASSUME SessionInv, [Next]_vars
  PROVE  SessionTypeOK'
<1>1. CASE HandlerStep
  BY <1>1 DEF HandlerStep, WriteFrame, HandlerSent, HandlerSendFails, CloseAfterReject,
       ReceiveDisconnect, cleanupUnchanged, CleanupOnDisconnect, NextReceive, sendUnchanged,
       turnRefVars, streamVars, incomingVars, authVars, SessionInv, SessionTypeOK
<1>2. ASSUME NEW t \in TurnTasks, TurnStep(t)
      PROVE  SessionTypeOK'
  <2>1. UNCHANGED <<hello_received, auth_ok, incoming_chunks, incoming_bytes, handler_pc>>
    BY <1>2 DEF TurnStep, StartTurn, NextChunk, EndOfAudio, VadReturns, SttReturns, BridgeReturns,
         TtsYields, TtsEnds, AdapterRaises, WriteFrame, TurnSent, TurnSendFails, TurnInterrupted,
         turnStepUnchanged, turnSendUnchanged, sendUnchanged, sessionUnchanged, incomingVars,
         authVars
  <2>2. /\ current_turn_id' \in {current_turn_id, current_turn_id + 1}
        /\ current_turn' \in {current_turn, None, t}
        /\ turn_task' \in {turn_task, None}
        /\ stream_queue' \in {stream_queue, None}
        /\ \/ stream_pending_chunks' \in {stream_pending_chunks, 0}
           \/ stream_pending_chunks > 0 /\ stream_pending_chunks' = stream_pending_chunks - 1
    <3>1. CASE StartTurn(t)
      BY <3>1 DEF StartTurn, streamVars
    <3>2. CASE NextChunk(t)
      BY <3>2 DEF NextChunk, turnRefVars
    <3>3. CASE TurnSent(t) \/ TurnSendFails(t) \/ TurnInterrupted(t)
      BY <3>3 DEF TurnSent, TurnSendFails, TurnInterrupted, FinishTurn, EndWithoutFinally,
           turnSendUnchanged, streamVars
    <3>4. CASE \/ EndOfAudio(t) \/ VadReturns(t) \/ SttReturns(t) \/ BridgeReturns(t)
               \/ TtsYields(t) \/ TtsEnds(t) \/ AdapterRaises(t) \/ WriteFrame(t)
      BY <3>4 DEF EndOfAudio, VadReturns, SttReturns, BridgeReturns, TtsYields, TtsEnds,
           AdapterRaises, WriteFrame, turnStepUnchanged, sendUnchanged, turnRefVars, streamVars
    <3> QED
      BY <1>2, <3>1, <3>2, <3>3, <3>4 DEF TurnStep
  <2>3. metrics' \in [Counters -> Nat]
    <3>1. UNCHANGED metrics \/ \E counter \in Counters : Count(counter)
      BY <1>2 DEF TurnStep, StartTurn, NextChunk, EndOfAudio, VadReturns, SttReturns,
           BridgeReturns, TtsYields, TtsEnds, AdapterRaises, WriteFrame, TurnSent, TurnSendFails,
           TurnInterrupted, EnsureNotCancelled, CancelTurn, FailTurn, sendUnchanged, Counters
    <3> QED
      BY <3>1, CountTyping DEF SessionInv, SessionTypeOK
  <2> QED
    BY <2>1, <2>2, <2>3 DEF SessionInv, SessionTypeOK
<1>3. CASE (\E t \in Tasks : BeginSend(t)) \/ ClientLeaves \/ UNCHANGED vars
  BY <1>3 DEF BeginSend, ClientLeaves, sendUnchanged, vars, turnRefVars, streamVars, incomingVars,
       authVars, SessionInv, SessionTypeOK
<1> QED
  BY <1>1, <1>2, <1>3, ReceiveSessionType DEF Next

LEMMA PutTyping ==
  ASSUME SessionInv, NEW item \in Chunk \cup {Sentinel}
  PROVE  PutNowait(item) \in [TurnTasks -> Seq(Chunk \cup {Sentinel})]
<1>1. queues \in [TurnTasks -> Seq(Chunk \cup {Sentinel})]
  BY DEF SessionInv, TurnTypeOK
<1>2. CASE stream_queue \in TurnTasks
  <2>1. Append(queues[stream_queue], item) \in Seq(Chunk \cup {Sentinel})
    BY <1>1, <1>2, AppendProperties
  <2> QED
    BY <1>1, <2>1 DEF PutNowait
<1>3. CASE stream_queue = None
  BY <1>1, <1>3 DEF PutNowait
<1> QED
  BY <1>2, <1>3 DEF SessionInv, SessionTypeOK

LEMMA MarkTyping ==
  ASSUME SessionInv
  PROVE  MarkCurrentTurn \in [TurnTasks -> BOOLEAN]
BY DEF SessionInv, SessionTypeOK, TurnTypeOK, MarkCurrentTurn

LEMMA CreateTyping ==
  ASSUME SessionInv, NEW audio \in Seq(Chunk), NEW queue \in TurnTasks \cup {None},
         NEW t \in TurnTasks, CreateTurn(t, audio, queue),
         queues' \in [TurnTasks -> Seq(Chunk \cup {Sentinel})]
  PROVE  TurnTypeOK'
BY DEF SessionInv, TurnTypeOK, CreateTurn

\* The receive loop and the cleanup touch of the turns only their flags and a queue.
LEMMA FlagsTyping ==
  ASSUME SessionInv, UNCHANGED <<tpc, turn_id, chunks, queue_of, audio_chunks>>,
         cancelled' \in {cancelled, MarkCurrentTurn},
         queues' \in {queues, PutNowait(Sentinel)},
         interrupted' \in [TurnTasks -> BOOLEAN]
  PROVE  TurnTypeOK'
<1>1. cancelled' \in [TurnTasks -> BOOLEAN]
  BY MarkTyping DEF SessionInv, TurnTypeOK
<1>2. queues' \in [TurnTasks -> Seq(Chunk \cup {Sentinel})]
  BY PutTyping DEF SessionInv, TurnTypeOK
<1> QED
  BY <1>1, <1>2 DEF SessionInv, TurnTypeOK

LEMMA ReceiveTurnType ==
  ASSUME SessionInv, Receive
  PROVE  TurnTypeOK'
<1>1. ASSUME NEW size \in ChunkSizes, StreamChunk(size)
      PROVE  TurnTypeOK'
  <2> DEFINE queue == IF stream_queue = None THEN FreshTask ELSE stream_queue
  <2>1. queue \in TurnTasks /\ (turn_task = None => FreshTask \in TurnTasks)
    BY <1>1, FreshTaskIsUnborn DEF StreamChunk, SessionInv, SessionTypeOK
  <2>2. CASE UNCHANGED <<queues, turnVars>>
    BY <2>2 DEF SessionInv, TurnTypeOK, turnVars
  <2>3. CASE queues' = [queues EXCEPT ![queue] = Append(@, NewChunk(size))]
    <3> HIDE DEF queue
    <3>1. NewChunk(size) \in Chunk \cup {Sentinel}
      BY NewChunkTyping
    <3>2. Append(queues[queue], NewChunk(size)) \in Seq(Chunk \cup {Sentinel})
      BY <2>1, <3>1, AppendProperties DEF SessionInv, TurnTypeOK
    <3>3. queues' \in [TurnTasks -> Seq(Chunk \cup {Sentinel})]
      BY <2>1, <2>3, <3>2 DEF SessionInv, TurnTypeOK
    <3>4. CASE turn_task = None /\ CreateTurn(FreshTask, <<>>, queue)
      BY <2>1, <3>3, <3>4, EmptySeq, CreateTyping
    <3>5. CASE UNCHANGED turnVars
      BY <3>3, <3>5 DEF SessionInv, TurnTypeOK, turnVars
    <3> QED
      BY <1>1, <2>3, <3>4, <3>5 DEF StreamChunk, queue
  <2> QED
    BY <1>1, <2>2, <2>3 DEF StreamChunk
<1>2. CASE EndBuffered
  <2>1. CASE UNCHANGED turnVars
    BY <1>2, <2>1 DEF EndBuffered, streamVars, SessionInv, TurnTypeOK, turnVars
  <2>2. CASE /\ \E t \in TurnTasks : tpc[t] = "unborn"
             /\ CreateTurn(FreshTask, incoming_chunks, None)
    BY <1>2, <2>2, FreshTaskIsUnborn, CreateTyping DEF EndBuffered, streamVars, SessionInv,
       SessionTypeOK, TurnTypeOK
  <2> QED
    BY <1>2, <2>1, <2>2 DEF EndBuffered
<1>3. CASE \/ EventRefused \/ HandlerRaises \/ Malformed \/ HelloAccepted \/ HelloRejected
           \/ Cancel \/ AudioUnauthorized \/ BadChunk \/ AudioRefused \/ EndStreaming
           \/ \E size \in ChunkSizes : BufferChunk(size)
  <2>1. /\ UNCHANGED <<tpc, turn_id, chunks, queue_of, audio_chunks, interrupted>>
        /\ cancelled' \in {cancelled, MarkCurrentTurn}
        /\ queues' \in {queues, PutNowait(Sentinel)}
    BY <1>3 DEF EventRefused, HandlerRaises, Malformed, HelloAccepted, HelloRejected, Cancel,
         AudioUnauthorized, BadChunk, AudioRefused, EndStreaming, BufferChunk, turnVars, streamVars
  <2>2. interrupted' \in [TurnTasks -> BOOLEAN]
    BY <2>1 DEF SessionInv, TurnTypeOK
  <2> QED
    BY <2>1, <2>2, FlagsTyping
<1> QED
  BY <1>1, <1>2, <1>3 DEF Receive

LEMMA HandlerTurnType ==
  ASSUME SessionInv, HandlerStep
  PROVE  TurnTypeOK'
<1>1. CASE WriteFrame(Handler) \/ HandlerSent
  BY <1>1 DEF WriteFrame, HandlerSent, sendUnchanged, turnVars, streamVars, SessionInv, TurnTypeOK
<1>2. CASE HandlerSendFails \/ CloseAfterReject \/ ReceiveDisconnect
  <2>1. /\ UNCHANGED <<tpc, turn_id, chunks, queue_of, audio_chunks>>
        /\ cancelled' \in {cancelled, MarkCurrentTurn}
        /\ queues' \in {queues, PutNowait(Sentinel)}
        /\ \/ UNCHANGED interrupted
           \/ turn_task # None /\ interrupted' = [interrupted EXCEPT ![turn_task] = TRUE]
    BY <1>2 DEF HandlerSendFails, CloseAfterReject, ReceiveDisconnect, CleanupOnDisconnect,
         cleanupUnchanged
  <2>2. interrupted' \in [TurnTasks -> BOOLEAN]
    BY <2>1 DEF SessionInv, TurnTypeOK
  <2> QED
    BY <2>1, <2>2, FlagsTyping
<1> QED
  BY <1>1, <1>2 DEF HandlerStep

AudioTypeOK ==
  /\ chunks \in [TurnTasks -> Seq(Chunk)]
  /\ queues \in [TurnTasks -> Seq(Chunk \cup {Sentinel})]

LEMMA PopTyping ==
  ASSUME SessionInv, NEW t \in TurnTasks, Live(t), Available(t) # <<>>, Pop(t)
  PROVE  AudioTypeOK'
<1>1. CASE Mode = "buffered"
  <2>1. Tail(chunks[t]) \in Seq(Chunk)
    BY <1>1, HeadTailProperties DEF Available, SessionInv, TurnTypeOK
  <2> QED
    BY <1>1, <2>1 DEF Pop, AudioTypeOK, SessionInv, TurnTypeOK
<1>2. CASE Mode = "streaming"
  <2>1. queue_of[t] \in TurnTasks
    BY <1>2 DEF SessionInv, IdleReferences
  <2>2. Tail(queues[queue_of[t]]) \in Seq(Chunk \cup {Sentinel})
    BY <1>2, <2>1, HeadTailProperties DEF Available, SessionInv, TurnTypeOK
  <2> QED
    BY <1>2, <2>1, <2>2 DEF Pop, AudioTypeOK, SessionInv, TurnTypeOK
<1> QED
  BY <1>1, <1>2, VoiceAssumption

LEMMA TurnAudioType ==
  ASSUME SessionInv, NEW t \in TurnTasks, TurnStep(t)
  PROVE  AudioTypeOK'
<1>1. CASE Live(t) /\ Available(t) # <<>> /\ Pop(t)
  BY <1>1, PopTyping
<1>2. CASE UNCHANGED <<chunks, queues>>
  BY <1>2 DEF AudioTypeOK, SessionInv, TurnTypeOK
<1>3. CASE UNCHANGED chunks /\ queues' = [queues EXCEPT ![queue_of[t]] = <<>>]
  BY <1>3, EmptySeq DEF AudioTypeOK, SessionInv, TurnTypeOK
<1>4. \/ Live(t) /\ Available(t) # <<>> /\ Pop(t)
      \/ UNCHANGED <<chunks, queues>>
      \/ UNCHANGED chunks /\ queues' = [queues EXCEPT ![queue_of[t]] = <<>>]
  <2>1. CASE NextChunk(t) \/ EndOfAudio(t)
    BY <2>1 DEF NextChunk, EndOfAudio, At, Live
  <2>2. CASE TurnSent(t) \/ TurnSendFails(t) \/ TurnInterrupted(t)
    BY <2>2 DEF TurnSent, TurnSendFails, TurnInterrupted, FinishTurn, EndWithoutFinally,
         turnSendUnchanged, streamVars
  <2>3. CASE \/ StartTurn(t) \/ VadReturns(t) \/ SttReturns(t) \/ BridgeReturns(t)
             \/ TtsYields(t) \/ TtsEnds(t) \/ AdapterRaises(t) \/ WriteFrame(t)
    BY <2>3 DEF StartTurn, VadReturns, SttReturns, BridgeReturns, TtsYields, TtsEnds,
         AdapterRaises, WriteFrame, turnStepUnchanged, sendUnchanged, turnVars, streamVars
  <2> QED
    BY <2>1, <2>2, <2>3 DEF TurnStep
<1> QED
  BY <1>1, <1>2, <1>3, <1>4

LEMMA StepTurnType ==
  ASSUME SessionInv, [Next]_vars
  PROVE  TurnTypeOK'
<1>1. ASSUME NEW t \in TurnTasks, TurnStep(t)
      PROVE  TurnTypeOK'
  <2>1. UNCHANGED <<interrupted, cancelled, queue_of>>
    BY <1>1 DEF TurnStep, StartTurn, NextChunk, EndOfAudio, VadReturns, SttReturns, BridgeReturns,
         TtsYields, TtsEnds, AdapterRaises, WriteFrame, TurnSent, TurnSendFails, TurnInterrupted,
         turnStepUnchanged, turnSendUnchanged, sendUnchanged, turnVars
  <2>2. turn_id' \in [TurnTasks -> Nat]
    <3>1. \/ UNCHANGED turn_id
          \/ turn_id' = [turn_id EXCEPT ![t] = current_turn_id + 1]
      BY <1>1 DEF TurnStep, StartTurn, NextChunk, EndOfAudio, VadReturns, SttReturns,
           BridgeReturns, TtsYields, TtsEnds, AdapterRaises, WriteFrame, TurnSent, TurnSendFails,
           TurnInterrupted, turnStepUnchanged, turnSendUnchanged, sendUnchanged, turnVars
    <3>2. current_turn_id + 1 \in Nat
      BY DEF SessionInv, SessionTypeOK
    <3> QED
      BY <3>1, <3>2 DEF SessionInv, TurnTypeOK
  <2>3. audio_chunks' \in [TurnTasks -> Nat]
    <3>1. \/ UNCHANGED audio_chunks
          \/ \E n \in {audio_chunks[t], audio_chunks[t] + 1} :
               audio_chunks' = [audio_chunks EXCEPT ![t] = n]
      BY <1>1 DEF TurnStep, StartTurn, NextChunk, EndOfAudio, VadReturns, SttReturns,
           BridgeReturns, TtsYields, TtsEnds, AdapterRaises, WriteFrame, TurnSent, TurnSendFails,
           TurnInterrupted, turnSendUnchanged, sendUnchanged, turnVars
    <3> QED
      BY <3>1 DEF SessionInv, TurnTypeOK
  <2>4. UNCHANGED tpc \/ \E pc \in {"empty", "listen", "vad", "stt", "ask", "tts", "emit",
                                    "complete", "closing", "ended"} : Goto(t, pc)
    BY <1>1 DEF TurnStep, StartTurn, NextChunk, EndOfAudio, VadReturns, SttReturns, BridgeReturns,
         TtsYields, TtsEnds, AdapterRaises, WriteFrame, TurnSent, TurnSendFails, TurnInterrupted,
         EnsureNotCancelled, CancelTurn, FailTurn, FinishTurn, EndWithoutFinally, sendUnchanged,
         turnVars
  <2> QED
    BY <1>1, <2>1, <2>2, <2>3, <2>4, TurnAudioType
    DEF Goto, AudioTypeOK, SessionInv, TurnTypeOK
<1>2. CASE (\E t \in Tasks : BeginSend(t)) \/ ClientLeaves \/ UNCHANGED vars
  BY <1>2 DEF BeginSend, ClientLeaves, sendUnchanged, vars, turnVars, streamVars, SessionInv,
       TurnTypeOK
<1> QED
  BY <1>1, <1>2, ReceiveTurnType, HandlerTurnType DEF Next

\* Every list of events the program puts into an outbox is one.
LEMMA RepliesTyping ==
  /\ \A code \in Notes : <<Error(code)>> \in Seq(Event)
  /\ \A id \in Nat, reason \in Notes : <<Done(id, reason)>> \in Seq(Event)
  /\ \A id \in Nat, code, reason \in Notes : <<Error(code), Done(id, reason)>> \in Seq(Event)
  /\ <<Ready>> \in Seq(Event) /\ <<>> \in Seq(Event) /\ Overflow \in Seq(Event)
  /\ {"RATE_LIMITED", "BAD_EVENT", "AUTH_FAILED", "AUTH_REQUIRED", "BAD_AUDIO_CHUNK",
      "TURN_IN_PROGRESS", "EMPTY_TURN", "ADAPTER_FAILURE", "PIPELINE_FAILURE", "cancelled",
      "rate-limited", "error", "turn-complete"} \subseteq Notes
<1>1. "TURN_BUFFER_OVERFLOW" \in Notes /\ "error" \in Notes
  BY DEF Notes
<1>2. Overflow \in Seq(Event)
  BY <1>1, ReplyTyping, OneOrTwoEvents DEF Overflow
<1>3. /\ \A code \in Notes : <<Error(code)>> \in Seq(Event)
      /\ \A id \in Nat, reason \in Notes : <<Done(id, reason)>> \in Seq(Event)
      /\ \A id \in Nat, code, reason \in Notes : <<Error(code), Done(id, reason)>> \in Seq(Event)
      /\ <<Ready>> \in Seq(Event)
  BY ReplyTyping, OneOrTwoEvents
<1> QED
  BY <1>2, <1>3, EmptySeq DEF Notes

LEMMA ReceiveOutboxType ==
  ASSUME SessionInv, Receive
  PROVE  \/ UNCHANGED outbox
         \/ \E events \in Seq(Event) : outbox' = [outbox EXCEPT ![Handler] = events]
<1>1. CASE \/ EventRefused \/ HandlerRaises \/ Malformed \/ HelloAccepted \/ HelloRejected
  BY <1>1, RepliesTyping DEF EventRefused, HandlerRaises, Malformed, HelloAccepted, HelloRejected,
     Reply
<1>2. CASE \/ Cancel \/ AudioUnauthorized \/ BadChunk \/ AudioRefused
  BY <1>2, RepliesTyping DEF Cancel, AudioUnauthorized, BadChunk, AudioRefused, Reply, NoReply
<1>3. CASE \/ EndBuffered \/ EndStreaming
           \/ \E size \in ChunkSizes : BufferChunk(size) \/ StreamChunk(size)
  BY <1>3, RepliesTyping DEF EndBuffered, EndStreaming, BufferChunk, StreamChunk, Reply, NoReply
<1> QED
  BY <1>1, <1>2, <1>3 DEF Receive

LEMMA TurnOutboxType ==
  ASSUME SessionInv, NEW t \in TurnTasks, TurnStep(t)
  PROVE  \/ UNCHANGED outbox
         \/ \E events \in Seq(Event) : outbox' = [outbox EXCEPT ![t] = events]
<1>1. turn_id[t] \in Nat /\ outbox[t] \in Seq(Event)
  BY DEF SessionInv, TurnTypeOK, EventTypeOK, TurnTasks
<1>2. CASE StartTurn(t)
  BY <1>2, RepliesTyping DEF StartTurn, Enqueue
<1>3. CASE NextChunk(t) \/ EndOfAudio(t) \/ SttReturns(t) \/ BridgeReturns(t) \/ TtsYields(t)
  BY <1>1, <1>3, RepliesTyping DEF NextChunk, EndOfAudio, SttReturns, BridgeReturns, TtsYields,
     EnsureNotCancelled, CancelTurn, Enqueue
<1>4. CASE TtsEnds(t)
  <2>1. audio_chunks[t] \in Nat
    BY DEF SessionInv, TurnTypeOK
  <2> QED
    BY <1>1, <1>4, <2>1, TurnOutputTyping DEF TtsEnds, Enqueue
<1>5. CASE AdapterRaises(t)
  BY <1>1, <1>5, RepliesTyping DEF AdapterRaises, FailTurn, Enqueue
<1>6. CASE VadReturns(t) \/ WriteFrame(t)
  BY <1>6 DEF VadReturns, WriteFrame, sendUnchanged
<1>7. CASE TurnSent(t)
  <2>1. outbox[t] # <<>>
    BY <1>7 DEF TurnSent, Release, SessionInv, OutboxDiscipline, TurnTasks
  <2>2. Tail(outbox[t]) \in Seq(Event)
    BY <1>1, <2>1, HeadTailProperties
  <2> QED
    BY <1>1, <1>7, <2>2, RepliesTyping DEF TurnSent, Enqueue
<1>8. CASE TurnSendFails(t) \/ TurnInterrupted(t)
  BY <1>1, <1>8, RepliesTyping DEF TurnSendFails, TurnInterrupted, FailTurn, Enqueue
<1> QED
  BY <1>2, <1>3, <1>4, <1>5, <1>6, <1>7, <1>8 DEF TurnStep

LEMMA StepEventType ==
  ASSUME SessionInv, [Next]_vars
  PROVE  EventTypeOK'
<1> USE DEF SessionInv, EventTypeOK
<1>1. outbox' \in [Tasks -> Seq(Event)]
  <2>1. \/ UNCHANGED outbox
        \/ \E t \in Tasks, events \in Seq(Event) : outbox' = [outbox EXCEPT ![t] = events]
    <3>1. CASE Receive
      BY <3>1, ReceiveOutboxType, VoiceAssumption
    <3>2. ASSUME NEW t \in TurnTasks, TurnStep(t)
          PROVE  \/ UNCHANGED outbox
                 \/ \E events \in Seq(Event) : outbox' = [outbox EXCEPT ![t] = events]
      BY <3>2, TurnOutboxType
    <3>3. CASE HandlerSent
      <4>1. outbox[Handler] # <<>> /\ outbox[Handler] \in Seq(Event)
        BY <3>3, VoiceAssumption DEF HandlerSent, Release, OutboxDiscipline
      <4>2. Tail(outbox[Handler]) \in Seq(Event)
        BY <4>1, HeadTailProperties
      <4> QED
        BY <3>3, <4>2, VoiceAssumption DEF HandlerSent
    <3>4. CASE HandlerSendFails
      BY <3>4, EmptySeq, VoiceAssumption DEF HandlerSendFails
    <3>5. CASE \/ WriteFrame(Handler) \/ CloseAfterReject \/ ReceiveDisconnect
               \/ (\E t \in Tasks : BeginSend(t)) \/ ClientLeaves \/ UNCHANGED vars
      BY <3>5 DEF WriteFrame, CloseAfterReject, ReceiveDisconnect, BeginSend, ClientLeaves,
           sendUnchanged, vars
    <3> QED
      BY <3>1, <3>2, <3>3, <3>4, <3>5 DEF Next, HandlerStep, TurnTasks
  <2> QED
    BY <2>1
<1>2. last_event' \in Event /\ turn_events' \in Nat
  <2>1. ASSUME NEW t \in Tasks, WriteFrame(t)
        PROVE  last_event' \in Event /\ turn_events' \in Nat
    <3>1. outbox[t] # <<>> /\ outbox[t] \in Seq(Event)
      BY <2>1 DEF WriteFrame, Transmit, OutboxDiscipline
    <3>2. Head(outbox[t]) \in Event
      BY <3>1, HeadTailProperties
    <3> QED
      BY <2>1, <3>2 DEF WriteFrame
  <2>2. CASE ~ \E t \in Tasks : WriteFrame(t)
    <3>1. UNCHANGED <<last_event, turn_events>>
      BY <2>2, VoiceAssumption DEF Next, Receive, EventRefused, HandlerRaises, Malformed,
         HelloAccepted, HelloRejected, Cancel, AudioUnauthorized, BadChunk, AudioRefused,
         BufferChunk, StreamChunk, EndBuffered, EndStreaming, HandlerStep, HandlerSent,
         HandlerSendFails, CloseAfterReject, ReceiveDisconnect, cleanupUnchanged, TurnStep,
         StartTurn, NextChunk, EndOfAudio, VadReturns, SttReturns, BridgeReturns, TtsYields,
         TtsEnds, AdapterRaises, TurnSent, TurnSendFails, TurnInterrupted, turnStepUnchanged,
         turnSendUnchanged, BeginSend, ClientLeaves, historyVars, vars, TurnTasks
    <3> QED
      BY <3>1
  <2> QED
    BY <2>1, <2>2
<1>3. last_heard' \in Nat
  <2>1. ASSUME NEW t \in TurnTasks, NextChunk(t)
        PROVE  last_heard' \in Nat
    <3>1. Mode = "streaming" => queue_of[t] \in TurnTasks
      BY <2>1 DEF NextChunk, At, IdleReferences, Live
    <3>2. Available(t) \in Seq(Chunk \cup {Sentinel}) /\ Available(t) # <<>>
      <4>1. CASE Mode = "buffered"
        BY <2>1, <4>1, SeqMonotonic DEF NextChunk, Available, TurnTypeOK
      <4>2. CASE Mode = "streaming"
        BY <2>1, <3>1, <4>2 DEF NextChunk, Available, TurnTypeOK
      <4> QED
        BY <4>1, <4>2, VoiceAssumption
    <3>3. Head(Available(t)) \in Chunk \cup {Sentinel}
      BY <3>2, HeadTailProperties
    <3>4. Head(Available(t)).id \in Nat
      BY <3>3 DEF Chunk, Sentinel
    <3> QED
      BY <2>1, <3>4 DEF NextChunk
  <2>2. CASE ~ \E t \in TurnTasks : NextChunk(t)
    <3>1. UNCHANGED last_heard
      BY <2>2 DEF Next, Receive, EventRefused, HandlerRaises, Malformed,
         HelloAccepted, HelloRejected, Cancel, AudioUnauthorized, BadChunk, AudioRefused,
         BufferChunk, StreamChunk, EndBuffered, EndStreaming, HandlerStep, HandlerSent,
         HandlerSendFails, CloseAfterReject, ReceiveDisconnect, cleanupUnchanged, TurnStep,
         StartTurn, EndOfAudio, VadReturns, SttReturns, BridgeReturns, TtsYields, WriteFrame,
         TtsEnds, AdapterRaises, TurnSent, TurnSendFails, TurnInterrupted, turnStepUnchanged,
         turnSendUnchanged, BeginSend, ClientLeaves, historyVars, vars
    <3> QED
      BY <3>1
  <2> QED
    BY <2>1, <2>2
<1> QED
  BY <1>1, <1>2, <1>3

(***************************************************************************)
(* The results.                                                            *)
(***************************************************************************)

LEMMA StepInv == SessionInv /\ [Next]_vars => SessionInv'
<1> SUFFICES ASSUME SessionInv, [Next]_vars PROVE SessionInv'
  OBVIOUS
<1>1. SenderInv'
  BY StepIsSenderStep, SenderStepInv DEF SessionInv
<1> QED
  BY <1>1, StepSessionType, StepTurnType, StepEventType, StepOwned, StepOutbox, StepLoss
  DEF SessionInv, Owned

THEOREM SessionInvariance == Spec => []SessionInv
BY InitInv, StepInv, PTL DEF Spec

\* Every state is of its type: in particular no task takes from an empty queue
\* and no event is sent from an empty outbox.
THEOREM SessionTypeCorrect == Spec => []TypeOK
<1>1. SessionInv => TypeOK
  BY DEF SessionInv, SenderInv, TypeOK
<1> QED
  BY <1>1, SessionInvariance, PTL

\* A live turn owns the session, however many turns a connection has: there is
\* at most one, a cancel reaches it from the moment it starts, and the `finally`
\* of run_buffered_turn and run_streaming_turn resets no other turn's state.
THEOREM OneTurnOwnsSession == Spec => []LiveTurnOwnsSession
<1>1. SessionInv => LiveTurnOwnsSession
  BY DEF SessionInv
<1> QED
  BY <1>1, SessionInvariance, PTL

\* The receive loop and the turns use send_event as EventSender says: whatever
\* they do between two sends, the connection implements SenderSpec.
THEOREM SessionImplementsSender == Spec => SenderSpec
<1>1. Init => SenderInit
  BY DEF Init
<1>2. SessionInv /\ [Next]_vars => [SenderNext]_senderVars
  BY StepIsSenderStep
<1> QED
  BY <1>1, <1>2, SessionInvariance, PTL DEF Spec, SenderSpec

\* Hence the frames of a connection reach its client as 0, 1, 2, ... .
THEOREM SessionGaplessOrder == Spec => []GaplessOrder
BY SessionImplementsSender, SenderGaplessOrder, PTL

(***************************************************************************)
(* Cancellation and authentication.                                        *)
(***************************************************************************)

\* The flag TurnState.cancelled is set and never taken back.
LEMMA CancelledForGood ==
  ASSUME SessionInv, Next, NEW t \in TurnTasks, cancelled[t]
  PROVE  cancelled'[t]
<1>1. UNCHANGED cancelled \/ cancelled' = MarkCurrentTurn
  <2>1. CASE Receive
    BY <2>1 DEF Receive, EventRefused, HandlerRaises, Malformed, HelloAccepted, HelloRejected,
         Cancel, AudioUnauthorized, BadChunk, AudioRefused, BufferChunk, StreamChunk, EndBuffered,
         EndStreaming, CreateTurn, turnVars
  <2>2. CASE HandlerStep
    BY <2>2 DEF HandlerStep, WriteFrame, HandlerSent, HandlerSendFails, CloseAfterReject,
         ReceiveDisconnect, CleanupOnDisconnect, turnVars, sendUnchanged
  <2>3. ASSUME NEW u \in TurnTasks, TurnStep(u)
        PROVE  UNCHANGED cancelled
    BY <2>3 DEF TurnStep, StartTurn, NextChunk, EndOfAudio, VadReturns, SttReturns, BridgeReturns,
         TtsYields, TtsEnds, AdapterRaises, WriteFrame, TurnSent, TurnSendFails, TurnInterrupted,
         turnStepUnchanged, turnSendUnchanged, sendUnchanged, turnVars
  <2>4. CASE (\E u \in Tasks : BeginSend(u)) \/ ClientLeaves
    BY <2>4 DEF BeginSend, ClientLeaves, sendUnchanged, turnVars
  <2> QED
    BY <2>1, <2>2, <2>3, <2>4 DEF Next
<1> QED
  BY <1>1 DEF MarkCurrentTurn, SessionInv, TurnTypeOK

LEMMA CancelledStep ==
  ASSUME SessionInv, Next, NEW t \in TurnTasks, cancelled[t], BeforeReply(t)
  PROVE  BeforeReply(t)' \/ tpc'[t] \in {"closing", "ended"}
<1> USE DEF BeforeReply
<1>1. CASE UNCHANGED tpc
  BY <1>1
<1>2. CASE Receive
  <2>1. \/ UNCHANGED tpc
        \/ /\ \E u \in TurnTasks : tpc[u] = "unborn"
           /\ \E audio, queue : CreateTurn(FreshTask, audio, queue)
    BY <1>2 DEF Receive, EventRefused, HandlerRaises, Malformed, HelloAccepted, HelloRejected,
         Cancel, AudioUnauthorized, BadChunk, AudioRefused, BufferChunk, StreamChunk, EndBuffered,
         EndStreaming, turnVars
  <2> QED
    BY <1>1, <2>1, FreshTaskIsUnborn DEF CreateTurn, SessionInv, TurnTypeOK
<1>3. ASSUME NEW u \in TurnTasks, TurnStep(u)
      PROVE  BeforeReply(t)' \/ tpc'[t] \in {"closing", "ended"}
  <2>1. \/ UNCHANGED tpc
        \/ \E pc : Goto(u, pc) /\ (u = t => pc \in {"listen", "closing", "ended"})
    <3>1. CASE NextChunk(u) \/ EndOfAudio(u) \/ SttReturns(u) \/ BridgeReturns(u) \/ TtsYields(u)
      BY <3>1 DEF NextChunk, EndOfAudio, SttReturns, BridgeReturns, TtsYields, EnsureNotCancelled,
           CancelTurn
    <3>2. CASE StartTurn(u) \/ VadReturns(u) \/ TtsEnds(u) \/ AdapterRaises(u)
      BY <3>2 DEF StartTurn, VadReturns, TtsEnds, AdapterRaises, FailTurn, At
    <3>3. CASE WriteFrame(u) \/ TurnSent(u) \/ TurnSendFails(u) \/ TurnInterrupted(u)
      BY <3>3 DEF WriteFrame, TurnSent, TurnSendFails, TurnInterrupted, FailTurn, FinishTurn,
           EndWithoutFinally, sendUnchanged, turnVars
    <3> QED
      BY <1>3, <3>1, <3>2, <3>3 DEF TurnStep
  <2> QED
    BY <2>1 DEF Goto, SessionInv, TurnTypeOK
<1>4. CASE HandlerStep \/ (\E u \in Tasks : BeginSend(u)) \/ ClientLeaves
  BY <1>1, <1>4 DEF HandlerStep, WriteFrame, HandlerSent, HandlerSendFails, CloseAfterReject,
     ReceiveDisconnect, cleanupUnchanged, BeginSend, ClientLeaves, turnVars, sendUnchanged
<1> QED
  BY <1>2, <1>3, <1>4 DEF Next

\* A turn marked cancelled while it listens, transcribes or waits for the agent
\* (VoicePipeline.run_turn up to bridge.ask) never gets to its output, and no
\* number of turns, messages or failures takes the mark back.
THEOREM CancelledTurnIsSilent == Spec => CancelledTurnStaysSilent
<1>1. SessionInv /\ [Next]_vars =>
        [\A t \in TurnTasks :
           cancelled[t] /\ BeforeReply(t) =>
             (cancelled[t] /\ BeforeReply(t))' \/ tpc'[t] \in {"closing", "ended"}]_vars
  BY CancelledForGood, CancelledStep
<1> QED
  BY <1>1, SessionInvariance, PTL DEF Spec, CancelledTurnStaysSilent

LEMMA AuthStep ==
  ASSUME SessionInv, NoAudioBeforeAuth, [Next]_vars
  PROVE  NoAudioBeforeAuth'
<1> SUFFICES ASSUME ~AuthOff, ~auth_ok'
             PROVE  /\ incoming_chunks' = <<>>
                    /\ stream_queue' = None
                    /\ \A t \in TurnTasks : tpc'[t] = "unborn"
  BY DEF NoAudioBeforeAuth
<1>1. CASE auth_ok
  BY <1>1 DEF Next, Receive, EventRefused, HandlerRaises, Malformed, HelloAccepted, HelloRejected,
     Cancel, AudioUnauthorized, BadChunk, AudioRefused, BufferChunk, StreamChunk, EndBuffered,
     EndStreaming, HandlerStep, WriteFrame, HandlerSent, HandlerSendFails, CloseAfterReject,
     ReceiveDisconnect, cleanupUnchanged, TurnStep, StartTurn, NextChunk, EndOfAudio, VadReturns,
     SttReturns, BridgeReturns, TtsYields, TtsEnds, AdapterRaises, TurnSent, TurnSendFails,
     TurnInterrupted, turnStepUnchanged, turnSendUnchanged, sendUnchanged, sessionUnchanged,
     BeginSend, ClientLeaves, authVars, vars
<1>2. CASE ~auth_ok
  <2>1. /\ incoming_chunks = <<>>
        /\ stream_queue = None
        /\ \A t \in TurnTasks : tpc[t] = "unborn"
    BY <1>2 DEF NoAudioBeforeAuth
  <2>2. CASE Receive
    BY <1>2, <2>1, <2>2 DEF Receive, EventRefused, HandlerRaises, Malformed, HelloAccepted,
       HelloRejected, Cancel, AudioUnauthorized, BadChunk, AudioRefused, BufferChunk, StreamChunk,
       EndBuffered, EndStreaming, AuthorizedForAudio, ClearIncoming, incomingVars, streamVars,
       turnVars
  <2>3. ASSUME NEW t \in TurnTasks, TurnStep(t)
        PROVE  UNCHANGED <<incoming_chunks, stream_queue, tpc>>
    BY <2>1, <2>3 DEF TurnStep, StartTurn, NextChunk, EndOfAudio, VadReturns, SttReturns,
       BridgeReturns, TtsYields, TtsEnds, AdapterRaises, At, WriteFrame, TurnSent, TurnSendFails,
       TurnInterrupted, Live, turnSendUnchanged, sendUnchanged, sessionUnchanged, incomingVars,
       streamVars, turnVars
  <2>4. CASE HandlerStep \/ (\E t \in Tasks : BeginSend(t)) \/ ClientLeaves \/ UNCHANGED vars
    BY <2>1, <2>4 DEF HandlerStep, WriteFrame, HandlerSent, HandlerSendFails, CloseAfterReject,
       ReceiveDisconnect, cleanupUnchanged, BeginSend, ClientLeaves, sendUnchanged, incomingVars,
       streamVars, turnVars, vars
  <2> QED
    BY <2>1, <2>2, <2>3, <2>4 DEF Next
<1> QED
  BY <1>1, <1>2

\* Without a good hello no audio is kept, queued or heard, whatever else the
\* client sends and however its hellos fail (_require_auth_for_audio).
THEOREM AudioNeedsAuth == Spec => []NoAudioBeforeAuth
<1>1. Init => NoAudioBeforeAuth
  BY DEF Init, NoAudioBeforeAuth
<1>2. SessionInv /\ NoAudioBeforeAuth /\ [Next]_vars => NoAudioBeforeAuth'
  BY AuthStep
<1> QED
  BY <1>1, <1>2, SessionInvariance, PTL DEF Spec
-----------------------------------------------------------------------------
(***************************************************************************)
(* The audio of a connection: the chunks a pipeline hears are heard once   *)
(* and in order, and stream_pending_chunks counts the chunks in the queue. *)
(***************************************************************************)

Items == Chunk \cup {Sentinel}

\* The chunks of s, sentinels aside, carry increasing ids above `from` and up to `to`.
InOrder(s, from, to) ==
  \A i \in DOMAIN s : s[i] # Sentinel =>
    /\ from < s[i].id /\ s[i].id <= to
    /\ \A j \in DOMAIN s : i < j /\ s[j] # Sentinel => s[i].id < s[j].id

Received == metrics["messages_in"]

\* Audio waits in one place: the buffer and the lists made of it, or the one queue
\* the session fills.
OnePlace ==
  /\ \A q \in TurnTasks : queues[q] # <<>> => stream_queue = q
  /\ Mode = "buffered" => stream_queue = None
  /\ Mode = "streaming" => incoming_chunks = <<>> /\ \A t \in TurnTasks : chunks[t] = <<>>

\* What waits was sent after what has been heard, and the buffer holds what was sent
\* after everything the running turn was given.
WaitingInOrder ==
  /\ last_heard <= Received
  /\ InOrder(incoming_chunks, last_heard, Received)
  /\ \A q \in TurnTasks : InOrder(queues[q], last_heard, Received)
  /\ \A t \in TurnTasks : Live(t) =>
       /\ InOrder(chunks[t], last_heard, Received)
       /\ \A i \in DOMAIN chunks[t], j \in DOMAIN incoming_chunks :
            chunks[t][i].id < incoming_chunks[j].id

AudioInv == OnePlace /\ WaitingInOrder /\ PendingCountsQueuedChunks

(***************************************************************************)
(* Sequences of chunks and sentinels.                                      *)
(***************************************************************************)
LEMMA ItemIds == \A c \in Items : c.id \in Nat
<1>1. \A c \in Chunk : c.id \in Nat
  BY DEF Chunk
<1>2. Sentinel.id \in Nat
  BY DEF Sentinel
<1> QED
  BY <1>1, <1>2 DEF Items

LEMMA ChunkIsItem ==
  /\ \A c \in Chunk : c \in Items /\ c # Sentinel /\ c.id \in Nat
  /\ \A s \in Seq(Chunk) : s \in Seq(Items)
<1>1. \A c \in Chunk : c \in Items /\ c # Sentinel /\ c.id \in Nat
  <2> SUFFICES ASSUME NEW c \in Chunk PROVE c \in Items /\ c # Sentinel /\ c.id \in Nat
    OBVIOUS
  <2>1. c.size # 0 /\ c.id \in Nat
    BY VoiceAssumption DEF Chunk
  <2>2. Sentinel.size = 0
    BY DEF Sentinel
  <2> QED
    BY <2>1, <2>2 DEF Items
<1> QED
  BY <1>1

LEMMA ItemAppend ==
  \A s \in Seq(Items), c \in Items :
    /\ DOMAIN Append(s, c) = 1..(Len(s) + 1) /\ DOMAIN s = 1..Len(s) /\ Len(s) \in Nat
    /\ \A i \in 1..Len(s) : Append(s, c)[i] = s[i] /\ s[i] \in Items
    /\ Append(s, c)[Len(s) + 1] = c
OBVIOUS

LEMMA ItemTail ==
  ASSUME NEW s \in Seq(Items), s # <<>>
  PROVE  /\ Tail(s) \in Seq(Items) /\ Head(s) \in Items
         /\ DOMAIN s = 1..Len(s) /\ Len(s) \in Nat /\ 1 \in DOMAIN s /\ s[1] = Head(s)
         /\ DOMAIN Tail(s) = 1..(Len(s) - 1)
         /\ \A i \in DOMAIN Tail(s) : i + 1 \in DOMAIN s /\ Tail(s)[i] = s[i + 1]
<1>1. DOMAIN s = 1..Len(s) /\ Len(s) \in Nat /\ Len(s) >= 1 /\ s[1] = Head(s)
  BY EmptySeq
<1>2. Tail(s) \in Seq(Items) /\ Len(Tail(s)) = Len(s) - 1
  BY HeadTailProperties
<1>3. DOMAIN Tail(s) = 1..(Len(s) - 1) /\ \A i \in 1..(Len(s) - 1) : Tail(s)[i] = s[i + 1]
  BY HeadTailProperties, <1>2
<1>4. s[1] \in Items
  BY <1>1
<1> QED
  BY <1>1, <1>2, <1>3, <1>4

LEMMA EmptyInOrder ==
  \A from, to : InOrder(<<>>, from, to)
BY DEF InOrder

LEMMA LaterInOrder ==
  ASSUME NEW s \in Seq(Items), NEW from \in Nat, NEW to \in Nat, NEW later \in Nat, to <= later,
         InOrder(s, from, to)
  PROVE  InOrder(s, from, later)
<1>1. \A i \in DOMAIN s : s[i].id \in Nat
  BY ItemIds
<1> QED
  BY <1>1 DEF InOrder

LEMMA AppendInOrder ==
  ASSUME NEW s \in Seq(Items), NEW c \in Items, NEW from \in Nat, NEW to \in Nat, NEW later \in Nat,
         from <= to, to <= later, c = Sentinel \/ (to < c.id /\ c.id <= later),
         InOrder(s, from, to)
  PROVE  InOrder(Append(s, c), from, later)
<1>1. c.id \in Nat /\ \A i \in DOMAIN s : s[i].id \in Nat
  BY ItemIds
<1> QED
  BY <1>1, ItemAppend DEF InOrder

LEMMA TailInOrder ==
  ASSUME NEW s \in Seq(Items), s # <<>>, NEW from \in Nat, NEW to \in Nat, InOrder(s, from, to)
  PROVE  /\ InOrder(Tail(s), from, to)
         /\ Head(s) # Sentinel =>
              /\ InOrder(Tail(s), Head(s).id, to)
              /\ Head(s).id \in Nat /\ from < Head(s).id /\ Head(s).id <= to
<1>1. \A i \in DOMAIN s : s[i].id \in Nat
  BY ItemIds
<1> QED
  BY <1>1, ItemTail DEF InOrder

\* The positions of s that hold a chunk.
Queued(s) == {i \in DOMAIN s : s[i] # Sentinel}

LEMMA QueuedFinite ==
  ASSUME NEW s \in Seq(Items)
  PROVE  IsFiniteSet(Queued(s)) /\ Cardinality(Queued(s)) \in Nat
<1>1. IsFiniteSet(1..Len(s))
  BY FS_Interval
<1>2. Queued(s) \subseteq 1..Len(s)
  BY DEF Queued
<1> QED
  BY <1>1, <1>2, FS_Subset, FS_CardinalityType

LEMMA EmptyQueued == Cardinality(Queued(<<>>)) = 0
<1>1. Queued(<<>>) = {}
  BY DEF Queued
<1> QED
  BY <1>1, FS_EmptySet

LEMMA AppendQueued ==
  ASSUME NEW s \in Seq(Items), NEW c \in Items
  PROVE  Cardinality(Queued(Append(s, c))) =
           IF c = Sentinel THEN Cardinality(Queued(s)) ELSE Cardinality(Queued(s)) + 1
<1>1. Queued(Append(s, c)) = IF c = Sentinel THEN Queued(s) ELSE Queued(s) \cup {Len(s) + 1}
  BY ItemAppend DEF Queued
<1>2. Len(s) + 1 \notin Queued(s)
  BY ItemAppend DEF Queued
<1> QED
  BY <1>1, <1>2, QueuedFinite, FS_AddElement

LEMMA TailQueued ==
  ASSUME NEW s \in Seq(Items), s # <<>>
  PROVE  Cardinality(Queued(Tail(s))) =
           IF Head(s) = Sentinel THEN Cardinality(Queued(s)) ELSE Cardinality(Queued(s)) - 1
<1> DEFINE rest == Queued(s) \ {1}
           shift == [i \in Queued(Tail(s)) |-> i + 1]
<1>1. /\ DOMAIN s = 1..Len(s) /\ Len(s) \in Nat /\ 1 \in DOMAIN s /\ s[1] = Head(s)
      /\ DOMAIN Tail(s) = 1..(Len(s) - 1) /\ Tail(s) \in Seq(Items)
      /\ \A i \in DOMAIN Tail(s) : i + 1 \in DOMAIN s /\ Tail(s)[i] = s[i + 1]
  BY ItemTail
<1>2. shift \in [Queued(Tail(s)) -> rest]
  BY <1>1 DEF Queued
<1>3. \A i, j \in Queued(Tail(s)) : shift[i] = shift[j] => i = j
  BY <1>1 DEF Queued
<1>4. \A k \in rest : \E i \in Queued(Tail(s)) : shift[i] = k
  <2> SUFFICES ASSUME NEW k \in rest PROVE \E i \in Queued(Tail(s)) : shift[i] = k
    OBVIOUS
  <2>1. k \in 2..Len(s) /\ s[k] # Sentinel
    BY <1>1 DEF Queued
  <2>2. k - 1 \in DOMAIN Tail(s) /\ (k - 1) + 1 = k
    BY <2>1, <1>1
  <2>3. k - 1 \in Queued(Tail(s))
    BY <2>1, <2>2, <1>1 DEF Queued
  <2> QED
    BY <2>2, <2>3
<1>5. shift \in Bijection(Queued(Tail(s)), rest)
  BY <1>2, <1>3, <1>4 DEF Bijection, Injection, Surjection, IsInjective
<1>6. ExistsBijection(Queued(Tail(s)), rest)
  BY <1>5 DEF ExistsBijection
<1>7. Cardinality(rest) = Cardinality(Queued(Tail(s)))
  BY <1>1, <1>6, QueuedFinite, FS_Bijection
<1>8. Cardinality(rest) = IF Head(s) = Sentinel THEN Cardinality(Queued(s)) ELSE Cardinality(Queued(s)) - 1
  <2>1. 1 \in Queued(s) <=> Head(s) # Sentinel
    BY <1>1 DEF Queued
  <2> QED
    BY <2>1, QueuedFinite, FS_RemoveElement
<1> QED
  BY <1>7, <1>8

(***************************************************************************)
(* The types the steps below rely on.                                      *)
(***************************************************************************)
LEMMA AudioTypes ==
  ASSUME SessionInv
  PROVE  /\ Received \in Nat
         /\ incoming_chunks \in Seq(Items)
         /\ chunks \in [TurnTasks -> Seq(Items)]
         /\ queues \in [TurnTasks -> Seq(Items)]
         /\ stream_queue \in TurnTasks \cup {None}
         /\ stream_pending_chunks \in Nat
         /\ last_heard \in Nat
<1>1. "messages_in" \in Counters
  BY DEF Counters
<1>2. metrics \in [Counters -> Nat]
  BY DEF SessionInv, SessionTypeOK
<1>3. incoming_chunks \in Seq(Chunk) /\ chunks \in [TurnTasks -> Seq(Chunk)]
  BY DEF SessionInv, SessionTypeOK, TurnTypeOK
<1>4. chunks \in [TurnTasks -> Seq(Items)]
  BY <1>3, ChunkIsItem
<1>5. queues \in [TurnTasks -> Seq(Items)]
  BY DEF SessionInv, TurnTypeOK, Items
<1> QED
  BY <1>1, <1>2, <1>3, <1>4, <1>5, ChunkIsItem DEF Received, SessionInv, SessionTypeOK, EventTypeOK

LEMMA InitAudio == Init => AudioInv
<1> SUFFICES ASSUME Init PROVE AudioInv
  OBVIOUS
<1>1. Received = 0
  BY DEF Init, Received, Counters
<1>2. OnePlace
  BY DEF Init, OnePlace
<1>3. WaitingInOrder
  <2>1. last_heard = 0 /\ incoming_chunks = <<>> /\ \A q \in TurnTasks : queues[q] = <<>> /\ ~Live(q)
    BY DEF Init, Live
  <2> QED
    BY <1>1, <2>1, EmptyInOrder DEF WaitingInOrder
<1>4. PendingCountsQueuedChunks
  BY DEF Init, PendingCountsQueuedChunks
<1> QED
  BY <1>2, <1>3, <1>4 DEF AudioInv

(***************************************************************************)
(* Most steps leave the audio where it is, drop the buffer, or put a       *)
(* sentinel behind it.                                                     *)
(***************************************************************************)
Quiet ==
  /\ UNCHANGED <<chunks, stream_queue, stream_pending_chunks, last_heard>>
  /\ incoming_chunks' \in {incoming_chunks, <<>>}
  /\ queues' \in {queues, PutNowait(Sentinel)}
  /\ Received' \in {Received, Received + 1}
  /\ \A t \in TurnTasks : Live(t)' => Live(t)

\* The turn's `finally` drops the queue and the count.
Dropped(t) ==
  /\ UNCHANGED <<chunks, incoming_chunks, last_heard>>
  /\ Received' = Received
  /\ \A u \in TurnTasks : Live(u)' => Live(u)
  /\ stream_queue' = None
  /\ stream_pending_chunks' = 0
  /\ queues' = [queues EXCEPT ![queue_of[t]] = <<>>]

LEMMA PutSentinel ==
  ASSUME SessionInv, AudioInv, queues' = PutNowait(Sentinel)
  PROVE  \/ queues' = queues
         \/ /\ stream_queue \in TurnTasks
            /\ queues'[stream_queue] = Append(queues[stream_queue], Sentinel)
            /\ \A q \in TurnTasks \ {stream_queue} : queues'[q] = queues[q]
<1> QED
  BY AudioTypes DEF PutNowait

LEMMA SentinelIsItem == Sentinel \in Items
BY DEF Items

LEMMA QuietAudio ==
  ASSUME SessionInv, AudioInv, Quiet
  PROVE  AudioInv'
<1> USE AudioTypes DEF Quiet
<1>1. \/ queues' = queues
      \/ /\ stream_queue \in TurnTasks
         /\ queues'[stream_queue] = Append(queues[stream_queue], Sentinel)
         /\ \A q \in TurnTasks \ {stream_queue} : queues'[q] = queues[q]
  BY PutSentinel
<1>2. Received' \in Nat /\ Received <= Received' /\ last_heard <= Received
  BY DEF AudioInv, WaitingInOrder
<1>3. OnePlace'
  BY <1>1 DEF AudioInv, OnePlace
<1>4. InOrder(incoming_chunks', last_heard, Received')
  <2>1. InOrder(incoming_chunks, last_heard, Received')
    BY <1>2, LaterInOrder DEF AudioInv, WaitingInOrder
  <2> QED
    BY <2>1, EmptyInOrder
<1>5. \A q \in TurnTasks : InOrder(queues'[q], last_heard, Received')
  <2> SUFFICES ASSUME NEW q \in TurnTasks PROVE InOrder(queues'[q], last_heard, Received')
    OBVIOUS
  <2>1. InOrder(queues[q], last_heard, Received) /\ queues[q] \in Seq(Items)
    BY DEF AudioInv, WaitingInOrder
  <2>2. InOrder(queues[q], last_heard, Received')
    BY <1>2, <2>1, LaterInOrder
  <2>3. InOrder(Append(queues[q], Sentinel), last_heard, Received')
    BY <1>2, <2>1, SentinelIsItem, AppendInOrder
  <2> QED
    BY <1>1, <2>2, <2>3
<1>6. \A t \in TurnTasks : Live(t)' =>
         /\ InOrder(chunks[t], last_heard, Received')
         /\ \A i \in DOMAIN chunks[t], j \in DOMAIN incoming_chunks' :
              chunks[t][i].id < incoming_chunks'[j].id
  <2> SUFFICES ASSUME NEW t \in TurnTasks, Live(t)
               PROVE  /\ InOrder(chunks[t], last_heard, Received')
                      /\ \A i \in DOMAIN chunks[t], j \in DOMAIN incoming_chunks' :
                           chunks[t][i].id < incoming_chunks'[j].id
    OBVIOUS
  <2>1. InOrder(chunks[t], last_heard, Received) /\ chunks[t] \in Seq(Items)
    BY DEF AudioInv, WaitingInOrder
  <2>2. InOrder(chunks[t], last_heard, Received')
    BY <1>2, <2>1, LaterInOrder
  <2> QED
    BY <2>2 DEF AudioInv, WaitingInOrder
<1>7. WaitingInOrder'
  <2>1. last_heard \in Nat
    OBVIOUS
  <2>2. last_heard <= Received'
    BY <1>2, <2>1
  <2> QED
    BY <1>4, <1>5, <1>6, <2>2 DEF WaitingInOrder
<1>8. PendingCountsQueuedChunks'
  <2>1. CASE stream_queue = None
    BY <2>1 DEF AudioInv, PendingCountsQueuedChunks
  <2>2. CASE stream_queue \in TurnTasks
    <3>1. stream_queue # None
      BY <2>2, NoneAssumption DEF TurnTasks
    <3>2. stream_pending_chunks = Cardinality(Queued(queues[stream_queue]))
      BY <3>1 DEF AudioInv, PendingCountsQueuedChunks, Queued
    <3>3. Cardinality(Queued(queues'[stream_queue])) = Cardinality(Queued(queues[stream_queue]))
      BY <1>1, <2>2, SentinelIsItem, AppendQueued
    <3> QED
      BY <3>1, <3>2, <3>3 DEF PendingCountsQueuedChunks, Queued
  <2> QED
    BY <2>1, <2>2
<1> QED
  BY <1>3, <1>7, <1>8 DEF AudioInv

LEMMA DroppedAudio ==
  ASSUME SessionInv, AudioInv, Mode = "streaming", NEW t \in TurnTasks, Live(t), Dropped(t)
  PROVE  AudioInv'
<1> USE AudioTypes DEF Dropped
<1>1. queue_of[t] \in TurnTasks /\ stream_queue = queue_of[t]
  BY DEF SessionInv, IdleReferences, LiveTurnOwnsSession
<1>2. \A q \in TurnTasks : queues'[q] = <<>>
  BY <1>1 DEF AudioInv, OnePlace
<1>3. OnePlace'
  BY <1>2 DEF AudioInv, OnePlace
<1>4. WaitingInOrder'
  BY <1>2, EmptyInOrder DEF AudioInv, WaitingInOrder
<1>5. PendingCountsQueuedChunks'
  BY DEF PendingCountsQueuedChunks
<1> QED
  BY <1>3, <1>4, <1>5 DEF AudioInv

(***************************************************************************)
(* The steps that do more.                                                 *)
(***************************************************************************)
LEMMA InboundCounts ==
  ASSUME SessionInv, NEW kind, NEW counts, Inbound(kind, counts)
  PROVE  Received' = Received + 1
BY DEF Inbound, Received, Counters

LEMMA NewChunkId ==
  ASSUME SessionInv, NEW size \in ChunkSizes
  PROVE  NewChunk(size) \in Items /\ NewChunk(size) # Sentinel /\ NewChunk(size).id = Received + 1
<1>1. NewChunk(size) \in Chunk
  BY NewChunkTyping
<1> QED
  BY <1>1, ChunkIsItem DEF NewChunk, Received

\* _handle_buffered_audio_chunk puts the newest chunk last.
LEMMA BufferAudio ==
  ASSUME SessionInv, AudioInv, NEW size \in ChunkSizes, BufferChunk(size)
  PROVE  AudioInv'
<1> USE AudioTypes
<1> DEFINE new == NewChunk(size)
<1>1. new \in Items /\ new # Sentinel /\ new.id = Received + 1
  BY NewChunkId
<1>2. /\ Mode = "buffered" /\ Received' = Received + 1
      /\ UNCHANGED <<chunks, tpc, stream_queue, stream_pending_chunks, queues, last_heard>>
      /\ incoming_chunks' \in {Append(incoming_chunks, new), <<>>}
  BY InboundCounts DEF BufferChunk, ClearIncoming, streamVars, turnVars, historyVars
<1> HIDE DEF new
<1>3. CASE incoming_chunks' = <<>>
  <2>1. Quiet
    BY <1>2, <1>3 DEF Quiet, Live
  <2> QED
    BY <2>1, QuietAudio
<1>4. CASE incoming_chunks' = Append(incoming_chunks, new)
  <2>1. OnePlace'
    BY <1>2 DEF AudioInv, OnePlace
  <2>2. last_heard <= Received /\ last_heard <= Received'
    BY <1>2 DEF AudioInv, WaitingInOrder
  <2>3. InOrder(incoming_chunks', last_heard, Received')
    BY <1>1, <1>2, <1>4, <2>2, AppendInOrder DEF AudioInv, WaitingInOrder
  <2>4. \A q \in TurnTasks : InOrder(queues[q], last_heard, Received')
    BY <1>2, LaterInOrder DEF AudioInv, WaitingInOrder
  <2>5. \A t \in TurnTasks : Live(t) => InOrder(chunks[t], last_heard, Received')
    BY <1>2, LaterInOrder DEF AudioInv, WaitingInOrder
  <2>6. ASSUME NEW t \in TurnTasks, Live(t), NEW i \in DOMAIN chunks[t], NEW j \in DOMAIN incoming_chunks'
        PROVE  chunks[t][i].id < incoming_chunks'[j].id
    <3>1. chunks[t][i] \in Chunk
      BY DEF SessionInv, TurnTypeOK
    <3>2. chunks[t][i] # Sentinel /\ chunks[t][i].id \in Nat
      BY <3>1, ChunkIsItem
    <3>3. chunks[t][i].id <= Received
      BY <2>6, <3>2 DEF AudioInv, WaitingInOrder, InOrder
    <3>4. CASE j = Len(incoming_chunks) + 1
      BY <1>1, <1>4, <3>2, <3>3, <3>4, ItemAppend
    <3>5. CASE j \in DOMAIN incoming_chunks
      <4>1. incoming_chunks'[j] = incoming_chunks[j]
        BY <1>1, <1>4, <3>5, ItemAppend
      <4> QED
        BY <2>6, <3>5, <4>1 DEF AudioInv, WaitingInOrder
    <3> QED
      BY <1>1, <1>4, <3>4, <3>5, ItemAppend
  <2>7. \A t \in TurnTasks : Live(t)' <=> Live(t)
    BY <1>2 DEF Live
  <2>8. WaitingInOrder'
    BY <1>2, <2>2, <2>3, <2>4, <2>5, <2>6, <2>7 DEF WaitingInOrder
  <2>9. PendingCountsQueuedChunks'
    BY <1>2 DEF AudioInv, PendingCountsQueuedChunks
  <2> QED
    BY <2>1, <2>8, <2>9 DEF AudioInv
<1> QED
  BY <1>2, <1>3, <1>4

\* handle_audio_end hands the buffer over to a turn when none is alive.
LEMMA HandOverAudio ==
  ASSUME SessionInv, AudioInv, EndBuffered
  PROVE  AudioInv'
<1> USE AudioTypes
<1>1. /\ Mode = "buffered" /\ Received' = Received + 1
      /\ UNCHANGED <<stream_queue, stream_pending_chunks, queues, last_heard>>
  BY InboundCounts DEF EndBuffered, streamVars, historyVars
<1>2. CASE UNCHANGED <<incomingVars, turnVars>>
  <2>1. Quiet
    BY <1>1, <1>2 DEF Quiet, Live, incomingVars, turnVars
  <2> QED
    BY <2>1, QuietAudio
<1>3. CASE /\ turn_task = None
           /\ \E t \in TurnTasks : tpc[t] = "unborn"
           /\ CreateTurn(FreshTask, incoming_chunks, None)
           /\ ClearIncoming
  <2>1. \A u \in TurnTasks : ~Live(u)
    BY <1>3, NoneAssumption DEF SessionInv, LiveTurnOwnsSession, TurnTasks
  <2>2. \A u \in TurnTasks : Live(u)' => u = FreshTask
    BY <1>3, <2>1 DEF CreateTurn, Live, SessionInv, TurnTypeOK
  <2>3. FreshTask \in TurnTasks /\ chunks'[FreshTask] = incoming_chunks /\ incoming_chunks' = <<>>
    BY <1>3, FreshTaskIsUnborn DEF CreateTurn, ClearIncoming
  <2>4. OnePlace'
    BY <1>1, VoiceAssumption DEF AudioInv, OnePlace
  <2>5. last_heard <= Received' /\ InOrder(incoming_chunks, last_heard, Received')
    BY <1>1, LaterInOrder DEF AudioInv, WaitingInOrder
  <2>6. \A q \in TurnTasks : InOrder(queues[q], last_heard, Received')
    BY <1>1, LaterInOrder DEF AudioInv, WaitingInOrder
  <2>7. WaitingInOrder'
    BY <1>1, <2>2, <2>3, <2>5, <2>6, EmptyInOrder DEF WaitingInOrder
  <2>8. PendingCountsQueuedChunks'
    BY <1>1 DEF AudioInv, PendingCountsQueuedChunks
  <2> QED
    BY <2>4, <2>7, <2>8 DEF AudioInv
<1> QED
  BY <1>2, <1>3 DEF EndBuffered

\* _handle_streaming_audio_chunk: with or without a new queue, with or without a new turn.
LEMMA StreamAudio ==
  ASSUME SessionInv, AudioInv, NEW size \in ChunkSizes, StreamChunk(size)
  PROVE  AudioInv'
<1> USE AudioTypes
<1> DEFINE new == NewChunk(size)
           q == IF stream_queue = None THEN FreshTask ELSE stream_queue
<1>1. new \in Items /\ new # Sentinel /\ new.id = Received + 1
  BY NewChunkId
<1>2. /\ Mode = "streaming" /\ Received' = Received + 1 /\ stream_queue' = q
      /\ UNCHANGED <<incoming_chunks, last_heard>>
  BY InboundCounts DEF StreamChunk, incomingVars, historyVars
<1>3. q \in TurnTasks /\ q # None
  BY FreshTaskIsUnborn, NoneAssumption DEF StreamChunk, TurnTasks
<1>4. \/ UNCHANGED <<queues, stream_pending_chunks, chunks, tpc>>
      \/ /\ queues' = [queues EXCEPT ![q] = Append(@, new)]
         /\ stream_pending_chunks' = stream_pending_chunks + 1
         /\ \/ UNCHANGED <<chunks, tpc>>
            \/ \E t \in TurnTasks : chunks' = [chunks EXCEPT ![t] = <<>>]
  BY FreshTaskIsUnborn DEF StreamChunk, CreateTurn, turnVars
<1>5. \A u \in TurnTasks : chunks[u] = <<>> /\ chunks'[u] = <<>>
  BY <1>2, <1>4 DEF AudioInv, OnePlace
<1>6. \A u \in TurnTasks \ {q} : queues[u] = <<>>
  BY <1>3, NoneAssumption DEF AudioInv, OnePlace, TurnTasks
<1>7. stream_pending_chunks = Cardinality(Queued(queues[q]))
  <2>1. CASE stream_queue # None
    BY <2>1 DEF AudioInv, PendingCountsQueuedChunks, Queued
  <2>2. CASE stream_queue = None
    <3>1. stream_pending_chunks = 0 /\ queues[q] = <<>>
      BY <1>3, <2>2 DEF AudioInv, PendingCountsQueuedChunks, OnePlace
    <3> QED
      BY <3>1, EmptyQueued
  <2> QED
    BY <2>1, <2>2
<1> HIDE DEF new, q
<1>8. last_heard <= Received /\ last_heard <= Received'
  BY <1>2 DEF AudioInv, WaitingInOrder
<1>9. InOrder(queues'[q], last_heard, Received')
  <2>1. InOrder(queues[q], last_heard, Received) /\ queues[q] \in Seq(Items)
    BY <1>3 DEF AudioInv, WaitingInOrder
  <2>2. InOrder(queues[q], last_heard, Received')
    BY <1>2, <2>1, LaterInOrder
  <2>3. InOrder(Append(queues[q], new), last_heard, Received')
    BY <1>1, <1>2, <1>8, <2>1, AppendInOrder
  <2> QED
    BY <1>3, <1>4, <2>2, <2>3
<1>10. \A u \in TurnTasks \ {q} : queues'[u] = <<>>
  BY <1>4, <1>6
<1>11. OnePlace'
  BY <1>2, <1>5, <1>10 DEF AudioInv, OnePlace
<1>12. incoming_chunks' = <<>>
  BY <1>2 DEF AudioInv, OnePlace
<1>13. WaitingInOrder'
  <2>1. InOrder(incoming_chunks', last_heard, Received')
    BY <1>12, EmptyInOrder
  <2>2. \A u \in TurnTasks : InOrder(queues'[u], last_heard, Received')
    BY <1>9, <1>10, EmptyInOrder
  <2>3. \A u \in TurnTasks : InOrder(chunks'[u], last_heard, Received') /\ DOMAIN chunks'[u] = {}
    BY <1>5, EmptyInOrder
  <2> QED
    BY <1>2, <1>8, <2>1, <2>2, <2>3 DEF WaitingInOrder
<1>14. stream_pending_chunks' = Cardinality(Queued(queues'[q]))
  <2>1. CASE UNCHANGED <<queues, stream_pending_chunks>>
    BY <1>7, <2>1
  <2>2. CASE /\ queues' = [queues EXCEPT ![q] = Append(@, new)]
             /\ stream_pending_chunks' = stream_pending_chunks + 1
    BY <1>1, <1>3, <1>7, <2>2, AppendQueued
  <2> QED
    BY <1>4, <2>1, <2>2
<1>15. PendingCountsQueuedChunks'
  BY <1>2, <1>3, <1>14 DEF PendingCountsQueuedChunks, Queued
<1> QED
  BY <1>11, <1>13, <1>15 DEF AudioInv

\* What a turn takes out of its list or its queue is the head of what waits.
LEMMA PopAudio ==
  ASSUME SessionInv, AudioInv, NEW t \in TurnTasks, Live(t), Available(t) # <<>>, Pop(t),
         \A u \in TurnTasks : Live(u)' => Live(u),
         UNCHANGED <<incoming_chunks, stream_queue>>, Received' = Received,
         Head(Available(t)) = Sentinel => Mode = "streaming" /\ UNCHANGED last_heard,
         last_heard' = last_heard \/ last_heard' = Head(Available(t)).id,
         stream_pending_chunks' =
           IF Mode = "streaming" /\ Head(Available(t)) # Sentinel /\ stream_pending_chunks > 0
             THEN stream_pending_chunks - 1
             ELSE stream_pending_chunks
  PROVE  /\ AudioInv'
         /\ Head(Available(t)) # Sentinel /\ last_heard' = Head(Available(t)).id =>
              last_heard' > last_heard
<1> USE AudioTypes
<1> DEFINE s == Available(t)
<1>1. /\ turn_task = t /\ \A u \in TurnTasks : Live(u) => u = t
      /\ Mode = "streaming" => queue_of[t] = stream_queue /\ stream_queue \in TurnTasks
  BY DEF SessionInv, LiveTurnOwnsSession, IdleReferences
<1>2. s \in Seq(Items) /\ InOrder(s, last_heard, Received)
  <2>1. CASE Mode = "buffered"
    <3>1. s = chunks[t]
      BY <2>1 DEF Available
    <3> QED
      BY <3>1 DEF AudioInv, WaitingInOrder
  <2>2. CASE Mode = "streaming"
    <3>1. s = queues[stream_queue] /\ stream_queue \in TurnTasks
      BY <1>1, <2>2 DEF Available
    <3> QED
      BY <3>1 DEF AudioInv, WaitingInOrder
  <2> QED
    BY <2>1, <2>2, VoiceAssumption
<1>3. /\ Tail(s) \in Seq(Items) /\ InOrder(Tail(s), last_heard, Received)
      /\ Head(s) # Sentinel =>
           /\ InOrder(Tail(s), Head(s).id, Received)
           /\ Head(s).id \in Nat /\ last_heard < Head(s).id /\ Head(s).id <= Received
  BY <1>2, ItemTail, TailInOrder
<1>4. /\ last_heard' \in Nat /\ last_heard <= last_heard' /\ last_heard' <= Received
      /\ InOrder(Tail(s), last_heard', Received)
      /\ Head(s) # Sentinel /\ last_heard' = Head(s).id => last_heard' > last_heard
  BY <1>3 DEF AudioInv, WaitingInOrder
<1>5. ASSUME Mode = "buffered" PROVE AudioInv'
  <2>1. /\ s = chunks[t] /\ chunks'[t] = Tail(s) /\ UNCHANGED queues
        /\ \A u \in TurnTasks \ {t} : chunks'[u] = chunks[u]
        /\ UNCHANGED stream_pending_chunks
    BY <1>5 DEF Pop, Available
  <2>2. \A q \in TurnTasks : queues[q] = <<>>
    BY <1>5, NoneAssumption DEF AudioInv, OnePlace, TurnTasks
  <2>3. OnePlace'
    BY <1>5, <2>1 DEF AudioInv, OnePlace
  <2>4. InOrder(incoming_chunks, last_heard', Received)
    <3>1. CASE last_heard' = last_heard
      BY <3>1 DEF AudioInv, WaitingInOrder
    <3>2. CASE last_heard' = s[1].id
      <4>1. 1 \in DOMAIN s
        BY <1>2, ItemTail
      <4>2. \A j \in DOMAIN incoming_chunks : s[1].id < incoming_chunks[j].id
        BY <2>1, <4>1 DEF AudioInv, WaitingInOrder
      <4> QED
        BY <3>2, <4>2 DEF AudioInv, WaitingInOrder, InOrder
    <3> QED
      BY <1>2, <3>1, <3>2, ItemTail
  <2>5. \A i \in DOMAIN Tail(s), j \in DOMAIN incoming_chunks : Tail(s)[i].id < incoming_chunks[j].id
    <3>1. \A i \in DOMAIN s, j \in DOMAIN incoming_chunks : s[i].id < incoming_chunks[j].id
      BY <2>1 DEF AudioInv, WaitingInOrder
    <3> QED
      BY <1>2, <3>1, ItemTail
  <2>6. \A u \in TurnTasks : Live(u)' => u = t
    BY <1>1
  <2> HIDE DEF s
  <2>7. WaitingInOrder'
    BY <1>4, <2>1, <2>2, <2>4, <2>5, <2>6, EmptyInOrder DEF WaitingInOrder
  <2>8. PendingCountsQueuedChunks'
    BY <2>1 DEF AudioInv, PendingCountsQueuedChunks
  <2> QED
    BY <1>4, <2>3, <2>7, <2>8 DEF AudioInv
<1>6. ASSUME Mode = "streaming" PROVE AudioInv'
  <2> DEFINE q == stream_queue
  <2>1. /\ q \in TurnTasks /\ s = queues[q] /\ queues'[q] = Tail(s) /\ UNCHANGED chunks
        /\ \A u \in TurnTasks \ {q} : queues'[u] = queues[u]
    BY <1>1, <1>6 DEF Pop, Available
  <2>2. \A u \in TurnTasks \ {q} : queues[u] = <<>>
    BY DEF AudioInv, OnePlace
  <2>3. incoming_chunks = <<>> /\ \A u \in TurnTasks : chunks[u] = <<>>
    BY <1>6 DEF AudioInv, OnePlace
  <2>4. OnePlace'
    BY <1>6, <2>1, <2>2, <2>3 DEF OnePlace
  <2>5. q # None /\ stream_pending_chunks = Cardinality(Queued(s))
    BY <2>1, NoneAssumption DEF AudioInv, PendingCountsQueuedChunks, Queued, TurnTasks
  <2>6. stream_pending_chunks' = Cardinality(Queued(Tail(s)))
    <3>1. /\ Cardinality(Queued(Tail(s))) =
               IF Head(s) = Sentinel THEN stream_pending_chunks ELSE stream_pending_chunks - 1
          /\ Cardinality(Queued(Tail(s))) \in Nat
      BY <1>2, <1>3, <2>5, TailQueued, QueuedFinite
    <3> QED
      BY <1>6, <3>1
  <2>7. PendingCountsQueuedChunks'
    BY <2>1, <2>5, <2>6 DEF PendingCountsQueuedChunks, Queued
  <2> HIDE DEF s, q
  <2>8. WaitingInOrder'
    <3>1. InOrder(incoming_chunks', last_heard', Received')
      BY <2>3, EmptyInOrder
    <3>2. \A u \in TurnTasks : InOrder(queues'[u], last_heard', Received')
      BY <1>4, <2>1, <2>2, EmptyInOrder
    <3>3. \A u \in TurnTasks : InOrder(chunks'[u], last_heard', Received') /\ DOMAIN chunks'[u] = {}
      BY <2>1, <2>3, EmptyInOrder
    <3> QED
      BY <1>4, <3>1, <3>2, <3>3 DEF WaitingInOrder
  <2> QED
    BY <1>4, <2>4, <2>7, <2>8 DEF AudioInv
<1> QED
  BY <1>4, <1>5, <1>6, VoiceAssumption

(***************************************************************************)
(* Every step.                                                             *)
(***************************************************************************)
LEMMA ReceiveAudio ==
  ASSUME SessionInv, AudioInv, Receive
  PROVE  AudioInv'
<1>1. CASE \E size \in ChunkSizes : BufferChunk(size)
  BY <1>1, BufferAudio DEF BufferChunk, historyVars
<1>2. CASE \E size \in ChunkSizes : StreamChunk(size)
  BY <1>2, StreamAudio DEF StreamChunk, historyVars
<1>3. CASE EndBuffered
  BY <1>3, HandOverAudio DEF EndBuffered, historyVars
<1>4. CASE \/ EventRefused \/ HandlerRaises \/ Malformed \/ HelloAccepted \/ HelloRejected
           \/ Cancel \/ AudioUnauthorized \/ BadChunk \/ AudioRefused \/ EndStreaming
  <2>1. Received' = Received + 1
    BY <1>4, InboundCounts DEF EventRefused, HandlerRaises, Malformed, HelloAccepted,
       HelloRejected, Cancel, AudioUnauthorized, BadChunk, AudioRefused, EndStreaming
  <2>2. UNCHANGED <<chunks, stream_queue, stream_pending_chunks, last_heard, tpc>>
    BY <1>4 DEF EventRefused, HandlerRaises, Malformed, HelloAccepted, HelloRejected, Cancel,
         AudioUnauthorized, BadChunk, AudioRefused, EndStreaming, streamVars, turnVars, historyVars
  <2>3. /\ incoming_chunks' \in {incoming_chunks, <<>>}
        /\ queues' \in {queues, PutNowait(Sentinel)}
    BY <1>4 DEF EventRefused, HandlerRaises, Malformed, HelloAccepted, HelloRejected, Cancel,
         AudioUnauthorized, BadChunk, AudioRefused, EndStreaming, ClearIncoming, incomingVars,
         streamVars
  <2>4. Quiet
    BY <2>1, <2>2, <2>3 DEF Quiet, Live
  <2> QED
    BY <2>2, <2>4, QuietAudio
<1> QED
  BY <1>1, <1>2, <1>3, <1>4 DEF Receive

LEMMA HandlerAudio ==
  ASSUME SessionInv, AudioInv, HandlerStep
  PROVE  AudioInv'
<1>1. UNCHANGED <<chunks, stream_queue, stream_pending_chunks, last_heard, incoming_chunks, tpc, metrics>>
  BY DEF HandlerStep, WriteFrame, HandlerSent, HandlerSendFails, CloseAfterReject,
     ReceiveDisconnect, cleanupUnchanged, sendUnchanged, incomingVars, streamVars, turnVars,
     historyVars
<1>2. queues' \in {queues, PutNowait(Sentinel)}
  BY DEF HandlerStep, WriteFrame, HandlerSent, HandlerSendFails, CloseAfterReject,
     ReceiveDisconnect, CleanupOnDisconnect, sendUnchanged, streamVars
<1>3. Quiet
  BY <1>1, <1>2 DEF Quiet, Live, Received
<1> QED
  BY <1>1, <1>3, QuietAudio

\* What the steps of a turn have in common.
LEMMA TurnAudio ==
  ASSUME SessionInv, NEW t \in TurnTasks, TurnStep(t)
  PROVE  UNCHANGED incoming_chunks /\ Received' = Received /\ \A u \in TurnTasks : Live(u)' => Live(u)
<1>1. UNCHANGED incoming_chunks
  BY DEF TurnStep, StartTurn, NextChunk, EndOfAudio, VadReturns, SttReturns, BridgeReturns,
     TtsYields,
     TtsEnds, AdapterRaises, WriteFrame, TurnSent, TurnSendFails, TurnInterrupted,
     turnStepUnchanged,
     turnSendUnchanged, sendUnchanged, sessionUnchanged, incomingVars
<1>2. Received' = Received
  <2>1. UNCHANGED metrics \/ \E counter \in {"started", "completed", "cancelled", "failed"} : Count(counter)
    BY DEF TurnStep, StartTurn, NextChunk, EndOfAudio, VadReturns, SttReturns, BridgeReturns,
       TtsYields, TtsEnds, AdapterRaises, WriteFrame, TurnSent, TurnSendFails, TurnInterrupted,
       EnsureNotCancelled, CancelTurn, FailTurn, sendUnchanged
  <2>2. \A counter \in {"started", "completed", "cancelled", "failed"} :
          Count(counter) => metrics'["messages_in"] = metrics["messages_in"]
    BY DEF Count, Counters, SessionInv, SessionTypeOK
  <2> QED
    BY <2>1, <2>2 DEF Received
<1>3. UNCHANGED tpc \/ (Live(t) /\ \E pc : Goto(t, pc))
  BY DEF TurnStep, StartTurn, NextChunk, EndOfAudio, VadReturns, SttReturns, BridgeReturns,
     TtsYields,
     TtsEnds, AdapterRaises, WriteFrame, TurnSent, TurnSendFails, TurnInterrupted, sendUnchanged,
     turnVars, At, Live, EnsureNotCancelled, CancelTurn, FailTurn, FinishTurn, EndWithoutFinally
<1>4. \A u \in TurnTasks : Live(u)' => Live(u)
  BY <1>3 DEF Live, Goto, SessionInv, TurnTypeOK
<1> QED
  BY <1>1, <1>2, <1>4

\* The steps of a turn that take nothing out: they are quiet, or `finally` runs.
LEMMA OtherTurnAudio ==
  ASSUME SessionInv, AudioInv, NEW t \in TurnTasks,
         \/ StartTurn(t) \/ VadReturns(t) \/ SttReturns(t) \/ BridgeReturns(t) \/ TtsYields(t)
         \/ TtsEnds(t) \/ AdapterRaises(t) \/ WriteFrame(t) \/ TurnSent(t) \/ TurnSendFails(t)
         \/ TurnInterrupted(t) \/ (Mode = "buffered" /\ EndOfAudio(t))
  PROVE  AudioInv'
<1>1. UNCHANGED incoming_chunks /\ Received' = Received /\ \A u \in TurnTasks : Live(u)' => Live(u)
  BY TurnAudio DEF TurnStep
<1>2. UNCHANGED <<chunks, last_heard>>
  BY DEF StartTurn, VadReturns, SttReturns, BridgeReturns, TtsYields, TtsEnds, AdapterRaises,
     WriteFrame, TurnSent, TurnSendFails, TurnInterrupted, EndOfAudio, turnStepUnchanged,
     turnSendUnchanged, sendUnchanged, turnVars, historyVars
<1>3. \/ UNCHANGED <<queues, stream_queue, stream_pending_chunks>>
      \/ Live(t) /\ FinishTurn(t)
  BY DEF StartTurn, VadReturns, SttReturns, BridgeReturns, TtsYields, TtsEnds, AdapterRaises,
     WriteFrame, TurnSent, TurnSendFails, TurnInterrupted, EndOfAudio, turnStepUnchanged,
     sendUnchanged, streamVars, EndWithoutFinally, Live
<1>4. CASE UNCHANGED <<queues, stream_queue, stream_pending_chunks>>
  <2>1. Quiet
    BY <1>1, <1>2, <1>4 DEF Quiet
  <2> QED
    BY <1>2, <2>1, QuietAudio
<1>5. CASE Live(t) /\ FinishTurn(t) /\ Mode = "streaming"
  <2>1. Dropped(t)
    BY <1>1, <1>2, <1>5 DEF Dropped, FinishTurn
  <2> QED
    BY <1>2, <1>5, <2>1, DroppedAudio
<1>6. CASE FinishTurn(t) /\ Mode # "streaming"
  BY <1>4, <1>6 DEF FinishTurn, streamVars
<1> QED
  BY <1>3, <1>4, <1>5, <1>6

LEMMA NextChunkAudio ==
  ASSUME SessionInv, AudioInv, NEW t \in TurnTasks, NextChunk(t)
  PROVE  AudioInv' /\ (~cancelled[t] => last_heard' > last_heard)
<1>1. UNCHANGED incoming_chunks /\ Received' = Received /\ \A u \in TurnTasks : Live(u)' => Live(u)
  BY TurnAudio DEF TurnStep
<1>2. /\ Live(t) /\ Available(t) # <<>> /\ Head(Available(t)) # Sentinel /\ Pop(t)
      /\ UNCHANGED stream_queue
      /\ last_heard' = IF cancelled[t] THEN last_heard ELSE Head(Available(t)).id
      /\ stream_pending_chunks' =
           IF Mode = "streaming" /\ stream_pending_chunks > 0
             THEN stream_pending_chunks - 1
             ELSE stream_pending_chunks
  BY DEF NextChunk, At, Live
<1> QED
  BY <1>1, <1>2, PopAudio

LEMMA SentinelAudio ==
  ASSUME SessionInv, AudioInv, NEW t \in TurnTasks, EndOfAudio(t), Mode = "streaming"
  PROVE  AudioInv'
<1>1. UNCHANGED incoming_chunks /\ Received' = Received /\ \A u \in TurnTasks : Live(u)' => Live(u)
  BY TurnAudio DEF TurnStep
<1>2. /\ Live(t) /\ Available(t) # <<>> /\ Head(Available(t)) = Sentinel /\ Pop(t)
      /\ UNCHANGED <<stream_queue, stream_pending_chunks, last_heard>>
  BY DEF EndOfAudio, At, Live, turnStepUnchanged, historyVars
<1> QED
  BY <1>1, <1>2, PopAudio

LEMMA StepAudio ==
  ASSUME SessionInv, AudioInv, [Next]_vars
  PROVE  AudioInv'
<1>1. CASE Receive \/ HandlerStep
  BY <1>1, ReceiveAudio, HandlerAudio
<1>2. ASSUME NEW t \in TurnTasks, TurnStep(t)
      PROVE  AudioInv'
  <2>1. CASE NextChunk(t)
    BY <2>1, NextChunkAudio
  <2>2. CASE EndOfAudio(t) /\ Mode = "streaming"
    BY <2>2, SentinelAudio
  <2>3. CASE ~NextChunk(t) /\ ~(EndOfAudio(t) /\ Mode = "streaming")
    BY <1>2, <2>3, OtherTurnAudio, VoiceAssumption DEF TurnStep
  <2> QED
    BY <2>1, <2>2, <2>3
<1>3. CASE (\E t \in Tasks : BeginSend(t)) \/ ClientLeaves \/ UNCHANGED vars
  <2>1. UNCHANGED <<incoming_chunks, chunks, queues, stream_queue, stream_pending_chunks, last_heard,
                    tpc, metrics>>
    BY <1>3 DEF BeginSend, ClientLeaves, sendUnchanged, vars, incomingVars, streamVars, turnVars,
         historyVars
  <2>2. Quiet
    BY <2>1 DEF Quiet, Live, Received
  <2> QED
    BY <2>1, <2>2, QuietAudio
<1> QED
  BY <1>1, <1>2, <1>3 DEF Next

\* A turn comes from the wait for a chunk to its VAD with the chunk it took.
LEMMA HearingStep ==
  ASSUME SessionInv, Next, NEW t \in TurnTasks, tpc[t] = "listen", tpc'[t] = "vad"
  PROVE  NextChunk(t) /\ ~cancelled[t]
<1>1. CASE Receive
  <2>1. UNCHANGED tpc \/ ((\E u \in TurnTasks : tpc[u] = "unborn") /\ tpc' = [tpc EXCEPT ![FreshTask] = "created"])
    BY <1>1 DEF Receive, EventRefused, HandlerRaises, Malformed, HelloAccepted, HelloRejected,
       Cancel,
         AudioUnauthorized, BadChunk, AudioRefused, BufferChunk, StreamChunk, EndBuffered,
         EndStreaming, CreateTurn, turnVars
  <2> QED
    BY <2>1 DEF SessionInv, TurnTypeOK
<1>2. CASE HandlerStep \/ (\E u \in Tasks : BeginSend(u)) \/ ClientLeaves
  BY <1>2 DEF HandlerStep, WriteFrame, HandlerSent, HandlerSendFails, CloseAfterReject,
       ReceiveDisconnect, cleanupUnchanged, BeginSend, ClientLeaves, sendUnchanged, turnVars
<1>3. ASSUME NEW u \in TurnTasks, TurnStep(u)
      PROVE  NextChunk(t) /\ ~cancelled[t]
  <2>1. UNCHANGED tpc \/ \E pc : Goto(u, pc)
    BY <1>3 DEF TurnStep, StartTurn, NextChunk, EndOfAudio, VadReturns, SttReturns, BridgeReturns,
         TtsYields, TtsEnds, AdapterRaises, WriteFrame, TurnSent, TurnSendFails, TurnInterrupted,
         sendUnchanged, turnVars, EnsureNotCancelled, CancelTurn, FailTurn, FinishTurn,
         EndWithoutFinally
  <2>2. u = t
    BY <2>1 DEF Goto, SessionInv, TurnTypeOK
  <2>3. CASE NextChunk(u)
    BY <2>2, <2>3 DEF NextChunk, EnsureNotCancelled, CancelTurn, Goto, SessionInv, TurnTypeOK
  <2>4. CASE ~NextChunk(u)
    BY <1>3, <2>2, <2>4 DEF TurnStep, StartTurn, EndOfAudio, VadReturns, SttReturns, BridgeReturns,
         TtsYields, TtsEnds, AdapterRaises, WriteFrame, TurnSent, TurnSendFails, TurnInterrupted,
         sendUnchanged, turnVars, EnsureNotCancelled, CancelTurn, FailTurn, FinishTurn,
         EndWithoutFinally, Goto, At, SessionInv, TurnTypeOK
  <2> QED
    BY <2>3, <2>4
<1> QED
  BY <1>1, <1>2, <1>3 DEF Next

(***************************************************************************)
(* The results.                                                            *)
(***************************************************************************)

\* Audio waits in one place, behind what was heard, and is counted, in every
\* reachable state.
THEOREM AudioInvariance == Spec => []AudioInv
<1>1. Init => AudioInv
  BY InitAudio
<1>2. SessionInv /\ AudioInv /\ [Next]_vars => AudioInv'
  BY StepAudio
<1> QED
  BY <1>1, <1>2, SessionInvariance, PTL DEF Spec

\* stream_pending_chunks, which the server compares with its limit, is the number of
\* chunks in the session's queue: the put, every get and the `finally` agree on it.
THEOREM PendingIsCounted == Spec => []PendingCountsQueuedChunks
<1>1. AudioInv => PendingCountsQueuedChunks
  BY DEF AudioInv
<1> QED
  BY <1>1, AudioInvariance, PTL

\* No pipeline hears a chunk twice or out of order, within a turn or across turns,
\* whatever is cancelled, refused, dropped or lost in between.
THEOREM AudioIsHeardInOrder == Spec => AudioHeardOnceInOrder
<1>1. SessionInv /\ AudioInv /\ [Next]_vars =>
        [\A t \in TurnTasks : tpc[t] = "listen" /\ tpc'[t] = "vad" => last_heard' > last_heard]_vars
  <2> SUFFICES ASSUME SessionInv, AudioInv, Next, NEW t \in TurnTasks, tpc[t] = "listen", tpc'[t] = "vad"
               PROVE  last_heard' > last_heard
    OBVIOUS
  <2>1. NextChunk(t) /\ ~cancelled[t]
    BY HearingStep
  <2> QED
    BY <2>1, NextChunkAudio
<1> QED
  BY <1>1, SessionInvariance, AudioInvariance, PTL DEF Spec, AudioHeardOnceInOrder
-----------------------------------------------------------------------------
(***************************************************************************)
(* The accounts: the bytes of the buffer and the outcomes of the turns.    *)
(***************************************************************************)

\* What incoming_bytes is compared with.
LEMMA BytesFacts ==
  ASSUME NEW audio \in Seq(Chunk)
  PROVE  /\ Bytes(<<>>) = 0
         /\ Bytes(audio) \in Nat
         /\ \A c \in Chunk : Bytes(Append(audio, c)) = Bytes(audio) + c.size
<1>1. \A q : Bytes(q) = TotalSize(q)
  BY DEF Bytes, TotalSize, FoldLeft, MapThenFoldSet
<1>2. \A c \in Chunk : c.size \in Nat
  BY VoiceAssumption DEF Chunk
<1> QED
  BY <1>1, <1>2, TotalSizeFacts

\* The buffer grows by one chunk, with its size, is emptied with its count, or stays.
LEMMA BufferStep ==
  ASSUME SessionInv, [Next]_vars
  PROVE  \/ UNCHANGED incomingVars
         \/ incoming_chunks' = <<>> /\ incoming_bytes' = 0
         \/ \E size \in ChunkSizes : BufferChunk(size) /\ FitsBuffer(size)
<1>1. CASE Receive
  BY <1>1 DEF Receive, EventRefused, HandlerRaises, Malformed, HelloAccepted, HelloRejected, Cancel,
     AudioUnauthorized, BadChunk, AudioRefused, BufferChunk, StreamChunk, EndBuffered, EndStreaming,
     ClearIncoming
<1>2. CASE HandlerStep
  BY <1>2 DEF HandlerStep, WriteFrame, HandlerSent, HandlerSendFails, CloseAfterReject,
     ReceiveDisconnect, cleanupUnchanged, sendUnchanged
<1>3. ASSUME NEW t \in TurnTasks, TurnStep(t)
      PROVE  UNCHANGED incomingVars
  BY <1>3 DEF TurnStep, StartTurn, NextChunk, EndOfAudio, VadReturns, SttReturns, BridgeReturns,
     TtsYields, TtsEnds, AdapterRaises, WriteFrame, TurnSent, TurnSendFails, TurnInterrupted,
     turnStepUnchanged, turnSendUnchanged, sendUnchanged, sessionUnchanged, incomingVars
<1>4. CASE (\E t \in Tasks : BeginSend(t)) \/ ClientLeaves \/ UNCHANGED vars
  BY <1>4 DEF BeginSend, ClientLeaves, sendUnchanged, vars, incomingVars
<1> QED
  BY <1>1, <1>2, <1>3, <1>4 DEF Next

LEMMA BufferAccountingStep ==
  ASSUME SessionInv, BufferAccounting, [Next]_vars
  PROVE  BufferAccounting'
<1>1. incoming_chunks \in Seq(Chunk) /\ incoming_bytes \in Nat
  BY DEF SessionInv, SessionTypeOK
<1>2. CASE UNCHANGED incomingVars
  BY <1>2 DEF BufferAccounting, incomingVars
<1>3. CASE incoming_chunks' = <<>> /\ incoming_bytes' = 0
  BY <1>1, <1>3, BytesFacts, VoiceAssumption DEF BufferAccounting
<1>4. ASSUME NEW size \in ChunkSizes, BufferChunk(size), FitsBuffer(size)
      PROVE  BufferAccounting'
  <2> DEFINE new == NewChunk(size)
  <2>1. incoming_chunks' = Append(incoming_chunks, new) /\ incoming_bytes' = incoming_bytes + size
    BY <1>4 DEF BufferChunk
  <2>2. new \in Chunk /\ new.size = size
    BY NewChunkTyping DEF NewChunk
  <2> HIDE DEF new
  <2>3. Bytes(incoming_chunks') = Bytes(incoming_chunks) + size
    BY <1>1, <2>1, <2>2, BytesFacts
  <2>4. Len(incoming_chunks') = Len(incoming_chunks) + 1 /\ Len(incoming_chunks) \in Nat
    BY <1>1, <2>1, <2>2
  <2>5. Len(incoming_chunks) < MaxBufferedChunks /\ incoming_bytes + size <= MaxBufferedBytes
    BY <1>4 DEF FitsBuffer
  <2>6. incoming_bytes' = Bytes(incoming_chunks')
    BY <2>1, <2>3 DEF BufferAccounting
  <2> QED
    BY <2>1, <2>4, <2>5, <2>6, VoiceAssumption DEF BufferAccounting
<1> QED
  BY <1>2, <1>3, <1>4, BufferStep

\* incoming_bytes is the size of what is buffered, whatever clears the buffer in
\* between, and the buffer of a connection keeps both of its configured limits.
THEOREM BufferIsCounted == Spec => []BufferAccounting
<1>1. Init => BufferAccounting
  <2> SUFFICES ASSUME Init PROVE BufferAccounting
    OBVIOUS
  <2>1. incoming_chunks = <<>> /\ incoming_bytes = 0 /\ Len(incoming_chunks) = 0
    BY DEF Init
  <2>2. Bytes(<<>>) = 0
    BY BytesFacts, EmptySeq
  <2> QED
    BY <2>1, <2>2, VoiceAssumption DEF BufferAccounting
<1>2. SessionInv /\ BufferAccounting /\ [Next]_vars => BufferAccounting'
  BY BufferAccountingStep
<1> QED
  BY <1>1, <1>2, SessionInvariance, PTL DEF Spec

\* The places in which a started turn is still at work, and the turns in them.
AtWork == {"listen", "vad", "stt", "ask", "tts", "emit"}

Working == {t \in TurnTasks : Started(t) /\ tpc[t] \notin {"complete", "closing"}}

\* The counters TurnsAccounted relates are those of the turns, not of the messages.
TurnCounters == {"started", "completed", "cancelled", "failed"}

TurnCountersUnchanged == \A c \in TurnCounters : metrics'[c] = metrics[c]

\* Both ends still talk to each other.
Intact == peer = "up" /\ application_state = "CONNECTED"

LEMMA WorkingFinite ==
  ASSUME SessionInv
  PROVE  /\ Working = {t \in TurnTasks : tpc[t] \in AtWork}
         /\ IsFiniteSet(Working) /\ Cardinality(Working) \in Nat
<1>1. Working = {t \in TurnTasks : tpc[t] \in AtWork}
  BY DEF Working, Started, AtWork, SessionInv, TurnTypeOK
<1>2. Working \subseteq {turn_task}
  BY <1>1 DEF AtWork, SessionInv, LiveTurnOwnsSession, Live
<1>3. IsFiniteSet({turn_task})
  BY FS_Singleton
<1> QED
  BY <1>1, <1>2, <1>3, FS_Subset, FS_CardinalityType

\* A turn that goes from one place to another changes the number at work by itself.
LEMMA WorkingMoves ==
  ASSUME SessionInv, SessionInv', NEW t \in TurnTasks, NEW pc, Goto(t, pc)
  PROVE  /\ (tpc[t] \in AtWork <=> pc \in AtWork) => Cardinality(Working') = Cardinality(Working)
         /\ tpc[t] \notin AtWork /\ pc \in AtWork =>
              Cardinality(Working') = Cardinality(Working) + 1
         /\ tpc[t] \in AtWork /\ pc \notin AtWork =>
              Cardinality(Working') = Cardinality(Working) - 1
<1>1. /\ Working = {u \in TurnTasks : tpc[u] \in AtWork}
      /\ Working' = {u \in TurnTasks : tpc'[u] \in AtWork}
  BY DEF Working, Started, AtWork, SessionInv, TurnTypeOK
<1>2. tpc'[t] = pc /\ \A u \in TurnTasks \ {t} : tpc'[u] = tpc[u]
  BY DEF Goto, SessionInv, TurnTypeOK
<1>3. Working' = IF pc \in AtWork THEN Working \cup {t} ELSE Working \ {t}
  BY <1>1, <1>2
<1>4. t \in Working <=> tpc[t] \in AtWork
  BY <1>1
<1>5. IsFiniteSet(Working) /\ Cardinality(Working) \in Nat
  BY WorkingFinite
<1>6. Cardinality(Working \cup {t}) = IF t \in Working THEN Cardinality(Working) ELSE Cardinality(Working) + 1
  BY <1>5, FS_AddElement
<1>7. Cardinality(Working \ {t}) = IF t \in Working THEN Cardinality(Working) - 1 ELSE Cardinality(Working)
  BY <1>5, FS_RemoveElement
<1> QED
  BY <1>3, <1>4, <1>6, <1>7

\* What a step of an intact connection does to the turns and to their counters: nothing,
\* or one turn starts, goes on at work, stops working and is counted, or ends.
AccountedStep ==
  \/ UNCHANGED tpc /\ TurnCountersUnchanged
  \/ \E t \in TurnTasks : \E pc :
       /\ Goto(t, pc)
       /\ \/ (tpc[t] \in AtWork <=> pc \in AtWork) /\ TurnCountersUnchanged
          \/ tpc[t] \notin AtWork /\ pc \in AtWork /\ Count("started")
          \/ /\ tpc[t] \in AtWork /\ pc \notin AtWork
             /\ Count("completed") \/ Count("cancelled") \/ Count("failed")

LEMMA ReceiveAccounted ==
  ASSUME SessionInv, Receive
  PROVE  AccountedStep
<1>1. TurnCountersUnchanged
  <2>1. \A kind, counts : counts \cap TurnCounters = {} /\ Inbound(kind, counts) => TurnCountersUnchanged
    BY DEF Inbound, TurnCountersUnchanged, TurnCounters, Counters
  <2>2. /\ {} \cap TurnCounters = {}
        /\ {"rate_limited"} \cap TurnCounters = {} /\ {"auth_failures"} \cap TurnCounters = {}
    BY DEF TurnCounters
  <2> QED
    BY <2>1, <2>2 DEF Receive, EventRefused, HandlerRaises, Malformed, HelloAccepted, HelloRejected,
         Cancel, AudioUnauthorized, BadChunk, AudioRefused, BufferChunk, StreamChunk, EndBuffered,
         EndStreaming
<1>2. \/ UNCHANGED tpc
      \/ /\ \E t \in TurnTasks : tpc[t] = "unborn"
         /\ Goto(FreshTask, "created")
  BY DEF Receive, EventRefused, HandlerRaises, Malformed, HelloAccepted, HelloRejected, Cancel,
       AudioUnauthorized, BadChunk, AudioRefused, BufferChunk, StreamChunk, EndBuffered,
       EndStreaming, CreateTurn, turnVars, Goto
<1>3. "unborn" \notin AtWork /\ "created" \notin AtWork
  BY DEF AtWork
<1> QED
  BY <1>1, <1>2, <1>3, FreshTaskIsUnborn DEF AccountedStep

LEMMA TurnAccounted ==
  ASSUME SessionInv, Intact, Intact', NEW t \in TurnTasks, TurnStep(t)
  PROVE  AccountedStep
<1> USE DEF AccountedStep, AtWork
<1>1. UNCHANGED metrics => TurnCountersUnchanged
  BY DEF TurnCountersUnchanged
<1>2. CASE StartTurn(t)
  BY <1>1, <1>2 DEF StartTurn, At
<1>3. CASE NextChunk(t) \/ EndOfAudio(t) \/ SttReturns(t) \/ BridgeReturns(t) \/ TtsYields(t)
  <2>1. tpc[t] \in AtWork
    BY <1>3 DEF NextChunk, EndOfAudio, SttReturns, BridgeReturns, TtsYields, At
  <2>2. \/ \E pc \in AtWork : Goto(t, pc) /\ UNCHANGED metrics
        \/ Goto(t, "closing") /\ Count("cancelled")
    BY <1>3 DEF NextChunk, EndOfAudio, SttReturns, BridgeReturns, TtsYields, EnsureNotCancelled,
         CancelTurn
  <2> QED
    BY <1>1, <2>1, <2>2
<1>4. CASE VadReturns(t) \/ TtsEnds(t)
  BY <1>1, <1>4 DEF VadReturns, TtsEnds, At
<1>5. CASE AdapterRaises(t)
  <2>1. tpc[t] \in AtWork /\ Goto(t, "closing") /\ Count("failed")
    BY <1>5 DEF AdapterRaises, FailTurn, At
  <2> QED
    BY <2>1
<1>6. CASE WriteFrame(t)
  BY <1>1, <1>6 DEF WriteFrame, sendUnchanged, turnVars
<1>7. CASE TurnSent(t)
  BY <1>1, <1>7 DEF TurnSent, FinishTurn, EndWithoutFinally
<1>8. CASE TurnSendFails(t)
  BY <1>8 DEF TurnSendFails, TransmitFails, Intact
<1>9. CASE TurnInterrupted(t)
  BY <1>9 DEF TurnInterrupted, Intact, SessionInv, InterruptedOnLoss
<1> QED
  BY <1>2, <1>3, <1>4, <1>5, <1>6, <1>7, <1>8, <1>9 DEF TurnStep

LEMMA StepAccounted ==
  ASSUME SessionInv, Intact, Intact', [Next]_vars
  PROVE  AccountedStep
<1>1. CASE HandlerStep \/ (\E t \in Tasks : BeginSend(t)) \/ ClientLeaves \/ UNCHANGED vars
  <2>1. UNCHANGED <<tpc, metrics>>
    BY <1>1 DEF HandlerStep, WriteFrame, HandlerSent, HandlerSendFails, CloseAfterReject,
       ReceiveDisconnect, cleanupUnchanged, BeginSend, ClientLeaves, sendUnchanged, turnVars, vars
  <2> QED
    BY <2>1 DEF AccountedStep, TurnCountersUnchanged
<1> QED
  BY <1>1, ReceiveAccounted, TurnAccounted DEF Next

\* A connection once lost, or marked as closed, stays so.
LEMMA IntactBefore ==
  ASSUME SessionInv, [Next]_vars, Intact'
  PROVE  Intact
<1>1. [SenderNext]_senderVars
  BY StepIsSenderStep
<1> QED
  BY <1>1 DEF Intact, SenderNext, senderVars, Acquire, Transmit, Release, TransmitFails,
     InterruptOnDisconnect, Interrupt, MarkClosed, PeerLeaves, SessionInv, SenderInv, SenderTypeOK

LEMMA CountOne ==
  ASSUME SessionInv, NEW counter \in TurnCounters, Count(counter)
  PROVE  \A c \in TurnCounters :
           metrics'[c] = IF c = counter THEN metrics[c] + 1 ELSE metrics[c]
BY DEF Count, TurnCounters, Counters, SessionInv, SessionTypeOK

LEMMA TurnsAccountedStep ==
  ASSUME SessionInv, SessionInv', TurnsAccounted, [Next]_vars
  PROVE  TurnsAccounted'
<1> DEFINE Balance == metrics["started"] = metrics["completed"] + metrics["cancelled"]
                                             + metrics["failed"] + Cardinality(Working)
<1>1. TurnsAccounted <=> (Intact => Balance)
  BY DEF TurnsAccounted, Intact, Working
<1>2. TurnsAccounted' <=> (Intact' => Balance')
  BY DEF TurnsAccounted, Intact, Working
<1> SUFFICES ASSUME Intact' PROVE Balance'
  BY <1>2
<1>3. Intact /\ Balance
  BY <1>1, IntactBefore
<1>4. /\ \A c \in TurnCounters : metrics[c] \in Nat
      /\ Cardinality(Working) \in Nat
  BY WorkingFinite DEF SessionInv, SessionTypeOK, TurnCounters, Counters
<1>5. /\ "started" \in TurnCounters /\ "completed" \in TurnCounters
      /\ "cancelled" \in TurnCounters /\ "failed" \in TurnCounters
  BY DEF TurnCounters
<1>6. CASE UNCHANGED tpc /\ TurnCountersUnchanged
  <2>1. Working' = Working
    BY <1>6 DEF Working, Started
  <2> QED
    BY <1>3, <1>5, <1>6, <2>1 DEF TurnCountersUnchanged
<1>7. ASSUME NEW t \in TurnTasks, NEW pc, Goto(t, pc),
             tpc[t] \in AtWork <=> pc \in AtWork, TurnCountersUnchanged
      PROVE  Balance'
  <2>1. Cardinality(Working') = Cardinality(Working)
    BY <1>7, WorkingMoves
  <2> QED
    BY <1>3, <1>5, <1>7, <2>1 DEF TurnCountersUnchanged
<1>8. ASSUME NEW t \in TurnTasks, NEW pc, Goto(t, pc),
             tpc[t] \notin AtWork, pc \in AtWork, Count("started")
      PROVE  Balance'
  <2>1. Cardinality(Working') = Cardinality(Working) + 1
    BY <1>8, WorkingMoves
  <2>2. \A c \in TurnCounters : metrics'[c] = IF c = "started" THEN metrics[c] + 1 ELSE metrics[c]
    BY <1>5, <1>8, CountOne
  <2> QED
    BY <1>3, <1>4, <1>5, <2>1, <2>2
<1>9. ASSUME NEW t \in TurnTasks, NEW pc, Goto(t, pc), tpc[t] \in AtWork, pc \notin AtWork,
             NEW counter \in {"completed", "cancelled", "failed"}, Count(counter)
      PROVE  Balance'
  <2>1. Cardinality(Working') = Cardinality(Working) - 1
    BY <1>9, WorkingMoves
  <2>2. \A c \in TurnCounters : metrics'[c] = IF c = counter THEN metrics[c] + 1 ELSE metrics[c]
    BY <1>5, <1>9, CountOne
  <2> QED
    BY <1>3, <1>4, <1>5, <2>1, <2>2
<1> QED
  BY <1>3, <1>6, <1>7, <1>8, <1>9, StepAccounted DEF AccountedStep

\* While the connection is intact every turn that was started is at work or was
\* counted once, as completed, cancelled or failed: the except clauses and the
\* success path of run_buffered_turn and run_streaming_turn exclude each other.
THEOREM TurnsAreAccounted == Spec => []TurnsAccounted
<1>1. Init => TurnsAccounted
  <2> SUFFICES ASSUME Init PROVE TurnsAccounted
    OBVIOUS
  <2>1. \A c \in Counters : metrics[c] = 0
    BY DEF Init
  <2>2. {t \in TurnTasks : Started(t) /\ tpc[t] \notin {"complete", "closing"}} = {}
    BY DEF Init, Started
  <2> QED
    BY <2>1, <2>2, FS_EmptySet DEF TurnsAccounted, Counters
<1>2. SessionInv /\ SessionInv' /\ TurnsAccounted /\ [Next]_vars => TurnsAccounted'
  BY TurnsAccountedStep
<1> QED
  BY <1>1, <1>2, SessionInvariance, PTL DEF Spec
-----------------------------------------------------------------------------
(***************************************************************************)
(* The client's view: the events of a turn reach it in the order of        *)
(* TurnProtocol.                                                           *)
(***************************************************************************)

\* The client has heard the end of turn n and nothing since.
HeardUpTo(n) == Protocol!BetweenTurns(last_event) /\ last_event.turn_id = n

\* The head of the outbox is what the client has heard last, or may hear next.
HeadIsNext(t) ==
  IF sending[t] = "written" THEN last_event = Head(outbox[t])
                            ELSE Protocol!MayFollow(last_event, Head(outbox[t]))

\* Events of one turn, each of which may follow the one before, that end where the
\* output of the turn may.
Consecutive(events, id) ==
  /\ events # <<>>
  /\ \A i \in DOMAIN events :
       /\ events[i].turn_id = id
       /\ i < Len(events) => Protocol!MayFollow(events[i], events[i + 1])
       /\ i = Len(events) => events[i].type \in {"agent.reply", "audio.output.chunk"}

\* What is left of emit_turn_output.
EmitsInOrder(t) == Consecutive(outbox[t], turn_id[t]) /\ HeadIsNext(t)

Completes(t) == outbox[t] = <<Done(turn_id[t], "turn-complete")>> /\ HeadIsNext(t)

\* The done of a cancelled or failed turn, alone or after the error.
Closes(t) ==
  \E reason \in {"cancelled", "error"} :
    \/ outbox[t] = <<Done(turn_id[t], reason)>> /\ HeadIsNext(t)
    \/ /\ \E code \in Notes : outbox[t] = <<Error(code), Done(turn_id[t], reason)>>
       /\ Protocol!MayFollow(last_event, Done(turn_id[t], reason))

\* What the outbox of a started turn holds continues what the client has heard.
TellsTurn(t) ==
  /\ turn_id[t] = current_turn_id /\ turn_id[t] # 0
  /\ tpc[t] \in AtWork \ {"emit"} => HeardUpTo(turn_id[t] - 1)
  /\ tpc[t] = "emit" => EmitsInOrder(t)
  /\ tpc[t] = "complete" => Completes(t)
  /\ tpc[t] = "closing" => Closes(t)

Unnamed(events) == \A i \in DOMAIN events : events[i].turn_id = 0

\* The replies of the receive loop, and the report of an empty turn, name no turn.
OnlyTurnsAreNamed ==
  \A t \in Tasks : t = Handler \/ ~Started(t) => Unnamed(outbox[t])

TurnsAreTold ==
  /\ (\A t \in TurnTasks : ~Started(t)) => HeardUpTo(current_turn_id)
  /\ \A t \in TurnTasks : Started(t) => TellsTurn(t)

ProtocolInv == OnlyTurnsAreNamed /\ (Intact => TurnsAreTold)

(***************************************************************************)
(* The order of one turn's output.                                         *)
(***************************************************************************)

LEMMA ConcatElements ==
  \A p, q \in Seq(Event) :
    /\ p \o q \in Seq(Event) /\ Len(p \o q) = Len(p) + Len(q)
    /\ \A i \in 1..Len(p) : (p \o q)[i] = p[i]
    /\ \A i \in 1..Len(q) : (p \o q)[Len(p) + i] = q[i]
OBVIOUS

\* What emit_turn_output sends is in the order of the protocol, from the transcript on
\* to the last chunk, or to the reply if there is none.
LEMMA TurnOutputInOrder ==
  ASSUME NEW id \in Nat, NEW n \in Nat, NEW out, out = TurnOutput(id, n)
  PROVE  /\ Consecutive(out, id)
         /\ Head(out).turn_id = id
         /\ Head(out).type = IF Mode = "streaming" THEN "stt.partial" ELSE "stt.final"
<1>1. PICK lead \in {0, 1} : lead = 1 <=> Mode = "streaming"
  <2>1. Mode = "streaming" \/ Mode # "streaming"
    OBVIOUS
  <2> QED
    BY <2>1
<1>2. /\ "" \in Notes
      /\ "stt.partial" \in EventTypes /\ "stt.final" \in EventTypes
      /\ "agent.reply" \in EventTypes /\ "audio.output.chunk" \in EventTypes
  BY DEF Notes, EventTypes
<1>3. PICK p : p = TurnEvent("stt.partial", id, "", 0)
  OBVIOUS
<1>4. PICK f : f = TurnEvent("stt.final", id, "", 0)
  OBVIOUS
<1>5. PICK r : r = TurnEvent("agent.reply", id, "", 0)
  OBVIOUS
<1>6. /\ p \in Event /\ p.type = "stt.partial" /\ p.turn_id = id
      /\ f \in Event /\ f.type = "stt.final" /\ f.turn_id = id
      /\ r \in Event /\ r.type = "agent.reply" /\ r.turn_id = id
  BY <1>2, <1>3, <1>4, <1>5 DEF TurnEvent, Event
<1>7. PICK audio :
        /\ audio = [i \in 1..n |-> TurnEvent("audio.output.chunk", id, "", i - 1)]
        /\ audio \in Seq(Event) /\ Len(audio) = n
        /\ \A i \in 1..n : /\ audio[i].type = "audio.output.chunk"
                           /\ audio[i].turn_id = id
                           /\ audio[i].index = i - 1
  <2>1. PICK audio : audio = [i \in 1..n |-> TurnEvent("audio.output.chunk", id, "", i - 1)]
    OBVIOUS
  <2>2. ASSUME NEW i \in 1..n
        PROVE  audio[i] \in Event
    <3>1. i - 1 \in Nat
      OBVIOUS
    <3>2. TurnEvent("audio.output.chunk", id, "", i - 1) \in Event
      BY <1>2, <3>1, EventTyping
    <3>3. audio[i] = TurnEvent("audio.output.chunk", id, "", i - 1)
      BY <2>1, Zenon
    <3> QED
      BY <3>2, <3>3, Zenon
  <2>3. \A i \in 1..n : /\ audio[i].type = "audio.output.chunk"
                        /\ audio[i].turn_id = id
                        /\ audio[i].index = i - 1
    BY <2>1 DEF TurnEvent
  <2>4. DOMAIN audio = 1..n /\ audio = [i \in DOMAIN audio |-> audio[i]]
    BY <2>1, Zenon
  <2>5. audio \in [1..n -> Event]
    BY <2>2, <2>4
  <2>6. audio \in Seq(Event) /\ Len(audio) = n
    BY <2>5, SeqDef
  <2> QED
    BY <2>1, <2>3, <2>6, Zenon
<1>8. PICK partial : partial = IF lead = 1 THEN <<p>> ELSE <<>>
  OBVIOUS
<1>9. out = (partial \o <<f, r>>) \o audio
  <2>1. CASE lead = 1
    BY <1>1, <1>3, <1>4, <1>5, <1>7, <1>8, <2>1, Zenon DEF TurnOutput
  <2>2. CASE lead # 1
    BY <1>1, <1>3, <1>4, <1>5, <1>7, <1>8, <2>2, Zenon DEF TurnOutput
  <2> QED
    BY <2>1, <2>2
<1>10. audio \in Seq(Event) /\ Len(audio) = n
  BY <1>7
<1>11. \A i \in 1..n : /\ audio[i].type = "audio.output.chunk"
                       /\ audio[i].turn_id = id
                       /\ audio[i].index = i - 1
  BY <1>7
<1>12. /\ out \in Seq(Event) /\ Len(out) = lead + 2 + n
       /\ lead = 1 => out[1] = p
       /\ out[lead + 1] = f
       /\ out[lead + 2] = r
       /\ \A i \in 1..n : out[lead + 2 + i] = audio[i]
  <2>1. partial \in Seq(Event) /\ Len(partial) = lead /\ (lead = 1 => partial[1] = p)
    BY <1>6, <1>8, EmptySeq
  <2>2. PICK texts \in Seq(Event) :
          texts = <<f, r>> /\ Len(texts) = 2 /\ texts[1] = f /\ texts[2] = r
    <3>1. <<f, r>> \in Seq(Event) /\ Len(<<f, r>>) = 2 /\ <<f, r>>[1] = f /\ <<f, r>>[2] = r
      BY <1>6
    <3> QED
      BY <3>1, Zenon
  <2>3. PICK head \in Seq(Event) :
          /\ head = partial \o texts
          /\ Len(head) = lead + 2
          /\ lead = 1 => head[1] = p
          /\ head[lead + 1] = f
          /\ head[lead + 2] = r
    <3>1. PICK head : head = partial \o texts
      OBVIOUS
    <3>2. /\ head \in Seq(Event) /\ Len(head) = Len(partial) + Len(texts)
          /\ \A i \in 1..Len(partial) : head[i] = partial[i]
          /\ \A i \in 1..Len(texts) : head[Len(partial) + i] = texts[i]
      BY <2>1, <2>2, <3>1, ConcatElements
    <3>3. /\ Len(head) = lead + 2
          /\ lead = 1 => head[1] = p
          /\ head[lead + 1] = f
          /\ head[lead + 2] = r
      BY <2>1, <2>2, <3>2
    <3> QED
      BY <3>1, <3>2, <3>3, Zenon
  <2>4. out = head \o audio
    BY <1>9, <2>2, <2>3
  <2>5. /\ out \in Seq(Event) /\ Len(out) = Len(head) + Len(audio)
        /\ \A i \in 1..Len(head) : out[i] = head[i]
        /\ \A i \in 1..Len(audio) : out[Len(head) + i] = audio[i]
    <3>1. head \in Seq(Event) /\ audio \in Seq(Event)
      BY <1>10
    <3> QED
      <4>1. \A q \in Seq(Event) :
              /\ head \o q \in Seq(Event) /\ Len(head \o q) = Len(head) + Len(q)
              /\ \A i \in 1..Len(head) : (head \o q)[i] = head[i]
              /\ \A i \in 1..Len(q) : (head \o q)[Len(head) + i] = q[i]
        BY <3>1, ConcatElements, Zenon
      <4>2. /\ head \o audio \in Seq(Event) /\ Len(head \o audio) = Len(head) + Len(audio)
            /\ \A i \in 1..Len(head) : (head \o audio)[i] = head[i]
            /\ \A i \in 1..Len(audio) : (head \o audio)[Len(head) + i] = audio[i]
        BY <3>1, <4>1, Zenon
      <4> QED
        BY <2>4, <4>2, Zenon
  <2>6. /\ Len(head) = lead + 2
        /\ lead = 1 => head[1] = p
        /\ head[lead + 1] = f
        /\ head[lead + 2] = r
    BY <2>3
  <2>7. Len(out) = lead + 2 + n /\ \A i \in 1..n : out[lead + 2 + i] = audio[i]
    BY <1>10, <2>5, <2>6
  <2>8. (lead = 1 => out[1] = head[1]) /\ out[lead + 1] = head[lead + 1] /\ out[lead + 2] = head[lead + 2]
    BY <2>5, <2>6
  <2> QED
    BY <2>5, <2>6, <2>7, <2>8, Zenon
<1>13. ASSUME NEW i \in 1..Len(out)
       PROVE  /\ out[i].turn_id = id
              /\ i <= lead => out[i].type = "stt.partial"
              /\ i = lead + 1 => out[i].type = "stt.final"
              /\ i = lead + 2 => out[i].type = "agent.reply"
              /\ i > lead + 2 => out[i].type = "audio.output.chunk" /\ out[i].index = i - lead - 3
  <2>1. CASE i <= lead + 2
    <3>1. \/ i = 1 /\ lead = 1
          \/ i = lead + 1
          \/ i = lead + 2
      BY <2>1
    <3> QED
      BY <1>6, <1>12, <3>1
  <2>2. CASE i > lead + 2
    <3>1. PICK j \in 1..n : i = lead + 2 + j
      <4>1. i - lead - 2 \in 1..n /\ i = lead + 2 + (i - lead - 2)
        BY <1>12, <2>2
      <4> QED
        BY <4>1
    <3>2. out[i] = audio[j]
      BY <1>12, <3>1
    <3>3. out[i].type = "audio.output.chunk" /\ out[i].turn_id = id /\ out[i].index = j - 1
      BY <1>11, <3>2
    <3>4. j - 1 = i - lead - 3 /\ ~(i <= lead) /\ i # lead + 1 /\ i # lead + 2
      BY <3>1
    <3> QED
      BY <3>3, <3>4
  <2> QED
    BY <1>12, <2>1, <2>2
<1>14. Len(out) \in Nat /\ Len(out) >= 2 /\ DOMAIN out = 1..Len(out) /\ out # <<>> /\ Head(out) = out[1]
  BY <1>12
<1>15. ASSUME NEW i \in 1..Len(out), i < Len(out)
       PROVE  Protocol!MayFollow(out[i], out[i + 1])
  <2>1. i + 1 \in 1..Len(out)
    BY <1>14, <1>15
  <2>2. /\ out[i].turn_id = id
        /\ i <= lead => out[i].type = "stt.partial"
        /\ i = lead + 1 => out[i].type = "stt.final"
        /\ i = lead + 2 => out[i].type = "agent.reply"
        /\ i > lead + 2 => out[i].type = "audio.output.chunk" /\ out[i].index = i - lead - 3
    BY <1>13
  <2>3. /\ out[i + 1].turn_id = id
        /\ i = lead => out[i + 1].type = "stt.final"
        /\ i = lead + 1 => out[i + 1].type = "agent.reply"
        /\ i > lead + 1 => out[i + 1].type = "audio.output.chunk" /\ out[i + 1].index = i - lead - 2
    <3>1. /\ i = lead => i + 1 = lead + 1
          /\ i = lead + 1 => i + 1 = lead + 2
          /\ i > lead + 1 => i + 1 > lead + 2
          /\ (i + 1) - lead - 3 = i - lead - 2
      OBVIOUS
    <3> QED
      BY <1>13, <2>1, <3>1
  <2>4. \/ i = lead
        \/ i = lead + 1
        \/ i = lead + 2
        \/ i > lead + 2
    OBVIOUS
  <2> QED
    BY <2>2, <2>3, <2>4
    DEF Protocol!MayFollow, Protocol!ContinuesTurn, Protocol!BetweenTurns
<1>16. out[Len(out)].type \in {"agent.reply", "audio.output.chunk"}
  <2>1. Len(out) \in 1..Len(out) /\ Len(out) >= lead + 2
    BY <1>12, <1>14
  <2> QED
    BY <1>13, <1>14, <2>1
<1>17. out[1].turn_id = id /\ out[1].type = IF Mode = "streaming" THEN "stt.partial" ELSE "stt.final"
  BY <1>1, <1>13, <1>14
<1> QED
  BY <1>12, <1>13, <1>14, <1>15, <1>16, <1>17 DEF Consecutive

(***************************************************************************)
(* Which events name a turn.                                               *)
(***************************************************************************)

LEMMA UnnamedEvents ==
  /\ Unnamed(<<>>)
  /\ Unnamed(<<Ready>>)
  /\ \A code : Unnamed(<<Error(code)>>)
  /\ \A reason : Unnamed(<<Done(0, reason)>>)
  /\ \A code, reason : Unnamed(<<Error(code), Done(0, reason)>>)
<1>1. /\ Unnamed(<<>>)
      /\ \A e : e.turn_id = 0 => Unnamed(<<e>>)
      /\ \A e, f : e.turn_id = 0 /\ f.turn_id = 0 => Unnamed(<<e, f>>)
  BY DEF Unnamed
<1>2. Ready.turn_id = 0
  BY DEF Ready, TurnEvent
<1>3. \A code : Error(code).turn_id = 0
  BY DEF Error, TurnEvent
<1>4. \A reason : Done(0, reason).turn_id = 0
  BY DEF Done, TurnEvent
<1> QED
  BY <1>1, <1>2, <1>3, <1>4, Zenon

LEMMA UnnamedTail ==
  ASSUME NEW events \in Seq(Event), events # <<>>, Unnamed(events)
  PROVE  Unnamed(Tail(events)) /\ Head(events).turn_id = 0
<1>1. /\ Len(events) \in Nat \ {0} /\ Head(events) = events[1] /\ 1 \in DOMAIN events
      /\ \A i \in DOMAIN Tail(events) : i + 1 \in DOMAIN events /\ Tail(events)[i] = events[i + 1]
  OBVIOUS
<1> QED
  BY <1>1 DEF Unnamed

\* A step that changes the outbox, or the place, of one task only.
LEMMA NamedButOne ==
  ASSUME OnlyTurnsAreNamed, NEW t \in Tasks,
         \A u \in Tasks \ {t} : /\ outbox'[u] = outbox[u]
                                /\ u # Handler => (Started(u)' <=> Started(u)),
         t = Handler \/ ~Started(t)' => Unnamed(outbox'[t])
  PROVE  OnlyTurnsAreNamed'
BY DEF OnlyTurnsAreNamed

LEMMA ReceiveNamed ==
  ASSUME SessionInv, OnlyTurnsAreNamed, Receive
  PROVE  /\ OnlyTurnsAreNamed'
         /\ \A t \in TurnTasks : /\ Started(t)' <=> Started(t)
                                 /\ Started(t) => tpc'[t] = tpc[t]
                                 /\ outbox'[t] = outbox[t]
<1>1. \/ UNCHANGED tpc
      \/ /\ \E t \in TurnTasks : tpc[t] = "unborn"
         /\ Goto(FreshTask, "created")
  BY DEF Receive, EventRefused, HandlerRaises, Malformed, HelloAccepted, HelloRejected, Cancel,
       AudioUnauthorized, BadChunk, AudioRefused, BufferChunk, StreamChunk, EndBuffered,
       EndStreaming, CreateTurn, turnVars, Goto
<1>2. \A t \in TurnTasks : (Started(t)' <=> Started(t)) /\ (Started(t) => tpc'[t] = tpc[t])
  BY <1>1, FreshTaskIsUnborn DEF Goto, Started, SessionInv, TurnTypeOK
<1>3. \/ UNCHANGED outbox
      \/ \E events, then : Unnamed(events) /\ Reply(events, then)
  BY UnnamedEvents DEF Receive, EventRefused, HandlerRaises, Malformed, HelloAccepted,
     HelloRejected,
     Cancel, AudioUnauthorized, BadChunk, AudioRefused, BufferChunk, StreamChunk, EndBuffered,
     EndStreaming, NoReply, Overflow
<1>4. /\ Unnamed(outbox'[Handler]) \/ outbox'[Handler] = outbox[Handler]
      /\ \A t \in Tasks \ {Handler} : outbox'[t] = outbox[t]
  BY <1>3, VoiceAssumption DEF Reply, SessionInv, EventTypeOK
<1>5. Handler \in Tasks /\ TurnTasks = Tasks \ {Handler}
  BY VoiceAssumption DEF TurnTasks
<1>6. Unnamed(outbox'[Handler])
  BY <1>4, <1>5 DEF OnlyTurnsAreNamed
<1> QED
  BY <1>2, <1>4, <1>5, <1>6, NamedButOne

LEMMA HandlerNamed ==
  ASSUME SessionInv, OnlyTurnsAreNamed, HandlerStep
  PROVE  OnlyTurnsAreNamed' /\ UNCHANGED tpc /\ \A t \in TurnTasks : outbox'[t] = outbox[t]
<1>1. Handler \in Tasks /\ TurnTasks = Tasks \ {Handler}
  BY VoiceAssumption DEF TurnTasks
<1>2. UNCHANGED tpc
  BY DEF HandlerStep, WriteFrame, HandlerSent, HandlerSendFails, CloseAfterReject,
     ReceiveDisconnect,
     cleanupUnchanged, sendUnchanged, turnVars
<1>3. \/ UNCHANGED outbox
      \/ outbox' = [outbox EXCEPT ![Handler] = <<>>]
      \/ HandlerSent
  BY DEF HandlerStep, WriteFrame, HandlerSendFails, CloseAfterReject, ReceiveDisconnect,
     sendUnchanged
<1>4. CASE HandlerSent
  <2>1. outbox[Handler] \in Seq(Event) /\ outbox[Handler] # <<>> /\ Unnamed(outbox[Handler])
    BY <1>1, <1>4 DEF HandlerSent, Release, SessionInv, EventTypeOK, OutboxDiscipline,
       OnlyTurnsAreNamed
  <2>2. outbox' = [outbox EXCEPT ![Handler] = Tail(outbox[Handler])]
    BY <1>4 DEF HandlerSent
  <2>3. Unnamed(Tail(outbox[Handler]))
    BY <2>1, UnnamedTail
  <2>4. outbox'[Handler] = Tail(outbox[Handler]) /\ \A t \in Tasks \ {Handler} : outbox'[t] = outbox[t]
    BY <1>1, <2>2 DEF SessionInv, EventTypeOK
  <2> QED
    BY <1>1, <1>2, <2>3, <2>4, NamedButOne DEF Started
<1>5. CASE UNCHANGED outbox \/ outbox' = [outbox EXCEPT ![Handler] = <<>>]
  <2>1. /\ outbox'[Handler] \in {<<>>, outbox[Handler]}
        /\ \A t \in Tasks \ {Handler} : outbox'[t] = outbox[t]
    BY <1>1, <1>5 DEF SessionInv, EventTypeOK
  <2>2. Unnamed(outbox'[Handler])
    BY <1>1, <2>1, UnnamedEvents DEF OnlyTurnsAreNamed
  <2> QED
    BY <1>1, <1>2, <2>1, <2>2, NamedButOne DEF Started
<1> QED
  BY <1>3, <1>4, <1>5

LEMMA TurnNamed ==
  ASSUME SessionInv, OnlyTurnsAreNamed, NEW t \in TurnTasks, TurnStep(t)
  PROVE  /\ OnlyTurnsAreNamed'
         /\ \A u \in TurnTasks \ {t} : tpc'[u] = tpc[u] /\ outbox'[u] = outbox[u]
<1> USE DEF Goto, Enqueue, SessionInv, TurnTypeOK, EventTypeOK
<1>1. t \in Tasks /\ t # Handler
  BY DEF TurnTasks
<1>2. \A u \in Tasks \ {t} : outbox'[u] = outbox[u] /\ (u # Handler => tpc'[u] = tpc[u])
  <2>1. UNCHANGED tpc \/ \E pc : Goto(t, pc)
    BY DEF TurnStep, StartTurn, NextChunk, EndOfAudio, VadReturns, SttReturns, BridgeReturns,
       TtsYields, TtsEnds, AdapterRaises, EnsureNotCancelled, CancelTurn, FailTurn, WriteFrame,
       TurnSent, TurnSendFails, TurnInterrupted, FinishTurn, EndWithoutFinally, sendUnchanged,
       turnVars
  <2>2. UNCHANGED outbox \/ \E events : Enqueue(t, events)
    BY DEF TurnStep, StartTurn, NextChunk, EndOfAudio, VadReturns, SttReturns, BridgeReturns,
       TtsYields, TtsEnds, AdapterRaises, EnsureNotCancelled, CancelTurn, FailTurn, WriteFrame,
       TurnSent, TurnSendFails, TurnInterrupted, sendUnchanged
  <2> QED
    BY <2>1, <2>2 DEF TurnTasks
<1>3. ~Started(t)' => Unnamed(outbox'[t])
  <2>1. CASE StartTurn(t)
    <3>1. Goto(t, "listen") \/ Enqueue(t, <<Error("EMPTY_TURN")>>)
      BY <2>1 DEF StartTurn
    <3>2. Unnamed(<<Error("EMPTY_TURN")>>)
      BY UnnamedEvents
    <3> QED
      BY <1>1, <3>1, <3>2 DEF Started
  <2>2. CASE \/ NextChunk(t) \/ EndOfAudio(t) \/ VadReturns(t) \/ SttReturns(t)
             \/ BridgeReturns(t) \/ TtsYields(t) \/ TtsEnds(t) \/ AdapterRaises(t)
    BY <2>2 DEF NextChunk, EndOfAudio, VadReturns, SttReturns, BridgeReturns, TtsYields, TtsEnds,
       AdapterRaises, EnsureNotCancelled, CancelTurn, FailTurn, Started
  <2>3. CASE WriteFrame(t)
    BY <1>1, <2>3 DEF WriteFrame, sendUnchanged, turnVars, Started, OnlyTurnsAreNamed
  <2>4. CASE TurnSent(t)
    <3>1. CASE UNCHANGED tpc /\ Enqueue(t, Tail(outbox[t])) /\ Len(outbox[t]) > 1
      <4>1. outbox[t] \in Seq(Event) /\ outbox[t] # <<>> /\ outbox'[t] = Tail(outbox[t])
        BY <1>1, <3>1
      <4>2. ~Started(t)' => Unnamed(outbox[t])
        BY <1>1, <3>1 DEF OnlyTurnsAreNamed, Started
      <4> QED
        BY <4>1, <4>2, UnnamedTail
    <3>2. CASE Goto(t, "complete")
      BY <3>2 DEF Started
    <3>3. CASE Enqueue(t, <<>>)
      BY <1>1, <3>3, UnnamedEvents
    <3> QED
      BY <2>4, <3>1, <3>2, <3>3 DEF TurnSent
  <2>5. CASE TurnSendFails(t) \/ TurnInterrupted(t)
    <3>1. Goto(t, "closing") \/ Enqueue(t, <<>>)
      BY <2>5 DEF TurnSendFails, TurnInterrupted, FailTurn
    <3> QED
      BY <1>1, <3>1, UnnamedEvents DEF Started
  <2> QED
    BY <2>1, <2>2, <2>3, <2>4, <2>5 DEF TurnStep
<1>4. \A u \in Tasks \ {t} : u # Handler => (Started(u)' <=> Started(u))
  BY <1>2 DEF Started
<1> QED
  BY <1>1, <1>2, <1>3, <1>4, NamedButOne DEF TurnTasks

LEMMA NamedStep ==
  ASSUME SessionInv, OnlyTurnsAreNamed, [Next]_vars
  PROVE  OnlyTurnsAreNamed'
<1>1. CASE (\E t \in Tasks : BeginSend(t)) \/ ClientLeaves \/ UNCHANGED vars
  <2>1. UNCHANGED <<tpc, outbox>>
    BY <1>1 DEF BeginSend, ClientLeaves, sendUnchanged, turnVars, vars
  <2> QED
    BY <2>1 DEF OnlyTurnsAreNamed, Started
<1> QED
  BY <1>1, ReceiveNamed, HandlerNamed, TurnNamed DEF Next

(***************************************************************************)
(* What the client has heard, and what is left to tell it.                 *)
(***************************************************************************)

LEMMA OneStarted ==
  ASSUME SessionInv, NEW t \in TurnTasks, Live(t), NEW u \in TurnTasks, Started(u)
  PROVE  u = t
BY DEF SessionInv, LiveTurnOwnsSession, Started, Live

\* A step that neither tells the client of a turn nor changes what is left to tell.
LEMMA ToldKept ==
  ASSUME TurnsAreTold, UNCHANGED <<last_event, current_turn_id>>,
         \A t \in TurnTasks :
           /\ Started(t)' <=> Started(t)
           /\ Started(t) => /\ tpc'[t] = tpc[t] /\ turn_id'[t] = turn_id[t]
                            /\ outbox'[t] = outbox[t]
                            /\ sending'[t] = "written" <=> sending[t] = "written"
  PROVE  TurnsAreTold'
<1>1. ASSUME NEW t \in TurnTasks, Started(t)
      PROVE  TellsTurn(t)'
  <2>1. /\ tpc'[t] = tpc[t] /\ turn_id'[t] = turn_id[t] /\ outbox'[t] = outbox[t]
        /\ sending'[t] = "written" <=> sending[t] = "written"
        /\ TellsTurn(t)
    BY <1>1 DEF TurnsAreTold
  <2>2. HeadIsNext(t)' <=> HeadIsNext(t)
    BY <2>1 DEF HeadIsNext
  <2>3. EmitsInOrder(t)' <=> EmitsInOrder(t)
    BY <2>1, <2>2 DEF EmitsInOrder
  <2>4. Completes(t)' <=> Completes(t)
    BY <2>1, <2>2 DEF Completes
  <2>5. Closes(t)' <=> Closes(t)
    BY <2>1, <2>2 DEF Closes
  <2>6. \A n : HeardUpTo(n)' <=> HeardUpTo(n)
    BY DEF HeardUpTo
  <2> QED
    BY <2>1, <2>3, <2>4, <2>5, <2>6 DEF TellsTurn
<1>2. (\A t \in TurnTasks : ~Started(t)') => HeardUpTo(current_turn_id)'
  BY DEF TurnsAreTold, HeardUpTo
<1> QED
  BY <1>1, <1>2 DEF TurnsAreTold

\* A step of the live turn: no other turn has anything to tell.
LEMMA ToldByOne ==
  ASSUME SessionInv, NEW t \in TurnTasks, Live(t),
         \A u \in TurnTasks \ {t} : tpc'[u] = tpc[u],
         Started(t)' => TellsTurn(t)',
         ~Started(t)' => HeardUpTo(current_turn_id)'
  PROVE  TurnsAreTold'
<1>1. \A u \in TurnTasks \ {t} : ~Started(u)'
  BY OneStarted DEF Started
<1> QED
  BY <1>1 DEF TurnsAreTold

LEMMA DoneMayFollow ==
  ASSUME NEW id \in Nat \ {0}, HeardUpTo(id - 1), NEW reason \in {"cancelled", "error"}
  PROVE  Protocol!MayFollow(last_event, Done(id, reason))
<1>1. last_event.turn_id + 1 = id
  BY DEF HeardUpTo
<1> QED
  BY <1>1 DEF HeardUpTo, Done, TurnEvent, Protocol!MayFollow, Protocol!OpensTurn

\* A turn that has told nothing yet: it listens, or waits for an adapter.
Silent(t) == tpc[t] \in AtWork \ {"emit"}

LEMMA SilentTurn ==
  ASSUME SessionInv, NEW t \in TurnTasks, Silent(t), TellsTurn(t)
  PROVE  /\ turn_id[t] \in Nat \ {0} /\ turn_id[t] = current_turn_id
         /\ HeardUpTo(turn_id[t] - 1)
         /\ outbox[t] = <<>> /\ sending[t] = "idle"
<1>1. turn_id[t] \in Nat \ {0} /\ turn_id[t] = current_turn_id /\ HeardUpTo(turn_id[t] - 1)
  BY DEF Silent, TellsTurn, SessionInv, TurnTypeOK
<1>2. outbox[t] = <<>> /\ t \in Tasks
  BY DEF Silent, AtWork, SessionInv, OutboxDiscipline, TurnTasks
<1> QED
  BY <1>1, <1>2 DEF SessionInv, OutboxDiscipline

\* A silent turn goes on to another adapter.
LEMMA SilentStep ==
  ASSUME SessionInv, NEW t \in TurnTasks, Silent(t), TellsTurn(t), NEW pc \in AtWork \ {"emit"},
         Goto(t, pc), UNCHANGED <<turn_id, current_turn_id, last_event>>
  PROVE  TellsTurn(t)'
<1>1. tpc'[t] = pc
  BY DEF Goto, SessionInv, TurnTypeOK
<1> QED
  BY <1>1, SilentTurn DEF TellsTurn, HeardUpTo, AtWork

\* A silent turn is cancelled, or fails.
LEMMA CloseStep ==
  ASSUME SessionInv, NEW t \in TurnTasks, Silent(t), TellsTurn(t),
         UNCHANGED <<senderVars, turn_id, current_turn_id, last_event>>,
         CancelTurn(t) \/ \E code \in {"ADAPTER_FAILURE", "PIPELINE_FAILURE"} : FailTurn(t, code)
  PROVE  TellsTurn(t)'
<1> DEFINE id == turn_id[t]
<1>1. id \in Nat \ {0} /\ id = current_turn_id /\ HeardUpTo(id - 1) /\ sending[t] = "idle"
  BY SilentTurn
<1>2. tpc'[t] = "closing" /\ sending'[t] = "idle" /\ turn_id'[t] = id /\ t \in Tasks
  BY <1>1 DEF CancelTurn, FailTurn, Goto, SessionInv, TurnTypeOK, TurnTasks, senderVars
<1>3. \A reason \in {"cancelled", "error"} : Protocol!MayFollow(last_event, Done(id, reason))
  BY <1>1, DoneMayFollow
<1> HIDE DEF id
<1>4. Closes(t)'
  <2>1. CASE CancelTurn(t)
    <3>1. outbox'[t] = <<Done(id, "cancelled")>>
      BY <1>2, <2>1 DEF CancelTurn, Enqueue, SessionInv, EventTypeOK, id
    <3>2. Head(outbox'[t]) = Done(id, "cancelled")
      BY <3>1
    <3>3. HeadIsNext(t)'
      BY <1>2, <1>3, <3>2 DEF HeadIsNext
    <3> QED
      BY <1>2, <3>1, <3>3 DEF Closes
  <2>2. ASSUME NEW code \in {"ADAPTER_FAILURE", "PIPELINE_FAILURE"}, FailTurn(t, code)
        PROVE  Closes(t)'
    <3>1. outbox'[t] = <<Error(code), Done(id, "error")>>
      BY <1>2, <2>2 DEF FailTurn, Enqueue, SessionInv, EventTypeOK, id
    <3>2. code \in Notes
      BY DEF Notes
    <3>3. Protocol!MayFollow(last_event', Done(id, "error"))
      BY <1>3
    <3> QED
      BY <1>2, <3>1, <3>2, <3>3 DEF Closes
  <2> QED
    BY <2>1, <2>2
<1> QED
  BY <1>1, <1>2, <1>4 DEF TellsTurn, id, AtWork

\* emit_turn_output begins.
LEMMA EmitStep ==
  ASSUME SessionInv, NEW t \in TurnTasks, Silent(t), TellsTurn(t), TtsEnds(t)
  PROVE  TellsTurn(t)'
<1> DEFINE id == turn_id[t]
<1>1. id \in Nat \ {0} /\ id = current_turn_id /\ HeardUpTo(id - 1) /\ sending[t] = "idle"
  BY SilentTurn
<1>2. /\ tpc'[t] = "emit" /\ sending'[t] = "idle" /\ turn_id'[t] = id /\ t \in Tasks
      /\ current_turn_id' = current_turn_id /\ last_event' = last_event
  BY <1>1 DEF TtsEnds, turnStepUnchanged, turnRefVars, historyVars, Goto, SessionInv, TurnTypeOK,
     TurnTasks, senderVars
<1> HIDE DEF id
<1>3. outbox'[t] = TurnOutput(id, audio_chunks[t]) /\ audio_chunks[t] \in Nat
  BY <1>2 DEF TtsEnds, Enqueue, SessionInv, EventTypeOK, TurnTypeOK, id
<1>4. PICK out : out = outbox'[t]
  OBVIOUS
<1>5. /\ Consecutive(out, id)
      /\ Head(out).turn_id = id
      /\ Head(out).type = IF Mode = "streaming" THEN "stt.partial" ELSE "stt.final"
  <2>1. id \in Nat /\ audio_chunks[t] \in Nat /\ out = TurnOutput(id, audio_chunks[t])
    BY <1>1, <1>3, <1>4
  <2> QED
    BY <2>1, TurnOutputInOrder
<1>6. last_event.turn_id + 1 = id /\ Protocol!BetweenTurns(last_event)
  BY <1>1 DEF HeardUpTo
<1>7. Protocol!MayFollow(last_event, Head(out))
  BY <1>5, <1>6 DEF Protocol!MayFollow, Protocol!OpensTurn
<1>8. EmitsInOrder(t)'
  BY <1>2, <1>4, <1>5, <1>7 DEF EmitsInOrder, HeadIsNext
<1> QED
  BY <1>1, <1>2, <1>8 DEF TellsTurn, AtWork, id

\* StartTurn: the turn takes the next number, or reports that it has no audio.
LEMMA StartStep ==
  ASSUME SessionInv, TurnsAreTold, NEW t \in TurnTasks, StartTurn(t)
  PROVE  TurnsAreTold'
<1>1. /\ tpc[t] = "created" /\ ~Started(t) /\ Live(t) /\ t \in Tasks
      /\ UNCHANGED <<sending, last_event>>
  BY DEF StartTurn, At, Started, Live, senderVars, historyVars, TurnTasks
<1>2. \A u \in TurnTasks : ~Started(u)
  BY <1>1, OneStarted
<1>3. HeardUpTo(current_turn_id)
  BY <1>2 DEF TurnsAreTold
<1>4. CASE Goto(t, "empty") /\ UNCHANGED current_turn_id
  <2>1. \A u \in TurnTasks : ~Started(u)'
    BY <1>2, <1>4 DEF Goto, Started, SessionInv, TurnTypeOK
  <2> QED
    BY <1>1, <1>3, <1>4, <2>1 DEF TurnsAreTold, HeardUpTo
<1>5. CASE /\ Goto(t, "listen") /\ current_turn_id' = current_turn_id + 1
           /\ turn_id' = [turn_id EXCEPT ![t] = current_turn_id + 1]
  <2>1. current_turn_id \in Nat
    BY DEF SessionInv, SessionTypeOK
  <2>2. /\ tpc'[t] = "listen" /\ turn_id'[t] = current_turn_id + 1
        /\ \A u \in TurnTasks \ {t} : tpc'[u] = tpc[u]
    BY <1>5 DEF Goto, SessionInv, TurnTypeOK
  <2>3. HeardUpTo(turn_id[t] - 1)'
    BY <1>1, <1>3, <2>1, <2>2 DEF HeardUpTo
  <2>4. TellsTurn(t)'
    BY <1>5, <2>1, <2>2, <2>3 DEF TellsTurn
  <2>5. Started(t)'
    BY <2>2 DEF Started
  <2> QED
    BY <1>1, <2>2, <2>4, <2>5, ToldByOne
<1> QED
  BY <1>4, <1>5 DEF StartTurn

\* A frame of a turn leaves: the client hears what it may hear next.
LEMMA WriteStep ==
  ASSUME SessionInv, Intact, NEW t \in TurnTasks, Started(t), TellsTurn(t), WriteFrame(t)
  PROVE  /\ TellsTurn(t)'
         /\ \/ UNCHANGED <<last_event, turn_events>>
            \/ Protocol!ProtocolNext
<1> DEFINE id == turn_id[t]
           first == Head(outbox[t])
<1>1. /\ sending[t] = "built" /\ sending'[t] = "written" /\ peer = "up" /\ t \in Tasks
      /\ outbox[t] \in Seq(Event) /\ outbox[t] # <<>> /\ id # 0 /\ id = current_turn_id
      /\ UNCHANGED <<tpc, outbox, turn_id, current_turn_id>>
  BY DEF WriteFrame, Transmit, Intact, SessionInv, SenderInv, SenderTypeOK, EventTypeOK,
     OutboxDiscipline, TellsTurn, sendUnchanged, turnVars, turnRefVars, TurnTasks
<1>2. tpc[t] \in {"emit", "complete", "closing"}
  BY <1>1, SilentTurn DEF Silent, AtWork, Started, SessionInv, TurnTypeOK
<1>3. IF first.turn_id # 0
        THEN last_event' = first /\ turn_events' = turn_events + 1
        ELSE UNCHANGED <<last_event, turn_events>>
  BY <1>1 DEF WriteFrame
<1> HIDE DEF id, first
\* The usual case: the head of the outbox names the turn.
<1>4. ASSUME HeadIsNext(t), first.turn_id = id
      PROVE  HeadIsNext(t)' /\ Protocol!ProtocolNext
  <2>1. Protocol!MayFollow(last_event, first)
    BY <1>1, <1>4 DEF HeadIsNext, first
  <2>2. last_event' = first /\ turn_events' = turn_events + 1
    BY <1>1, <1>3, <1>4
  <2> QED
    BY <1>1, <2>1, <2>2 DEF HeadIsNext, Protocol!ProtocolNext, first
<1>5. CASE tpc[t] = "emit"
  <2>1. EmitsInOrder(t)
    BY <1>5 DEF TellsTurn
  <2>2. first.turn_id = id
    <3>1. 1 \in DOMAIN outbox[t] /\ first = outbox[t][1]
      BY <1>1 DEF first
    <3> QED
      BY <2>1, <3>1 DEF EmitsInOrder, Consecutive, id
  <2>3. HeadIsNext(t)' /\ Protocol!ProtocolNext
    BY <1>4, <2>1, <2>2 DEF EmitsInOrder
  <2>4. EmitsInOrder(t)'
    BY <1>1, <2>1, <2>3 DEF EmitsInOrder
  <2> QED
    BY <1>1, <1>5, <2>3, <2>4 DEF TellsTurn, AtWork, id
<1>6. CASE tpc[t] = "complete"
  <2>1. Completes(t)
    BY <1>6 DEF TellsTurn
  <2>2. first.turn_id = id
    BY <2>1 DEF Completes, Done, TurnEvent, first, id
  <2>3. HeadIsNext(t)' /\ Protocol!ProtocolNext
    BY <1>4, <2>1, <2>2 DEF Completes
  <2>4. Completes(t)'
    BY <1>1, <2>1, <2>3 DEF Completes
  <2> QED
    BY <1>1, <1>6, <2>3, <2>4 DEF TellsTurn, AtWork, id
<1>7. CASE tpc[t] = "closing"
  <2>1. PICK reason \in {"cancelled", "error"} :
          \/ outbox[t] = <<Done(id, reason)>> /\ HeadIsNext(t)
          \/ /\ \E code \in Notes : outbox[t] = <<Error(code), Done(id, reason)>>
             /\ Protocol!MayFollow(last_event, Done(id, reason))
    BY <1>7 DEF TellsTurn, Closes, id
  <2>2. CASE outbox[t] = <<Done(id, reason)>> /\ HeadIsNext(t)
    <3>1. first.turn_id = id
      BY <2>2 DEF Done, TurnEvent, first
    <3>2. HeadIsNext(t)' /\ Protocol!ProtocolNext
      BY <1>4, <2>2, <3>1
    <3>3. Closes(t)'
      BY <1>1, <2>2, <3>2 DEF Closes, id
    <3> QED
      BY <1>1, <1>7, <3>2, <3>3 DEF TellsTurn, AtWork, id
  <2>3. CASE /\ \E code \in Notes : outbox[t] = <<Error(code), Done(id, reason)>>
             /\ Protocol!MayFollow(last_event, Done(id, reason))
    <3>1. PICK code \in Notes : outbox[t] = <<Error(code), Done(id, reason)>>
      BY <2>3
    <3>2. first = Error(code)
      BY <3>1 DEF first
    <3>3. first.turn_id = 0
      BY <3>2 DEF Error, TurnEvent
    <3>4. UNCHANGED <<last_event, turn_events>>
      BY <1>3, <3>3
    <3>5. Protocol!MayFollow(last_event', Done(id, reason))
      BY <2>3, <3>4
    <3>6. Closes(t)'
      BY <1>1, <3>1, <3>5 DEF Closes, id
    <3> QED
      BY <1>1, <1>7, <3>4, <3>6 DEF TellsTurn, AtWork, id
  <2> QED
    BY <2>1, <2>2, <2>3
<1> QED
  BY <1>2, <1>5, <1>6, <1>7

LEMMA DoneFields ==
  ASSUME NEW id, NEW reason
  PROVE  /\ Done(id, reason).type = "session.done"
         /\ Done(id, reason).turn_id = id
         /\ Done(id, reason).note = reason
BY DEF Done, TurnEvent

LEMMA TailElements ==
  ASSUME NEW events \in Seq(Event), Len(events) > 1, NEW rest, rest = Tail(events)
  PROVE  /\ rest # <<>> /\ Len(rest) = Len(events) - 1 /\ Head(rest) = events[2]
         /\ DOMAIN rest = 1..Len(rest)
         /\ \A i \in 1..Len(rest) : rest[i] = events[i + 1]
<1>1. events # <<>> /\ Len(events) \in Nat
  OBVIOUS
<1>2. /\ rest \in Seq(Event) /\ Len(rest) = Len(events) - 1
      /\ \A i \in 1..Len(rest) : rest[i] = events[i + 1]
  BY <1>1, HeadTailProperties
<1>3. rest # <<>> /\ Head(rest) = rest[1] /\ DOMAIN rest = 1..Len(rest)
  BY <1>1, <1>2
<1>4. 1 \in 1..Len(rest) /\ 1 + 1 = 2
  BY <1>1, <1>2
<1> QED
  BY <1>2, <1>3, <1>4

\* A send of a turn returns: the next event, the done after the last one, or the end.
LEMMA SentStep ==
  ASSUME SessionInv, NEW t \in TurnTasks, Started(t), TellsTurn(t), TurnSent(t)
  PROVE  /\ Started(t)' => TellsTurn(t)'
         /\ ~Started(t)' => HeardUpTo(current_turn_id)'
<1> DEFINE id == turn_id[t]
<1>1. /\ sending[t] = "written" /\ sending'[t] = "idle" /\ t \in Tasks
      /\ outbox[t] \in Seq(Event) /\ outbox[t] # <<>> /\ id \in Nat \ {0} /\ id = current_turn_id
      /\ UNCHANGED <<turn_id, current_turn_id, last_event>>
  BY DEF TurnSent, Release, SessionInv, SenderInv, SenderTypeOK, EventTypeOK, TurnTypeOK,
     OutboxDiscipline, TellsTurn, turnSendUnchanged, historyVars, TurnTasks
<1>2. tpc[t] \in {"emit", "complete", "closing"}
  BY <1>1, SilentTurn DEF Silent, AtWork, Started, SessionInv, TurnTypeOK
<1>3. HeadIsNext(t) => last_event = Head(outbox[t])
  BY <1>1 DEF HeadIsNext
<1>4. Len(outbox[t]) \in Nat \ {0} /\ Head(outbox[t]) = outbox[t][1]
      /\ DOMAIN outbox[t] = 1..Len(outbox[t])
  BY <1>1
<1>5. \A e, f : Len(<<e>>) = 1 /\ Len(<<e, f>>) = 2 /\ Head(<<e>>) = e /\ Tail(<<e, f>>) = <<f>>
  OBVIOUS
<1> HIDE DEF id
<1>6. CASE Len(outbox[t]) > 1 /\ UNCHANGED tpc /\ Enqueue(t, Tail(outbox[t]))
  <2>1. outbox'[t] = Tail(outbox[t]) /\ tpc'[t] = tpc[t]
    BY <1>1, <1>6 DEF Enqueue, SessionInv, EventTypeOK
  <2>2. CASE tpc[t] = "emit"
    <3>1. Consecutive(outbox[t], id) /\ HeadIsNext(t)
      BY <2>2 DEF TellsTurn, EmitsInOrder, id
    <3>2. PICK rest : rest = Tail(outbox[t])
      OBVIOUS
    <3>3. /\ rest # <<>> /\ Len(rest) = Len(outbox[t]) - 1 /\ Head(rest) = outbox[t][2]
          /\ DOMAIN rest = 1..Len(rest)
          /\ \A i \in 1..Len(rest) : rest[i] = outbox[t][i + 1]
      BY <1>1, <1>6, <3>2, TailElements
    <3>4. Consecutive(rest, id)
      <4>1. ASSUME NEW i \in DOMAIN rest
            PROVE  /\ rest[i].turn_id = id
                   /\ i < Len(rest) => Protocol!MayFollow(rest[i], rest[i + 1])
                   /\ i = Len(rest) => rest[i].type \in {"agent.reply", "audio.output.chunk"}
        <5>1. /\ i + 1 \in DOMAIN outbox[t] /\ rest[i] = outbox[t][i + 1]
              /\ i < Len(rest) => i + 1 < Len(outbox[t]) /\ rest[i + 1] = outbox[t][(i + 1) + 1]
              /\ i = Len(rest) => i + 1 = Len(outbox[t])
          BY <1>4, <3>3
        <5> QED
          BY <3>1, <5>1 DEF Consecutive
      <4> QED
        BY <3>3, <4>1 DEF Consecutive
    <3>5. Protocol!MayFollow(last_event, Head(rest))
      <4>1. last_event = outbox[t][1] /\ 1 \in DOMAIN outbox[t] /\ 1 < Len(outbox[t]) /\ 1 + 1 = 2
        BY <1>3, <1>4, <1>6, <3>1
      <4> QED
        BY <3>1, <3>3, <4>1 DEF Consecutive
    <3>6. EmitsInOrder(t)'
      BY <1>1, <2>1, <3>2, <3>4, <3>5 DEF EmitsInOrder, HeadIsNext, id
    <3> QED
      BY <1>1, <2>1, <2>2, <3>6 DEF TellsTurn, AtWork, Started, id
  <2>3. CASE tpc[t] = "complete"
    <3>1. outbox[t] = <<Done(id, "turn-complete")>>
      BY <2>3 DEF TellsTurn, Completes, id
    <3>2. Len(outbox[t]) = 1
      BY <3>1
    <3> QED
      BY <1>6, <3>2
  <2>4. CASE tpc[t] = "closing"
    <3>1. PICK reason \in {"cancelled", "error"} :
            \/ outbox[t] = <<Done(id, reason)>>
            \/ /\ \E code \in Notes : outbox[t] = <<Error(code), Done(id, reason)>>
               /\ Protocol!MayFollow(last_event, Done(id, reason))
      BY <2>4 DEF TellsTurn, Closes, id
    <3>2. ASSUME outbox[t] = <<Done(id, reason)>>
          PROVE  FALSE
      <4>1. Len(outbox[t]) = 1
        BY <3>2
      <4> QED
        BY <1>6, <4>1
    <3>3. /\ \E code \in Notes : outbox[t] = <<Error(code), Done(id, reason)>>
          /\ Protocol!MayFollow(last_event, Done(id, reason))
      BY <3>1, <3>2
    <3>4. outbox'[t] = <<Done(id, reason)>> /\ Head(outbox'[t]) = Done(id, reason)
      <4>1. PICK code \in Notes : outbox[t] = <<Error(code), Done(id, reason)>>
        BY <3>3
      <4>2. Tail(<<Error(code), Done(id, reason)>>) = <<Done(id, reason)>>
        BY <1>5
      <4> QED
        BY <1>5, <2>1, <4>1, <4>2
    <3>5. HeadIsNext(t)'
      BY <1>1, <3>3, <3>4 DEF HeadIsNext
    <3>6. Closes(t)'
      BY <1>1, <3>4, <3>5 DEF Closes, id
    <3> QED
      BY <1>1, <2>1, <2>4, <3>6 DEF TellsTurn, AtWork, Started, id
  <2> QED
    BY <1>2, <2>2, <2>3, <2>4
<1>7. CASE /\ Len(outbox[t]) = 1 /\ tpc[t] = "emit" /\ Goto(t, "complete")
           /\ Enqueue(t, <<Done(turn_id[t], "turn-complete")>>)
  <2>1. outbox'[t] = <<Done(id, "turn-complete")>> /\ tpc'[t] = "complete"
    BY <1>1, <1>7 DEF Enqueue, Goto, SessionInv, EventTypeOK, TurnTypeOK, id
  <2>2. Consecutive(outbox[t], id) /\ last_event = outbox[t][1] /\ 1 \in DOMAIN outbox[t]
    BY <1>3, <1>4, <1>7 DEF TellsTurn, EmitsInOrder, id
  <2>3. last_event.turn_id = id /\ last_event.type \in {"agent.reply", "audio.output.chunk"}
    BY <1>7, <2>2 DEF Consecutive
  <2>4. Protocol!MayFollow(last_event, Done(id, "turn-complete"))
    BY <2>3, DoneFields DEF Protocol!MayFollow, Protocol!ContinuesTurn, Protocol!BetweenTurns
  <2>5. Head(outbox'[t]) = Done(id, "turn-complete")
    BY <1>5, <2>1
  <2>6. Completes(t)'
    BY <1>1, <2>1, <2>4, <2>5 DEF Completes, HeadIsNext, id
  <2> QED
    BY <1>1, <2>1, <2>6 DEF TellsTurn, AtWork, Started, id
<1>8. CASE Len(outbox[t]) = 1 /\ tpc[t] \in {"complete", "closing"} /\ FinishTurn(t)
  <2>1. tpc'[t] = "ended"
    BY <1>8 DEF FinishTurn, Goto, SessionInv, TurnTypeOK
  <2>2. \E reason : outbox[t] = <<Done(id, reason)>> /\ HeadIsNext(t)
    BY <1>5, <1>8 DEF TellsTurn, Completes, Closes, id
  <2>3. \E reason : last_event = Done(id, reason)
    BY <1>3, <1>5, <2>2
  <2>4. HeardUpTo(current_turn_id)
    BY <1>1, <2>3, DoneFields DEF HeardUpTo, Protocol!BetweenTurns
  <2> QED
    BY <1>1, <2>1, <2>4 DEF Started, HeardUpTo
<1> QED
  BY <1>2, <1>6, <1>7, <1>8 DEF TurnSent

(***************************************************************************)
(* Every step.                                                             *)
(***************************************************************************)

LEMMA UnnamedFrame ==
  ASSUME SessionInv, OnlyTurnsAreNamed, TurnsAreTold, NEW t \in Tasks, WriteFrame(t),
         t = Handler \/ ~Started(t)
  PROVE  TurnsAreTold' /\ UNCHANGED <<last_event, turn_events>>
<1>1. sending[t] = "built" /\ outbox[t] \in Seq(Event) /\ outbox[t] # <<>> /\ Unnamed(outbox[t])
  BY DEF WriteFrame, Transmit, SessionInv, EventTypeOK, OutboxDiscipline, OnlyTurnsAreNamed
<1>2. Head(outbox[t]).turn_id = 0
  BY <1>1, UnnamedTail
<1>3. UNCHANGED <<last_event, turn_events>>
  BY <1>2 DEF WriteFrame
<1>4. UNCHANGED <<tpc, turn_id, outbox, current_turn_id>>
  BY DEF WriteFrame, sendUnchanged, turnVars, turnRefVars
<1>5. \A u \in Tasks \ {t} : sending'[u] = sending[u]
  BY DEF WriteFrame, Transmit, SessionInv, SenderInv, SenderTypeOK
<1>6. \A u \in TurnTasks : Started(u) => u \in Tasks \ {t}
  BY DEF TurnTasks
<1> QED
  BY <1>3, <1>4, <1>5, <1>6, ToldKept DEF Started

LEMMA ReceiveTold ==
  ASSUME SessionInv, OnlyTurnsAreNamed, TurnsAreTold, Receive
  PROVE  TurnsAreTold' /\ UNCHANGED <<last_event, turn_events>>
<1>1. UNCHANGED <<last_event, turn_events, current_turn_id, turn_id, sending>>
  BY DEF Receive, EventRefused, HandlerRaises, Malformed, HelloAccepted, HelloRejected, Cancel,
     AudioUnauthorized, BadChunk, AudioRefused, BufferChunk, StreamChunk, EndBuffered, EndStreaming,
     CreateTurn, turnVars, turnRefVars, historyVars, senderVars
<1>2. \A t \in TurnTasks : /\ Started(t)' <=> Started(t)
                           /\ Started(t) => tpc'[t] = tpc[t]
                           /\ outbox'[t] = outbox[t]
  BY ReceiveNamed
<1>3. TurnsAreTold'
  BY <1>1, <1>2, ToldKept
<1> QED
  BY <1>1, <1>3

LEMMA HandlerTold ==
  ASSUME SessionInv, OnlyTurnsAreNamed, TurnsAreTold, HandlerStep
  PROVE  TurnsAreTold' /\ UNCHANGED <<last_event, turn_events>>
<1>1. Handler \in Tasks /\ TurnTasks = Tasks \ {Handler}
  BY VoiceAssumption DEF TurnTasks
<1>2. CASE WriteFrame(Handler)
  BY <1>1, <1>2, UnnamedFrame
<1>3. CASE HandlerSent \/ HandlerSendFails \/ CloseAfterReject \/ ReceiveDisconnect
  <2>1. UNCHANGED <<last_event, turn_events, current_turn_id, turn_id>>
    BY <1>3 DEF HandlerSent, HandlerSendFails, CloseAfterReject, ReceiveDisconnect,
       cleanupUnchanged, turnVars, turnRefVars, historyVars
  <2>2. \A t \in TurnTasks : sending'[t] = sending[t]
    BY <1>1, <1>3 DEF HandlerSent, HandlerSendFails, CloseAfterReject, ReceiveDisconnect,
       Release, TransmitFails, MarkClosed, senderVars, SessionInv, SenderInv, SenderTypeOK
  <2>3. UNCHANGED tpc /\ \A t \in TurnTasks : outbox'[t] = outbox[t]
    BY HandlerNamed
  <2> QED
    BY <2>1, <2>2, <2>3, ToldKept DEF Started
<1> QED
  BY <1>2, <1>3 DEF HandlerStep

LEMMA TurnTold ==
  ASSUME SessionInv, OnlyTurnsAreNamed, TurnsAreTold, Intact, NEW t \in TurnTasks, TurnStep(t)
  PROVE  /\ TurnsAreTold'
         /\ \/ UNCHANGED <<last_event, turn_events>>
            \/ Protocol!ProtocolNext
<1>1. t \in Tasks /\ \A u \in TurnTasks \ {t} : tpc'[u] = tpc[u] /\ outbox'[u] = outbox[u]
  BY TurnNamed DEF TurnTasks
<1>2. CASE StartTurn(t)
  BY <1>2, StartStep DEF StartTurn, historyVars
<1>3. CASE \/ NextChunk(t) \/ EndOfAudio(t) \/ VadReturns(t) \/ SttReturns(t)
           \/ BridgeReturns(t) \/ TtsYields(t) \/ TtsEnds(t) \/ AdapterRaises(t)
  <2>1. /\ tpc[t] \in {"listen", "vad", "stt", "ask", "tts"}
        /\ UNCHANGED <<senderVars, turn_id, current_turn_id, last_event, turn_events>>
    BY <1>3 DEF NextChunk, EndOfAudio, VadReturns, SttReturns, BridgeReturns, TtsYields, TtsEnds,
       AdapterRaises, At, turnStepUnchanged, turnRefVars, historyVars
  <2>2. Silent(t) /\ Started(t) /\ Live(t)
    BY <2>1 DEF Silent, AtWork, Started, Live
  <2>3. TellsTurn(t)
    BY <2>2 DEF TurnsAreTold
  <2>4. \/ \E pc \in AtWork \ {"emit"} : Goto(t, pc)
        \/ CancelTurn(t)
        \/ \E code \in {"ADAPTER_FAILURE", "PIPELINE_FAILURE"} : FailTurn(t, code)
        \/ TtsEnds(t)
    BY <1>3 DEF NextChunk, EndOfAudio, VadReturns, SttReturns, BridgeReturns, TtsYields,
       AdapterRaises, EnsureNotCancelled, AtWork
  <2>5. TellsTurn(t)'
    <3>1. CASE \E pc \in AtWork \ {"emit"} : Goto(t, pc)
      BY <2>1, <2>2, <2>3, <3>1, SilentStep
    <3>2. CASE \/ CancelTurn(t)
               \/ \E code \in {"ADAPTER_FAILURE", "PIPELINE_FAILURE"} : FailTurn(t, code)
      BY <2>1, <2>2, <2>3, <3>2, CloseStep
    <3>3. CASE TtsEnds(t)
      BY <2>2, <2>3, <3>3, EmitStep
    <3> QED
      BY <2>4, <3>1, <3>2, <3>3
  <2>6. Started(t)'
    <3>1. tpc'[t] \in AtWork \cup {"closing"}
      BY <2>4 DEF CancelTurn, FailTurn, TtsEnds, Goto, AtWork, SessionInv, TurnTypeOK
    <3> QED
      BY <3>1 DEF AtWork, Started
  <2> QED
    BY <1>1, <2>1, <2>2, <2>5, <2>6, ToldByOne
<1>4. CASE WriteFrame(t)
  <2>1. CASE Started(t)
    <3>1. /\ TellsTurn(t)'
          /\ \/ UNCHANGED <<last_event, turn_events>>
             \/ Protocol!ProtocolNext
      BY <1>4, <2>1, WriteStep DEF TurnsAreTold
    <3>2. UNCHANGED tpc /\ Live(t)
      BY <1>4, <2>1 DEF WriteFrame, sendUnchanged, turnVars, Started, Live
    <3> QED
      BY <1>1, <2>1, <3>1, <3>2, ToldByOne DEF Started
  <2>2. CASE ~Started(t)
    BY <1>1, <1>4, <2>2, UnnamedFrame
  <2> QED
    BY <2>1, <2>2
<1>5. CASE TurnSent(t)
  <2>1. /\ UNCHANGED <<last_event, turn_events, current_turn_id, turn_id>>
        /\ sending[t] = "written" /\ outbox[t] # <<>>
        /\ \A u \in TurnTasks \ {t} : sending'[u] = sending[u]
    BY <1>1, <1>5 DEF TurnSent, turnSendUnchanged, historyVars, Release, SessionInv, SenderInv,
       SenderTypeOK, OutboxDiscipline, TurnTasks
  <2>2. CASE Started(t)
    <3>1. TellsTurn(t) /\ Live(t)
      BY <2>2 DEF TurnsAreTold, Started, Live
    <3>2. /\ Started(t)' => TellsTurn(t)'
          /\ ~Started(t)' => HeardUpTo(current_turn_id)'
      BY <1>5, <2>2, <3>1, SentStep
    <3> QED
      BY <1>1, <2>1, <3>1, <3>2, ToldByOne
  <2>3. CASE ~Started(t)
    <3>1. tpc[t] \notin {"emit", "complete", "closing"}
      BY <2>3 DEF Started
    <3>2. UNCHANGED tpc \/ Goto(t, "ended")
      BY <1>5, <3>1 DEF TurnSent, EndWithoutFinally
    <3>3. ~Started(t)'
      BY <2>3, <3>2 DEF Goto, Started, SessionInv, TurnTypeOK
    <3> QED
      BY <1>1, <2>1, <2>3, <3>3, ToldKept DEF Started
  <2> QED
    BY <2>1, <2>2, <2>3
<1>6. CASE TurnSendFails(t) \/ TurnInterrupted(t)
  BY <1>6 DEF TurnSendFails, TransmitFails, TurnInterrupted, Intact, SessionInv, InterruptedOnLoss
<1> QED
  BY <1>2, <1>3, <1>4, <1>5, <1>6 DEF TurnStep

LEMMA ToldStep ==
  ASSUME SessionInv, OnlyTurnsAreNamed, TurnsAreTold, Intact, [Next]_vars
  PROVE  /\ TurnsAreTold'
         /\ \/ UNCHANGED <<last_event, turn_events>>
            \/ Protocol!ProtocolNext
<1>1. CASE (\E t \in Tasks : BeginSend(t)) \/ ClientLeaves \/ UNCHANGED vars
  <2>1. UNCHANGED <<tpc, outbox, turn_id, current_turn_id, last_event, turn_events>>
    BY <1>1 DEF BeginSend, ClientLeaves, sendUnchanged, turnVars, turnRefVars, historyVars, vars
  <2>2. \A t \in Tasks : sending'[t] = "written" <=> sending[t] = "written"
    BY <1>1 DEF BeginSend, Acquire, ClientLeaves, PeerLeaves, vars, senderVars, SessionInv,
       SenderInv, SenderTypeOK
  <2> QED
    BY <2>1, <2>2, ToldKept DEF Started, TurnTasks
<1> QED
  BY <1>1, ReceiveTold, HandlerTold, TurnTold DEF Next

\* Once the connection is lost, or marked, the client hears of no turn.
LEMMA LostIsSilent ==
  ASSUME ~Intact, SessionInv, [Next]_vars
  PROVE  UNCHANGED <<last_event, turn_events>>
<1>1. ASSUME NEW t \in Tasks, WriteFrame(t)
      PROVE  UNCHANGED <<last_event, turn_events>>
  BY <1>1 DEF WriteFrame, Transmit, Intact, SessionInv, SenderInv, SenderTypeOK
<1>2. ASSUME NEW t \in TurnTasks, TurnStep(t)
      PROVE  UNCHANGED <<last_event, turn_events>>
  BY <1>1, <1>2 DEF TurnStep, StartTurn, NextChunk, EndOfAudio, VadReturns, SttReturns,
     BridgeReturns, TtsYields, TtsEnds, AdapterRaises, turnStepUnchanged, TurnSent, TurnSendFails,
     TurnInterrupted, turnSendUnchanged, historyVars, TurnTasks
<1>3. HandlerStep => UNCHANGED <<last_event, turn_events>>
  BY <1>1, VoiceAssumption DEF HandlerStep, HandlerSent, HandlerSendFails, CloseAfterReject,
     ReceiveDisconnect, cleanupUnchanged, historyVars
<1>4. Receive => UNCHANGED <<last_event, turn_events>>
  BY DEF Receive, EventRefused, HandlerRaises, Malformed, HelloAccepted, HelloRejected, Cancel,
     AudioUnauthorized, BadChunk, AudioRefused, BufferChunk, StreamChunk, EndBuffered, EndStreaming,
     historyVars
<1> QED
  BY <1>2, <1>3, <1>4 DEF Next, BeginSend, ClientLeaves, historyVars, vars

LEMMA ProtocolStep ==
  ASSUME SessionInv, ProtocolInv, [Next]_vars
  PROVE  /\ ProtocolInv'
         /\ \/ UNCHANGED <<last_event, turn_events>>
            \/ Protocol!ProtocolNext
<1>1. CASE Intact
  BY <1>1, NamedStep, ToldStep DEF ProtocolInv
<1>2. CASE ~Intact
  BY <1>2, NamedStep, LostIsSilent, IntactBefore DEF ProtocolInv
<1> QED
  BY <1>1, <1>2

LEMMA ProtocolInitially ==
  ASSUME Init
  PROVE  ProtocolInv /\ Protocol!ProtocolInit
<1>1. \A t \in TurnTasks : tpc[t] = "unborn" /\ ~Started(t)
  BY DEF Init, Started
<1>2. last_event.type = "none" /\ last_event.turn_id = 0 /\ current_turn_id = 0 /\ turn_events = 0
  BY DEF Init, TurnEvent
<1>3. OnlyTurnsAreNamed
  BY UnnamedEvents DEF Init, OnlyTurnsAreNamed
<1>4. TurnsAreTold
  BY <1>1, <1>2 DEF TurnsAreTold, HeardUpTo, Protocol!BetweenTurns
<1> QED
  BY <1>2, <1>3, <1>4 DEF ProtocolInv, Protocol!ProtocolInit

\* What the client hears of its turns is in the order of TurnProtocol: turns one after
\* the other, numbered without a gap, each a transcript, a reply and the numbered audio
\* up to its session.done, or the session.done alone.  No interleaving of a turn with
\* the receive loop, with a cancel or with the turn after it tells the client otherwise.
THEOREM ClientIsToldInOrder == Spec => ClientSeesProtocol
<1>1. Init => ProtocolInv /\ Protocol!ProtocolInit
  BY ProtocolInitially
<1>2. SessionInv /\ ProtocolInv /\ [Next]_vars
        => ProtocolInv' /\ [Protocol!ProtocolNext]_(Protocol!protocolVars)
  BY ProtocolStep DEF Protocol!protocolVars
<1> QED
  BY <1>1, <1>2, SessionInvariance, PTL DEF Spec, ClientSeesProtocol, Protocol!ProtocolSpec
=============================================================================
