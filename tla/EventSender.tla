----------------------------- MODULE EventSender -----------------------------
(***************************************************************************)
(* VoiceSessionHandler.send_event: the one way a frame leaves the server.  *)
(*                                                                         *)
(* Several coroutines of one connection (the receive loop and the turn     *)
(* task) send events.  Each takes the asyncio lock `seq_lock`, builds an   *)
(* envelope around the next sequence number and awaits ws.send_text while  *)
(* it still holds the lock.  The websocket below may deliver the frame,    *)
(* swallow it (the peer is gone and nobody noticed yet) or raise.          *)
(*                                                                         *)
(* Definitions commented as MUTANT are plausible bugs in the definition    *)
(* that follows; the specification does not use them.                      *)
(***************************************************************************)
EXTENDS Integers

CONSTANTS Tasks,  \* the coroutines of one connection that send events
          None    \* no task holds the lock

ASSUME NoneAssumption == None \notin Tasks

VARIABLES
  next_seq,           \* SessionState.next_seq
  seq_lock,           \* holder of VoiceSessionHandler.seq_lock, or None
  sending,            \* where each task is inside send_event
  envelope,           \* the sequence number in the envelope a task has built
  peer,               \* "up" until the client's end of the socket is gone
  application_state,  \* Starlette's ws.application_state
  delivered,          \* history: how many frames reached the client
  last_seq            \* history: the sequence number of the latest of them

senderVars == <<next_seq, seq_lock, sending, envelope, peer,
                application_state, delivered, last_seq>>

SenderTypeOK ==
  /\ next_seq \in Nat
  /\ seq_lock \in Tasks \cup {None}
  /\ sending \in [Tasks -> {"idle", "built", "written"}]
  /\ envelope \in [Tasks -> Int]
  /\ peer \in {"up", "gone"}
  /\ application_state \in {"CONNECTED", "DISCONNECTED"}
  /\ delivered \in Nat
  /\ last_seq \in Int

SenderInit ==
  /\ next_seq = 0
  /\ seq_lock = None
  /\ sending = [t \in Tasks |-> "idle"]
  /\ envelope = [t \in Tasks |-> -1]
  /\ peer = "up"
  /\ application_state = "CONNECTED"
  /\ delivered = 0
  /\ last_seq = -1
-----------------------------------------------------------------------------
\* MUTANT of Acquire: the number is taken without waiting for the lock.
AcquireWithoutLock(t) ==
  /\ sending[t] = "idle"
  /\ seq_lock' = t
  /\ sending' = [sending EXCEPT ![t] = "built"]
  /\ envelope' = [envelope EXCEPT ![t] = next_seq]
  /\ next_seq' = next_seq + 1
  /\ UNCHANGED <<peer, application_state, delivered, last_seq>>

\* `async with self.seq_lock`, then session.next() and event_envelope: no
\* await separates them, so the number is taken in the step that locks.
Acquire(t) ==
  /\ sending[t] = "idle"
  /\ seq_lock = None
  /\ seq_lock' = t
  /\ sending' = [sending EXCEPT ![t] = "built"]
  /\ envelope' = [envelope EXCEPT ![t] = next_seq]
  /\ next_seq' = next_seq + 1
  /\ UNCHANGED <<peer, application_state, delivered, last_seq>>

\* ws.send_text hands the frame to the transport.  A peer that is gone but
\* not yet noticed swallows it.
Transmit(t) ==
  /\ sending[t] = "built"
  /\ application_state = "CONNECTED"
  /\ sending' = [sending EXCEPT ![t] = "written"]
  /\ IF peer = "up"
       THEN /\ delivered' = delivered + 1
            /\ last_seq' = envelope[t]
       ELSE UNCHANGED <<delivered, last_seq>>
  /\ UNCHANGED <<next_seq, seq_lock, envelope, peer, application_state>>

\* ws.send_text returns; `async with` releases the lock.
Release(t) ==
  /\ sending[t] = "written"
  /\ seq_lock' = None
  /\ sending' = [sending EXCEPT ![t] = "idle"]
  /\ UNCHANGED <<next_seq, envelope, peer, application_state, delivered, last_seq>>

\* MUTANT of TransmitFails: the lock is not released when the send raises.
TransmitFailsKeepingLock(t) ==
  /\ sending[t] = "built"
  /\ peer = "gone" \/ application_state = "DISCONNECTED"
  /\ application_state' = "DISCONNECTED"
  /\ sending' = [sending EXCEPT ![t] = "idle"]
  /\ UNCHANGED <<next_seq, seq_lock, envelope, peer, delivered, last_seq>>

\* ws.send_text raises: WebSocketDisconnect, which also marks the socket, when
\* the transport reports the loss, RuntimeError when the socket is already
\* marked.  `async with` releases the lock either way.
TransmitFails(t) ==
  /\ sending[t] = "built"
  /\ peer = "gone" \/ application_state = "DISCONNECTED"
  /\ application_state' = "DISCONNECTED"
  /\ seq_lock' = None
  /\ sending' = [sending EXCEPT ![t] = "idle"]
  /\ UNCHANGED <<next_seq, envelope, peer, delivered, last_seq>>

\* CancelledError is thrown into a task anywhere in send_event: a holder
\* releases the lock, a waiter leaves the queue.
Interrupt(t) ==
  /\ seq_lock' = IF seq_lock = t THEN None ELSE seq_lock
  /\ sending' = [sending EXCEPT ![t] = "idle"]
  /\ UNCHANGED <<next_seq, envelope, peer, application_state, delivered, last_seq>>

\* Only cleanup_on_disconnect cancels a task, and it runs when the peer is gone.
InterruptOnDisconnect(t) == peer = "gone" /\ Interrupt(t)

\* ws.close(): the socket is marked whoever holds seq_lock, close takes no lock.
MarkClosed ==
  /\ application_state = "CONNECTED"
  /\ application_state' = "DISCONNECTED"
  /\ UNCHANGED <<next_seq, seq_lock, sending, envelope, peer, delivered, last_seq>>

\* The client closes or loses the connection.
PeerLeaves ==
  /\ peer = "up"
  /\ peer' = "gone"
  /\ UNCHANGED <<next_seq, seq_lock, sending, envelope, application_state,
                 delivered, last_seq>>

SenderNext ==
  \/ \E t \in Tasks : \/ Acquire(t)
                      \/ Transmit(t)
                      \/ Release(t)
                      \/ TransmitFails(t)
                      \/ InterruptOnDisconnect(t)
  \/ MarkClosed
  \/ PeerLeaves

SenderSpec == SenderInit /\ [][SenderNext]_senderVars
-----------------------------------------------------------------------------
(***************************************************************************)
(* What the client may rely on.                                            *)
(***************************************************************************)

\* The frames the client receives carry 0, 1, 2, ... in this order: however
\* the receive loop and a turn interleave, no number is skipped, repeated or
\* overtaken, and this includes the frames sent while a connection dies.
\* (A number is lost only with the connection: after that nothing arrives.)
GaplessOrder == last_seq = delivered - 1

\* A frame never arrives twice and the client's last number only moves up by one.
DeliveryStep == [][delivered' # delivered =>
                     /\ delivered' = delivered + 1
                     /\ last_seq' = last_seq + 1]_senderVars

\* The lock is held exactly by the task that is between taking a number and
\* coming back from ws.send_text, and as long as the connection is intact every
\* number taken was delivered, except the one the holder is about to write.
NoNumberInTheAir ==
  /\ \A t \in Tasks : sending[t] # "idle" <=> seq_lock = t
  /\ peer = "up" /\ application_state = "CONNECTED" =>
       IF \E t \in Tasks : sending[t] = "built"
         THEN next_seq = delivered + 1 /\ envelope[seq_lock] = delivered
         ELSE next_seq = delivered
=============================================================================
