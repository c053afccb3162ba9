--------------------------- MODULE OpenClawBridge ---------------------------
(***************************************************************************)
(* OpenClawGatewayBridge.ask for the turns of several sessions.  The POST  *)
(* blocks, so asyncio.to_thread gives it to the event loop's thread pool:  *)
(* a queue of calls and a fixed number of workers.  A turn that waits for  *)
(* its call can be marked cancelled, which changes nothing for the call,   *)
(* or be cancelled with its task when the client leaves; that reaches the  *)
(* pool's call only when the event loop comes round again.  The timeout of *)
(* urlopen limits how long a socket may be silent, not how long a request  *)
(* takes: a gateway that keeps sending keeps its worker.                   *)
(***************************************************************************)
EXTENDS Integers, Sequences, FiniteSets

CONSTANTS
  Sessions, Workers,
  None,
  Timeout,   \* timeout_ms, in ticks
  MaxAsks    \* bound: asks of a session

ASSUME BridgeAssumption ==
  /\ Timeout \in Nat \ {0} /\ MaxAsks \in Nat
  /\ None \notin Sessions \X (1..MaxAsks)

VARIABLES
  turn,   \* per session: where its turn is, how many asks it made, if it is marked cancelled
  call,   \* the pool's future of an ask: "none", "queued", "running", its outcome, "dropped",
          \* or "done" when the turn has taken the outcome
  queue,  \* the calls the pool has not started
  worker, \* per worker: its call, the phase of the request, how long the socket is silent
  heard   \* history: what came of the ask that ended in the last step

vars == <<turn, call, queue, worker, heard>>

Calls == Sessions \X (1..MaxAsks)

Free == [call |-> None, phase |-> "free", quiet |-> 0]

\* A worker that begins _http_post_json.
Posting(c) == [call |-> c, phase |-> "connect", quiet |-> 0]

\* How a phase of _http_post_json may end the request, silence apart: until the request
\* is sent, until urlopen returns with the headers, and in response.read().
Outcomes ==
  [connect |-> {"bad url", "refused"},
   await   |-> {"hung up", "401", "404", "500"},
   read    |-> {"cut off", "not utf-8", "not json", "no text", "reply"}]

\* Where a request may be when its socket stirs: at the next address or further in the
\* TLS handshake, at the host a redirect names, in the next bytes of headers or body.
Follows == [connect |-> {"connect", "await"},
            await   |-> {"connect", "await", "read"},
            read    |-> {"read"}]

\* Silence while connecting is wrapped in a URLError, later it is a TimeoutError.
Silence == [connect |-> "URLError: timed out", await |-> "TimeoutError", read |-> "TimeoutError"]

AllOutcomes == UNION {Outcomes[p] \cup {Silence[p]} : p \in DOMAIN Outcomes}

\* MUTANT of Code: a URLError is a network error whatever its reason.
CodeByClass(outcome) ==
  CASE outcome = "reply"                                 -> "reply"
    [] outcome = "TimeoutError"                          -> "TIMEOUT"
    [] outcome = "401"                                   -> "AUTH_FAILED"
    [] outcome = "404"                                   -> "UNSUPPORTED_API"
    [] outcome = "500"                                   -> "UPSTREAM_ERROR"
    [] outcome \in {"refused", "URLError: timed out"}     -> "NETWORK_ERROR"
    [] outcome \in {"not json", "no text"}               -> "CONTRACT_MISMATCH"
    [] OTHER                                             -> "unmapped"

\* The except clauses of ask, _http_post_json and _extract_reply_text: what the
\* turn gets.  An exception none of them names reaches the turn as it is.
Code(outcome) ==
  CASE outcome = "reply"                                 -> "reply"
    [] outcome \in {"TimeoutError", "URLError: timed out"} -> "TIMEOUT"
    [] outcome = "401"                                   -> "AUTH_FAILED"
    [] outcome = "404"                                   -> "UNSUPPORTED_API"
    [] outcome = "500"                                   -> "UPSTREAM_ERROR"
    [] outcome = "refused"                               -> "NETWORK_ERROR"
    [] outcome \in {"not json", "no text"}               -> "CONTRACT_MISMATCH"
    [] OTHER                                             -> "unmapped"

Init ==
  /\ turn = [s \in Sessions |-> [pc |-> "idle", asks |-> 0, marked |-> FALSE]]
  /\ call = [c \in Calls |-> "none"]
  /\ queue = <<>>
  /\ worker = [w \in Workers |-> Free]
  /\ heard = None
-----------------------------------------------------------------------------
(***************************************************************************)
(* The event loop.                                                         *)
(***************************************************************************)
Current(s) == <<s, turn[s].asks>>

\* ask hands its request to the pool and awaits the future.  What ask refuses before
\* it makes a request is in Adapters!AskResults and changes nothing here.
Ask(s) ==
  /\ turn[s].pc = "idle" /\ turn[s].asks < MaxAsks
  /\ turn' = [turn EXCEPT ![s].pc = "asking", ![s].asks = @ + 1]
  /\ call' = [call EXCEPT ![<<s, turn[s].asks + 1>>] = "queued"]
  /\ queue' = Append(queue, <<s, turn[s].asks + 1>>)
  /\ heard' = None
  /\ UNCHANGED worker

\* The turn goes on with the outcome of its call.  The pipeline looks at the mark
\* after a reply; an error of the bridge is reported even if the turn is marked.
Resume(s) ==
  /\ turn[s].pc = "asking" /\ call[Current(s)] \in AllOutcomes
  /\ LET code == Code(call[Current(s)]) IN
     heard' = IF code = "reply" /\ turn[s].marked THEN "cancelled" ELSE code
  /\ turn' = [turn EXCEPT ![s].pc = "idle", ![s].marked = FALSE]
  /\ call' = [call EXCEPT ![Current(s)] = "done"]
  /\ UNCHANGED <<queue, worker>>

\* MUTANT of Cancel: session.cancel ends the turn without waiting for the call.
CancelAtOnce(s) ==
  /\ turn[s].pc = "asking"
  /\ turn' = [turn EXCEPT ![s].pc = "idle"]
  /\ heard' = "cancelled"
  /\ UNCHANGED <<call, queue, worker>>

\* handle_cancel
Cancel(s) ==
  /\ turn[s].pc = "asking"
  /\ turn' = [turn EXCEPT ![s].marked = TRUE]
  /\ heard' = None
  /\ UNCHANGED <<call, queue, worker>>

\* MUTANT of Leave: cleanup_on_disconnect marks the turn and leaves its task alone.
LeaveMarking(s) ==
  /\ turn[s].pc \in {"idle", "asking"}
  /\ turn' = [turn EXCEPT ![s].pc = "left", ![s].marked = TRUE]
  /\ heard' = None
  /\ UNCHANGED <<call, queue, worker>>

\* cleanup_on_disconnect cancels the task and with it the future that the task awaits.
\* The pool hears of it in the loop's next iteration, from the future's callback.
Leave(s) ==
  /\ turn[s].pc \in {"idle", "asking"}
  /\ turn' = [turn EXCEPT ![s].pc = IF @ = "asking" THEN "leaving" ELSE "left",
                          ![s].marked = FALSE]
  /\ heard' = None
  /\ UNCHANGED <<call, queue, worker>>

\* MUTANT of Release: a call that already runs is dropped like one that is queued.
ReleaseAnyway(s) ==
  /\ turn[s].pc = "leaving"
  /\ turn' = [turn EXCEPT ![s].pc = "left"]
  /\ call' = [call EXCEPT ![Current(s)] = "dropped"]
  /\ heard' = None
  /\ UNCHANGED <<queue, worker>>

\* The callback cancels the pool's call, which drops it if it is still queued.  A worker
\* that took it since goes on without anyone waiting, and so does a finished one.
Release(s) ==
  /\ turn[s].pc = "leaving"
  /\ turn' = [turn EXCEPT ![s].pc = "left"]
  /\ call' = [call EXCEPT ![Current(s)] = IF @ = "queued" THEN "dropped" ELSE @]
  /\ heard' = None
  /\ UNCHANGED <<queue, worker>>
-----------------------------------------------------------------------------
(***************************************************************************)
(* The pool and the gateway.                                               *)
(***************************************************************************)
Busy(w) == worker[w] # Free

\* MUTANT of Take: a call that was dropped stays at the head of the queue.
TakeLive(w) ==
  /\ ~Busy(w) /\ queue # <<>> /\ call[Head(queue)] # "dropped"
  /\ queue' = Tail(queue)
  /\ call' = [call EXCEPT ![Head(queue)] = "running"]
  /\ worker' = [worker EXCEPT ![w] = Posting(Head(queue))]
  /\ heard' = None
  /\ UNCHANGED turn

Take(w) ==
  /\ ~Busy(w) /\ queue # <<>>
  /\ queue' = Tail(queue)
  /\ IF call[Head(queue)] = "dropped"
       THEN UNCHANGED <<call, worker>>
       ELSE /\ call' = [call EXCEPT ![Head(queue)] = "running"]
            /\ worker' = [worker EXCEPT ![w] = Posting(Head(queue))]
  /\ heard' = None
  /\ UNCHANGED turn

\* The socket stirs, and its silence begins anew.
Progress(w) ==
  /\ Busy(w)
  /\ \E phase \in Follows[worker[w].phase] :
       worker' = [worker EXCEPT ![w].phase = phase, ![w].quiet = 0]
  /\ heard' = None
  /\ UNCHANGED <<turn, call, queue>>

\* The request ends and its future takes the outcome, whether anyone awaits it or not.
Complete(w, outcome) ==
  /\ call' = [call EXCEPT ![worker[w].call] = outcome]
  /\ worker' = [worker EXCEPT ![w] = Free]
  /\ heard' = None
  /\ UNCHANGED <<turn, queue>>

Finish(w) == Busy(w) /\ \E outcome \in Outcomes[worker[w].phase] : Complete(w, outcome)

\* The socket has been silent for as long as urlopen allows.
Expired(w) == Busy(w) /\ worker[w].quiet = Timeout

TimesOut(w) == Expired(w) /\ Complete(w, Silence[worker[w].phase])

\* Time does not pass a timeout.
Tick ==
  /\ \E w \in Workers : Busy(w)
  /\ \A w \in Workers : ~Expired(w)
  /\ worker' = [w \in Workers |->
       IF Busy(w) THEN [worker[w] EXCEPT !.quiet = @ + 1] ELSE Free]
  /\ heard' = None
  /\ UNCHANGED <<turn, call, queue>>

Next ==
  \/ \E s \in Sessions : Ask(s) \/ Resume(s) \/ Cancel(s) \/ Leave(s) \/ Release(s)
  \/ \E w \in Workers : Take(w) \/ Progress(w) \/ Finish(w) \/ TimesOut(w)
  \/ Tick

Spec == Init /\ [][Next]_vars

\* The event loop and the pool run, and time passes.  The gateway need not answer.
FairSpec ==
  /\ Spec
  /\ \A s \in Sessions : WF_vars(Resume(s)) /\ WF_vars(Release(s))
  /\ \A w \in Workers : WF_vars(Take(w)) /\ WF_vars(TimesOut(w))
  /\ WF_vars(Tick)
-----------------------------------------------------------------------------
Codes == {"cancelled", "reply", "TIMEOUT", "AUTH_FAILED", "UNSUPPORTED_API", "UPSTREAM_ERROR",
          "NETWORK_ERROR", "CONTRACT_MISMATCH", "unmapped"}

WorkerType == {Free} \cup [call : Calls, phase : DOMAIN Outcomes, quiet : Nat]

TurnType == [pc : {"idle", "asking", "leaving", "left"}, asks : 0..MaxAsks, marked : BOOLEAN]

TypeOK ==
  /\ turn \in [Sessions -> TurnType]
  /\ call \in [Calls -> {"none", "queued", "running", "done", "dropped"} \cup AllOutcomes]
  /\ queue \in Seq(Calls)
  /\ worker \in [Workers -> WorkerType] /\ heard \in Codes \cup {None}

InQueue(c) == \E i \in DOMAIN queue : queue[i] = c

InWorker(c) == \E w \in Workers : Busy(w) /\ worker[w].call = c

\* Futures, queue and workers agree: a call in the queue or in a worker is what its
\* future says, a turn that waits has a call that is in the pool or has an outcome, so
\* that its future will be set, and nothing stays queued for a client that is gone.
PoolConsistent ==
  /\ \A i \in DOMAIN queue : call[queue[i]] \in {"queued", "dropped"}
  /\ \A w \in Workers : Busy(w) => call[worker[w].call] = "running"
  /\ \A s \in Sessions :
       /\ turn[s].pc = "asking" =>
            \/ call[Current(s)] = "queued" /\ InQueue(Current(s))
            \/ call[Current(s)] = "running" /\ InWorker(Current(s))
            \/ call[Current(s)] \in AllOutcomes
       /\ turn[s].pc = "left" => \A n \in 1..MaxAsks : call[<<s, n>>] # "queued"

Same(c, d) == c[1] = d[1]

\* The pool holds at most one request of a session, so the gateway sees the turns of a
\* conversation one after the other: cancelling a turn does not let the next one
\* overtake its request.
OneRequestPerSession ==
  /\ \A i, j \in DOMAIN queue : Same(queue[i], queue[j]) => i = j
  /\ \A v, w \in Workers : Busy(v) /\ Busy(w) /\ Same(worker[v].call, worker[w].call) => v = w
  /\ \A i \in DOMAIN queue, w \in Workers : Busy(w) => ~Same(queue[i], worker[w].call)

\* No request is made for a client once the event loop has told the pool that it left,
\* however long its call was queued.  Between the cancel and that moment one may be.
NothingSentForTheGone ==
  [][\A w \in Workers : ~Busy(w) /\ worker'[w] # Free
       => turn[worker'[w].call[1]].pc \in {"asking", "leaving"}]_vars

\* A gateway that falls silent, in whichever phase, is reported as TIMEOUT, and
\* nothing else is.
SilenceIsTimeout ==
  [][\A s \in Sessions : turn[s].pc = "asking" /\ turn'[s].pc = "idle" =>
       (heard' = "TIMEOUT" <=> call[Current(s)] \in {Silence[p] : p \in DOMAIN Silence})]_vars

\* From some time on no socket stirs but to end its request: every gateway finishes its
\* answers or falls silent.  Nothing in the code makes it so.
GatewaysEnd == <>[][\A w \in Workers : ~Progress(w)]_vars

\* A turn waits for the agent forever only if some gateway keeps sending: otherwise its
\* ask ends, however many requests of clients that have left are before it.
AskEnds == GatewaysEnd => \A s \in Sessions : turn[s].pc = "asking" ~> turn[s].pc # "asking"
=============================================================================
