------------------------ MODULE OpenClawBridge_proofs ------------------------
(***************************************************************************)
(* Proofs about OpenClawBridge, for any number of sessions, workers and    *)
(* asks, any timeout, and gateways that send as long as they like.         *)
(***************************************************************************)
EXTENDS OpenClawBridge, SequenceTheorems, TLAPS

\* What a call that is waiting or running can be: every other call of its session
\* was answered or not made yet.  This makes the pool's calls Current(s).
CallsInOrder ==
  \A s \in Sessions, n \in 1..MaxAsks :
    /\ n > turn[s].asks => call[<<s, n>>] = "none"
    /\ n < turn[s].asks => call[<<s, n>>] = "done"
    /\ n = turn[s].asks =>
         /\ turn[s].pc \in {"asking", "leaving"} =>
              call[<<s, n>>] \in {"queued", "running"} \cup AllOutcomes
         /\ turn[s].pc = "idle" => call[<<s, n>>] = "done"
         /\ turn[s].pc = "left" => call[<<s, n>>] \in {"done", "dropped", "running"} \cup AllOutcomes

AsksCounted == \A s \in Sessions : turn[s].pc \in {"asking", "leaving"} => turn[s].asks >= 1

\* The queue and the workers hold what the futures say, and no call twice.
InPool ==
  /\ \A i \in DOMAIN queue : call[queue[i]] \in {"queued", "dropped"}
  /\ \A w \in Workers : Busy(w) => call[worker[w].call] = "running"

NoCallTwice ==
  /\ \A i, j \in DOMAIN queue : queue[i] = queue[j] => i = j
  /\ \A v, w \in Workers : Busy(v) /\ Busy(w) /\ worker[v].call = worker[w].call => v = w
  /\ \A i \in DOMAIN queue, w \in Workers : Busy(w) => queue[i] # worker[w].call

BridgeInv == TypeOK /\ CallsInOrder /\ AsksCounted /\ InPool /\ NoCallTwice

LEMMA OutcomeNames ==
  /\ AllOutcomes = {"bad url", "refused", "hung up", "401", "404", "500", "cut off", "not utf-8",
                    "not json", "no text", "reply", "URLError: timed out", "TimeoutError"}
  /\ {Silence[p] : p \in DOMAIN Silence} = {"URLError: timed out", "TimeoutError"}
  /\ DOMAIN Outcomes = {"connect", "await", "read"}
<1>1. /\ DOMAIN Outcomes = {"connect", "await", "read"} /\ DOMAIN Silence = DOMAIN Outcomes
      /\ Outcomes["connect"] = {"bad url", "refused"}
      /\ Outcomes["await"] = {"hung up", "401", "404", "500"}
      /\ Outcomes["read"] = {"cut off", "not utf-8", "not json", "no text", "reply"}
      /\ Silence["connect"] = "URLError: timed out"
      /\ Silence["await"] = "TimeoutError" /\ Silence["read"] = "TimeoutError"
  BY DEF Outcomes, Silence
<1>2. AllOutcomes = (Outcomes["connect"] \cup {Silence["connect"]})
        \cup (Outcomes["await"] \cup {Silence["await"]}) \cup (Outcomes["read"] \cup {Silence["read"]})
  BY <1>1 DEF AllOutcomes
<1>3. {Silence[p] : p \in {"connect", "await", "read"}} = {"URLError: timed out", "TimeoutError"}
  BY <1>1
<1>4. AllOutcomes = {"bad url", "refused", "hung up", "401", "404", "500", "cut off", "not utf-8",
                     "not json", "no text", "reply", "URLError: timed out", "TimeoutError"}
  BY <1>1, <1>2
<1> QED
  BY <1>1, <1>3, <1>4

LEMMA CodeIsCode == \A outcome : Code(outcome) \in Codes
BY DEF Code, Codes

\* Only a silent socket becomes TIMEOUT.
LEMMA TimeoutIsSilence ==
  \A outcome \in AllOutcomes :
    Code(outcome) = "TIMEOUT" <=> outcome \in {Silence[p] : p \in DOMAIN Silence}
BY OutcomeNames DEF Code

LEMMA OutcomesOfPhase ==
  \A p \in DOMAIN Outcomes : Outcomes[p] \subseteq AllOutcomes /\ Silence[p] \in AllOutcomes
BY DEF AllOutcomes

LEMMA FreeIsFree ==
  \A x \in [call : Calls, phase : DOMAIN Outcomes, quiet : Nat] : x # Free
<1> SUFFICES ASSUME NEW x \in [call : Calls, phase : DOMAIN Outcomes, quiet : Nat], x = Free
             PROVE  FALSE
  OBVIOUS
<1>1. x.phase \in {"connect", "await", "read"}
  BY OutcomeNames
<1>2. x.phase = "free"
  BY DEF Free
<1> QED
  BY <1>1, <1>2

\* The pool's queue, call by call.
LEMMA QueueAppend ==
  \A q \in Seq(Calls), c \in Calls :
    /\ Append(q, c) \in Seq(Calls)
    /\ DOMAIN Append(q, c) = 1..(Len(q) + 1) /\ DOMAIN q = 1..Len(q) /\ Len(q) \in Nat
    /\ \A i \in 1..Len(q) : Append(q, c)[i] = q[i]
    /\ Append(q, c)[Len(q) + 1] = c
BY DEF Calls

LEMMA QueueTail ==
  \A q \in Seq(Calls) : q # <<>> =>
    /\ Tail(q) \in Seq(Calls) /\ Head(q) \in Calls
    /\ DOMAIN q = 1..Len(q) /\ Len(q) \in Nat /\ 1 \in DOMAIN q /\ q[1] = Head(q)
    /\ DOMAIN Tail(q) = 1..(Len(q) - 1)
    /\ \A i \in DOMAIN Tail(q) : i + 1 \in DOMAIN q /\ Tail(q)[i] = q[i + 1]
<1> SUFFICES ASSUME NEW q \in Seq(Calls), q # <<>> PROVE
    /\ Tail(q) \in Seq(Calls) /\ Head(q) \in Calls
    /\ DOMAIN q = 1..Len(q) /\ Len(q) \in Nat /\ 1 \in DOMAIN q /\ q[1] = Head(q)
    /\ DOMAIN Tail(q) = 1..(Len(q) - 1)
    /\ \A i \in DOMAIN Tail(q) : i + 1 \in DOMAIN q /\ Tail(q)[i] = q[i + 1]
  OBVIOUS
<1>1. DOMAIN q = 1..Len(q) /\ Len(q) \in Nat /\ Len(q) >= 1 /\ q[1] = Head(q)
  BY EmptySeq
<1>2. Tail(q) \in Seq(Calls) /\ Len(Tail(q)) = Len(q) - 1
  BY HeadTailProperties
<1>3. DOMAIN Tail(q) = 1..(Len(q) - 1) /\ \A i \in 1..(Len(q) - 1) : Tail(q)[i] = q[i + 1]
  BY HeadTailProperties, <1>2
<1> QED
  BY <1>1, <1>2, <1>3

LEMMA InitBridge == Init => BridgeInv
<1> SUFFICES ASSUME Init PROVE BridgeInv
  OBVIOUS
<1> USE DEF Init
<1>1. queue \in Seq(Calls) /\ Len(queue) = 0
  BY EmptySeq
<1>2. TypeOK
  BY <1>1, BridgeAssumption DEF TypeOK, TurnType, WorkerType, Calls
<1>3. DOMAIN queue = {}
  OBVIOUS
<1>4. CallsInOrder
  BY BridgeAssumption DEF CallsInOrder, Calls
<1> QED
  BY <1>2, <1>3, <1>4 DEF BridgeInv, AsksCounted, InPool, NoCallTwice, Busy

LEMMA AskInv ==
  ASSUME BridgeInv, NEW s \in Sessions, Ask(s)
  PROVE  BridgeInv'
<1> DEFINE new == <<s, turn[s].asks + 1>>
<1> USE BridgeAssumption DEF BridgeInv, Ask
<1>1. /\ turn[s].asks \in 0..MaxAsks /\ turn[s].asks + 1 \in 1..MaxAsks
      /\ new \in Calls /\ call[new] = "none"
  BY DEF TypeOK, TurnType, Calls, CallsInOrder
<1>2. /\ turn' \in [Sessions -> TurnType]
      /\ turn'[s].pc = "asking" /\ turn'[s].asks = turn[s].asks + 1
      /\ \A r \in Sessions \ {s} : turn'[r] = turn[r]
  BY <1>1 DEF TypeOK, TurnType
<1>3. /\ call' \in [Calls -> {"none", "queued", "running", "done", "dropped"} \cup AllOutcomes]
      /\ call'[new] = "queued" /\ \A c \in Calls \ {new} : call'[c] = call[c]
  BY <1>1 DEF TypeOK
<1>4. TypeOK'
  BY <1>1, <1>2, <1>3, QueueAppend DEF TypeOK
<1>5. CallsInOrder'
  <2> SUFFICES ASSUME NEW r \in Sessions, NEW n \in 1..MaxAsks
               PROVE  /\ n > turn'[r].asks => call'[<<r, n>>] = "none"
                      /\ n < turn'[r].asks => call'[<<r, n>>] = "done"
                      /\ n = turn'[r].asks =>
                           /\ turn'[r].pc \in {"asking", "leaving"} =>
                                call'[<<r, n>>] \in {"queued", "running"} \cup AllOutcomes
                           /\ turn'[r].pc = "idle" => call'[<<r, n>>] = "done"
                           /\ turn'[r].pc = "left" =>
                                call'[<<r, n>>] \in {"done", "dropped", "running"} \cup AllOutcomes
    BY DEF CallsInOrder
  <2>1. CASE r # s
    BY <2>1, <1>2, <1>3 DEF CallsInOrder, Calls
  <2>2. CASE r = s
    BY <2>2, <1>1, <1>2, <1>3 DEF CallsInOrder, Calls
  <2> QED
    BY <2>1, <2>2
<1>6. AsksCounted'
  BY <1>1, <1>2 DEF AsksCounted
<1>7. \A i \in DOMAIN queue : queue[i] \in Calls /\ queue[i] # new
  <2>1. \A i \in DOMAIN queue : queue[i] \in Calls
    BY DEF TypeOK
  <2>2. \A i \in DOMAIN queue : call[queue[i]] # call[new]
    BY <1>1 DEF InPool
  <2> QED
    BY <2>1, <2>2
<1>8. \A w \in Workers : Busy(w) => worker[w].call \in Calls /\ worker[w].call # new
  BY <1>1 DEF TypeOK, WorkerType, InPool, Busy
<1>9. InPool'
  BY <1>1, <1>3, <1>7, <1>8, QueueAppend DEF TypeOK, InPool, Busy
<1>10. NoCallTwice'
  BY <1>1, <1>7, <1>8, QueueAppend DEF TypeOK, NoCallTwice, Busy
<1> QED
  BY <1>4, <1>5, <1>6, <1>9, <1>10

\* A session's turn changes and with it at most the future of its current ask, which
\* stays where the pool has it: this covers Resume, Cancel, Leave and
\* Release.
LEMMA TurnChanges ==
  ASSUME BridgeInv, NEW s \in Sessions, UNCHANGED <<queue, worker>>, TypeOK',
         turn'[s].asks = turn[s].asks, \A r \in Sessions \ {s} : turn'[r] = turn[r],
         \A c \in Calls : c # Current(s) => call'[c] = call[c],
         turn'[s].pc \in {"asking", "leaving"} => turn[s].pc = "asking" /\ call' = call,
         turn[s].asks >= 1 =>
           /\ turn'[s].pc = "idle" => call'[Current(s)] = "done" /\ call[Current(s)] \in AllOutcomes
           /\ turn'[s].pc = "left" =>
                \/ call'[Current(s)] = "dropped" /\ call[Current(s)] = "queued"
                \/ /\ call'[Current(s)] = call[Current(s)]
                   /\ call[Current(s)] \in {"done", "running"} \cup AllOutcomes
  PROVE  BridgeInv'
<1> USE BridgeAssumption DEF BridgeInv
<1>a. /\ turn[s].asks \in 0..MaxAsks /\ turn'[s].pc \in {"idle", "asking", "leaving", "left"}
      /\ \A r \in Sessions, n \in 1..MaxAsks :
           <<r, n>> \in Calls /\ (<<r, n>> = Current(s) <=> r = s /\ n = turn[s].asks)
  BY DEF TypeOK, TurnType, Calls, Current
<1>1. CallsInOrder'
  <2> SUFFICES ASSUME NEW r \in Sessions, NEW n \in 1..MaxAsks
               PROVE  /\ n > turn'[r].asks => call'[<<r, n>>] = "none"
                      /\ n < turn'[r].asks => call'[<<r, n>>] = "done"
                      /\ n = turn'[r].asks =>
                           /\ turn'[r].pc \in {"asking", "leaving"} =>
                                call'[<<r, n>>] \in {"queued", "running"} \cup AllOutcomes
                           /\ turn'[r].pc = "idle" => call'[<<r, n>>] = "done"
                           /\ turn'[r].pc = "left" =>
                                call'[<<r, n>>] \in {"done", "dropped", "running"} \cup AllOutcomes
    BY DEF CallsInOrder
  <2>1. CASE r # s
    BY <2>1, <1>a DEF CallsInOrder
  <2>2. CASE r = s /\ n # turn[s].asks
    BY <2>2, <1>a DEF CallsInOrder
  <2>3. CASE r = s /\ n = turn[s].asks
    <3>0. turn[s].asks >= 1
      BY <2>3
    <3>1. turn[s].asks >= 1 /\ <<r, n>> = Current(s)
      BY <2>3, <3>0 DEF Current
    <3>2. turn'[s].pc \in {"asking", "leaving"} => call'[<<r, n>>] \in {"queued", "running"} \cup AllOutcomes
      BY <2>3 DEF CallsInOrder
    <3> QED
      BY <3>1, <3>2, <2>3, <1>a
  <2> QED
    BY <2>1, <2>2, <2>3
<1>2. AsksCounted'
  BY DEF AsksCounted
<1>3. \A i \in DOMAIN queue : queue[i] \in Calls
  BY DEF TypeOK
<1>4. \A w \in Workers : Busy(w) => worker[w].call \in Calls
  BY DEF TypeOK, WorkerType, Busy
<1>5. ASSUME NEW c \in Calls, call[c] \in {"queued", "running", "dropped"}
      PROVE  call'[c] = call[c] \/ (call'[c] = "dropped" /\ call[c] = "queued")
  <2>1. CASE c # Current(s)
    BY <2>1
  <2>2. CASE c = Current(s)
    <3>1. turn[s].asks >= 1
      BY <2>2, <1>a DEF Calls, Current
    <3>2. call[c] \notin AllOutcomes /\ call[c] # "done"
      BY <1>5, OutcomeNames
    <3> QED
      BY <1>a, <3>1, <3>2, <2>2
  <2> QED
    BY <2>1, <2>2
<1>6. InPool'
  BY <1>3, <1>4, <1>5 DEF InPool, Busy
<1>7. NoCallTwice'
  BY DEF NoCallTwice, Busy
<1> QED
  BY <1>1, <1>2, <1>6, <1>7

LEMMA ResumeInv ==
  ASSUME BridgeInv, NEW s \in Sessions, Resume(s)
  PROVE  BridgeInv'
<1> USE BridgeAssumption DEF BridgeInv, Resume
<1>1. turn[s].asks \in 1..MaxAsks /\ Current(s) \in Calls
  BY DEF TypeOK, TurnType, AsksCounted, Current, Calls
<1>2. turn' \in [Sessions -> TurnType]
  BY DEF TypeOK, TurnType
<1>3. call' \in [Calls -> {"none", "queued", "running", "done", "dropped"} \cup AllOutcomes]
  BY <1>1 DEF TypeOK
<1>4. heard' \in Codes
  BY CodeIsCode DEF Codes
<1>5. TypeOK'
  BY <1>2, <1>3, <1>4 DEF TypeOK
<1>6. /\ turn'[s].asks = turn[s].asks /\ turn'[s].pc = "idle"
      /\ \A r \in Sessions \ {s} : turn'[r] = turn[r]
  BY DEF TypeOK
<1>7. call'[Current(s)] = "done" /\ \A c \in Calls : c # Current(s) => call'[c] = call[c]
  BY <1>1 DEF TypeOK
<1> QED
  BY <1>5, <1>6, <1>7, TurnChanges

LEMMA CancelInv ==
  ASSUME BridgeInv, NEW s \in Sessions, Cancel(s)
  PROVE  BridgeInv'
<1> USE BridgeAssumption DEF BridgeInv, Cancel
<1>1. TypeOK'
  BY DEF TypeOK, TurnType
<1>2. /\ turn'[s].asks = turn[s].asks /\ turn'[s].pc = "asking"
      /\ \A r \in Sessions \ {s} : turn'[r] = turn[r]
  BY DEF TypeOK
<1> QED
  BY <1>1, <1>2, TurnChanges

LEMMA LeaveInv ==
  ASSUME BridgeInv, NEW s \in Sessions, Leave(s)
  PROVE  BridgeInv'
<1> USE BridgeAssumption DEF BridgeInv, Leave
<1>1. TypeOK'
  BY DEF TypeOK, TurnType
<1>2. /\ turn'[s].asks = turn[s].asks
      /\ turn'[s].pc = IF turn[s].pc = "asking" THEN "leaving" ELSE "left"
      /\ \A r \in Sessions \ {s} : turn'[r] = turn[r]
  BY DEF TypeOK, TurnType
<1>3. turn'[s].pc = "left" => turn[s].pc = "idle"
  BY <1>2
<1>4. turn[s].asks >= 1 /\ turn[s].pc = "idle" => call[Current(s)] = "done"
  BY DEF TypeOK, TurnType, CallsInOrder, Current
<1>5. /\ turn'[s].pc \in {"asking", "leaving"} => turn[s].pc = "asking" /\ call' = call
      /\ turn'[s].pc # "idle"
  BY <1>2
<1>6. turn[s].asks >= 1 /\ turn'[s].pc = "left" =>
        call'[Current(s)] = call[Current(s)] /\ call[Current(s)] = "done"
  BY <1>3, <1>4
<1>7. /\ UNCHANGED <<queue, worker>>
      /\ \A c \in Calls : c # Current(s) => call'[c] = call[c]
  OBVIOUS
<1> QED
  BY <1>1, <1>2, <1>5, <1>6, <1>7, TurnChanges

LEMMA ReleaseInv ==
  ASSUME BridgeInv, NEW s \in Sessions, Release(s)
  PROVE  BridgeInv'
<1> USE BridgeAssumption DEF BridgeInv, Release
<1>1. /\ turn[s].asks \in 1..MaxAsks /\ Current(s) \in Calls
      /\ call[Current(s)] \in {"queued", "running"} \cup AllOutcomes
  BY DEF TypeOK, TurnType, AsksCounted, CallsInOrder, Current, Calls
<1>2. turn' \in [Sessions -> TurnType]
  BY DEF TypeOK, TurnType
<1>3. call' \in [Calls -> {"none", "queued", "running", "done", "dropped"} \cup AllOutcomes]
  BY <1>1 DEF TypeOK
<1>4. TypeOK'
  BY <1>2, <1>3 DEF TypeOK
<1>5. /\ turn'[s].asks = turn[s].asks /\ turn'[s].pc = "left"
      /\ \A r \in Sessions \ {s} : turn'[r] = turn[r]
  BY DEF TypeOK, TurnType
<1>6. \A c \in Calls : c # Current(s) => call'[c] = call[c]
  BY <1>1 DEF TypeOK
<1>7. \/ call'[Current(s)] = "dropped" /\ call[Current(s)] = "queued"
      \/ /\ call'[Current(s)] = call[Current(s)]
         /\ call[Current(s)] \in {"done", "running"} \cup AllOutcomes
  BY <1>1 DEF TypeOK
<1> QED
  BY <1>4, <1>5, <1>6, <1>7, TurnChanges

\* A call that is queued, running or dropped is the current one of its session: a
\* change of its future from "queued" to "running", or from "running" to an outcome
\* keeps the calls in order.
LEMMA CallAdvances ==
  ASSUME BridgeInv, UNCHANGED turn, NEW c \in Calls,
         \A d \in Calls : d # c => call'[d] = call[d],
         \/ call'[c] = call[c]
         \/ call[c] \in {"queued", "running"} /\ call'[c] \in {"running"} \cup AllOutcomes
  PROVE  CallsInOrder'
<1> USE BridgeAssumption DEF BridgeInv
<1> SUFFICES ASSUME NEW s \in Sessions, NEW n \in 1..MaxAsks
             PROVE  /\ n > turn'[s].asks => call'[<<s, n>>] = "none"
                    /\ n < turn'[s].asks => call'[<<s, n>>] = "done"
                    /\ n = turn'[s].asks =>
                         /\ turn'[s].pc \in {"asking", "leaving"} =>
                              call'[<<s, n>>] \in {"queued", "running"} \cup AllOutcomes
                         /\ turn'[s].pc = "idle" => call'[<<s, n>>] = "done"
                         /\ turn'[s].pc = "left" =>
                              call'[<<s, n>>] \in {"done", "dropped", "running"} \cup AllOutcomes
  BY DEF CallsInOrder
<1>1. <<s, n>> \in Calls
  BY DEF Calls
<1>2. CASE call'[<<s, n>>] = call[<<s, n>>]
  BY <1>2 DEF CallsInOrder
<1>3. CASE /\ call[<<s, n>>] \in {"queued", "running"}
           /\ call'[<<s, n>>] \in {"running"} \cup AllOutcomes
  <2>1. turn[s].pc \in {"idle", "asking", "leaving", "left"} /\ turn[s].asks \in 0..MaxAsks
    BY DEF TypeOK, TurnType
  <2>2. n = turn[s].asks /\ turn[s].pc # "idle"
    BY <1>3, <2>1 DEF CallsInOrder
  <2> QED
    BY <1>3, <2>2
<1> QED
  BY <1>1, <1>2, <1>3

WorkerRecord == [call : Calls, phase : DOMAIN Outcomes, quiet : Nat]

LEMMA BusyWorker ==
  ASSUME TypeOK
  PROVE  \A w \in Workers : Busy(w) <=> worker[w] \in WorkerRecord
BY FreeIsFree DEF TypeOK, WorkerType, WorkerRecord, Busy

LEMMA PhaseNames == DOMAIN Outcomes = {"connect", "await", "read"}
BY DEF Outcomes

LEMMA PostingWorker == \A c \in Calls : Posting(c) \in WorkerRecord /\ Posting(c).call = c
<1>1. "connect" \in DOMAIN Outcomes
  BY PhaseNames
<1> QED
  BY <1>1 DEF Posting, WorkerRecord

LEMMA TakeInv ==
  ASSUME BridgeInv, NEW w \in Workers, Take(w)
  PROVE  BridgeInv'
<1> USE BridgeAssumption DEF BridgeInv, Take
<1> DEFINE c == Head(queue)
           started == Posting(c)
<1>1. /\ queue' \in Seq(Calls) /\ c \in Calls
      /\ DOMAIN queue = 1..Len(queue) /\ Len(queue) \in Nat /\ 1 \in DOMAIN queue /\ queue[1] = c
      /\ DOMAIN queue' = 1..(Len(queue) - 1)
      /\ \A i \in DOMAIN queue' : i + 1 \in DOMAIN queue /\ queue'[i] = queue[i + 1]
  BY QueueTail DEF TypeOK
<1>2. \A i \in DOMAIN queue' : queue'[i] # c /\ queue'[i] \in Calls
  <2> SUFFICES ASSUME NEW i \in DOMAIN queue' PROVE queue'[i] # c /\ queue'[i] \in Calls
    OBVIOUS
  <2>1. i + 1 # 1 /\ i + 1 \in DOMAIN queue /\ queue'[i] = queue[i + 1]
    BY <1>1
  <2> QED
    BY <2>1, <1>1 DEF NoCallTwice, TypeOK
<1>3. \A i, j \in DOMAIN queue' : queue'[i] = queue'[j] => i = j
  <2> SUFFICES ASSUME NEW i \in DOMAIN queue', NEW j \in DOMAIN queue', queue'[i] = queue'[j]
               PROVE  i = j
    OBVIOUS
  <2>1. i + 1 = j + 1
    BY <1>1 DEF NoCallTwice
  <2> QED
    BY <2>1, <1>1
<1>4. CASE call[c] = "dropped"
  <2>1. TypeOK' /\ CallsInOrder' /\ AsksCounted'
    BY <1>4, <1>1 DEF TypeOK, CallsInOrder, AsksCounted
  <2>2. InPool'
    BY <1>4, <1>1 DEF InPool, Busy
  <2>3. \A i \in DOMAIN queue', v \in Workers : Busy(v)' => queue'[i] # worker'[v].call
    BY <1>4, <1>1 DEF NoCallTwice, Busy
  <2>4. NoCallTwice'
    BY <1>4, <1>3, <2>3 DEF NoCallTwice, Busy
  <2> QED
    BY <2>1, <2>2, <2>4
<1>5. CASE call[c] # "dropped"
  <2>1. call[c] = "queued"
    BY <1>5, <1>1 DEF InPool
  <2>2. /\ call' \in [Calls -> {"none", "queued", "running", "done", "dropped"} \cup AllOutcomes]
        /\ call'[c] = "running" /\ \A d \in Calls : d # c => call'[d] = call[d]
    BY <1>5, <1>1 DEF TypeOK
  <2>4. started \in WorkerRecord /\ started.call = c
    BY <1>1, PostingWorker
  <2>5. worker' = [worker EXCEPT ![w] = started]
    BY <1>5
  <2> HIDE DEF started
  <2>6. worker' \in [Workers -> WorkerType]
    BY <2>4, <2>5 DEF TypeOK, WorkerType, WorkerRecord
  <2>7. TypeOK'
    BY <1>1, <2>2, <2>6 DEF TypeOK
  <2>8. CallsInOrder' /\ AsksCounted'
    BY <1>1, <2>1, <2>2, CallAdvances DEF AsksCounted
  <2>9. worker'[w].call = c /\ \A v \in Workers \ {w} : worker'[v] = worker[v]
    BY <2>4, <2>5 DEF TypeOK
  <2>10. \A v \in Workers : Busy(v) => worker[v].call \in Calls /\ worker[v].call # c
    BY <1>1, BusyWorker DEF NoCallTwice, WorkerRecord
  <2>11. InPool'
    <3>1. \A i \in DOMAIN queue' : call'[queue'[i]] \in {"queued", "dropped"}
      BY <1>1, <1>2, <2>2 DEF InPool
    <3>2. \A v \in Workers : Busy(v)' => call'[worker'[v].call] = "running"
      BY <2>2, <2>9, <2>10 DEF InPool, Busy
    <3> QED
      BY <3>1, <3>2 DEF InPool
  <2>12. NoCallTwice'
    <3>1. \A u, v \in Workers : Busy(u)' /\ Busy(v)' /\ worker'[u].call = worker'[v].call => u = v
      BY <2>9, <2>10 DEF NoCallTwice, Busy
    <3>2. \A i \in DOMAIN queue', v \in Workers : Busy(v)' => queue'[i] # worker'[v].call
      BY <1>1, <1>2, <2>9 DEF NoCallTwice, Busy
    <3> QED
      BY <1>3, <3>1, <3>2 DEF NoCallTwice
  <2> QED
    BY <2>7, <2>8, <2>11, <2>12
<1> QED
  BY <1>4, <1>5

\* The workers go on with the calls they have.
LEMMA SameCalls ==
  ASSUME BridgeInv, UNCHANGED <<turn, call, queue>>, heard' = None,
         worker' \in [Workers -> WorkerType],
         \A w \in Workers : (Busy(w)' => Busy(w)) /\ (Busy(w) => worker'[w].call = worker[w].call)
  PROVE  BridgeInv'
<1> USE BridgeAssumption DEF BridgeInv
<1>1. TypeOK' /\ CallsInOrder' /\ AsksCounted'
  BY DEF TypeOK, CallsInOrder, AsksCounted
<1>2. InPool'
  BY DEF InPool
<1>3. NoCallTwice'
  BY DEF NoCallTwice
<1> QED
  BY <1>1, <1>2, <1>3

LEMMA ProgressKeepsCall ==
  ASSUME BridgeInv, NEW w \in Workers, Progress(w)
  PROVE  /\ Busy(w) /\ worker' \in [Workers -> WorkerType]
         /\ worker'[w].call = worker[w].call
         /\ \A v \in Workers \ {w} : worker'[v] = worker[v]
<1> USE BridgeAssumption DEF BridgeInv, Progress
<1>1. PICK phase \in Follows[worker[w].phase] :
        worker' = [worker EXCEPT ![w].phase = phase, ![w].quiet = 0]
  OBVIOUS
<1>2. Busy(w) /\ worker[w] \in WorkerRecord
  BY BusyWorker
<1>3. phase \in DOMAIN Outcomes
  <2>1. worker[w].phase \in {"connect", "await", "read"}
    BY <1>2, PhaseNames DEF WorkerRecord
  <2> QED
    BY <1>1, <2>1, PhaseNames DEF Follows
<1>4. /\ worker'[w] = [call |-> worker[w].call, phase |-> phase, quiet |-> 0]
      /\ \A v \in Workers \ {w} : worker'[v] = worker[v]
  BY <1>1, <1>2 DEF TypeOK, WorkerRecord
<1>5. worker'[w] \in WorkerRecord /\ worker'[w].call = worker[w].call
  BY <1>2, <1>3, <1>4 DEF WorkerRecord
<1>6. worker' \in [Workers -> WorkerType]
  BY <1>1, <1>4, <1>5 DEF TypeOK, WorkerType, WorkerRecord
<1> QED
  BY <1>2, <1>4, <1>5, <1>6

LEMMA ProgressInv ==
  ASSUME BridgeInv, NEW w \in Workers, Progress(w)
  PROVE  BridgeInv'
<1>1. \A v \in Workers : (Busy(v)' => Busy(v)) /\ (Busy(v) => worker'[v].call = worker[v].call)
  BY ProgressKeepsCall DEF Busy
<1> QED
  BY <1>1, ProgressKeepsCall, SameCalls DEF Progress

LEMMA TickKeepsCalls ==
  ASSUME BridgeInv, Tick
  PROVE  /\ worker' \in [Workers -> WorkerType]
         /\ \A w \in Workers : /\ Busy(w) => Busy(w)' /\ worker'[w].call = worker[w].call
                               /\ ~Busy(w) => worker'[w] = Free
<1>1. ASSUME NEW w \in Workers, Busy(w)
      PROVE  worker'[w] \in WorkerRecord /\ worker'[w].call = worker[w].call
  <2>1. worker[w] \in WorkerRecord
    BY <1>1, BusyWorker DEF BridgeInv
  <2>2. worker'[w] = [call |-> worker[w].call, phase |-> worker[w].phase,
                      quiet |-> worker[w].quiet + 1]
    <3>1. worker'[w] = [worker[w] EXCEPT !.quiet = @ + 1]
      BY <1>1 DEF Tick
    <3> QED
      BY <3>1, <2>1 DEF WorkerRecord
  <2> QED
    BY <2>1, <2>2 DEF WorkerRecord
<1>2. \A w \in Workers : ~Busy(w) => worker'[w] = Free
  BY DEF Tick
<1>3. worker' \in [Workers -> WorkerType]
  BY <1>1, <1>2 DEF WorkerType, WorkerRecord, Tick
<1>4. \A w \in Workers : Busy(w) => Busy(w)'
  BY <1>1, FreeIsFree DEF Busy, WorkerRecord
<1> QED
  BY <1>1, <1>2, <1>3, <1>4

LEMMA TickInv ==
  ASSUME BridgeInv, Tick
  PROVE  BridgeInv'
BY TickKeepsCalls, SameCalls DEF Tick, Busy

LEMMA CompleteInv ==
  ASSUME BridgeInv, NEW w \in Workers, Busy(w), NEW outcome \in AllOutcomes, Complete(w, outcome)
  PROVE  BridgeInv'
<1> USE BridgeAssumption DEF BridgeInv, Complete
<1> DEFINE c == worker[w].call
<1>1. c \in Calls /\ call[c] = "running"
  BY BusyWorker DEF WorkerRecord, InPool
<1>2. /\ call' \in [Calls -> {"none", "queued", "running", "done", "dropped"} \cup AllOutcomes]
      /\ call'[c] = outcome
      /\ \A d \in Calls : d # c => call'[d] = call[d]
  BY <1>1 DEF TypeOK
<1>3. worker' \in [Workers -> WorkerType] /\ \A v \in Workers : Busy(v)' => v # w /\ worker'[v] = worker[v]
  BY DEF TypeOK, WorkerType, Busy
<1>4. TypeOK'
  BY <1>2, <1>3 DEF TypeOK
<1>5. CallsInOrder' /\ AsksCounted'
  BY <1>1, <1>2, CallAdvances DEF AsksCounted
<1>6. \A v \in Workers : Busy(v)' => Busy(v) /\ worker[v].call \in Calls /\ worker[v].call # c
  BY <1>3, BusyWorker DEF NoCallTwice, Busy, WorkerRecord
<1>7. \A i \in DOMAIN queue : queue[i] \in Calls /\ queue[i] # c
  BY DEF NoCallTwice, TypeOK
<1>8. InPool'
  <2>1. \A i \in DOMAIN queue' : call'[queue'[i]] \in {"queued", "dropped"}
    BY <1>2, <1>7 DEF InPool
  <2>2. \A v \in Workers : Busy(v)' => call'[worker'[v].call] = "running"
    BY <1>2, <1>3, <1>6 DEF InPool
  <2> QED
    BY <2>1, <2>2 DEF InPool
<1>9. NoCallTwice'
  BY <1>3, <1>6 DEF NoCallTwice
<1> QED
  BY <1>4, <1>5, <1>8, <1>9

LEMMA CompletesWithOutcome ==
  ASSUME BridgeInv, NEW w \in Workers, Finish(w) \/ TimesOut(w)
  PROVE  Busy(w) /\ \E outcome \in AllOutcomes : Complete(w, outcome)
<1>1. Busy(w) /\ worker[w].phase \in DOMAIN Outcomes
  BY BusyWorker DEF Finish, TimesOut, Expired, BridgeInv, WorkerRecord
<1> QED
  BY <1>1, OutcomesOfPhase DEF Finish, TimesOut

LEMMA BridgeStepInv == BridgeInv /\ [Next]_vars => BridgeInv'
<1> SUFFICES ASSUME BridgeInv, [Next]_vars PROVE BridgeInv'
  OBVIOUS
<1>1. ASSUME NEW s \in Sessions, Ask(s) \/ Resume(s) \/ Cancel(s) \/ Leave(s) \/ Release(s)
      PROVE  BridgeInv'
  BY <1>1, AskInv, ResumeInv, CancelInv, LeaveInv, ReleaseInv
<1>2. ASSUME NEW w \in Workers, Take(w) \/ Progress(w)
      PROVE  BridgeInv'
  BY <1>2, TakeInv, ProgressInv
<1>3. ASSUME NEW w \in Workers, Finish(w) \/ TimesOut(w)
      PROVE  BridgeInv'
  BY <1>3, CompletesWithOutcome, CompleteInv
<1>4. CASE Tick
  BY <1>4, TickInv
<1>5. CASE UNCHANGED vars
  BY <1>5 DEF vars, BridgeInv, TypeOK, CallsInOrder, AsksCounted, InPool, NoCallTwice, Busy
<1> QED
  BY <1>1, <1>2, <1>3, <1>4, <1>5 DEF Next

LEMMA BridgeInvariant == Spec => []BridgeInv
BY InitBridge, BridgeStepInv, PTL DEF Spec
-----------------------------------------------------------------------------
\* Turns, futures, queue and workers keep their types: no action leads to an ask beyond
\* the bound, to an outcome nobody maps, or to a worker between two phases.
THEOREM BridgeTypeCorrect == Spec => []TypeOK
BY BridgeInvariant, PTL DEF BridgeInv

\* A call in the pool is the latest of its session.
LEMMA PoolHasLatest ==
  ASSUME BridgeInv, NEW c \in Calls, call[c] \in {"queued", "running", "dropped"}
  PROVE  c = <<c[1], turn[c[1]].asks>> /\ c[1] \in Sessions
<1>1. PICK s \in Sessions, n \in 1..MaxAsks : c = <<s, n>>
  BY DEF Calls
<1>2. turn[s].asks \in 0..MaxAsks
  BY DEF BridgeInv, TypeOK, TurnType
<1>3. n = turn[s].asks
  BY <1>1, <1>2, BridgeAssumption DEF BridgeInv, CallsInOrder
<1> QED
  BY <1>1, <1>3

\* A call whose future says that it is queued or runs is in the queue or in a worker.
NoneLost ==
  \A c \in Calls : /\ call[c] = "queued" => InQueue(c)
                   /\ call[c] = "running" => InWorker(c)

LEMMA NoneLostStep ==
  ASSUME BridgeInv, BridgeInv', NoneLost, [Next]_vars
  PROVE  NoneLost'
<1> USE DEF BridgeInv
<1>1. ASSUME UNCHANGED <<queue, worker>>,
             \A c \in Calls : call'[c] \in {"queued", "running"} => call'[c] = call[c]
      PROVE  NoneLost'
  BY <1>1 DEF NoneLost, InQueue, InWorker, Busy
<1>2. ASSUME UNCHANGED <<call, queue>>,
             \A w \in Workers : Busy(w) => Busy(w)' /\ worker'[w].call = worker[w].call
      PROVE  NoneLost'
  BY <1>2 DEF NoneLost, InQueue, InWorker
<1>3. ASSUME NEW s \in Sessions, Ask(s) PROVE NoneLost'
  <2>0. PICK new \in Calls : new = <<s, turn[s].asks + 1>>
    BY <1>3, BridgeAssumption DEF Ask, TypeOK, TurnType, Calls
  <2>1. /\ queue \in Seq(Calls)
        /\ queue' = Append(queue, new) /\ UNCHANGED worker
        /\ \A c \in Calls \ {new} : call'[c] = call[c]
        /\ call'[new] = "queued"
    BY <1>3, <2>0 DEF Ask, TypeOK
  <2>2. InQueue(new)' /\ \A c \in Calls : InQueue(c) => InQueue(c)'
    BY <2>1, QueueAppend DEF InQueue
  <2> QED
    BY <2>1, <2>2 DEF NoneLost, InWorker, Busy
<1>4. ASSUME NEW s \in Sessions, Resume(s) PROVE NoneLost'
  <2>1. Current(s) \in Calls
    BY <1>4, BridgeAssumption DEF Resume, TypeOK, TurnType, AsksCounted, Current, Calls
  <2>2. call'[Current(s)] = "done" /\ \A c \in Calls : c # Current(s) => call'[c] = call[c]
    BY <1>4, <2>1 DEF Resume, TypeOK
  <2> QED
    BY <1>1, <1>4, <2>2 DEF Resume
<1>5. ASSUME NEW s \in Sessions, Cancel(s) \/ Leave(s) PROVE NoneLost'
  BY <1>1, <1>5 DEF Cancel, Leave
<1>6. ASSUME NEW s \in Sessions, Release(s) PROVE NoneLost'
  <2>1. \A c \in Calls : call'[c] = call[c] \/ call'[c] = "dropped"
    BY <1>6 DEF Release, TypeOK
  <2> QED
    BY <1>1, <1>6, <2>1 DEF Release
<1>7. ASSUME NEW w \in Workers, Take(w) PROVE NoneLost'
  <2>0. PICK head \in Calls : head = Head(queue)
    BY <1>7, QueueTail DEF Take, TypeOK
  <2>1. /\ head \in Calls /\ queue[1] = head /\ DOMAIN queue = 1..Len(queue) /\ Len(queue) \in Nat
        /\ DOMAIN queue' = 1..(Len(queue) - 1)
        /\ \A i \in DOMAIN queue' : queue'[i] = queue[i + 1]
    BY <1>7, <2>0, QueueTail DEF Take, TypeOK
  <2>2. \A c \in Calls : InQueue(c) /\ c # head => InQueue(c)'
    <3> SUFFICES ASSUME NEW c \in Calls, NEW i \in DOMAIN queue, queue[i] = c, c # head
                 PROVE  \E k \in DOMAIN queue' : queue'[k] = c
      BY DEF InQueue
    <3>1. i \in Int /\ i # 1 /\ i - 1 \in DOMAIN queue' /\ (i - 1) + 1 = i
      BY <2>1
    <3>2. queue'[i - 1] = c
      BY <2>1, <3>1
    <3> QED
      BY <3>1, <3>2
  <2>3. CASE call[head] = "dropped"
    <3>1. UNCHANGED <<call, worker>>
      BY <1>7, <2>0, <2>3 DEF Take
    <3> QED
      BY <2>2, <2>3, <3>1 DEF NoneLost, InWorker, Busy
  <2>4. CASE call[head] # "dropped"
    <3>1. /\ call'[head] = "running" /\ \A c \in Calls : c # head => call'[c] = call[c]
          /\ worker'[w] = Posting(head) /\ \A v \in Workers \ {w} : worker'[v] = worker[v]
          /\ ~Busy(w)
      BY <1>7, <2>0, <2>1, <2>4 DEF Take, TypeOK
    <3>2. InWorker(head)'
      <4>1. Posting(head) # Free /\ Posting(head).call = head
        BY <2>1, PostingWorker, FreeIsFree DEF WorkerRecord
      <4> QED
        BY <3>1, <4>1 DEF InWorker, Busy
    <3>3. \A c \in Calls : InWorker(c) => InWorker(c)'
      BY <3>1 DEF InWorker, Busy
    <3> QED
      BY <2>2, <3>1, <3>2, <3>3 DEF NoneLost
  <2> QED
    BY <2>3, <2>4
<1>8. ASSUME NEW w \in Workers, Progress(w) PROVE NoneLost'
  <2>1. worker'[w] \in WorkerType /\ Busy(w)'
    <3>1. \E c \in Calls : worker'[w].phase \in {"connect", "await", "read"}
      <4>1. worker[w] \in WorkerRecord
        BY <1>8, ProgressKeepsCall, BusyWorker
      <4>2. worker[w].phase \in {"connect", "await", "read"} /\ worker[w].call \in Calls
        BY <4>1, PhaseNames DEF WorkerRecord
      <4>3. PICK phase \in Follows[worker[w].phase] :
              worker' = [worker EXCEPT ![w].phase = phase, ![w].quiet = 0]
        BY <1>8 DEF Progress
      <4>4. worker'[w].phase = phase
        BY <4>1, <4>3 DEF TypeOK, WorkerRecord
      <4> QED
        BY <4>2, <4>3, <4>4 DEF Follows
    <3>2. worker'[w] # Free
      BY <3>1 DEF Free
    <3> QED
      BY <1>8, <3>2, ProgressKeepsCall DEF Busy
  <2> QED
    BY <1>2, <1>8, <2>1, ProgressKeepsCall DEF Progress, Busy
<1>9. ASSUME NEW w \in Workers, Busy(w), NEW outcome \in AllOutcomes, Complete(w, outcome)
      PROVE  NoneLost'
  <2> DEFINE c == worker[w].call
  <2>1. c \in Calls
    BY <1>9, BusyWorker DEF WorkerRecord
  <2>2. /\ call'[c] = outcome /\ \A d \in Calls : d # c => call'[d] = call[d]
        /\ \A v \in Workers : v # w => worker'[v] = worker[v]
        /\ UNCHANGED queue
    BY <1>9, <2>1 DEF Complete, TypeOK
  <2>3. outcome \notin {"queued", "running"}
    BY <1>9, OutcomeNames
  <2>4. ASSUME NEW d \in Calls, d # c PROVE InWorker(d) => InWorker(d)'
    BY <2>2, <2>4 DEF InWorker, Busy
  <2> HIDE DEF c
  <2> QED
    BY <2>2, <2>3, <2>4 DEF NoneLost, InQueue
<1>10. CASE Tick
  BY <1>2, <1>10, TickKeepsCalls DEF Tick
<1>11. CASE UNCHANGED vars
  BY <1>1, <1>11 DEF vars
<1>12. ASSUME NEW w \in Workers, Finish(w) \/ TimesOut(w) PROVE NoneLost'
  BY <1>9, <1>12, CompletesWithOutcome
<1> QED
  BY <1>3, <1>4, <1>5, <1>6, <1>7, <1>8, <1>10, <1>11, <1>12 DEF Next

\* Futures, queue and workers agree: what completes a call finds its future as the
\* event loop left it, no turn waits for a future that nothing will set, and no call of
\* a client that is gone stays queued.
THEOREM PoolIsConsistent == Spec => []PoolConsistent
<1>1. ASSUME BridgeInv, NoneLost PROVE PoolConsistent
  <2>1. ASSUME NEW s \in Sessions, turn[s].pc = "asking"
        PROVE  \/ call[Current(s)] = "queued" /\ InQueue(Current(s))
               \/ call[Current(s)] = "running" /\ InWorker(Current(s))
               \/ call[Current(s)] \in AllOutcomes
    <3>1. turn[s].asks \in 1..MaxAsks /\ Current(s) \in Calls
      BY <1>1, <2>1, BridgeAssumption DEF BridgeInv, TypeOK, TurnType, AsksCounted, Current, Calls
    <3>2. call[Current(s)] \in {"queued", "running"} \cup AllOutcomes
      BY <1>1, <2>1, <3>1 DEF BridgeInv, CallsInOrder, Current
    <3> QED
      BY <1>1, <3>1, <3>2 DEF NoneLost
  <2>2. ASSUME NEW s \in Sessions, turn[s].pc = "left", NEW n \in 1..MaxAsks
        PROVE  call[<<s, n>>] # "queued"
    <3>1. turn[s].asks \in 0..MaxAsks
      BY <1>1 DEF BridgeInv, TypeOK, TurnType
    <3>2. call[<<s, n>>] \in {"none", "done", "dropped", "running"} \cup AllOutcomes
      BY <1>1, <2>2, <3>1, BridgeAssumption DEF BridgeInv, CallsInOrder
    <3> QED
      BY <3>2, OutcomeNames
  <2> QED
    BY <1>1, <2>1, <2>2 DEF PoolConsistent, BridgeInv, InPool
<1>2. Init => NoneLost
  BY DEF Init, NoneLost
<1> QED
  BY <1>1, <1>2, NoneLostStep, BridgeInvariant, PTL DEF Spec

\* The pool never holds two requests of one session, however often its turns are
\* cancelled: the gateway hears a conversation in order.
THEOREM OneRequest == Spec => []OneRequestPerSession
<1>1. ASSUME BridgeInv PROVE OneRequestPerSession
  <2>1. \A i \in DOMAIN queue : queue[i] \in Calls /\ call[queue[i]] \in {"queued", "running", "dropped"}
    BY <1>1 DEF BridgeInv, TypeOK, InPool
  <2>2. \A w \in Workers : Busy(w) => worker[w].call \in Calls /\ call[worker[w].call] = "running"
    BY <1>1, BusyWorker DEF BridgeInv, InPool, WorkerRecord
  <2>3. \A c, d \in Calls :
          /\ call[c] \in {"queued", "running", "dropped"} /\ call[d] \in {"queued", "running", "dropped"}
          /\ Same(c, d)
          => c = d
    BY <1>1, PoolHasLatest DEF Same
  <2> QED
    BY <1>1, <2>1, <2>2, <2>3 DEF OneRequestPerSession, BridgeInv, NoCallTwice
<1> QED
  BY <1>1, BridgeInvariant, PTL
-----------------------------------------------------------------------------
\* A worker that starts a request does so for a turn that waits for it, or whose client
\* left so lately that the pool has not been told.
THEOREM NoRequestForTheGone == Spec => NothingSentForTheGone
<1>1. ASSUME BridgeInv, [Next]_vars, NEW w \in Workers, ~Busy(w), worker'[w] # Free
      PROVE  turn[worker'[w].call[1]].pc \in {"asking", "leaving"}
  <2>1. Take(w) /\ call[Head(queue)] # "dropped"
    <3>1. ASSUME NEW s \in Sessions, Ask(s) \/ Resume(s) \/ Cancel(s) \/ Leave(s) \/ Release(s)
          PROVE  worker'[w] = worker[w]
      BY <3>1 DEF Ask, Resume, Cancel, Leave, Release
    <3>2. ASSUME NEW v \in Workers, Take(v)
          PROVE  worker'[w] = worker[w] \/ (v = w /\ call[Head(queue)] # "dropped")
      BY <1>1, <3>2 DEF Take, BridgeInv, TypeOK
    <3>3. ASSUME NEW v \in Workers, Progress(v)
          PROVE  worker'[w] = worker[w]
      BY <1>1, <3>3, ProgressKeepsCall
    <3>4. ASSUME NEW v \in Workers, NEW outcome, Complete(v, outcome)
          PROVE  worker'[w] = worker[w] \/ worker'[w] = Free
      BY <1>1, <3>4 DEF Complete, BridgeInv, TypeOK
    <3>5. ASSUME Tick PROVE worker'[w] = Free
      BY <1>1, <3>5, TickKeepsCalls
    <3> QED
      BY <1>1, <3>1, <3>2, <3>3, <3>4, <3>5 DEF Next, vars, Finish, TimesOut, Busy
  <2> DEFINE c == Head(queue)
  <2>2. c \in Calls /\ 1 \in DOMAIN queue /\ queue[1] = c
    BY <1>1, <2>1, QueueTail DEF Take, BridgeInv, TypeOK
  <2>3. call[c] = "queued"
    BY <1>1, <2>1, <2>2 DEF BridgeInv, InPool
  <2>4. worker'[w] = Posting(c)
    BY <1>1, <2>1 DEF Take, BridgeInv, TypeOK
  <2>5. worker'[w].call = c
    BY <2>2, <2>4, PostingWorker
  <2>6. c[1] \in Sessions /\ c = <<c[1], turn[c[1]].asks>>
    BY <1>1, <2>2, <2>3, PoolHasLatest
  <2>7. turn[c[1]].asks \in 1..MaxAsks /\ turn[c[1]].pc \in {"idle", "asking", "leaving", "left"}
    BY <1>1, <2>2, <2>6 DEF BridgeInv, TypeOK, TurnType, Calls
  <2> HIDE DEF c
  <2>8. turn[c[1]].pc \in {"asking", "leaving"}
    BY <1>1, <2>3, <2>6, <2>7, OutcomeNames DEF BridgeInv, CallsInOrder
  <2> QED
    BY <2>5, <2>8
<1>2. BridgeInv /\ [Next]_vars =>
        [\A w \in Workers : ~Busy(w) /\ worker'[w] # Free
           => turn[worker'[w].call[1]].pc \in {"asking", "leaving"}]_vars
  BY <1>1
<1> QED
  BY <1>2, BridgeInvariant, PTL DEF Spec, NothingSentForTheGone

\* A turn is told TIMEOUT exactly if its gateway fell silent, in whichever phase.
THEOREM TimeoutMeansSilence == Spec => SilenceIsTimeout
<1>1. ASSUME BridgeInv, [Next]_vars, NEW s \in Sessions, turn[s].pc = "asking", turn'[s].pc = "idle"
      PROVE  heard' = "TIMEOUT" <=> call[Current(s)] \in {Silence[p] : p \in DOMAIN Silence}
  <2>1. Resume(s)
    <3>1. ASSUME NEW r \in Sessions, Ask(r) \/ Cancel(r) \/ Leave(r) \/ Release(r)
          PROVE  turn'[s].pc # "idle"
      BY <1>1, <3>1 DEF Ask, Cancel, Leave, Release, BridgeInv, TypeOK, TurnType
    <3>2. ASSUME NEW r \in Sessions, Resume(r) PROVE r = s
      BY <1>1, <3>2 DEF Resume, BridgeInv, TypeOK
    <3>3. ASSUME UNCHANGED turn PROVE FALSE
      BY <1>1, <3>3
    <3> QED
      BY <1>1, <3>1, <3>2, <3>3 DEF Next, vars, Take, Progress, Finish, TimesOut, Complete, Tick
  <2>2. call[Current(s)] \in AllOutcomes
    BY <2>1 DEF Resume
  <2>3. heard' = "TIMEOUT" <=> Code(call[Current(s)]) = "TIMEOUT"
    BY <2>1 DEF Resume
  <2> QED
    BY <2>2, <2>3, TimeoutIsSilence
<1>2. BridgeInv /\ [Next]_vars =>
        [\A s \in Sessions : turn[s].pc = "asking" /\ turn'[s].pc = "idle" =>
           (heard' = "TIMEOUT" <=> call[Current(s)] \in {Silence[p] : p \in DOMAIN Silence})]_vars
  BY <1>1
<1> QED
  BY <1>2, BridgeInvariant, PTL DEF Spec, SilenceIsTimeout
=============================================================================
