--------------------------- MODULE RedisRateLimiter ---------------------------
(***************************************************************************)
(* rate_limits.RedisRateLimiter: several server processes count what they  *)
(* grant in one Redis.  A request is counted under a key that names its    *)
(* kind, its identity and the bucket of time it was asked in, by a script  *)
(* that Redis runs atomically.                                             *)
(*                                                                         *)
(* The server reads the clock once for each message, and asks twice with   *)
(* that reading if the message carries audio: for the event, then for the  *)
(* bytes.  The client is synchronous: a process that has asked does        *)
(* nothing else, on any of its connections, until the reply is there or a  *)
(* timeout of the socket raises.  A script whose caller has given up may   *)
(* still run.                                                              *)
(*                                                                         *)
(* A process reads its host's time.monotonic(), which counts from an       *)
(* arbitrary moment: Epoch[s] is what the clock of s showed at time 0.     *)
(***************************************************************************)
EXTENDS Integers, FiniteSets, Functions

CONSTANTS Servers, Identities, None,
          window_seconds, event_limit, audio_bytes_limit,
          ChunkSizes,  \* sizes of the audio chunks that are asked for
          Epoch,
          RoundTrip,   \* longest time from sending a request to its reply or failure
          MaxFailures, \* bound: how often Redis fails in one run
          MaxTime      \* bound: the clock of one run

ASSUME RedisAssumption ==
  /\ IsFiniteSet(Servers) /\ Servers # {}
  /\ {window_seconds, event_limit, audio_bytes_limit} \subseteq Nat \ {0}
  /\ ChunkSizes \subseteq Nat \ {0}
  /\ Epoch \in [Servers -> Nat]
  /\ {RoundTrip, MaxFailures, MaxTime} \subseteq Nat
  /\ None \notin Nat

Kinds == {"events", "audio-bytes"}

Times == 0..MaxTime

Limit(kind) == IF kind = "events" THEN event_limit ELSE audio_bytes_limit

Amounts(kind) == IF kind = "events" THEN {1} ELSE ChunkSizes

\* MUTANT of KeyLifetime: a key lives as long as its bucket.
KeyLifetimeOfBucket == window_seconds

\* The `ttl` argument of the script.
KeyLifetime == window_seconds + 1

Bucket(s, time) == (Epoch[s] + time) \div window_seconds

Buckets == UNION {{Bucket(s, t) : t \in Times} : s \in Servers}

\* MUTANT of Key: events and bytes of an identity are counted together.
KeyWithoutKind(kind, identity, bucket) == <<"events", identity, bucket>>

Key(kind, identity, bucket) == <<kind, identity, bucket>>

Keys == {Key(k, i, b) : k \in Kinds, i \in Identities, b \in Buckets}

\* What a process waits for: `received` is the message's reading of the clock, from which
\* the key is computed, and `sent` the time the request was sent to Redis.
Requests ==
  [kind : Kinds, identity : Identities, amount : UNION {Amounts(k) : k \in Kinds},
   bucket : Buckets, key : Keys, received : Times, sent : Times,
   reply : {"none", "granted", "refused"}]

\* A process that waits for nothing has no request.
ASSUME NoneAssumption == None \notin Requests

VARIABLES
  now,        \* the time that Redis and every host's clock advance with
  count,      \* the value of a key, 0 if it does not exist
  expires,    \* when an existing key expires, None if never
  call,       \* what a process has asked and waits for
  abandoned,  \* a request whose process gave up before Redis ran its script
  failures,   \* how often Redis has failed
  charged,    \* history: what was granted, by kind, identity and bucket
  timely      \* history: what was granted at most a second after the message was
              \* received, by kind and identity and time of the message

redisVars == <<count, expires, charged, timely>>
vars == <<now, redisVars, call, abandoned, failures>>

Init ==
  /\ now = 0
  /\ count = [k \in Keys |-> 0]
  /\ expires = [k \in Keys |-> None]
  /\ call = [s \in Servers |-> None]
  /\ abandoned = [s \in Servers |-> None]
  /\ failures = 0
  /\ charged = [slot \in Kinds \X Identities \X Buckets |-> 0]
  /\ timely = [k \in Kinds \X Identities |-> [t \in Times |-> 0]]
-----------------------------------------------------------------------------
\* allow_event or allow_audio_bytes computes the key and sends the script.
Sent(s, kind, identity, amount, received) ==
  LET bucket == Bucket(s, received)
  IN  [kind |-> kind, identity |-> identity, amount |-> amount, bucket |-> bucket,
       key |-> Key(kind, identity, bucket), received |-> received, sent |-> now,
       reply |-> "none"]

\* A message is received: run reads the clock and asks for the event.
Receive(s, identity) ==
  /\ call[s] = None
  /\ call' = [call EXCEPT ![s] = Sent(s, "events", identity, 1, now)]
  /\ UNCHANGED <<now, redisVars, abandoned, failures>>

\* The event is granted and the message is a chunk: handle_audio_in asks for its bytes,
\* with the reading of the clock that run has passed on.
AskAudioBytes(s, chunk) ==
  /\ call[s] # None
  /\ call[s].kind = "events" /\ call[s].reply = "granted"
  /\ call' = [call EXCEPT ![s] =
                 Sent(s, "audio-bytes", call[s].identity, chunk, call[s].received)]
  /\ UNCHANGED <<now, redisVars, abandoned, failures>>

Slot(request) == <<request.kind, request.identity, request.bucket>>

\* The script's comparison, negated: `current + increment > max_limit`.
Fits(request) == count[request.key] + request.amount <= Limit(request.kind)

\* MUTANT of FirstUse: a key is taken for new when its count is one.
FirstUseOfOne(updated, increment) == updated = 1

\* The script's test for a key it has just created.
FirstUse(updated, increment) == updated = increment

\* The script of a request that fits.
Charge(request) ==
  LET updated == count[request.key] + request.amount
  IN
  /\ Fits(request)
  /\ count' = [count EXCEPT ![request.key] = updated]
  /\ expires' = IF FirstUse(updated, request.amount)
                THEN [expires EXCEPT ![request.key] = now + KeyLifetime]
                ELSE expires
  /\ charged' = [charged EXCEPT ![Slot(request)] = @ + request.amount]
  /\ timely' = IF now <= request.received + 1
               THEN [timely EXCEPT ![<<request.kind, request.identity>>][request.received] =
                       @ + request.amount]
               ELSE timely

\* Redis runs the script of a process that waits.
RunScript(s) ==
  /\ call[s] # None
  /\ call[s].reply = "none"
  /\ \/ /\ Charge(call[s])
        /\ call' = [call EXCEPT ![s].reply = "granted"]
     \/ /\ ~Fits(call[s])
        /\ call' = [call EXCEPT ![s].reply = "refused"]
        /\ UNCHANGED redisVars
  /\ UNCHANGED <<now, abandoned, failures>>

\* The reply is there and no further request follows from it.
Return(s) ==
  /\ call[s] # None
  /\ call[s].reply # "none"
  /\ call' = [call EXCEPT ![s] = None]
  /\ UNCHANGED <<now, redisVars, abandoned, failures>>

\* The connection to Redis fails or times out: eval raises, and the reply, if
\* there is one, is lost.  A script on its way may still reach Redis.
Fail(s) ==
  /\ call[s] # None
  /\ failures < MaxFailures
  /\ failures' = failures + 1
  /\ call' = [call EXCEPT ![s] = None]
  /\ \/ UNCHANGED abandoned
     \/ call[s].reply = "none" /\ abandoned' = [abandoned EXCEPT ![s] = call[s]]
  /\ UNCHANGED <<now, redisVars>>

\* Redis runs a script whose caller has given up.
RunAbandoned(s) ==
  /\ abandoned[s] # None
  /\ Charge(abandoned[s]) \/ (~Fits(abandoned[s]) /\ UNCHANGED redisVars)
  /\ abandoned' = [abandoned EXCEPT ![s] = None]
  /\ UNCHANGED <<now, call, failures>>

\* Time passes, and the keys whose time has come expire.
Tick ==
  /\ now < MaxTime
  /\ \A s \in Servers : call[s] # None => now < call[s].sent + RoundTrip
  /\ now' = now + 1
  /\ count' = [k \in Keys |-> IF expires[k] = now + 1 THEN 0 ELSE count[k]]
  /\ expires' = [k \in Keys |-> IF expires[k] = now + 1 THEN None ELSE expires[k]]
  /\ UNCHANGED <<call, abandoned, failures, charged, timely>>

Next ==
  \/ \E s \in Servers, identity \in Identities : Receive(s, identity)
  \/ \E s \in Servers, chunk \in ChunkSizes : AskAudioBytes(s, chunk)
  \/ \E s \in Servers : RunScript(s) \/ Return(s) \/ Fail(s) \/ RunAbandoned(s)
  \/ Tick

Spec == Init /\ [][Next]_vars
-----------------------------------------------------------------------------
TypeOK ==
  /\ now \in Times
  /\ \A k \in Keys : count[k] \in 0..Limit(k[1])
  /\ expires \in [Keys -> Nat \cup {None}]
  /\ call \in [Servers -> Requests \cup {None}]
  /\ abandoned \in [Servers -> Requests \cup {None}]
  /\ failures \in 0..MaxFailures
  /\ charged \in [Kinds \X Identities \X Buckets -> Nat]
  /\ timely \in [Kinds \X Identities -> [Times -> Nat]]

\* docs/deploy-contract.md, "distributed fixed-window limiter with atomic Lua
\* increments": time divides into windows such that for messages received in one of
\* them, an identity is granted no more than the limit, by all servers together; those
\* grants left out that Redis gives more than a second after the message was received,
\* when the key of its bucket may have been forgotten.  The servers are on one host:
\* others number their buckets differently.
FixedWindowLimit ==
  \A kind \in Kinds, identity \in Identities :
    \E phase \in 0..window_seconds - 1 : \A w \in 0..MaxTime :
      LET window == {t \in Times : (t + phase) \div window_seconds = w}
      IN  SumFunctionOnSet(timely[<<kind, identity>>], window) <= Limit(kind)

\* A request is refused only if what was charged to its identity, for requests
\* of its kind and its bucket, leaves no room for it.
RefusalsJustified ==
  \A s \in Servers :
    call[s] # None /\ call[s].reply = "refused" =>
      charged[Slot(call[s])] + call[s].amount > Limit(call[s].kind)

\* Every key that exists has a time to live that no later request extends beyond
\* one lifetime: neither an identity nor an old bucket stays in Redis.
KeysExpire ==
  \A k \in Keys : count[k] > 0 => expires[k] # None /\ expires[k] \in now + 1..now + KeyLifetime
=============================================================================
