----------------------- MODULE RedisRateLimiter_proofs -----------------------
(***************************************************************************)
(* Proofs about RedisRateLimiter, for any servers and clocks of their      *)
(* hosts, any limits, window and chunk sizes, any number of failures and   *)
(* any duration of a request; and of the window limit, for servers whose   *)
(* clocks agree.                                                           *)
(***************************************************************************)
EXTENDS RedisRateLimiter, Sums, TLAPS

\* A request is counted under the key of its own kind, identity and bucket.
WellKeyed ==
  \A s \in Servers : /\ call[s] # None => call[s].key = Slot(call[s])
                     /\ abandoned[s] # None => abandoned[s].key = Slot(abandoned[s])

\* Redis knows of nothing that was not charged: a key that expires only forgets.
CountsAreCharged == count \in [Keys -> Nat] /\ \A k \in Keys : count[k] <= charged[k]

RedisInv == TypeOK /\ WellKeyed /\ CountsAreCharged

LEMMA KeysAreSlots == Keys = Kinds \X Identities \X Buckets
BY DEF Keys, Key

LEMMA AmountsArePositive == \A kind \in Kinds : Amounts(kind) \subseteq Nat \ {0}
BY RedisAssumption DEF Kinds, Amounts

LEMMA LimitsArePositive == \A kind \in Kinds : Limit(kind) \in Nat \ {0}
BY RedisAssumption DEF Kinds, Limit

LEMMA RequestFacts ==
  ASSUME NEW r \in Requests, r.key = Slot(r)
  PROVE  /\ r.kind \in Kinds /\ r.identity \in Identities /\ r.bucket \in Buckets
         /\ r.key \in Keys /\ r.key[1] = r.kind /\ Slot(r) \in Kinds \X Identities \X Buckets
         /\ r.amount \in Nat \ {0} /\ r.received \in Times
<1>1. /\ r.kind \in Kinds /\ r.identity \in Identities /\ r.bucket \in Buckets /\ r.key \in Keys
      /\ r.amount \in UNION {Amounts(k) : k \in Kinds} /\ r.received \in Times
  BY DEF Requests
<1>2. r.amount \in Nat \ {0}
  BY <1>1, AmountsArePositive
<1>3. r.key[1] = r.kind /\ Slot(r) \in Kinds \X Identities \X Buckets
  BY <1>1 DEF Slot
<1> QED
  BY <1>1, <1>2, <1>3

LEMMA LifetimeIsPositive == KeyLifetime \in Nat /\ KeyLifetime >= 2
BY RedisAssumption DEF KeyLifetime

LEMMA InitInv == Init => RedisInv /\ KeysExpire /\ RefusalsJustified
<1> SUFFICES ASSUME Init PROVE RedisInv /\ KeysExpire /\ RefusalsJustified
  OBVIOUS
<1>1. count \in [Keys -> Nat] /\ charged \in [Kinds \X Identities \X Buckets -> Nat]
      /\ \A k \in Keys : count[k] = 0 /\ charged[k] = 0
  BY KeysAreSlots DEF Init
<1>2. \A k \in Keys : k[1] \in Kinds
  BY KeysAreSlots
<1>3. \A k \in Keys : count[k] \in 0..Limit(k[1])
  BY <1>1, <1>2, LimitsArePositive
<1>4. timely \in [Kinds \X Identities -> [Times -> Nat]]
  BY DEF Init
<1>5. TypeOK
  BY <1>1, <1>3, <1>4, RedisAssumption DEF Init, TypeOK, Times
<1> QED
  BY <1>1, <1>5 DEF Init, RedisInv, WellKeyed, CountsAreCharged, KeysExpire, RefusalsJustified
-----------------------------------------------------------------------------
\* What the script leaves of counts, times to live and charges.
RedisStep ==
  /\ count' \in [Keys -> Nat] /\ \A k \in Keys : count'[k] \in 0..Limit(k[1])
  /\ expires' \in [Keys -> Nat \cup {None}]
  /\ charged' \in [Kinds \X Identities \X Buckets -> Nat]
  /\ timely' \in [Kinds \X Identities -> [Times -> Nat]]
  /\ \A k \in Keys : count'[k] <= charged'[k] /\ charged[k] <= charged'[k]
  /\ \A k \in Keys : count'[k] > 0 => expires'[k] # None /\ expires'[k] \in now + 1..now + KeyLifetime

LEMMA NoChange ==
  ASSUME RedisInv, KeysExpire, UNCHANGED redisVars
  PROVE  RedisStep
<1>1. \A k \in Keys : charged[k] \in Nat
  BY KeysAreSlots DEF RedisInv, TypeOK
<1> QED
  BY <1>1 DEF RedisInv, TypeOK, CountsAreCharged, KeysExpire, RedisStep, redisVars

LEMMA TimelyStep ==
  ASSUME TypeOK, NEW r \in Requests, r.key = Slot(r), Charge(r)
  PROVE  timely' \in [Kinds \X Identities -> [Times -> Nat]]
<1>1. timely \in [Kinds \X Identities -> [Times -> Nat]]
  BY DEF TypeOK
<1>2. CASE ~(now <= r.received + 1)
  BY <1>1, <1>2 DEF Charge
<1>3. CASE now <= r.received + 1
  <2> DEFINE row == timely[<<r.kind, r.identity>>]
             more == [row EXCEPT ![r.received] = @ + r.amount]
  <2>1. /\ <<r.kind, r.identity>> \in Kinds \X Identities
        /\ r.received \in Times /\ r.amount \in Nat
    BY RequestFacts
  <2>2. row \in [Times -> Nat]
    BY <1>1, <2>1
  <2>3. timely' = [timely EXCEPT ![<<r.kind, r.identity>>] = more]
    BY <1>3 DEF Charge
  <2>4. more \in [Times -> Nat]
    <3>1. row[r.received] + r.amount \in Nat
      BY <2>1, <2>2
    <3> QED
      BY <2>2, <3>1
  <2> HIDE DEF more
  <2> QED
    BY <1>1, <2>1, <2>3, <2>4
<1> QED
  BY <1>2, <1>3

LEMMA ChargeStep ==
  ASSUME RedisInv, KeysExpire, NEW r \in Requests, r.key = Slot(r), Charge(r)
  PROVE  RedisStep
<1> DEFINE key == r.key
           updated == count[key] + r.amount
<1>1. /\ key \in Keys /\ key[1] = r.kind /\ key = Slot(r) /\ r.kind \in Kinds
      /\ r.amount \in Nat \ {0}
  BY RequestFacts
<1>2. /\ count \in [Keys -> Nat] /\ charged \in [Keys -> Nat] /\ expires \in [Keys -> Nat \cup {None}]
      /\ now \in Nat
      /\ \A k \in Keys : count[k] <= charged[k] /\ count[k] \in 0..Limit(k[1])
  BY KeysAreSlots DEF RedisInv, TypeOK, CountsAreCharged, Times
<1>3. /\ updated \in Nat \ {0} /\ updated <= Limit(key[1])
      /\ count' = [count EXCEPT ![key] = updated]
      /\ charged' = [charged EXCEPT ![key] = charged[key] + r.amount]
      /\ expires' = IF updated = r.amount THEN [expires EXCEPT ![key] = now + KeyLifetime]
                                          ELSE expires
  BY <1>1, <1>2 DEF Charge, Fits, FirstUse
<1>4. /\ count[key] \in Nat /\ charged[key] \in Nat /\ count[key] <= charged[key]
      /\ Limit(key[1]) \in Nat
  BY <1>1, <1>2, LimitsArePositive
<1>5. /\ updated <= charged[key] + r.amount /\ charged[key] + r.amount \in Nat
      /\ charged[key] <= charged[key] + r.amount /\ updated \in 0..Limit(key[1])
      /\ updated # r.amount => count[key] > 0
  BY <1>1, <1>3, <1>4
<1> DEFINE sum == charged[key] + r.amount
<1>6. charged' = [charged EXCEPT ![key] = sum]
  BY <1>3
<1>7. updated <= sum /\ sum \in Nat /\ charged[key] <= sum
  BY <1>5
<1> HIDE DEF key, updated, sum
<1>8. count' \in [Keys -> Nat] /\ \A k \in Keys : count'[k] = IF k = key THEN updated ELSE count[k]
  BY <1>1, <1>2, <1>3
<1>9. charged' \in [Keys -> Nat] /\ \A k \in Keys : charged'[k] = IF k = key THEN sum ELSE charged[k]
  BY <1>1, <1>2, <1>6, <1>7
<1>10. \A k \in Keys : count'[k] \in 0..Limit(k[1])
  BY <1>1, <1>2, <1>5, <1>8
<1>11. \A k \in Keys : count'[k] <= charged'[k] /\ charged[k] <= charged'[k]
  <2> SUFFICES ASSUME NEW k \in Keys PROVE count'[k] <= charged'[k] /\ charged[k] <= charged'[k]
    OBVIOUS
  <2>1. charged[k] \in Nat /\ count[k] <= charged[k]
    BY <1>2
  <2> QED
    BY <1>7, <1>8, <1>9, <2>1
<1>12. expires' \in [Keys -> Nat \cup {None}]
  <2>1. now + KeyLifetime \in Nat \cup {None}
    BY <1>2, LifetimeIsPositive
  <2> QED
    BY <1>1, <1>2, <1>3, <2>1
<1>13. \A k \in Keys : count'[k] > 0 =>
          expires'[k] # None /\ expires'[k] \in now + 1..now + KeyLifetime
  <2> SUFFICES ASSUME NEW k \in Keys, count'[k] > 0
               PROVE  expires'[k] # None /\ expires'[k] \in now + 1..now + KeyLifetime
    OBVIOUS
  <2>1. CASE k = key /\ updated = r.amount
    <3>1. expires'[k] = now + KeyLifetime
      BY <1>1, <1>2, <1>3, <2>1
    <3>2. now + KeyLifetime \in Nat /\ now + KeyLifetime \in now + 1..now + KeyLifetime
      BY <1>2, LifetimeIsPositive
    <3> QED
      BY <3>1, <3>2, RedisAssumption
  <2>2. CASE ~(k = key /\ updated = r.amount)
    <3>1. expires'[k] = expires[k]
      BY <1>1, <1>2, <1>3, <2>2
    <3>2. count[k] > 0
      BY <1>5, <1>8, <2>2 DEF key
    <3> QED
      BY <3>1, <3>2 DEF KeysExpire
  <2> QED
    BY <2>1, <2>2
<1>14. timely' \in [Kinds \X Identities -> [Times -> Nat]]
  BY TimelyStep DEF RedisInv
<1> QED
  BY <1>8, <1>9, <1>10, <1>11, <1>12, <1>13, <1>14, KeysAreSlots DEF RedisStep

LEMMA RedisStepSuffices ==
  ASSUME RedisInv, RedisStep, now' = now
  PROVE  CountsAreCharged' /\ KeysExpire'
BY DEF RedisStep, CountsAreCharged, KeysExpire, KeyLifetime

\* A refusal that was justified stays so: charges are never taken back.
LEMMA RefusalsStay ==
  ASSUME RedisInv, NEW r \in Requests, r.key = Slot(r),
         \A k \in Keys : charged'[k] \in Nat /\ charged[k] <= charged'[k],
         charged[Slot(r)] + r.amount > Limit(r.kind)
  PROVE  charged'[Slot(r)] + r.amount > Limit(r.kind)
<1>1. Slot(r) \in Keys /\ r.amount \in Nat /\ Limit(r.kind) \in Nat
  BY RequestFacts, LimitsArePositive
<1>2. charged[Slot(r)] \in Nat
  BY <1>1, KeysAreSlots DEF RedisInv, TypeOK
<1> QED
  BY <1>1, <1>2
-----------------------------------------------------------------------------
Inv == RedisInv /\ KeysExpire /\ RefusalsJustified

\* A request is sent, with a reading of the clock that the process has.
LEMMA SentIsRequest ==
  ASSUME TypeOK, NEW s \in Servers, NEW kind \in Kinds, NEW identity \in Identities,
         NEW amount \in Amounts(kind), NEW received \in Times
  PROVE  LET r == Sent(s, kind, identity, amount, received)
         IN  /\ r \in Requests /\ r.key = Slot(r) /\ r.reply = "none"
             /\ r.received = received /\ r.bucket = Bucket(s, received)
<1> DEFINE bucket == Bucket(s, received)
           r == [kind |-> kind, identity |-> identity, amount |-> amount, bucket |-> bucket,
                 key |-> Key(kind, identity, bucket), received |-> received, sent |-> now,
                 reply |-> "none"]
<1>1. now \in Times /\ bucket \in Buckets
  BY DEF TypeOK, Buckets
<1>2. Key(kind, identity, bucket) \in Keys
  BY <1>1 DEF Keys
<1>3. amount \in UNION {Amounts(k) : k \in Kinds}
  OBVIOUS
<1>4. r = Sent(s, kind, identity, amount, received)
  BY DEF Sent
<1>5. r.received = received /\ r.bucket = bucket
  OBVIOUS
<1> HIDE DEF bucket
<1>6. r \in Requests
  BY <1>1, <1>2, <1>3 DEF Requests
<1>7. r.key = Slot(r) /\ r.reply = "none"
  BY DEF Slot, Key
<1> HIDE DEF r
<1> QED
  BY <1>4, <1>5, <1>6, <1>7 DEF bucket

LEMMA SendInv ==
  ASSUME Inv, NEW s \in Servers, NEW r \in Requests, r.key = Slot(r), r.reply = "none",
         call' = [call EXCEPT ![s] = r], UNCHANGED <<now, redisVars, abandoned, failures>>
  PROVE  Inv'
<1>1. /\ call \in [Servers -> Requests \cup {None}] /\ call' \in [Servers -> Requests \cup {None}]
      /\ call'[s] = r /\ \A t \in Servers \ {s} : call'[t] = call[t]
  BY DEF Inv, RedisInv, TypeOK
<1>2. TypeOK'
  BY <1>1 DEF Inv, RedisInv, TypeOK, redisVars
<1>3. WellKeyed'
  BY <1>1 DEF Inv, RedisInv, WellKeyed, Slot
<1>4. CountsAreCharged' /\ KeysExpire'
  BY DEF Inv, RedisInv, CountsAreCharged, KeysExpire, redisVars
<1>5. RefusalsJustified'
  BY <1>1 DEF Inv, RefusalsJustified, Slot, redisVars
<1> QED
  BY <1>2, <1>3, <1>4, <1>5 DEF Inv, RedisInv

\* What a process sends: a request at the time of the message.
LEMMA WhatIsSent ==
  ASSUME Inv, NEW s \in Servers,
         \/ \E identity \in Identities : Receive(s, identity)
         \/ \E chunk \in ChunkSizes : AskAudioBytes(s, chunk)
  PROVE  \E r \in Requests :
           /\ call' = [call EXCEPT ![s] = r] /\ UNCHANGED <<now, redisVars, abandoned, failures>>
           /\ r.key = Slot(r) /\ r.reply = "none" /\ r.bucket = Bucket(s, r.received)
           /\ r.received = now \/ (call[s] # None /\ r.received = call[s].received)
<1>1. TypeOK /\ now \in Times
  BY DEF Inv, RedisInv, TypeOK
<1>2. ASSUME NEW identity \in Identities, Receive(s, identity)
      PROVE  \E r \in Requests :
               /\ call' = [call EXCEPT ![s] = r] /\ UNCHANGED <<now, redisVars, abandoned, failures>>
               /\ r.key = Slot(r) /\ r.reply = "none" /\ r.bucket = Bucket(s, r.received)
               /\ r.received = now
  <2>1. "events" \in Kinds /\ 1 \in Amounts("events")
    BY DEF Kinds, Amounts
  <2> DEFINE sent == Sent(s, "events", identity, 1, now)
  <2>2. /\ sent \in Requests /\ sent.key = Slot(sent) /\ sent.reply = "none"
        /\ sent.received = now /\ sent.bucket = Bucket(s, now)
    BY <1>1, <2>1, SentIsRequest
  <2>3. call' = [call EXCEPT ![s] = sent] /\ UNCHANGED <<now, redisVars, abandoned, failures>>
    BY <1>2 DEF Receive
  <2> HIDE DEF sent
  <2> QED
    BY <2>2, <2>3
<1>3. ASSUME NEW chunk \in ChunkSizes, AskAudioBytes(s, chunk)
      PROVE  \E r \in Requests :
               /\ call' = [call EXCEPT ![s] = r] /\ UNCHANGED <<now, redisVars, abandoned, failures>>
               /\ r.key = Slot(r) /\ r.reply = "none" /\ r.bucket = Bucket(s, r.received)
               /\ call[s] # None /\ r.received = call[s].received
  <2>1. "audio-bytes" \in Kinds /\ chunk \in Amounts("audio-bytes")
    BY DEF Kinds, Amounts
  <2>2. call[s] # None /\ call[s] \in Requests
    BY <1>1, <1>3 DEF AskAudioBytes, TypeOK
  <2>3. call[s].identity \in Identities /\ call[s].received \in Times
    BY <2>2 DEF Requests
  <2> DEFINE received == call[s].received
             sent == Sent(s, "audio-bytes", call[s].identity, chunk, received)
  <2>4. /\ sent \in Requests /\ sent.key = Slot(sent) /\ sent.reply = "none"
        /\ sent.received = received /\ sent.bucket = Bucket(s, received)
    BY <1>1, <2>1, <2>3, SentIsRequest
  <2>5. call' = [call EXCEPT ![s] = sent] /\ UNCHANGED <<now, redisVars, abandoned, failures>>
    BY <1>3 DEF AskAudioBytes
  <2> HIDE DEF sent
  <2> QED
    BY <2>2, <2>4, <2>5
<1> QED
  BY <1>2, <1>3

LEMMA RunScriptInv ==
  ASSUME Inv, NEW s \in Servers, RunScript(s)
  PROVE  Inv'
<1> DEFINE r == call[s]
<1>1. r \in Requests /\ r.key = Slot(r)
  BY DEF Inv, RedisInv, TypeOK, WellKeyed, RunScript
<1>2. RedisStep /\ UNCHANGED <<now, abandoned, failures>>
  <2>1. CASE Charge(r)
    BY <1>1, <2>1, ChargeStep DEF Inv, RunScript
  <2>2. CASE UNCHANGED redisVars
    BY <2>2, NoChange DEF Inv, RunScript
  <2> QED
    BY <2>1, <2>2 DEF RunScript
<1>3. PICK reply \in {"granted", "refused"} :
        /\ call' = [call EXCEPT ![s].reply = reply]
        /\ reply = "refused" => ~Fits(r) /\ UNCHANGED redisVars
  BY DEF RunScript
<1> DEFINE answered == [r EXCEPT !.reply = reply]
<1>4. call' = [call EXCEPT ![s] = answered]
  BY <1>3
<1>5. /\ answered \in Requests /\ answered.key = r.key /\ Slot(answered) = Slot(r)
      /\ answered.reply = reply /\ answered.kind = r.kind /\ answered.amount = r.amount
  BY <1>1, <1>3 DEF Requests, Slot
<1> HIDE DEF answered
<1>6. /\ call' \in [Servers -> Requests \cup {None}] /\ call'[s] = answered
      /\ \A t \in Servers \ {s} : call'[t] = call[t]
  BY <1>4, <1>5 DEF Inv, RedisInv, TypeOK
<1>7. TypeOK'
  BY <1>2, <1>6 DEF Inv, RedisInv, TypeOK, RedisStep
<1>8. WellKeyed'
  BY <1>1, <1>2, <1>5, <1>6 DEF Inv, RedisInv, WellKeyed, Slot
<1>9. CountsAreCharged' /\ KeysExpire'
  BY <1>2, RedisStepSuffices DEF Inv
<1>10. RefusalsJustified'
  <2> SUFFICES ASSUME NEW t \in Servers, call'[t] # None, call'[t].reply = "refused"
               PROVE  charged'[Slot(call'[t])] + call'[t].amount > Limit(call'[t].kind)
    BY DEF RefusalsJustified, Slot
  <2>1. CASE t = s
    <3>1. reply = "refused" /\ ~Fits(r) /\ charged' = charged
      BY <1>3, <1>5, <1>6, <2>1 DEF redisVars
    <3>2. /\ r.key \in Keys /\ r.amount \in Nat /\ Limit(r.kind) \in Nat /\ count[r.key] \in Nat
          /\ charged[r.key] \in Nat /\ count[r.key] <= charged[r.key]
      BY <1>1, RequestFacts, LimitsArePositive, KeysAreSlots
      DEF Inv, RedisInv, TypeOK, CountsAreCharged
    <3>3. charged[r.key] + r.amount > Limit(r.kind)
      BY <3>1, <3>2 DEF Fits
    <3> QED
      BY <1>1, <1>5, <1>6, <2>1, <3>1, <3>3
  <2>2. CASE t # s
    <3>1. call'[t] = call[t] /\ call[t] \in Requests /\ call[t].key = Slot(call[t])
      BY <1>6, <2>2 DEF Inv, RedisInv, TypeOK, WellKeyed
    <3>2. charged[Slot(call[t])] + call[t].amount > Limit(call[t].kind)
      BY <3>1 DEF Inv, RefusalsJustified
    <3>3. \A k \in Keys : charged'[k] \in Nat /\ charged[k] <= charged'[k]
      BY <1>2, KeysAreSlots DEF RedisStep
    <3> QED
      BY <3>1, <3>2, <3>3, RefusalsStay DEF Inv
  <2> QED
    BY <2>1, <2>2
<1> QED
  BY <1>7, <1>8, <1>9, <1>10 DEF Inv, RedisInv

\* A process that returns or gives up forgets its request.
LEMMA Forgotten ==
  ASSUME Inv, NEW s \in Servers, call' = [call EXCEPT ![s] = None]
  PROVE  /\ call' \in [Servers -> Requests \cup {None}] /\ call'[s] = None
         /\ \A t \in Servers \ {s} : call'[t] = call[t]
BY DEF Inv, RedisInv, TypeOK

LEMMA ReturnInv ==
  ASSUME Inv, NEW s \in Servers, Return(s)
  PROVE  Inv'
<1>1. UNCHANGED <<now, redisVars, abandoned, failures>>
  BY DEF Return
<1>2. /\ call' \in [Servers -> Requests \cup {None}] /\ call'[s] = None
      /\ \A t \in Servers \ {s} : call'[t] = call[t]
  BY Forgotten DEF Return
<1>3. TypeOK'
  BY <1>1, <1>2 DEF Inv, RedisInv, TypeOK, redisVars
<1>4. WellKeyed'
  BY <1>1, <1>2 DEF Inv, RedisInv, WellKeyed, Slot
<1>5. CountsAreCharged' /\ KeysExpire'
  BY <1>1 DEF Inv, RedisInv, CountsAreCharged, KeysExpire, redisVars
<1>6. RefusalsJustified'
  BY <1>1, <1>2 DEF Inv, RefusalsJustified, Slot, redisVars
<1> QED
  BY <1>3, <1>4, <1>5, <1>6 DEF Inv, RedisInv

LEMMA FailInv ==
  ASSUME Inv, NEW s \in Servers, Fail(s)
  PROVE  Inv'
<1> DEFINE r == call[s]
<1>1. r \in Requests /\ r.key = Slot(r) /\ UNCHANGED <<now, redisVars>>
  BY DEF Inv, RedisInv, TypeOK, WellKeyed, Fail
<1>2. /\ call' \in [Servers -> Requests \cup {None}] /\ call'[s] = None
      /\ \A t \in Servers \ {s} : call'[t] = call[t]
  BY Forgotten DEF Fail
<1>3. /\ abandoned' \in [Servers -> Requests \cup {None}]
      /\ abandoned'[s] \in {abandoned[s], r} /\ \A t \in Servers \ {s} : abandoned'[t] = abandoned[t]
  BY <1>1 DEF Inv, RedisInv, TypeOK, Fail
<1>4. failures' \in 0..MaxFailures
  BY RedisAssumption DEF Inv, RedisInv, TypeOK, Fail
<1>5. TypeOK'
  BY <1>1, <1>2, <1>3, <1>4 DEF Inv, RedisInv, TypeOK, redisVars
<1>6. WellKeyed'
  BY <1>1, <1>2, <1>3 DEF Inv, RedisInv, WellKeyed, Slot
<1>7. CountsAreCharged' /\ KeysExpire'
  BY <1>1 DEF Inv, RedisInv, CountsAreCharged, KeysExpire, redisVars
<1>8. RefusalsJustified'
  BY <1>1, <1>2 DEF Inv, RefusalsJustified, Slot, redisVars
<1> QED
  BY <1>5, <1>6, <1>7, <1>8 DEF Inv, RedisInv

LEMMA RunAbandonedInv ==
  ASSUME Inv, NEW s \in Servers, RunAbandoned(s)
  PROVE  Inv'
<1> DEFINE r == abandoned[s]
<1>1. r \in Requests /\ r.key = Slot(r)
  BY DEF Inv, RedisInv, TypeOK, WellKeyed, RunAbandoned
<1>2. RedisStep /\ UNCHANGED <<now, call, failures>>
  <2>1. CASE Charge(r)
    BY <1>1, <2>1, ChargeStep DEF Inv, RunAbandoned
  <2>2. CASE UNCHANGED redisVars
    BY <2>2, NoChange DEF Inv, RunAbandoned
  <2> QED
    BY <2>1, <2>2 DEF RunAbandoned
<1>3. /\ abandoned' \in [Servers -> Requests \cup {None}] /\ abandoned'[s] = None
      /\ \A t \in Servers \ {s} : abandoned'[t] = abandoned[t]
  BY DEF Inv, RedisInv, TypeOK, RunAbandoned
<1>4. TypeOK'
  BY <1>2, <1>3 DEF Inv, RedisInv, TypeOK, RedisStep
<1>5. WellKeyed'
  BY <1>2, <1>3 DEF Inv, RedisInv, WellKeyed, Slot
<1>6. CountsAreCharged' /\ KeysExpire'
  BY <1>2, RedisStepSuffices DEF Inv
<1>7. RefusalsJustified'
  <2> SUFFICES ASSUME NEW t \in Servers, call[t] # None, call[t].reply = "refused"
               PROVE  charged'[Slot(call[t])] + call[t].amount > Limit(call[t].kind)
    BY <1>2 DEF RefusalsJustified, Slot
  <2>1. call[t] \in Requests /\ call[t].key = Slot(call[t])
    BY DEF Inv, RedisInv, TypeOK, WellKeyed
  <2>2. charged[Slot(call[t])] + call[t].amount > Limit(call[t].kind)
    BY DEF Inv, RefusalsJustified
  <2>3. \A k \in Keys : charged'[k] \in Nat /\ charged[k] <= charged'[k]
    BY <1>2, KeysAreSlots DEF RedisStep
  <2> QED
    BY <2>1, <2>2, <2>3, RefusalsStay DEF Inv
<1> QED
  BY <1>4, <1>5, <1>6, <1>7 DEF Inv, RedisInv

LEMMA TickInv ==
  ASSUME Inv, Tick
  PROVE  Inv'
<1>1. /\ UNCHANGED <<call, abandoned, failures, charged, timely>>
      /\ now' = now + 1 /\ now \in Nat /\ now' \in Times
  BY RedisAssumption DEF Inv, RedisInv, TypeOK, Tick, Times
<1>2. count \in [Keys -> Nat] /\ expires \in [Keys -> Nat \cup {None}]
  BY DEF Inv, RedisInv, TypeOK, CountsAreCharged
<1>3. /\ count' \in [Keys -> Nat] /\ expires' \in [Keys -> Nat \cup {None}]
      /\ \A k \in Keys : /\ count'[k] = IF expires[k] = now + 1 THEN 0 ELSE count[k]
                         /\ expires'[k] = IF expires[k] = now + 1 THEN None ELSE expires[k]
  BY <1>2 DEF Tick
<1>4. \A k \in Keys : count'[k] \in 0..Limit(k[1]) /\ count'[k] <= charged'[k]
  <2> SUFFICES ASSUME NEW k \in Keys
               PROVE  count'[k] \in 0..Limit(k[1]) /\ count'[k] <= charged'[k]
    OBVIOUS
  <2>1. /\ count[k] \in 0..Limit(k[1]) /\ count[k] <= charged[k] /\ charged[k] \in Nat
        /\ Limit(k[1]) \in Nat
    BY KeysAreSlots, LimitsArePositive DEF Inv, RedisInv, TypeOK, CountsAreCharged
  <2>2. count'[k] = 0 \/ count'[k] = count[k]
    BY <1>3
  <2> QED
    BY <1>1, <2>1, <2>2
<1>5. KeysExpire'
  <2> SUFFICES ASSUME NEW k \in Keys, count'[k] > 0
               PROVE  expires'[k] # None /\ expires'[k] \in now' + 1..now' + KeyLifetime
    BY DEF KeysExpire, KeyLifetime
  <2>1. expires[k] # now + 1 /\ count'[k] = count[k] /\ expires'[k] = expires[k]
    BY <1>3
  <2>2. expires[k] # None /\ expires[k] \in now + 1..now + KeyLifetime
    BY <2>1 DEF Inv, KeysExpire
  <2> QED
    BY <1>1, <2>1, <2>2, LifetimeIsPositive
<1>6. TypeOK'
  BY <1>1, <1>3, <1>4 DEF Inv, RedisInv, TypeOK
<1>7. WellKeyed' /\ RefusalsJustified'
  BY <1>1 DEF Inv, RedisInv, WellKeyed, RefusalsJustified, Slot
<1> QED
  BY <1>3, <1>4, <1>5, <1>6, <1>7 DEF Inv, RedisInv, CountsAreCharged

LEMMA NextInv ==
  ASSUME Inv, [Next]_vars
  PROVE  Inv'
<1>1. CASE UNCHANGED vars
  BY <1>1 DEF vars, redisVars, Inv, RedisInv, TypeOK, WellKeyed, CountsAreCharged, KeysExpire,
              RefusalsJustified, Slot
<1>2. CASE \E s \in Servers : \/ \E identity \in Identities : Receive(s, identity)
                              \/ \E chunk \in ChunkSizes : AskAudioBytes(s, chunk)
  BY <1>2, WhatIsSent, SendInv
<1> QED
  BY <1>1, <1>2, RunScriptInv, ReturnInv, FailInv, RunAbandonedInv, TickInv DEF Next

LEMMA Invariance == Spec => []Inv
<1>1. Init => Inv
  BY InitInv DEF Inv
<1> QED
  BY <1>1, NextInv, PTL DEF Spec

\* Requests, counts and histories keep their types; no count exceeds its limit.
THEOREM RedisTypeCorrect == Spec => []TypeOK
BY Invariance, PTL DEF Inv, RedisInv

\* A refused request did not fit what had been charged in its own bucket, whatever
\* the clocks of the hosts and however late its script ran.
THEOREM RefusalsAreJustified == Spec => []RefusalsJustified
BY Invariance, PTL DEF Inv

\* Every key of the limiter has a time to live, which is never extended.
THEOREM KeysAlwaysExpire == Spec => []KeysExpire
BY Invariance, PTL DEF Inv

-----------------------------------------------------------------------------
(***************************************************************************)
(* The window limit, when the hosts' clocks show the same.  What is        *)
(* granted to an identity within a second of its messages, in one bucket,  *)
(* is part of the count for as long as the key of the bucket outlives it;  *)
(* after that a grant is not within a second of its message any more.      *)
(***************************************************************************)
Opens(epoch, bucket) == bucket * window_seconds - epoch

InBucket(epoch, bucket) == {t \in Times : (epoch + t) \div window_seconds = bucket}

Given(epoch, slot) ==
  SumFunctionOnSet(timely[<<slot[1], slot[2]>>], InBucket(epoch, slot[3]))

\* A request belongs to the bucket in which its message was received.
InItsBucket(epoch, request, time) ==
  request.received \in InBucket(epoch, request.bucket) /\ request.received <= time

Bucketed(epoch) ==
  \A s \in Servers : /\ call[s] # None => InItsBucket(epoch, call[s], now)
                     /\ abandoned[s] # None => InItsBucket(epoch, abandoned[s], now)

KeysOutlive(epoch) ==
  \A k \in Keys : count[k] > 0 => expires[k] > Opens(epoch, k[3]) + window_seconds

GrantsCounted(epoch) ==
  \A k \in Keys : /\ Given(epoch, k) <= Limit(k[1])
                  /\ now <= Opens(epoch, k[3]) + window_seconds => Given(epoch, k) <= count[k]

WindowInv(epoch) == Inv /\ Bucketed(epoch) /\ KeysOutlive(epoch) /\ GrantsCounted(epoch)

LEMMA DivMeans ==
  ASSUME NEW w \in Nat \ {0}, NEW n \in Nat, NEW b \in Int
  PROVE  n \div w = b <=> (b * w <= n /\ n < b * w + w)
<1>1. ASSUME n \div w = b PROVE b * w <= n /\ n < b * w + w
  BY <1>1
<1>2. ASSUME b * w <= n, n < b * w + w PROVE n \div w = b
  BY <1>2
<1> QED
  BY <1>1, <1>2

LEMMA BucketsAreNumbers == Buckets \subseteq Int
<1>1. ASSUME NEW s \in Servers, NEW t \in Times PROVE Bucket(s, t) \in Int
  <2>1. Epoch[s] + t \in Nat /\ window_seconds \in Nat \ {0}
    BY RedisAssumption DEF Times
  <2> QED
    BY <2>1 DEF Bucket
<1> QED
  BY <1>1 DEF Buckets

\* The moments of a bucket are a window of time.
LEMMA BucketIsWindow ==
  ASSUME NEW epoch \in Nat, NEW b \in Int
  PROVE  /\ Opens(epoch, b) \in Int
         /\ \A t \in Times : t \in InBucket(epoch, b) <=>
              (Opens(epoch, b) <= t /\ t < Opens(epoch, b) + window_seconds)
<1>1. window_seconds \in Nat \ {0}
  BY RedisAssumption
<1> DEFINE m == b * window_seconds
<1>2. m \in Int
  BY <1>1
<1>3. ASSUME NEW t \in Times
      PROVE  t \in InBucket(epoch, b) <=> (m <= epoch + t /\ epoch + t < m + window_seconds)
  BY <1>1, DivMeans DEF Times, InBucket
<1>4. Opens(epoch, b) = m - epoch
  BY DEF Opens
<1> HIDE DEF m
<1> QED
  BY <1>1, <1>2, <1>3, <1>4 DEF Times

LEMMA KeyFacts ==
  ASSUME NEW k \in Keys
  PROVE  /\ k[1] \in Kinds /\ k[2] \in Identities /\ k[3] \in Buckets /\ k[3] \in Int
         /\ <<k[1], k[2]>> \in Kinds \X Identities /\ k = <<k[1], k[2], k[3]>>
         /\ Limit(k[1]) \in Nat
<1>1. PICK kind \in Kinds, identity \in Identities, bucket \in Buckets :
        k = <<kind, identity, bucket>>
  BY KeysAreSlots
<1>2. k[1] = kind /\ k[2] = identity /\ k[3] = bucket
  BY <1>1
<1>3. bucket \in Int /\ Limit(kind) \in Nat
  BY BucketsAreNumbers, LimitsArePositive
<1> QED
  BY <1>1, <1>2, <1>3

\* What is added up for a slot.
LEMMA GivenTerms ==
  ASSUME TypeOK, NEW k \in Keys, NEW epoch
  PROVE  /\ timely[<<k[1], k[2]>>] \in [Times -> Nat]
         /\ NatOn(timely[<<k[1], k[2]>>], InBucket(epoch, k[3]))
         /\ IsFiniteSet(Times) /\ IsFiniteSet(InBucket(epoch, k[3]))
         /\ InBucket(epoch, k[3]) \in SUBSET Times
         /\ Given(epoch, k) \in Nat
<1>1. timely[<<k[1], k[2]>>] \in [Times -> Nat]
  BY KeyFacts DEF TypeOK
<1>2. IsFiniteSet(Times) /\ InBucket(epoch, k[3]) \in SUBSET Times
  BY RedisAssumption, FS_Interval DEF Times, InBucket
<1>3. IsFiniteSet(InBucket(epoch, k[3]))
  BY <1>2, FS_Subset
<1>4. NatOn(timely[<<k[1], k[2]>>], InBucket(epoch, k[3]))
  BY <1>1, <1>2 DEF NatOn
<1>5. SumFunctionOnSet(timely[<<k[1], k[2]>>], InBucket(epoch, k[3])) \in Nat
  BY <1>3, <1>4, SumAdd
<1> QED
  BY <1>1, <1>2, <1>3, <1>4, <1>5 DEF Given

\* The script of a request gives to the slot of the request, if it is in time, what it
\* adds to the count; and nothing otherwise.
LEMMA ChargeGives ==
  ASSUME Inv, NEW epoch \in Nat, NEW r \in Requests, r.key = Slot(r), InItsBucket(epoch, r, now),
         Charge(r), NEW k \in Keys
  PROVE  \/ Given(epoch, k)' = Given(epoch, k)
         \/ /\ k = Slot(r) /\ now <= r.received + 1
            /\ Given(epoch, k)' = Given(epoch, k) + r.amount
            /\ count'[k] = count[k] + r.amount /\ count'[k] <= Limit(k[1])
<1> DEFINE window == InBucket(epoch, k[3])
           pair == <<k[1], k[2]>>
           row == timely[<<r.kind, r.identity>>]
           n == r.amount
           received == r.received
           more == [row EXCEPT ![received] = @ + n]
<1>1. /\ r.kind \in Kinds /\ r.identity \in Identities /\ received \in Times /\ n \in Nat
      /\ r.key \in Keys /\ r.key[1] = r.kind
  BY RequestFacts
<1>2. timely \in [Kinds \X Identities -> [Times -> Nat]] /\ count \in [Keys -> Nat]
  BY DEF Inv, RedisInv, TypeOK, CountsAreCharged
<1>3. /\ window \in SUBSET Times /\ IsFiniteSet(window) /\ pair \in Kinds \X Identities
      /\ Given(epoch, k) \in Nat
  BY GivenTerms, KeyFacts DEF Inv, RedisInv
<1>4. Given(epoch, k) = SumFunctionOnSet(timely[pair], window)
      /\ Given(epoch, k)' = SumFunctionOnSet(timely'[pair], window)
  BY DEF Given, InBucket, Times
<1>5. CASE ~(now <= received + 1)
  <2>1. timely' = timely
    BY <1>5 DEF Charge
  <2> QED
    BY <1>4, <2>1
<1>6. CASE now <= received + 1
  <2>1. timely' = [timely EXCEPT ![<<r.kind, r.identity>>] = more]
    BY <1>6 DEF Charge
  <2>2. row \in [Times -> Nat]
    BY <1>1, <1>2
  <2>3. /\ received \in window => SumFunctionOnSet(more, window) = SumFunctionOnSet(row, window) + n
        /\ received \notin window => SumFunctionOnSet(more, window) = SumFunctionOnSet(row, window)
    <3>1. /\ NatOn(row, window) /\ NatOn(more, window) /\ more[received] = row[received] + n
          /\ \A t \in Times \ {received} : more[t] = row[t]
      BY <1>1, <1>3, <2>2 DEF NatOn
    <3>2. n \in Nat /\ IsFiniteSet(window) /\ window \in SUBSET Times
      BY <1>1, <1>3
    <3> HIDE DEF row, n, received, more, window
    <3>3. CASE received \in window
      BY <3>1, <3>2, <3>3, SumMore
    <3>4. CASE received \notin window
      BY <3>1, <3>2, <3>4, SumSame
    <3> QED
      BY <3>3, <3>4
  <2>4. CASE k = Slot(r)
    <3>1. k[1] = r.kind /\ k[2] = r.identity /\ k[3] = r.bucket
      BY <2>4 DEF Slot
    <3>2. received \in window
      BY <3>1 DEF InItsBucket
    <3>3. timely'[pair] = more /\ timely[pair] = row
      <4> HIDE DEF more
      <4> QED
        BY <1>1, <1>2, <2>1, <3>1
    <3>4. count'[k] = count[k] + n /\ count'[k] <= Limit(k[1])
      BY <1>1, <1>2, <2>4 DEF Charge, Fits
    <3>5. Given(epoch, k)' = Given(epoch, k) + n
      <4> HIDE DEF more, row, window, n, pair
      <4> QED
        BY <1>4, <2>3, <3>2, <3>3
    <3> QED
      BY <1>6, <2>4, <3>4, <3>5
  <2>5. CASE k # Slot(r) /\ pair = <<r.kind, r.identity>>
    <3>1. k[3] # r.bucket
      BY <2>5, KeyFacts DEF Slot
    <3>2. received \notin window
      BY <3>1 DEF InItsBucket, InBucket
    <3>3. timely'[pair] = more /\ timely[pair] = row
      <4> HIDE DEF more
      <4> QED
        BY <1>1, <1>2, <2>1, <2>5
    <3>4. Given(epoch, k)' = Given(epoch, k)
      <4> HIDE DEF more, row, window, n, pair
      <4> QED
        BY <1>4, <2>3, <3>2, <3>3
    <3> QED
      BY <3>4
  <2>6. CASE pair # <<r.kind, r.identity>>
    <3>1. timely'[pair] = timely[pair]
      <4> HIDE DEF more
      <4> QED
        BY <1>2, <1>3, <2>1, <2>6
    <3> QED
      BY <1>4, <3>1
  <2> QED
    BY <2>4, <2>5, <2>6
<1> QED
  BY <1>5, <1>6

\* What is true of the clocks of one host.
ClocksAgree(epoch) == epoch \in Nat /\ \A s \in Servers : Epoch[s] = epoch

LEMMA TimeAdvances ==
  ASSUME [Next]_vars
  PROVE  now' = now \/ now' = now + 1
<1>1. CASE Tick
  BY <1>1 DEF Tick
<1>2. CASE \E s \in Servers : \/ \E identity \in Identities : Receive(s, identity)
                              \/ \E chunk \in ChunkSizes : AskAudioBytes(s, chunk)
  BY <1>2 DEF Receive, AskAudioBytes
<1>3. CASE \E s \in Servers : RunScript(s) \/ Return(s) \/ Fail(s) \/ RunAbandoned(s)
  BY <1>3 DEF RunScript, Return, Fail, RunAbandoned
<1>4. CASE UNCHANGED vars
  BY <1>4 DEF vars
<1> QED
  BY <1>1, <1>2, <1>3, <1>4 DEF Next

LEMMA BucketedStep ==
  ASSUME Inv, NEW epoch, ClocksAgree(epoch), Bucketed(epoch), [Next]_vars
  PROVE  Bucketed(epoch)'
<1> DEFINE Ok(r) == r # None => InItsBucket(epoch, r, now)
<1>1. /\ call \in [Servers -> Requests \cup {None}] /\ abandoned \in [Servers -> Requests \cup {None}]
      /\ now \in Times /\ now \in Nat
  BY RedisAssumption DEF Inv, RedisInv, TypeOK, Times
<1>2. \A t \in Servers : Ok(call[t]) /\ Ok(abandoned[t])
  BY DEF Bucketed
<1>3. now' \in Nat /\ now <= now'
  BY <1>1, TimeAdvances
<1>4. ASSUME NEW r \in Requests, r.received \in InBucket(epoch, r.bucket), r.received <= now
      PROVE  InItsBucket(epoch, r, now')
  <2>1. r.received \in Nat
    BY <1>4, RedisAssumption DEF InBucket, Times
  <2>2. r.received <= now'
    BY <1>1, <1>3, <1>4, <2>1
  <2> QED
    BY <1>4, <2>2 DEF InItsBucket
<1>5. SUFFICES \A t \in Servers : /\ call'[t] # None => InItsBucket(epoch, call'[t], now')
                                  /\ abandoned'[t] # None => InItsBucket(epoch, abandoned'[t], now')
  BY DEF Bucketed
<1>6. \A t \in Servers : /\ call'[t] = call[t] => (call'[t] # None => InItsBucket(epoch, call'[t], now'))
                         /\ abandoned'[t] = abandoned[t] => (abandoned'[t] # None => InItsBucket(epoch, abandoned'[t], now'))
  BY <1>1, <1>2, <1>4 DEF InItsBucket
<1>7. ASSUME NEW s \in Servers, \/ \E identity \in Identities : Receive(s, identity)
                                \/ \E chunk \in ChunkSizes : AskAudioBytes(s, chunk)
      PROVE  \A t \in Servers : /\ call'[t] # None => InItsBucket(epoch, call'[t], now')
                                /\ abandoned'[t] # None => InItsBucket(epoch, abandoned'[t], now')
  <2>1. PICK r \in Requests :
           /\ call' = [call EXCEPT ![s] = r] /\ UNCHANGED <<now, redisVars, abandoned, failures>>
           /\ r.bucket = Bucket(s, r.received)
           /\ r.received = now \/ (call[s] # None /\ r.received = call[s].received)
    BY <1>7, WhatIsSent
  <2>2. r.received \in Times /\ r.received <= now
    BY <1>1, <1>2, <2>1 DEF Requests, InItsBucket
  <2>3. r.received \in InBucket(epoch, r.bucket)
    BY <2>1, <2>2 DEF InBucket, Bucket, ClocksAgree
  <2>4. call'[s] = r /\ \A t \in Servers \ {s} : call'[t] = call[t]
    BY <1>1, <2>1
  <2>5. InItsBucket(epoch, call'[s], now')
    BY <1>4, <2>2, <2>3, <2>4 DEF InItsBucket
  <2> QED
    BY <1>6, <2>1, <2>4, <2>5
<1>8. ASSUME NEW s \in Servers, RunScript(s)
      PROVE  \A t \in Servers : /\ call'[t] # None => InItsBucket(epoch, call'[t], now')
                                /\ abandoned'[t] # None => InItsBucket(epoch, abandoned'[t], now')
  <2>1. PICK reply \in {"granted", "refused"} : call' = [call EXCEPT ![s].reply = reply]
    BY <1>8 DEF RunScript
  <2> DEFINE r == call[s]
             answered == [r EXCEPT !.reply = reply]
  <2>2. r \in Requests /\ r # None /\ UNCHANGED <<now, abandoned>> /\ call' = [call EXCEPT ![s] = answered]
    BY <1>1, <1>8, <2>1 DEF RunScript
  <2>3. answered \in Requests /\ answered.received = r.received /\ answered.bucket = r.bucket
    BY <2>1, <2>2 DEF Requests
  <2> HIDE DEF answered
  <2>4. call'[s] = answered /\ \A t \in Servers \ {s} : call'[t] = call[t]
    BY <1>1, <2>2
  <2>5. answered.received \in InBucket(epoch, answered.bucket) /\ answered.received <= now
    BY <1>2, <2>2, <2>3 DEF InItsBucket
  <2>6. InItsBucket(epoch, call'[s], now')
    BY <1>4, <2>3, <2>4, <2>5 DEF InItsBucket
  <2> QED
    BY <1>6, <2>2, <2>4, <2>6
<1>9. ASSUME NEW s \in Servers, Return(s) \/ Fail(s)
      PROVE  \A t \in Servers : /\ call'[t] # None => InItsBucket(epoch, call'[t], now')
                                /\ abandoned'[t] # None => InItsBucket(epoch, abandoned'[t], now')
  <2>1. /\ call' = [call EXCEPT ![s] = None] /\ UNCHANGED now /\ call[s] # None
        /\ abandoned' = abandoned \/ abandoned' = [abandoned EXCEPT ![s] = call[s]]
    BY <1>9 DEF Return, Fail
  <2>2. call'[s] = None /\ \A t \in Servers \ {s} : call'[t] = call[t]
    BY <1>1, <2>1
  <2>3. abandoned'[s] \in {abandoned[s], call[s]}
        /\ \A t \in Servers \ {s} : abandoned'[t] = abandoned[t]
    BY <1>1, <2>1
  <2>4. abandoned'[s] = call[s] => InItsBucket(epoch, abandoned'[s], now')
    BY <1>1, <1>2, <1>4, <2>1 DEF InItsBucket
  <2> QED
    BY <1>6, <2>2, <2>3, <2>4
<1>10. ASSUME NEW s \in Servers, RunAbandoned(s)
       PROVE  \A t \in Servers : /\ call'[t] # None => InItsBucket(epoch, call'[t], now')
                                 /\ abandoned'[t] # None => InItsBucket(epoch, abandoned'[t], now')
  <2>1. UNCHANGED call /\ abandoned' = [abandoned EXCEPT ![s] = None]
    BY <1>10 DEF RunAbandoned
  <2>2. abandoned'[s] = None /\ \A t \in Servers \ {s} : abandoned'[t] = abandoned[t]
    BY <1>1, <2>1
  <2> QED
    BY <1>6, <2>1, <2>2
<1>11. CASE UNCHANGED <<call, abandoned>>
  BY <1>6, <1>11
<1> QED
  BY <1>7, <1>8, <1>9, <1>10, <1>11 DEF Next, Tick, vars

\* A key that is charged anew outlives the bucket of the request.
LEMMA ChargeOutlives ==
  ASSUME Inv, NEW epoch \in Nat, KeysOutlive(epoch), NEW r \in Requests, r.key = Slot(r),
         InItsBucket(epoch, r, now), Charge(r), now' = now
  PROVE  /\ KeysOutlive(epoch)'
         /\ \A k \in Keys : count[k] <= count'[k]
<1> DEFINE key == r.key
           updated == count[key] + r.amount
<1>1. /\ key \in Keys /\ r.amount \in Nat \ {0} /\ r.bucket \in Buckets
      /\ key[3] = r.bucket /\ r.received \in Times
  BY RequestFacts DEF Slot
<1>2. /\ count \in [Keys -> Nat] /\ expires \in [Keys -> Nat \cup {None}] /\ now \in Nat
  BY RedisAssumption DEF Inv, RedisInv, TypeOK, CountsAreCharged, Times
<1>3. /\ count' = [count EXCEPT ![key] = updated] /\ updated \in Nat /\ count[key] <= updated
      /\ expires' = IF updated = r.amount THEN [expires EXCEPT ![key] = now + KeyLifetime]
                                          ELSE expires
  BY <1>1, <1>2 DEF Charge, FirstUse
<1>4. updated # r.amount => count[key] > 0
  BY <1>1, <1>2
<1>5. Opens(epoch, r.bucket) \in Int /\ Opens(epoch, r.bucket) <= r.received
      /\ r.received <= now
  BY <1>1, BucketsAreNumbers, BucketIsWindow DEF InItsBucket
<1>6. now + KeyLifetime > Opens(epoch, key[3]) + window_seconds
  <2>1. window_seconds \in Nat /\ r.received \in Nat
    BY <1>1, RedisAssumption DEF Times
  <2> QED
    BY <1>1, <1>2, <1>5, <2>1 DEF KeyLifetime
<1> HIDE DEF key, updated
<1>7. \A k \in Keys : count'[k] = IF k = key THEN updated ELSE count[k]
  BY <1>1, <1>2, <1>3
<1>8. \A k \in Keys : count[k] <= count'[k]
  BY <1>1, <1>2, <1>3, <1>7
<1>9. KeysOutlive(epoch)'
  <2> SUFFICES ASSUME NEW k \in Keys, count'[k] > 0
               PROVE  expires'[k] > Opens(epoch, k[3]) + window_seconds
    BY DEF KeysOutlive, Opens
  <2>1. CASE k = key /\ updated = r.amount
    BY <1>1, <1>2, <1>3, <1>6, <2>1
  <2>2. CASE ~(k = key /\ updated = r.amount)
    <3>1. expires'[k] = expires[k] /\ count[k] > 0
      BY <1>1, <1>2, <1>3, <1>4, <1>7, <2>2
    <3> QED
      BY <3>1 DEF KeysOutlive
  <2> QED
    BY <2>1, <2>2
<1> QED
  BY <1>8, <1>9

\* While requests of a bucket may be under way, its counts are not forgotten.
LEMMA CountsKept ==
  ASSUME Inv, NEW epoch \in Nat, Bucketed(epoch), KeysOutlive(epoch), [Next]_vars
  PROVE  /\ KeysOutlive(epoch)'
         /\ \A k \in Keys : now' <= Opens(epoch, k[3]) + window_seconds => count[k] <= count'[k]
<1>1. count \in [Keys -> Nat] /\ now \in Nat
  BY RedisAssumption DEF Inv, RedisInv, TypeOK, CountsAreCharged, Times
<1>2. CASE UNCHANGED redisVars
  <2>1. \A k \in Keys : count[k] <= count'[k]
    BY <1>1, <1>2 DEF redisVars
  <2> QED
    BY <1>2, <2>1 DEF redisVars, KeysOutlive, Opens
<1>3. ASSUME NEW s \in Servers, RunScript(s), Charge(call[s])
      PROVE  KeysOutlive(epoch)' /\ \A k \in Keys : count[k] <= count'[k]
  <2>1. /\ call[s] \in Requests /\ call[s].key = Slot(call[s]) /\ now' = now
        /\ InItsBucket(epoch, call[s], now)
    BY <1>3 DEF Inv, RedisInv, TypeOK, WellKeyed, Bucketed, RunScript
  <2> QED
    BY <1>3, <2>1, ChargeOutlives
<1>4. ASSUME NEW s \in Servers, RunAbandoned(s), Charge(abandoned[s])
      PROVE  KeysOutlive(epoch)' /\ \A k \in Keys : count[k] <= count'[k]
  <2>1. /\ abandoned[s] \in Requests /\ abandoned[s].key = Slot(abandoned[s]) /\ now' = now
        /\ InItsBucket(epoch, abandoned[s], now)
    BY <1>4 DEF Inv, RedisInv, TypeOK, WellKeyed, Bucketed, RunAbandoned
  <2> QED
    BY <1>4, <2>1, ChargeOutlives
<1>5. CASE Tick
  <2>1. /\ now' = now + 1 /\ count \in [Keys -> Nat]
        /\ \A k \in Keys : /\ count'[k] = IF expires[k] = now + 1 THEN 0 ELSE count[k]
                           /\ expires'[k] = IF expires[k] = now + 1 THEN None ELSE expires[k]
    BY <1>1, <1>5 DEF Tick
  <2>2. KeysOutlive(epoch)'
    BY <2>1 DEF KeysOutlive, Opens
  <2>3. ASSUME NEW k \in Keys, now' <= Opens(epoch, k[3]) + window_seconds
        PROVE  count[k] <= count'[k]
    <3>1. count[k] \in Nat /\ Opens(epoch, k[3]) \in Int /\ window_seconds \in Nat
      BY <2>1, KeyFacts, BucketIsWindow, RedisAssumption
    <3>2. CASE expires[k] = now + 1
      <4>1. ~(expires[k] > Opens(epoch, k[3]) + window_seconds)
        BY <1>1, <2>1, <2>3, <3>1, <3>2
      <4>2. ~(count[k] > 0)
        BY <4>1 DEF KeysOutlive
      <4> QED
        BY <2>1, <3>1, <3>2, <4>2
    <3>3. CASE expires[k] # now + 1
      BY <2>1, <3>1, <3>3
    <3> QED
      BY <3>2, <3>3
  <2> QED
    BY <2>2, <2>3
<1> QED
  BY <1>2, <1>3, <1>4, <1>5 DEF Next, Receive, AskAudioBytes, RunScript, Return, Fail, RunAbandoned, vars

\* What a step makes of the account of a slot.
LEMMA GivenStep ==
  ASSUME Inv, NEW epoch \in Nat, Bucketed(epoch), [Next]_vars, NEW k \in Keys
  PROVE  \/ Given(epoch, k)' = Given(epoch, k)
         \/ \E r \in Requests :
              /\ k = Slot(r) /\ now <= r.received + 1 /\ InItsBucket(epoch, r, now) /\ now' = now
              /\ Given(epoch, k)' = Given(epoch, k) + r.amount /\ r.amount \in Nat
              /\ count'[k] = count[k] + r.amount /\ count'[k] <= Limit(k[1])
<1>1. CASE UNCHANGED timely
  BY <1>1 DEF Given, InBucket, Times
<1>2. ASSUME NEW r \in Requests, r.key = Slot(r), InItsBucket(epoch, r, now), Charge(r), now' = now
      PROVE  \/ Given(epoch, k)' = Given(epoch, k)
             \/ /\ k = Slot(r) /\ now <= r.received + 1 /\ InItsBucket(epoch, r, now) /\ now' = now
                /\ Given(epoch, k)' = Given(epoch, k) + r.amount /\ r.amount \in Nat
                /\ count'[k] = count[k] + r.amount /\ count'[k] <= Limit(k[1])
  BY <1>2, ChargeGives, RequestFacts
<1>3. ASSUME NEW s \in Servers, RunScript(s), Charge(call[s])
      PROVE  /\ call[s] \in Requests /\ call[s].key = Slot(call[s]) /\ now' = now
             /\ InItsBucket(epoch, call[s], now)
  BY <1>3 DEF Inv, RedisInv, TypeOK, WellKeyed, Bucketed, RunScript
<1>4. ASSUME NEW s \in Servers, RunAbandoned(s), Charge(abandoned[s])
      PROVE  /\ abandoned[s] \in Requests /\ abandoned[s].key = Slot(abandoned[s]) /\ now' = now
             /\ InItsBucket(epoch, abandoned[s], now)
  BY <1>4 DEF Inv, RedisInv, TypeOK, WellKeyed, Bucketed, RunAbandoned
<1>5. \/ UNCHANGED timely
      \/ \E s \in Servers : RunScript(s) /\ Charge(call[s])
      \/ \E s \in Servers : RunAbandoned(s) /\ Charge(abandoned[s])
  BY DEF Next, Receive, AskAudioBytes, RunScript, Return, Fail, RunAbandoned, Tick, vars, redisVars
<1> QED
  BY <1>1, <1>2, <1>3, <1>4, <1>5

LEMMA GrantsCountedStep ==
  ASSUME NEW epoch \in Nat, WindowInv(epoch), [Next]_vars
  PROVE  GrantsCounted(epoch)'
<1>0. Inv /\ Bucketed(epoch) /\ KeysOutlive(epoch) /\ GrantsCounted(epoch)
  BY DEF WindowInv
<1> SUFFICES ASSUME NEW k \in Keys
             PROVE  /\ Given(epoch, k)' <= Limit(k[1])
                    /\ now' <= Opens(epoch, k[3]) + window_seconds => Given(epoch, k)' <= count'[k]
  BY DEF GrantsCounted, Opens, Limit
<1> DEFINE was == Given(epoch, k)  is == Given(epoch, k)'
           last == Opens(epoch, k[3]) + window_seconds
<1>1. /\ was \in Nat /\ Limit(k[1]) \in Nat /\ count[k] \in Nat /\ now \in Nat /\ last \in Int
      /\ k[3] \in Int /\ window_seconds \in Nat
  <2>1. was \in Nat
    BY <1>0, GivenTerms DEF Inv, RedisInv
  <2>2. Limit(k[1]) \in Nat /\ k[3] \in Int /\ window_seconds \in Nat
    BY KeyFacts, RedisAssumption
  <2>3. count[k] \in Nat /\ now \in Nat
    BY <1>0, RedisAssumption DEF Inv, RedisInv, TypeOK, CountsAreCharged, Times
  <2>4. Opens(epoch, k[3]) \in Int
    BY <2>2, BucketIsWindow
  <2> QED
    BY <2>1, <2>2, <2>3, <2>4
<1>2. count'[k] \in Nat
  BY <1>0, NextInv DEF Inv, RedisInv, CountsAreCharged
<1>3. was <= Limit(k[1]) /\ (now <= last => was <= count[k])
  BY <1>0 DEF GrantsCounted
<1>4. now <= now' /\ now' \in Nat /\ (now' <= last => count[k] <= count'[k])
  <2>1. now' = now \/ now' = now + 1
    BY TimeAdvances
  <2> QED
    BY <1>0, <1>1, <2>1, CountsKept
<1>5. CASE is = was
  <2> HIDE DEF was, is, last
  <2> QED
    BY <1>1, <1>2, <1>3, <1>4, <1>5 DEF is, last
<1>6. ASSUME NEW r \in Requests, k = Slot(r), now <= r.received + 1, InItsBucket(epoch, r, now),
             now' = now, is = was + r.amount, r.amount \in Nat,
             count'[k] = count[k] + r.amount, count'[k] <= Limit(k[1])
      PROVE  is <= Limit(k[1]) /\ (now' <= last => is <= count'[k])
  <2>1. k[3] = r.bucket /\ r.received \in InBucket(epoch, k[3]) /\ r.received \in Times
    BY <1>6 DEF Slot, InItsBucket, Requests
  <2>2. r.received < last
    BY <1>1, <2>1, BucketIsWindow
  <2>3. r.received \in Nat
    BY <2>1, RedisAssumption DEF Times
  <2>4. now <= last
    BY <1>1, <1>6, <2>2, <2>3
  <2> DEFINE n == r.amount
  <2>5. n \in Nat /\ is = was + n /\ count'[k] = count[k] + n
    BY <1>6
  <2> HIDE DEF was, is, last, n
  <2> QED
    BY <1>1, <1>2, <1>3, <1>6, <2>4, <2>5
<1>7. is = was \/ \E r \in Requests :
        /\ k = Slot(r) /\ now <= r.received + 1 /\ InItsBucket(epoch, r, now) /\ now' = now
        /\ is = was + r.amount /\ r.amount \in Nat
        /\ count'[k] = count[k] + r.amount /\ count'[k] <= Limit(k[1])
  BY <1>0, GivenStep
<1> QED
  BY <1>5, <1>6, <1>7

LEMMA WindowInit ==
  ASSUME Init, NEW epoch \in Nat
  PROVE  WindowInv(epoch)
<1>1. Inv
  BY InitInv DEF Inv
<1>2. \A s \in Servers : call[s] = None /\ abandoned[s] = None
  BY DEF Init
<1>3. \A k \in Keys : count[k] = 0
  BY DEF Init
<1>4. ASSUME NEW k \in Keys PROVE Given(epoch, k) = 0
  <2>1. \A t \in Times : timely[<<k[1], k[2]>>][t] = 0
    BY KeyFacts DEF Init
  <2>2. NatOn(timely[<<k[1], k[2]>>], {})
    BY DEF NatOn
  <2>3. /\ IsFiniteSet(InBucket(epoch, k[3])) /\ NatOn(timely[<<k[1], k[2]>>], InBucket(epoch, k[3]))
        /\ InBucket(epoch, k[3]) \in SUBSET Times
    BY <1>1, GivenTerms DEF Inv, RedisInv
  <2>4. SumFunctionOnSet(timely[<<k[1], k[2]>>], InBucket(epoch, k[3]))
          = SumFunctionOnSet(timely[<<k[1], k[2]>>], {})
    <3>1. {} \in SUBSET InBucket(epoch, k[3])
          /\ \A t \in InBucket(epoch, k[3]) \ {} : timely[<<k[1], k[2]>>][t] = 0
      BY <2>1, <2>3
    <3> QED
      BY <2>3, <3>1, SumOfSubset
  <2> QED
    BY <2>4, SumEmpty DEF Given
<1>5. GrantsCounted(epoch)
  <2>1. \A k \in Keys : Limit(k[1]) \in Nat
    BY KeyFacts
  <2> QED
    BY <1>3, <1>4, <2>1 DEF GrantsCounted
<1> QED
  BY <1>1, <1>2, <1>3, <1>5 DEF WindowInv, Bucketed, KeysOutlive

\* The windows of the limit are those of the buckets.
LEMMA BucketsAreWindows ==
  ASSUME NEW epoch \in Nat, ClocksAgree(epoch), WindowInv(epoch)
  PROVE  FixedWindowLimit
<1> DEFINE first == epoch \div window_seconds
           phase == epoch - first * window_seconds
<1>1. window_seconds \in Nat \ {0} /\ MaxTime \in Nat
  BY RedisAssumption
<1>2. first \in Int
  BY <1>1
<1>3. first * window_seconds <= epoch /\ epoch < first * window_seconds + window_seconds
  BY <1>1, <1>2, DivMeans
<1>4. first * window_seconds \in Int
  BY <1>1, <1>2
<1>5. phase \in 0..window_seconds - 1
  BY <1>1, <1>3, <1>4
<1>6. ASSUME NEW kind \in Kinds, NEW identity \in Identities, NEW w \in 0..MaxTime
      PROVE  SumFunctionOnSet(timely[<<kind, identity>>],
                              {t \in Times : (t + phase) \div window_seconds = w}) <= Limit(kind)
  <2> DEFINE window == {t \in Times : (t + phase) \div window_seconds = w}
             bucket == w + first
             row == timely[<<kind, identity>>]
             start == first * window_seconds
             length == w * window_seconds
  <2>1. window = InBucket(epoch, bucket)
    <3> SUFFICES ASSUME NEW t \in Times
                 PROVE  (t + phase) \div window_seconds = w
                          <=> (epoch + t) \div window_seconds = bucket
      BY DEF InBucket
    <3>1. t + phase \in Nat /\ epoch + t \in Nat /\ w \in Int /\ bucket \in Int
      BY <1>1, <1>2, <1>5 DEF Times
    <3>2. (t + phase) \div window_seconds = w
            <=> (length <= t + phase /\ t + phase < length + window_seconds)
      BY <1>1, <3>1, DivMeans
    <3>3. (epoch + t) \div window_seconds = bucket
            <=> (bucket * window_seconds <= epoch + t
                   /\ epoch + t < bucket * window_seconds + window_seconds)
      BY <1>1, <3>1, DivMeans
    <3>4. bucket * window_seconds = length + start
      BY <1>1, <1>2
    <3>5. length \in Int /\ start \in Int /\ phase = epoch - start /\ t \in Int /\ window_seconds \in Int
      BY <1>1, <1>4 DEF Times
    <3> HIDE DEF length, start, phase, bucket
    <3> QED
      BY <3>2, <3>3, <3>4, <3>5
  <2>2. CASE window = {}
    <3>1. SumFunctionOnSet(row, {}) = 0 /\ Limit(kind) \in Nat
      BY SumEmpty, LimitsArePositive
    <3> HIDE DEF window, row
    <3>2. SumFunctionOnSet(row, window) <= Limit(kind)
      BY <2>2, <3>1
    <3> QED
      BY <3>2 DEF window, row
  <2>3. CASE window # {}
    <3>1. PICK t \in Times, s \in Servers : (epoch + t) \div window_seconds = bucket
      BY <2>1, <2>3, RedisAssumption DEF InBucket
    <3>2. bucket \in Buckets
      BY <3>1 DEF ClocksAgree, Bucket, Buckets
    <3> DEFINE k == <<kind, identity, bucket>>
    <3>3. k \in Keys /\ k[1] = kind /\ k[2] = identity /\ k[3] = bucket
      BY <3>2, KeysAreSlots
    <3> HIDE DEF k, bucket
    <3>4. Given(epoch, k) <= Limit(kind)
      BY <3>3 DEF WindowInv, GrantsCounted
    <3>5. Given(epoch, k) = SumFunctionOnSet(row, window)
      BY <2>1, <3>3 DEF Given
    <3> HIDE DEF window, row
    <3>6. SumFunctionOnSet(row, window) <= Limit(kind)
      BY <3>4, <3>5
    <3> QED
      BY <3>6 DEF window, row
  <2> QED
    BY <2>2, <2>3
<1> QED
  BY <1>5, <1>6 DEF FixedWindowLimit

\* The documented limit, for any servers on one host, any limits, window, chunk sizes and
\* failures, any duration of a request and any order of messages, replies, expiries and
\* scripts that run too late, as far as the grants are made within a second of their
\* message.  The processes read the same clock: those of hosts that were started at
\* different times do not, and what they grant together is not limited.
THEOREM WindowLimitHolds ==
  ASSUME \A s, t \in Servers : Epoch[s] = Epoch[t]
  PROVE  Spec => []FixedWindowLimit
<1>1. PICK server \in Servers : TRUE
  BY RedisAssumption
<1> DEFINE epoch == Epoch[server]
<1>2. epoch \in Nat /\ ClocksAgree(epoch)
  BY RedisAssumption DEF ClocksAgree
<1> HIDE DEF epoch
<1>3. Init => WindowInv(epoch)
  BY <1>2, WindowInit
<1>4. WindowInv(epoch) /\ [Next]_vars => WindowInv(epoch)'
  <2> SUFFICES ASSUME WindowInv(epoch), [Next]_vars PROVE WindowInv(epoch)'
    OBVIOUS
  <2>1. Inv /\ Bucketed(epoch) /\ KeysOutlive(epoch)
    BY DEF WindowInv
  <2>2. Inv' /\ Bucketed(epoch)' /\ KeysOutlive(epoch)' /\ GrantsCounted(epoch)'
    BY <1>2, <2>1, NextInv, BucketedStep, CountsKept, GrantsCountedStep
  <2> QED
    BY <2>2 DEF WindowInv
<1>5. WindowInv(epoch) => FixedWindowLimit
  BY <1>2, BucketsAreWindows
<1> QED
  BY <1>3, <1>4, <1>5, PTL DEF Spec
==============================================================================
