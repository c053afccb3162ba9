----------------------- MODULE MemoryRateLimiter_proofs -----------------------
(***************************************************************************)
(* Proofs about MemoryRateLimiter, for any identities, limits, window and  *)
(* chunk sizes and any clock: what the deques and the byte counter hold    *)
(* stays consistent, and together they implement one sliding window of     *)
(* events and one of audio.                                                *)
(***************************************************************************)
EXTENDS MemoryRateLimiter, SequenceTheorems, Sums

(***************************************************************************)
(* A deque is sorted, so the requests after any moment are the ones behind *)
(* a cut.  A limiter forgets, at a trim, what is older than a window; what *)
(* it keeps is what was granted since any later moment, in particular      *)
(* since every moment at which a window that is still to come begins.      *)
(***************************************************************************)
Moments == (-window_seconds)..MaxTime

\* In `times`, the first m are not after `moment` and the others are.
CutAt(times, moment, m) ==
  /\ m \in 0..Len(times)
  /\ \A k \in 1..m : times[k] <= moment
  /\ \A k \in (m + 1)..Len(times) : moment < times[k]

After(moment) == {t \in Times : moment < t}

GrantedAfter(f, moment) == SumFunctionOnSet(f, After(moment))

\* A sequence of moments in the past, in order.
History(times) ==
  /\ times \in Seq(Times)
  /\ \A j, k \in 1..Len(times) : j < k => times[j] <= times[k]
  /\ \A k \in 1..Len(times) : times[k] <= now

Chunks == [time : Times, size : ChunkSizes]

NothingAhead(f) == f \in [Times -> Nat] /\ \A t \in Times : now < t => f[t] = 0

\* An event deque, with what its identity was granted.
EventsMatch(times, f) ==
  /\ History(times) /\ NothingAhead(f)
  /\ \A moment \in Moments, m \in 0..Len(times) :
       now - window_seconds <= moment /\ CutAt(times, moment, m) =>
         GrantedAfter(f, moment) = Len(times) - m

\* An audio deque, with what its identity was granted.
ChunksMatch(chunks, f) ==
  /\ chunks \in Seq(Chunks) /\ History(ArrivalTimes(chunks)) /\ NothingAhead(f)
  /\ \A moment \in Moments, m \in 0..Len(chunks) :
       now - window_seconds <= moment /\ CutAt(ArrivalTimes(chunks), moment, m) =>
         GrantedAfter(f, moment) = TotalSize(Drop(chunks, m))

EventsKept(i) ==
  /\ EventsMatch(event_timestamps[i], granted_events[i])
  /\ Len(event_timestamps[i]) <= event_limit

AudioKept(i) ==
  /\ ChunksMatch(audio_chunks[i], granted_audio[i])
  /\ audio_bytes_in_window[i] = TotalSize(audio_chunks[i])
  /\ audio_bytes_in_window[i] <= audio_bytes_limit

LimiterInv ==
  /\ now \in Times
  /\ event_timestamps \in [Identities -> Seq(Times)]
  /\ audio_chunks \in [Identities -> Seq(Chunks)]
  /\ audio_bytes_in_window \in [Identities -> Nat]
  /\ granted_events \in [Identities -> [Times -> Nat]]
  /\ granted_audio \in [Identities -> [Times -> Nat]]
  /\ \A i \in Identities : EventsKept(i) /\ AudioKept(i)
-----------------------------------------------------------------------------
LEMMA DropFacts ==
  ASSUME NEW S, NEW q \in Seq(S), NEW n \in 0..Len(q)
  PROVE  /\ Drop(q, n) \in Seq(S) /\ Len(Drop(q, n)) = Len(q) - n
         /\ \A k \in 1..(Len(q) - n) : Drop(q, n)[k] = q[n + k]
<1>1. Len(q) \in Nat /\ n \in Nat /\ n <= Len(q) /\ \A i \in (n + 1)..Len(q) : q[i] \in S
  BY LenProperties
<1> DEFINE d == SubSeq(q, n + 1, Len(q))
<1>2. /\ d \in Seq(S) /\ Len(d) = IF n + 1 <= Len(q) THEN Len(q) - (n + 1) + 1 ELSE 0
      /\ \A i \in 1..(Len(q) - (n + 1) + 1) : d[i] = q[(n + 1) + i - 1]
  BY <1>1, SubSeqProperties
<1>3. Len(d) = Len(q) - n
  BY <1>1, <1>2
<1>4. ASSUME NEW k \in 1..(Len(q) - n)
      PROVE  d[k] = q[n + k]
  <2>1. k \in 1..(Len(q) - (n + 1) + 1) /\ (n + 1) + k - 1 = n + k
    BY <1>1
  <2> QED
    BY <1>2, <2>1
<1> QED
  BY <1>2, <1>3, <1>4 DEF Drop

LEMMA DropDrop ==
  ASSUME NEW S, NEW q \in Seq(S), NEW n \in 0..Len(q), NEW m \in 0..(Len(q) - n)
  PROVE  n + m \in 0..Len(q) /\ Drop(Drop(q, n), m) = Drop(q, n + m)
<1> DEFINE d == Drop(q, n)
<1>0. Len(q) \in Nat /\ n \in Nat /\ m \in Nat
  BY LenProperties
<1>1. n + m \in 0..Len(q)
  BY <1>0
<1>2. d \in Seq(S) /\ Len(d) = Len(q) - n /\ \A k \in 1..(Len(q) - n) : d[k] = q[n + k]
  BY DropFacts
<1> HIDE DEF d
<1>2a. m \in 0..Len(d)
  BY <1>0, <1>2
<1>3. /\ Drop(d, m) \in Seq(S) /\ Len(Drop(d, m)) = Len(d) - m
      /\ \A k \in 1..(Len(d) - m) : Drop(d, m)[k] = d[m + k]
  BY <1>2, <1>2a, DropFacts
<1>4. /\ Drop(q, n + m) \in Seq(S) /\ Len(Drop(q, n + m)) = Len(q) - (n + m)
      /\ \A k \in 1..(Len(q) - (n + m)) : Drop(q, n + m)[k] = q[(n + m) + k]
  BY <1>1, DropFacts
<1>5. ASSUME NEW k \in 1..Len(Drop(d, m))
      PROVE  Drop(d, m)[k] = Drop(q, n + m)[k]
  <2>1. k \in 1..(Len(d) - m) /\ m + k \in 1..(Len(q) - n) /\ k \in 1..(Len(q) - (n + m)) /\ n + (m + k) = (n + m) + k
    BY <1>0, <1>2, <1>3
  <2> QED
    BY <1>2, <1>3, <1>4, <2>1
<1>6. Len(Drop(d, m)) = Len(Drop(q, n + m))
  <2>1. (Len(q) - n) - m = Len(q) - (n + m)
    BY <1>0
  <2>2. Len(Drop(d, m)) = (Len(q) - n) - m
    BY <1>2, <1>3
  <2> QED
    BY <1>4, <2>1, <2>2
<1>7. Drop(d, m) = Drop(q, n + m)
  BY <1>3, <1>4, <1>5, <1>6, SeqEqual
<1> QED
  BY <1>1, <1>7 DEF d

LEMMA DropAppend ==
  ASSUME NEW S, NEW q \in Seq(S), NEW e \in S, NEW n \in 0..Len(q)
  PROVE  Drop(Append(q, e), n) = Append(Drop(q, n), e)
<1> DEFINE a == Append(q, e)
           d == Drop(q, n)
           b == Append(d, e)
<1>0. Len(q) \in Nat /\ n \in Nat /\ n <= Len(q)
  BY LenProperties
<1>1. a \in Seq(S) /\ Len(a) = Len(q) + 1 /\ (\A i \in 1..Len(q) : a[i] = q[i]) /\ a[Len(q) + 1] = e
  BY AppendProperties
<1>2. d \in Seq(S) /\ Len(d) = Len(q) - n /\ \A k \in 1..(Len(q) - n) : d[k] = q[n + k]
  BY DropFacts
<1> HIDE DEF a, d
<1>3. b \in Seq(S) /\ Len(b) = Len(d) + 1 /\ (\A i \in 1..Len(d) : b[i] = d[i]) /\ b[Len(d) + 1] = e
  BY <1>2, AppendProperties
<1>4. n \in 0..Len(a)
  BY <1>0, <1>1
<1>5. /\ Drop(a, n) \in Seq(S) /\ Len(Drop(a, n)) = Len(a) - n
      /\ \A k \in 1..(Len(a) - n) : Drop(a, n)[k] = a[n + k]
  BY <1>1, <1>4, DropFacts
<1> HIDE DEF b
<1>6. ASSUME NEW k \in 1..Len(Drop(a, n))
      PROVE  Drop(a, n)[k] = b[k]
  <2>1. k \in 1..(Len(a) - n) /\ Drop(a, n)[k] = a[n + k]
    BY <1>5
  <2>2. CASE k <= Len(d)
    <3>1. k \in 1..Len(d) /\ n + k \in 1..Len(q) /\ k \in 1..(Len(q) - n)
      BY <1>0, <1>2, <2>1, <2>2
    <3> QED
      BY <1>1, <1>2, <1>3, <2>1, <3>1
  <2>3. CASE k > Len(d)
    <3>1. k = Len(d) + 1 /\ n + k = Len(q) + 1
      BY <1>0, <1>1, <1>2, <2>1, <2>3
    <3> QED
      BY <1>1, <1>3, <2>1, <3>1
  <2>4. k \in Int /\ Len(d) \in Int
    BY <1>0, <1>2
  <2> QED
    BY <2>2, <2>3, <2>4
<1>7. Len(Drop(a, n)) = Len(b)
  BY <1>0, <1>1, <1>2, <1>3, <1>5
<1>8. Drop(a, n) = b
  BY <1>3, <1>5, <1>6, <1>7, SeqEqual
<1> QED
  BY <1>8 DEF a, b, d

\* A total is that of a first part and that of the rest.
LEMMA TotalSplit ==
  ASSUME NEW S, \A s \in S : s.size \in Nat, NEW q \in Seq(S), NEW n \in 0..Len(q)
  PROVE  /\ TotalSize(SubSeq(q, 1, n)) \in Nat /\ TotalSize(Drop(q, n)) \in Nat
         /\ TotalSize(q) = TotalSize(SubSeq(q, 1, n)) + TotalSize(Drop(q, n))
<1>0. Len(q) \in Nat /\ n \in Nat /\ n <= Len(q) /\ \A i \in 1..Len(q) : q[i] \in S
  BY LenProperties
<1> DEFINE Part(a, b) == SubSeq(q, a, b)
           Whole(b) == TotalSize(Part(1, b)) = TotalSize(Part(1, n)) + TotalSize(Part(n + 1, b))
           P == {b \in Nat : n + b <= Len(q) => Whole(n + b)}
<1>1. \A a \in 1..(n + 1), b \in 0..Len(q) : Part(a, b) \in Seq(S) /\ TotalSize(Part(a, b)) \in Nat
  <2> SUFFICES ASSUME NEW a \in 1..(n + 1), NEW b \in 0..Len(q)
               PROVE  Part(a, b) \in Seq(S) /\ TotalSize(Part(a, b)) \in Nat
    OBVIOUS
  <2>1. \A i \in a..b : q[i] \in S
    BY <1>0
  <2>2. Part(a, b) \in Seq(S)
    BY <2>1, SubSeqProperties
  <2> HIDE DEF Part
  <2> QED
    BY <2>2, TotalSizeFacts
<1>2. ASSUME NEW a \in 1..(n + 1), NEW b \in 0..(Len(q) - 1), a <= b + 1
      PROVE  TotalSize(Part(a, b + 1)) = TotalSize(Part(a, b)) + q[b + 1].size
  <2>1. b + 1 \in 1..Len(q) /\ b \in 0..Len(q) /\ b + 1 \in 0..Len(q) /\ q[b + 1] \in S
    BY <1>0
  <2>2. /\ Len(Part(a, b)) = b - a + 1 /\ \A i \in 1..(b - a + 1) : Part(a, b)[i] = q[a + i - 1]
    <3>1. \A i \in a..b : q[i] \in S
      BY <1>0
    <3>2. /\ Len(Part(a, b)) = IF a <= b THEN b - a + 1 ELSE 0
          /\ \A i \in 1..(b - a + 1) : Part(a, b)[i] = q[a + i - 1]
      BY <3>1, SubSeqProperties
    <3> QED
      BY <1>2, <3>2
  <2>3. /\ Len(Part(a, b + 1)) = b - a + 2 /\ \A i \in 1..(b - a + 2) : Part(a, b + 1)[i] = q[a + i - 1]
    <3>1. \A i \in a..(b + 1) : q[i] \in S
      BY <1>0
    <3>2. /\ Len(Part(a, b + 1)) = IF a <= b + 1 THEN (b + 1) - a + 1 ELSE 0
          /\ \A i \in 1..((b + 1) - a + 1) : Part(a, b + 1)[i] = q[a + i - 1]
      BY <2>1, <3>1, SubSeqProperties
    <3>3. (b + 1) - a + 1 = b - a + 2
      OBVIOUS
    <3> QED
      BY <1>2, <3>2, <3>3
  <2>4. Part(a, b) \in Seq(S) /\ Part(a, b + 1) \in Seq(S)
    BY <1>1, <2>1
  <2> DEFINE s == Part(a, b)
             t == Part(a, b + 1)
             u == Append(s, q[b + 1])
  <2>5. s \in Seq(S) /\ t \in Seq(S) /\ Len(t) = Len(s) + 1 /\ Len(s) = b - a + 1
    BY <1>2, <2>2, <2>3, <2>4
  <2>6. \A i \in 1..Len(s) : t[i] = s[i]
    BY <2>2, <2>3
  <2>7. t[Len(s) + 1] = q[b + 1]
    <3>1. b - a + 2 \in 1..(b - a + 2) /\ a + (b - a + 2) - 1 = b + 1 /\ Len(s) + 1 = b - a + 2
      BY <1>2, <2>5
    <3> QED
      BY <2>3, <3>1
  <2> HIDE DEF s, t, Part
  <2>8. u \in Seq(S) /\ Len(u) = Len(s) + 1 /\ (\A i \in 1..Len(s) : u[i] = s[i]) /\ u[Len(s) + 1] = q[b + 1]
    BY <2>1, <2>5, AppendProperties
  <2> HIDE DEF u
  <2>9. \A i \in 1..Len(t) : t[i] = u[i]
    <3>1. \A i \in 1..(Len(s) + 1) : i \in 1..Len(s) \/ i = Len(s) + 1
      BY <1>2, <2>5
    <3> QED
      BY <2>5, <2>6, <2>7, <2>8, <3>1
  <2>10. t = u
    BY <2>5, <2>8, <2>9, SeqEqual
  <2>11. TotalSize(u) = TotalSize(s) + q[b + 1].size
    BY <2>1, <2>5, TotalSizeFacts DEF u
  <2> QED
    BY <2>10, <2>11 DEF s, t
<1>3. Whole(n)
  <2>1. Part(n + 1, n) = <<>>
    BY <1>0, SubSeqEmpty
  <2>2. TotalSize(Part(n + 1, n)) = 0
    BY <2>1, TotalSizeFacts
  <2>3. TotalSize(Part(1, n)) \in Nat
    BY <1>0, <1>1
  <2> HIDE DEF Part
  <2> QED
    BY <2>2, <2>3
<1>4. ASSUME NEW b \in P, n + (b + 1) <= Len(q)
      PROVE  Whole(n + (b + 1))
  <2>1. b \in Nat /\ n + b <= Len(q) /\ Whole(n + b)
    BY <1>0, <1>4
  <2> DEFINE c == n + b
  <2>2. c \in 0..(Len(q) - 1) /\ n + (b + 1) = c + 1 /\ 1 <= c + 1 /\ n + 1 <= c + 1 /\ 1 \in 1..(n + 1)
        /\ n + 1 \in 1..(n + 1) /\ c + 1 \in 1..Len(q) /\ c \in 0..Len(q) /\ n \in 0..Len(q)
    BY <1>0, <1>4, <2>1
  <2> HIDE DEF c
  <2>3. /\ TotalSize(Part(1, c + 1)) = TotalSize(Part(1, c)) + q[c + 1].size
        /\ TotalSize(Part(n + 1, c + 1)) = TotalSize(Part(n + 1, c)) + q[c + 1].size
    BY <1>2, <2>2
  <2>4. /\ TotalSize(Part(1, c)) \in Nat /\ TotalSize(Part(n + 1, c)) \in Nat /\ TotalSize(Part(1, n)) \in Nat
        /\ q[c + 1].size \in Nat
    BY <1>0, <1>1, <2>2
  <2>5. TotalSize(Part(1, c)) = TotalSize(Part(1, n)) + TotalSize(Part(n + 1, c))
    BY <2>1 DEF c
  <2> HIDE DEF Part
  <2>6. Whole(c + 1)
    BY <2>3, <2>4, <2>5
  <2> QED
    BY <2>2, <2>6
<1>5. P = Nat
  <2>1. P \in SUBSET Nat
    OBVIOUS
  <2>2. 0 \in P
    <3> HIDE DEF Whole
    <3> QED
      BY <1>0, <1>3
  <2>3. \A b \in P : b + 1 \in P
    <3> HIDE DEF Whole
    <3> QED
      BY <1>4
  <2> HIDE DEF P
  <2> QED
    BY <2>1, <2>2, <2>3, NatSetInduction
<1>6. Whole(Len(q))
  <2> HIDE DEF Whole
  <2>1. Len(q) - n \in Nat /\ n + (Len(q) - n) = Len(q)
    BY <1>0
  <2>2. Len(q) - n \in P
    <3> HIDE DEF P
    <3> QED
      BY <1>5, <2>1
  <2>3. Whole(n + (Len(q) - n))
    BY <1>0, <2>1, <2>2
  <2> QED
    BY <2>1, <2>3
<1>7. Part(1, Len(q)) = q
  BY SubSeqFull
<1>8. TotalSize(Part(1, n)) \in Nat /\ TotalSize(Part(n + 1, Len(q))) \in Nat
  BY <1>0, <1>1
<1> QED
  BY <1>6, <1>7, <1>8 DEF Drop
-----------------------------------------------------------------------------
LEMMA HistoryFacts ==
  ASSUME NEW times, History(times)
  PROVE  /\ times \in Seq(Times) /\ Len(times) \in Nat
         /\ \A k \in 1..Len(times) : times[k] \in Times /\ times[k] \in Int /\ times[k] <= now
         /\ \A j, k \in 1..Len(times) : j <= k => times[j] <= times[k]
<1>1. times \in Seq(Times) /\ Len(times) \in Nat /\ \A k \in 1..Len(times) : times[k] \in Times
  BY LenProperties DEF History
<1>2. \A k \in 1..Len(times) : times[k] \in Int
  BY <1>1, LimiterAssumption DEF Times
<1>3. ASSUME NEW j \in 1..Len(times), NEW k \in 1..Len(times), j <= k
      PROVE  times[j] <= times[k]
  <2>1. j < k => times[j] <= times[k]
    BY DEF History
  <2>2. j = k => times[j] <= times[k]
    BY <1>2
  <2> QED
    BY <1>3, <2>1, <2>2
<1> QED
  BY <1>1, <1>2, <1>3 DEF History

\* There is one place to cut a history at a moment.
LEMMA CutsExist ==
  ASSUME NEW times, History(times), NEW moment \in Int
  PROVE  \E m \in 0..Len(times) : CutAt(times, moment, m)
<1> DEFINE S == {k \in 1..Len(times) : times[k] <= moment}
<1>1. /\ Len(times) \in Nat /\ \A k \in 1..Len(times) : times[k] \in Int
      /\ \A j, k \in 1..Len(times) : j <= k => times[j] <= times[k]
  BY HistoryFacts
<1>2. CASE S = {}
  <2>1. CutAt(times, moment, 0)
    BY <1>1, <1>2 DEF CutAt
  <2> QED
    BY <1>1, <2>1
<1>3. CASE S # {}
  <2>1. S \in SUBSET Nat /\ IsFiniteSet(S)
    <3>1. IsFiniteSet(1..Len(times)) /\ S \in SUBSET (1..Len(times)) /\ (1..Len(times)) \in SUBSET Nat
      BY <1>1, FS_Interval
    <3> HIDE DEF S
    <3> QED
      BY <3>1, FS_Subset
  <2> DEFINE m == Max(S)
  <2>2. m \in S /\ \A x \in S : x <= m
    <3> HIDE DEF S
    <3> QED
      BY <1>3, <2>1, MaxIsMember
  <2> HIDE DEF m
  <2>3. m \in 1..Len(times) /\ times[m] <= moment /\ \A k \in 1..Len(times) : times[k] <= moment => k <= m
    BY <2>2
  <2> HIDE DEF S
  <2>4. \A k \in 1..m : times[k] <= moment
    <3> SUFFICES ASSUME NEW k \in 1..m PROVE times[k] <= moment
      OBVIOUS
    <3>1. k \in 1..Len(times) /\ k <= m
      BY <1>1, <2>3
    <3> QED
      BY <1>1, <2>3, <3>1
  <2>5. \A k \in (m + 1)..Len(times) : moment < times[k]
    <3> SUFFICES ASSUME NEW k \in (m + 1)..Len(times) PROVE moment < times[k]
      OBVIOUS
    <3>1. k \in 1..Len(times) /\ ~(k <= m)
      BY <1>1, <2>3
    <3> QED
      BY <1>1, <2>3, <3>1
  <2>6. m \in 0..Len(times)
    BY <1>1, <2>3
  <2> QED
    BY <2>4, <2>5, <2>6 DEF CutAt
<1> QED
  BY <1>2, <1>3

\* _trim pops exactly what is not after the start of the window.
LEMMA StaleIsCut ==
  ASSUME NEW times, History(times), now \in Times
  PROVE  Stale(times) \in 0..Len(times) /\ CutAt(times, now - window_seconds, Stale(times))
<1> DEFINE moment == now - window_seconds
           P(n) == /\ \A k \in 1..n : Expired(times[k])
                   /\ n < Len(times) => ~Expired(times[n + 1])
<1>1. /\ Len(times) \in Nat /\ \A k \in 1..Len(times) : times[k] \in Int
      /\ \A j, k \in 1..Len(times) : j <= k => times[j] <= times[k]
  BY HistoryFacts
<1>2. moment \in Int
  BY LimiterAssumption DEF Times
<1>3. PICK m \in 0..Len(times) : CutAt(times, moment, m)
  BY <1>2, CutsExist
<1>4. P(m)
  <2>1. \A k \in 1..m : Expired(times[k])
    BY <1>3 DEF CutAt, Expired
  <2>2. m < Len(times) => ~Expired(times[m + 1])
    <3>1. m < Len(times) => m + 1 \in (m + 1)..Len(times) /\ m + 1 \in 1..Len(times)
      BY <1>1
    <3> QED
      BY <1>1, <1>2, <1>3, <3>1 DEF CutAt, Expired
  <2> QED
    BY <2>1, <2>2
<1>5. Stale(times) \in 0..Len(times) /\ P(Stale(times))
  <2>1. Stale(times) = CHOOSE n \in 0..Len(times) : P(n)
    BY DEF Stale
  <2> HIDE DEF P
  <2> QED
    BY <1>4, <2>1
<1> DEFINE n == Stale(times)
<1>6. n \in 0..Len(times) /\ (\A k \in 1..n : times[k] <= moment)
      /\ (n < Len(times) => ~(times[n + 1] <= moment))
  BY <1>5 DEF Expired
<1> HIDE DEF n, moment
<1>7. \A k \in (n + 1)..Len(times) : moment < times[k]
  <2> SUFFICES ASSUME NEW k \in (n + 1)..Len(times) PROVE moment < times[k]
    OBVIOUS
  <2>1. n < Len(times) /\ n + 1 \in 1..Len(times) /\ k \in 1..Len(times) /\ n + 1 <= k
    BY <1>1, <1>6
  <2>2. times[n + 1] <= times[k] /\ ~(times[n + 1] <= moment) /\ times[n + 1] \in Int /\ times[k] \in Int
    BY <1>1, <1>6, <2>1
  <2> QED
    BY <1>2, <2>2
<1>8. CutAt(times, moment, n)
  BY <1>6, <1>7 DEF CutAt
<1> QED
  BY <1>5, <1>8 DEF n, moment

\* What is left after a cut is a history, and its later cuts are those of the whole.
LEMMA CutHistory ==
  ASSUME NEW times, History(times), NEW start \in Int, NEW n \in 0..Len(times),
         CutAt(times, start, n)
  PROVE  /\ History(Drop(times, n)) /\ Len(Drop(times, n)) = Len(times) - n
         /\ \A moment \in Int, m \in 0..(Len(times) - n) :
              start <= moment /\ CutAt(Drop(times, n), moment, m)
                => n + m \in 0..Len(times) /\ CutAt(times, moment, n + m)
<1> DEFINE d == Drop(times, n)
<1>1. /\ times \in Seq(Times) /\ Len(times) \in Nat
      /\ \A k \in 1..Len(times) : times[k] \in Times /\ times[k] \in Int /\ times[k] <= now
      /\ \A j, k \in 1..Len(times) : j <= k => times[j] <= times[k]
  BY HistoryFacts
<1>2. d \in Seq(Times) /\ Len(d) = Len(times) - n /\ \A k \in 1..(Len(times) - n) : d[k] = times[n + k]
  BY <1>1, DropFacts
<1> HIDE DEF d
<1>3. \A k \in 1..Len(d) : n + k \in 1..Len(times) /\ d[k] = times[n + k]
  BY <1>1, <1>2
<1>4. \A j, k \in 1..Len(d) : j < k => d[j] <= d[k]
  <2> SUFFICES ASSUME NEW j \in 1..Len(d), NEW k \in 1..Len(d), j < k PROVE d[j] <= d[k]
    OBVIOUS
  <2>1. n + j <= n + k
    BY <1>1
  <2> QED
    BY <1>1, <1>3, <2>1
<1>5. History(d)
  BY <1>1, <1>2, <1>3, <1>4 DEF History
<1>6. ASSUME NEW moment \in Int, NEW m \in 0..(Len(times) - n), start <= moment, CutAt(d, moment, m)
      PROVE  n + m \in 0..Len(times) /\ CutAt(times, moment, n + m)
  <2>1. n + m \in 0..Len(times)
    BY <1>1
  <2>2. ASSUME NEW k \in 1..(n + m) PROVE times[k] <= moment
    <3>1. CASE k <= n
      <4>1. k \in 1..n /\ k \in 1..Len(times)
        BY <1>1, <3>1
      <4>2. times[k] <= start /\ times[k] \in Int
        BY <1>1, <4>1 DEF CutAt
      <4> QED
        BY <1>6, <4>2
    <3>2. CASE ~(k <= n)
      <4>1. k - n \in 1..m /\ k - n \in 1..Len(d) /\ n + (k - n) = k
        BY <1>1, <1>2, <3>2
      <4> QED
        BY <1>3, <1>6, <4>1 DEF CutAt
    <3> QED
      BY <3>1, <3>2
  <2>3. ASSUME NEW k \in ((n + m) + 1)..Len(times) PROVE moment < times[k]
    <3>1. k - n \in (m + 1)..Len(d) /\ k - n \in 1..Len(d) /\ n + (k - n) = k
      BY <1>1, <1>2
    <3> QED
      BY <1>3, <1>6, <3>1 DEF CutAt
  <2> QED
    BY <2>1, <2>2, <2>3 DEF CutAt
<1> QED
  BY <1>2, <1>5, <1>6 DEF d

\* A request of this moment comes last; it is behind the cut at any moment before it.
LEMMA LaterHistory ==
  ASSUME NEW times, History(times), now \in Times
  PROVE  /\ History(Append(times, now)) /\ Len(Append(times, now)) = Len(times) + 1
         /\ \A moment \in Int, m \in 0..(Len(times) + 1) :
              CutAt(Append(times, now), moment, m) =>
                IF moment < now THEN m \in 0..Len(times) /\ CutAt(times, moment, m)
                                ELSE m = Len(times) + 1
<1> DEFINE d == Append(times, now)
<1>1. /\ times \in Seq(Times) /\ Len(times) \in Nat
      /\ \A k \in 1..Len(times) : times[k] \in Times /\ times[k] \in Int /\ times[k] <= now
      /\ \A j, k \in 1..Len(times) : j <= k => times[j] <= times[k]
  BY HistoryFacts
<1>2. d \in Seq(Times) /\ Len(d) = Len(times) + 1 /\ (\A k \in 1..Len(times) : d[k] = times[k]) /\ d[Len(times) + 1] = now
  BY <1>1, AppendProperties
<1>0. now \in Int
  BY LimiterAssumption DEF Times
<1> HIDE DEF d
<1>3. \A k \in 1..Len(d) : d[k] <= now
  <2> SUFFICES ASSUME NEW k \in 1..Len(d) PROVE d[k] <= now
    OBVIOUS
  <2>1. k \in 1..Len(times) \/ k = Len(times) + 1
    BY <1>1, <1>2
  <2> QED
    BY <1>0, <1>1, <1>2, <2>1
<1>4. \A j, k \in 1..Len(d) : j < k => d[j] <= d[k]
  <2> SUFFICES ASSUME NEW j \in 1..Len(d), NEW k \in 1..Len(d), j < k PROVE d[j] <= d[k]
    OBVIOUS
  <2>1. CASE k = Len(times) + 1
    BY <1>2, <1>3, <2>1
  <2>2. CASE k # Len(times) + 1
    <3>1. k \in 1..Len(times) /\ j \in 1..Len(times) /\ j <= k
      BY <1>1, <1>2, <2>2
    <3> QED
      BY <1>1, <1>2, <3>1
  <2> QED
    BY <2>1, <2>2
<1>5. History(d)
  BY <1>2, <1>3, <1>4 DEF History
<1>6. ASSUME NEW moment \in Int, NEW m \in 0..(Len(times) + 1), CutAt(d, moment, m), moment < now
      PROVE  m \in 0..Len(times) /\ CutAt(times, moment, m)
  <2>1. m # Len(times) + 1
    <3>1. m = Len(times) + 1 => Len(times) + 1 \in 1..m
      BY <1>1
    <3>2. m = Len(times) + 1 => now <= moment
      BY <1>2, <1>6, <3>1 DEF CutAt
    <3> QED
      BY <1>0, <1>6, <3>2
  <2>2. m \in 0..Len(times)
    BY <1>1, <2>1
  <2>3. ASSUME NEW k \in 1..m PROVE times[k] <= moment
    <3>1. k \in 1..Len(times)
      BY <1>1, <2>2
    <3> QED
      BY <1>2, <1>6, <3>1 DEF CutAt
  <2>4. ASSUME NEW k \in (m + 1)..Len(times) PROVE moment < times[k]
    <3>1. k \in 1..Len(times) /\ k \in (m + 1)..Len(d)
      BY <1>1, <1>2, <2>2
    <3> QED
      BY <1>2, <1>6, <3>1 DEF CutAt
  <2> QED
    BY <2>2, <2>3, <2>4 DEF CutAt
<1>7. ASSUME NEW moment \in Int, NEW m \in 0..(Len(times) + 1), CutAt(d, moment, m), ~(moment < now)
      PROVE  m = Len(times) + 1
  <2> SUFFICES ASSUME m # Len(times) + 1 PROVE FALSE
    OBVIOUS
  <2>1. Len(d) \in (m + 1)..Len(d) /\ Len(d) = Len(times) + 1
    BY <1>1, <1>2
  <2>2. moment < now
    BY <1>2, <1>7, <2>1 DEF CutAt
  <2> QED
    BY <1>7, <2>2
<1> QED
  BY <1>2, <1>5, <1>6, <1>7 DEF d
-----------------------------------------------------------------------------
LEMMA AfterFacts ==
  ASSUME NEW moment \in Int
  PROVE  /\ IsFiniteSet(After(moment)) /\ After(moment) \in SUBSET Times
         /\ \A f \in [Times -> Nat] : NatOn(f, After(moment)) /\ GrantedAfter(f, moment) \in Nat
<1>0. IsFiniteSet(Times)
  <2>1. 0 \in Int /\ MaxTime \in Int
    BY LimiterAssumption
  <2> QED
    BY <2>1, FS_Interval DEF Times
<1>1. IsFiniteSet(Times) /\ After(moment) \in SUBSET Times
  BY <1>0 DEF After
<1>2. IsFiniteSet(After(moment))
  BY <1>1, FS_Subset
<1>3. \A f \in [Times -> Nat] : NatOn(f, After(moment))
  BY <1>1 DEF NatOn
<1> QED
  BY <1>1, <1>2, <1>3, SumAdd DEF GrantedAfter

LEMMA NothingAfterNow ==
  ASSUME NEW f, NothingAhead(f), now \in Times, NEW moment \in Int, now <= moment
  PROVE  GrantedAfter(f, moment) = 0
<1>1. /\ IsFiniteSet(After(moment)) /\ NatOn(f, After(moment))
  BY AfterFacts DEF NothingAhead
<1>2. \A t \in After(moment) : f[t] = 0
  BY LimiterAssumption DEF After, NothingAhead, Times
<1>3. {} \in SUBSET After(moment) /\ \A t \in After(moment) \ {} : f[t] = 0
  BY <1>2
<1>4. SumFunctionOnSet(f, {}) = SumFunctionOnSet(f, After(moment))
  BY <1>1, <1>3, SumOfSubset
<1> QED
  BY <1>4, SumEmpty DEF GrantedAfter

\* What is granted now counts for the windows that begin before now.
LEMMA GrantNow ==
  ASSUME NEW f, NothingAhead(f), now \in Times, NEW n \in Nat, NEW moment \in Int
  PROVE  /\ NothingAhead([f EXCEPT ![now] = @ + n])
         /\ GrantedAfter([f EXCEPT ![now] = @ + n], moment)
              = GrantedAfter(f, moment) + (IF moment < now THEN n ELSE 0)
<1> DEFINE h == [f EXCEPT ![now] = @ + n]
<1>1. f \in [Times -> Nat] /\ \A t \in Times : now < t => f[t] = 0
  BY DEF NothingAhead
<1>2. h \in [Times -> Nat] /\ h[now] = f[now] + n /\ \A t \in Times \ {now} : h[t] = f[t]
  BY <1>1
<1>3. now \in Int /\ \A t \in Times : t \in Int
  BY LimiterAssumption DEF Times
<1> HIDE DEF h
<1>4. NothingAhead(h)
  <2> SUFFICES ASSUME NEW t \in Times, now < t PROVE h[t] = 0
    BY <1>2 DEF NothingAhead
  <2>1. t # now
    BY <1>3
  <2> QED
    BY <1>1, <1>2, <2>1
<1>5. /\ IsFiniteSet(After(moment)) /\ NatOn(f, After(moment)) /\ GrantedAfter(f, moment) \in Nat
      /\ After(moment) \in SUBSET Times
  BY <1>1, AfterFacts
<1>6. CASE moment < now
  <2>1. now \in After(moment) /\ \A t \in After(moment) \ {now} : h[t] = f[t]
    BY <1>2, <1>5, <1>6 DEF After
  <2>2. SumFunctionOnSet(h, After(moment)) = SumFunctionOnSet(f, After(moment)) + n
    BY <1>2, <1>5, <2>1, SumMore
  <2> QED
    BY <1>4, <1>6, <2>2 DEF GrantedAfter, h
<1>7. CASE ~(moment < now)
  <2>1. \A t \in After(moment) : h[t] = f[t]
    BY <1>2, <1>3, <1>5, <1>7 DEF After
  <2>2. SumFunctionOnSet(f, After(moment)) = SumFunctionOnSet(h, After(moment))
    BY <1>5, <2>1, SumSame
  <2>3. GrantedAfter(h, moment) = GrantedAfter(f, moment) + 0
    BY <1>5, <2>2 DEF GrantedAfter
  <2> QED
    BY <1>4, <1>7, <2>3 DEF h
<1> QED
  BY <1>6, <1>7

LEMMA MomentsAreIntegers ==
  ASSUME now \in Times
  PROVE  /\ Moments \subseteq Int /\ now - window_seconds \in Moments /\ now \in Int
         /\ window_seconds \in Nat \ {0} /\ now - window_seconds <= now
BY LimiterAssumption DEF Times, Moments

LEMMA EventsTrim ==
  ASSUME NEW times, NEW f, EventsMatch(times, f), now \in Times
  PROVE  /\ EventsMatch(Drop(times, Stale(times)), f)
         /\ Len(Drop(times, Stale(times))) \in Nat /\ Len(Drop(times, Stale(times))) <= Len(times)
         /\ GrantedAfter(f, now - window_seconds) = Len(Drop(times, Stale(times)))
<1> DEFINE n == Stale(times)
           d == Drop(times, n)
           start == now - window_seconds
<1>0. History(times) /\ NothingAhead(f) /\ Len(times) \in Nat
  BY HistoryFacts DEF EventsMatch
<1>1. n \in 0..Len(times) /\ CutAt(times, start, n) /\ start \in Int /\ start \in Moments
  BY <1>0, StaleIsCut, MomentsAreIntegers
<1> HIDE DEF n, start
<1>2. /\ History(d) /\ Len(d) = Len(times) - n
      /\ \A moment \in Int, m \in 0..(Len(times) - n) :
           start <= moment /\ CutAt(d, moment, m)
             => n + m \in 0..Len(times) /\ CutAt(times, moment, n + m)
  BY <1>0, <1>1, CutHistory
<1>3. GrantedAfter(f, start) = Len(times) - n
  <2>1. start <= start
    BY <1>1
  <2> QED
    BY <1>1, <2>1 DEF EventsMatch, start
<1> HIDE DEF d
<1>4. ASSUME NEW moment \in Moments, NEW m \in 0..Len(d), start <= moment, CutAt(d, moment, m)
      PROVE  GrantedAfter(f, moment) = Len(d) - m
  <2>1. n + m \in 0..Len(times) /\ CutAt(times, moment, n + m)
    BY <1>2, <1>4, MomentsAreIntegers
  <2>2. GrantedAfter(f, moment) = Len(times) - (n + m)
    BY <1>4, <2>1 DEF EventsMatch, start
  <2> QED
    BY <1>0, <1>1, <1>2, <2>2
<1>5. EventsMatch(d, f)
  BY <1>0, <1>2, <1>4 DEF EventsMatch, start
<1>6. Len(d) \in Nat /\ Len(d) <= Len(times)
  BY <1>0, <1>1, <1>2
<1> QED
  BY <1>2, <1>3, <1>5, <1>6 DEF n, d, start

LEMMA EventsAppend ==
  ASSUME NEW times, NEW f, EventsMatch(times, f), now \in Times
  PROVE  /\ EventsMatch(Append(times, now), [f EXCEPT ![now] = @ + 1])
         /\ Len(Append(times, now)) = Len(times) + 1
<1> DEFINE d == Append(times, now)
           h == [f EXCEPT ![now] = @ + 1]
<1>0. History(times) /\ NothingAhead(f) /\ Len(times) \in Nat
  BY HistoryFacts DEF EventsMatch
<1>1. /\ History(d) /\ Len(d) = Len(times) + 1
      /\ \A moment \in Int, m \in 0..(Len(times) + 1) :
           CutAt(d, moment, m) =>
             IF moment < now THEN m \in 0..Len(times) /\ CutAt(times, moment, m)
                             ELSE m = Len(times) + 1
  BY <1>0, LaterHistory
<1>2. \A moment \in Int : /\ NothingAhead(h)
                          /\ GrantedAfter(h, moment) = GrantedAfter(f, moment) + (IF moment < now THEN 1 ELSE 0)
  BY <1>0, GrantNow
<1> HIDE DEF d, h
<1>3. ASSUME NEW moment \in Moments, NEW m \in 0..Len(d), now - window_seconds <= moment, CutAt(d, moment, m)
      PROVE  GrantedAfter(h, moment) = Len(d) - m
  <2>0. moment \in Int /\ now \in Int
    BY MomentsAreIntegers
  <2>1. CASE moment < now
    <3>1. m \in 0..Len(times) /\ CutAt(times, moment, m)
      BY <1>1, <1>3, <2>0, <2>1
    <3>2. GrantedAfter(f, moment) = Len(times) - m
      BY <1>3, <3>1 DEF EventsMatch
    <3>3. GrantedAfter(h, moment) = GrantedAfter(f, moment) + 1
      BY <1>2, <2>0, <2>1
    <3> QED
      BY <1>0, <1>1, <3>1, <3>2, <3>3
  <2>2. CASE ~(moment < now)
    <3>1. m = Len(times) + 1
      BY <1>1, <1>3, <2>0, <2>2
    <3>2. GrantedAfter(f, moment) = 0
      BY <1>0, <2>0, <2>2, NothingAfterNow
    <3>3. GrantedAfter(h, moment) = 0
      BY <1>2, <2>0, <2>2, <3>2
    <3> QED
      BY <1>0, <1>1, <3>1, <3>3
  <2> QED
    BY <2>1, <2>2
<1>4. NothingAhead(h)
  BY <1>2, MomentsAreIntegers
<1>5. EventsMatch(d, h)
  BY <1>1, <1>3, <1>4 DEF EventsMatch
<1> QED
  BY <1>1, <1>5 DEF d, h
-----------------------------------------------------------------------------
LEMMA ChunkFacts ==
  /\ \A c \in Chunks : c.time \in Times /\ c.size \in ChunkSizes /\ c.size \in Nat /\ c.size > 0
  /\ \A t \in Times, n \in ChunkSizes : [time |-> t, size |-> n] \in Chunks
<1>1. \A n \in ChunkSizes : n \in Nat /\ n > 0
  BY LimiterAssumption
<1>2. \A c \in Chunks : c.time \in Times /\ c.size \in ChunkSizes
  BY DEF Chunks
<1>3. \A t \in Times, n \in ChunkSizes : [time |-> t, size |-> n] \in Chunks
  BY DEF Chunks
<1> QED
  BY <1>1, <1>2, <1>3

LEMMA ArrivalFacts ==
  ASSUME NEW q \in Seq(Chunks)
  PROVE  /\ ArrivalTimes(q) \in Seq(Times) /\ Len(ArrivalTimes(q)) = Len(q) /\ Len(q) \in Nat
         /\ \A k \in 1..Len(q) : ArrivalTimes(q)[k] = q[k].time
<1>1. Len(q) \in Nat /\ DOMAIN q = 1..Len(q) /\ \A k \in 1..Len(q) : q[k] \in Chunks
  BY LenProperties
<1>2. ArrivalTimes(q) = [k \in 1..Len(q) |-> q[k].time]
  BY <1>1 DEF ArrivalTimes
<1>3. \A k \in 1..Len(q) : q[k].time \in Times
  BY <1>1, ChunkFacts
<1> QED
  BY <1>1, <1>2, <1>3

LEMMA ArrivalsOfDrop ==
  ASSUME NEW q \in Seq(Chunks), NEW n \in 0..Len(q)
  PROVE  ArrivalTimes(Drop(q, n)) = Drop(ArrivalTimes(q), n)
<1> DEFINE d == Drop(q, n)
           a == ArrivalTimes(q)
           l == ArrivalTimes(d)
           r == Drop(a, n)
<1>1. a \in Seq(Times) /\ Len(a) = Len(q) /\ Len(q) \in Nat /\ \A k \in 1..Len(q) : a[k] = q[k].time
  BY ArrivalFacts
<1>2. d \in Seq(Chunks) /\ Len(d) = Len(q) - n /\ \A k \in 1..(Len(q) - n) : d[k] = q[n + k]
  BY DropFacts
<1> HIDE DEF d, a
<1>3. l \in Seq(Times) /\ Len(l) = Len(d) /\ \A k \in 1..Len(d) : l[k] = d[k].time
  BY <1>2, ArrivalFacts
<1>4. r \in Seq(Times) /\ Len(r) = Len(a) - n /\ \A k \in 1..(Len(a) - n) : r[k] = a[n + k]
  BY <1>1, DropFacts
<1> HIDE DEF l, r
<1>5. ASSUME NEW k \in 1..Len(l) PROVE l[k] = r[k]
  <2>1. k \in 1..(Len(q) - n) /\ n + k \in 1..Len(q)
    BY <1>1, <1>2, <1>3
  <2> QED
    BY <1>1, <1>2, <1>3, <1>4, <2>1
<1>6. l = r
  BY <1>1, <1>2, <1>3, <1>4, <1>5, SeqEqual
<1> QED
  BY <1>6 DEF l, r, a, d

LEMMA ArrivalsOfAppend ==
  ASSUME NEW q \in Seq(Chunks), NEW c \in Chunks
  PROVE  ArrivalTimes(Append(q, c)) = Append(ArrivalTimes(q), c.time)
<1> DEFINE p == Append(q, c)
           a == ArrivalTimes(q)
           l == ArrivalTimes(p)
           r == Append(a, c.time)
<1>0. c.time \in Times
  BY ChunkFacts
<1>1. a \in Seq(Times) /\ Len(a) = Len(q) /\ Len(q) \in Nat /\ \A k \in 1..Len(q) : a[k] = q[k].time
  BY ArrivalFacts
<1>2. p \in Seq(Chunks) /\ Len(p) = Len(q) + 1 /\ (\A k \in 1..Len(q) : p[k] = q[k]) /\ p[Len(q) + 1] = c
  BY AppendProperties
<1> HIDE DEF p, a
<1>3. l \in Seq(Times) /\ Len(l) = Len(p) /\ \A k \in 1..Len(p) : l[k] = p[k].time
  BY <1>2, ArrivalFacts
<1>4. r \in Seq(Times) /\ Len(r) = Len(a) + 1 /\ (\A k \in 1..Len(a) : r[k] = a[k]) /\ r[Len(a) + 1] = c.time
  BY <1>0, <1>1, AppendProperties
<1> HIDE DEF l, r
<1>5. ASSUME NEW k \in 1..Len(l) PROVE l[k] = r[k]
  <2>1. k \in 1..Len(q) \/ k = Len(q) + 1
    BY <1>1, <1>2, <1>3
  <2> QED
    BY <1>1, <1>2, <1>3, <1>4, <2>1
<1>6. l = r
  BY <1>1, <1>2, <1>3, <1>4, <1>5, SeqEqual
<1> QED
  BY <1>6 DEF l, r, a, p

LEMMA BytesIsTotal == \A q : Bytes(q) = TotalSize(q)
BY DEF Bytes, TotalSize

LEMMA ChunksTrim ==
  ASSUME NEW q, NEW f, ChunksMatch(q, f), now \in Times
  PROVE  LET n == Stale(ArrivalTimes(q)) IN
         /\ ChunksMatch(Drop(q, n), f)
         /\ TotalSize(q) - Bytes(SubSeq(q, 1, n)) = TotalSize(Drop(q, n))
         /\ TotalSize(Drop(q, n)) \in Nat /\ TotalSize(Drop(q, n)) <= TotalSize(q)
         /\ GrantedAfter(f, now - window_seconds) = TotalSize(Drop(q, n))
<1> DEFINE a == ArrivalTimes(q)
           n == Stale(a)
           d == Drop(q, n)
           start == now - window_seconds
<1>0. History(a) /\ NothingAhead(f) /\ q \in Seq(Chunks) /\ Len(a) = Len(q) /\ Len(q) \in Nat
  BY ArrivalFacts DEF ChunksMatch
<1>1. n \in 0..Len(q) /\ CutAt(a, start, n) /\ start \in Int /\ start \in Moments
  <2> HIDE DEF a
  <2> QED
    BY <1>0, StaleIsCut, MomentsAreIntegers
<1> HIDE DEF n, start
<1>2. /\ History(Drop(a, n)) /\ Len(Drop(a, n)) = Len(q) - n
      /\ \A moment \in Int, m \in 0..(Len(q) - n) :
           start <= moment /\ CutAt(Drop(a, n), moment, m)
             => n + m \in 0..Len(q) /\ CutAt(a, moment, n + m)
  <2> HIDE DEF a
  <2> QED
    BY <1>0, <1>1, CutHistory
<1>3. d \in Seq(Chunks) /\ Len(d) = Len(q) - n /\ ArrivalTimes(d) = Drop(a, n)
  BY <1>0, <1>1, DropFacts, ArrivalsOfDrop
<1>4. GrantedAfter(f, start) = TotalSize(d)
  <2>1. start <= start
    BY <1>1
  <2> QED
    BY <1>1, <2>1 DEF ChunksMatch, start
<1>5. /\ TotalSize(SubSeq(q, 1, n)) \in Nat /\ TotalSize(d) \in Nat
      /\ TotalSize(q) = TotalSize(SubSeq(q, 1, n)) + TotalSize(d)
  BY <1>0, <1>1, ChunkFacts, TotalSplit
<1>6. ASSUME NEW moment \in Moments, NEW m \in 0..Len(d), start <= moment, CutAt(ArrivalTimes(d), moment, m)
      PROVE  GrantedAfter(f, moment) = TotalSize(Drop(d, m))
  <2>1. n + m \in 0..Len(q) /\ CutAt(a, moment, n + m)
    <3> HIDE DEF a, d
    <3> QED
      BY <1>2, <1>3, <1>6, MomentsAreIntegers
  <2>2. GrantedAfter(f, moment) = TotalSize(Drop(q, n + m))
    BY <1>6, <2>1 DEF ChunksMatch, start
  <2>3. Drop(d, m) = Drop(q, n + m)
    BY <1>0, <1>1, <1>3, <1>6, DropDrop
  <2> QED
    BY <2>2, <2>3
<1> HIDE DEF d, a
<1>7. ChunksMatch(d, f)
  BY <1>0, <1>2, <1>3, <1>6 DEF ChunksMatch, start
<1>8. TotalSize(q) - Bytes(SubSeq(q, 1, n)) = TotalSize(d) /\ TotalSize(d) <= TotalSize(q)
  BY <1>5, BytesIsTotal
<1> QED
  BY <1>4, <1>5, <1>7, <1>8 DEF n, d, a, start

LEMMA ChunksAppend ==
  ASSUME NEW q, NEW f, ChunksMatch(q, f), now \in Times, NEW size \in ChunkSizes
  PROVE  /\ ChunksMatch(Append(q, [time |-> now, size |-> size]), [f EXCEPT ![now] = @ + size])
         /\ TotalSize(Append(q, [time |-> now, size |-> size])) = TotalSize(q) + size
<1> DEFINE c == [time |-> now, size |-> size]
           d == Append(q, c)
           a == ArrivalTimes(q)
           h == [f EXCEPT ![now] = @ + size]
<1>0. /\ History(a) /\ NothingAhead(f) /\ q \in Seq(Chunks) /\ Len(a) = Len(q) /\ Len(q) \in Nat
      /\ c \in Chunks /\ c.time = now /\ c.size = size /\ size \in Nat
  BY ArrivalFacts, ChunkFacts, LimiterAssumption DEF ChunksMatch
<1> HIDE DEF c
<1>1. /\ History(Append(a, now)) /\ Len(Append(a, now)) = Len(q) + 1
      /\ \A moment \in Int, m \in 0..(Len(q) + 1) :
           CutAt(Append(a, now), moment, m) =>
             IF moment < now THEN m \in 0..Len(q) /\ CutAt(a, moment, m)
                             ELSE m = Len(q) + 1
  <2> HIDE DEF a
  <2> QED
    BY <1>0, LaterHistory
<1>2. \A moment \in Int : /\ NothingAhead(h)
                          /\ GrantedAfter(h, moment) = GrantedAfter(f, moment) + (IF moment < now THEN size ELSE 0)
  BY <1>0, GrantNow
<1>3. d \in Seq(Chunks) /\ Len(d) = Len(q) + 1 /\ ArrivalTimes(d) = Append(a, now)
  BY <1>0, AppendProperties, ArrivalsOfAppend
<1>4. ASSUME NEW moment \in Moments, NEW m \in 0..Len(d), now - window_seconds <= moment,
             CutAt(ArrivalTimes(d), moment, m)
      PROVE  GrantedAfter(h, moment) = TotalSize(Drop(d, m))
  <2>0. moment \in Int /\ now \in Int
    BY MomentsAreIntegers
  <2>1. CASE moment < now
    <3>1. m \in 0..Len(q) /\ CutAt(a, moment, m)
      <4> HIDE DEF a, d
      <4> QED
        BY <1>1, <1>3, <1>4, <2>0, <2>1
    <3>2. GrantedAfter(f, moment) = TotalSize(Drop(q, m))
      BY <1>4, <3>1 DEF ChunksMatch
    <3>3. GrantedAfter(h, moment) = GrantedAfter(f, moment) + size
      <4> HIDE DEF h
      <4> QED
        BY <1>2, <2>0, <2>1
    <3>4. Drop(d, m) = Append(Drop(q, m), c) /\ Drop(q, m) \in Seq(Chunks)
      BY <1>0, <3>1, DropAppend, DropFacts
    <3>5. TotalSize(Append(Drop(q, m), c)) = TotalSize(Drop(q, m)) + size
      BY <1>0, <3>4, ChunkFacts, TotalSizeFacts
    <3> QED
      BY <3>2, <3>3, <3>4, <3>5
  <2>2. CASE ~(moment < now)
    <3>1. m = Len(q) + 1
      <4> HIDE DEF a, d
      <4> QED
        BY <1>1, <1>3, <1>4, <2>0, <2>2
    <3>2. GrantedAfter(f, moment) = 0
      BY <1>0, <2>0, <2>2, NothingAfterNow
    <3>3. GrantedAfter(h, moment) = 0
      <4> HIDE DEF h
      <4> QED
        BY <1>2, <2>0, <2>2, <3>2
    <3>4. Drop(d, m) = <<>>
      <4> HIDE DEF d
      <4>1. Len(d) \in Int /\ m + 1 \in Int /\ Len(d) < m + 1
        BY <1>0, <1>3, <3>1
      <4> QED
        BY <4>1, SubSeqEmpty DEF Drop
    <3>5. TotalSize(<<>>) = 0
      BY <1>0, ChunkFacts, TotalSizeFacts
    <3> QED
      BY <3>3, <3>4, <3>5
  <2> QED
    BY <2>1, <2>2
<1>5. NothingAhead(h)
  <2> HIDE DEF h
  <2> QED
    BY <1>2, MomentsAreIntegers
<1>6. TotalSize(d) = TotalSize(q) + size
  BY <1>0, ChunkFacts, TotalSizeFacts
<1> HIDE DEF d, a, h
<1>7. ChunksMatch(d, h)
  BY <1>1, <1>3, <1>4, <1>5 DEF ChunksMatch
<1> QED
  BY <1>6, <1>7 DEF d, h, c
-----------------------------------------------------------------------------
LEMMA TrimmedEventsFacts ==
  ASSUME NEW i, EventsKept(i), now \in Times
  PROVE  /\ EventsMatch(TrimmedEvents(i), granted_events[i])
         /\ Len(TrimmedEvents(i)) \in Nat /\ Len(TrimmedEvents(i)) <= event_limit
         /\ GrantedAfter(granted_events[i], now - window_seconds) = Len(TrimmedEvents(i))
<1>1. /\ EventsMatch(event_timestamps[i], granted_events[i])
      /\ Len(event_timestamps[i]) <= event_limit /\ Len(event_timestamps[i]) \in Nat
  BY HistoryFacts DEF EventsKept, EventsMatch
<1>2. /\ EventsMatch(TrimmedEvents(i), granted_events[i])
      /\ Len(TrimmedEvents(i)) \in Nat /\ Len(TrimmedEvents(i)) <= Len(event_timestamps[i])
      /\ GrantedAfter(granted_events[i], now - window_seconds) = Len(TrimmedEvents(i))
  BY <1>1, EventsTrim DEF TrimmedEvents
<1>3. event_limit \in Nat
  BY LimiterAssumption
<1> QED
  BY <1>1, <1>2, <1>3

LEMMA TrimmedAudioFacts ==
  ASSUME NEW i, AudioKept(i), now \in Times
  PROVE  /\ ChunksMatch(TrimmedAudio(i), granted_audio[i])
         /\ TrimmedBytes(i) = TotalSize(TrimmedAudio(i)) /\ TrimmedBytes(i) \in Nat
         /\ TrimmedBytes(i) <= audio_bytes_limit
         /\ GrantedAfter(granted_audio[i], now - window_seconds) = TrimmedBytes(i)
<1> DEFINE q == audio_chunks[i]
           n == Stale(ArrivalTimes(q))
<1>1. /\ ChunksMatch(q, granted_audio[i]) /\ audio_bytes_in_window[i] = TotalSize(q)
      /\ TotalSize(q) <= audio_bytes_limit /\ q \in Seq(Chunks)
  BY DEF AudioKept, ChunksMatch
<1>2. /\ ChunksMatch(Drop(q, n), granted_audio[i])
      /\ TotalSize(q) - Bytes(SubSeq(q, 1, n)) = TotalSize(Drop(q, n))
      /\ TotalSize(Drop(q, n)) \in Nat /\ TotalSize(Drop(q, n)) <= TotalSize(q)
      /\ GrantedAfter(granted_audio[i], now - window_seconds) = TotalSize(Drop(q, n))
  <2> HIDE DEF q
  <2> QED
    BY <1>1, ChunksTrim
<1>3. TrimmedAudio(i) = Drop(q, n) /\ TrimmedBytes(i) = audio_bytes_in_window[i] - Bytes(SubSeq(q, 1, n))
  BY DEF TrimmedAudio, TrimmedBytes
<1>4. audio_bytes_limit \in Nat /\ TotalSize(q) \in Nat
  BY <1>1, LimiterAssumption, ChunkFacts, TotalSizeFacts
<1> HIDE DEF q, n
<1> QED
  BY <1>1, <1>2, <1>3, <1>4

LEMMA EventsKeptNext ==
  ASSUME NEW i, NEW times, NEW f, EventsMatch(times, f), Len(times) <= event_limit,
         now' = now, event_timestamps'[i] = times, granted_events'[i] = f
  PROVE  EventsKept(i)'
<1>1. History(event_timestamps[i])'
  BY DEF EventsMatch, History
<1>2. NothingAhead(granted_events[i])'
  BY DEF EventsMatch, NothingAhead
<1>3. \A moment \in Moments, m \in 0..Len(event_timestamps'[i]) :
        now' - window_seconds <= moment /\ CutAt(event_timestamps'[i], moment, m) =>
          GrantedAfter(granted_events'[i], moment) = Len(event_timestamps'[i]) - m
  BY DEF EventsMatch
<1> QED
  BY <1>1, <1>2, <1>3 DEF EventsKept, EventsMatch

LEMMA AudioKeptNext ==
  ASSUME NEW i, NEW q, NEW f, ChunksMatch(q, f), TotalSize(q) <= audio_bytes_limit,
         now' = now, audio_chunks'[i] = q, granted_audio'[i] = f,
         audio_bytes_in_window'[i] = TotalSize(q)
  PROVE  AudioKept(i)'
<1>1. History(ArrivalTimes(audio_chunks[i]))' /\ audio_chunks'[i] \in Seq(Chunks)
  BY DEF ChunksMatch, History
<1>2. NothingAhead(granted_audio[i])'
  BY DEF ChunksMatch, NothingAhead
<1>3. \A moment \in Moments, m \in 0..Len(audio_chunks'[i]) :
        now' - window_seconds <= moment /\ CutAt(ArrivalTimes(audio_chunks'[i]), moment, m) =>
          GrantedAfter(granted_audio'[i], moment) = TotalSize(Drop(audio_chunks'[i], m))
  BY DEF ChunksMatch
<1> QED
  BY <1>1, <1>2, <1>3 DEF AudioKept, ChunksMatch

\* What an event request does to the state of its identity and of the others.
LEMMA EventStep ==
  ASSUME LimiterInv, NEW i \in Identities, allow_event(i)
  PROVE  LimiterInv'
<1> DEFINE d == TrimmedEvents(i)
           f == granted_events[i]
           allowed == Len(d) < event_limit
           recorded == IF allowed THEN Append(d, now) ELSE d
           h == [f EXCEPT ![now] = IF allowed THEN @ + 1 ELSE @]
<1>1. /\ event_timestamps' = [event_timestamps EXCEPT ![i] = recorded]
      /\ audio_chunks' = [audio_chunks EXCEPT ![i] = TrimmedAudio(i)]
      /\ audio_bytes_in_window' = [audio_bytes_in_window EXCEPT ![i] = TrimmedBytes(i)]
      /\ granted_events' = [granted_events EXCEPT ![i] = h]
      /\ now' = now /\ granted_audio' = granted_audio
  BY DEF allow_event, audioVars
<1>2. /\ now \in Times /\ event_timestamps \in [Identities -> Seq(Times)]
      /\ audio_chunks \in [Identities -> Seq(Chunks)]
      /\ audio_bytes_in_window \in [Identities -> Nat]
      /\ granted_events \in [Identities -> [Times -> Nat]]
      /\ granted_audio \in [Identities -> [Times -> Nat]]
      /\ \A j \in Identities : EventsKept(j) /\ AudioKept(j)
  BY DEF LimiterInv
<1>3. EventsMatch(d, f) /\ Len(d) \in Nat /\ Len(d) <= event_limit
  BY <1>2, TrimmedEventsFacts
<1>4. f \in [Times -> Nat]
  BY <1>2
<1> HIDE DEF d, f
<1>5. EventsMatch(recorded, h) /\ Len(recorded) <= event_limit /\ h \in [Times -> Nat]
  <2>1. CASE allowed
    <3>1. recorded = Append(d, now) /\ h = [f EXCEPT ![now] = @ + 1]
      BY <2>1
    <3>2. EventsMatch(recorded, h) /\ Len(recorded) = Len(d) + 1
      BY <1>2, <1>3, <3>1, EventsAppend
    <3>3. event_limit \in Nat
      BY LimiterAssumption
    <3>4. h \in [Times -> Nat]
      BY <3>2 DEF EventsMatch, NothingAhead
    <3> HIDE DEF allowed, recorded, h
    <3>5. Len(recorded) <= event_limit
      BY <1>3, <2>1, <3>2, <3>3 DEF allowed
    <3> QED
      BY <3>2, <3>4, <3>5
  <2>2. CASE ~allowed
    <3>1. recorded = d /\ h = f
      BY <1>4, <2>2
    <3> QED
      BY <1>3, <1>4, <3>1
  <2> QED
    BY <2>1, <2>2
<1> HIDE DEF recorded, h
<1>6. ASSUME NEW j \in Identities PROVE EventsKept(j)'
  <2>1. CASE j = i
    <3>1. event_timestamps'[i] = recorded /\ granted_events'[i] = h
      BY <1>1, <1>2
    <3> QED
      BY <1>1, <1>5, <2>1, <3>1, EventsKeptNext
  <2>2. CASE j # i
    <3>1. event_timestamps'[j] = event_timestamps[j] /\ granted_events'[j] = granted_events[j]
      BY <1>1, <1>2, <2>2
    <3>2. EventsMatch(event_timestamps[j], granted_events[j]) /\ Len(event_timestamps[j]) <= event_limit
      BY <1>2 DEF EventsKept
    <3> QED
      BY <1>1, <3>1, <3>2, EventsKeptNext
  <2> QED
    BY <2>1, <2>2
<1>7. ASSUME NEW j \in Identities PROVE AudioKept(j)'
  <2>1. CASE j = i
    <3>1. /\ audio_chunks'[i] = TrimmedAudio(i) /\ audio_bytes_in_window'[i] = TrimmedBytes(i)
          /\ granted_audio'[i] = granted_audio[i]
      BY <1>1, <1>2
    <3>2. /\ ChunksMatch(TrimmedAudio(i), granted_audio[i]) /\ TrimmedBytes(i) = TotalSize(TrimmedAudio(i))
          /\ TrimmedBytes(i) <= audio_bytes_limit
      BY <1>2, TrimmedAudioFacts
    <3> QED
      BY <1>1, <2>1, <3>1, <3>2, AudioKeptNext
  <2>2. CASE j # i
    <3>1. /\ audio_chunks'[j] = audio_chunks[j] /\ audio_bytes_in_window'[j] = audio_bytes_in_window[j]
          /\ granted_audio'[j] = granted_audio[j]
      BY <1>1, <1>2, <2>2
    <3>2. /\ ChunksMatch(audio_chunks[j], granted_audio[j])
          /\ audio_bytes_in_window[j] = TotalSize(audio_chunks[j])
          /\ audio_bytes_in_window[j] <= audio_bytes_limit
      BY <1>2 DEF AudioKept
    <3> QED
      BY <1>1, <3>1, <3>2, AudioKeptNext
  <2> QED
    BY <2>1, <2>2
<1>8. granted_events' \in [Identities -> [Times -> Nat]]
  BY <1>1, <1>2, <1>5
<1>9. event_timestamps' \in [Identities -> Seq(Times)]
  <2>1. recorded \in Seq(Times)
    BY <1>5 DEF EventsMatch, History
  <2> QED
    BY <1>1, <1>2, <2>1
<1>10. audio_chunks' \in [Identities -> Seq(Chunks)]
  <2>1. TrimmedAudio(i) \in Seq(Chunks)
    BY <1>2, TrimmedAudioFacts DEF ChunksMatch
  <2> QED
    BY <1>1, <1>2, <2>1
<1>11. audio_bytes_in_window' \in [Identities -> Nat]
  <2>1. TrimmedBytes(i) \in Nat
    BY <1>2, TrimmedAudioFacts
  <2> QED
    BY <1>1, <1>2, <2>1
<1> QED
  BY <1>1, <1>2, <1>6, <1>7, <1>8, <1>9, <1>10, <1>11 DEF LimiterInv

LEMMA AudioStep ==
  ASSUME LimiterInv, NEW i \in Identities, NEW chunk_size \in ChunkSizes, allow_audio_bytes(i, chunk_size)
  PROVE  LimiterInv'
<1> DEFINE d == TrimmedAudio(i)
           f == granted_audio[i]
           allowed == TrimmedBytes(i) + chunk_size <= audio_bytes_limit
           recorded == IF allowed THEN Append(d, [time |-> now, size |-> chunk_size]) ELSE d
           bytes == IF allowed THEN TrimmedBytes(i) + chunk_size ELSE TrimmedBytes(i)
           h == [f EXCEPT ![now] = IF allowed THEN @ + chunk_size ELSE @]
<1>1. /\ event_timestamps' = [event_timestamps EXCEPT ![i] = TrimmedEvents(i)]
      /\ audio_chunks' = [audio_chunks EXCEPT ![i] = recorded]
      /\ audio_bytes_in_window' = [audio_bytes_in_window EXCEPT ![i] = bytes]
      /\ granted_audio' = [granted_audio EXCEPT ![i] = h]
      /\ now' = now /\ granted_events' = granted_events
  BY DEF allow_audio_bytes, eventVars
<1>2. /\ now \in Times /\ event_timestamps \in [Identities -> Seq(Times)]
      /\ audio_chunks \in [Identities -> Seq(Chunks)]
      /\ audio_bytes_in_window \in [Identities -> Nat]
      /\ granted_events \in [Identities -> [Times -> Nat]]
      /\ granted_audio \in [Identities -> [Times -> Nat]]
      /\ \A j \in Identities : EventsKept(j) /\ AudioKept(j)
  BY DEF LimiterInv
<1>3. /\ ChunksMatch(d, f) /\ TrimmedBytes(i) = TotalSize(d) /\ TrimmedBytes(i) \in Nat
      /\ TrimmedBytes(i) <= audio_bytes_limit
  BY <1>2, TrimmedAudioFacts
<1>4. f \in [Times -> Nat]
  BY <1>2
<1> HIDE DEF d, f
<1>5. /\ ChunksMatch(recorded, h) /\ bytes = TotalSize(recorded) /\ bytes <= audio_bytes_limit
      /\ h \in [Times -> Nat]
  <2>1. CASE allowed
    <3>1. /\ recorded = Append(d, [time |-> now, size |-> chunk_size])
          /\ h = [f EXCEPT ![now] = @ + chunk_size] /\ bytes = TrimmedBytes(i) + chunk_size
      BY <2>1
    <3>2. ChunksMatch(recorded, h) /\ TotalSize(recorded) = TotalSize(d) + chunk_size
      BY <1>2, <1>3, <3>1, ChunksAppend
    <3> QED
      BY <1>3, <2>1, <3>1, <3>2 DEF ChunksMatch, NothingAhead
  <2>2. CASE ~allowed
    <3>1. recorded = d /\ h = f /\ bytes = TrimmedBytes(i)
      BY <1>4, <2>2
    <3> QED
      BY <1>3, <1>4, <3>1
  <2> QED
    BY <2>1, <2>2
<1> HIDE DEF recorded, h, bytes
<1>6. ASSUME NEW j \in Identities PROVE AudioKept(j)'
  <2>1. CASE j = i
    <3>1. /\ audio_chunks'[i] = recorded /\ granted_audio'[i] = h /\ audio_bytes_in_window'[i] = bytes
      BY <1>1, <1>2
    <3> QED
      BY <1>1, <1>5, <2>1, <3>1, AudioKeptNext
  <2>2. CASE j # i
    <3>1. /\ audio_chunks'[j] = audio_chunks[j] /\ audio_bytes_in_window'[j] = audio_bytes_in_window[j]
          /\ granted_audio'[j] = granted_audio[j]
      BY <1>1, <1>2, <2>2
    <3>2. /\ ChunksMatch(audio_chunks[j], granted_audio[j])
          /\ audio_bytes_in_window[j] = TotalSize(audio_chunks[j])
          /\ audio_bytes_in_window[j] <= audio_bytes_limit
      BY <1>2 DEF AudioKept
    <3> QED
      BY <1>1, <3>1, <3>2, AudioKeptNext
  <2> QED
    BY <2>1, <2>2
<1>7. ASSUME NEW j \in Identities PROVE EventsKept(j)'
  <2>1. CASE j = i
    <3>1. event_timestamps'[i] = TrimmedEvents(i) /\ granted_events'[i] = granted_events[i]
      BY <1>1, <1>2
    <3>2. EventsMatch(TrimmedEvents(i), granted_events[i]) /\ Len(TrimmedEvents(i)) <= event_limit
      BY <1>2, TrimmedEventsFacts
    <3> QED
      BY <1>1, <2>1, <3>1, <3>2, EventsKeptNext
  <2>2. CASE j # i
    <3>1. event_timestamps'[j] = event_timestamps[j] /\ granted_events'[j] = granted_events[j]
      BY <1>1, <1>2, <2>2
    <3>2. EventsMatch(event_timestamps[j], granted_events[j]) /\ Len(event_timestamps[j]) <= event_limit
      BY <1>2 DEF EventsKept
    <3> QED
      BY <1>1, <3>1, <3>2, EventsKeptNext
  <2> QED
    BY <2>1, <2>2
<1>8. granted_audio' \in [Identities -> [Times -> Nat]]
  BY <1>1, <1>2, <1>5
<1>9. event_timestamps' \in [Identities -> Seq(Times)]
  <2>1. TrimmedEvents(i) \in Seq(Times)
    BY <1>2, TrimmedEventsFacts DEF EventsMatch, History
  <2> QED
    BY <1>1, <1>2, <2>1
<1>10. audio_chunks' \in [Identities -> Seq(Chunks)]
  <2>1. recorded \in Seq(Chunks)
    BY <1>5 DEF ChunksMatch
  <2> QED
    BY <1>1, <1>2, <2>1
<1>11. audio_bytes_in_window' \in [Identities -> Nat]
  <2>1. bytes \in Nat
    BY <1>5, ChunkFacts, TotalSizeFacts DEF ChunksMatch
  <2> QED
    BY <1>1, <1>2, <2>1
<1> QED
  BY <1>1, <1>2, <1>6, <1>7, <1>8, <1>9, <1>10, <1>11 DEF LimiterInv

LEMMA ClockStep ==
  ASSUME LimiterInv, Tick
  PROVE  LimiterInv'
<1>1. now \in Int /\ now < MaxTime /\ now' = now + 1 /\ UNCHANGED <<stateVars, granted_events, granted_audio>>
      /\ now' \in Times /\ window_seconds \in Nat /\ Times \subseteq Int /\ Moments \subseteq Int
  BY LimiterAssumption DEF LimiterInv, Tick, Times, eventVars, audioVars, Moments
<1>2. \A times : History(times) => History(times)'
  <2> SUFFICES ASSUME NEW times, History(times) PROVE History(times)'
    OBVIOUS
  <2>1. \A k \in 1..Len(times) : times[k] \in Int /\ times[k] <= now
    BY HistoryFacts
  <2> QED
    BY <1>1, <2>1 DEF History
<1>2a. \A t \in Times : now' < t => now < t
  BY <1>1
<1>3. ASSUME NEW i \in Identities PROVE EventsKept(i)'
  <2>1. EventsKept(i) /\ event_timestamps' = event_timestamps /\ granted_events' = granted_events
    BY <1>1 DEF LimiterInv, stateVars
  <2>2. History(event_timestamps[i])'
    BY <1>2, <2>1 DEF EventsKept, EventsMatch, History
  <2>3. NothingAhead(granted_events[i])'
    BY <1>2a, <2>1 DEF EventsKept, EventsMatch, NothingAhead
  <2>4. \A moment \in Moments : now' - window_seconds <= moment => now - window_seconds <= moment
    BY <1>1
  <2> QED
    BY <2>1, <2>2, <2>3, <2>4 DEF EventsKept, EventsMatch
<1>4. ASSUME NEW i \in Identities PROVE AudioKept(i)'
  <2>1. AudioKept(i) /\ UNCHANGED <<audio_chunks, audio_bytes_in_window, granted_audio>>
    BY <1>1 DEF LimiterInv, stateVars
  <2>2. History(ArrivalTimes(audio_chunks[i]))'
    BY <1>2, <2>1 DEF AudioKept, ChunksMatch, History
  <2>3. NothingAhead(granted_audio[i])'
    BY <1>2a, <2>1 DEF AudioKept, ChunksMatch, NothingAhead
  <2>4. \A moment \in Moments : now' - window_seconds <= moment => now - window_seconds <= moment
    BY <1>1
  <2> QED
    BY <2>1, <2>2, <2>3, <2>4 DEF AudioKept, ChunksMatch
<1> QED
  BY <1>1, <1>3, <1>4 DEF LimiterInv, stateVars
-----------------------------------------------------------------------------
LEMMA LimiterInit == Init => LimiterInv
<1> SUFFICES ASSUME Init PROVE LimiterInv
  OBVIOUS
<1> DEFINE zero == [t \in Times |-> 0]
<1>1. now \in Times /\ zero \in [Times -> Nat] /\ NothingAhead(zero)
  BY LimiterAssumption DEF Init, Times, NothingAhead
<1>2. ASSUME NEW moment \in Moments PROVE GrantedAfter(zero, moment) = 0
  <2>1. moment \in Int
    BY <1>1, MomentsAreIntegers
  <2>2. /\ IsFiniteSet(After(moment)) /\ NatOn(zero, After(moment)) /\ {} \in SUBSET After(moment)
        /\ \A t \in After(moment) \ {} : zero[t] = 0
    BY <1>1, <2>1, AfterFacts
  <2> HIDE DEF zero
  <2>3. SumFunctionOnSet(zero, {}) = SumFunctionOnSet(zero, After(moment))
    BY <2>2, SumOfSubset
  <2> QED
    BY <2>3, SumEmpty DEF GrantedAfter
<1> HIDE DEF zero
<1>3. /\ History(<<>>) /\ <<>> \in Seq(Chunks) /\ Len(<<>>) = 0 /\ ArrivalTimes(<<>>) = <<>>
  BY DEF History, ArrivalTimes
<1>4. TotalSize(<<>>) = 0 /\ Drop(<<>>, 0) = <<>>
  <2>1. TotalSize(<<>>) = 0
    BY <1>3, ChunkFacts, TotalSizeFacts
  <2>2. SubSeq(<<>>, 1, 0) = <<>>
    BY SubSeqEmpty
  <2> QED
    BY <1>3, <2>1, <2>2 DEF Drop
<1>5. EventsMatch(<<>>, zero)
  <2> SUFFICES ASSUME NEW moment \in Moments, NEW m \in 0..Len(<<>>)
               PROVE  GrantedAfter(zero, moment) = Len(<<>>) - m
    BY <1>1, <1>3 DEF EventsMatch
  <2>1. m = 0
    BY <1>3
  <2> QED
    BY <1>2, <1>3, <2>1
<1>6. ChunksMatch(<<>>, zero)
  <2> SUFFICES ASSUME NEW moment \in Moments, NEW m \in 0..Len(<<>>)
               PROVE  GrantedAfter(zero, moment) = TotalSize(Drop(<<>>, m))
    BY <1>1, <1>3 DEF ChunksMatch
  <2>1. m = 0
    BY <1>3
  <2> QED
    BY <1>2, <1>4, <2>1
<1>7. /\ granted_events = [i \in Identities |-> zero] /\ granted_audio = [i \in Identities |-> zero]
      /\ event_timestamps = [i \in Identities |-> <<>>] /\ audio_chunks = [i \in Identities |-> <<>>]
      /\ audio_bytes_in_window = [i \in Identities |-> 0]
  BY DEF Init, zero
<1>8. event_limit \in Nat /\ audio_bytes_limit \in Nat
  BY LimiterAssumption
<1>9. \A i \in Identities : EventsKept(i) /\ AudioKept(i)
  BY <1>3, <1>4, <1>5, <1>6, <1>7, <1>8 DEF EventsKept, AudioKept
<1>9a. <<>> \in Seq(Times)
  OBVIOUS
<1>10. granted_events \in [Identities -> [Times -> Nat]] /\ granted_audio \in [Identities -> [Times -> Nat]]
  BY <1>1, <1>7
<1> QED
  BY <1>1, <1>3, <1>7, <1>9, <1>9a, <1>10 DEF LimiterInv

LEMMA LimiterStep == LimiterInv /\ [Next]_vars => LimiterInv'
<1> SUFFICES ASSUME LimiterInv, [Next]_vars PROVE LimiterInv'
  OBVIOUS
<1>1. ASSUME NEW i \in Identities, allow_event(i) PROVE LimiterInv'
  BY <1>1, EventStep
<1>2. ASSUME NEW i \in Identities, NEW chunk_size \in ChunkSizes, allow_audio_bytes(i, chunk_size)
      PROVE  LimiterInv'
  BY <1>2, AudioStep
<1>3. CASE Tick
  BY <1>3, ClockStep
<1>4. CASE UNCHANGED vars
  <2>1. UNCHANGED <<now, event_timestamps, audio_chunks, audio_bytes_in_window, granted_events, granted_audio>>
    BY <1>4 DEF vars, stateVars, eventVars, audioVars
  <2>2. ASSUME NEW i \in Identities PROVE EventsKept(i)' /\ AudioKept(i)'
    <3>1. EventsKept(i) /\ AudioKept(i)
      BY DEF LimiterInv
    <3>2. EventsKept(i)'
      BY <2>1, <3>1, EventsKeptNext DEF EventsKept
    <3>3. AudioKept(i)'
      BY <2>1, <3>1, AudioKeptNext DEF AudioKept
    <3> QED
      BY <3>2, <3>3
  <2> QED
    BY <2>1, <2>2 DEF LimiterInv
<1> QED
  BY <1>1, <1>2, <1>3, <1>4 DEF Next

LEMMA LimiterInvariant == Spec => []LimiterInv
BY LimiterInit, LimiterStep, PTL DEF Spec
-----------------------------------------------------------------------------
\* The byte counter is the size of the chunks in the deque, whatever the order in which
\* event and audio requests trimmed it, the deque of events is within the limit, and
\* both are sorted.
THEOREM WindowsStayConsistent == Spec => []WindowsConsistent
<1>1. ASSUME LimiterInv PROVE WindowsConsistent
  <2> SUFFICES ASSUME NEW i \in Identities
               PROVE  /\ audio_bytes_in_window[i] = Bytes(audio_chunks[i])
                      /\ Len(event_timestamps[i]) <= event_limit
                      /\ IsSorted(event_timestamps[i], <=)
                      /\ IsSorted(ArrivalTimes(audio_chunks[i]), <=)
    BY DEF WindowsConsistent
  <2>1. EventsKept(i) /\ AudioKept(i)
    BY <1>1 DEF LimiterInv
  <2>2. audio_bytes_in_window[i] = Bytes(audio_chunks[i]) /\ Len(event_timestamps[i]) <= event_limit
    BY <2>1, BytesIsTotal DEF EventsKept, AudioKept
  <2>3. History(event_timestamps[i]) /\ History(ArrivalTimes(audio_chunks[i]))
    BY <2>1 DEF EventsKept, EventsMatch, AudioKept, ChunksMatch
  <2>4. \A times : History(times) => IsSorted(times, <=)
    BY DEF History, IsSorted
  <2>5. IsSorted(event_timestamps[i], <=)
    BY <2>3 DEF History, IsSorted
  <2>6. IsSorted(ArrivalTimes(audio_chunks[i]), <=)
    BY <2>3 DEF History, IsSorted
  <2> QED
    BY <2>2, <2>5, <2>6
<1> QED
  BY <1>1, LimiterInvariant, PTL
-----------------------------------------------------------------------------
Answers == [allowed : BOOLEAN, observed : Nat]

\* Every answer is a RateLimitResult with a use of the window that is a number.
THEOREM LimiterTypeCorrect == Spec => []TypeOK
<1> DEFINE AnswersOK == event_answer \in Answers /\ audio_answer \in Answers
<1>1. Init => AnswersOK
  BY DEF Init, Result, Answers
<1>2. ASSUME LimiterInv, AnswersOK, [Next]_vars PROVE AnswersOK'
  <2>1. ASSUME NEW i \in Identities, allow_event(i) PROVE AnswersOK'
    <3>1. Len(TrimmedEvents(i)) \in Nat /\ TrimmedEvents(i) \in Seq(Times) /\ now \in Times
      BY <1>2, TrimmedEventsFacts DEF LimiterInv, EventsMatch, History
    <3>2. Len(Append(TrimmedEvents(i), now)) \in Nat
      BY <3>1
    <3> DEFINE allowed == Len(TrimmedEvents(i)) < event_limit
               n == Len(IF allowed THEN Append(TrimmedEvents(i), now) ELSE TrimmedEvents(i))
    <3>3. event_answer' = Result(allowed, n) /\ audio_answer' = audio_answer
      BY <2>1 DEF allow_event, audioVars
    <3>4. allowed \in BOOLEAN /\ n \in Nat
      BY <3>1, <3>2
    <3> HIDE DEF allowed, n
    <3> QED
      BY <1>2, <3>3, <3>4 DEF Result, Answers
  <2>2. ASSUME NEW i \in Identities, NEW chunk_size \in ChunkSizes, allow_audio_bytes(i, chunk_size)
        PROVE  AnswersOK'
    <3>1. TrimmedBytes(i) \in Nat /\ TrimmedBytes(i) + chunk_size \in Nat
      BY <1>2, TrimmedAudioFacts, LimiterAssumption DEF LimiterInv
    <3>2. audio_bytes_in_window'[i] \in Nat
      BY <1>2, <2>2, <3>1 DEF allow_audio_bytes, LimiterInv
    <3> DEFINE allowed == TrimmedBytes(i) + chunk_size <= audio_bytes_limit
    <3>3. audio_answer' = Result(allowed, audio_bytes_in_window'[i]) /\ event_answer' = event_answer
      BY <2>2 DEF allow_audio_bytes, eventVars
    <3>4. allowed \in BOOLEAN
      OBVIOUS
    <3> HIDE DEF allowed
    <3> QED
      BY <1>2, <3>2, <3>3, <3>4 DEF Result, Answers
  <2>3. CASE Tick \/ UNCHANGED vars
    BY <1>2, <2>3 DEF Tick, vars, eventVars, audioVars
  <2> QED
    BY <1>2, <2>1, <2>2, <2>3 DEF Next
<1>3. ASSUME LimiterInv, AnswersOK PROVE TypeOK
  <2>1. ASSUME NEW i \in Identities
        PROVE  /\ event_timestamps[i] \in Seq(Times)
               /\ audio_chunks[i] \in Seq([time : Times, size : ChunkSizes])
               /\ audio_bytes_in_window[i] \in 0..audio_bytes_limit
    <3>1. EventsKept(i) /\ AudioKept(i)
      BY <1>3 DEF LimiterInv
    <3>2. event_timestamps[i] \in Seq(Times) /\ audio_chunks[i] \in Seq(Chunks)
      BY <3>1 DEF EventsKept, EventsMatch, History, AudioKept, ChunksMatch
    <3>3. TotalSize(audio_chunks[i]) \in Nat
      BY <3>2, ChunkFacts, TotalSizeFacts
    <3> QED
      BY <3>1, <3>2, <3>3, LimiterAssumption DEF AudioKept, Chunks
  <2>4. audio_bytes_in_window \in [Identities -> 0..audio_bytes_limit]
    BY <1>3, <2>1 DEF LimiterInv
  <2> QED
    BY <1>3, <2>4 DEF TypeOK, LimiterInv, Answers, Chunks
<1> QED
  BY <1>1, <1>2, <1>3, LimiterInvariant, PTL DEF Spec
-----------------------------------------------------------------------------
(***************************************************************************)
(* The sliding windows: what a trim keeps is what was granted in the       *)
(* window that ends now, so a request is granted exactly when there is     *)
(* room for it, and the answer says how much is used.                      *)
(***************************************************************************)
LEMMA EventsSum == \A f, S : Events!SumFunctionOnSet(f, S) = SumFunctionOnSet(f, S)
BY DEF Events!SumFunctionOnSet, SumFunctionOnSet, Events!FoldFunctionOnSet, FoldFunctionOnSet,
       Events!MapThenFoldSet, MapThenFoldSet

LEMMA AudioSum == \A f, S : Audio!SumFunctionOnSet(f, S) = SumFunctionOnSet(f, S)
BY DEF Audio!SumFunctionOnSet, SumFunctionOnSet, Audio!FoldFunctionOnSet, FoldFunctionOnSet,
       Audio!MapThenFoldSet, MapThenFoldSet

LEMMA WindowIsAfter ==
  ASSUME NEW f, NothingAhead(f), now \in Times, NEW moment \in Int
  PROVE  SumFunctionOnSet(f, {t \in Times : moment < t /\ t <= now}) = GrantedAfter(f, moment)
<1> DEFINE W == {t \in Times : moment < t /\ t <= now}
<1>1. IsFiniteSet(After(moment)) /\ NatOn(f, After(moment))
  BY AfterFacts DEF NothingAhead
<1>2. W \in SUBSET After(moment) /\ \A t \in After(moment) \ W : t \in Times /\ now < t
  BY LimiterAssumption DEF After, Times
<1> HIDE DEF W
<1>3. \A t \in After(moment) \ W : f[t] = 0
  BY <1>2 DEF NothingAhead
<1>4. SumFunctionOnSet(f, W) = SumFunctionOnSet(f, After(moment))
  BY <1>1, <1>2, <1>3, SumOfSubset
<1> QED
  BY <1>4 DEF W, GrantedAfter

LEMMA EventsUsed ==
  ASSUME LimiterInv, NEW i \in Identities
  PROVE  Events!Used(i, now - window_seconds, now) = Len(TrimmedEvents(i))
<1>1. now \in Times /\ EventsKept(i) /\ NothingAhead(granted_events[i]) /\ now - window_seconds \in Int
  BY MomentsAreIntegers DEF LimiterInv, EventsKept, EventsMatch
<1>2. Events!Used(i, now - window_seconds, now)
        = SumFunctionOnSet(granted_events[i], {t \in Times : now - window_seconds < t /\ t <= now})
  BY EventsSum DEF Events!Used, Events!Times, Times
<1> QED
  BY <1>1, <1>2, WindowIsAfter, TrimmedEventsFacts

LEMMA AudioUsed ==
  ASSUME LimiterInv, NEW i \in Identities
  PROVE  Audio!Used(i, now - window_seconds, now) = TrimmedBytes(i)
<1>1. now \in Times /\ AudioKept(i) /\ NothingAhead(granted_audio[i]) /\ now - window_seconds \in Int
  BY MomentsAreIntegers DEF LimiterInv, AudioKept, ChunksMatch
<1>2. Audio!Used(i, now - window_seconds, now)
        = SumFunctionOnSet(granted_audio[i], {t \in Times : now - window_seconds < t /\ t <= now})
  BY AudioSum DEF Audio!Used, Audio!Times, Times
<1> QED
  BY <1>1, <1>2, WindowIsAfter, TrimmedAudioFacts

\* An event request is granted or refused as the sliding window of events would.
LEMMA EventRequestMaps ==
  ASSUME LimiterInv, NEW i \in Identities, allow_event(i)
  PROVE  Events!Grant(i, 1) \/ Events!Refuse(i, 1)
<1> DEFINE used == Events!Used(i, now - window_seconds, now)
           d == TrimmedEvents(i)
           allowed == Len(d) < event_limit
           recorded == IF allowed THEN Append(d, now) ELSE d
<1>1. /\ event_answer' = Result(allowed, Len(recorded)) /\ now' = now
      /\ granted_events' = [granted_events EXCEPT ![i][now] = IF allowed THEN @ + 1 ELSE @]
  BY DEF allow_event
<1>2. used = Len(d) /\ Len(d) \in Nat /\ d \in Seq(Times) /\ now \in Times /\ event_limit \in Nat
  BY EventsUsed, TrimmedEventsFacts, LimiterAssumption DEF LimiterInv, EventsMatch, History
<1>3. granted_events \in [Identities -> [Times -> Nat]]
  BY DEF LimiterInv
<1> HIDE DEF used, d
<1>4. CASE allowed
  <2>1. Len(recorded) = used + 1 /\ used + 1 <= event_limit
    BY <1>2, <1>4
  <2>2. event_answer' = [allowed |-> TRUE, observed |-> used + 1]
    BY <1>1, <1>4, <2>1 DEF Result
  <2>3. granted_events' = [granted_events EXCEPT ![i][now] = @ + 1]
    BY <1>1, <1>4
  <2>4. Events!Grant(i, 1)
    BY <1>1, <2>1, <2>2, <2>3 DEF Events!Grant, used
  <2> QED
    BY <2>4
<1>5. CASE ~allowed
  <2>1. Len(recorded) = used /\ used + 1 > event_limit
    BY <1>2, <1>5
  <2>2. event_answer' = [allowed |-> FALSE, observed |-> used]
    <3>1. allowed = FALSE
      BY <1>5
    <3> HIDE DEF allowed
    <3> QED
      BY <1>1, <2>1, <3>1 DEF Result
  <2>3. granted_events' = granted_events
    <3>1. granted_events' = [granted_events EXCEPT ![i] = [granted_events[i] EXCEPT ![now] = granted_events[i][now]]]
      BY <1>1, <1>5
    <3>2. [granted_events[i] EXCEPT ![now] = granted_events[i][now]] = granted_events[i]
      BY <1>2, <1>3
    <3> QED
      BY <1>3, <3>1, <3>2
  <2>4. Events!Refuse(i, 1)
    BY <1>1, <2>1, <2>2, <2>3 DEF Events!Refuse, used
  <2> QED
    BY <2>4
<1> QED
  BY <1>4, <1>5

LEMMA AudioRequestMaps ==
  ASSUME LimiterInv, NEW i \in Identities, NEW n \in ChunkSizes, allow_audio_bytes(i, n)
  PROVE  Audio!Grant(i, n) \/ Audio!Refuse(i, n)
<1> DEFINE used == Audio!Used(i, now - window_seconds, now)
           bytes == TrimmedBytes(i)
           allowed == bytes + n <= audio_bytes_limit
<1>1. /\ audio_answer' = Result(allowed, audio_bytes_in_window'[i]) /\ now' = now
      /\ granted_audio' = [granted_audio EXCEPT ![i][now] = IF allowed THEN @ + n ELSE @]
      /\ audio_bytes_in_window' = [audio_bytes_in_window EXCEPT ![i] = IF allowed THEN bytes + n ELSE bytes]
  BY DEF allow_audio_bytes
<1>2. /\ used = bytes /\ bytes \in Nat /\ n \in Nat /\ now \in Times /\ audio_bytes_limit \in Nat
      /\ audio_bytes_in_window \in [Identities -> Nat]
  BY AudioUsed, TrimmedAudioFacts, LimiterAssumption DEF LimiterInv
<1>3. granted_audio \in [Identities -> [Times -> Nat]]
  BY DEF LimiterInv
<1> HIDE DEF used, bytes
<1>4. CASE allowed
  <2>1. audio_bytes_in_window'[i] = used + n /\ used + n <= audio_bytes_limit
    BY <1>1, <1>2, <1>4
  <2>2. audio_answer' = [allowed |-> TRUE, observed |-> used + n]
    BY <1>1, <1>4, <2>1 DEF Result
  <2>3. granted_audio' = [granted_audio EXCEPT ![i][now] = @ + n]
    BY <1>1, <1>4
  <2>4. Audio!Grant(i, n)
    BY <1>1, <2>1, <2>2, <2>3 DEF Audio!Grant, used
  <2> QED
    BY <2>4
<1>5. CASE ~allowed
  <2>1. audio_bytes_in_window'[i] = used /\ used + n > audio_bytes_limit
    BY <1>1, <1>2, <1>5
  <2>2. audio_answer' = [allowed |-> FALSE, observed |-> used]
    <3>1. allowed = FALSE
      BY <1>5
    <3> HIDE DEF allowed
    <3> QED
      BY <1>1, <2>1, <3>1 DEF Result
  <2>3. granted_audio' = granted_audio
    <3>1. granted_audio' = [granted_audio EXCEPT ![i] = [granted_audio[i] EXCEPT ![now] = granted_audio[i][now]]]
      BY <1>1, <1>5
    <3>2. [granted_audio[i] EXCEPT ![now] = granted_audio[i][now]] = granted_audio[i]
      BY <1>2, <1>3
    <3> QED
      BY <1>3, <3>1, <3>2
  <2>4. Audio!Refuse(i, n)
    BY <1>1, <2>1, <2>2, <2>3 DEF Audio!Refuse, used
  <2> QED
    BY <2>4
<1> QED
  BY <1>4, <1>5

\* The deques, the byte counter and the two trims implement two independent sliding
\* windows: a request of one kind changes nothing of the other, and every answer is the
\* one the windows give.
THEOREM WindowsSlide == Spec => ImplementsSlidingWindows
<1>1. Init => Events!WindowInit /\ Audio!WindowInit
  BY DEF Init, Result, Events!WindowInit, Audio!WindowInit, Events!Times, Audio!Times, Times
<1>2. ASSUME LimiterInv, [Next]_vars
      PROVE  [Events!WindowNext]_<<now, granted_events, event_answer>>
  <2>1. ASSUME NEW i \in Identities, allow_event(i) PROVE Events!WindowNext
    BY <1>2, <2>1, EventRequestMaps DEF Events!WindowNext
  <2>2. ASSUME NEW i \in Identities, NEW n \in ChunkSizes, allow_audio_bytes(i, n)
        PROVE  UNCHANGED <<now, granted_events, event_answer>>
    BY <2>2 DEF allow_audio_bytes, eventVars
  <2>3. CASE Tick
    BY <2>3 DEF Tick, eventVars, Events!WindowNext, Events!Tick
  <2>4. CASE UNCHANGED vars
    BY <2>4 DEF vars, eventVars
  <2> QED
    BY <1>2, <2>1, <2>2, <2>3, <2>4 DEF Next
<1>3. ASSUME LimiterInv, [Next]_vars
      PROVE  [Audio!WindowNext]_<<now, granted_audio, audio_answer>>
  <2>1. ASSUME NEW i \in Identities, NEW n \in ChunkSizes, allow_audio_bytes(i, n)
        PROVE  Audio!WindowNext
    BY <1>3, <2>1, AudioRequestMaps DEF Audio!WindowNext
  <2>2. ASSUME NEW i \in Identities, allow_event(i)
        PROVE  UNCHANGED <<now, granted_audio, audio_answer>>
    BY <2>2 DEF allow_event, audioVars
  <2>3. CASE Tick
    BY <2>3 DEF Tick, audioVars, Audio!WindowNext, Audio!Tick
  <2>4. CASE UNCHANGED vars
    BY <2>4 DEF vars, audioVars
  <2> QED
    BY <1>3, <2>1, <2>2, <2>3, <2>4 DEF Next
<1> QED
  BY <1>1, <1>2, <1>3, LimiterInvariant, PTL
     DEF Spec, ImplementsSlidingWindows, Events!WindowSpec, Audio!WindowSpec
===============================================================================
