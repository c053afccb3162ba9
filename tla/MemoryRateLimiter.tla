-------------------------- MODULE MemoryRateLimiter --------------------------
(***************************************************************************)
(* rate_limits.MemoryRateLimiter: one limiter object, which a connection   *)
(* asks about its events and about its audio under the identity it has at  *)
(* the time (anonymous before the hello, its client label after it).       *)
(*                                                                         *)
(* The caller passes time.monotonic(), so the times of the requests never  *)
(* decrease.  A call runs without an await: it is one action.              *)
(***************************************************************************)
EXTENDS Integers, Sequences, SequencesExt

CONSTANTS Identities,
          window_seconds, event_limit, audio_bytes_limit,
          ChunkSizes,  \* sizes of the audio chunks that are asked for
          MaxTime      \* bound: the clock of one run

ASSUME LimiterAssumption ==
  /\ {window_seconds, event_limit, audio_bytes_limit} \subseteq Nat \ {0}
  /\ ChunkSizes \subseteq Nat \ {0}
  /\ MaxTime \in Nat

VARIABLES
  now,
  event_timestamps,       \* _IdentityWindow, one field per variable
  audio_chunks,
  audio_bytes_in_window,
  event_answer,           \* the latest RateLimitResult of each kind
  audio_answer,
  granted_events,         \* history: what was granted, by identity and time
  granted_audio

stateVars == <<event_timestamps, audio_chunks, audio_bytes_in_window>>
eventVars == <<event_answer, granted_events>>
audioVars == <<audio_answer, granted_audio>>
vars == <<now, stateVars, eventVars, audioVars>>

Times == 0..MaxTime

Result(allowed, observed) == [allowed |-> allowed, observed |-> observed]

Init ==
  /\ now = 0
  /\ event_timestamps = [i \in Identities |-> <<>>]
  /\ audio_chunks = [i \in Identities |-> <<>>]
  /\ audio_bytes_in_window = [i \in Identities |-> 0]
  /\ event_answer = Result(TRUE, 0)
  /\ audio_answer = Result(TRUE, 0)
  /\ granted_events = [i \in Identities |-> [t \in Times |-> 0]]
  /\ granted_audio = [i \in Identities |-> [t \in Times |-> 0]]
-----------------------------------------------------------------------------
\* MUTANT of Expired: a request of exactly one window ago still counts.
ExpiredAfter(time) == time < now - window_seconds

\* What _trim drops from the left end of a deque.
Expired(time) == time <= now - window_seconds

\* How many entries the `while` loop of _trim pops: it stops at the first one
\* that is not expired.
Stale(times) ==
  CHOOSE n \in 0..Len(times) :
    /\ \A k \in 1..n : Expired(times[k])
    /\ n < Len(times) => ~Expired(times[n + 1])

Drop(seq, n) == SubSeq(seq, n + 1, Len(seq))

Bytes(audio) == FoldLeft(LAMBDA sum, chunk : sum + chunk.size, 0, audio)

ArrivalTimes(audio) == [k \in DOMAIN audio |-> audio[k].time]

TrimmedEvents(i) == Drop(event_timestamps[i], Stale(event_timestamps[i]))

TrimmedAudio(i) == Drop(audio_chunks[i], Stale(ArrivalTimes(audio_chunks[i])))

\* MUTANT of TrimmedBytes: the dropped chunks are not subtracted.
TrimmedBytesKept(i) == audio_bytes_in_window[i]

\* audio_bytes_in_window loses the size of each chunk that is popped.
TrimmedBytes(i) ==
  audio_bytes_in_window[i]
    - Bytes(SubSeq(audio_chunks[i], 1, Stale(ArrivalTimes(audio_chunks[i]))))

\* allow_event: trims both deques, then refuses or records the event.
allow_event(i) ==
  LET events == TrimmedEvents(i)
      allowed == Len(events) < event_limit
      recorded == IF allowed THEN Append(events, now) ELSE events
  IN
  /\ event_timestamps' = [event_timestamps EXCEPT ![i] = recorded]
  /\ audio_chunks' = [audio_chunks EXCEPT ![i] = TrimmedAudio(i)]
  /\ audio_bytes_in_window' = [audio_bytes_in_window EXCEPT ![i] = TrimmedBytes(i)]
  /\ event_answer' = Result(allowed, Len(recorded))
  /\ granted_events' = [granted_events EXCEPT ![i][now] = IF allowed THEN @ + 1 ELSE @]
  /\ UNCHANGED <<now, audioVars>>

\* allow_audio_bytes: trims both deques, then refuses or records the chunk.
allow_audio_bytes(i, chunk_size) ==
  LET proposed == TrimmedBytes(i) + chunk_size
      allowed == proposed <= audio_bytes_limit
  IN
  /\ event_timestamps' = [event_timestamps EXCEPT ![i] = TrimmedEvents(i)]
  /\ audio_chunks' = [audio_chunks EXCEPT ![i] =
       IF allowed THEN Append(TrimmedAudio(i), [time |-> now, size |-> chunk_size])
                  ELSE TrimmedAudio(i)]
  /\ audio_bytes_in_window' = [audio_bytes_in_window EXCEPT ![i] =
       IF allowed THEN proposed ELSE TrimmedBytes(i)]
  /\ audio_answer' = Result(allowed, audio_bytes_in_window'[i])
  /\ granted_audio' = [granted_audio EXCEPT ![i][now] = IF allowed THEN @ + chunk_size ELSE @]
  /\ UNCHANGED <<now, eventVars>>

\* Time passes between two requests.
Tick ==
  /\ now < MaxTime
  /\ now' = now + 1
  /\ UNCHANGED <<stateVars, eventVars, audioVars>>

Next ==
  \/ \E i \in Identities : allow_event(i)
  \/ \E i \in Identities, chunk_size \in ChunkSizes : allow_audio_bytes(i, chunk_size)
  \/ Tick

Spec == Init /\ [][Next]_vars
-----------------------------------------------------------------------------
TypeOK ==
  /\ now \in Times
  /\ event_timestamps \in [Identities -> Seq(Times)]
  /\ audio_chunks \in [Identities -> Seq([time : Times, size : ChunkSizes])]
  /\ audio_bytes_in_window \in [Identities -> 0..audio_bytes_limit]
  /\ {event_answer, audio_answer} \subseteq [allowed : BOOLEAN, observed : Nat]
  /\ granted_events \in [Identities -> [Times -> Nat]]
  /\ granted_audio \in [Identities -> [Times -> Nat]]

\* The byte counter is the size of the chunks it stands for, however the trims
\* of event requests and of audio requests alternate, and the deques are sorted,
\* which is why popping from the left finds every expired entry.
WindowsConsistent ==
  \A i \in Identities :
    /\ audio_bytes_in_window[i] = Bytes(audio_chunks[i])
    /\ Len(event_timestamps[i]) <= event_limit
    /\ IsSorted(event_timestamps[i], <=)
    /\ IsSorted(ArrivalTimes(audio_chunks[i]), <=)

Events == INSTANCE SlidingWindow WITH
  Amounts <- {1}, Window <- window_seconds, Limit <- event_limit,
  granted <- granted_events, answer <- event_answer

Audio == INSTANCE SlidingWindow WITH
  Amounts <- ChunkSizes, Window <- window_seconds, Limit <- audio_bytes_limit,
  granted <- granted_audio, answer <- audio_answer

\* Of events and of audio, the limiter grants what the sliding window grants and
\* refuses nothing else, and `observed` is the use of the window.
ImplementsSlidingWindows == Events!WindowSpec /\ Audio!WindowSpec
=============================================================================
