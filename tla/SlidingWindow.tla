---------------------------- MODULE SlidingWindow ----------------------------
(***************************************************************************)
(* What a sliding-window rate limiter promises, for one kind of quantity   *)
(* (events, or bytes of audio): a request is granted exactly if what was   *)
(* granted to its identity in the window that ends now leaves room for it, *)
(* and the answer says how much of the window is used.                     *)
(***************************************************************************)
EXTENDS Integers, Functions

CONSTANTS Identities, Amounts, Window, Limit,
          MaxTime  \* bound: the clock of one run

VARIABLES now,
          granted,  \* granted[i][t]: what identity i was granted at time t
          answer    \* the latest answer

Times == 0..MaxTime

Answer == [allowed : BOOLEAN, observed : Nat]

\* What identity i was granted after time `from` and not after time `to`.
Used(i, from, to) ==
  SumFunctionOnSet(granted[i], {t \in Times : from < t /\ t <= to})

WindowInit ==
  /\ now = 0
  /\ granted = [i \in Identities |-> [t \in Times |-> 0]]
  /\ answer = [allowed |-> TRUE, observed |-> 0]

Grant(i, n) ==
  /\ Used(i, now - Window, now) + n <= Limit
  /\ granted' = [granted EXCEPT ![i][now] = @ + n]
  /\ answer' = [allowed |-> TRUE, observed |-> Used(i, now - Window, now) + n]
  /\ UNCHANGED now

Refuse(i, n) ==
  /\ Used(i, now - Window, now) + n > Limit
  /\ answer' = [allowed |-> FALSE, observed |-> Used(i, now - Window, now)]
  /\ UNCHANGED <<now, granted>>

Tick ==
  /\ now < MaxTime
  /\ now' = now + 1
  /\ UNCHANGED <<granted, answer>>

WindowNext ==
  \/ \E i \in Identities, n \in Amounts : Grant(i, n) \/ Refuse(i, n)
  \/ Tick

WindowSpec == WindowInit /\ [][WindowNext]_<<now, granted, answer>>
=============================================================================
