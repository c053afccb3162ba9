-------------------------- MODULE MC_RedisRateLimiter --------------------------
(***************************************************************************)
(* Instances of RedisRateLimiter with two server processes.                *)
(***************************************************************************)
EXTENDS RedisRateLimiter, TLC

CONSTANTS s1, s2

TwoServers == {s1, s2}

\* Both processes run on one host, whose clock showed 0 at time 0.
OneHost == [s \in TwoServers |-> 0]

\* The hosts were started at different times.
TwoHosts == (s1 :> 0) @@ (s2 :> 1)

\* Sound with OneHost, and only for invariants.
Symmetry == Permutations(TwoServers)
=============================================================================
