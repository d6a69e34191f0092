-------------------------- MODULE GatewayProperties --------------------------
(***************************************************************************)
(* What the gateway guarantees of retries and rates.                       *)
(***************************************************************************)
EXTENDS Gateway

\* Cache, window and requests have the shape of what Redis and memory hold; the
\* window holds admitted stamps only.
TypeOK ==
  /\ now \in 0..MaxTime
  /\ \A k \in Keys : cache[k] = NotCached \/ cache[k].until \in 1..(MaxTime + CacheTTL)
  /\ window \subseteq admitted /\ admitted \subseteq 0..now
  /\ runs \in [Keys \cup {NoKey} -> Nat]
  /\ doubt \subseteq Keys
  /\ pc \in [Requests -> {"idle", "lookup", "hang", "limit", "script", "run", "store"}]
  /\ \A s \in Requests : pc[s] = "idle" => work[s] = Blank

\* What a retry is answered from the cache is the response of a run of the
\* endpoint that committed, never of one that failed or was rolled back.
CachedIsCommitted ==
  \A k \in Keys : cache[k] # NotCached =>
    /\ cache[k].run \in 1..runs[k]
    /\ cache[k].status = IF k \in Created THEN 201 ELSE 200

\* A client that retries after it was answered never runs the endpoint twice:
\* for that, two requests have to overlap, Redis or the server has to fail in
\* one of them, or the day of the cached response has to pass.
RetryIsReplayed == \A k \in Keys : k \notin doubt => runs[k] <= 1

\* No more time stamps than the limit are admitted in any stretch of time that
\* is shorter than the window by the age a stamp may have reached when the
\* script runs: a late stamp is counted after younger ones have moved the
\* window, or Redis has dropped it.
WindowBounded ==
  \A t \in 0..MaxTime :
    Cardinality({x \in admitted : t - (Window - MaxSkew) < x /\ x <= t}) <= Limit
=============================================================================
