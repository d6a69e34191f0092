------------------------------- MODULE Gateway -------------------------------
(***************************************************************************)
(* What a request passes on its way to an endpoint, and back: the          *)
(* idempotency middleware with its cache of responses, the sliding-window  *)
(* rate limiter, the endpoint's database session and the error handlers.   *)
(* Cache and window are in Redis, which may fail at any call.              *)
(*                                                                         *)
(* The middleware is the outermost: whatever escapes from the call below   *)
(* it, an error of the endpoint too, makes it call a second time.          *)
(***************************************************************************)
EXTENDS Integers, FiniteSets

CONSTANTS
  Requests,  \* HTTP requests that may be open at once
  Keys,      \* idempotency keys, each used with one method and path
  NoKey,     \* a request without the header
  WithBody,  \* the keys whose endpoint reads a body
  Created,   \* the keys whose endpoint answers 201, the others 200
  CacheTTL,  \* _IDEMPOTENCY_TTL_SECONDS
  Limit,     \* the rate limit of the scope
  Window,    \* window_seconds
  MaxSkew,   \* bound: how old a time stamp may be when the script runs
  MaxRuns,   \* bound: runs of a key's endpoint that commit
  MaxTime    \* bound: the clock stops here

ASSUME GatewayAssumption ==
  /\ NoKey \notin Keys
  /\ WithBody \cup Created \subseteq Keys \cup {NoKey}
  /\ {CacheTTL, Limit, Window} \subseteq Nat \ {0}
  /\ {MaxSkew, MaxRuns, MaxTime} \subseteq Nat

VARIABLES
  now,       \* the clock
  cache,     \* cached response of every key
  window,    \* the sorted set of the limiter, its members being time stamps
  expires,   \* when Redis drops the sorted set
  runs,      \* committed runs of every key's endpoint
  admitted,  \* time stamps admitted so far; not in the code
  doubt,     \* keys that met a fault, an overlap or an expiry; not in the code
  pc,        \* the step each request takes next
  work       \* what each request holds in memory

redis == <<cache, window, expires>>
vars == <<now, redis, runs, admitted, doubt, pc, work>>

\* status and run are the response's; a run of 0 is an error body.
Blank == [key |-> NoKey, again |-> FALSE, stamp |-> 0, status |-> 500, run |-> 0]

NotCached == [status |-> 0, run |-> 0, until |-> 0]

Init ==
  /\ now = 0
  /\ cache = [k \in Keys |-> NotCached]
  /\ window = {}
  /\ expires = 0
  /\ runs = [k \in Keys \cup {NoKey} |-> 0]
  /\ admitted = {}
  /\ doubt = {}
  /\ pc = [s \in Requests |-> "idle"]
  /\ work = [s \in Requests |-> Blank]

Goto(s, step) == pc' = [pc EXCEPT ![s] = step]

\* Variant: what the request held outlives its answer.
Respond_keeps(s) == Goto(s, "idle") /\ UNCHANGED work

Respond(s) ==
  /\ Goto(s, "idle")
  /\ work' = [work EXCEPT ![s] = Blank]

Doubted(s) == doubt' = doubt \cup ({work[s].key} \ {NoKey})

\* A request arrives.  Without a key the middleware only passes it on, as it
\* does the second time: nothing is looked up and nothing is stored.
dispatch(s, k) ==
  /\ pc[s] = "idle"
  /\ runs[k] < MaxRuns
  /\ work' = [work EXCEPT ![s].key = k, ![s].again = (k = NoKey)]
  /\ doubt' = IF \E o \in Requests : pc[o] # "idle" /\ work[o].key = k
                THEN doubt \cup ({k} \ {NoKey}) ELSE doubt
  /\ Goto(s, IF k = NoKey THEN "limit" ELSE "lookup")
  /\ UNCHANGED <<now, redis, runs, admitted>>

Fresh(k) == cache[k].until > now

\* redis.get: a cached response is the answer, none leads to the endpoint.
Lookup(s) ==
  LET k == work[s].key IN
  /\ pc[s] = "lookup"
  /\ IF Fresh(k) THEN Respond(s) ELSE Goto(s, "limit") /\ UNCHANGED work
  /\ doubt' = IF cache[k] # NotCached /\ ~Fresh(k) THEN doubt \cup {k} ELSE doubt
  /\ UNCHANGED <<now, redis, runs, admitted>>

\* It fails: on to the endpoint without the cache.
LookupFails(s) ==
  /\ pc[s] = "lookup"
  /\ work' = [work EXCEPT ![s].again = TRUE]
  /\ Doubted(s)
  /\ Goto(s, "limit")
  /\ UNCHANGED <<now, redis, runs, admitted>>

\* An exception reaches the middleware, which calls again: an endpoint without
\* a body runs again, one with a body waits for a body that was read already.
\* The second time the exception is answered with 500.
CallAgain(s) ==
  IF work[s].again THEN Respond(s)
  ELSE /\ work' = [work EXCEPT ![s].again = TRUE]
       /\ Goto(s, IF work[s].key \in WithBody THEN "hang" ELSE "limit")

\* The client gives up on a request that waits for its body.
ClientLeaves(s) ==
  /\ pc[s] = "hang"
  /\ Respond(s)
  /\ UNCHANGED <<now, redis, runs, admitted, doubt>>

-----------------------------------------------------------------------------
(* The rate limiter, a dependency of the endpoint.                         *)

\* check_rate_limit takes the time...
StampRequest(s) ==
  /\ pc[s] = "limit"
  /\ work' = [work EXCEPT ![s].stamp = now]
  /\ Goto(s, "script")
  /\ UNCHANGED <<now, redis, runs, admitted, doubt>>

\* Variant: the window in seconds against stamps in milliseconds.
InWindow_seconds(t) == {x \in window : x > t - 1}

\* ZREMRANGEBYSCORE.
InWindow(t) == {x \in window : x > t - Window}

\* ...and the script counts and adds it in one step.  Two requests with one
\* time stamp are one member.
check_rate_limit(s) ==
  LET t == work[s].stamp IN
  /\ pc[s] = "script"
  /\ IF Cardinality(InWindow(t)) < Limit
       THEN /\ window' = InWindow(t) \cup {t}
            /\ expires' = now + Window
            /\ admitted' = admitted \cup {t}
            /\ Goto(s, "run") /\ UNCHANGED work
       ELSE /\ window' = InWindow(t)
            /\ Respond(s)
            /\ UNCHANGED <<expires, admitted>>
  /\ UNCHANGED <<now, cache, runs, doubt>>

\* Redis fails: the error has no handler of its own.
LimiterFails(s) ==
  /\ pc[s] = "script"
  /\ Doubted(s)
  /\ CallAgain(s)
  /\ UNCHANGED <<now, redis, runs, admitted>>

-----------------------------------------------------------------------------
(* The endpoint and its session.                                           *)

\* The endpoint answers, or raises an error that a handler turns into a
\* response; either way the response is made after the session has ended.
RunEndpoint(s) ==
  LET k == work[s].key
      run == runs[k] + 1
      status == IF k \in Created THEN 201 ELSE 200
  IN /\ pc[s] = "run"
     /\ \/ /\ work' = [work EXCEPT ![s].status = status, ![s].run = run]
           /\ runs' = [runs EXCEPT ![k] = run]
        \/ /\ work' = [work EXCEPT ![s].status = 409, ![s].run = 0]
           /\ UNCHANGED runs
     /\ Goto(s, "store")
     /\ UNCHANGED <<now, redis, admitted, doubt>>

\* Another exception, which the generic handler gets after the middleware: the
\* session rolled back, unless it was the answer to its COMMIT that got lost.
EndpointRaises(s) ==
  /\ pc[s] = "run"
  /\ \E committed \in {0, 1} : runs' = [runs EXCEPT ![work[s].key] = @ + committed]
  /\ Doubted(s)
  /\ CallAgain(s)
  /\ UNCHANGED <<now, redis, admitted>>

\* Variants: only 200 is cached; every response is.
Cacheable_200(w) == ~w.again /\ w.status = 200
Cacheable_any(w) == ~w.again

Cacheable(w) == ~w.again /\ w.status \in 200..299

\* redis.setex of a response that succeeded, then the response.
StoreResponse(s) ==
  LET w == work[s] IN
  /\ pc[s] = "store"
  /\ cache' = IF Cacheable(w)
                THEN [cache EXCEPT ![w.key] =
                        [status |-> w.status, run |-> w.run, until |-> now + CacheTTL]]
                ELSE cache
  /\ Respond(s)
  /\ UNCHANGED <<now, window, expires, runs, admitted, doubt>>

\* setex fails, which is ignored, or the process dies: nothing is cached.
StoreFails(s) ==
  /\ pc[s] = "store"
  /\ Doubted(s)
  /\ Respond(s)
  /\ UNCHANGED <<now, redis, runs, admitted>>

Crash(s) ==
  /\ pc[s] # "idle"
  /\ Doubted(s)
  /\ Respond(s)
  /\ UNCHANGED <<now, redis, runs, admitted>>

Tick ==
  /\ now < MaxTime
  /\ \A s \in Requests : pc[s] = "script" => work[s].stamp + MaxSkew > now
  /\ now' = now + 1
  /\ window' = IF now' >= expires THEN {} ELSE window
  /\ UNCHANGED <<cache, expires, runs, admitted, doubt, pc, work>>

Answering(s) ==
  \/ Lookup(s) \/ LookupFails(s) \/ ClientLeaves(s)
  \/ StampRequest(s) \/ check_rate_limit(s) \/ LimiterFails(s)
  \/ RunEndpoint(s) \/ EndpointRaises(s) \/ StoreResponse(s) \/ StoreFails(s)

Next ==
  \/ \E s \in Requests :
       \/ \E k \in Keys \cup {NoKey} : dispatch(s, k)
       \/ Answering(s) \/ Crash(s)
  \/ Tick

Spec == Init /\ [][Next]_vars
=============================================================================
