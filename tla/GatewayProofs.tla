---------------------------- MODULE GatewayProofs ----------------------------
(***************************************************************************)
(* What is cached was committed, an undisturbed retry runs nothing again,  *)
(* and the limiter admits no more than its limit, for any requests, keys,  *)
(* limits and times.                                                       *)
(*                                                                         *)
(* No property is inductive by itself: a cached response was held by a     *)
(* request before, a key whose endpoint ran is either cached or has its    *)
(* one request on the way to the cache, and Redis still has every admitted *)
(* stamp that a window may reach.                                          *)
(***************************************************************************)
EXTENDS GatewayProperties, FiniteSetTheorems, TLAPS

Steps == {"idle", "lookup", "hang", "limit", "script", "run", "store"}

Work == [key : Keys \cup {NoKey}, again : BOOLEAN, stamp : Nat, status : Nat, run : Nat]

\* The part of the type invariant the proofs need.
Shape ==
  /\ now \in Nat
  /\ cache \in [Keys -> [status : Nat, run : Nat, until : Nat]]
  /\ runs \in [Keys \cup {NoKey} -> Nat]
  /\ pc \in [Requests -> Steps]
  /\ work \in [Requests -> Work]
  /\ \A s \in Requests : pc[s] = "idle" => work[s] = Blank

\* A request without a key never looks into the cache nor stores.
KeylessPasses ==
  \A s \in Requests : pc[s] # "idle" /\ work[s].key = NoKey => work[s].again

Succeeded(w) == w.status = IF w.key \in Created THEN 201 ELSE 200

\* A response that is not yet sent is an error's or that of a committed run.
HeldIsCommitted ==
  \A s \in Requests : pc[s] = "store" =>
    \/ work[s].status = 409
    \/ Succeeded(work[s]) /\ work[s].run \in 1..runs[work[s].key]

CacheInv == Shape /\ KeylessPasses /\ HeldIsCommitted /\ CachedIsCommitted

\* Where a request may be with a key that met no fault.
Undisturbed(s) ==
  LET k == work[s].key IN
  /\ ~work[s].again
  /\ pc[s] # "hang"
  /\ pc[s] \in {"limit", "script", "run"} => runs[k] = 0
  /\ pc[s] = "store" /\ work[s].status = 409 => runs[k] = 0

\* It has one request at most, and once it ran, its response is cached or that
\* request is about to cache it.
Replayed(k) ==
  /\ \A s, o \in Requests : work[s].key = k /\ work[o].key = k => s = o
  /\ \A s \in Requests : work[s].key = k => Undisturbed(s)
  /\ runs[k] # 0 =>
       /\ runs[k] = 1
       /\ \/ cache[k] # NotCached
          \/ \E s \in Requests : work[s].key = k /\ pc[s] = "store" /\ work[s].status # 409

ReplayInv == CacheInv /\ \A k \in Keys \ doubt : Replayed(k)

-----------------------------------------------------------------------------
(* What is cached was committed.                                           *)

LEMMA CacheInit == Init => CacheInv
<1> SUFFICES ASSUME Init PROVE CacheInv
  OBVIOUS
<1> USE GatewayAssumption
<1>1. Blank \in Work
  BY DEF Blank, Work
<1>2. NotCached \in [status : Nat, run : Nat, until : Nat]
  BY DEF NotCached
<1> QED
  BY <1>1, <1>2 DEF Init, CacheInv, Shape, Steps, KeylessPasses, HeldIsCommitted, CachedIsCommitted

\* A request goes on without storing, and committed runs stay committed.
LEMMA GoOn ==
  ASSUME CacheInv, NEW s \in Requests, NEW step \in Steps \ {"store"}, NEW w \in Work,
         step = "idle" => w = Blank,
         step # "idle" => (w.key = NoKey => w.again),
         pc' = [pc EXCEPT ![s] = step], work' = [work EXCEPT ![s] = w],
         cache' = cache, now' = now,
         runs' \in [Keys \cup {NoKey} -> Nat],
         \A k \in Keys \cup {NoKey} : runs[k] <= runs'[k]
  PROVE  CacheInv'
<1> USE DEF CacheInv
<1>1. Shape'
  BY DEF Shape
<1>2. KeylessPasses'
  BY DEF Shape, KeylessPasses
<1>3. HeldIsCommitted'
  <2> SUFFICES ASSUME NEW o \in Requests, pc'[o] = "store", work'[o].status # 409
               PROVE  Succeeded(work'[o]) /\ work'[o].run \in 1..runs'[work'[o].key]
    BY DEF HeldIsCommitted, Succeeded
  <2>1. o # s /\ pc[o] = "store" /\ work'[o] = work[o]
    BY DEF Shape
  <2>2. work[o].key \in Keys \cup {NoKey} /\ work[o].run \in Nat
    BY DEF Shape, Work
  <2>3. Succeeded(work[o]) /\ work[o].run \in 1..runs[work[o].key]
    BY <2>1 DEF HeldIsCommitted
  <2>4. runs[work[o].key] \in Nat /\ runs'[work[o].key] \in Nat
    BY <2>2 DEF Shape
  <2> QED
    BY <2>1, <2>2, <2>3, <2>4 DEF Shape
<1>4. CachedIsCommitted'
  <2> SUFFICES ASSUME NEW k \in Keys, cache[k] # NotCached
               PROVE  /\ cache[k].run \in 1..runs'[k]
                      /\ cache[k].status = IF k \in Created THEN 201 ELSE 200
    BY DEF CachedIsCommitted
  <2>1. runs[k] \in Nat /\ runs'[k] \in Nat /\ runs[k] <= runs'[k]
    BY DEF Shape
  <2> QED
    BY <2>1 DEF CachedIsCommitted
<1> QED
  BY <1>1, <1>2, <1>3, <1>4

LEMMA BlankIsWork == Blank \in Work
  BY DEF Blank, Work

\* Every step in which an open request goes on without storing has this form.
LEMMA Passing ==
  ASSUME CacheInv, NEW s \in Requests,
         \/ \E k \in Keys \cup {NoKey} : dispatch(s, k)
         \/ Lookup(s) \/ LookupFails(s) \/ ClientLeaves(s)
         \/ StampRequest(s) \/ check_rate_limit(s) \/ LimiterFails(s)
         \/ EndpointRaises(s) \/ StoreFails(s) \/ Crash(s)
  PROVE  CacheInv'
<1> USE DEF CacheInv
<1>0. work[s] \in Work /\ pc[s] \in Steps /\ now \in Nat /\ (pc[s] # "idle" => (work[s].key = NoKey => work[s].again))
  BY DEF Shape, KeylessPasses
<1>a. work = [work EXCEPT ![s] = work[s]]
  BY DEF Shape
<1>b. \A k \in Keys \cup {NoKey} : runs[k] \in Nat /\ runs[k] <= runs[k]
  BY DEF Shape
<1>c. runs \in [Keys \cup {NoKey} -> Nat]
  BY DEF Shape
<1>1. CASE Respond(s) /\ UNCHANGED <<now, cache, runs>>
  BY <1>1, <1>b, <1>c, BlankIsWork, GoOn DEF Respond, Goto, Steps
<1>2. ASSUME NEW step \in Steps \ {"store", "idle"}, pc[s] # "idle", Goto(s, step), UNCHANGED <<now, cache, runs, work>>
      PROVE  CacheInv'
  <2>1. work' = [work EXCEPT ![s] = work[s]]
    BY <1>2, <1>a
  <2> QED
    BY <1>2, <2>1, <1>0, <1>b, <1>c, GoOn DEF Goto
<1>3. ASSUME NEW step \in Steps \ {"store", "idle"}, NEW w \in Work, w.key = NoKey => w.again,
             Goto(s, step), UNCHANGED <<now, cache, runs>>, work' = [work EXCEPT ![s] = w]
      PROVE  CacheInv'
  BY <1>3, <1>b, <1>c, GoOn DEF Goto
<1>4. ASSUME NEW k \in Keys \cup {NoKey}, dispatch(s, k) PROVE CacheInv'
  <2> DEFINE w == [work[s] EXCEPT !.key = k, !.again = (k = NoKey)]
  <2>1. w \in Work /\ w.key = k /\ w.again = (k = NoKey)
    BY <1>0 DEF Work
  <2>2. work' = [work EXCEPT ![s] = w]
    BY <1>4 DEF dispatch
  <2>3. PICK step \in {"limit", "lookup"} : Goto(s, step)
    BY <1>4 DEF dispatch
  <2>4. UNCHANGED <<now, cache, runs>>
    BY <1>4 DEF dispatch, redis
  <2> HIDE DEF w
  <2> QED
    BY <2>1, <2>2, <2>3, <2>4, <1>3 DEF Steps
<1>5. ASSUME pc[s] # "idle", CallAgain(s), UNCHANGED <<now, cache>>, runs' \in [Keys \cup {NoKey} -> Nat],
             \A k \in Keys \cup {NoKey} : runs[k] <= runs'[k]
      PROVE  CacheInv'
  <2>1. CASE work[s].again
    BY <2>1, <1>5, BlankIsWork, GoOn DEF CallAgain, Respond, Goto, Steps
  <2>2. CASE ~work[s].again
    <3> DEFINE w == [work[s] EXCEPT !.again = TRUE]
    <3>1. w \in Work /\ w.again
      BY <1>0 DEF Work
    <3>2. work' = [work EXCEPT ![s] = w]
      BY <2>2, <1>5 DEF CallAgain
    <3>3. PICK step \in {"hang", "limit"} : Goto(s, step)
      BY <2>2, <1>5 DEF CallAgain
    <3> HIDE DEF w
    <3> QED
      BY <1>5, <3>1, <3>2, <3>3, GoOn DEF Goto, Steps
  <2> QED
    BY <2>1, <2>2
<1>6. CASE Lookup(s)
  BY <1>6, <1>1, <1>2 DEF Lookup, redis, Steps
<1>7. CASE LookupFails(s)
  <2> DEFINE w == [work[s] EXCEPT !.again = TRUE]
  <2>1. w \in Work /\ w.again
    BY <1>0 DEF Work
  <2>2. work' = [work EXCEPT ![s] = w]
    BY <1>7 DEF LookupFails
  <2> HIDE DEF w
  <2> QED
    BY <1>7, <2>1, <2>2, <1>3 DEF LookupFails, redis, Steps
<1>8. CASE ClientLeaves(s)
  BY <1>8, <1>1 DEF ClientLeaves, redis
<1>9. CASE StampRequest(s)
  <2> DEFINE w == [work[s] EXCEPT !.stamp = now]
  <2>1. w \in Work /\ w.key = work[s].key /\ w.again = work[s].again
    BY <1>0 DEF Work
  <2>2. work' = [work EXCEPT ![s] = w] /\ pc[s] # "idle"
    BY <1>9 DEF StampRequest
  <2>3. w.key = NoKey => w.again
    BY <2>1, <2>2, <1>0
  <2> HIDE DEF w
  <2> QED
    BY <1>9, <2>1, <2>2, <2>3, <1>3 DEF StampRequest, redis, Steps
<1>10. CASE check_rate_limit(s)
  BY <1>10, <1>1, <1>2 DEF check_rate_limit, Steps
<1>11. CASE LimiterFails(s)
  BY <1>11, <1>5, <1>b, <1>c DEF LimiterFails, redis
<1>12. CASE EndpointRaises(s)
  <2>1. PICK committed \in {0, 1} : runs' = [runs EXCEPT ![work[s].key] = @ + committed]
    BY <1>12 DEF EndpointRaises
  <2>2. ASSUME NEW k \in Keys \cup {NoKey}
        PROVE  runs'[k] \in Nat /\ runs[k] <= runs'[k]
    BY <2>1, <1>b, <1>c
  <2>3. runs' \in [Keys \cup {NoKey} -> Nat]
    BY <2>1, <2>2, <1>c
  <2> QED
    BY <1>12, <2>2, <2>3, <1>5 DEF EndpointRaises, redis
<1>13. CASE StoreFails(s)
  BY <1>13, <1>1 DEF StoreFails, redis
<1>14. CASE Crash(s)
  BY <1>14, <1>1 DEF Crash, redis
<1> QED
  BY <1>4, <1>6, <1>7, <1>8, <1>9, <1>10, <1>11, <1>12, <1>13, <1>14

\* The endpoint answers with its next run, or with an error.
LEMMA RunOutcome ==
  ASSUME Shape, NEW s \in Requests, RunEndpoint(s)
  PROVE  \E w \in Work :
           /\ work' = [work EXCEPT ![s] = w]
           /\ w.key = work[s].key /\ w.again = work[s].again
           /\ \/ /\ Succeeded(w) /\ w.run = runs[w.key] + 1
                 /\ runs' = [runs EXCEPT ![w.key] = runs[w.key] + 1]
              \/ w.status = 409 /\ runs' = runs
<1> DEFINE k == work[s].key
           run == runs[k] + 1
           status == IF k \in Created THEN 201 ELSE 200
<1>0. work[s] \in Work /\ runs[k] \in Nat
  BY DEF Shape, Work
<1>1. ASSUME NEW x \in Nat, NEW y \in Nat, work' = [work EXCEPT ![s].status = x, ![s].run = y]
      PROVE  \E w \in Work : /\ work' = [work EXCEPT ![s] = w]
                             /\ w.key = k /\ w.again = work[s].again /\ w.status = x /\ w.run = y
  <2> DEFINE v == [work[s] EXCEPT !.status = x]
             w == [v EXCEPT !.run = y]
  <2>1. v \in Work /\ v.key = k /\ v.again = work[s].again /\ v.status = x
    BY <1>0 DEF Work
  <2>2. work' = [work EXCEPT ![s] = w]
    BY <1>1
  <2> HIDE DEF v
  <2>3. w \in Work /\ w.key = k /\ w.again = work[s].again /\ w.status = x /\ w.run = y
    BY <2>1 DEF Work
  <2> HIDE DEF w
  <2> QED
    BY <2>2, <2>3
<1>2. status \in Nat /\ run \in Nat
  BY <1>0
<1>3. \/ work' = [work EXCEPT ![s].status = status, ![s].run = run] /\ runs' = [runs EXCEPT ![k] = run]
      \/ work' = [work EXCEPT ![s].status = 409, ![s].run = 0] /\ runs' = runs
  BY DEF RunEndpoint
<1> HIDE DEF status, run
<1>4. CASE work' = [work EXCEPT ![s].status = status, ![s].run = run] /\ runs' = [runs EXCEPT ![k] = run]
  <2>1. PICK w \in Work : /\ work' = [work EXCEPT ![s] = w]
                          /\ w.key = k /\ w.again = work[s].again /\ w.status = status /\ w.run = run
    BY <1>1, <1>2, <1>4
  <2>2. Succeeded(w) /\ w.run = runs[w.key] + 1 /\ runs' = [runs EXCEPT ![w.key] = runs[w.key] + 1]
    BY <2>1, <1>4 DEF Succeeded, status, run
  <2> QED
    BY <2>1, <2>2
<1>5. CASE work' = [work EXCEPT ![s].status = 409, ![s].run = 0] /\ runs' = runs
  <2> DEFINE error == 409
             none == 0
  <2>0. work' = [work EXCEPT ![s].status = error, ![s].run = none] /\ error \in Nat /\ none \in Nat
    BY <1>5
  <2> HIDE DEF error, none
  <2>1. PICK w \in Work : /\ work' = [work EXCEPT ![s] = w]
                          /\ w.key = k /\ w.again = work[s].again /\ w.status = error
    BY <1>1, <2>0
  <2> QED
    BY <2>1, <1>5 DEF error
<1> QED
  BY <1>3, <1>4, <1>5

\* The endpoint's response waits for the cache; no other response is disturbed,
\* since committed runs only grow.
LEMMA Running ==
  ASSUME CacheInv, NEW s \in Requests, RunEndpoint(s)
  PROVE  CacheInv'
<1> DEFINE k == work[s].key
           run == runs[k] + 1
<1> USE DEF CacheInv
<1>0. work[s] \in Work /\ k \in Keys \cup {NoKey} /\ runs[k] \in Nat /\ pc[s] = "run"
  BY DEF Shape, Work, RunEndpoint
<1>1. PICK w \in Work :
        /\ work' = [work EXCEPT ![s] = w]
        /\ w.key = k /\ w.again = work[s].again
        /\ \/ Succeeded(w) /\ w.run = run /\ runs' = [runs EXCEPT ![k] = run]
           \/ w.status = 409 /\ runs' = runs
  BY RunOutcome
<1>2. pc' = [pc EXCEPT ![s] = "store"] /\ UNCHANGED <<now, cache>>
  BY DEF RunEndpoint, Goto, redis
<1>3. runs' \in [Keys \cup {NoKey} -> Nat]
  BY <1>0, <1>1 DEF Shape
<1>4. \A j \in Keys \cup {NoKey} : runs[j] \in Nat /\ runs[j] <= runs'[j]
  BY <1>0, <1>1 DEF Shape
<1>5. Shape'
  BY <1>1, <1>2, <1>3 DEF Shape, Steps
<1>6. KeylessPasses'
  BY <1>0, <1>1, <1>2 DEF Shape, KeylessPasses
<1>7. HeldIsCommitted'
  <2> SUFFICES ASSUME NEW o \in Requests, pc'[o] = "store", work'[o].status # 409
               PROVE  Succeeded(work'[o]) /\ work'[o].run \in 1..runs'[work'[o].key]
    BY DEF HeldIsCommitted, Succeeded
  <2>1. CASE o = s
    <3>1. work'[o] = w
      BY <2>1, <1>1 DEF Shape
    <3>2. Succeeded(w) /\ w.run = run /\ runs'[k] = run
      BY <3>1, <1>0, <1>1 DEF Shape
    <3> QED
      BY <3>1, <3>2, <1>0, <1>1 DEF Succeeded
  <2>2. CASE o # s
    <3>1. pc[o] = "store" /\ work'[o] = work[o]
      BY <2>2, <1>1, <1>2 DEF Shape
    <3>2. work[o].key \in Keys \cup {NoKey} /\ work[o].run \in Nat
      BY DEF Shape, Work
    <3>3. Succeeded(work[o]) /\ work[o].run \in 1..runs[work[o].key]
      BY <3>1 DEF HeldIsCommitted
    <3> QED
      BY <3>1, <3>2, <3>3, <1>3, <1>4
  <2> QED
    BY <2>1, <2>2
<1>8. CachedIsCommitted'
  <2> SUFFICES ASSUME NEW j \in Keys, cache[j] # NotCached
               PROVE  /\ cache[j].run \in 1..runs'[j]
                      /\ cache[j].status = IF j \in Created THEN 201 ELSE 200
    BY <1>2 DEF CachedIsCommitted
  <2>1. runs[j] \in Nat /\ runs'[j] \in Nat /\ runs[j] <= runs'[j]
    BY <1>3, <1>4
  <2> QED
    BY <2>1 DEF CachedIsCommitted
<1> QED
  BY <1>5, <1>6, <1>7, <1>8

\* Only a response that succeeded is stored, and it has a key.
LEMMA Storing ==
  ASSUME CacheInv, NEW s \in Requests, StoreResponse(s)
  PROVE  CacheInv'
<1> DEFINE w == work[s]
           stored == [status |-> w.status, run |-> w.run, until |-> now + CacheTTL]
<1> USE DEF CacheInv
<1>0. /\ w \in Work /\ pc[s] = "store" /\ (w.key = NoKey => w.again)
      /\ pc' = [pc EXCEPT ![s] = "idle"] /\ work' = [work EXCEPT ![s] = Blank]
      /\ UNCHANGED <<now, runs>>
  BY DEF Shape, KeylessPasses, StoreResponse, Respond, Goto
<1>1. CASE Cacheable(w)
  <2>1. w.key \in Keys /\ w.run \in Nat /\ w.status \in Nat /\ w.status # 409
    BY <1>0, <1>1 DEF Cacheable, Work
  <2>2. Succeeded(w) /\ w.run \in 1..runs[w.key]
    BY <1>0, <2>1 DEF HeldIsCommitted
  <2>3. cache' = [cache EXCEPT ![w.key] = stored]
    BY <1>1 DEF StoreResponse
  <2>4. stored \in [status : Nat, run : Nat, until : Nat]
    BY <2>1, GatewayAssumption DEF Shape
  <2> HIDE DEF stored
  <2>5. Shape'
    BY <1>0, <2>1, <2>3, <2>4, BlankIsWork DEF Shape, Steps
  <2>6. KeylessPasses' /\ HeldIsCommitted'
    BY <1>0 DEF Shape, KeylessPasses, HeldIsCommitted, Succeeded
  <2>7. CachedIsCommitted'
    BY <1>0, <2>1, <2>2, <2>3 DEF stored, Shape, CachedIsCommitted, Succeeded
  <2> QED
    BY <2>5, <2>6, <2>7
<1>2. CASE ~Cacheable(w)
  <2>1. cache' = cache
    BY <1>2 DEF StoreResponse
  <2>2. \A k \in Keys \cup {NoKey} : runs[k] <= runs'[k]
    BY <1>0 DEF Shape
  <2> QED
    BY <1>0, <2>1, <2>2, BlankIsWork, GoOn DEF Shape, Steps
<1> QED
  BY <1>1, <1>2

LEMMA CacheStep == CacheInv /\ [Next]_vars => CacheInv'
<1> SUFFICES ASSUME CacheInv, [Next]_vars PROVE CacheInv'
  OBVIOUS
<1>1. CASE UNCHANGED vars
  BY <1>1 DEF vars, redis, CacheInv, Shape, KeylessPasses, HeldIsCommitted, CachedIsCommitted,
              Succeeded
<1>2. CASE Tick
  BY <1>2 DEF Tick, CacheInv, Shape, KeylessPasses, HeldIsCommitted, CachedIsCommitted, Succeeded
<1>3. ASSUME NEW s \in Requests, (\E k \in Keys \cup {NoKey} : dispatch(s, k)) \/ Answering(s) \/ Crash(s)
      PROVE  CacheInv'
  BY <1>3, Passing, Running, Storing DEF Answering
<1> QED
  BY <1>1, <1>2, <1>3 DEF Next

\* Whatever is cached for a key is the response of one of its runs that
\* committed: two requests, a failing Redis or a lost COMMIT never make the
\* middleware replay a response of something that did not happen.
THEOREM CachesCommitted == Spec => []CachedIsCommitted
<1>1. CacheInv => CachedIsCommitted
  BY DEF CacheInv
<1> QED
  BY CacheInit, CacheStep, <1>1, PTL DEF Spec

-----------------------------------------------------------------------------
(* An undisturbed retry is replayed.                                       *)

\* What other requests do with other keys does not matter to a key.
LEMMA Elsewhere ==
  ASSUME NEW k \in Keys, Replayed(k), NEW s \in Requests,
         work[s].key # k, work'[s].key # k,
         \A o \in Requests \ {s} : work'[o] = work[o] /\ pc'[o] = pc[o],
         runs'[k] = runs[k], cache'[k] = cache[k]
  PROVE  Replayed(k)'
  BY DEF Replayed, Undisturbed

\* The one request that has the key decides what becomes of it.
LEMMA Alone ==
  ASSUME NEW k \in Keys, NEW s \in Requests,
         \A o \in Requests \ {s} : work'[o].key # k,
         work'[s].key = k => Undisturbed(s)',
         runs'[k] # 0 =>
           /\ runs'[k] = 1
           /\ \/ cache'[k] # NotCached
              \/ work'[s].key = k /\ pc'[s] = "store" /\ work'[s].status # 409
  PROVE  Replayed(k)'
  BY DEF Replayed

\* A request that goes on with its key, or ends.
LEMMA Others ==
  ASSUME Shape, NEW s \in Requests, NEW step, NEW w,
         pc' = [pc EXCEPT ![s] = step], work' = [work EXCEPT ![s] = w]
  PROVE  /\ pc'[s] = step /\ work'[s] = w
         /\ \A o \in Requests \ {s} : work'[o] = work[o] /\ pc'[o] = pc[o]
  BY DEF Shape

LEMMA RespondEnds ==
  ASSUME Shape, NEW s \in Requests, Respond(s)
  PROVE  /\ work'[s].key = NoKey
         /\ \A o \in Requests \ {s} : work'[o] = work[o] /\ pc'[o] = pc[o]
<1>1. pc' = [pc EXCEPT ![s] = "idle"] /\ work' = [work EXCEPT ![s] = Blank]
  BY DEF Respond, Goto
<1>2. Blank.key = NoKey
  BY DEF Blank
<1> QED
  BY <1>1, <1>2 DEF Shape

\* A step that meets a fault puts its key in doubt.
LEMMA Faulty ==
  ASSUME ReplayInv, NEW s \in Requests, NEW k \in Keys \ doubt',
         LookupFails(s) \/ LimiterFails(s) \/ EndpointRaises(s) \/ StoreFails(s) \/ Crash(s)
  PROVE  Replayed(k)'
<1> USE DEF ReplayInv, CacheInv
<1>1. Doubted(s)
  BY DEF LookupFails, LimiterFails, EndpointRaises, StoreFails, Crash
<1>2. work[s].key # k /\ k \notin doubt /\ Replayed(k)
  BY <1>1, GatewayAssumption DEF Doubted
<1>3. cache' = cache
  BY DEF LookupFails, LimiterFails, EndpointRaises, StoreFails, Crash, redis
<1>4. runs'[k] = runs[k]
  <2>1. CASE EndpointRaises(s)
    BY <2>1, <1>2 DEF EndpointRaises, Shape
  <2> QED
    BY <2>1 DEF LookupFails, LimiterFails, EndpointRaises, StoreFails, Crash
<1>5. /\ work'[s].key # k
      /\ \A o \in Requests \ {s} : work'[o] = work[o] /\ pc'[o] = pc[o]
  <2>1. CASE Respond(s)
    BY <2>1, RespondEnds, GatewayAssumption
  <2>2. ASSUME NEW step, Goto(s, step), work' = [work EXCEPT ![s].again = TRUE]
        PROVE  <1>5
    <3> DEFINE w == [work[s] EXCEPT !.again = TRUE]
    <3>1. w.key = work[s].key
      BY DEF Shape, Work
    <3>2. work' = [work EXCEPT ![s] = w]
      BY <2>2
    <3> HIDE DEF w
    <3> QED
      BY <2>2, <3>1, <3>2, <1>2, Others DEF Goto
  <2> QED
    BY <2>1, <2>2 DEF LookupFails, LimiterFails, EndpointRaises, StoreFails, Crash, CallAgain
<1> QED
  BY <1>2, <1>3, <1>4, <1>5, Elsewhere

\* A request that arrives is the only one with its key or puts it in doubt.
LEMMA Arriving ==
  ASSUME ReplayInv, NEW s \in Requests, NEW key \in Keys \cup {NoKey}, dispatch(s, key),
         NEW k \in Keys \ doubt'
  PROVE  Replayed(k)'
<1> USE DEF ReplayInv, CacheInv
<1> DEFINE w == [work[s] EXCEPT !.key = key, !.again = (key = NoKey)]
<1>1. w.key = key /\ w.again = (key = NoKey)
  BY DEF Shape, Work
<1>2. PICK step \in {"limit", "lookup"} : Goto(s, step) /\ (key # NoKey => step = "lookup")
  BY DEF dispatch
<1>3. work' = [work EXCEPT ![s] = w]
  BY DEF dispatch
<1> HIDE DEF w
<1>4. /\ pc'[s] = step /\ work'[s] = w
      /\ \A o \in Requests \ {s} : work'[o] = work[o] /\ pc'[o] = pc[o]
  BY <1>2, <1>3, Others DEF Goto
<1>5. k \notin doubt /\ Replayed(k) /\ cache' = cache /\ runs' = runs
  BY DEF dispatch, redis
<1>6. work[s].key = NoKey /\ NoKey # k
  BY GatewayAssumption DEF dispatch, Shape, Blank
<1>7. CASE key # k
  BY <1>1, <1>4, <1>5, <1>6, <1>7, Elsewhere
<1>8. CASE key = k
  <2>1. \A o \in Requests : pc[o] = "idle" \/ work[o].key # k
    BY <1>6, <1>8 DEF dispatch
  <2>2. \A o \in Requests : work[o].key # k
    BY <2>1, <1>6 DEF Shape, Blank
  <2>3. Undisturbed(s)'
    BY <1>1, <1>2, <1>4, <1>6, <1>8 DEF Undisturbed
  <2>4. runs'[k] # 0 => runs'[k] = 1 /\ cache'[k] # NotCached
    BY <1>5, <2>2 DEF Replayed
  <2> QED
    BY <1>4, <2>2, <2>3, <2>4, Alone
<1> QED
  BY <1>7, <1>8

\* The steps of a request that meets no fault leave the other keys alone.
LEMMA OwnKeyOnly ==
  ASSUME ReplayInv, NEW s \in Requests,
         \/ Lookup(s) \/ ClientLeaves(s) \/ StampRequest(s) \/ check_rate_limit(s)
         \/ RunEndpoint(s) \/ StoreResponse(s)
  PROVE  /\ doubt \subseteq doubt'
         /\ \A o \in Requests \ {s} : work'[o] = work[o] /\ pc'[o] = pc[o]
         /\ work'[s].key \in {work[s].key, NoKey}
         /\ \A k \in Keys \ {work[s].key} : runs'[k] = runs[k] /\ cache'[k] = cache[k]
<1> USE DEF ReplayInv, CacheInv
<1>1. doubt \subseteq doubt'
  BY DEF Lookup, ClientLeaves, StampRequest, check_rate_limit, RunEndpoint, StoreResponse
<1>2. \A k \in Keys \ {work[s].key} : runs'[k] = runs[k]
  BY DEF Lookup, ClientLeaves, StampRequest, check_rate_limit, RunEndpoint, StoreResponse, Shape
<1>3. \A k \in Keys \ {work[s].key} : cache'[k] = cache[k]
  BY DEF Lookup, ClientLeaves, StampRequest, check_rate_limit, RunEndpoint, StoreResponse, Shape, redis
<1>4. /\ \A o \in Requests \ {s} : work'[o] = work[o] /\ pc'[o] = pc[o]
      /\ work'[s].key \in {work[s].key, NoKey}
  <2>1. CASE Respond(s)
    BY <2>1, RespondEnds
  <2>2. ASSUME NEW step, Goto(s, step), work' = work PROVE <1>4
    BY <2>2 DEF Goto, Shape
  <2>3. CASE StampRequest(s)
    <3> DEFINE w == [work[s] EXCEPT !.stamp = now]
    <3>1. w.key = work[s].key
      BY DEF Shape, Work
    <3>2. work' = [work EXCEPT ![s] = w] /\ pc' = [pc EXCEPT ![s] = "script"]
      BY <2>3 DEF StampRequest, Goto
    <3> HIDE DEF w
    <3> QED
      BY <3>1, <3>2, Others
  <2>4. CASE RunEndpoint(s)
    <3>1. PICK w \in Work : work' = [work EXCEPT ![s] = w] /\ w.key = work[s].key
      BY <2>4, RunOutcome
    <3>2. pc' = [pc EXCEPT ![s] = "store"]
      BY <2>4 DEF RunEndpoint, Goto
    <3> QED
      BY <3>1, <3>2 DEF Shape
  <2> QED
    BY <2>1, <2>2, <2>3, <2>4 DEF Lookup, ClientLeaves, check_rate_limit, StoreResponse
<1> QED
  BY <1>1, <1>2, <1>3, <1>4

LEMMA Proceeding ==
  ASSUME ReplayInv, NEW s \in Requests, NEW k \in Keys \ doubt',
         \/ Lookup(s) \/ ClientLeaves(s) \/ StampRequest(s) \/ check_rate_limit(s)
         \/ RunEndpoint(s) \/ StoreResponse(s)
  PROVE  Replayed(k)'
<1> USE DEF ReplayInv, CacheInv
<1>0. /\ k \notin doubt /\ Replayed(k) /\ NoKey # k
      /\ \A o \in Requests \ {s} : work'[o] = work[o] /\ pc'[o] = pc[o]
      /\ work'[s].key \in {work[s].key, NoKey}
      /\ \A j \in Keys \ {work[s].key} : runs'[j] = runs[j] /\ cache'[j] = cache[j]
  BY OwnKeyOnly, GatewayAssumption
<1>1. CASE work[s].key # k
  BY <1>0, <1>1, Elsewhere
<1>2. ASSUME work[s].key = k PROVE Replayed(k)'
  <2>1. Undisturbed(s) /\ \A o \in Requests \ {s} : work[o].key # k
    BY <1>0, <1>2 DEF Replayed
  <2>2. \A o \in Requests \ {s} : work'[o].key # k
    BY <1>0, <2>1
  <2>3. runs[k] # 0 => /\ runs[k] = 1
                       /\ cache[k] # NotCached \/ (pc[s] = "store" /\ work[s].status # 409)
    BY <1>0, <2>1 DEF Replayed
  <2>4. ASSUME Respond(s), runs' = runs, cache' = cache, pc[s] # "store" PROVE Replayed(k)'
    BY <2>4, <1>0, <2>2, <2>3, RespondEnds, Alone
  <2>5. CASE Lookup(s)
    <3>1. CASE Fresh(k)
      BY <1>2, <2>4, <2>5, <3>1 DEF Lookup, redis
    <3>2. CASE ~Fresh(k)
      <4>1. cache[k] = NotCached /\ pc[s] = "lookup" /\ Goto(s, "limit") /\ UNCHANGED <<work, runs, cache>>
        BY <1>2, <2>5, <3>2 DEF Lookup, redis
      <4>2. runs[k] = 0
        BY <2>3, <4>1
      <4>3. Undisturbed(s)'
        BY <4>1, <4>2, <1>2, <2>1 DEF Undisturbed, Goto, Shape
      <4> QED
        BY <4>1, <4>2, <4>3, <2>2, Alone
    <3> QED
      BY <3>1, <3>2
  <2>6. CASE ClientLeaves(s)
    BY <2>1, <2>6 DEF ClientLeaves, Undisturbed
  <2>7. CASE StampRequest(s)
    <3> DEFINE w == [work[s] EXCEPT !.stamp = now]
    <3>1. w.key = k /\ w.again = work[s].again
      BY <1>2 DEF Shape, Work
    <3>2. work' = [work EXCEPT ![s] = w] /\ pc' = [pc EXCEPT ![s] = "script"]
      BY <2>7 DEF StampRequest, Goto
    <3> HIDE DEF w
    <3>3. work'[s] = w /\ pc'[s] = "script" /\ pc[s] = "limit" /\ runs' = runs /\ cache' = cache
      <4>1. work'[s] = w /\ pc'[s] = "script"
        BY <3>2 DEF Shape
      <4>2. pc[s] = "limit" /\ runs' = runs /\ cache' = cache
        BY <2>7 DEF StampRequest, redis
      <4> QED
        BY <4>1, <4>2
    <3>4. runs[k] = 0 /\ Undisturbed(s)'
      BY <1>2, <2>1, <3>1, <3>3 DEF Undisturbed
    <3> QED
      BY <3>3, <3>4, <2>2, Alone
  <2>8. CASE check_rate_limit(s)
    <3>1. pc[s] = "script" /\ runs' = runs /\ cache' = cache
      BY <2>8 DEF check_rate_limit
    <3>2. CASE Respond(s)
      BY <2>4, <3>1, <3>2
    <3>3. CASE Goto(s, "run") /\ UNCHANGED work
      <4>1. runs[k] = 0 /\ Undisturbed(s)'
        BY <1>2, <2>1, <3>1, <3>3 DEF Undisturbed, Goto, Shape
      <4> QED
        BY <3>1, <4>1, <2>2, Alone
    <3> QED
      BY <3>2, <3>3, <2>8 DEF check_rate_limit
  <2>9. CASE RunEndpoint(s)
    <3>1. PICK w \in Work :
            /\ work' = [work EXCEPT ![s] = w]
            /\ w.key = k /\ w.again = work[s].again
            /\ \/ Succeeded(w) /\ runs' = [runs EXCEPT ![k] = runs[k] + 1]
               \/ w.status = 409 /\ runs' = runs
      BY <1>2, <2>9, RunOutcome
    <3>2. pc' = [pc EXCEPT ![s] = "store"] /\ pc[s] = "run" /\ runs[k] = 0
      BY <1>2, <2>1, <2>9 DEF RunEndpoint, Goto, Undisturbed
    <3>3. work'[s] = w /\ pc'[s] = "store"
      BY <3>1, <3>2 DEF Shape
    <3>4. \/ w.status = 409 /\ runs'[k] = 0
          \/ w.status # 409 /\ runs'[k] = 1
      BY <3>1, <3>2 DEF Shape, Succeeded
    <3>5. Undisturbed(s)'
      BY <2>1, <3>1, <3>3, <3>4 DEF Undisturbed
    <3> QED
      BY <3>1, <3>3, <3>4, <3>5, <2>2, Alone
  <2>10. CASE StoreResponse(s)
    <3>1. pc[s] = "store" /\ runs' = runs /\ work'[s].key = NoKey /\ ~work[s].again
      BY <2>1, <2>10, RespondEnds DEF StoreResponse, Undisturbed
    <3>2. CASE work[s].status = 409
      <4>1. runs[k] = 0
        BY <1>2, <2>1, <3>1, <3>2 DEF Undisturbed
      <4> QED
        BY <1>0, <3>1, <4>1, <2>2, Alone
    <3>3. CASE work[s].status # 409
      <4>1. Succeeded(work[s]) /\ work[s].run \in 1..runs[k]
        BY <1>2, <3>1, <3>3 DEF HeldIsCommitted
      <4>2. cache' = [cache EXCEPT ![k] = [status |-> work[s].status, run |-> work[s].run,
                                           until |-> now + CacheTTL]]
        BY <1>2, <3>1, <4>1, <2>10 DEF StoreResponse, Cacheable, Succeeded
      <4>3. cache'[k].run # NotCached.run
        BY <4>1, <4>2 DEF Shape, NotCached
      <4>4. runs[k] # 0 => runs[k] = 1
        BY <2>3
      <4> QED
        BY <1>0, <3>1, <4>3, <4>4, <2>2, Alone
    <3> QED
      BY <3>2, <3>3
  <2> QED
    BY <2>5, <2>6, <2>7, <2>8, <2>9, <2>10
<1> QED
  BY <1>1, <1>2

LEMMA ReplayStep == ReplayInv /\ [Next]_vars => ReplayInv'
<1> SUFFICES ASSUME ReplayInv, [Next]_vars PROVE ReplayInv'
  OBVIOUS
<1>1. CacheInv'
  BY CacheStep DEF ReplayInv
<1>2. ASSUME NEW k \in Keys \ doubt' PROVE Replayed(k)'
  <2>1. CASE UNCHANGED vars
    BY <2>1 DEF vars, redis, ReplayInv, Replayed, Undisturbed
  <2>2. CASE Tick
    BY <2>2 DEF Tick, ReplayInv, Replayed, Undisturbed
  <2>3. ASSUME NEW s \in Requests, (\E key \in Keys \cup {NoKey} : dispatch(s, key)) \/ Answering(s) \/ Crash(s)
        PROVE  Replayed(k)'
    BY <2>3, Arriving, Faulty, Proceeding DEF Answering
  <2> QED
    BY <2>1, <2>2, <2>3 DEF Next
<1> QED
  BY <1>1, <1>2 DEF ReplayInv

\* A client that repeats a call with its key never runs the endpoint twice,
\* unless two of its calls overlap, a fault hits one of them or the cached
\* response expires in between.
THEOREM RetriesAreReplayed == Spec => []RetryIsReplayed
<1>1. Init => ReplayInv
  BY CacheInit, GatewayAssumption DEF Init, ReplayInv, Replayed, Blank
<1>2. ReplayInv => RetryIsReplayed
  BY DEF ReplayInv, CacheInv, Shape, Replayed, RetryIsReplayed
<1> QED
  BY <1>1, <1>2, ReplayStep, PTL DEF Spec

-----------------------------------------------------------------------------
(* The limiter's window.                                                   *)

\* What TypeOK says beyond Shape.
Bounds ==
  /\ now \in 0..MaxTime
  /\ \A k \in Keys : cache[k] = NotCached \/ cache[k].until \in 1..(MaxTime + CacheTTL)
  /\ window \subseteq admitted /\ admitted \subseteq 0..now
  /\ doubt \subseteq Keys

\* Who looks up has a key, and a stamp is not too old when the script runs.
RequestsOK ==
  \A s \in Requests :
    /\ pc[s] = "lookup" => work[s].key \in Keys
    /\ pc[s] = "script" => work[s].stamp <= now /\ now <= work[s].stamp + MaxSkew

\* Redis keeps every admitted stamp for as long as it is in a window.
WindowKept ==
  \A x \in admitted : /\ x > now - Window => x \in window
                      /\ x + Window <= expires

WindowInv == CacheInv /\ Bounds /\ RequestsOK /\ WindowKept /\ expires \in Nat

LEMMA BoundsAreTypes == CacheInv /\ Bounds => TypeOK
  BY DEF CacheInv, Shape, Steps, Bounds, TypeOK

LEMMA Numbers == /\ CacheTTL \in Nat /\ CacheTTL > 0 /\ Limit \in Nat /\ Limit > 0
                 /\ Window \in Nat /\ MaxSkew \in Nat /\ MaxTime \in Nat
  BY GatewayAssumption

LEMMA WindowInit == Init => WindowInv /\ WindowBounded
<1> SUFFICES ASSUME Init PROVE WindowInv /\ WindowBounded
  OBVIOUS
<1> USE Numbers
<1>1. Bounds /\ RequestsOK /\ WindowKept /\ expires \in Nat
  BY DEF Init, Bounds, RequestsOK, WindowKept
<1>2. WindowBounded
  <2> SUFFICES ASSUME NEW t \in 0..MaxTime
               PROVE  Cardinality({x \in admitted : t - (Window - MaxSkew) < x /\ x <= t}) <= Limit
    BY DEF WindowBounded
  <2>1. {x \in admitted : t - (Window - MaxSkew) < x /\ x <= t} = {}
    BY DEF Init
  <2>2. Cardinality({}) = 0
    BY FS_EmptySet
  <2> QED
    BY <2>1, <2>2
<1> QED
  BY <1>1, <1>2, CacheInit DEF WindowInv

\* Where clock, window and admissions stay.
LEMMA WindowStays ==
  ASSUME WindowInv, WindowBounded, [Next]_vars, UNCHANGED <<now, window, expires, admitted>>,
         doubt' \subseteq Keys, RequestsOK',
         \A k \in Keys : cache'[k] = cache[k] \/ cache'[k].until \in 1..(MaxTime + CacheTTL)
  PROVE  WindowInv' /\ WindowBounded'
<1>1. CacheInv'
  BY CacheStep DEF WindowInv
<1>2. Bounds'
  BY DEF WindowInv, Bounds
<1>3. WindowKept' /\ expires' \in Nat
  BY DEF WindowInv, WindowKept
<1>4. WindowBounded'
  BY DEF WindowBounded
<1> QED
  BY <1>1, <1>2, <1>3, <1>4 DEF WindowInv

\* A step of a request that does not bring it to the script leaves the others there.
LEMMA RequestsStay ==
  ASSUME CacheInv, RequestsOK, NEW s \in Requests, now' = now,
         \E step \in Steps : pc' = [pc EXCEPT ![s] = step],
         pc'[s] # "script", pc'[s] = "lookup" => work'[s].key \in Keys,
         \E w : work' = [work EXCEPT ![s] = w]
  PROVE  RequestsOK'
<1>1. \A o \in Requests \ {s} : pc'[o] = pc[o] /\ work'[o] = work[o]
  BY DEF CacheInv, Shape
<1> QED
  BY <1>1 DEF RequestsOK

LEMMA Admits ==
  ASSUME WindowInv, WindowBounded, NEW s \in Requests, check_rate_limit(s)
  PROVE  WindowInv' /\ WindowBounded'
<1> DEFINE t == work[s].stamp
<1>1. t \in Nat /\ t <= now /\ now <= t + MaxSkew /\ now \in 0..MaxTime /\ pc[s] = "script"
  BY DEF check_rate_limit, WindowInv, CacheInv, Shape, Work, Bounds, RequestsOK
<1>2. CacheInv'
  BY CacheStep DEF WindowInv, Next, Answering
<1>3. RequestsOK' /\ UNCHANGED <<now, cache, doubt>>
  <2>1. UNCHANGED <<now, cache, doubt>>
    BY DEF check_rate_limit
  <2>2. \E step \in Steps : step \notin {"lookup", "script"} /\ pc' = [pc EXCEPT ![s] = step]
    BY DEF check_rate_limit, Goto, Respond, Steps
  <2>3. pc'[s] \notin {"lookup", "script"}
    BY <2>2 DEF WindowInv, CacheInv, Shape
  <2>4. \E w : work' = [work EXCEPT ![s] = w]
    <3>1. CASE work' = work
      <4>1. work' = [work EXCEPT ![s] = work[s]]
        BY <3>1 DEF WindowInv, CacheInv, Shape
      <4> QED
        BY <4>1
    <3>2. CASE Respond(s)
      BY <3>2 DEF Respond
    <3> QED
      BY <3>1, <3>2 DEF check_rate_limit
  <2> QED
    BY <2>1, <2>2, <2>3, <2>4, RequestsStay DEF WindowInv
<1>4. admitted \subseteq 0..now /\ window \subseteq admitted /\ IsFiniteSet(admitted)
  <2>1. admitted \subseteq 0..now /\ window \subseteq admitted
    BY DEF WindowInv, Bounds
  <2>2. IsFiniteSet(0..now)
    BY <1>1, FS_Interval
  <2> QED
    BY <2>1, <2>2, FS_Subset
\* What is young enough for a window that ends now is in this request's window.
<1>5. \A x \in admitted : x > now - Window => x \in InWindow(t)
  <2>1. \A x \in admitted : x \in Nat /\ (x > now - Window => x \in window)
    BY <1>1, <1>4 DEF WindowInv, WindowKept
  <2> HIDE DEF t
  <2> QED
    BY <1>1, <2>1, Numbers DEF InWindow
<1>6. CASE Cardinality(InWindow(t)) < Limit
  <2>1. window' = InWindow(t) \cup {t} /\ expires' = now + Window /\ admitted' = admitted \cup {t}
    BY <1>6 DEF check_rate_limit
  <2>2. Bounds'
    <3>1. window' \subseteq admitted' /\ admitted' \subseteq 0..now'
      <4> HIDE DEF t
      <4> QED
        <5>1. InWindow(t) \subseteq admitted
          BY <1>4 DEF InWindow
        <5>2. t \in 0..now
          BY <1>1
        <5> QED
          BY <1>3, <1>4, <2>1, <5>1, <5>2
    <3> QED
      BY <1>3, <3>1 DEF WindowInv, Bounds
  <2>3. WindowKept' /\ expires' \in Nat
    <3>1. \A x \in admitted : x \in Nat /\ x <= now /\ (x > now - Window => x \in InWindow(t))
      BY <1>1, <1>4, <1>5
    <3> HIDE DEF t
    <3> QED
      BY <1>1, <1>3, <2>1, <3>1, Numbers DEF WindowKept
  <2>4. WindowBounded'
    <3> SUFFICES ASSUME NEW u \in 0..MaxTime
                 PROVE  Cardinality({x \in admitted' : u - (Window - MaxSkew) < x /\ x <= u}) <= Limit
      BY DEF WindowBounded
    <3> DEFINE old == {x \in admitted : u - (Window - MaxSkew) < x /\ x <= u}
               new == {x \in admitted' : u - (Window - MaxSkew) < x /\ x <= u}
    <3>1. CASE u - (Window - MaxSkew) < t /\ t <= u
      <4>1. new \subseteq InWindow(t) \cup {t}
        <5>1. \A x \in admitted : x \in Nat /\ (x > now - Window => x \in InWindow(t))
          BY <1>1, <1>4, <1>5
        <5>2. \A x \in admitted : u - (Window - MaxSkew) < x => x > now - Window
          <6> HIDE DEF t
          <6> QED
            BY <1>1, <3>1, <5>1, Numbers
        <5> QED
          BY <2>1, <5>1, <5>2
      <4>2. InWindow(t) \in SUBSET admitted
        BY <1>4 DEF InWindow
      <4>3. IsFiniteSet(InWindow(t)) /\ Cardinality(InWindow(t)) \in Nat
        BY <1>4, <4>2, FS_Subset, FS_CardinalityType
      <4>4. IsFiniteSet(InWindow(t) \cup {t}) /\ Cardinality(InWindow(t) \cup {t}) <= Cardinality(InWindow(t)) + 1
        <5>1. ASSUME NEW S, IsFiniteSet(S), NEW e
              PROVE  IsFiniteSet(S \cup {e}) /\ Cardinality(S \cup {e}) <= Cardinality(S) + 1
          <6>1. /\ IsFiniteSet(S \cup {e})
                /\ Cardinality(S \cup {e}) = IF e \in S THEN Cardinality(S) ELSE Cardinality(S) + 1
            BY <5>1, FS_AddElement, Zenon
          <6>2. Cardinality(S) \in Nat
            BY <5>1, FS_CardinalityType
          <6> QED
            BY <6>1, <6>2
        <5> QED
          BY <4>3, <5>1
      <4>5. Cardinality(new) <= Cardinality(InWindow(t) \cup {t}) /\ IsFiniteSet(new)
        <5> HIDE DEF new
        <5> QED
          BY <4>1, <4>4, FS_Subset
      <4>6. Cardinality(new) \in Nat /\ Cardinality(InWindow(t) \cup {t}) \in Nat
        BY <4>4, <4>5, FS_CardinalityType
      <4> HIDE DEF new
      <4>7. Cardinality(new) <= Limit
        BY <1>6, <4>3, <4>4, <4>5, <4>6, Numbers
      <4> QED
        BY <4>7 DEF new
    <3>2. CASE ~(u - (Window - MaxSkew) < t /\ t <= u)
      <4>1. new = old
        BY <2>1, <3>2
      <4> QED
        BY <4>1 DEF WindowBounded
    <3> QED
      BY <3>1, <3>2
  <2> QED
    BY <1>2, <1>3, <2>2, <2>3, <2>4 DEF WindowInv
<1>7. CASE ~(Cardinality(InWindow(t)) < Limit)
  <2>1. window' = InWindow(t) /\ UNCHANGED <<expires, admitted>>
    BY <1>7 DEF check_rate_limit
  <2>2. Bounds'
    BY <1>3, <1>4, <2>1 DEF WindowInv, Bounds, InWindow
  <2>3. WindowKept' /\ expires' \in Nat
    BY <1>3, <1>5, <2>1 DEF WindowInv, WindowKept
  <2>4. WindowBounded'
    BY <2>1 DEF WindowBounded
  <2> QED
    BY <1>2, <1>3, <2>2, <2>3, <2>4 DEF WindowInv
<1> QED
  BY <1>6, <1>7

LEMMA WindowTicks == ASSUME WindowInv, WindowBounded, Tick PROVE WindowInv' /\ WindowBounded'
<1>1. /\ now \in 0..MaxTime /\ now' = now + 1 /\ now' \in 0..MaxTime
      /\ window' = IF now' >= expires THEN {} ELSE window
      /\ UNCHANGED <<cache, expires, admitted, doubt, pc, work>> /\ expires \in Nat
      /\ \A s \in Requests : pc[s] = "script" => work[s].stamp + MaxSkew > now
  <2>1. now \in 0..MaxTime /\ expires \in Nat /\ MaxTime \in Nat
    BY Numbers DEF WindowInv, Bounds
  <2>2. now < MaxTime /\ now' = now + 1
    BY DEF Tick
  <2>3. now' \in 0..MaxTime
    BY <2>1, <2>2
  <2> QED
    BY <2>1, <2>2, <2>3 DEF Tick
<1>2. CacheInv'
  BY CacheStep DEF WindowInv, Next
<1>3. admitted \subseteq 0..now /\ window \subseteq admitted
  BY DEF WindowInv, Bounds
<1>4. Bounds'
  <2>1. admitted' \subseteq 0..now' /\ window' \subseteq admitted'
    <3>1. now \in Nat /\ now' = now + 1
      BY <1>1
    <3>2. 0..now \subseteq 0..now'
      BY <3>1
    <3>3. admitted' = admitted /\ (window' = {} \/ window' = window)
      BY <1>1
    <3> QED
      BY <1>3, <3>2, <3>3
  <2> QED
    BY <1>1, <2>1 DEF WindowInv, Bounds
<1>5. RequestsOK'
  <2> SUFFICES ASSUME NEW s \in Requests, pc[s] = "script"
               PROVE  work[s].stamp <= now + 1 /\ now + 1 <= work[s].stamp + MaxSkew
    BY <1>1 DEF WindowInv, RequestsOK
  <2>1. work[s].stamp \in Nat /\ work[s].stamp <= now
    BY DEF WindowInv, CacheInv, Shape, Work, RequestsOK
  <2> QED
    BY <1>1, <2>1, Numbers
<1>6. WindowKept'
  <2> SUFFICES ASSUME NEW x \in admitted
               PROVE  (x > now' - Window => x \in window') /\ x + Window <= expires
    BY <1>1 DEF WindowKept
  <2>1. (x > now - Window => x \in window) /\ x + Window <= expires /\ x \in Nat
    BY <1>3 DEF WindowInv, WindowKept
  <2> QED
    BY <1>1, <2>1, Numbers
<1>7. WindowBounded'
  BY <1>1 DEF WindowBounded
<1> QED
  BY <1>1, <1>2, <1>4, <1>5, <1>6, <1>7 DEF WindowInv

\* Every step of a request but check_rate_limit.
LEMMA Elsewise ==
  ASSUME WindowInv, WindowBounded, NEW s \in Requests,
         (\E k \in Keys \cup {NoKey} : dispatch(s, k)) \/ Answering(s) \/ Crash(s), ~check_rate_limit(s)
  PROVE  WindowInv' /\ WindowBounded'
<1>1. UNCHANGED <<now, window, expires, admitted>>
  BY DEF dispatch, Answering, Lookup, LookupFails, ClientLeaves, StampRequest, LimiterFails,
         RunEndpoint, EndpointRaises, StoreResponse, StoreFails, Crash, redis
<1>2. work[s].key \in Keys \cup {NoKey}
  BY DEF WindowInv, CacheInv, Shape, Work
<1>3. doubt' \subseteq Keys
  <2>1. doubt \subseteq Keys
    BY DEF WindowInv, Bounds
  <2>2. ASSUME NEW k \in Keys \cup {NoKey}, dispatch(s, k) PROVE doubt' \subseteq Keys
    BY <2>1, <2>2 DEF dispatch
  <2>3. CASE Doubted(s)
    BY <1>2, <2>1, <2>3 DEF Doubted
  <2>4. CASE Lookup(s)
    <3>1. work[s].key \in Keys
      BY <2>4 DEF Lookup, WindowInv, RequestsOK
    <3> QED
      BY <2>1, <2>4, <3>1 DEF Lookup
  <2>5. CASE ClientLeaves(s) \/ StampRequest(s) \/ RunEndpoint(s) \/ StoreResponse(s)
    BY <2>1, <2>5 DEF ClientLeaves, StampRequest, RunEndpoint, StoreResponse
  <2>6. CASE LookupFails(s) \/ LimiterFails(s) \/ EndpointRaises(s) \/ StoreFails(s) \/ Crash(s)
    BY <2>3, <2>6 DEF LookupFails, LimiterFails, EndpointRaises, StoreFails, Crash
  <2> QED
    BY <2>2, <2>4, <2>5, <2>6 DEF Answering
<1>4. RequestsOK'
  <2>1. CASE StampRequest(s)
    <3>1. work'[s].stamp = now
      <4>1. work'[s] = [work[s] EXCEPT !.stamp = now] /\ work[s] \in Work
        BY <2>1 DEF StampRequest, WindowInv, CacheInv, Shape
      <4> QED
        BY <4>1 DEF Work
    <3>2. pc'[s] = "script" /\ \A o \in Requests \ {s} : pc'[o] = pc[o] /\ work'[o] = work[o]
      BY <2>1 DEF StampRequest, Goto, WindowInv, CacheInv, Shape
    <3>3. now \in Nat
      BY DEF WindowInv, CacheInv, Shape
    <3> QED
      BY <1>1, <3>1, <3>2, <3>3, Numbers DEF RequestsOK, WindowInv
  <2>2. CASE ~StampRequest(s)
    <3>1. \E step \in Steps : step # "script" /\ pc' = [pc EXCEPT ![s] = step]
      BY <2>2 DEF dispatch, Answering, Lookup, LookupFails, ClientLeaves, LimiterFails, CallAgain,
             RunEndpoint, EndpointRaises, StoreResponse, StoreFails, Crash, Respond, Goto, Steps
    <3>2. pc'[s] # "script"
      BY <3>1 DEF WindowInv, CacheInv, Shape
    <3>4. pc'[s] = "lookup" => work'[s].key \in Keys
      <4>1. CASE Answering(s) \/ Crash(s)
        <5>1. \E step \in Steps : step # "lookup" /\ pc' = [pc EXCEPT ![s] = step]
          BY <2>2, <4>1 DEF Answering, Lookup, LookupFails, ClientLeaves, LimiterFails, CallAgain,
             RunEndpoint, EndpointRaises, StoreResponse, StoreFails, Crash, Respond, Goto, Steps
        <5> QED
          BY <5>1 DEF WindowInv, CacheInv, Shape
      <4>2. ASSUME NEW k \in Keys \cup {NoKey}, dispatch(s, k), pc'[s] = "lookup" PROVE work'[s].key \in Keys
        <5>1. work'[s] = [work[s] EXCEPT !.key = k, !.again = (k = NoKey)] /\ work[s] \in Work
          BY <4>2 DEF dispatch, WindowInv, CacheInv, Shape
        <5>2. k # NoKey
          BY <4>2 DEF dispatch, Goto, WindowInv, CacheInv, Shape
        <5> QED
          BY <5>1, <5>2 DEF Work
      <4> QED
        BY <2>2, <4>1, <4>2
    <3>3. \E w : work' = [work EXCEPT ![s] = w]
      <4>1. work = [work EXCEPT ![s] = work[s]]
        BY DEF WindowInv, CacheInv, Shape
      <4>2. CASE RunEndpoint(s)
        BY <4>2, RunOutcome DEF WindowInv, CacheInv
      <4>3. CASE Respond(s) \/ work' = work
        BY <4>1, <4>3 DEF Respond
      <4>4. CASE LookupFails(s) \/ CallAgain(s)
        BY <4>3, <4>4 DEF LookupFails, CallAgain
      <4>5. ASSUME NEW k \in Keys \cup {NoKey}, dispatch(s, k) PROVE \E w : work' = [work EXCEPT ![s] = w]
        BY <4>5 DEF dispatch
      <4> QED
        BY <2>2, <4>2, <4>3, <4>4, <4>5 DEF Answering, Lookup, ClientLeaves, LimiterFails,
           EndpointRaises, StoreResponse, StoreFails, Crash
    <3> QED
      BY <1>1, <3>1, <3>2, <3>3, <3>4, RequestsStay DEF WindowInv
  <2> QED
    BY <2>1, <2>2
<1>5. ASSUME NEW k \in Keys
      PROVE  cache'[k] = cache[k] \/ cache'[k].until \in 1..(MaxTime + CacheTTL)
  <2>1. CASE StoreResponse(s)
    <3> DEFINE stored == [status |-> work[s].status, run |-> work[s].run, until |-> now + CacheTTL]
    <3>1. cache' = cache \/ cache' = [cache EXCEPT ![work[s].key] = stored]
      BY <2>1 DEF StoreResponse
    <3>2. now \in 0..MaxTime
      BY DEF WindowInv, Bounds
    <3>3. stored.until \in 1..(MaxTime + CacheTTL)
      BY <3>2, Numbers
    <3> HIDE DEF stored
    <3> QED
      BY <3>1, <3>3 DEF WindowInv, CacheInv, Shape
  <2>2. CASE ~StoreResponse(s)
    BY <2>2 DEF dispatch, Answering, Lookup, LookupFails, ClientLeaves, StampRequest, LimiterFails,
       RunEndpoint, EndpointRaises, StoreFails, Crash, redis
  <2> QED
    BY <2>1, <2>2
<1>6. [Next]_vars
  BY DEF Next
<1> QED
  BY <1>1, <1>3, <1>4, <1>5, <1>6, WindowStays

LEMMA WindowStep == WindowInv /\ WindowBounded /\ [Next]_vars => WindowInv' /\ WindowBounded'
<1> SUFFICES ASSUME WindowInv, WindowBounded, [Next]_vars PROVE WindowInv' /\ WindowBounded'
  OBVIOUS
<1>1. CASE UNCHANGED vars
  <2>1. UNCHANGED <<now, window, expires, admitted>> /\ doubt' \subseteq Keys /\ RequestsOK' /\ cache' = cache
    BY <1>1 DEF vars, redis, WindowInv, Bounds, RequestsOK
  <2> QED
    BY <2>1, WindowStays
<1>2. CASE Tick
  BY <1>2, WindowTicks
<1>3. ASSUME NEW s \in Requests, (\E k \in Keys \cup {NoKey} : dispatch(s, k)) \/ Answering(s) \/ Crash(s)
      PROVE  WindowInv' /\ WindowBounded'
  BY <1>3, Admits, Elsewise
<1> QED
  BY <1>1, <1>2, <1>3 DEF Next

LEMMA WindowInvariant == Spec => [](WindowInv /\ WindowBounded)
  BY WindowInit, WindowStep, PTL DEF Spec

\* Cache, window and open requests keep their shape, and the window never holds
\* a stamp that was not admitted.
THEOREM GatewayTypes == Spec => []TypeOK
<1>1. WindowInv => TypeOK
  BY BoundsAreTypes DEF WindowInv
<1> QED
  BY <1>1, WindowInvariant, PTL

\* In any stretch of time shorter than the window by the age a stamp may reach
\* before its script runs, no more stamps than the limit are admitted: Redis
\* drops, by score or by expiry, only what no such stretch still reaches.
THEOREM RateIsLimited == Spec => []WindowBounded
  BY WindowInvariant, PTL
=============================================================================
