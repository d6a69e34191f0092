-------------------------- MODULE AuditTrailProofs --------------------------
(***************************************************************************)
(* What holds of the audit trail for every number of sessions and events:  *)
(* the types, forks only where an event comes out of the order of          *)
(* (created_at, id), and no cycle of waiting without the audit lock.       *)
(*                                                                         *)
(* The lock keeps what a session sees while it appends closed: all         *)
(* committed events and its own, of which Last finds the greatest key.     *)
(* Sound says that of a set of events; the step that appends keeps it, and *)
(* a commit only moves events from one part of the set to the other.       *)
(*                                                                         *)
(* Until its first event every session locks in one order.  InOrder says   *)
(* so of what is held and of what is left of the program.                  *)
(***************************************************************************)
EXTENDS AuditTrailProperties, TLAPS

Keys(S) == {Key(e) : e \in S}

HasLast(S) == S = {} \/ \E m \in Keys(S) : \A y \in Keys(S) \ {m} : Older(y, m)

\* What holds of the events one session sees.
Sound(S) ==
  /\ S \subseteq Event
  /\ \A x \in S : x.at > 0 /\ x.id > 0 /\ Key(x) # x.prev
  /\ \A x, y \in S : Key(x) = Key(y) => x = y
  /\ HasLast(S)
  /\ \A x, y \in S : Fork(x, y) => \E z \in {x, y} : Older(Key(z), z.prev)

\* No two open sessions began at one time; committed events are older times.
Dated ==
  /\ starts \in Nat
  /\ at \in [Sessions -> Nat]
  /\ \A s \in Sessions : at[s] <= starts
  /\ \A s, o \in Sessions : (s # o /\ Open(s)) => at[s] # at[o]
  /\ \A e \in trail : e.at <= starts /\ \A s \in Sessions : at[s] # e.at
  /\ \A s \in Sessions : \A e \in own[s] : e.at = at[s]

\* Whoever has appended holds the lock, and one session holds it at most.
Locked ==
  /\ own = [s \in Sessions |-> own[s]]
  /\ locks = [s \in Sessions |-> locks[s]]
  /\ \A s \in Sessions : own[s] # {} => "append" \in locks[s]
  /\ \A s, o \in Sessions : (s # o /\ "append" \in locks[s]) => "append" \notin locks[o]

TrailInv ==
  /\ Dated
  /\ Locked
  /\ Sound(trail)
  /\ \A s \in Sessions : Sound(trail \cup own[s])

-----------------------------------------------------------------------------
(* One event more.                                                         *)

\* Keys are ordered totally, so the keys of events are.
LEMMA OlderTotal ==
  ASSUME NEW x \in [at : Nat, id : Nat], NEW y \in [at : Nat, id : Nat], x # y
  PROVE  Older(x, y) \/ Older(y, x)
  BY DEF Older

LEMMA OlderTransitive ==
  ASSUME NEW x \in [at : Nat, id : Nat], NEW y \in [at : Nat, id : Nat],
         NEW z \in [at : Nat, id : Nat], Older(x, y), Older(y, z)
  PROVE  Older(x, z)
  BY DEF Older

\* Last finds the greatest key.
LEMMA LastIsGreatest ==
  ASSUME NEW S, S # {}, HasLast(S)
  PROVE  /\ Last(Keys(S)) \in Keys(S)
         /\ \A y \in Keys(S) \ {Last(Keys(S))} : Older(y, Last(Keys(S)))
<1> DEFINE Greatest(x) == \A y \in Keys(S) \ {x} : Older(y, x)
<1>1. Keys(S) # {}
  BY DEF Keys
<1>2. Last(Keys(S)) = CHOOSE x \in Keys(S) : Greatest(x)
  BY <1>1 DEF Last
<1>3. \E x \in Keys(S) : Greatest(x)
  BY DEF HasLast
<1> HIDE DEF Greatest
<1>4. Last(Keys(S)) \in Keys(S) /\ Greatest(Last(Keys(S)))
  BY <1>2, <1>3
<1> QED
  BY <1>4 DEF Greatest

\* Appending an event with a new key to what a session sees keeps it sound.
LEMMA AppendKeepsSound ==
  ASSUME NEW S, Sound(S), NEW e \in Event, e.at > 0, e.id > 0,
         Key(e) \notin Keys(S), e.prev = Last(Keys(S))
  PROVE  Sound(S \cup {e})
<1> DEFINE T == S \cup {e}
<1>1. \A x \in T : x \in Event /\ Key(x) \in [at : Nat, id : Nat]
  BY DEF Sound, Event, Key
<1>2. Keys(T) = Keys(S) \cup {Key(e)}
  BY DEF Keys
<1>3. \A k \in Keys(T) : k \in [at : Nat, id : Nat]
  BY <1>1 DEF Keys
<1>4. Key(e) # e.prev
  <2>1. CASE S = {}
    BY <2>1 DEF Last, Keys, None, Key
  <2>2. CASE S # {}
    BY <2>2, LastIsGreatest DEF Sound
  <2> QED BY <2>1, <2>2
<1>5. \A x, y \in T : Key(x) = Key(y) => x = y
  BY DEF Sound, Keys
<1>6. HasLast(T)
  <2>1. CASE S = {}
    BY <2>1, <1>2 DEF HasLast, Keys
  <2>2. CASE S # {}
    <3> DEFINE m == Last(Keys(S))
    <3>1. m \in Keys(S) /\ \A y \in Keys(S) \ {m} : Older(y, m)
      BY <2>2, LastIsGreatest DEF Sound
    <3>2. m # Key(e)
      BY <3>1
    <3>3. m \in [at : Nat, id : Nat] /\ Key(e) \in [at : Nat, id : Nat]
      BY <3>1, <1>1, <1>2, <1>3
    <3> HIDE DEF m
    <3>4. CASE Older(m, Key(e))
      <4>1. \A y \in Keys(T) \ {Key(e)} : Older(y, Key(e))
        BY <3>1, <3>3, <3>4, <1>2, <1>3, OlderTransitive
      <4> QED BY <4>1, <1>2 DEF HasLast
    <3>5. CASE Older(Key(e), m)
      <4>1. \A y \in Keys(T) \ {m} : Older(y, m)
        BY <3>1, <3>5, <1>2
      <4> QED BY <4>1, <3>1, <1>2 DEF HasLast
    <3> QED BY <3>2, <3>3, <3>4, <3>5, OlderTotal
  <2> QED BY <2>1, <2>2
<1>7. ASSUME NEW x \in S, x.prev = e.prev
      PROVE  Older(Key(x), x.prev)
  <2>1. Key(x) \in Keys(S) /\ S # {}
    BY DEF Keys
  <2>2. Key(x) # x.prev
    BY DEF Sound
  <2>3. \A y \in Keys(S) \ {Last(Keys(S))} : Older(y, Last(Keys(S)))
    BY <2>1, LastIsGreatest DEF Sound
  <2> QED BY <2>1, <2>2, <2>3, <1>7
<1>8. ASSUME NEW x \in T, NEW y \in T, Fork(x, y)
      PROVE  \E z \in {x, y} : Older(Key(z), z.prev)
  <2>1. CASE x \in S /\ y \in S
    BY <2>1, <1>8 DEF Sound
  <2>2. CASE x \in S /\ y = e
    BY <2>2, <1>8, <1>7 DEF Fork
  <2>3. CASE x = e /\ y \in S
    BY <2>3, <1>8, <1>7 DEF Fork
  <2>4. CASE x = e /\ y = e
    BY <2>4, <1>8 DEF Fork
  <2> QED BY <2>1, <2>2, <2>3, <2>4
<1>9. T \subseteq Event /\ \A x \in T : x.at > 0 /\ x.id > 0 /\ Key(x) # x.prev
  BY <1>1, <1>4 DEF Sound
<1> QED
  BY <1>5, <1>6, <1>8, <1>9 DEF Sound

-----------------------------------------------------------------------------
(* The steps.                                                              *)

LEMMA EmptyIsSound == Sound({})
  BY DEF Sound, HasLast

LEMMA InitTrail == Init => TrailInv
  BY EmptyIsSound DEF Init, TrailInv, Dated, Locked, Open

LEMMA BeginKeeps ==
  ASSUME TrailInv, NEW s \in Sessions, NEW kind \in Kinds, begin(s, kind)
  PROVE  TrailInv'
<1>1. /\ own' = own /\ trail' = trail /\ locks' = locks
      /\ at[s] = 0 /\ starts' = starts + 1
      /\ at' = [at EXCEPT ![s] = starts + 1]
  BY DEF begin, Open
<1>2. starts \in Nat /\ at' \in [Sessions -> Nat]
      /\ at'[s] = starts + 1 /\ \A o \in Sessions \ {s} : at'[o] = at[o] /\ at[o] <= starts
  BY <1>1 DEF TrailInv, Dated
<1>3. \A e \in trail : e.at \in Nat /\ e.at <= starts /\ \A o \in Sessions : at[o] # e.at
  BY DEF TrailInv, Dated, Sound, Event
<1>4. \A o \in Sessions : at'[o] <= starts'
  BY <1>1, <1>2 DEF TrailInv, Dated
<1>5. \A o, q \in Sessions : (o # q /\ at'[o] # 0) => at'[o] # at'[q]
  BY <1>2 DEF TrailInv, Dated, Open
<1>6. \A e \in trail' : e.at <= starts' /\ \A o \in Sessions : at'[o] # e.at
  BY <1>1, <1>2, <1>3
<1>7. own[s] = {}
  <2> SUFFICES ASSUME NEW e \in own[s] PROVE FALSE
    OBVIOUS
  <2>1. e.at = 0
    BY <1>1 DEF TrailInv, Dated
  <2>2. Sound(trail \cup own[s])
    BY DEF TrailInv
  <2>3. e.at > 0
    BY <2>2 DEF Sound
  <2> QED BY <2>1, <2>3
<1>8. \A o \in Sessions : \A e \in own'[o] : e.at = at'[o]
  BY <1>1, <1>2, <1>7 DEF TrailInv, Dated
<1>9. Dated'
  BY <1>1, <1>2, <1>4, <1>5, <1>6, <1>8 DEF Dated, Open
<1>10. Locked'
  BY <1>1 DEF TrailInv, Locked
<1> QED
  BY <1>1, <1>9, <1>10 DEF TrailInv

LEMMA UpdateKeeps ==
  ASSUME TrailInv, NEW s \in Sessions, Update(s)
  PROVE  TrailInv'
<1>1. own' = own /\ trail' = trail /\ starts' = starts /\ at' = at
  BY DEF Update
<1>2. PICK r : r # "append" /\ (locks' = locks \/ locks' = [locks EXCEPT ![s] = @ \cup {r}])
  BY DEF Update
<1>3. Dated'
  BY <1>1 DEF TrailInv, Dated, Open
<1>4. Locked'
  BY <1>1, <1>2 DEF TrailInv, Locked
<1> QED
  BY <1>1, <1>3, <1>4 DEF TrailInv

\* The new event's time is the session's, which no committed event has; its id
\* is new among the session's own.
LEMMA AppendKeeps ==
  ASSUME TrailInv, NEW s \in Sessions, record_audit_event(s)
  PROVE  TrailInv'
<1>1. PICK id \in FreshIds(s) :
        own' = [own EXCEPT ![s] = @ \cup {[at |-> at[s], id |-> id, prev |-> Previous(s)]}]
  BY DEF record_audit_event
<1> DEFINE e == [at |-> at[s], id |-> id, prev |-> Previous(s)]
           S == trail \cup own[s]
<1>2. /\ trail' = trail /\ starts' = starts /\ at' = at
      /\ locks' = [locks EXCEPT ![s] = @ \cup {"append"}]
      /\ \A o \in Sessions \ {s} : "append" \notin locks[o]
      /\ at[s] # 0
  BY DEF record_audit_event, Free, Open
<1>3. id \in Nat /\ id > 0 /\ \A x \in own[s] : x.id # id
  BY <1>1, AuditTrailAssumption DEF FreshIds
<1>4. Sound(S)
  BY DEF TrailInv
<1>5. at[s] \in Nat /\ at[s] > 0
  BY <1>2 DEF TrailInv, Dated
<1>6. e.prev = Last(Keys(S))
  BY DEF Previous, Keys
<1>7. Previous(s) \in [at : Nat, id : Nat]
  <2>1. CASE S = {}
    BY <2>1, <1>6 DEF Last, Keys, None
  <2>2. CASE S # {}
    <3>1. Last(Keys(S)) \in Keys(S)
      BY <2>2, <1>4, LastIsGreatest DEF Sound
    <3>2. PICK x \in S : Last(Keys(S)) = Key(x)
      BY <3>1 DEF Keys
    <3>3. x \in Event
      BY <1>4 DEF Sound
    <3>4. Key(x) \in [at : Nat, id : Nat]
      BY <3>3 DEF Key, Event
    <3> QED BY <1>6, <3>2, <3>4
  <2> QED BY <2>1, <2>2
<1>8. e \in Event /\ e.at > 0 /\ e.id > 0
  BY <1>3, <1>5, <1>7 DEF Event
<1>9. Key(e) \notin Keys(S)
  BY <1>3, <1>5 DEF Keys, Key, TrailInv, Dated
<1>10. Sound(S \cup {e})
  <2> HIDE DEF e, S
  <2> QED BY <1>4, <1>6, <1>8, <1>9, AppendKeepsSound
<1>11. own'[s] = own[s] \cup {e} /\ \A o \in Sessions \ {s} : own'[o] = own[o]
  BY <1>1 DEF TrailInv, Locked
<1>12. \A o \in Sessions : Sound(trail' \cup own'[o])
  <2>1. trail' \cup own'[s] = S \cup {e}
    BY <1>2, <1>11
  <2> QED BY <2>1, <1>2, <1>10, <1>11 DEF TrailInv
<1>13. Dated'
  BY <1>2, <1>11 DEF TrailInv, Dated, Open
<1>14. Locked'
  BY <1>1, <1>2 DEF TrailInv, Locked
<1> QED
  BY <1>2, <1>12, <1>13, <1>14 DEF TrailInv

\* A session that has appended holds the lock alone, so no other one sees less.
LEMMA CommitKeeps ==
  ASSUME TrailInv, NEW s \in Sessions, Commit(s)
  PROVE  TrailInv'
<1>1. /\ trail' = trail \cup own[s] /\ starts' = starts
      /\ at' = [at EXCEPT ![s] = 0]
      /\ own' = [own EXCEPT ![s] = {}]
      /\ locks' = [locks EXCEPT ![s] = {}]
      /\ Open(s)
  BY DEF Commit, EndSession
<1>2. own'[s] = {} /\ \A o \in Sessions \ {s} : own'[o] = own[o]
  BY <1>1 DEF TrailInv, Locked
<1>3. Dated'
  BY <1>1, <1>2 DEF TrailInv, Dated, Open, Sound
<1>4. Locked'
  BY <1>1, <1>2 DEF TrailInv, Locked
<1>5. Sound(trail')
  BY <1>1 DEF TrailInv
<1>6. ASSUME NEW o \in Sessions
      PROVE  Sound(trail' \cup own'[o])
  <2>1. CASE own[s] = {} /\ o # s
    <3>1. trail' \cup own'[o] = trail \cup own[o]
      BY <2>1, <1>1, <1>2
    <3> QED BY <3>1 DEF TrailInv
  <2>2. CASE own[s] # {} \/ o = s
    <3>1. own'[o] = {}
      BY <2>2, <1>2 DEF TrailInv, Locked
    <3>2. trail' \cup own'[o] = trail'
      BY <3>1
    <3> QED BY <3>2, <1>5
  <2> QED BY <2>1, <2>2
<1> QED
  BY <1>3, <1>4, <1>5, <1>6 DEF TrailInv

LEMMA RollbackKeeps ==
  ASSUME TrailInv, NEW s \in Sessions, Rollback(s)
  PROVE  TrailInv'
<1>1. /\ trail' = trail /\ starts' = starts
      /\ at' = [at EXCEPT ![s] = 0]
      /\ own' = [own EXCEPT ![s] = {}]
      /\ locks' = [locks EXCEPT ![s] = {}]
  BY DEF Rollback, EndSession
<1>2. own'[s] = {} /\ \A o \in Sessions \ {s} : own'[o] = own[o]
  BY <1>1 DEF TrailInv, Locked
<1>3. Dated'
  BY <1>1, <1>2 DEF TrailInv, Dated, Open, Sound
<1>4. Locked'
  BY <1>1, <1>2 DEF TrailInv, Locked
<1>5. trail' \cup own'[s] = trail
  BY <1>1, <1>2
<1>6. \A o \in Sessions : Sound(trail' \cup own'[o])
  BY <1>1, <1>2, <1>5 DEF TrailInv
<1> QED
  BY <1>1, <1>3, <1>4, <1>6 DEF TrailInv

LEMMA TrailStep == TrailInv /\ [Next]_vars => TrailInv'
<1> SUFFICES ASSUME TrailInv, [Next]_vars PROVE TrailInv'
  OBVIOUS
<1>1. CASE UNCHANGED vars
  BY <1>1 DEF vars, TrailInv, Dated, Locked, Open
<1>2. ASSUME NEW s \in Sessions, NEW kind \in Kinds, begin(s, kind) PROVE TrailInv'
  BY <1>2, BeginKeeps
<1>3. ASSUME NEW s \in Sessions, Update(s) PROVE TrailInv'
  BY <1>3, UpdateKeeps
<1>4. ASSUME NEW s \in Sessions, record_audit_event(s) PROVE TrailInv'
  BY <1>4, AppendKeeps
<1>5. ASSUME NEW s \in Sessions, Commit(s) PROVE TrailInv'
  BY <1>5, CommitKeeps
<1>6. ASSUME NEW s \in Sessions, Rollback(s) PROVE TrailInv'
  BY <1>6, RollbackKeeps
<1>7. ASSUME NEW s \in Sessions, DeadlockVictim(s) PROVE TrailInv'
  BY <1>7, RollbackKeeps DEF DeadlockVictim
<1> QED
  BY <1>1, <1>2, <1>3, <1>4, <1>5, <1>6, <1>7 DEF Next

-----------------------------------------------------------------------------
(* The theorem.                                                            *)

\* For every number of sessions, writers and events: two events are chained to
\* one event only where one of the two sorts before that event.  The lock of
\* record_audit_event rules every other fork out.
THEOREM ForksAreDisorder == Spec => []ForkIsDisorder
<1>1. TrailInv => ForkIsDisorder
  BY DEF TrailInv, Sound, ForkIsDisorder
<1> QED
  BY InitTrail, TrailStep, <1>1, PTL DEF Spec

-----------------------------------------------------------------------------
(* The order in which a session locks until it appends.                    *)

\* What a session may lock, or append, after what it locked before its first event.
LockOrder ==
  {<<"txn", "budget">>, <<"txn", "hold">>, <<"txn", "campaign">>,
   <<"budget", "hold">>, <<"budget", "campaign">>, <<"hold", "campaign">>,
   <<"intent", "user">>}
  \cup ((Resources \ {"append"}) \X {"append"})

\* The statements up to the first append follow that order, and what is held comes first.
InOrder(held, q) ==
  \A n \in DOMAIN q :
    (\A m \in 1..(n - 1) : q[m] # "append") =>
      /\ \A r \in held : <<r, q[n]>> \in LockOrder
      /\ \A m \in 1..(n - 1) : <<q[m], q[n]>> \in LockOrder

Statements == Resources \cup {"commit"}

SessionOK(s) ==
  /\ todo[s] \in Seq(Statements) /\ locks[s] \subseteq Resources
  /\ Open(s) => /\ Len(todo[s]) > 0 /\ todo[s][Len(todo[s])] = "commit"
                /\ "append" \in locks[s] \/ InOrder(locks[s], todo[s])
  /\ ~Open(s) => todo[s] = <<>> /\ own[s] = {} /\ locks[s] = {}

OrderInv ==
  /\ TrailInv /\ starts \in 0..MaxStarts
  /\ todo = [s \in Sessions |-> todo[s]]
  /\ \A s \in Sessions : SessionOK(s)

LEMMA TailOf ==
  ASSUME NEW q \in Seq(Statements), Len(q) > 0, q[Len(q)] = "commit", q[1] # "commit"
  PROVE  /\ Head(q) = q[1] /\ q[1] \in Resources
         /\ Tail(q) \in Seq(Statements) /\ Len(Tail(q)) > 0 /\ Tail(q)[Len(Tail(q))] = "commit"
         /\ DOMAIN Tail(q) = 1..(Len(q) - 1) /\ DOMAIN q = 1..Len(q) /\ Len(q) \in Nat
         /\ \A n \in 1..(Len(q) - 1) : Tail(q)[n] = q[n + 1]
<1>1. Len(q) \in Nat /\ DOMAIN q = 1..Len(q) /\ Head(q) = q[1]
  OBVIOUS
<1>2. q[1] \in Resources
  <2>1. q[1] \in Statements
    OBVIOUS
  <2> QED
    BY <2>1 DEF Statements
<1>3. Len(q) > 1
  BY <1>1
<1>4. Tail(q) \in Seq(Statements) /\ Len(Tail(q)) = Len(q) - 1
      /\ \A n \in 1..(Len(q) - 1) : Tail(q)[n] = q[n + 1]
  BY <1>1, <1>3
<1>5. DOMAIN Tail(q) = 1..(Len(q) - 1)
  BY <1>4
<1>6. Tail(q)[Len(q) - 1] = q[Len(q)]
  BY <1>1, <1>3, <1>4
<1> QED
  BY <1>1, <1>2, <1>3, <1>4, <1>5, <1>6

\* Locking the next statement's row keeps the rest in order.
LEMMA TailInOrder ==
  ASSUME NEW q \in Seq(Statements), Len(q) > 0, q[Len(q)] = "commit", q[1] \notin {"commit", "append"},
         NEW held, InOrder(held, q)
  PROVE  InOrder(held \cup {q[1]}, Tail(q)) /\ InOrder(held, Tail(q))
<1> SUFFICES ASSUME NEW n \in DOMAIN Tail(q), \A m \in 1..(n - 1) : Tail(q)[m] # "append"
             PROVE  /\ \A r \in held \cup {q[1]} : <<r, Tail(q)[n]>> \in LockOrder
                    /\ \A m \in 1..(n - 1) : <<Tail(q)[m], Tail(q)[n]>> \in LockOrder
  BY DEF InOrder
<1>1. n \in 1..(Len(q) - 1) /\ Len(q) \in Nat /\ n \in Nat /\ n + 1 \in DOMAIN q
  BY TailOf
<1>2. Tail(q)[n] = q[n + 1]
  BY <1>1, TailOf
<1>3. \A m \in 1..(n - 1) : Tail(q)[m] = q[m + 1]
  BY <1>1, TailOf
<1>4. \A m \in 1..n : q[m] # "append"
  <2> SUFFICES ASSUME NEW m \in 1..n PROVE q[m] # "append"
    OBVIOUS
  <2>1. CASE m = 1
    BY <2>1
  <2>2. CASE m # 1
    <3>1. m - 1 \in 1..(n - 1) /\ (m - 1) + 1 = m
      BY <1>1, <2>2
    <3> QED
      BY <1>3, <3>1
  <2> QED
    BY <2>1, <2>2
<1>5. /\ \A r \in held : <<r, q[n + 1]>> \in LockOrder
      /\ \A m \in 1..n : <<q[m], q[n + 1]>> \in LockOrder
  <2>1. (n + 1) - 1 = n
    BY <1>1
  <2> QED
    BY <1>1, <1>4, <2>1 DEF InOrder
<1>6. 1 \in 1..n /\ \A m \in 1..(n - 1) : m + 1 \in 1..n
  BY <1>1
<1> QED
  BY <1>2, <1>3, <1>5, <1>6

LEMMA Concatenation ==
  ASSUME NEW S, NEW p \in Seq(S), NEW q \in Seq(S)
  PROVE  /\ p \o q \in Seq(S) /\ Len(p \o q) = Len(p) + Len(q) /\ Len(p) \in Nat /\ Len(q) \in Nat
         /\ \A n \in 1..Len(p) : (p \o q)[n] = p[n]
         /\ \A n \in 1..Len(q) : (p \o q)[Len(p) + n] = q[n]
  OBVIOUS

\* A program is in order if its statements are up to an append.
LEMMA OrderedProgram ==
  ASSUME NEW p \in Seq(Resources), NEW k \in 1..Len(p), p[k] = "append",
         \A n \in 1..k : \A m \in 1..(n - 1) : <<p[m], p[n]>> \in LockOrder
  PROVE  LET q == p \o <<"commit">> IN
         /\ q \in Seq(Statements) /\ Len(q) > 0 /\ q[Len(q)] = "commit" /\ InOrder({}, q)
<1> DEFINE q == p \o <<"commit">>
<1>1. p \in Seq(Statements) /\ <<"commit">> \in Seq(Statements) /\ Len(<<"commit">>) = 1 /\ Len(p) \in Nat
  BY DEF Statements
<1>2. q \in Seq(Statements) /\ Len(q) = Len(p) + 1 /\ q[Len(p) + 1] = "commit"
  <2>1. 1 \in 1..Len(<<"commit">>) /\ <<"commit">>[1] = "commit"
    BY <1>1
  <2> QED
    BY <1>1, <2>1, Concatenation
<1>3. \A n \in 1..Len(p) : q[n] = p[n]
  BY <1>1, Concatenation
<1> HIDE DEF q
<1>4. InOrder({}, q)
  <2> SUFFICES ASSUME NEW n \in DOMAIN q, \A m \in 1..(n - 1) : q[m] # "append"
               PROVE  \A m \in 1..(n - 1) : <<q[m], q[n]>> \in LockOrder
    BY DEF InOrder
  <2>1. n \in Nat /\ n > 0 /\ k \in 1..Len(p)
    BY <1>2
  <2>2. n <= k
    <3>1. q[k] = "append"
      BY <1>3
    <3> QED
      BY <1>1, <2>1, <3>1
  <2>3. \A m \in 1..n : q[m] = p[m]
    BY <1>1, <1>3, <2>1, <2>2
  <2>4. n \in 1..k /\ n \in 1..n /\ \A m \in 1..(n - 1) : m \in 1..n
    BY <1>1, <2>1, <2>2
  <2> QED
    BY <2>3, <2>4
<1> QED
  BY <1>1, <1>2, <1>4 DEF q

\* A writer's program as a session begins it.
LEMMA ProgramOf ==
  ASSUME NEW kind \in Kinds
  PROVE  LET q == Program(kind) \o <<"commit">> IN
         /\ q \in Seq(Statements) /\ Len(q) > 0 /\ q[Len(q)] = "commit" /\ InOrder({}, q)
<1> DEFINE Fits(p) == \E k \in 1..Len(p) :
             p[k] = "append" /\ \A n \in 1..k : \A m \in 1..(n - 1) : <<p[m], p[n]>> \in LockOrder
<1>a. ASSUME NEW p, NEW k \in 1..Len(p), p[k] = "append",
             \A n \in 1..k : \A m \in 1..(n - 1) : <<p[m], p[n]>> \in LockOrder
      PROVE  Fits(p)
  BY <1>a
<1>b. ASSUME NEW p \in Seq(Resources), Fits(p), Program(kind) = p
      PROVE  LET q == Program(kind) \o <<"commit">> IN
             /\ q \in Seq(Statements) /\ Len(q) > 0 /\ q[Len(q)] = "commit" /\ InOrder({}, q)
  BY <1>b, OrderedProgram
<1> HIDE DEF Fits
<1>1. ASSUME NEW p \in Seq(Resources), Len(p) >= 2,
             p[1] \in {"campaign", "consent", "txn"}, p[2] = "append"
      PROVE  Fits(p)
  <2>1. 2 \in 1..Len(p) /\ <<p[1], p[2]>> \in LockOrder
    BY <1>1 DEF LockOrder, Resources
  <2>2. \A n \in 1..2 : \A m \in 1..(n - 1) : m = 1 /\ n = 2
    OBVIOUS
  <2> QED
    BY <1>a, <1>1, <2>1, <2>2
<1>2. CASE kind = "create_intent"
  <2> DEFINE p == <<"campaign", "append">>
  <2>1. Program(kind) = p
    BY <1>2 DEF Program
  <2>2. p \in Seq(Resources) /\ Len(p) = 2 /\ p[1] = "campaign" /\ p[2] = "append"
    BY DEF Resources
  <2> HIDE DEF p
  <2>3. Fits(p)
    BY <1>1, <2>2
  <2> QED
    BY <1>b, <2>1, <2>2, <2>3
<1>3. CASE kind = "approve_consent"
  <2> DEFINE p == <<"consent", "append">>
  <2>1. Program(kind) = p
    BY <1>3 DEF Program
  <2>2. p \in Seq(Resources) /\ Len(p) = 2 /\ p[1] = "consent" /\ p[2] = "append"
    BY DEF Resources
  <2> HIDE DEF p
  <2>3. Fits(p)
    BY <1>1, <2>2
  <2> QED
    BY <1>b, <2>1, <2>2, <2>3
<1>4. Settling \in Seq(Resources) /\ Len(Settling) = 5
      /\ Settling[1] = "txn" /\ Settling[2] = "budget" /\ Settling[3] = "hold"
      /\ Settling[4] = "campaign" /\ Settling[5] = "append"
  BY DEF Settling, Resources
<1>5. CASE kind = "webhook"
  <2> DEFINE last == <<"intent">>
             p == Settling \o last
  <2>1. Program(kind) = p
    BY <1>5 DEF Program
  <2>2. last \in Seq(Resources) /\ Len(last) = 1
    BY DEF Resources
  <2> HIDE DEF last
  <2>3. /\ p \in Seq(Resources) /\ Len(p) = Len(Settling) + Len(last)
        /\ \A n \in 1..Len(Settling) : p[n] = Settling[n]
    <3>1. Settling \in Seq(Resources) /\ last \in Seq(Resources)
      BY <1>4, <2>2
    <3> QED
      BY <3>1, Concatenation
  <2> HIDE DEF p
  <2>4. p[1] = "txn" /\ p[2] = "budget" /\ p[3] = "hold" /\ p[4] = "campaign" /\ p[5] = "append"
    BY <1>4, <2>3
  <2>5. ASSUME NEW n \in 1..5, NEW m \in 1..(n - 1) PROVE <<p[m], p[n]>> \in LockOrder
    <3>1. m \in 1..4 /\ m < n
      OBVIOUS
    <3> QED
      BY <2>4, <3>1 DEF LockOrder, Resources
  <2>6. 5 \in 1..Len(p)
    BY <1>4, <2>2, <2>3
  <2>7. Fits(p)
    BY <1>a, <2>4, <2>5, <2>6
  <2> QED
    BY <1>b, <2>1, <2>3, <2>7
<1>6. CASE kind = "reconcile"
  <2> DEFINE first == <<"txn", "append">>
             p == first \o Settling
  <2>1. Program(kind) = p
    BY <1>6 DEF Program
  <2>2. first \in Seq(Resources) /\ Len(first) = 2
        /\ first[1] = "txn" /\ first[2] = "append"
    BY DEF Resources
  <2> HIDE DEF first
  <2>3. /\ p \in Seq(Resources) /\ Len(p) = Len(first) + Len(Settling)
        /\ \A n \in 1..Len(first) : p[n] = first[n]
    <3>1. first \in Seq(Resources) /\ Settling \in Seq(Resources)
      BY <1>4, <2>2
    <3> QED
      BY <3>1, Concatenation
  <2> HIDE DEF p
  <2>4. p[1] = "txn" /\ p[2] = "append"
    BY <2>2, <2>3
  <2>5. Fits(p)
    BY <1>1, <1>4, <2>2, <2>3, <2>4
  <2> QED
    BY <1>b, <2>1, <2>3, <2>5
<1>7. CASE kind = "checkout"
  <2> DEFINE events == [n \in 1..Transitions |-> "append"]
             p == <<"intent", "user">> \o events
  <2>1. Program(kind) = p
    BY <1>7 DEF Program
  <2>2. Transitions \in Nat /\ Transitions > 0
    BY AuditTrailAssumption
  <2>3. events \in Seq(Resources) /\ Len(events) = Transitions /\ events[1] = "append"
    BY <2>2 DEF Resources
  <2>4. <<"intent", "user">> \in Seq(Resources) /\ Len(<<"intent", "user">>) = 2
        /\ <<"intent", "user">>[1] = "intent" /\ <<"intent", "user">>[2] = "user"
    BY DEF Resources
  <2> HIDE DEF events
  <2>5. /\ p \in Seq(Resources) /\ Len(p) = 2 + Transitions
        /\ (\A n \in 1..2 : p[n] = <<"intent", "user">>[n]) /\ p[2 + 1] = events[1]
    <3>1. 1 \in 1..Len(events)
      BY <2>2, <2>3
    <3> QED
      BY <2>3, <2>4, <3>1, Concatenation
  <2> HIDE DEF p
  <2>6. p[1] = "intent" /\ p[2] = "user" /\ p[3] = "append"
    BY <2>3, <2>4, <2>5
  <2>7. ASSUME NEW n \in 1..3, NEW m \in 1..(n - 1) PROVE <<p[m], p[n]>> \in LockOrder
    BY <2>6 DEF LockOrder, Resources
  <2>8. 3 \in 1..Len(p)
    BY <2>2, <2>5
  <2>9. Fits(p)
    BY <1>a, <2>6, <2>7, <2>8
  <2> QED
    BY <1>b, <2>1, <2>5, <2>9
<1> QED
  BY <1>2, <1>3, <1>5, <1>6, <1>7, AuditTrailAssumption DEF AuditKinds

LEMMA OrderInit == Init => OrderInv
<1> SUFFICES ASSUME Init PROVE OrderInv
  OBVIOUS
<1>1. ASSUME NEW s \in Sessions PROVE SessionOK(s)
  <2>1. todo[s] = <<>> /\ own[s] = {} /\ locks[s] = {} /\ ~Open(s)
    BY DEF Init, Open
  <2>2. <<>> \in Seq(Statements)
    OBVIOUS
  <2> QED
    BY <2>1, <2>2 DEF SessionOK
<1>2. starts \in 0..MaxStarts
  BY AuditTrailAssumption DEF Init
<1> QED
  BY <1>1, <1>2, InitTrail DEF Init, OrderInv

\* A session goes on, and another one never sees it.
LEMMA OrderGoesOn ==
  ASSUME OrderInv, [Next]_vars, NEW s \in Sessions, NEW q, NEW held,
         todo' = [todo EXCEPT ![s] = q], locks' = [locks EXCEPT ![s] = held],
         \A o \in Sessions \ {s} : at'[o] = at[o] /\ own'[o] = own[o],
         starts' \in 0..MaxStarts, SessionOK(s)'
  PROVE  OrderInv'
<1>1. TrailInv'
  BY TrailStep DEF OrderInv
<1>2. todo' = [o \in Sessions |-> todo'[o]]
  BY DEF OrderInv
<1>3. ASSUME NEW o \in Sessions PROVE SessionOK(o)'
  <2>1. CASE o # s
    <3>1. todo'[o] = todo[o] /\ locks'[o] = locks[o]
      BY <2>1 DEF OrderInv, TrailInv, Locked
    <3> QED
      BY <2>1, <3>1 DEF OrderInv, SessionOK, Open
  <2> QED
    BY <2>1
<1> QED
  BY <1>1, <1>2, <1>3 DEF OrderInv

LEMMA OrderBegins ==
  ASSUME OrderInv, NEW s \in Sessions, NEW kind \in Kinds, begin(s, kind) PROVE OrderInv'
<1> DEFINE q == Program(kind) \o <<"commit">>
<1>1. /\ ~Open(s) /\ starts < MaxStarts /\ starts' = starts + 1 /\ at' = [at EXCEPT ![s] = starts + 1]
      /\ todo' = [todo EXCEPT ![s] = q] /\ own' = own /\ locks' = locks
  BY DEF begin
<1>2. starts \in 0..MaxStarts /\ MaxStarts \in Nat /\ starts' \in 0..MaxStarts
  BY <1>1, AuditTrailAssumption DEF OrderInv
<1>3. todo'[s] = q /\ locks'[s] = {} /\ at'[s] = starts + 1 /\ \A o \in Sessions \ {s} : at'[o] = at[o]
  BY <1>1 DEF OrderInv, SessionOK, TrailInv, Dated
<1>4. locks' = [locks EXCEPT ![s] = {}]
  BY <1>1, <1>3 DEF OrderInv, TrailInv, Locked
<1>5. SessionOK(s)'
  <2>1. q \in Seq(Statements) /\ Len(q) > 0 /\ q[Len(q)] = "commit" /\ InOrder({}, q)
    BY ProgramOf
  <2>2. Open(s)'
    BY <1>2, <1>3 DEF Open
  <2> HIDE DEF q
  <2> QED
    BY <1>3, <2>1, <2>2 DEF SessionOK
<1> QED
  BY <1>1, <1>2, <1>3, <1>4, <1>5, OrderGoesOn DEF Next

LEMMA OrderLocks == ASSUME OrderInv, NEW s \in Sessions, Update(s) PROVE OrderInv'
<1> DEFINE q == todo[s]
           r == Head(q)
<1>1. /\ Open(s) /\ r \notin {"append", "commit"} /\ UNCHANGED <<starts, at, own>>
      /\ todo' = [todo EXCEPT ![s] = Tail(q)]
      /\ \/ locks' = [locks EXCEPT ![s] = @ \cup {r}]
         \/ locks' = locks
  BY DEF Update, Advance
<1>2. q \in Seq(Statements) /\ Len(q) > 0 /\ q[Len(q)] = "commit" /\ locks[s] \subseteq Resources
      /\ ("append" \in locks[s] \/ InOrder(locks[s], q))
  BY <1>1 DEF OrderInv, SessionOK
<1>3. r = q[1]
  BY <1>2
<1>4. r \in Resources /\ Tail(q) \in Seq(Statements) /\ Len(Tail(q)) > 0 /\ Tail(q)[Len(Tail(q))] = "commit"
  BY <1>1, <1>2, <1>3, TailOf
<1>5. "append" \in locks[s] \/ (InOrder(locks[s] \cup {r}, Tail(q)) /\ InOrder(locks[s], Tail(q)))
  BY <1>1, <1>2, <1>3, TailInOrder
<1>6. PICK held \in {locks[s], locks[s] \cup {r}} : locks' = [locks EXCEPT ![s] = held]
  BY <1>1 DEF OrderInv, TrailInv, Locked
<1>7. todo'[s] = Tail(q) /\ locks'[s] = held
  BY <1>1, <1>6 DEF OrderInv, TrailInv, Locked
<1>8. SessionOK(s)'
  <2> HIDE DEF q, r
  <2> QED
    BY <1>1, <1>2, <1>4, <1>5, <1>6, <1>7 DEF SessionOK, Open
<1> QED
  BY <1>1, <1>6, <1>8, OrderGoesOn DEF Next, OrderInv

LEMMA OrderAppends == ASSUME OrderInv, NEW s \in Sessions, record_audit_event(s) PROVE OrderInv'
<1> DEFINE q == todo[s]
           held == locks[s] \cup {"append"}
<1>1. /\ Open(s) /\ Head(q) = "append" /\ UNCHANGED <<starts, at>>
      /\ todo' = [todo EXCEPT ![s] = Tail(q)] /\ locks' = [locks EXCEPT ![s] = held]
      /\ \E events : own' = [own EXCEPT ![s] = events]
  BY DEF record_audit_event, Advance
<1>2. q \in Seq(Statements) /\ Len(q) > 0 /\ q[Len(q)] = "commit" /\ locks[s] \subseteq Resources
  BY <1>1 DEF OrderInv, SessionOK
<1>3. Tail(q) \in Seq(Statements) /\ Len(Tail(q)) > 0 /\ Tail(q)[Len(Tail(q))] = "commit"
  <2>1. q[1] = "append"
    BY <1>1, <1>2
  <2> QED
    BY <1>2, <2>1, TailOf
<1>4. todo'[s] = Tail(q) /\ locks'[s] = held /\ \A o \in Sessions \ {s} : own'[o] = own[o]
  BY <1>1 DEF OrderInv, TrailInv, Locked
<1>5. SessionOK(s)'
  <2> HIDE DEF q
  <2> QED
    BY <1>1, <1>2, <1>3, <1>4 DEF SessionOK, Open, Resources
<1> QED
  BY <1>1, <1>4, <1>5, OrderGoesOn DEF Next, OrderInv

LEMMA OrderEnds ==
  ASSUME OrderInv, NEW s \in Sessions, Commit(s) \/ Rollback(s) \/ DeadlockVictim(s) PROVE OrderInv'
<1>1. EndSession(s) /\ starts' = starts
  BY DEF Commit, Rollback, DeadlockVictim
<1>2. /\ todo'[s] = <<>> /\ locks'[s] = {} /\ own'[s] = {} /\ at'[s] = 0
      /\ \A o \in Sessions \ {s} : at'[o] = at[o] /\ own'[o] = own[o]
  BY <1>1 DEF EndSession, OrderInv, TrailInv, Locked, Dated
<1>3. SessionOK(s)'
  BY <1>2 DEF SessionOK, Open
<1> QED
  BY <1>1, <1>2, <1>3, OrderGoesOn DEF Next, EndSession, OrderInv

LEMMA OrderStep == OrderInv /\ [Next]_vars => OrderInv'
<1> SUFFICES ASSUME OrderInv, [Next]_vars PROVE OrderInv'
  OBVIOUS
<1>1. CASE UNCHANGED vars
  BY <1>1, TrailStep DEF vars, OrderInv, SessionOK, Open
<1>2. ASSUME NEW s \in Sessions, NEW kind \in Kinds, begin(s, kind) PROVE OrderInv'
  BY <1>2, OrderBegins
<1>3. ASSUME NEW s \in Sessions,
             Update(s) \/ record_audit_event(s) \/ Commit(s) \/ Rollback(s) \/ DeadlockVictim(s)
      PROVE  OrderInv'
  BY <1>3, OrderLocks, OrderAppends, OrderEnds
<1> QED
  BY <1>1, <1>2, <1>3 DEF Next

LEMMA OrderInvariant == Spec => []OrderInv
  BY OrderInit, OrderStep, PTL DEF Spec

\* Events stay unique, sessions have a well-formed rest of their program, and a
\* closed session holds nothing, for every number of sessions and events.
THEOREM AuditTypes == Spec => []TypeOK
<1>1. OrderInv => TypeOK
  BY DEF OrderInv, SessionOK, Statements, TypeOK, TrailInv, Locked, Sound
<1> QED
  BY <1>1, OrderInvariant, PTL

\* Who waits for one that holds no audit lock waits for a session that is further
\* in the order, and whose own next statement is a row it waits for.
LEMMA FurtherAhead ==
  ASSUME OrderInv, NEW C \in SUBSET Sessions, Cycle(C), \A s \in C : "append" \notin locks[s], NEW c \in C
  PROVE  \E o \in C : <<Head(todo[c]), Head(todo[o])>> \in LockOrder /\ Head(todo[o]) # "append"
<1>1. PICK o \in C : WaitsFor(c, o)
  BY DEF Cycle
<1>2. PICK p \in C : WaitsFor(o, p)
  BY DEF Cycle
<1>3. Open(o) /\ Head(todo[o]) # "append" /\ Head(todo[c]) \in locks[o]
  BY <1>1, <1>2 DEF WaitsFor
<1>4. InOrder(locks[o], todo[o]) /\ todo[o] \in Seq(Statements) /\ Len(todo[o]) > 0
  BY <1>3 DEF OrderInv, SessionOK
<1>5. 1 \in DOMAIN todo[o] /\ Head(todo[o]) = todo[o][1]
  BY <1>4
<1>6. \A m \in 1..(1 - 1) : todo[o][m] # "append"
  OBVIOUS
<1>7. <<Head(todo[c]), todo[o][1]>> \in LockOrder
  BY <1>3, <1>4, <1>5, <1>6 DEF InOrder
<1> QED
  BY <1>3, <1>5, <1>7

\* Rows and the budget lock alone never make writers wait in a cycle: until its
\* first event every writer locks in one order, so that each cycle has a member
\* that keeps the audit lock while it waits.
THEOREM OnlyAuditCrosses == Spec => []CyclesCrossAudit
<1>1. OrderInv => CyclesCrossAudit
  <2> SUFFICES ASSUME OrderInv, NEW C \in (SUBSET Sessions) \ {{}}, Cycle(C),
                      \A s \in C : "append" \notin locks[s]
               PROVE  FALSE
    BY DEF CyclesCrossAudit
  <2> DEFINE next(c) == Head(todo[c])
  <2>1. \A c \in C : \E o \in C : <<next(c), next(o)>> \in LockOrder /\ next(o) # "append"
    BY FurtherAhead
  <2> HIDE DEF next
  <2>2. \A c \in C : next(c) \notin {"campaign", "consent", "user", "append", "commit"}
    BY <2>1 DEF LockOrder, Resources
  <2>3. \A c \in C : next(c) \notin {"hold", "intent"}
    BY <2>1, <2>2 DEF LockOrder, Resources
  <2>4. \A c \in C : next(c) # "budget"
    BY <2>1, <2>2, <2>3 DEF LockOrder, Resources
  <2>5. \A c \in C : next(c) # "txn"
    BY <2>1, <2>2, <2>3, <2>4 DEF LockOrder, Resources
  <2>6. PICK c \in C : TRUE
    OBVIOUS
  <2> QED
    BY <2>1, <2>2, <2>3, <2>4, <2>5, <2>6 DEF LockOrder, Resources
<1> QED
  BY <1>1, OrderInvariant, PTL
=============================================================================
