----------------------------- MODULE AuditTrail -----------------------------
(***************************************************************************)
(* The sessions that append to the audit trail, each with the statements   *)
(* that make it wait: updates of rows, the user's budget lock, and         *)
(* record_audit_event, which takes one advisory lock for the whole trail   *)
(* and keeps it until the database transaction ends.                       *)
(*                                                                         *)
(* An event is hashed over the event that comes last by (created_at, id).  *)
(* created_at is the start of the database transaction, the same for all   *)
(* events of a session, and id is random.  All writers here work on one    *)
(* intent with one transaction, so that they contend for every row.        *)
(***************************************************************************)
EXTENDS Integers, Sequences

CONSTANTS
  Sessions,     \* database sessions that may be open at once
  Kinds,        \* the kinds of writers
  Transitions,  \* bound: events a checkout appends (six in the code)
  MaxStarts     \* bound: sessions that are opened

AuditKinds == {"create_intent", "approve_consent", "checkout", "webhook", "reconcile"}

ASSUME AuditTrailAssumption ==
  /\ Kinds \subseteq AuditKinds
  /\ {Transitions, MaxStarts} \subseteq Nat \ {0}

VARIABLES
  trail,    \* committed events
  starts,   \* sessions opened so far; the clock
  todo,     \* the statements each session has before it, the next one first
  at,       \* when each session's transaction began: its events' created_at
  own,      \* the events each session appended and has not committed
  locks     \* what each session has locked

vars == <<trail, starts, todo, at, own, locks>>

Init ==
  /\ trail = {}
  /\ starts = 0
  /\ todo = [s \in Sessions |-> <<>>]
  /\ at = [s \in Sessions |-> 0]
  /\ own = [s \in Sessions |-> {}]
  /\ locks = [s \in Sessions |-> {}]

-----------------------------------------------------------------------------
(* What each writer does, in the order of its statements.  A row that no   *)
(* other writer can see yet is left out.                                   *)

\* transition_transaction to an outcome: the row, its two settlements, the event.
Settling == <<"txn", "budget", "hold", "campaign", "append">>

\* Variant: a checkout counts the use of its offer again and renews the hold.
Program_renews_offer(kind) ==
  CASE kind = "create_intent"   -> <<"campaign", "append">>
    [] kind = "approve_consent" -> <<"consent", "append">>
    [] kind = "checkout"  -> <<"intent", "user", "campaign", "hold", "append">>
    [] kind = "webhook"   -> Settling \o <<"intent">>
    [] kind = "reconcile" -> <<"txn", "append">> \o Settling

Program(kind) ==
  CASE kind = "create_intent"   -> <<"campaign", "append">>
    [] kind = "approve_consent" -> <<"consent", "append">>
    [] kind = "checkout"  -> <<"intent", "user">> \o [n \in 1..Transitions |-> "append"]
    [] kind = "webhook"   -> Settling \o <<"intent">>
    [] kind = "reconcile" -> <<"txn", "append">> \o Settling

\* Updates with a condition: where it fails no row is locked.  Most intents
\* carry no campaign, and a capture gives no use back.
Conditional == {"budget", "hold", "campaign"}

-----------------------------------------------------------------------------
Open(s) == at[s] # 0

begin(s, kind) ==
  /\ ~Open(s)
  /\ starts < MaxStarts
  /\ starts' = starts + 1
  /\ at' = [at EXCEPT ![s] = starts + 1]
  /\ todo' = [todo EXCEPT ![s] = Program(kind) \o <<"commit">>]
  /\ UNCHANGED <<trail, own, locks>>

\* Variant: an advisory lock of session level outlives the transaction.
EndSession_keeps_audit(s) ==
  /\ at' = [at EXCEPT ![s] = 0]
  /\ todo' = [todo EXCEPT ![s] = <<>>]
  /\ own' = [own EXCEPT ![s] = {}]
  /\ locks' = [locks EXCEPT ![s] = @ \cap {"append"}]

EndSession(s) ==
  /\ at' = [at EXCEPT ![s] = 0]
  /\ todo' = [todo EXCEPT ![s] = <<>>]
  /\ own' = [own EXCEPT ![s] = {}]
  /\ locks' = [locks EXCEPT ![s] = {}]

Advance(s) == todo' = [todo EXCEPT ![s] = Tail(@)]

Free(s, r) == \A o \in Sessions \ {s} : r \notin locks[o]

\* An UPDATE takes the row's lock, as an advisory lock is taken.
Update(s) ==
  LET r == Head(todo[s]) IN
  /\ Open(s) /\ r \notin {"append", "commit"}
  /\ \/ Free(s, r) /\ locks' = [locks EXCEPT ![s] = @ \cup {r}]
     \/ r \in Conditional /\ UNCHANGED locks
  /\ Advance(s)
  /\ UNCHANGED <<trail, starts, at, own>>

Older(x, y) == x.at < y.at \/ (x.at = y.at /\ x.id < y.id)

None == [at |-> 0, id |-> 0]

\* A row of audit_events: when its session began, its id, the previous event.
Event == [at : Nat, id : Nat, prev : [at : Nat, id : Nat]]

Key(e) == [at |-> e.at, id |-> e.id]

\* ORDER BY created_at DESC, id DESC LIMIT 1...
Last(keys) ==
  IF keys = {} THEN None
  ELSE CHOOSE x \in keys : \A y \in keys \ {x} : Older(y, x)

\* ...over the events the session can see.
Previous(s) == Last({Key(e) : e \in trail \cup own[s]})

\* An id is random: it comes before or after the session's other ids.
FreshIds(s) == (1..Transitions + 1) \ {e.id : e \in own[s]}

\* Variant: no lock.
record_audit_event_unlocked(s) ==
  /\ Open(s) /\ Head(todo[s]) = "append"
  /\ \E id \in FreshIds(s) :
       own' = [own EXCEPT ![s] = @ \cup {[at |-> at[s], id |-> id, prev |-> Previous(s)]}]
  /\ Advance(s)
  /\ UNCHANGED <<trail, starts, at, locks>>

\* The advisory lock, the SELECT of the previous event, the INSERT.
record_audit_event(s) ==
  /\ Open(s) /\ Head(todo[s]) = "append"
  /\ Free(s, "append")
  /\ locks' = [locks EXCEPT ![s] = @ \cup {"append"}]
  /\ \E id \in FreshIds(s) :
       own' = [own EXCEPT ![s] = @ \cup {[at |-> at[s], id |-> id, prev |-> Previous(s)]}]
  /\ Advance(s)
  /\ UNCHANGED <<trail, starts, at>>

Commit(s) ==
  /\ Open(s) /\ Head(todo[s]) = "commit"
  /\ trail' = trail \cup own[s]
  /\ EndSession(s)
  /\ UNCHANGED starts

\* The request raises, its process dies or the deadlock detector picks it.
Rollback(s) == Open(s) /\ EndSession(s) /\ UNCHANGED <<trail, starts>>

-----------------------------------------------------------------------------
(* PostgreSQL's deadlock detector.                                         *)

\* Variant: advisory locks are taken elsewhere and the detector does not see them.
WaitsFor_rows(s, o) ==
  s # o /\ Open(s) /\ Head(todo[s]) \in locks[o] \ {"append", "user"}

\* A conditional update waits too when its row matches.
WaitsFor(s, o) == s # o /\ Open(s) /\ Head(todo[s]) \in locks[o]

Cycle(C) ==
  \A c \in C : (\E o \in C : WaitsFor(c, o)) /\ (\E o \in C : WaitsFor(o, c))

DeadlockVictim(s) ==
  /\ \E C \in SUBSET Sessions : s \in C /\ Cycle(C)
  /\ Rollback(s)

Working(s) == Update(s) \/ record_audit_event(s) \/ Commit(s)

Next ==
  \E s \in Sessions :
    \/ \E kind \in Kinds : begin(s, kind)
    \/ Update(s) \/ record_audit_event(s) \/ Commit(s) \/ Rollback(s)
    \/ DeadlockVictim(s)

\* Waiters are served in order of arrival; the detector breaks every cycle.
Fairness == \A s \in Sessions : SF_vars(Working(s)) /\ WF_vars(DeadlockVictim(s))

Spec == Init /\ [][Next]_vars /\ Fairness
=============================================================================
