----------------------------- MODULE Settlement -----------------------------
(***************************************************************************)
(* How a submitted payment gets its outcome: the provider delivers events  *)
(* (twice, late, in any order), each delivery is a session that records    *)
(* the event in the inbox and settles the transaction, its intent, its     *)
(* budget and its campaign hold; a failed session leaves a FAILED inbox    *)
(* row that a worker task may retry; and an hourly janitor releases        *)
(* campaign holds that expired.                                            *)
(***************************************************************************)
EXTENDS LedgerSessions

CONSTANTS
  Webhooks,      \* request sessions of the webhook route
  Janitors,      \* runs of the campaign janitor
  Events,        \* event ids of the provider
  EventTxn,      \* the transaction whose order an event names
  EventKind,     \* its type; a capture may name no payment, or another amount
  Cancellable,   \* bound: the intents whose buyer may cancel them
  MaxDeliveries, \* bound: how often the provider delivers one event
  MaxErrors,     \* bound: sessions that end in an exception
  MaxCrashes     \* bound: sessions that end with their process, or cannot recover

\* "unnamed" is a capture without a payment id, "misquoted" one with another amount.
Kinds == {"captured", "unnamed", "misquoted", "failed", "other"}
Captures == {"captured", "unnamed"}

ASSUME SettlementAssumption ==
  /\ Sessions = Webhooks \cup Janitors
  /\ Webhooks \cap Janitors = {}
  /\ Events # {}
  /\ EventTxn \in [Events -> Txns]
  /\ EventKind \in [Events -> Kinds]
  /\ Cancellable \subseteq Intents
  /\ {MaxDeliveries, MaxErrors, MaxCrashes} \subseteq Nat

VARIABLES
  inbox,      \* webhook_events: the row of every event id
  event,      \* the event each webhook session works on
  todo,       \* the expired reservations a janitor run has not visited yet
  expired,    \* the intents whose campaign hold is past its ten minutes
  delivered,  \* how often each event was delivered
  errors,     \* exceptions so far
  crashes     \* crashes so far

ownVars == <<inbox, event, todo, expired, delivered, errors, crashes>>
vars == <<ledgerVars, ownVars>>

InboxRow == [status : {"ABSENT", "PROCESSED", "FAILED"}, linked : BOOLEAN]
Absent == [status |-> "ABSENT", linked |-> FALSE]

\* The outcome an event reports when it can report one.
Verdict ==
  [e \in Events |-> IF EventKind[e] \in Captures THEN "COMPLETED" ELSE "FAILED"]

Captured(s) == s \in Webhooks /\ work[s].row.status = "COMPLETED"

Init ==
  /\ txn = [t \in Txns |-> SubmittedRow]
  /\ intent = [i \in Intents |-> "SUBMITTED"]
  /\ budget = [i \in Intents |-> "RESERVED"]
  /\ hold = [i \in Intents |-> "RESERVED"]
  /\ uses = Cardinality(Intents)
  /\ locks = [s \in Sessions |-> {}]
  /\ pc = [s \in Sessions |-> "idle"]
  /\ work = [s \in Sessions |-> Blank]
  /\ inbox = [e \in Events |-> Absent]
  /\ event = [w \in Webhooks |-> CHOOSE e \in Events : TRUE]
  /\ todo = [j \in Janitors |-> {}]
  /\ expired = {}
  /\ delivered = [e \in Events |-> 0]
  /\ errors = 0
  /\ crashes = 0

-----------------------------------------------------------------------------
(* A delivery: the route has verified the signature, process_webhook runs. *)

\* SELECT by razorpay_event_id; a row means a duplicate, answered at once.
Deliver(s, e) ==
  /\ pc[s] = "idle"
  /\ delivered[e] < MaxDeliveries
  /\ delivered' = [delivered EXCEPT ![e] = @ + 1]
  /\ IF inbox[e] = Absent
       THEN event' = [event EXCEPT ![s] = e] /\ Goto(s, "insert")
       ELSE UNCHANGED <<event, pc>>
  /\ UNCHANGED <<rows, locks, work, inbox, todo, expired, errors, crashes>>

\* INSERT INTO webhook_events: the unique index makes a second inserter wait.
InsertEvent(s) ==
  /\ pc[s] = "insert"
  /\ inbox[event[s]] = Absent
  /\ Take(s, <<"event", event[s]>>)
  /\ Goto(s, "load")
  /\ UNCHANGED <<rows, work, ownVars>>

\* The first inserter committed: IntegrityError, and the recovery insert of
\* the exception handler fails on the same index.
InsertConflict(s) ==
  /\ pc[s] = "insert"
  /\ inbox[event[s]] # Absent
  /\ EndSession(s, "idle")
  /\ UNCHANGED <<rows, ownVars>>

\* Variant: the transition is not checked.
_handle_event_unchecked(kind, row) ==
  CASE kind \in Captures ->
         Transitioned([row EXCEPT !.paid = @ \/ kind = "captured"], "COMPLETED")
    [] kind = "failed" -> Transitioned(row, "FAILED")
    [] OTHER -> row

\* _handle_event: the row the session is left with in memory.  A capture that
\* names its payment records it, whatever the transaction's status is.
_handle_event(kind, row) ==
  CASE kind \in Captures ->
         LET noted == [row EXCEPT !.paid = @ \/ kind = "captured"]
         IN  IF can_transition(row.status, "COMPLETED")
               THEN Transitioned(noted, "COMPLETED") ELSE noted
    [] kind = "failed" ->
         IF can_transition(row.status, "FAILED") THEN Transitioned(row, "FAILED") ELSE row
    [] OTHER -> row

\* SELECT the transaction by order id and dispatch the event on that copy.
HandleEvent(s) ==
  LET t == EventTxn[event[s]]
      row == _handle_event(EventKind[event[s]], txn[t])
  IN /\ pc[s] = "load"
     /\ work' = [work EXCEPT ![s] = [txn |-> t, item |-> IntentOf[t],
                                     load |-> txn[t], row |-> row, freed |-> 0]]
     /\ Goto(s, IF row = txn[t] THEN "commit" ELSE "flush")
     /\ UNCHANGED <<rows, locks, ownVars>>

\* Variant: the outcome is committed before the inbox row.
CommitWebhook_unrecorded(s) ==
  /\ s \in Webhooks
  /\ pc[s] = "commit"
  /\ CommitRows(s, Captured(s))
  /\ EndSession(s, "idle")
  /\ UNCHANGED ownVars

\* The inbox row is PROCESSED whatever the handler answered.
CommitWebhook(s) ==
  /\ s \in Webhooks
  /\ pc[s] = "commit"
  /\ CommitRows(s, Captured(s))
  /\ inbox' = [inbox EXCEPT ![event[s]] = [status |-> "PROCESSED", linked |-> TRUE]]
  /\ EndSession(s, "idle")
  /\ UNCHANGED <<event, todo, expired, delivered, errors, crashes>>

-----------------------------------------------------------------------------
(* Errors.  The route rolls back and adds a FAILED inbox row in a session  *)
(* of its own; that row names neither the order nor the transaction.       *)

\* Variant: the row is left as received.
Recover_received(s) ==
  /\ pc[s] = "recover"
  /\ Free(s, <<"event", event[s]>>)
  /\ inbox' = [inbox EXCEPT ![event[s]] =
                 IF @ = Absent THEN [status |-> "RECEIVED", linked |-> FALSE] ELSE @]
  /\ EndSession(s, "idle")
  /\ UNCHANGED <<rows, event, todo, expired, delivered, errors, crashes>>

Recover(s) ==
  /\ pc[s] = "recover"
  /\ Free(s, <<"event", event[s]>>)
  /\ inbox' = [inbox EXCEPT ![event[s]] =
                 IF @ = Absent THEN [status |-> "FAILED", linked |-> FALSE] ELSE @]
  /\ EndSession(s, "idle")
  /\ UNCHANGED <<rows, event, todo, expired, delivered, errors, crashes>>

Running(s) == pc[s] \notin {"idle", "recover"}

\* Variant: the route only rolls back.
Abort_unrecorded(s) == EndSession(s, "idle")

\* An exception rolls back: the route recovers, a janitor task just ends.
Abort(s) == EndSession(s, IF s \in Webhooks THEN "recover" ELSE "idle")

SessionError(s) ==
  /\ Running(s)
  /\ errors < MaxErrors
  /\ errors' = errors + 1
  /\ Abort(s)
  /\ UNCHANGED <<rows, inbox, event, todo, expired, delivered, crashes>>

\* The process dies, or the recovery session fails too and is only logged.
Crash(s) ==
  /\ pc[s] # "idle"
  /\ crashes < MaxCrashes
  /\ crashes' = crashes + 1
  /\ EndSession(s, "idle")
  /\ UNCHANGED <<rows, inbox, event, todo, expired, delivered, errors>>

\* process_webhook_event: a FAILED row has no transaction, so the handlers
\* answer no_transaction_found and the row becomes PROCESSED.
retry_webhook_event(e) ==
  /\ inbox[e].status = "FAILED"
  /\ inbox' = [inbox EXCEPT ![e].status = "PROCESSED"]
  /\ UNCHANGED <<ledgerVars, event, todo, expired, delivered, errors, crashes>>

-----------------------------------------------------------------------------
(* The janitor: one session that settles every expired hold as a release.  *)

ExpireHold(i) ==
  /\ hold[i] = "RESERVED"
  /\ i \notin expired
  /\ expired' = expired \cup {i}
  /\ UNCHANGED <<ledgerVars, inbox, event, todo, delivered, errors, crashes>>

StartSweep(j) ==
  LET found == {i \in expired : hold[i] = "RESERVED"} IN
  /\ pc[j] = "idle"
  /\ found # {}
  /\ todo' = [todo EXCEPT ![j] = found]
  /\ Goto(j, "sweep")
  /\ UNCHANGED <<rows, locks, work, inbox, event, expired, delivered, errors, crashes>>

SweepNext(j) ==
  /\ pc[j] = "sweep"
  /\ \E i \in todo[j] :
       /\ work' = [work EXCEPT ![j].item = i]
       /\ todo' = [todo EXCEPT ![j] = @ \ {i}]
  /\ Goto(j, "select")
  /\ UNCHANGED <<rows, locks, inbox, event, expired, delivered, errors, crashes>>

CommitSweep(j) ==
  /\ pc[j] = "sweep"
  /\ todo[j] = {}
  /\ CommitRows(j, FALSE)
  /\ EndSession(j, "idle")
  /\ UNCHANGED ownVars

-----------------------------------------------------------------------------
(* The buyer may cancel the intent meanwhile, also one that is paid.  The  *)
(* UPDATE is filtered by id alone: whether the payment was completed was   *)
(* asked of a row read earlier, so any outcome may be overwritten.         *)

cancel_intent(i) ==
  /\ \A s \in Sessions : <<"intent", i>> \notin locks[s]
  /\ intent' = [intent EXCEPT ![i] = "CANCELLED"]
  /\ UNCHANGED <<txn, budget, hold, uses, locks, pc, work, ownVars>>

-----------------------------------------------------------------------------
(* PostgreSQL ends a deadlock by aborting one session of the cycle.        *)

Wanted(s) ==
  LET w == work[s] IN
  CASE pc[s] \in {"insert", "recover"} /\ s \in Webhooks -> {<<"event", event[s]>>}
    [] pc[s] = "flush"  -> {<<"txn", w.txn>>}
    [] pc[s] = "budget" -> IF budget[w.item] = "RESERVED" THEN {<<"budget", w.item>>} ELSE {}
    [] pc[s] = "hold"   -> IF hold[w.item] = "RESERVED" THEN {<<"hold", w.item>>} ELSE {}
    [] pc[s] = "free"   -> IF uses > w.freed THEN {Campaign} ELSE {}
    [] pc[s] = "audit"  -> {AuditLock}
    [] pc[s] = "mirror" -> {<<"intent", w.item>>}
    [] OTHER -> {}

WaitsFor(s, o) == s # o /\ Wanted(s) \cap locks[o] # {}

DeadlockVictim(s) ==
  /\ \E C \in SUBSET Sessions :
       /\ s \in C
       /\ \A c \in C : (\E o \in C : WaitsFor(c, o)) /\ (\E o \in C : WaitsFor(o, c))
  /\ Abort(s)
  /\ UNCHANGED <<rows, ownVars>>

-----------------------------------------------------------------------------
AfterHold(s) == IF s \in Webhooks THEN "audit" ELSE "sweep"

Settle(s) ==
  /\ \/ FlushRow(s)
     \/ settle_budget_for_intent(s)
     \/ SelectHold(s, AfterHold(s))
     \/ UpdateHold(s, Captured(s), AfterHold(s))
     \/ FreeUse(s, AfterHold(s))
     \/ LockAudit(s, "mirror")
     \/ MirrorIntent(s)
  /\ UNCHANGED ownVars

process_webhook(s) ==
  InsertEvent(s) \/ InsertConflict(s) \/ HandleEvent(s) \/ CommitWebhook(s) \/ Recover(s)

release_expired_campaign_reservations(j) == SweepNext(j) \/ CommitSweep(j)

SessionStep(s) ==
  \/ s \in Webhooks /\ process_webhook(s)
  \/ s \in Janitors /\ release_expired_campaign_reservations(s)
  \/ Settle(s)

Next ==
  \/ \E s \in Webhooks, e \in Events : Deliver(s, e)
  \/ \E s \in Sessions : SessionStep(s) \/ SessionError(s) \/ Crash(s) \/ DeadlockVictim(s)
  \/ \E e \in Events : retry_webhook_event(e)
  \/ \E i \in Intents : ExpireHold(i)
  \/ \E i \in Cancellable : cancel_intent(i)
  \/ \E j \in Janitors : StartSweep(j)

Spec == Init /\ [][Next]_vars

\* A request or task that has started keeps running (the event loop, the
\* worker and the deadlock detector do not stop), and the queue of a lock is
\* first come, first served: a waiter is not overtaken forever.
Fairness == \A s \in Sessions : SF_vars(SessionStep(s)) /\ WF_vars(DeadlockVictim(s))

FairSpec == Spec /\ Fairness
=============================================================================
