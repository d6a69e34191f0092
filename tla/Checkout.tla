------------------------------ MODULE Checkout ------------------------------
(***************************************************************************)
(* The checkout of purchase intents.  Each request is one database session *)
(* at READ COMMITTED: it reads committed rows, an UPDATE or an advisory    *)
(* lock makes it wait, and all it wrote appears when it commits.  Several  *)
(* checkouts, consent decisions and cancellations of a user's intents run  *)
(* at once while capabilities, reservations and intents expire.            *)
(*                                                                         *)
(* Settlement is one step here, by webhook or by reconciliation; the        *)
(* sessions that settle are Settlement.tla's and Reconciliation.tla's.     *)
(***************************************************************************)
EXTENDS TransactionStates, Amounts, Sequences

CONSTANTS
  Requests,       \* HTTP requests that may be open at once
  Intents,        \* the intents of one user and agent
  NeedsConsent,   \* the intents policy answers ASK_USER for
  Amount,         \* final_amount_minor of every intent
  DailyLimit,     \* the delegation's daily limit
  Terms,          \* the terms a user may give a mandate, see create_mandate
  CapabilityTTL,  \* capability_ttl_seconds
  ConsentTTL,     \* CONSENT_TTL_SECONDS
  IntentTTL,      \* INTENT_TTL_SECONDS, all intents being created at time 0
  Calls,          \* bound: the kinds of requests that arrive
  MaxMandates,    \* bound: mandates created
  MaxTime         \* bound: the clock stops here

Kinds == {"checkout", "request", "APPROVED", "REJECTED", "cancel"}

\* A mandate's largest payment, its daily limit, the intents in its categories.
Term == [largest : Nat, daily : Nat, covers : SUBSET Intents]

\* A row of consent_mandates; revoking one sets its status and revoked_at.
Mandate == [largest : Nat, daily : Nat, covers : SUBSET Intents, from : Nat, until : Nat,
            status : {"APPROVED", "REJECTED"}]

ASSUME CheckoutAssumption ==
  /\ Intents # {} /\ IsFiniteSet(Intents) /\ NeedsConsent \subseteq Intents
  /\ Amount \in [Intents -> Nat]
  /\ {DailyLimit, CapabilityTTL, ConsentTTL, IntentTTL, MaxMandates, MaxTime} \subseteq Nat
  /\ Terms \subseteq Term
  /\ CapabilityTTL > 0
  /\ Calls \subseteq Kinds \cup {"mandate"}

VARIABLES
  now,        \* the clock
  intent,     \* committed status of every intent
  consent,    \* committed consent row of every intent, one per intent and user
  attempts,   \* committed capabilities of every intent, each with its transaction
  budget,     \* committed budget reservation of every intent
  mandates,   \* committed mandates of the user for agent and merchant
  locks,      \* the row and advisory locks each request holds until it ends
  pc,         \* the step each request takes next
  work        \* what each request holds in memory

rows == <<intent, consent, attempts, budget, mandates>>
vars == <<now, rows, locks, pc, work>>

Blank == [kind |-> "checkout", item |-> CHOOSE i \in Intents : TRUE,
          until |-> 0, limit |-> 0, outcome |-> "POLICY_APPROVED"]

Init ==
  /\ now = 0
  /\ intent = [i \in Intents |-> "CREATED"]
  /\ consent = [i \in Intents |-> [status |-> "NONE", until |-> 0]]
  /\ attempts = [i \in Intents |-> <<>>]
  /\ budget = [i \in Intents |-> [status |-> "NONE", until |-> 0]]
  /\ mandates = <<>>
  /\ locks = [s \in Requests |-> {}]
  /\ pc = [s \in Requests |-> "idle"]
  /\ work = [s \in Requests |-> Blank]

BudgetLock == <<"advisory", "budget">>

Free(s, r) == \A o \in Requests \ {s} : r \notin locks[o]

Take(s, r) ==
  /\ Free(s, r)
  /\ locks' = [locks EXCEPT ![s] = @ \cup {r}]

Goto(s, step) == pc' = [pc EXCEPT ![s] = step]

EndRequest(s) ==
  /\ Goto(s, "idle")
  /\ locks' = [locks EXCEPT ![s] = {}]
  /\ work' = [work EXCEPT ![s] = Blank]

Open(s, kind, i, step) ==
  /\ kind \in Calls
  /\ pc[s] = "idle"
  /\ work' = [work EXCEPT ![s].kind = kind, ![s].item = i]
  /\ Goto(s, step)

\* The request raises: a check failed, the database or the process did.  The
\* session rolls back, so nothing but the locks is left to undo.
Raise(s) == pc[s] # "idle" /\ EndRequest(s) /\ UNCHANGED <<now, rows>>

-----------------------------------------------------------------------------
(* checkout_and_pay.                                                       *)

\* validate_intent_for_execution and the policy: a terminal or expired intent
\* is refused here, on the status this request read.
validate_intent_for_execution(s, i) ==
  /\ now <= IntentTTL
  /\ intent[i] \notin TerminalStatuses
  /\ Open(s, "checkout", i, IF i \in NeedsConsent THEN "consent" ELSE "approve")
  /\ UNCHANGED <<now, rows, locks>>

\* POST /intents/{id}/consent runs request_consent alone.
request_consent_route(s, i) ==
  /\ now <= IntentTTL
  /\ Open(s, "request", i, "consent")
  /\ UNCHANGED <<now, rows, locks>>

AfterConsent(s) == IF work[s].kind = "checkout" THEN "park" ELSE "commit"

\* Variant: the checkout goes on to park the intent without asking.
request_consent_unasked(s) ==
  /\ pc[s] = "consent"
  /\ Goto(s, AfterConsent(s))
  /\ UNCHANGED <<now, rows, locks, work>>

\* request_consent looks for a PENDING row that has not expired...
request_consent(s) ==
  LET c == consent[work[s].item] IN
  /\ pc[s] = "consent"
  /\ Goto(s, IF c.status = "PENDING" /\ c.until >= now THEN AfterConsent(s) ELSE "ask")
  /\ UNCHANGED <<now, rows, locks, work>>

\* Variant: INSERT ... ON CONFLICT DO UPDATE asks again.
InsertConsent_upsert(s) ==
  /\ pc[s] = "ask"
  /\ Take(s, <<"consent", work[s].item>>)
  /\ work' = [work EXCEPT ![s].until = now + ConsentTTL]
  /\ Goto(s, AfterConsent(s))
  /\ UNCHANGED <<now, rows>>

\* ...and otherwise inserts quote and consent, unique per intent: it waits for
\* another inserter, and raises when any row exists.
InsertConsent(s) ==
  /\ pc[s] = "ask"
  /\ consent[work[s].item].status = "NONE"
  /\ Take(s, <<"consent", work[s].item>>)
  /\ work' = [work EXCEPT ![s].until = now + ConsentTTL]
  /\ Goto(s, AfterConsent(s))
  /\ UNCHANGED <<now, rows>>

\* The checkout pauses: UPDATE intents SET status = AWAITING_CONSENT.
ParkIntent(s) ==
  /\ pc[s] = "park"
  /\ Take(s, <<"intent", work[s].item>>)
  /\ work' = [work EXCEPT ![s].outcome = "AWAITING_CONSENT"]
  /\ Goto(s, "commit")
  /\ UNCHANGED <<now, rows>>

\* Variant: the update is left to the end of the request.
ApproveIntent_deferred(s) ==
  /\ pc[s] = "approve"
  /\ Goto(s, "issue")
  /\ UNCHANGED <<now, rows, locks, work>>

\* The checkout goes on: UPDATE intents SET status = POLICY_APPROVED, with no
\* condition on the status.  The row lock is held until the request ends.
ApproveIntent(s) ==
  /\ pc[s] = "approve"
  /\ Take(s, <<"intent", work[s].item>>)
  /\ Goto(s, "issue")
  /\ UNCHANGED <<now, rows, work>>

Live(a) == a.until > now

\* get_active_mandate_for_intent takes the first row of an unordered SELECT,
\* and no other one when the intent is too large or of another category.
InForce == {k \in DOMAIN mandates :
              mandates[k].status = "APPROVED" /\ now \in mandates[k].from..mandates[k].until}

\* Variant: an intent as large as the mandate allows is taken for too large.
Eligible_below(m, i) == Amount[i] < m.largest /\ i \in m.covers

Eligible(m, i) == Amount[i] <= m.largest /\ i \in m.covers

\* The limits an attempt of i may find: the smaller one under a mandate.
DailyLimits(i) ==
  {IF Eligible(mandates[k], i) /\ mandates[k].daily < DailyLimit
     THEN mandates[k].daily ELSE DailyLimit : k \in InForce}
  \cup (IF InForce = {} THEN {DailyLimit} ELSE {})

\* issue_capability: with a live capability the checkout finds its transaction
\* again, which cannot move to VALIDATING, and raises; otherwise it issues one.
issue_capability(s) ==
  LET i == work[s].item IN
  /\ pc[s] = "issue"
  /\ now <= IntentTTL
  /\ \A k \in DOMAIN attempts[i] :
       Live(attempts[i][k]) => can_transition(attempts[i][k].status, "VALIDATING")
  /\ \E limit \in DailyLimits(i) :
       work' = [work EXCEPT ![s].until = now + CapabilityTTL, ![s].limit = limit]
  /\ Goto(s, "reserve")
  /\ UNCHANGED <<now, rows, locks>>

Held(i) == budget[i].status = "RESERVED" /\ budget[i].until > now

HeldAmount == Total(Amount, {i \in Intents : Held(i)})

\* Variants: no advisory lock; a reservation in any status is taken as it is.
reserve_budget_unlocked(s) ==
  LET i == work[s].item IN
  /\ pc[s] = "reserve"
  /\ \/ budget[i].status = "RESERVED" /\ UNCHANGED locks
     \/ budget[i].status = "NONE" /\ HeldAmount + Amount[i] <= work[s].limit /\ Take(s, <<"budget", i>>)
  /\ Goto(s, "order")
  /\ UNCHANGED <<now, rows, work>>

reserve_budget_any_status(s) ==
  LET i == work[s].item IN
  /\ pc[s] = "reserve"
  /\ \/ budget[i].status # "NONE" /\ Take(s, BudgetLock)
     \/ /\ budget[i].status = "NONE"
        /\ HeldAmount + Amount[i] <= work[s].limit
        /\ Free(s, BudgetLock)
        /\ locks' = [locks EXCEPT ![s] = @ \cup {BudgetLock, <<"budget", i>>}]
  /\ Goto(s, "order")
  /\ UNCHANGED <<now, rows, work>>

\* reserve_budget, under the user's advisory lock: an existing reservation is
\* taken as it is, expired or not; a settled one makes the insert fail.
reserve_budget(s) ==
  LET i == work[s].item IN
  /\ pc[s] = "reserve"
  /\ \/ budget[i].status = "RESERVED" /\ Take(s, BudgetLock)
     \/ /\ budget[i].status = "NONE"
        /\ HeldAmount + Amount[i] <= work[s].limit
        /\ Free(s, BudgetLock)
        /\ locks' = [locks EXCEPT ![s] = @ \cup {BudgetLock, <<"budget", i>>}]
  /\ Goto(s, "order")
  /\ UNCHANGED <<now, rows, work>>

\* The provider answers create_order with an order, or the call raises.
OrderOutcomes == {"SUBMITTED", "UNKNOWN"}

\* The five transitions to EXECUTING, and create_order.
create_order(s) ==
  /\ pc[s] = "order"
  /\ \E outcome \in OrderOutcomes :
       /\ can_transition("EXECUTING", outcome)
       /\ work' = [work EXCEPT ![s].outcome = outcome]
  /\ Goto(s, "commit")
  /\ UNCHANGED <<now, rows, locks>>

\* The transaction of a new capability; its key is new, as the capability is.
create_transaction(w) == [status |-> w.outcome, until |-> w.until]

\* The session commits what it wrote.
CommitRequest(s) ==
  LET w == work[s]
      Wrote(table) == <<table, w.item>> \in locks[s]
  IN /\ pc[s] = "commit"
     /\ intent' = IF Wrote("intent") THEN [intent EXCEPT ![w.item] = w.outcome] ELSE intent
     /\ consent' = IF Wrote("consent")
                     THEN [consent EXCEPT ![w.item] = [status |-> "PENDING", until |-> w.until]]
                     ELSE consent
     /\ attempts' = IF w.outcome \in OrderOutcomes
                      THEN [attempts EXCEPT ![w.item] = Append(@, create_transaction(w))]
                      ELSE attempts
     /\ budget' = IF Wrote("budget")
                    THEN [budget EXCEPT ![w.item] = [status |-> "RESERVED", until |-> w.until]]
                    ELSE budget
     /\ EndRequest(s)
     /\ UNCHANGED <<now, mandates>>

-----------------------------------------------------------------------------
(* The user: decisions on a consent, cancellations of intents.             *)

\* approve_consent and reject_consent read the row and check that it is
\* pending, an approval also that it has not expired...
approve_consent(s, i) ==
  /\ consent[i].status = "PENDING" /\ consent[i].until >= now
  /\ Open(s, "APPROVED", i, "decide")
  /\ UNCHANGED <<now, rows, locks>>

reject_consent(s, i) ==
  /\ consent[i].status = "PENDING"
  /\ Open(s, "REJECTED", i, "decide")
  /\ UNCHANGED <<now, rows, locks>>

\* Variant: the approval stores the transaction's word for it.
WriteDecision_granted(s) ==
  /\ pc[s] = "decide"
  /\ consent' = [consent EXCEPT ![work[s].item].status =
                   IF work[s].kind = "APPROVED" THEN "CONSENT_GRANTED" ELSE work[s].kind]
  /\ EndRequest(s)
  /\ UNCHANGED <<now, intent, attempts, budget, mandates>>

\* ...and then update it by its key.
WriteDecision(s) ==
  /\ pc[s] = "decide"
  /\ consent' = [consent EXCEPT ![work[s].item].status = work[s].kind]
  /\ EndRequest(s)
  /\ UNCHANGED <<now, intent, attempts, budget, mandates>>

\* cancel_intent reads the status, then updates the row by its key.
cancel_intent(s, i) ==
  /\ intent[i] # "COMPLETED"
  /\ Open(s, "cancel", i, "cancel")
  /\ UNCHANGED <<now, rows, locks>>

WriteCancel(s) ==
  /\ pc[s] = "cancel"
  /\ Free(s, <<"intent", work[s].item>>)
  /\ intent' = [intent EXCEPT ![work[s].item] = "CANCELLED"]
  /\ EndRequest(s)
  /\ UNCHANGED <<now, consent, attempts, budget, mandates>>

\* cancel_all_intents is one UPDATE with the condition in its WHERE clause.
cancel_all_intents ==
  LET open == {i \in Intents : intent[i] \notin TerminalStatuses} IN
  /\ "cancel" \in Calls
  /\ \A i \in open, s \in Requests : <<"intent", i>> \notin locks[s]
  /\ intent' = [i \in Intents |-> IF i \in open THEN "CANCELLED" ELSE intent[i]]
  /\ UNCHANGED <<now, consent, attempts, budget, mandates, locks, pc, work>>

\* create_mandate, with the end the client gives it.
create_mandate(t, until) ==
  /\ "mandate" \in Calls
  /\ Len(mandates) < MaxMandates
  /\ t.largest > 0 /\ t.daily >= t.largest
  /\ mandates' = Append(mandates, [largest |-> t.largest, daily |-> t.daily, covers |-> t.covers,
                                   from |-> now, until |-> until, status |-> "APPROVED"])
  /\ UNCHANGED <<now, intent, consent, attempts, budget, locks, pc, work>>

\* revoke_mandate, whatever the mandate's state.
revoke_mandate(k) ==
  /\ mandates' = [mandates EXCEPT ![k].status = "REJECTED"]
  /\ UNCHANGED <<now, intent, consent, attempts, budget, locks, pc, work>>

-----------------------------------------------------------------------------
(* An attempt ends, while checkouts of its intent may be open.             *)

\* transition_transaction: the status, and the reservation if it still stands.
transition_transaction(i, k, outcome) ==
  /\ attempts' = [attempts EXCEPT ![i][k].status = outcome]
  /\ budget' = [budget EXCEPT ![i].status =
                  IF @ # "RESERVED" THEN @
                  ELSE IF outcome = "COMPLETED" THEN "SETTLED" ELSE "RELEASED"]

\* A webhook session settles a submitted attempt; it waits for the intent row,
\* which it updates last before it commits.
SettleAttempt(i, outcome) ==
  /\ \A s \in Requests : <<"intent", i>> \notin locks[s]
  /\ \E k \in DOMAIN attempts[i] :
       /\ can_transition(attempts[i][k].status, outcome)
       /\ transition_transaction(i, k, outcome)
  /\ intent' = [intent EXCEPT ![i] = outcome]
  /\ UNCHANGED <<now, consent, mandates, locks, pc, work>>

\* reconcile_unknown_payment settles an attempt whose order an operator found,
\* and neither waits for the intent row nor writes it.
reconcile_unknown_payment(i, outcome) ==
  /\ \E k \in DOMAIN attempts[i] :
       /\ can_transition(attempts[i][k].status, "VERIFYING")
       /\ can_transition("VERIFYING", outcome)
       /\ transition_transaction(i, k, outcome)
  /\ UNCHANGED <<now, intent, consent, mandates, locks, pc, work>>

Tick ==
  /\ now < MaxTime
  /\ now' = now + 1
  /\ UNCHANGED <<rows, locks, pc, work>>

RequestStep(s) ==
  \/ request_consent(s) \/ InsertConsent(s) \/ ParkIntent(s) \/ ApproveIntent(s)
  \/ issue_capability(s) \/ reserve_budget(s) \/ create_order(s) \/ CommitRequest(s)
  \/ WriteDecision(s) \/ WriteCancel(s)

Arrive(s, i) ==
  \/ validate_intent_for_execution(s, i) \/ request_consent_route(s, i)
  \/ approve_consent(s, i) \/ reject_consent(s, i) \/ cancel_intent(s, i)

Next ==
  \/ \E s \in Requests, i \in Intents : Arrive(s, i)
  \/ \E s \in Requests : RequestStep(s) \/ Raise(s)
  \/ \E i \in Intents, outcome \in {"COMPLETED", "FAILED"} :
       SettleAttempt(i, outcome) \/ reconcile_unknown_payment(i, outcome)
  \/ cancel_all_intents
  \/ \E t \in Terms, until \in 0..MaxTime : create_mandate(t, until)
  \/ \E k \in DOMAIN mandates : revoke_mandate(k)
  \/ Tick

Spec == Init /\ [][Next]_vars
=============================================================================
