# Verification of RazorGuard

RazorGuard lets software agents buy on behalf of a user. An agent proposes an
*intent*; the backend validates it against catalogue, policy and consent, issues
a one-time *capability*, creates a payment order at the provider, and settles
the *transaction* when the provider reports the outcome by webhook. This
directory holds TLA+ models of that backend, the TLC runs that check them and
TLAPS proofs about them. Paths below are relative to the repository's root;
`razorguard/` stands for `src/razorguard/`.

## The system

Every HTTP request and every Celery task runs in one PostgreSQL transaction at
READ COMMITTED (`infrastructure/database/session.py`), committed after the
endpoint returns. There are no explicit row locks: an UPDATE locks the row until
commit, two advisory locks (audit chain, user budget) serialise more, and unique
indexes decide races between inserts. A session reads each row once and its ORM
identity map does not refresh it. What happens between a read and the write that
depends on it is therefore where the system can go wrong, and what the models
are about.

| Component | State | Operations | Talks to | What makes it correct |
|---|---|---|---|---|
| State machine (`shared/enums.py`, `domain/intents/state_machine.py`) | none | `can_transition`, `validate_transition` | everybody who writes a status | terminal statuses have no successor; only listed transitions |
| Transitions (`application/transactions/transition_state.py`) | `transactions` | `create_transaction`, `transition_transaction` | budget, campaign, audit | a status follows a legal transition from the status it replaces; finality |
| Budget (`application/commerce/budget.py`) | `budget_reservations` | `reserve_budget`, `settle_budget_for_intent` | issue_capability, transitions | reservations that count stay within the limit; settled once |
| Campaign holds (`application/commerce/campaigns.py`) | `campaign_reservations`, `campaigns.total_uses` | reserve, settle, hourly janitor | create_intent, transitions, worker | every use counted once and given back once |
| Webhook intake (`interfaces/http/routes/webhooks.py`, `application/webhooks`) | `webhook_events` | deliver, deduplicate, dispatch, recover, retry | provider, transitions | an event takes effect once; nothing delivered is lost |
| Checkout (`application/payments/checkout_handoff.py`) | `intents.status` | `checkout_and_pay` | validation, policy, consent, capability, provider | one attempt at a time, within the budget, with consent |
| Capabilities (`application/authorization`) | `capabilities` | `issue_capability`, `consume_capability` | checkout, execute_payment | one live capability per intent, on the policy in force |
| Consent (`application/consent`) | `consents`, `checkout_quotes`, `mandates` | request, approve, reject, create and revoke a mandate | checkout, capability, user | asked once, decided once; spending under a mandate stays within it |
| Cancellation (`interfaces/http/routes/intents.py`) | `intents.status` | `cancel_intent`, `cancel_all_intents` | user | does not replace a final status |
| Intent creation (`application/intents`) | `intents`, campaign uses | `create_intent` | catalogue, campaigns, audit | the campaign cap; a positive amount |
| Buyer agent (`application/buyer_agent`, `infrastructure/llm`) | turns of a chat, in memory | `run_buyer_agent`, the tools, protocol ingestion | the model, create_intent | one purchase per message; only controlled proposals |
| Policy engine (`domain/policy`, `application/policy`) | none | `evaluate_policy`, the simulator | checkout | first deny wins, consent before approval, fails closed |
| Merchant administration (`application/merchant`) | `merchant_policies`, `campaigns` | configure, kill switch, create campaign | policy | one version in force, the one answered last |
| Direct execution (`application/payments/execute_payment.py`, `infrastructure/cache/locks.py`) | Redis lock | `execute_payment` | capability, transitions | refused unless bound to the policy in force |
| Reconciliation (`application/reconciliation`, `apps/worker`) | `reconciliation_jobs`, the task queue | sweep, reconcile | provider, transitions | an UNKNOWN payment gets the provider's outcome and no other |
| Audit (`application/audit`) | `audit_events` | `record_audit_event` | every writer | one chain without forks |
| Idempotency and rate limit (`interfaces/http/middleware`, `infrastructure/cache`) | Redis | per request | every endpoint | a repeated call runs once; the window is exact |
| Observability, HTTP plumbing, chaos routes, frontend, migrations | none of their own | | | |

Hard behaviours: sessions interleave at every statement; the provider delivers
events twice, late and out of order; sessions fail or die in the middle; lock
waits form cycles; Redis fails at any call; Celery runs a task again; holds,
capabilities, reservations, consents, mandates and intents expire under running
requests; the model answers with any list of calls. `PROJECT.json` lists each at
its line ("hazards").

## The modules

| Module | Models | Extends / composes |
|---|---|---|
| `TransactionStates` | the statuses and `LEGAL_TRANSITIONS` | |
| `LedgerSessions` | rows, locks and the steps of `transition_transaction`, `settle_budget_for_intent`, `settle_campaign_for_intent`, `record_audit_event` | `TransactionStates` |
| `Settlement` | webhook route, `process_webhook`, recovery, retry task, campaign janitor, the buyer's cancellation, deadlock detector, crashes | `LedgerSessions` |
| `EventInbox` | the abstract promise of intake | |
| `SettlementProperties` | properties, and `EventInbox` as an instance | `Settlement` |
| `SettlementProofs`, `SettlementOutcome` | type correctness and the refinement of `EventInbox`; what a settlement leaves of transactions, intents, budgets and uses | `SettlementProperties`, the second the first |
| `Reconciliation` | sweep, queue, workers, `reconcile_unknown`, jobs, the provider's payments | `LedgerSessions` |
| `ReconciliationProperties` | properties | `Reconciliation` |
| `ReconciliationProofs` | types, the provider's outcome, what a job tells, captures that stay | `ReconciliationProperties` |
| `Amounts` | `SUM` over rows, by counting units | |
| `Checkout` | `checkout_and_pay`, consent, mandates, cancellation, expiry, settlement by webhook and by reconciliation as one step each | `TransactionStates`, `Amounts` |
| `CheckoutContract` | the abstract promise: checkouts one at a time | |
| `CheckoutProperties` | properties, and `CheckoutContract` as an instance | `Checkout` |
| `CheckoutProofs` | types, one live capability, no reservation after a settlement, consents asked for, and once; the two limits; the refinement of `CheckoutContract` | `CheckoutProperties` |
| `IntentCreation` | `create_intent`, discounts, the cap, protocol adapters; how a failed payment and the janitor give a use back | |
| `BuyerAgent` | the chat loop and its tools, whose proposals are sessions of `IntentCreation` | `IntentCreation` |
| `BuyerAgentProperties` | properties of both | `BuyerAgent` |
| `BuyerAgentProofs` | all of them: the cap and the counter, one purchase, no lock while the model thinks | `BuyerAgentProperties` |
| `PolicyEngine` | the rules, the engine and the simulator, as operators | |
| `MerchantGate` | policy versions and switches against checkouts and direct executions | `PolicyEngine` |
| `MerchantGateProperties` | properties of both | `MerchantGate` |
| `MerchantGateProofs` | types, which policy versions are in force and which a capability rests on, the simulator | `MerchantGateProperties` |
| `Gateway` | idempotency middleware, rate limiter, endpoint's session, error handlers | |
| `GatewayProperties` | properties | `Gateway` |
| `GatewayProofs` | types, what is cached, what a retry runs again, the rate | `GatewayProperties` |
| `AuditTrail` | every kind of writer of the trail with its locks in order, deadlocks | |
| `AuditTrailProperties` | properties | `AuditTrail` |
| `AuditTrailProofs` | types, what a fork of the chain can come from, what a cycle of waits crosses | `AuditTrailProperties` |
| `MCSettlement`, `MCReconciliation`, `MCCheckout`, `MCBuyerAgent`, `MCMerchantGate`, `MCGateway`, `MCAuditTrail` | small instances | the properties |

A definition marked *Variant* is what a plausible mistake would make of the one
after it. No specification uses one; `PROJECT.json` ("mutants") pairs each with
the property it breaks.

**How a session is modelled.** `pc[s]` is the next statement of session `s`,
`work[s]` what it holds in memory, `locks[s]` the row and advisory locks it
owns. Committed rows change only in the commit step, where every row the session
locked takes the value it wrote; until then the others read the old value. An
UPDATE is `Take` of the row's lock, enabled when nobody else owns it. A rollback
forgets `work` and `locks`. An insert is `Take` of the index entry.

**Settlement.** `Deliver` is the deduplicating SELECT, `InsertEvent` the INSERT
with its wait on the unique index, `InsertConflict` the IntegrityError of the
loser, `HandleEvent` the SELECT of the transaction with the decision of
`_handle_event` on that copy, `FlushRow` to `MirrorIntent` the statements that
follow, `CommitWebhook` the commit. The version check of
`transition_transaction` compares a row with itself (its callers pass the
version they loaded in the same session) and so is no guard. `Recover` is the
second session of the route's exception handler; it stores neither the order nor
the transaction, so `retry_webhook_event` finds no transaction and only marks the
row. A capture that names no payment ("unnamed") settles without one; a
misquoted one changes nothing. The janitor (`StartSweep`, `SweepNext`,
`CommitSweep`) releases expired holds in one session. A hold expires
(`ExpireHold`) at any time. `cancel_intent` is the last writer of an intent's
status beside the webhooks here: its UPDATE by id overwrites any outcome, since
the one it refuses was looked for in an earlier read. Reconciliation has no part
in this module: it settles UNKNOWN payments, and these are SUBMITTED.

**Reconciliation** reuses the statements of `LedgerSessions`. Beat's sweep queues
a task per UNKNOWN transaction; `StartTask` is the worker's SELECT,
`_get_or_create_job` the job (two workers may each insert one, as there is no
unique index), `CountAttempt` the flushed attempt, `QueryAnswered` and
`QueryRetry` the provider's answers, `VerifyRow` the first transition, which the
same session completes with the second. A task is acknowledged after it ran:
`FailTask` drops it after an exception or has it delivered again when its worker
is lost. A checkout leaves an UNKNOWN transaction without an order id and no code
writes one later, so `RecordOrder` stands for the operator who does.

**Checkout.** Each request runs the statements of `checkout_and_pay` up to its
commit. Policy is an input (`NeedsConsent`). `create_order` stands for
`create_transaction`, the five transitions to EXECUTING and the call of the
provider, which answers or raises; all of it writes only rows nobody else can see
yet. Time is a counter; an intent, a capability, a reservation, a consent and a
mandate carry the time until which they hold. `issue_capability` reads the
mandate that covers the intent (`Eligible`), waits for the budget's advisory lock
and compares with the limit it read. A settlement is one step here, at its
commit; the steps inside are in Settlement and Reconciliation. A webhook's
(`SettleAttempt`) waits until no request holds the intent row it updates;
`reconcile_unknown_payment` waits for nothing and leaves the intent alone. That an
operator must have recorded the order id before (Reconciliation) is not asked here,
so it may come at any time. The audit advisory lock is in AuditTrail.

`CheckoutContract` has two steps per attempt: `Admit`, the step that looks at
everything at once and that `reserve_budget` is mapped to, and `Attempt`, the
commit. Between them the attempt is `admitted`, and only `Settled` and `Tick` may
come: a payment that reconciliation settles beside a checkout under way. It admits
what the code admits, an attempt beside an UNKNOWN payment whose capability lapsed
and one on a reservation that expired.

**IntentCreation and BuyerAgent.** `create_intent` is a SELECT with its checks and
the discount, the conditional UPDATE of the campaign's counter, the inserts, the
audit lock and the commit. A failed payment and Beat's janitor release a hold in
two steps each, `ReadHold` for the SELECT, which locks nothing, and `GiveBack` for
the two UPDATEs and the commit: both may have read a hold before either writes, and
requests take uses in between. `twice` counts, for the properties, the uses given
back for a hold that was RESERVED no more. Sessions that settle the same payment
wait for its transaction's row first, so one of them at a time is past it. The
janitor may commit after each hold, which allows more than the one commit of its
run. A protocol adapter turns an order into another one or
refuses it. In a chat the model answers with text or any list of calls up to
`MaxCalls`; a call is a tool that only reads, one that is forbidden, or a
proposal, which ends the loop if it succeeded. The product, amount and discount
come from the database, never from the model, so that a call carries no more than
the order.

**PolicyEngine and MerchantGate.** A context is a record of what the rules read,
`HARD_DENY_RULES` the registry in order, `_evaluate` the engine. In MerchantGate
`configure_merchant_policy` is a SELECT, an UPDATE that waits for the rows it hit
and looks at them again, and an INSERT; a switch is an earlier SELECT whose
settings it keeps. A checkout reads the policy, evaluates, reads the delegation
again and commits. `execute_payment` is modelled up to its revalidation, which
refuses every call.

**Gateway.** `Lookup`, `RunEndpoint`, `StoreResponse` are the middleware, with
`CallAgain` for the handler of any exception below it; `StampRequest` and
`check_rate_limit` are the limiter's time stamp and its script. `runs` counts what
the endpoint committed. `admitted` and `doubt` record history for the properties.

**AuditTrail.** `Program` gives the waits of each kind of writer in the order of
its statements; `record_audit_event` takes the advisory lock, picks the previous
event among those the session sees and inserts. An event stands for its row, its
`prev` for the hash it was chained to.

## The runs

Passing:

| Run | Instance | Checks |
|---|---|---|
| `settlement_rival` | two payments of one intent; a captured, a failed and a misquoted event of one and a capture of the other that names no payment, each delivered at most twice; two requests; the buyer's cancellation; one exception, one crash | `AppliedOnce` (implements `EventInbox`), `LegalUnlessStale`, `DeliveredIsSettled`, `CaptureIsNoted`, `MirrorAgrees`, `BudgetSettledOnce`, `UsesMatchHolds`, `TypeOK` |
| `settlement_sweep` | two intents on one campaign, two requests, the janitor, one exception; fairness | `NoUseIsLost`, `SessionsEnd`, `DeliveredIsRecorded` |
| `reconciliation` | one payment, two workers, two attempts, two queued tasks, one failed task; another intent on the campaign; fairness | `OutcomeIsProviders`, `JobTellsOutcome`, `CapturedStays`, `OrderedIsResolved`, `TypeOK` |
| `checkout_rival` | two requests, two intents that together exceed the limit, a mandate wider than the limit, two clock ticks; apart from them (`MCApart`) a gated intent with requests of any kind | `AtomicCheckout` (implements `CheckoutContract`), `ReservedWithinLimit`, `AskedOnce`, `ParkedWasAsked`, `TypeOK` |
| `checkout_mandate` | two intents within the delegation's limit, a mandate that only one of them fits | `CoveredWithinMandate`, `OneLiveCapability`, `ReservesUnsettled` |
| `buyer_agent` | two chats or direct requests, three intents, two calls in an answer, two iterations; one use of a campaign, a discount as large as the price; a failing payment and the janitor on every hold | `OffersWithinCap`, `UsesMatchHolds`, `AgentThinksUnlocked`, `TypeOK` |
| `merchant_gate` | three requests, three policy versions, an intent every rule admits and one above the consent threshold | `NewestInForce`, `IssuedInForce`, `SimulatorForesees`, `TypeOK` |
| `gateway` | two requests; a key without a body, one with, none; a limit of one in three ticks, a cache of two ticks | `CachedIsCommitted`, `RetryIsReplayed`, `WindowBounded`, `TypeOK` |
| `audit_trail` | two writers at a time of five kinds, three sessions, two events per checkout; fairness | `ForkIsDisorder`, `CyclesCrossAudit`, `SessionsEnd`, `TypeOK` |

`TypeOK` of MerchantGate, Gateway and AuditTrail also says that a closed session
holds nothing.

A violation, a claim of a document that the code does not keep:

| Run | Claim | What happens |
|---|---|---|
| `settlement_terminal` | terminal states cannot be reopened (`docs/architecture/payment-state-machine.md:29`) | of two sessions that read SUBMITTED, the later commit replaces COMPLETED by FAILED or the reverse |
| `checkout_unknown` | an UNKNOWN payment cannot be retried as a fresh payment (`docs/architecture/payment-state-machine.md:32`) | when its capability has lapsed, the next checkout of the intent makes another payment, on the same reservation |
| `campaign_cap` | concurrent requests cannot exceed a campaign's usage cap (`application/intents/create_intent.py:158`) | a failed payment and the janitor read one hold as RESERVED and both give its use back; another request took the use between them, so a third finds one more than there is |

**Bounds.** `MaxDeliveries`, `MaxErrors`, `MaxCrashes`, `MaxFaults`, `MaxQueued`,
`MaxTime`, `MaxTurns`, `MaxCalls`, `MaxMandates`, `MaxPolicies`, `MaxRuns`,
`MaxSkew`, `MaxStarts`, `Transitions`, `Quantities`, `Limits`, `Calls`, `Cancellable`
and the number of `Intents` of IntentCreation are the bounds. Two concurrent sessions suffice for the races on a row, each between one
reader and one writer; where a third actor matters (the janitor in deadlocks, a
checkout between two configurations) there are three. Settlement's `UsesMatchHolds`
is checked without a janitor, which would break it; `NoUseIsLost` with one.
Requests, and the intents of IntentCreation, are interchangeable (`MCSymmetry`).
`checkout_rival` does not mix payments with what needs consent: its constraint
`MCApart` leaves i3 alone once i1 or i2 is checked out, and the reverse, since an
intent that needs consent never reaches budget or capability; the proofs have no
such constraint. Two deliveries give a
duplicate during and after processing. Two ticks with lifetimes of one let
everything expire while a request runs and let a second capability follow the
first. Two attempts let one be used up by a late answer and the next see the
payment. Three policy versions are two changes of the seeded one, enough to
overlap each other and a checkout. Three ticks against a window of three and a skew of one
let a window pass. A checkout appends six events, but two already have ids that
sort either way. `CHECK_DEADLOCK FALSE` because every run can come to rest: all
events delivered, all intents settled, all versions made.

**Fairness.** Settlement: `SF` of every session's step, because the event loop, worker and
database go on and PostgreSQL queues waiters for a lock in order of arrival, so a
waiter is not overtaken forever; `WF` of `DeadlockVictim`: the detector breaks
every cycle after its timeout. AuditTrail assumes the same. Reconciliation: `WF`
of the sweep (Beat's schedule) and of every worker's step, `SF` of a task's start,
since a queue is served in order. Nothing is assumed of deliveries, errors,
crashes, expiry, payments, the operator, the retry task or the start of the
janitor. The other specifications state no fairness and only safety is checked of
them.

## The proofs

All proofs hold for any sets of sessions, transactions, intents and events and
any bounds, under named assumptions. Those of Settlement are `IntentOfAssumption`
(there is a transaction, intents are finitely many, each transaction has its
intent) and `SettlementAssumption` (requests and janitor runs are different
sessions, each event names a transaction and has a known kind).

* `TypeCorrect` (`SettlementProofs`): `TypeOK` is inductive. It is split into
  what is committed, what sessions hold and what intake adds; one lemma for each
  way a step touches them (`TakeType`, `EndSessionType`, `CommitRowsType`) and
  one for each group of actions.
* `IntakeExclusive` (`SettlementProofs`): the invariant behind `AppliedOnce`.
  No lock has two owners; a session past its insert owns its event's index entry
  and the entry is not yet in the table; only such a session owns the
  transaction's row; the status it carries is the one its event reports.
  `AppliedOnce` alone is not inductive: a commit records an event that nobody
  else recorded only because the index entry was held since the insert.
* `SettlementAppliesOnce` (`SettlementProofs`): with that invariant every
  commit is `Record` or `Apply` of `EventInbox`, the first recovery insert is
  `Record`, and every other step is a stutter.
* `BudgetOnce`, `MirrorCorrect`, `LegalTransitions`, `DeliverySettles`,
  `CapturesNoted` (`SettlementOutcome`): committed rows change in a commit or a
  cancellation only (`OnlyCommitsWrite`), so each needs what its session knows at
  the commit. `BudgetLocked`: a locked reservation is still RESERVED, because the
  lock was taken under that condition and has one owner. `Staged`: what a session
  has changed, legally, and which rows it owns at every stage between the
  transaction's row and the intent's. `SettledInv`: a session finds nothing to
  change only if its transaction is terminal, terminal is never left for an open
  status, and a FAILED inbox row names no transaction, so that what the retry marks
  is not taken for processed. `NotedInv`: a session that handles a capture has its
  payment in memory and owns the row, or found the payment there.
* `UsesAreReturned` (`SettlementOutcome`): `UseInv` says that the holds a session
  takes to release are at most those it gave a use back for and the one it is about
  to, unless no use was left to give. It is an inequality, as the second of two
  sessions that read the same hold gives a use back and takes no hold; its proof
  counts the union of what two commits release (`UnionBound`). It holds for any
  number of janitor runs.
* `ForksAreDisorder` (`AuditTrailProofs`, under `AuditTrailAssumption`): two
  events of the trail share their previous event only if one of them sorts before
  it. `ForkIsDisorder` speaks of committed events and is not inductive: a fork
  may be between a committed event and one that is about to be. `TrailInv` says
  that sessions began at different times in the past (`Dated`), that a session
  with uncommitted events owns the audit lock, which has one owner (`Locked`),
  and that the property holds of the trail and of the trail with the events of
  any one session. An append keeps it because the previous event is the last of
  all the session sees, and no other session has uncommitted events that it does
  not see.
* `AuditTypes`, `OnlyAuditCrosses` (`AuditTrailProofs`): `LockOrder` is the order
  in which writers lock until their first event, and `InOrder` says that the rest of
  a session's program keeps to it, after all it holds. A cycle of waits in which
  nobody holds the audit lock would have to follow that order all the way round;
  the order has no cycle, so one member holds the audit lock. The programs are
  checked once, when a session opens.

* `CheckoutTypes`, `OneCapabilityAtATime`, `ConsentWasAsked` (`CheckoutProofs`,
  under `CheckoutAssumption`: some intents, natural amounts and lifetimes): one
  invariant `CheckoutInv` carries all three. A request decides in one step and
  commits in a later one, so `SessionsOK` says what it still knows meanwhile: from
  `issue` on it holds the intent row; from `reserve` on no attempt of its intent is
  live; before it parks an intent the consent row exists or is its own. `Exclusive`
  (no lock has two owners) makes that stable under the others' steps. The budget
  row is inserted under the advisory lock, which is why it has one owner, too.
* `ReservesBeforeSettlement` (`CheckoutProofs`): `BudgetInv` says that an intent with
  an attempt has a reservation and one with a settled attempt has none that is
  RESERVED; `reserve_budget` goes on with a RESERVED row or, if there is none, with a
  first attempt. Reconciliation, which waits for nothing, ends attempt and
  reservation in one commit, so it cannot come between the two. The clock plays no
  part: an expired reservation or a lapsed capability changes nothing in the argument.
* `LimitIsKept`, `MandateIsKept` (`CheckoutProofs`): `Total` counts units, so that
  adding an intent to a set adds its amount (`FS_Union` of disjoint sets), and no
  induction over the set is needed. `SpendInv` says that the reservation a session
  inserts fits beside all that count (`SpendOK`): it holds the advisory lock from the
  sum to the commit, and nobody else's reservation starts to count meanwhile. For a
  mandate (`MandateOK`) it is the limit the session read before it waited that stays
  below the mandate's; the clock enters because only attempts that began after the
  mandate are covered.
* `CheckoutsAreAtomic` (`CheckoutProofs`): `reserve_budget` is `Admit` of
  `CheckoutContract`, the commit of an attempt is `Attempt`, a rollback after
  `reserve_budget` is `Withdraw`, a settlement's commit is `Settled`, a step of the
  clock is `Tick`, everything else stutters. The look for a live capability was an
  earlier step than `reserve_budget`; `CheckoutInv`, `BudgetInv` and `SpendInv` carry
  its outcome there. That at most one attempt is admitted is the advisory lock.
* `QuestionIsAskedOnce` (`CheckoutProofs`): `AskInv` says that who holds the index
  entry of a consent found no row, who decides a consent found one, and no row is
  ever removed.
* `CachesCommitted`, `RetriesAreReplayed` (`GatewayProofs`, under
  `GatewayAssumption`): a cached answer was held by a request before, so
  `CacheInv` says of a request that is about to store that its answer is one of a
  committed run. `ReplayInv` says of a key whose history has no overlap, fault or
  expiry (not in `doubt`) that at most one request works on it and that its run is
  in the cache or on its way there.
* `GatewayTypes`, `RateIsLimited` (`GatewayProofs`): the script removes from the
  sorted set by score and Redis drops all of it by expiry, so the set alone bounds
  nothing. `WindowKept` says that every admitted stamp younger than a window is still
  in it and that it does not expire before; a stretch that one more stamp would
  overfill is then visible to the script that admits it.
* `CapIsKept`, `CounterMatchesHolds`, `ThinksUnlocked`, `AgentTypes`
  (`BuyerAgentProofs`, under `IntentCreationAssumption`, whose intents are finitely
  many, and `BuyerAgentAssumption`): `OffersWithinCap` is not inductive, as it does
  not see the use a session took and has not committed. `SessionOK` says what a
  session at a step holds: before it locked a campaign nothing; then the campaign's
  row and one use, which fits into the cap beside the committed ones; after the
  insert one draft with that campaign. No second session counts on the same room,
  since the row has one owner (`Apart`). `RowsOK` says that the counter is at most
  the number of holds and short of it by at most `twice` (`CountOK`), and that an
  intent that may still be paid has a hold; a commit adds the use with the hold, and
  a give-back takes a use with the hold or raises `twice`. `ReturnsOK` says whose
  hold is being given back: a submitted payment's or an expired one. A chat asks the
  model, or runs a tool, only at steps where it holds nothing and has made no intent,
  and a proposal that succeeded ends it.
* `CapabilitiesInForce`, `NewestStaysInForce` (`MerchantGateProofs`, under
  `MerchantGateAssumption`: there are items and they have the fields of an intent,
  the seeded limit is one of the limits): `GateInv` says that what a request read is a version not
  older than those committed when it began (`ReadsHold`). A checkout reads the one
  current version; it is the newest, since an UPDATE deprecates only what was
  committed when it looked and the version its session inserts comes after.
* `GateTypes`, `SimulatorTells` (`MerchantGateProofs`): `TypeInv` adds the version
  numbers and that a closed session holds nothing. The simulator agrees with a
  checkout because each of the ten hard rules and the consent rule answers both
  contexts alike; the proof needs that no limit of the delegation is 0 and that the
  intent is in INR, which `SimulatorForesees` states.
* `OutcomesAreProviders`, `JobsTell`, `CapturesStay`, `ReconciliationTypes`
  (`ReconciliationProofs`, under `IntentOfAssumption` and `ReconciliationAssumption`):
  a worker writes an answer it got some steps before, over a row it read before
  that, so `ReconInv` says what a task in progress still knows (`TaskOK`). The
  provider's payments only grow, and whoever shares a job holds its row since before
  it asked, so that a FAILED on its way is older than a capture only where there are
  two jobs (`TaskOK`, with `Exclusive` for the locks and `ResolvedHasJob` for a
  task that finds no job). The types need `UsesCovered`: a session frees a use only
  while it holds the campaign's row.

Only model-checked: liveness under fairness (`SessionsEnd`, `DeliveredIsRecorded`,
`OrderedIsResolved`), which the prover does not treat, and `UsesMatchHolds` of
`Settlement`, which holds only where no janitor runs. Every other safety property of
a passing run is a theorem.

## Where the code departs from what is said of it

The models follow the code in all of this, and the properties say what holds
nevertheless.

* A failed delivery is preserved "for retry" (`routes/webhooks.py:88-89`), but its row
  names no transaction and the retry (`process_webhook.py:119-141`) marks it PROCESSED
  without applying it: the payment stays open. `DeliveredIsSettled` and
  `CaptureIsNoted` speak of events that their own delivery processed.
* A capture without a payment id completes the transaction and leaves no payment on
  it (`process_webhook.py:204`).
* An intent that is paid can be cancelled: `cancel_intent` overwrites whatever was
  written since its read (`routes/intents.py:176`), and a webhook overwrites that.
* The usage cap is "atomic" (`create_intent.py:158`), but a failed payment and the
  janitor can both select the hold as RESERVED and both give the use back
  (`campaigns.py:41`: the second UPDATE of the hold matches nothing, the counter is
  decreased all the same), and then one offer too many is made: `campaign_cap`. Two
  payments of one intent cannot: each settles the budget first, and the second
  waits there. A capture after the janitor released the hold is not counted
  either; the cap properties speak of offers until their holds expire.
* An UNKNOWN payment "cannot be retried as a fresh payment"
  (`payment-state-machine.md:32`), but a checkout after its capability expired makes
  one: `checkout_unknown`. Reconciliation settles a payment without the intent's row,
  so a checkout already past `reserve_budget` commits an attempt beside a settled one.
* "One open transaction per intent" (`models/transaction.py:4`), but a checkout
  after the capability expired opens a second one (`issue_capability.py:109`).
* Reservations prevent "concurrent capabilities from oversubscribing" the daily
  allowance (`budget.py:3-4`), but an expired reservation is used again for a new
  capability (`budget.py:22`) and no longer counts. A SETTLED one does not count either.
* A checkout "resumes after approval" (`routes/consent.py:97`), but it asks again
  and the unique index refuses (`request_consent.py:67`).
* Approval and rejection of one consent both succeed; the later commit stands
  (`approve_consent.py:91`).
* The audit chain forks, even within one checkout (`record_event.py:28`, against
  the comment above it); nothing verifies the chain.
* A configuration that overlaps another can leave two current versions; then
  `get_current_policy` raises and the merchant's checkouts are all refused. The
  kill switch copies the settings it read and drops a concurrent change.
* An intent above a mandate's limit per transaction is not covered by it and so
  escapes its daily limit; revoking a narrow mandate widens what may be spent.
* Two requests with one key that overlap both run. After any exception the
  middleware calls the endpoint again; with a body the second call waits for one
  that was read already.
* Two requests in one millisecond count once in the rate limiter.
* An UNKNOWN transaction without an order id is swept and its task ended for
  ever. Reconciliation does not update the intent's status, and two workers that
  start together jam the transaction's jobs.
* A direct execution is always refused: no code writes `merchant_policy_id`, so no
  capability is bound to the policy in force. The payment lock and
  `consume_capability` are behind that check.
* In every list of a policy an empty one admits everything; an override of 0 is
  ignored by the simulator (`evaluate_policy.py:187`), so that a delegation that asks
  about every amount, the default of `models/delegation.py:46`, is simulated with a
  threshold of 200000, and it refuses every currency but INR; the spending of a policy context is always 0.
* `max_uses_per_agent_per_day` and `max_discount_pct` of a campaign are not
  enforced; a discount as large as the price is refused. The hash that should find
  a duplicate intent contains the microsecond of its expiry.
* `expire_stale_intents` is called by nothing.

## What is not modelled, and the plan

Not modelled: prompting and parsing of the language model and its upsell
suggestions (data), cryptography (intent hash, capability signature, webhook
signature), logging, metrics and settings (no state a property depends on), HTTP
plumbing, the bodies of error responses, chaos routes, scripts, frontend,
migrations. `consume_capability` and the payment lock cannot be reached. Of the
provider's client only the answers are modelled.

Next:

1. a reference definition of the engine's answer, proved of `_evaluate`: the first
   failing rule of the registry denies, and nothing else does;
2. reconciliation and webhooks of one intent's payments in one specification, where
   `MirrorAgrees` gives way to what an intent may show of an UNKNOWN payment;
3. the one commit of a janitor run in IntentCreation, whose many holds make its
   counter change by more than one.
