--------------------------- MODULE IntentCreation ---------------------------
(***************************************************************************)
(* The creation of purchase intents at the catalog's price, and the uses   *)
(* of the merchants' campaigns they take: create_intent, the lifecycle of  *)
(* the hold it places, and the protocol adapters that lead to it.  Each    *)
(* request is one database session at READ COMMITTED.                      *)
(*                                                                         *)
(* A checkout is one step here; Checkout.tla has its sessions.  Settlement *)
(* has two where it gives a use back, the SELECT of the hold and the rest: *)
(* the janitor, another payment's end or a new request may come between.   *)
(***************************************************************************)
EXTENDS Integers, FiniteSets

CONSTANTS
  Requests,     \* HTTP requests that may be open at once
  Intents,      \* bound: the intent rows there is room for
  Products,     \* the products an agent may buy
  Price,        \* price_minor of every product
  MaxAmount,    \* MAX_AMOUNT_MINOR
  Quantities,   \* bound: the quantities asked for
  Campaigns,    \* the campaigns by code
  NoCampaign,   \* a request that names no code
  Percent,      \* the campaigns whose discount_type is PERCENTAGE
  Value,        \* discount_value of every campaign
  MaxDiscount,  \* max_discount_minor of every campaign, 0 for none
  Eligible,     \* the products every campaign is for
  MaxUses,      \* max_total_uses of every campaign
  IntentTTL,    \* INTENT_TTL_SECONDS, and the ten minutes of a hold
  Production,   \* whether app_env is production
  MaxTime       \* bound: the clock stops here

ASSUME IntentCreationAssumption ==
  /\ IsFiniteSet(Intents) /\ NoCampaign \notin Campaigns
  /\ Percent \subseteq Campaigns
  /\ Price \in [Products -> Nat \ {0}]
  /\ {Value, MaxDiscount, MaxUses} \subseteq [Campaigns -> Nat]
  /\ Eligible \in [Campaigns -> SUBSET Products]
  /\ Quantities \subseteq Nat \ {0}
  /\ {MaxAmount, IntentTTL, MaxTime} \subseteq Nat
  /\ Production \in BOOLEAN

VARIABLES
  now,      \* the clock
  uses,     \* committed total_uses of every campaign
  intent,   \* intent rows; a DRAFT is a row its session has not committed
  hold,     \* committed status of the campaign reservation of every intent
  returning, \* who read the hold of an intent as RESERVED to give its use back
  twice,    \* history: uses given back for holds that were RESERVED no more
  locks,    \* the row and advisory locks each request holds until it ends
  pc,       \* the step each request takes next
  work      \* what each request holds in memory

returns == <<returning, twice>>
rows == <<uses, intent, hold, returns>>
creationVars == <<now, rows, locks, pc, work>>

\* A row of intents, by the fields its campaign and its payment depend on.
IntentRow == [status : {"NONE", "DRAFT", "CREATED", "SUBMITTED", "COMPLETED", "FAILED"},
              amount : Nat, final : Nat, campaign : Campaigns \cup {NoCampaign}, until : Nat]

Absent == [status |-> "NONE", amount |-> 0, final |-> 0, campaign |-> NoCampaign, until |-> 0]

Order == [product : Products, quantity : Quantities, campaign : Campaigns \cup {NoCampaign}]

\* taken counts the uses this session's UPDATEs took, made its inserted rows.
Blank == [kind |-> "request", order |-> CHOOSE o \in Order : TRUE,
          taken |-> [c \in Campaigns |-> 0], made |-> {}]

InitRows ==
  /\ now = 0
  /\ uses = [c \in Campaigns |-> 0]
  /\ intent = [i \in Intents |-> Absent]
  /\ hold = [i \in Intents |-> "NONE"]
  /\ returning = {}
  /\ twice = [c \in Campaigns |-> 0]
  /\ locks = [s \in Requests |-> {}]
  /\ pc = [s \in Requests |-> "idle"]
  /\ work = [s \in Requests |-> Blank]

AuditLock == <<"audit", "chain">>

Free(s, r) == \A o \in Requests \ {s} : r \notin locks[o]

Take(s, r) ==
  /\ Free(s, r)
  /\ locks' = [locks EXCEPT ![s] = @ \cup {r}]

Goto(s, step) == pc' = [pc EXCEPT ![s] = step]

EndRequest(s) ==
  /\ Goto(s, "idle")
  /\ locks' = [locks EXCEPT ![s] = {}]
  /\ work' = [work EXCEPT ![s] = Blank]

\* A check, the database or the process fails: the session rolls back.
Rollback(s) ==
  /\ pc[s] # "idle"
  /\ intent' = [i \in Intents |-> IF i \in work[s].made THEN Absent ELSE intent[i]]
  /\ EndRequest(s)
  /\ UNCHANGED <<now, uses, hold, returns>>

-----------------------------------------------------------------------------
(* Amounts, in integer paise.                                              *)

Lesser(a, b) == IF a <= b THEN a ELSE b

CanonicalAmount(order) == Price[order.product] * order.quantity

\* The discount of a campaign on an amount, never more than the amount.
Discount(c, amount) ==
  IF c = NoCampaign THEN 0
  ELSE LET share == (amount * Value[c]) \div 100
           capped == IF MaxDiscount[c] = 0 THEN share ELSE Lesser(share, MaxDiscount[c])
       IN  Lesser(IF c \in Percent THEN capped ELSE Value[c], amount)

\* Variant: Money refuses a discount above the amount only.
subtract_discount_all(amount, discount) ==
  IF discount <= amount THEN {amount - discount} ELSE {}

\* Money.subtract_discount; no amount is the answer when it raises.
subtract_discount(amount, discount) ==
  IF discount < amount THEN {amount - discount} ELSE {}

-----------------------------------------------------------------------------
(* create_intent.                                                          *)

\* The amounts a Money can be made of; its constructor raises on others.
Money == 1..MaxAmount

\* The order agrees with the catalog, makes a Money and its code is eligible.
Acceptable(order) ==
  /\ CanonicalAmount(order) \in Money
  /\ order.campaign # NoCampaign => order.product \in Eligible[order.campaign]

\* The checks on agent, delegation, merchant, product, amount and campaign; any
\* that fails raises.  A request for an agent proposes an amount of its own.
create_intent(s, kind, order, proposed) ==
  /\ proposed = CanonicalAmount(order)
  /\ Acceptable(order)
  /\ work' = [work EXCEPT ![s].kind = kind, ![s].order = order]
  /\ Goto(s, IF order.campaign = NoCampaign THEN "insert" ELSE "campaign")
  /\ UNCHANGED <<now, rows, locks>>

create_intent_route(s, order, proposed) ==
  /\ pc[s] = "idle"
  /\ create_intent(s, "request", order, proposed)

Stubs == {"ACP", "AP2"}
Protocols == Stubs \cup {"RAZORGUARD", "UNKNOWN"}

\* The stub and unknown adapters carry no campaign code over.
WithoutCampaign(order) == [order EXCEPT !.campaign = NoCampaign]

to_create_intent_request(protocol, order) ==
  IF protocol = "RAZORGUARD" THEN order ELSE WithoutCampaign(order)

\* POST /protocols/{protocol}/intents; get_adapter blocks stubs in production.
ingest_protocol_intent(s, protocol, order, proposed) ==
  /\ pc[s] = "idle"
  /\ protocol \in Stubs => ~Production
  /\ create_intent(s, "request", to_create_intent_request(protocol, order), proposed)

\* Variant: the cap is read first and the use added without a condition.
TakeUse_read_then_add(s) ==
  LET c == work[s].order.campaign IN
  /\ pc[s] = "campaign"
  /\ uses[c] < MaxUses[c]
  /\ work' = [work EXCEPT ![s].taken[c] = @ + 1]
  /\ Goto(s, "insert")
  /\ UNCHANGED <<now, rows, locks>>

\* UPDATE campaigns SET total_uses + 1 WHERE total_uses < max_total_uses: it
\* waits for the row and sees what the other session committed.
TakeUse(s) ==
  LET c == work[s].order.campaign IN
  /\ pc[s] = "campaign"
  /\ Take(s, <<"campaign", c>>)
  /\ uses[c] + work[s].taken[c] < MaxUses[c]
  /\ work' = [work EXCEPT ![s].taken[c] = @ + 1]
  /\ Goto(s, "insert")
  /\ UNCHANGED <<now, rows>>

\* Money.subtract_discount may still raise; then INSERT the intent, and the
\* hold of its campaign.
InsertIntent(s) ==
  LET order == work[s].order
      amount == CanonicalAmount(order)
  IN /\ pc[s] = "insert"
     /\ \E i \in Intents, final \in subtract_discount(amount, Discount(order.campaign, amount)) :
          /\ intent[i] = Absent
          /\ intent' = [intent EXCEPT ![i] =
                          [status |-> "DRAFT", amount |-> amount, final |-> final,
                           campaign |-> order.campaign, until |-> now + IntentTTL]]
          /\ work' = [work EXCEPT ![s].made = @ \cup {i}]
     /\ Goto(s, "audit")
     /\ UNCHANGED <<now, uses, hold, returns, locks>>

\* record_audit_event, the last statement of create_intent.
LockAudit(s) ==
  /\ pc[s] = "audit"
  /\ Take(s, AuditLock)
  /\ Goto(s, IF work[s].kind = "chat" THEN "proposed" ELSE "commit")
  /\ UNCHANGED <<now, rows, work>>

\* The intents of the session that hold a use of a campaign, one hold each.
reserve_campaign(s) == {i \in work[s].made : intent[i].campaign # NoCampaign}

CommitRequest(s) ==
  /\ pc[s] = "commit"
  /\ uses' = [c \in Campaigns |-> uses[c] + work[s].taken[c]]
  /\ intent' = [i \in Intents |-> IF i \in work[s].made
                                    THEN [intent[i] EXCEPT !.status = "CREATED"] ELSE intent[i]]
  /\ hold' = [i \in Intents |-> IF i \in reserve_campaign(s) THEN "RESERVED" ELSE hold[i]]
  /\ EndRequest(s)
  /\ UNCHANGED <<now, returns>>

-----------------------------------------------------------------------------
(* The life of an intent and its hold.                                     *)

\* A checkout submits the payment, while the intent has not expired.
SubmitPayment(i) ==
  /\ intent[i].status = "CREATED"
  /\ now <= intent[i].until
  /\ intent' = [intent EXCEPT ![i].status = "SUBMITTED"]
  /\ UNCHANGED <<now, uses, hold, returns, locks, pc, work>>

(* settle_campaign_for_intent, by the session that settles the payment and  *)
(* by Beat's janitor.  Sessions that settle one payment meet at its row of  *)
(* transactions before they read the hold: one of them is past it at a time.*)
(* The janitor is one task and settles one hold after the other; the model  *)
(* lets it commit each, where the code commits all of a run together.       *)

Settlers == {"payment", "janitor"}

\* The payment is captured: UPDATE ... SET status = CONSUMED WHERE RESERVED.
CapturePayment(i) ==
  /\ intent[i].status = "SUBMITTED"
  /\ <<"payment", i>> \notin returning
  /\ intent' = [intent EXCEPT ![i].status = "COMPLETED"]
  /\ hold' = [hold EXCEPT ![i] = IF @ = "RESERVED" THEN "CONSUMED" ELSE @]
  /\ UNCHANGED <<now, uses, returns, locks, pc, work>>

\* The payment fails and the SELECT finds no hold that is RESERVED.
FailPayment(i) ==
  /\ intent[i].status = "SUBMITTED"
  /\ <<"payment", i>> \notin returning
  /\ hold[i] # "RESERVED"
  /\ intent' = [intent EXCEPT ![i].status = "FAILED"]
  /\ UNCHANGED <<now, uses, hold, returns, locks, pc, work>>

\* Whose turn it is: a failed payment's, or that of the janitor's run.
MaySettle(by, i) ==
  IF by = "payment" THEN intent[i].status = "SUBMITTED"
  ELSE intent[i].until <= now /\ \A j \in Intents : <<"janitor", j>> \notin returning

\* The SELECT finds the hold RESERVED; nothing is locked by it.
ReadHold(by, i) ==
  /\ hold[i] = "RESERVED"
  /\ MaySettle(by, i)
  /\ returning' = returning \cup {<<by, i>>}
  /\ UNCHANGED <<now, uses, intent, hold, twice, locks, pc, work>>

\* Variant: the hold's UPDATE is forgotten.
GiveBack_keeps_hold(by, i) ==
  LET c == intent[i].campaign IN
  /\ <<by, i>> \in returning
  /\ \A s \in Requests : <<"campaign", c>> \notin locks[s]
  /\ uses' = [uses EXCEPT ![c] = IF @ > 0 THEN @ - 1 ELSE 0]
  /\ intent' = [intent EXCEPT ![i].status = IF by = "payment" THEN "FAILED" ELSE @]
  /\ returning' = returning \ {<<by, i>>}
  /\ UNCHANGED <<now, hold, twice, locks, pc, work>>

\* UPDATE the hold WHERE RESERVED, UPDATE total_uses - 1 WHERE total_uses > 0 once
\* the campaign's row is free, whatever the first matched, and COMMIT.
GiveBack(by, i) ==
  LET c == intent[i].campaign IN
  /\ <<by, i>> \in returning
  /\ \A s \in Requests : <<"campaign", c>> \notin locks[s]
  /\ uses' = [uses EXCEPT ![c] = IF @ > 0 THEN @ - 1 ELSE 0]
  /\ hold' = [hold EXCEPT ![i] = IF @ = "RESERVED" THEN "RELEASED" ELSE @]
  /\ twice' = [twice EXCEPT ![c] = IF hold[i] = "RESERVED" THEN @ ELSE @ + 1]
  /\ intent' = [intent EXCEPT ![i].status = IF by = "payment" THEN "FAILED" ELSE @]
  /\ returning' = returning \ {<<by, i>>}
  /\ UNCHANGED <<now, locks, pc, work>>

\* The settling session fails after its SELECT.
SettlerRollback(by, i) ==
  /\ <<by, i>> \in returning
  /\ returning' = returning \ {<<by, i>>}
  /\ UNCHANGED <<now, uses, intent, hold, twice, locks, pc, work>>

Tick ==
  /\ now < MaxTime
  /\ now' = now + 1
  /\ UNCHANGED <<rows, locks, pc, work>>

CreateStep(s) == TakeUse(s) \/ InsertIntent(s) \/ LockAudit(s) \/ CommitRequest(s)

Arrive(s) ==
  \E order \in Order : \E proposed \in {CanonicalAmount(order), 1} :
    \/ create_intent_route(s, order, proposed)
    \/ \E protocol \in Protocols : ingest_protocol_intent(s, protocol, order, proposed)

Lifecycle ==
  \/ \E i \in Intents : SubmitPayment(i) \/ CapturePayment(i) \/ FailPayment(i)
  \/ \E by \in Settlers, i \in Intents :
       ReadHold(by, i) \/ GiveBack(by, i) \/ SettlerRollback(by, i)
  \/ Tick
=============================================================================
