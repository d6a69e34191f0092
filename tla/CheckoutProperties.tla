------------------------- MODULE CheckoutProperties -------------------------
(***************************************************************************)
(* What checkout guarantees.                                               *)
(***************************************************************************)
EXTENDS Checkout

Resources == ({"intent", "consent", "budget"} \X Intents) \cup {BudgetLock}

Steps == {"idle", "consent", "ask", "park", "approve", "issue", "reserve", "order",
          "commit", "decide", "cancel"}

\* Every row, lock and request has the shape its table or object gives it.
TypeOK ==
  /\ now \in Nat
  /\ intent \in [Intents -> TransactionStatus]
  /\ consent \in [Intents -> [status : {"NONE", "PENDING", "APPROVED", "REJECTED"}, until : Nat]]
  /\ attempts \in [Intents -> Seq([status : TransactionStatus, until : Nat])]
  /\ budget \in [Intents -> [status : {"NONE", "RESERVED", "SETTLED", "RELEASED"}, until : Nat]]
  /\ mandates \in Seq(Mandate)
  /\ locks \in [Requests -> SUBSET Resources]
  /\ pc \in [Requests -> Steps]
  /\ work \in [Requests -> [kind : Kinds, item : Intents, until : Nat, limit : Nat,
                         outcome : TransactionStatus]]

\* A request that issued a capability and has not committed it.
Issuing(step, w) ==
  step \in {"reserve", "order"} \/ (step = "commit" /\ w.outcome \in OrderOutcomes)

\* A request that has its reservation too, and makes its order.
Ordering(s) == pc[s] = "order" \/ (pc[s] = "commit" /\ work[s].outcome \in OrderOutcomes)

\* What the requests that make their orders would leave behind.
Admitted == {[item |-> work[s].item, until |-> work[s].until] : s \in {r \in Requests : Ordering(r)}}

\* Concurrent checkouts are as good as checkouts one at a time: one attempt is
\* under way at most, and it was admitted in a single step that found the
\* intent's capabilities lapsed, none of its payments settled, and a reservation
\* of the intent or room for one, although requests read all this at different
\* times.
Contract == INSTANCE CheckoutContract WITH admitted <- Admitted
AtomicCheckout == Contract!Spec

\* An intent never has two live capabilities, the one of a checkout that has
\* not committed yet included.
OneLiveCapability ==
  \A i \in Intents :
    LET uncommitted == {s \in Requests : work[s].item = i /\ Issuing(pc[s], work[s])
                                          /\ work[s].until > now}
    IN  Cardinality(uncommitted) + Cardinality({k \in DOMAIN attempts[i] : Live(attempts[i][k])}) <= 1

\* No checkout gets past reserve_budget once a payment of its intent is settled,
\* by webhook or by reconciliation, although it may have begun before.  (One
\* that is already past it commits its attempt after a reconciliation.)
ReservesUnsettled ==
  [][\A s \in Requests :
       pc[s] = "reserve" /\ pc'[s] = "order" =>
         \A k \in DOMAIN attempts[work[s].item] :
           attempts[work[s].item][k].status \notin TerminalStatuses]_vars

\* What docs/architecture/payment-state-machine.md says of an UNKNOWN payment:
\* it cannot be retried as a fresh payment.
UnknownNotRetried ==
  [][\A i \in Intents :
       (\E k \in DOMAIN attempts[i] : attempts[i][k].status = "UNKNOWN")
         => Len(attempts'[i]) = Len(attempts[i])]_vars

\* The reservations that count never exceed the limit, however many checkouts
\* of the user's intents reserve at the same time.
ReservedWithinLimit == HeldAmount <= DailyLimit

\* What a mandate covers and counts now, reserved by attempts that began after it.
HeldSince(m) ==
  {i \in Intents : /\ i \in m.covers /\ Amount[i] <= m.largest
                   /\ Held(i) /\ budget[i].until > m.from + CapabilityTTL}

\* The intents the only mandate covers stay within its daily limit as long as it
\* is in force since before their attempts began, although each request reads
\* the mandate before it waits for the budget.
CoveredWithinMandate ==
  \A k \in InForce :
    Len(mandates) = 1 => Total(Amount, HeldSince(mandates[k])) <= mandates[k].daily

\* The user is asked once about an intent: whoever asks again, and whenever,
\* the question keeps its expiry and a decision never turns into a question.
AskedOnce ==
  [][\A i \in Intents : consent[i].status # "NONE" =>
       /\ consent'[i].until = consent[i].until
       /\ consent'[i].status = "PENDING" => consent[i].status = "PENDING"]_vars

\* No intent waits for a consent nobody was asked for: what a checkout reads of
\* the consent and what it writes to the intent commit together.
ParkedWasAsked ==
  \A i \in Intents : intent[i] = "AWAITING_CONSENT" => consent[i].status # "NONE"
=============================================================================
