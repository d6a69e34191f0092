---------------------- MODULE ReconciliationProperties ----------------------
(***************************************************************************)
(* What reconciliation guarantees of the payments it asks about.           *)
(***************************************************************************)
EXTENDS Reconciliation

Steps == {"idle", "job", "count", "query", "verify", "audit", "budget", "select", "hold",
          "free", "commit"}

\* Rows, jobs, tasks and sessions have the shape of their tables and objects,
\* and no committed row is left VERIFYING.
TypeOK ==
  /\ txn \in [Txns -> {r \in Row : r.status \in {"UNKNOWN", "COMPLETED", "FAILED"}}]
  /\ intent \in [Intents -> TransactionStatus]
  /\ budget \in [Intents -> {"RESERVED", "SETTLED", "RELEASED"}]
  /\ hold \in [Intents -> {"RESERVED", "CONSUMED", "RELEASED"}]
  /\ uses \in Nat
  /\ pc \in [Sessions -> Steps]
  /\ ordered \subseteq Txns
  /\ provider \in [Txns -> SUBSET {"failed", "captured"}]
  /\ jobs \in [Txns -> Seq(Job)]
  /\ queue \in [Txns -> Nat]
  /\ task \in [Sessions -> [key : Nat, attempts : Nat]]
  /\ faults \in 0..MaxFaults

\* UNKNOWN is never taken for FAILED: a transaction gets the outcome of a
\* payment the provider has, and silence, a timeout or an order nobody paid yet
\* ends nothing.
OutcomeIsProviders ==
  \A t \in Txns :
    /\ txn[t].status = "COMPLETED" => "captured" \in provider[t]
    /\ txn[t].status = "FAILED" => "failed" \in provider[t]

\* The workers that share a job ask the provider one after the other, since the
\* attempt is flushed before the question: only where two workers each made a
\* job can an older answer replace COMPLETED.
CapturedStays ==
  [][\A t \in Txns : txn[t].status = "COMPLETED" /\ Len(jobs'[t]) = 1
       => txn'[t].status = "COMPLETED"]_vars

\* While a transaction has one job, the job tells what became of the payment,
\* however many tasks asked, failed or ran again.
JobTellsOutcome ==
  \A t \in Txns : Len(jobs[t]) = 1 =>
    jobs[t][1].outcome = IF txn[t].status = "UNKNOWN" THEN "NONE" ELSE txn[t].status

Exhausted(t) == \E k \in DOMAIN jobs[t] : jobs[t][k].attempts >= MaxAttempts
Jammed(t) == Cardinality(Pending(t)) > 1

\* An UNKNOWN payment whose order is known is resolved, has used its attempts,
\* or is stuck behind two jobs made at once.
OrderedIsResolved ==
  \A t \in Txns :
    t \in ordered ~> (txn[t].status # "UNKNOWN" \/ Exhausted(t) \/ Jammed(t))
=============================================================================
