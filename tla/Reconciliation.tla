--------------------------- MODULE Reconciliation ---------------------------
(***************************************************************************)
(* The reconciliation of UNKNOWN payments.  Beat runs a sweep that queues  *)
(* one task for every UNKNOWN transaction, Celery workers run the tasks    *)
(* (acknowledged late, so a lost worker's task runs again), and each task  *)
(* is one database session that asks the provider what became of the       *)
(* order.  Several tasks of one transaction run at once.                   *)
(*                                                                         *)
(* A checkout leaves an UNKNOWN transaction without an order id, and       *)
(* nothing in the program writes one later: RecordOrder is the operator.   *)
(***************************************************************************)
EXTENDS LedgerSessions, Sequences

CONSTANTS
  MaxAttempts,  \* MAX_RECONCILIATION_ATTEMPTS
  MaxQueued,    \* bound: tasks of one transaction in the queue
  MaxFaults    \* bound: tasks that end in an exception or with their worker

ASSUME ReconciliationAssumption == {MaxAttempts, MaxQueued, MaxFaults} \subseteq Nat \ {0}

VARIABLES
  ordered,    \* the transactions whose row has a razorpay_order_id
  provider,   \* what the provider holds for the order: the kinds of payments
  jobs,       \* committed reconciliation_jobs of every transaction
  queue,      \* tasks that wait in the reconciliation queue
  task,       \* the job each worker holds in memory
  faults      \* tasks that failed so far

ownVars == <<ordered, provider, jobs, queue, task, faults>>
vars == <<ledgerVars, ownVars>>

\* checkout writes UNKNOWN with its sixth transition, so at version 7.
UnknownRow == [status |-> "UNKNOWN", version |-> 7, paid |-> FALSE]

Job == [status : {"PENDING", "RESOLVED"}, attempts : Nat, outcome : {"NONE", "COMPLETED", "FAILED"}]
NewJob == [status |-> "PENDING", attempts |-> 0, outcome |-> "NONE"]

\* key is the job's place in jobs; 0 is a row this session inserts.
NoTask == [key |-> 0, attempts |-> 0]

Init ==
  /\ txn = [t \in Txns |-> UnknownRow]
  /\ intent = [i \in Intents |-> "UNKNOWN"]
  /\ budget = [i \in Intents |-> "RESERVED"]
  /\ hold = [i \in Intents |-> "RESERVED"]
  /\ uses = Cardinality(Intents)
  /\ locks = [s \in Sessions |-> {}]
  /\ pc = [s \in Sessions |-> "idle"]
  /\ work = [s \in Sessions |-> Blank]
  /\ ordered = {}
  /\ provider = [t \in Txns |-> {}]
  /\ jobs = [t \in Txns |-> <<>>]
  /\ queue = [t \in Txns |-> 0]
  /\ task = [s \in Sessions |-> NoTask]
  /\ faults = 0

-----------------------------------------------------------------------------
(* Outside the program.                                                    *)

RecordOrder(t) ==
  /\ t \notin ordered
  /\ ordered' = ordered \cup {t}
  /\ UNCHANGED <<ledgerVars, provider, jobs, queue, task, faults>>

\* The user's payments of the order; after a failed one he may try again.
UserPays(t, kind) ==
  /\ t \in ordered /\ provider[t] \cap {"captured", kind} = {}
  /\ provider' = [provider EXCEPT ![t] = @ \cup {kind}]
  /\ UNCHANGED <<ledgerVars, ordered, jobs, queue, task, faults>>

\* A webhook for an UNKNOWN transaction: the transition is illegal, so all it
\* leaves is the payment id.
NotePayment(t) ==
  /\ "captured" \in provider[t]
  /\ ~can_transition(txn[t].status, "COMPLETED")
  /\ ~txn[t].paid
  /\ \A s \in Sessions : <<"txn", t>> \notin locks[s]
  /\ txn' = [txn EXCEPT ![t].paid = TRUE]
  /\ UNCHANGED <<intent, budget, hold, uses, locks, pc, work, ownVars>>

-----------------------------------------------------------------------------
(* The sweep and the queue.                                                *)

sweep_unknown_payments ==
  LET unknown == {t \in Txns : txn[t].status = "UNKNOWN"} IN
  /\ \E t \in unknown : queue[t] < MaxQueued
  /\ queue' = [t \in Txns |-> IF t \in unknown /\ queue[t] < MaxQueued
                                THEN queue[t] + 1 ELSE queue[t]]
  /\ UNCHANGED <<ledgerVars, ordered, provider, jobs, task, faults>>

\* A worker runs a task: SELECT the transaction.  One that needs no answer, or
\* has no order to ask about, ends the task with nothing written.
StartTask(s, t) ==
  LET asks == txn[t].status \in {"UNKNOWN", "SUBMITTED"} /\ t \in ordered IN
  /\ pc[s] = "idle"
  /\ queue[t] > 0
  /\ queue' = [queue EXCEPT ![t] = @ - 1]
  /\ IF asks
       THEN /\ work' = [work EXCEPT ![s] = [txn |-> t, item |-> IntentOf[t],
                                            load |-> txn[t], row |-> txn[t], freed |-> 0]]
            /\ Goto(s, "job")
       ELSE UNCHANGED <<work, pc>>
  /\ UNCHANGED <<rows, locks, ordered, provider, jobs, task, faults>>

EndTask(s) ==
  /\ EndSession(s, "idle")
  /\ task' = [task EXCEPT ![s] = NoTask]

Pending(t) == {k \in DOMAIN jobs[t] : jobs[t][k].status = "PENDING"}

\* _get_or_create_job.  The table has no unique key on the transaction, so two
\* workers may both insert; with two pending rows scalar_one_or_none raises.
_get_or_create_job(s) ==
  LET t == work[s].txn IN
  /\ pc[s] = "job"
  /\ IF Cardinality(Pending(t)) = 0
       THEN task' = [task EXCEPT ![s] = NoTask]
       ELSE \E k \in Pending(t) :
              task' = [task EXCEPT ![s] = [key |-> k, attempts |-> jobs[t][k].attempts]]
  /\ Cardinality(Pending(t)) <= 1
  /\ task'[s].attempts < MaxAttempts
  /\ Goto(s, IF Pending(t) = {} THEN "query" ELSE "count")
  /\ UNCHANGED <<rows, locks, work, ordered, provider, jobs, queue, faults>>

\* The job is ambiguous or has used its attempts: the task ends without one.
GiveUp(s) ==
  LET t == work[s].txn IN
  /\ pc[s] = "job"
  /\ Cardinality(Pending(t)) > 1 \/ \E k \in Pending(t) : jobs[t][k].attempts >= MaxAttempts
  /\ EndTask(s)
  /\ UNCHANGED <<rows, ordered, provider, jobs, queue, faults>>

\* Variant: the attempt is written with the result, after the query.
CountAttempt_unflushed(s) ==
  /\ pc[s] = "count"
  /\ Goto(s, "query")
  /\ UNCHANGED <<rows, locks, work, ownVars>>

\* attempt_count += 1, flushed before the query: the UPDATE waits for the
\* worker that holds the row and keeps it while the provider is asked.
CountAttempt(s) ==
  /\ pc[s] = "count"
  /\ Take(s, <<"job", work[s].txn, task[s].key>>)
  /\ Goto(s, "query")
  /\ UNCHANGED <<rows, work, ownVars>>

\* Variant: an answer without a captured payment is a failure.
Outcome_no_capture_is_failed(answer) ==
  IF "captured" \in answer THEN {"COMPLETED"} ELSE {"FAILED"}

\* The analysis of the payments: captured wins, none leaves the row pending.
Outcome(answer) ==
  IF "captured" \in answer THEN {"COMPLETED"}
  ELSE IF "failed" \in answer THEN {"FAILED"} ELSE {}

\* Variant: the result is left to the next task.
QueryAnswered_verifying(s) ==
  /\ pc[s] = "query"
  /\ Outcome(provider[work[s].txn]) # {}
  /\ work' = [work EXCEPT ![s].row = Transitioned(@, "VERIFYING")]
  /\ Goto(s, "verify")
  /\ UNCHANGED <<rows, locks, ownVars>>

\* fetch_payments_for_order: an answer, on which the row goes to VERIFYING and
\* on to its outcome, or no answer or no payment and the task ends with its
\* attempt counted.
QueryAnswered(s) ==
  LET w == work[s] IN
  /\ pc[s] = "query"
  /\ \E outcome \in Outcome(provider[w.txn]) :
       work' = [work EXCEPT ![s].row =
                  [Transitioned(Transitioned(w.row, "VERIFYING"), outcome)
                     EXCEPT !.paid = @ \/ outcome = "COMPLETED"]]
  /\ can_transition(w.row.status, "VERIFYING")
  /\ Goto(s, "verify")
  /\ UNCHANGED <<rows, locks, ownVars>>

QueryRetry(s) ==
  /\ pc[s] = "query"
  /\ Goto(s, "commit")
  /\ UNCHANGED <<rows, locks, work, ownVars>>

\* The transition to VERIFYING: UPDATE by key without a version predicate...
VerifyRow(s) ==
  /\ pc[s] = "verify"
  /\ Take(s, <<"txn", work[s].txn>>)
  /\ Goto(s, "audit")
  /\ UNCHANGED <<rows, work, ownVars>>

\* ...then its audit event, before the second transition settles the budget.
ReconcileStep(s) ==
  /\ \/ LockAudit(s, "budget")
     \/ settle_budget_for_intent(s)
     \/ SelectHold(s, "commit")
     \/ UpdateHold(s, work[s].row.status = "COMPLETED", "commit")
     \/ FreeUse(s, "commit")
  /\ UNCHANGED ownVars

\* Variants: the attempt is counted only when the payment was resolved; the
\* whole job row is written back.
JobAfter_uncounted(job, resolved, outcome) ==
  [job EXCEPT !.attempts = IF resolved THEN @ + 1 ELSE @,
              !.status = IF resolved THEN "RESOLVED" ELSE @,
              !.outcome = IF resolved THEN outcome ELSE @]

JobAfter_whole_row(job, resolved, outcome) ==
  [job EXCEPT !.attempts = @ + 1,
              !.status = IF resolved THEN "RESOLVED" ELSE "PENDING",
              !.outcome = IF resolved THEN outcome ELSE "NONE"]

\* What the session's UPDATEs make of a job row; _mark_job_resolved.
JobAfter(job, resolved, outcome) ==
  [job EXCEPT !.attempts = @ + 1,
              !.status = IF resolved THEN "RESOLVED" ELSE @,
              !.outcome = IF resolved THEN outcome ELSE @]

\* The task's session commits, and the task is acknowledged.
CommitTask(s) ==
  LET w == work[s]
      t == w.txn
      resolved == w.row.status # w.load.status
      After(job) == JobAfter([job EXCEPT !.attempts = task[s].attempts], resolved,
                             IF resolved THEN w.row.status ELSE "NONE")
  IN /\ pc[s] = "commit"
     /\ CommitRows(s, w.row.status = "COMPLETED")
     /\ jobs' = [jobs EXCEPT ![t] =
                   IF task[s].key = 0
                     THEN Append(jobs[t], After(NewJob))
                     ELSE [jobs[t] EXCEPT ![task[s].key] = After(jobs[t][task[s].key])]]
     /\ EndTask(s)
     /\ UNCHANGED <<ordered, provider, queue, faults>>

\* The session rolls back: an exception (an illegal transition, a deadlock) drops
\* the task, which is not retried; the task of a lost worker is delivered again.
FailTask(s) ==
  /\ pc[s] # "idle"
  /\ faults < MaxFaults
  /\ faults' = faults + 1
  /\ \E redelivered \in {0, 1} : queue' = [queue EXCEPT ![work[s].txn] = @ + redelivered]
  /\ EndTask(s)
  /\ UNCHANGED <<rows, ordered, provider, jobs>>

WorkerStep(s) ==
  \/ \E t \in Txns : StartTask(s, t)
  \/ _get_or_create_job(s) \/ GiveUp(s) \/ CountAttempt(s)
  \/ QueryAnswered(s) \/ QueryRetry(s) \/ VerifyRow(s) \/ ReconcileStep(s) \/ CommitTask(s)

Next ==
  \/ \E t \in Txns : RecordOrder(t) \/ NotePayment(t)
  \/ \E t \in Txns, kind \in {"failed", "captured"} : UserPays(t, kind)
  \/ sweep_unknown_payments
  \/ \E s \in Sessions : WorkerStep(s) \/ FailTask(s)

\* Beat keeps sweeping, workers finish the tasks they take, and the queue is a
\* queue: a task in it is taken at last, whatever else is queued.
Fairness ==
  /\ WF_vars(sweep_unknown_payments)
  /\ \A s \in Sessions : WF_vars(WorkerStep(s))
  /\ \A t \in Txns : SF_vars(\E s \in Sessions : StartTask(s, t))

Spec == Init /\ [][Next]_vars /\ Fairness
=============================================================================
