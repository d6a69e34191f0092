------------------------ MODULE ReconciliationProofs ------------------------
(***************************************************************************)
(* What reconciliation writes, for any number of workers, transactions,    *)
(* attempts, queued tasks and faults.                                      *)
(*                                                                         *)
(* A worker writes an answer it got some steps before, over a row it read  *)
(* before that.  TaskOK says what a task in progress still knows: the      *)
(* provider's payments only grow, and a worker that shares its job with    *)
(* others holds the job's row since before it asked.                       *)
(***************************************************************************)
EXTENDS ReconciliationProperties, FiniteSetTheorems, TLAPS

Outcomes == {"COMPLETED", "FAILED"}

WorkType == [txn : Txns, item : Intents, load : Row, row : Row, freed : Nat]

TaskType == [key : Nat, attempts : Nat]

\* The part of the type invariant the proofs need.
Shape ==
  /\ txn \in [Txns -> {r \in Row : r.status \in {"UNKNOWN"} \cup Outcomes}]
  /\ provider \in [Txns -> SUBSET {"failed", "captured"}]
  /\ jobs \in [Txns -> Seq(Job)]
  /\ pc \in [Sessions -> Steps]
  /\ work \in [Sessions -> WorkType]
  /\ task \in [Sessions -> TaskType]
  /\ locks = [s \in Sessions |-> locks[s]]

\* A task that has sent the update of the transaction's row.
Resolving(step, w) ==
  step \in {"audit", "budget", "select", "hold", "free"} \/ (step = "commit" /\ w.row.status \in Outcomes)

\* What a worker at a step knows of the rows and has locked.
TaskOK(step, w, held, tk) ==
  /\ \A t \in Txns : <<"txn", t>> \in held => t = w.txn
  /\ Resolving(step, w) => <<"txn", w.txn>> \in held
  /\ step # "idle" => w.load.status = "UNKNOWN" /\ w.row.status \in {"UNKNOWN"} \cup Outcomes
  /\ step \in {"job", "count", "query"} => w.row.status = "UNKNOWN"
  /\ step = "verify" \/ Resolving(step, w) => w.row.status \in Outcomes
  /\ w.row.status = "COMPLETED" => "captured" \in provider[w.txn]
  /\ w.row.status = "FAILED" => "failed" \in provider[w.txn]
  /\ step = "idle" => tk = NoTask /\ held = {}
  /\ step # "job" => tk.key \in 0..Len(jobs[w.txn])
  /\ step \notin {"job", "count"} /\ tk.key # 0 => <<"job", w.txn, tk.key>> \in held
  /\ w.row.status = "FAILED" /\ tk.key # 0 =>
       txn[w.txn].status # "COMPLETED" \/ Len(jobs[w.txn]) >= 2

TasksOK == \A s \in Sessions : TaskOK(pc[s], work[s], locks[s], task[s])

\* No lock has two owners.
Exclusive == \A s \in Sessions : \A o \in Sessions \ {s} : locks[s] \cap locks[o] = {}

\* Whoever resolved a transaction left a job.
ResolvedHasJob == \A t \in Txns : jobs[t] = <<>> => txn[t].status = "UNKNOWN"

ReconInv == Shape /\ TasksOK /\ Exclusive /\ ResolvedHasJob /\ OutcomeIsProviders /\ JobTellsOutcome

-----------------------------------------------------------------------------
LEMMA Statuses == {"UNKNOWN", "SUBMITTED", "VERIFYING", "COMPLETED", "FAILED"} \subseteq TransactionStatus
  BY DEF TransactionStatus, TerminalStatuses

LEMMA BlankIsWork == Blank \in WorkType /\ Blank.row.status = "SUBMITTED"
<1>1. SubmittedRow \in Row
  BY Statuses DEF SubmittedRow, Row
<1>2. (CHOOSE t \in Txns : TRUE) \in Txns /\ (CHOOSE i \in Intents : TRUE) \in Intents
  BY IntentOfAssumption
<1> QED
  BY <1>1, <1>2 DEF Blank, WorkType, SubmittedRow

LEMMA IdleIsOK ==
  ASSUME \A t \in Txns : Len(jobs[t]) \in Nat PROVE TaskOK("idle", Blank, {}, NoTask)
<1>1. ~Resolving("idle", Blank)
  BY DEF Resolving
<1>2. NoTask.key = 0 /\ Blank.txn \in Txns
  BY BlankIsWork DEF NoTask, WorkType
<1> QED
  BY <1>1, <1>2, BlankIsWork DEF TaskOK

LEMMA ReconInit == Init => ReconInv
<1> SUFFICES ASSUME Init PROVE ReconInv
  OBVIOUS
<1>1. UnknownRow \in Row /\ UnknownRow.status = "UNKNOWN"
  BY Statuses DEF UnknownRow, Row
<1>2. Shape
  BY <1>1, BlankIsWork DEF Init, Shape, Steps, NoTask, TaskType
<1>3. TasksOK
  BY IdleIsOK DEF Init, TasksOK
<1>4. Exclusive /\ ResolvedHasJob /\ OutcomeIsProviders /\ JobTellsOutcome
  BY <1>1 DEF Init, Exclusive, ResolvedHasJob, OutcomeIsProviders, JobTellsOutcome
<1> QED
  BY <1>2, <1>3, <1>4 DEF ReconInv

LEMMA AtHome ==
  ASSUME ReconInv, NEW s \in Sessions
  PROVE  /\ pc[s] \in Steps /\ work[s] \in WorkType /\ work[s].txn \in Txns /\ task[s] \in TaskType
         /\ TaskOK(pc[s], work[s], locks[s], task[s])
         /\ \A o \in Sessions \ {s} : locks[s] \cap locks[o] = {}
         /\ jobs[work[s].txn] \in Seq(Job) /\ txn[work[s].txn] \in Row
  BY DEF ReconInv, Shape, WorkType, TasksOK, Exclusive

\* A worker goes on and nothing is committed.
LEMMA GoOn ==
  ASSUME ReconInv, NEW s \in Sessions, NEW step \in Steps, NEW w \in WorkType, NEW held,
         NEW tk \in TaskType, TaskOK(step, w, held, tk),
         \A o \in Sessions \ {s} : held \cap locks[o] = {},
         pc' = [pc EXCEPT ![s] = step], work' = [work EXCEPT ![s] = w],
         locks' = [locks EXCEPT ![s] = held], task' = [task EXCEPT ![s] = tk],
         txn' = txn, jobs' = jobs, provider' = provider
  PROVE  ReconInv'
<1> USE DEF ReconInv
<1>1. Shape'
  BY DEF Shape
<1>2. TasksOK'
  <2> SUFFICES ASSUME NEW o \in Sessions PROVE TaskOK(pc[o], work[o], locks[o], task[o])'
    BY DEF TasksOK
  <2>1. CASE o = s
    <3>1. pc'[o] = step /\ work'[o] = w /\ locks'[o] = held /\ task'[o] = tk
      BY <2>1 DEF Shape
    <3> QED
      BY <3>1 DEF TaskOK, Resolving
  <2>2. CASE o # s
    <3>1. pc'[o] = pc[o] /\ work'[o] = work[o] /\ locks'[o] = locks[o] /\ task'[o] = task[o]
      BY <2>2 DEF Shape
    <3>2. TaskOK(pc[o], work[o], locks[o], task[o])
      BY DEF TasksOK
    <3> HIDE DEF ReconInv
    <3> QED
      BY <3>1, <3>2 DEF TaskOK, Resolving
  <2> QED
    BY <2>1, <2>2
<1>3. Exclusive'
  <2> SUFFICES ASSUME NEW p \in Sessions, NEW o \in Sessions \ {p} PROVE locks'[p] \cap locks'[o] = {}
    BY DEF Exclusive
  <2>1. locks'[s] = held /\ \A x \in Sessions \ {s} : locks'[x] = locks[x]
    BY DEF Shape
  <2> QED
    BY <2>1 DEF Exclusive
<1>4. ResolvedHasJob' /\ OutcomeIsProviders' /\ JobTellsOutcome'
  BY DEF ResolvedHasJob, OutcomeIsProviders, JobTellsOutcome
<1> QED
  BY <1>1, <1>2, <1>3, <1>4

\* A step of nobody's task.
LEMMA Beside ==
  ASSUME ReconInv, UNCHANGED <<pc, work, locks, task, jobs>>, Shape',
         \A t \in Txns : txn'[t].status = txn[t].status /\ provider[t] \subseteq provider'[t]
  PROVE  ReconInv'
<1> USE DEF ReconInv
<1>1. TasksOK'
  <2> SUFFICES ASSUME NEW o \in Sessions PROVE TaskOK(pc[o], work[o], locks[o], task[o])'
    BY DEF TasksOK
  <2>1. TaskOK(pc[o], work[o], locks[o], task[o]) /\ work[o].txn \in Txns
    BY AtHome
  <2> QED
    BY <2>1 DEF TaskOK, Resolving
<1>2. Exclusive' /\ ResolvedHasJob' /\ OutcomeIsProviders' /\ JobTellsOutcome'
  BY DEF Exclusive, ResolvedHasJob, OutcomeIsProviders, JobTellsOutcome
<1> QED
  BY <1>1, <1>2

LEMMA Outside ==
  ASSUME ReconInv, NEW t \in Txns,
         RecordOrder(t) \/ NotePayment(t) \/ sweep_unknown_payments
           \/ \E kind \in {"failed", "captured"} : UserPays(t, kind)
  PROVE  ReconInv'
<1>1. CASE RecordOrder(t)
  <2>1. Shape'
    BY <1>1 DEF RecordOrder, ledgerVars, ReconInv, Shape
  <2> QED
    BY <1>1, <2>1, Beside DEF RecordOrder, ledgerVars
<1>2. CASE NotePayment(t)
  <2>1. txn' = [txn EXCEPT ![t].paid = TRUE] /\ UNCHANGED <<pc, work, locks, task, jobs, provider>>
    BY <1>2 DEF NotePayment, ownVars
  <2>2. ASSUME NEW u \in Txns
        PROVE  txn'[u] \in Row /\ txn'[u].status = txn[u].status
    BY <2>1 DEF ReconInv, Shape, Row
  <2>3. Shape'
    BY <2>1, <2>2 DEF ReconInv, Shape
  <2> QED
    BY <2>1, <2>2, <2>3, Beside
<1>3. CASE sweep_unknown_payments
  <2>1. Shape'
    BY <1>3 DEF sweep_unknown_payments, ledgerVars, ReconInv, Shape
  <2> QED
    BY <1>3, <2>1, Beside DEF sweep_unknown_payments, ledgerVars
<1>4. ASSUME NEW kind \in {"failed", "captured"}, UserPays(t, kind) PROVE ReconInv'
  <2>1. /\ UNCHANGED <<pc, work, locks, task, jobs, txn>>
        /\ provider' = [provider EXCEPT ![t] = provider[t] \cup {kind}]
    BY <1>4 DEF UserPays, ledgerVars
  <2>2. Shape' /\ \A u \in Txns : provider[u] \subseteq provider'[u]
    BY <2>1 DEF ReconInv, Shape
  <2> QED
    BY <2>1, <2>2, Beside
<1> QED
  BY <1>1, <1>2, <1>3, <1>4

LEMMA Taken ==
  ASSUME ReconInv, NEW s \in Sessions, NEW r, Take(s, r)
  PROVE  /\ locks' = [locks EXCEPT ![s] = locks[s] \cup {r}]
         /\ \A o \in Sessions \ {s} : (locks[s] \cup {r}) \cap locks[o] = {}
<1>1. \A o \in Sessions \ {s} : r \notin locks[o]
  BY DEF Take, Free
<1>2. locks' = [locks EXCEPT ![s] = locks[s] \cup {r}]
  BY DEF Take, ReconInv, Shape
<1> QED
  BY <1>1, <1>2, AtHome

LEMMA Same ==
  ASSUME ReconInv, NEW s \in Sessions
  PROVE  /\ work = [work EXCEPT ![s] = work[s]] /\ task = [task EXCEPT ![s] = task[s]]
         /\ locks = [locks EXCEPT ![s] = locks[s]]
  BY DEF ReconInv, Shape

LEMMA Started ==
  ASSUME ReconInv, NEW s \in Sessions, NEW t \in Txns, StartTask(s, t) PROVE ReconInv'
<1> DEFINE asks == txn[t].status \in {"UNKNOWN", "SUBMITTED"} /\ t \in ordered
           w == [txn |-> t, item |-> IntentOf[t], load |-> txn[t], row |-> txn[t], freed |-> 0]
<1>1. UNCHANGED <<txn, locks, provider, jobs, task>> /\ pc[s] = "idle"
  BY DEF StartTask, rows
<1>2. CASE ~asks
  <2>1. UNCHANGED <<work, pc>>
    BY <1>2 DEF StartTask
  <2>2. Shape'
    BY <1>1, <2>1 DEF ReconInv, Shape
  <2> QED
    BY <1>1, <2>1, <2>2, Beside
<1>3. CASE asks
  <2>1. work' = [work EXCEPT ![s] = w] /\ pc' = [pc EXCEPT ![s] = "job"]
    BY <1>3 DEF StartTask, Goto
  <2>2. txn[t] \in Row /\ txn[t].status = "UNKNOWN"
    BY <1>3 DEF ReconInv, Shape, Outcomes
  <2>3. w \in WorkType /\ w.txn = t /\ w.load = txn[t] /\ w.row = txn[t]
    BY <2>2, IntentOfAssumption DEF WorkType
  <2>4. TaskOK("job", w, locks[s], task[s])
    <3>1. locks[s] = {}
      BY <1>1, AtHome DEF TaskOK
    <3> HIDE DEF w
    <3> QED
      BY <2>2, <2>3, <3>1 DEF TaskOK, Resolving
  <2>5. /\ "job" \in Steps /\ task[s] \in TaskType
        /\ \A o \in Sessions \ {s} : locks[s] \cap locks[o] = {}
        /\ locks' = [locks EXCEPT ![s] = locks[s]] /\ task' = [task EXCEPT ![s] = task[s]]
    BY <1>1, AtHome, Same DEF Steps
  <2> HIDE DEF w, ReconInv
  <2> QED
    <3>1. w \in WorkType /\ txn' = txn /\ jobs' = jobs /\ provider' = provider
      BY <1>1, <2>3
    <3> HIDE DEF asks
    <3> QED
      BY <2>1, <2>4, <2>5, <3>1, GoOn
<1> QED
  BY <1>2, <1>3

\* Few pending jobs, or the task gives up.
LEMMA PendingCount ==
  ASSUME ReconInv, NEW t \in Txns
  PROVE  /\ Pending(t) \subseteq 1..Len(jobs[t])
         /\ Cardinality(Pending(t)) = 0 <=> Pending(t) = {}
<1>1. jobs[t] \in Seq(Job)
  BY DEF ReconInv, Shape
<1>2. Pending(t) \subseteq 1..Len(jobs[t]) /\ Len(jobs[t]) \in Nat
  BY <1>1 DEF Pending
<1>3. IsFiniteSet(Pending(t))
  <2>1. IsFiniteSet(1..Len(jobs[t]))
    BY <1>2, FS_Interval
  <2> QED
    BY <1>2, <2>1, FS_Subset
<1> QED
  BY <1>2, <1>3, FS_EmptySet

LEMMA GotJob ==
  ASSUME ReconInv, NEW s \in Sessions, _get_or_create_job(s) PROVE ReconInv'
<1> DEFINE t == work[s].txn
           step == IF Pending(t) = {} THEN "query" ELSE "count"
<1>1. /\ UNCHANGED <<txn, locks, work, provider, jobs>> /\ pc[s] = "job"
      /\ pc' = [pc EXCEPT ![s] = step]
  BY DEF _get_or_create_job, rows, Goto
<1>2. work[s].row.status = "UNKNOWN" /\ TaskOK("job", work[s], locks[s], task[s]) /\ t \in Txns
  <2>1. TaskOK("job", work[s], locks[s], task[s]) /\ t \in Txns
    BY <1>1, AtHome
  <2> QED
    BY <2>1 DEF TaskOK
<1>3. PICK tk \in TaskType :
        /\ task' = [task EXCEPT ![s] = tk]
        /\ tk.key \in 0..Len(jobs[t])
        /\ step = "query" => tk.key = 0
  <2>1. CASE Pending(t) = {}
    <3>1. task' = [task EXCEPT ![s] = NoTask]
      BY <2>1, <1>2, PendingCount DEF _get_or_create_job
    <3>2. NoTask \in TaskType /\ NoTask.key = 0 /\ Len(jobs[t]) \in Nat
      BY AtHome DEF NoTask, TaskType
    <3>3. NoTask.key \in 0..Len(jobs[t])
      BY <3>2
    <3> QED
      BY <3>1, <3>2, <3>3
  <2>2. CASE Pending(t) # {}
    <3>1. PICK k \in Pending(t) : task' = [task EXCEPT ![s] = [key |-> k, attempts |-> jobs[t][k].attempts]]
      BY <2>2, <1>2, PendingCount DEF _get_or_create_job
    <3> DEFINE tk == [key |-> k, attempts |-> jobs[t][k].attempts]
    <3>2. k \in 1..Len(jobs[t])
      BY <1>2, <3>1, PendingCount
    <3>3. jobs[t][k] \in Job /\ Len(jobs[t]) \in Nat
      BY <3>2, AtHome
    <3>4. tk \in TaskType /\ tk.key \in 0..Len(jobs[t])
      BY <3>2, <3>3 DEF TaskType, Job
    <3> QED
      BY <2>2, <3>1, <3>4
  <2> QED
    BY <2>1, <2>2
<1>4. step \in {"query", "count"} /\ step \in Steps
  BY DEF Steps
<1>5. TaskOK(step, work[s], locks[s], tk)
  <2> HIDE DEF step
  <2> QED
    BY <1>2, <1>3, <1>4 DEF TaskOK, Resolving
<1>6. /\ work[s] \in WorkType
      /\ \A o \in Sessions \ {s} : locks[s] \cap locks[o] = {}
      /\ locks' = [locks EXCEPT ![s] = locks[s]] /\ work' = [work EXCEPT ![s] = work[s]]
  BY <1>1, AtHome, Same
<1> QED
  <2> HIDE DEF step, ReconInv
  <2> QED
    BY <1>1, <1>3, <1>4, <1>5, <1>6, GoOn

LEMMA Counted ==
  ASSUME ReconInv, NEW s \in Sessions, CountAttempt(s) PROVE ReconInv'
<1> DEFINE r == <<"job", work[s].txn, task[s].key>>
           held == locks[s] \cup {r}
<1>1. /\ UNCHANGED <<txn, work, provider, jobs, task>> /\ pc[s] = "count"
      /\ pc' = [pc EXCEPT ![s] = "query"] /\ Take(s, r)
  BY DEF CountAttempt, rows, ownVars, Goto
<1>2. locks' = [locks EXCEPT ![s] = held] /\ \A o \in Sessions \ {s} : held \cap locks[o] = {}
  BY <1>1, Taken
<1>3. TaskOK("query", work[s], held, task[s])
  BY <1>1, AtHome DEF TaskOK, Resolving
<1>4. /\ "query" \in Steps /\ work[s] \in WorkType /\ task[s] \in TaskType
      /\ work' = [work EXCEPT ![s] = work[s]] /\ task' = [task EXCEPT ![s] = task[s]]
  BY <1>1, AtHome, Same DEF Steps
<1> QED
  <2> HIDE DEF held, ReconInv
  <2> QED
    BY <1>1, <1>2, <1>3, <1>4, GoOn

LEMMA NoAnswer ==
  ASSUME ReconInv, NEW s \in Sessions, QueryRetry(s) PROVE ReconInv'
<1>1. /\ UNCHANGED <<txn, work, locks, provider, jobs, task>> /\ pc[s] = "query"
      /\ pc' = [pc EXCEPT ![s] = "commit"]
  BY DEF QueryRetry, rows, ownVars, Goto
<1>2. TaskOK("commit", work[s], locks[s], task[s])
  BY <1>1, AtHome DEF TaskOK, Resolving, Outcomes
<1>3. /\ "commit" \in Steps /\ work[s] \in WorkType /\ task[s] \in TaskType
      /\ \A o \in Sessions \ {s} : locks[s] \cap locks[o] = {}
      /\ work' = [work EXCEPT ![s] = work[s]] /\ task' = [task EXCEPT ![s] = task[s]]
      /\ locks' = [locks EXCEPT ![s] = locks[s]]
  BY <1>1, AtHome, Same DEF Steps
<1>4. /\ pc' = [pc EXCEPT ![s] = "commit"] /\ txn' = txn /\ jobs' = jobs /\ provider' = provider
  BY <1>1
<1> QED
  <2> HIDE DEF ReconInv
  <2> QED
    BY <1>2, <1>3, <1>4, GoOn

LEMMA TransitionedRow ==
  ASSUME NEW r \in Row, NEW target \in TransactionStatus
  PROVE  Transitioned(r, target) \in Row /\ Transitioned(r, target).status = target
<1>1. r.version + 1 \in Nat
  BY DEF Row
<1>2. ASSUME NEW v \in Nat
      PROVE  LET new == [r EXCEPT !.status = target, !.version = v]
             IN  new \in Row /\ new.status = target
  BY DEF Row
<1> QED
  BY <1>1, <1>2 DEF Transitioned

\* The answer is the provider's; when it is a failure the provider has no
\* capture, so that nobody has completed the payment yet.
LEMMA Answered ==
  ASSUME ReconInv, NEW s \in Sessions, QueryAnswered(s) PROVE ReconInv'
<1> DEFINE t == work[s].txn
<1>1. PICK outcome \in Outcome(provider[t]) :
        work' = [work EXCEPT ![s].row =
                  [Transitioned(Transitioned(work[s].row, "VERIFYING"), outcome)
                     EXCEPT !.paid = @ \/ outcome = "COMPLETED"]]
  BY DEF QueryAnswered
<1> DEFINE ended == Transitioned(Transitioned(work[s].row, "VERIFYING"), outcome)
           row == [ended EXCEPT !.paid = @ \/ outcome = "COMPLETED"]
           w == [work[s] EXCEPT !.row = row]
<1>2. /\ outcome \in Outcomes
      /\ outcome = "COMPLETED" => "captured" \in provider[t]
      /\ outcome = "FAILED" => "failed" \in provider[t] /\ "captured" \notin provider[t]
  BY <1>1 DEF Outcome, Outcomes
<1>3. ended \in Row /\ ended.status = outcome
  <2>1. work[s].row \in Row
    BY AtHome DEF WorkType
  <2>2. outcome \in TransactionStatus /\ "VERIFYING" \in TransactionStatus
    BY <1>2, Statuses DEF Outcomes
  <2> QED
    BY <2>1, <2>2, TransitionedRow
<1>4. row \in Row /\ row.status = outcome
  <2> HIDE DEF ended
  <2> QED
    BY <1>3 DEF Row
<1>5. w \in WorkType /\ w.row = row /\ w.load = work[s].load /\ w.txn = t
  <2> HIDE DEF row
  <2> QED
    BY <1>4, AtHome DEF WorkType
<1>6. /\ UNCHANGED <<txn, locks, provider, jobs, task>> /\ pc[s] = "query"
      /\ pc' = [pc EXCEPT ![s] = "verify"] /\ work' = [work EXCEPT ![s] = w]
  BY <1>1 DEF QueryAnswered, rows, ownVars, Goto, ReconInv, Shape
<1>7. outcome = "FAILED" => txn[t].status # "COMPLETED"
  BY <1>2, AtHome DEF ReconInv, OutcomeIsProviders
<1>8. TaskOK("verify", w, locks[s], task[s])
  <2>1. TaskOK("query", work[s], locks[s], task[s])
    BY <1>6, AtHome
  <2> HIDE DEF w, row
  <2> QED
    BY <1>2, <1>4, <1>5, <1>7, <2>1 DEF TaskOK, Resolving
<1>9. /\ "verify" \in Steps /\ task[s] \in TaskType
      /\ \A o \in Sessions \ {s} : locks[s] \cap locks[o] = {}
      /\ task' = [task EXCEPT ![s] = task[s]] /\ locks' = [locks EXCEPT ![s] = locks[s]]
  BY <1>6, AtHome, Same DEF Steps
<1> QED
  <2>1. w \in WorkType
    BY <1>5
  <2>2. /\ txn' = txn /\ jobs' = jobs /\ provider' = provider
        /\ pc' = [pc EXCEPT ![s] = "verify"] /\ work' = [work EXCEPT ![s] = w]
    BY <1>6
  <2> HIDE DEF w, ended, row, ReconInv
  <2> QED
    BY <2>1, <2>2, <1>8, <1>9, GoOn

LEMMA Verified ==
  ASSUME ReconInv, NEW s \in Sessions, VerifyRow(s) PROVE ReconInv'
<1> DEFINE r == <<"txn", work[s].txn>>
           held == locks[s] \cup {r}
<1>1. /\ UNCHANGED <<txn, work, provider, jobs, task>> /\ pc[s] = "verify"
      /\ pc' = [pc EXCEPT ![s] = "audit"] /\ Take(s, r)
  BY DEF VerifyRow, rows, ownVars, Goto
<1>2. locks' = [locks EXCEPT ![s] = held] /\ \A o \in Sessions \ {s} : held \cap locks[o] = {}
  BY <1>1, Taken
<1>3. TaskOK("verify", work[s], locks[s], task[s])
  BY <1>1, AtHome
<1>4. TaskOK("audit", work[s], held, task[s])
  BY <1>3 DEF TaskOK, Resolving
<1>5. /\ "audit" \in Steps /\ work[s] \in WorkType /\ task[s] \in TaskType
      /\ work' = [work EXCEPT ![s] = work[s]] /\ task' = [task EXCEPT ![s] = task[s]]
  BY <1>1, AtHome, Same DEF Steps
<1> QED
  <2> HIDE DEF held, ReconInv
  <2> QED
    BY <1>1, <1>2, <1>4, <1>5, GoOn

\* The statements after it take more locks, but none of a transaction's row.
LEMMA Resolved ==
  ASSUME ReconInv, NEW s \in Sessions, ReconcileStep(s) PROVE ReconInv'
<1>1. UNCHANGED <<txn, provider, jobs, task>>
  BY DEF ReconcileStep, LockAudit, settle_budget_for_intent, SelectHold, UpdateHold, FreeUse, rows, ownVars
<1>2. /\ pc[s] \in {"audit", "budget", "select", "hold", "free"}
      /\ \E step \in {"budget", "select", "hold", "free", "commit"} : pc' = [pc EXCEPT ![s] = step]
  BY DEF ReconcileStep, LockAudit, settle_budget_for_intent, SelectHold, UpdateHold, FreeUse, Goto
<1>3. PICK step \in {"budget", "select", "hold", "free", "commit"} : pc' = [pc EXCEPT ![s] = step]
  BY <1>2
<1>4. PICK w \in WorkType :
        /\ work' = [work EXCEPT ![s] = w]
        /\ w.txn = work[s].txn /\ w.load = work[s].load /\ w.row = work[s].row
  <2>1. CASE work' = work
    BY <2>1, AtHome, Same
  <2>2. CASE work' = [work EXCEPT ![s].freed = @ + 1]
    <3> DEFINE w == [work[s] EXCEPT !.freed = work[s].freed + 1]
    <3>1. w \in WorkType /\ w.txn = work[s].txn /\ w.load = work[s].load /\ w.row = work[s].row
      <4>1. work[s] \in WorkType /\ work[s].freed + 1 \in Nat
        BY AtHome DEF WorkType
      <4> QED
        BY <4>1 DEF WorkType
    <3>2. work' = [work EXCEPT ![s] = w]
      BY <2>2 DEF ReconInv, Shape
    <3> QED
      BY <3>1, <3>2
  <2> QED
    BY <2>1, <2>2 DEF ReconcileStep, LockAudit, settle_budget_for_intent, SelectHold, UpdateHold, FreeUse
<1>5. \/ locks' = locks
      \/ Take(s, AuditLock) \/ Take(s, Campaign)
      \/ Take(s, <<"budget", work[s].item>>) \/ Take(s, <<"hold", work[s].item>>)
  BY DEF ReconcileStep, LockAudit, settle_budget_for_intent, SelectHold, UpdateHold, FreeUse
<1>6. ASSUME NEW r, Take(s, r), \A t \in Txns : r # <<"txn", t>>
      PROVE  \E held : /\ locks' = [locks EXCEPT ![s] = held] /\ locks[s] \subseteq held
                       /\ \A o \in Sessions \ {s} : held \cap locks[o] = {}
                       /\ \A t \in Txns : <<"txn", t>> \in held => <<"txn", t>> \in locks[s]
  <2> DEFINE held == locks[s] \cup {r}
  <2>1. /\ locks' = [locks EXCEPT ![s] = held]
        /\ \A o \in Sessions \ {s} : held \cap locks[o] = {}
    BY <1>6, Taken
  <2> QED
    BY <1>6, <2>1
<1>7. PICK held : /\ locks' = [locks EXCEPT ![s] = held] /\ locks[s] \subseteq held
                  /\ \A o \in Sessions \ {s} : held \cap locks[o] = {}
                  /\ \A t \in Txns : <<"txn", t>> \in held => <<"txn", t>> \in locks[s]
  <2>1. CASE locks' = locks
    BY <2>1, AtHome, Same
  <2>2. CASE Take(s, AuditLock)
    BY <1>6, <2>2 DEF AuditLock
  <2>3. CASE Take(s, Campaign)
    BY <1>6, <2>3 DEF Campaign
  <2>4. CASE Take(s, <<"budget", work[s].item>>)
    BY <1>6, <2>4
  <2>5. CASE Take(s, <<"hold", work[s].item>>)
    BY <1>6, <2>5
  <2> QED
    BY <1>5, <2>1, <2>2, <2>3, <2>4, <2>5
<1>8. TaskOK(step, w, held, task[s])
  <2>1. TaskOK(pc[s], work[s], locks[s], task[s])
    BY AtHome
  <2> QED
    BY <1>2, <1>3, <1>4, <1>7, <2>1 DEF TaskOK, Resolving
<1>9. step \in Steps /\ task[s] \in TaskType /\ task' = [task EXCEPT ![s] = task[s]]
  BY <1>1, <1>3, AtHome, Same DEF Steps
<1> QED
  <2> HIDE DEF ReconInv
  <2> QED
    BY <1>1, <1>3, <1>4, <1>7, <1>8, <1>9, GoOn

-----------------------------------------------------------------------------
(* A task ends.  What it leaves may only add jobs and outcomes.            *)

LEMMA TaskEnds ==
  ASSUME ReconInv, NEW s \in Sessions, EndTask(s), provider' = provider,
         txn' \in [Txns -> {r \in Row : r.status \in {"UNKNOWN"} \cup Outcomes}],
         jobs' \in [Txns -> Seq(Job)],
         \A t \in Txns : Len(jobs[t]) <= Len(jobs'[t]),
         \A o \in Sessions \ {s} : task[o].key # 0 /\ txn'[work[o].txn].status = "COMPLETED" =>
           \/ txn[work[o].txn].status = "COMPLETED" \/ Len(jobs'[work[o].txn]) >= 2
           \/ pc[o] \in {"job", "count"} \/ <<"job", work[o].txn, task[o].key>> \notin locks[o],
         ResolvedHasJob', OutcomeIsProviders', JobTellsOutcome'
  PROVE  ReconInv'
<1>1. /\ pc' = [pc EXCEPT ![s] = "idle"] /\ locks' = [locks EXCEPT ![s] = {}]
      /\ work' = [work EXCEPT ![s] = Blank] /\ task' = [task EXCEPT ![s] = NoTask]
  BY DEF EndTask, EndSession, Goto
<1>2. Shape'
  BY <1>1, BlankIsWork DEF ReconInv, Shape, Steps, NoTask, TaskType
<1>3. \A t \in Txns : Len(jobs[t]) \in Nat /\ Len(jobs'[t]) \in Nat
  BY DEF ReconInv, Shape
<1>4. TasksOK'
  <2> SUFFICES ASSUME NEW o \in Sessions PROVE TaskOK(pc[o], work[o], locks[o], task[o])'
    BY DEF TasksOK
  <2>1. CASE o = s
    <3>1. pc'[o] = "idle" /\ work'[o] = Blank /\ locks'[o] = {} /\ task'[o] = NoTask
      BY <1>1, <2>1 DEF ReconInv, Shape
    <3>2. NoTask.key = 0 /\ Blank.txn \in Txns
      BY BlankIsWork DEF NoTask, WorkType
    <3> QED
      BY <1>3, <3>1, <3>2, BlankIsWork DEF TaskOK, Resolving
  <2>2. CASE o # s
    <3>1. pc'[o] = pc[o] /\ work'[o] = work[o] /\ locks'[o] = locks[o] /\ task'[o] = task[o]
      BY <1>1, <2>2 DEF ReconInv, Shape
    <3>2. TaskOK(pc[o], work[o], locks[o], task[o]) /\ work[o].txn \in Txns
      BY AtHome
    <3>3. Len(jobs[work[o].txn]) <= Len(jobs'[work[o].txn])
      BY <3>2
    <3>4. work[o].row.status = "FAILED" => pc[o] \notin {"job", "count"}
      BY <3>2 DEF TaskOK
    <3>5. work[o].row.status = "FAILED" /\ task[o].key # 0 =>
            txn'[work[o].txn].status # "COMPLETED" \/ Len(jobs'[work[o].txn]) >= 2
      BY <1>3, <2>2, <3>2, <3>3, <3>4 DEF TaskOK
    <3> QED
      BY <1>3, <3>1, <3>2, <3>3, <3>5 DEF TaskOK, Resolving
  <2> QED
    BY <2>1, <2>2
<1>5. Exclusive'
  <2> SUFFICES ASSUME NEW p \in Sessions, NEW o \in Sessions \ {p} PROVE locks'[p] \cap locks'[o] = {}
    BY DEF Exclusive
  <2>1. /\ locks'[p] = {} \/ locks'[p] = locks[p]
        /\ locks'[o] = {} \/ locks'[o] = locks[o]
    BY <1>1 DEF ReconInv, Shape
  <2> QED
    BY <2>1 DEF ReconInv, Exclusive
<1> QED
  BY <1>2, <1>4, <1>5 DEF ReconInv

LEMMA Ended ==
  ASSUME ReconInv, NEW s \in Sessions, GiveUp(s) \/ FailTask(s) PROVE ReconInv'
<1>1. EndTask(s) /\ UNCHANGED <<txn, provider, jobs>>
  BY DEF GiveUp, FailTask, rows
<1>2. /\ txn' \in [Txns -> {r \in Row : r.status \in {"UNKNOWN"} \cup Outcomes}]
      /\ jobs' \in [Txns -> Seq(Job)]
      /\ ResolvedHasJob' /\ OutcomeIsProviders' /\ JobTellsOutcome'
  BY <1>1 DEF ReconInv, Shape, ResolvedHasJob, OutcomeIsProviders, JobTellsOutcome
<1>3. \A t \in Txns : Len(jobs[t]) <= Len(jobs'[t])
  <2>1. \A t \in Txns : Len(jobs[t]) \in Nat
    BY DEF ReconInv, Shape
  <2> QED
    BY <1>1, <2>1
<1> QED
  BY <1>1, <1>2, <1>3, TaskEnds

LEMMA AppendOne ==
  ASSUME NEW S, NEW q \in Seq(S), NEW e \in S
  PROVE  /\ Append(q, e) \in Seq(S) /\ Append(q, e)[Len(q) + 1] = e
         /\ Len(Append(q, e)) = Len(q) + 1 /\ Len(q) \in Nat
  OBVIOUS

LEMMA ReplaceOne ==
  ASSUME NEW S, NEW q \in Seq(S), NEW k \in 1..Len(q), NEW e \in S
  PROVE  /\ [q EXCEPT ![k] = e] \in Seq(S) /\ [q EXCEPT ![k] = e][k] = e
         /\ Len([q EXCEPT ![k] = e]) = Len(q) /\ Len(q) \in Nat /\ q[k] \in S
  OBVIOUS

\* What a commit leaves of the transaction and of its jobs.
LEMMA CommitLeaves ==
  ASSUME ReconInv, NEW s \in Sessions, CommitTask(s)
  PROVE  LET w == work[s]
             t == w.txn
             resolved == w.row.status \in Outcomes
         IN /\ EndTask(s) /\ provider' = provider
            /\ \A u \in Txns \ {t} : txn'[u] = txn[u] /\ jobs'[u] = jobs[u]
            /\ txn' \in [Txns -> {r \in Row : r.status \in {"UNKNOWN"} \cup Outcomes}]
            /\ txn'[t].status = IF resolved THEN w.row.status ELSE txn[t].status
            /\ jobs' \in [Txns -> Seq(Job)]
            /\ task[s].key = 0 =>
                 /\ Len(jobs'[t]) = Len(jobs[t]) + 1
                 /\ jobs'[t][Len(jobs[t]) + 1].outcome = IF resolved THEN w.row.status ELSE "NONE"
            /\ task[s].key # 0 =>
                 /\ task[s].key \in 1..Len(jobs[t]) /\ Len(jobs'[t]) = Len(jobs[t])
                 /\ jobs'[t][task[s].key].outcome =
                      IF resolved THEN w.row.status ELSE jobs[t][task[s].key].outcome
<1> DEFINE w == work[s]
           t == w.txn
           k == task[s].key
           resolved == w.row.status # w.load.status
           outcome == IF resolved THEN w.row.status ELSE "NONE"
           After(job) == JobAfter([job EXCEPT !.attempts = task[s].attempts], resolved, outcome)
<1>1. /\ pc[s] = "commit" /\ EndTask(s) /\ provider' = provider
      /\ txn' = [u \in Txns |-> IF <<"txn", u>> \in locks[s] THEN Overwrite(txn[u], w) ELSE txn[u]]
      /\ jobs' = [jobs EXCEPT ![t] = IF k = 0 THEN Append(jobs[t], After(NewJob))
                                              ELSE [jobs[t] EXCEPT ![k] = After(jobs[t][k])]]
  BY DEF CommitTask, CommitRows
<1>2. TaskOK("commit", w, locks[s], task[s]) /\ t \in Txns /\ w \in WorkType /\ task[s] \in TaskType
  BY <1>1, AtHome
<1>3. /\ w.load.status = "UNKNOWN" /\ w.row.status \in {"UNKNOWN"} \cup Outcomes
      /\ \A u \in Txns : <<"txn", u>> \in locks[s] => u = t
      /\ w.row.status \in Outcomes => <<"txn", t>> \in locks[s]
      /\ k \in 0..Len(jobs[t])
  BY <1>2 DEF TaskOK, Resolving
<1>4. resolved <=> w.row.status \in Outcomes
  BY <1>3 DEF Outcomes
<1>5. ASSUME NEW u \in Txns
      PROVE  /\ Overwrite(txn[u], w) \in Row
             /\ Overwrite(txn[u], w).status = IF resolved THEN w.row.status ELSE txn[u].status
  BY <1>2 DEF Overwrite, WorkType, Row, ReconInv, Shape
<1>6. txn' \in [Txns -> {r \in Row : r.status \in {"UNKNOWN"} \cup Outcomes}]
  <2>1. ASSUME NEW u \in Txns PROVE txn'[u] \in {r \in Row : r.status \in {"UNKNOWN"} \cup Outcomes}
    <3>1. txn[u] \in {r \in Row : r.status \in {"UNKNOWN"} \cup Outcomes}
      BY DEF ReconInv, Shape
    <3>2. txn'[u] = Overwrite(txn[u], w) \/ txn'[u] = txn[u]
      BY <1>1
    <3> HIDE DEF resolved
    <3> QED
      BY <1>3, <1>5, <3>1, <3>2
  <2>2. txn' = [u \in Txns |-> txn'[u]]
    BY <1>1
  <2> QED
    BY <2>1, <2>2
<1>7. txn'[t].status = IF resolved THEN w.row.status ELSE txn[t].status
  BY <1>1, <1>2, <1>3, <1>4, <1>5
<1>8. \A u \in Txns \ {t} : txn'[u] = txn[u] /\ jobs'[u] = jobs[u]
  BY <1>1, <1>3 DEF ReconInv, Shape
<1>9. jobs[t] \in Seq(Job) /\ jobs \in [Txns -> Seq(Job)]
  BY <1>2 DEF ReconInv, Shape
<1>10. ASSUME NEW job \in Job
       PROVE  After(job) \in Job /\ After(job).outcome = IF resolved THEN w.row.status ELSE job.outcome
  <2> DEFINE j == [job EXCEPT !.attempts = task[s].attempts]
             n == j.attempts + 1
  <2>1. j \in Job /\ j.status = job.status /\ j.outcome = job.outcome
    BY <1>2 DEF Job, TaskType
  <2>2. /\ n \in Nat
        /\ job.status \in {"PENDING", "RESOLVED"} /\ job.outcome \in {"NONE", "COMPLETED", "FAILED"}
    BY <2>1 DEF Job
  <2>3. ASSUME NEW st \in {"PENDING", "RESOLVED"}, NEW oc \in {"NONE", "COMPLETED", "FAILED"},
               After(job) = [j EXCEPT !.attempts = n, !.status = st, !.outcome = oc]
        PROVE  After(job) \in Job /\ After(job).outcome = oc
    <3> HIDE DEF After, j, n
    <3> QED
      BY <2>1, <2>2, <2>3 DEF Job
  <2>4. CASE resolved
    <3> DEFINE st == "RESOLVED"
               oc == w.row.status
    <3>1. After(job) = [j EXCEPT !.attempts = n, !.status = st, !.outcome = oc]
      BY <2>4 DEF JobAfter
    <3>2. st \in {"PENDING", "RESOLVED"} /\ oc \in {"NONE", "COMPLETED", "FAILED"}
      BY <1>4, <2>4 DEF Outcomes
    <3>3. After(job) \in Job /\ After(job).outcome = oc
      <4> HIDE DEF After, j, n, st, oc
      <4> QED
        BY <2>3, <3>1, <3>2
    <3> QED
      BY <2>4, <3>3
  <2>5. CASE ~resolved
    <3> DEFINE st == job.status
               oc == job.outcome
    <3>1. After(job) = [j EXCEPT !.attempts = n, !.status = st, !.outcome = oc]
      BY <2>1, <2>5 DEF JobAfter
    <3>2. After(job) \in Job /\ After(job).outcome = oc
      <4> HIDE DEF After, j, n, st, oc
      <4>1. st \in {"PENDING", "RESOLVED"} /\ oc \in {"NONE", "COMPLETED", "FAILED"}
        BY <2>2 DEF st, oc
      <4> QED
        BY <2>3, <3>1, <4>1
    <3> QED
      BY <2>5, <3>2
  <2> QED
    BY <2>4, <2>5
<1>11. NewJob \in Job /\ NewJob.outcome = "NONE"
  BY DEF NewJob, Job
<1> HIDE DEF After
<1>12. CASE k = 0
  <2>1. jobs' = [jobs EXCEPT ![t] = Append(jobs[t], After(NewJob))]
    BY <1>1, <1>12
  <2>2. /\ Append(jobs[t], After(NewJob)) \in Seq(Job)
        /\ Append(jobs[t], After(NewJob))[Len(jobs[t]) + 1] = After(NewJob)
        /\ Len(Append(jobs[t], After(NewJob))) = Len(jobs[t]) + 1
    BY <1>9, <1>10, <1>11, AppendOne
  <2>3. jobs'[t] = Append(jobs[t], After(NewJob)) /\ jobs' \in [Txns -> Seq(Job)]
    BY <1>2, <1>9, <2>1, <2>2
  <2>4. jobs'[t][Len(jobs[t]) + 1].outcome = IF resolved THEN w.row.status ELSE "NONE"
    BY <1>10, <1>11, <2>2, <2>3
  <2> QED
    BY <1>1, <1>4, <1>6, <1>7, <1>8, <1>12, <2>2, <2>3, <2>4
<1>13. CASE k # 0
  <2>1. jobs' = [jobs EXCEPT ![t] = [jobs[t] EXCEPT ![k] = After(jobs[t][k])]]
    BY <1>1, <1>13
  <2>2. k \in 1..Len(jobs[t])
    BY <1>3, <1>9, <1>13
  <2>3. jobs[t][k] \in Job
    BY <1>9, <2>2
  <2>4. After(jobs[t][k]) \in Job
    BY <1>10, <2>3
  <2>5. /\ [jobs[t] EXCEPT ![k] = After(jobs[t][k])] \in Seq(Job)
        /\ [jobs[t] EXCEPT ![k] = After(jobs[t][k])][k] = After(jobs[t][k])
        /\ Len([jobs[t] EXCEPT ![k] = After(jobs[t][k])]) = Len(jobs[t])
    BY <1>9, <2>2, <2>4, ReplaceOne
  <2>6. jobs'[t] = [jobs[t] EXCEPT ![k] = After(jobs[t][k])] /\ jobs' \in [Txns -> Seq(Job)]
    BY <1>2, <1>9, <2>1, <2>5
  <2>7. jobs'[t][k].outcome = IF resolved THEN w.row.status ELSE jobs[t][k].outcome
    BY <1>10, <2>3, <2>5, <2>6
  <2> QED
    BY <1>1, <1>4, <1>6, <1>7, <1>8, <1>13, <2>2, <2>5, <2>6, <2>7
<1> QED
  BY <1>12, <1>13

LEMMA Committed ==
  ASSUME ReconInv, NEW s \in Sessions, CommitTask(s) PROVE ReconInv'
<1> DEFINE w == work[s]
           t == w.txn
           k == task[s].key
           resolved == w.row.status \in Outcomes
<1>1. /\ EndTask(s) /\ provider' = provider
      /\ \A u \in Txns \ {t} : txn'[u] = txn[u] /\ jobs'[u] = jobs[u]
      /\ txn' \in [Txns -> {r \in Row : r.status \in {"UNKNOWN"} \cup Outcomes}]
      /\ txn'[t].status = IF resolved THEN w.row.status ELSE txn[t].status
      /\ jobs' \in [Txns -> Seq(Job)]
  BY CommitLeaves
<1>2. k = 0 => /\ Len(jobs'[t]) = Len(jobs[t]) + 1
               /\ jobs'[t][Len(jobs[t]) + 1].outcome = IF resolved THEN w.row.status ELSE "NONE"
  BY CommitLeaves
<1>3. k # 0 => /\ k \in 1..Len(jobs[t]) /\ Len(jobs'[t]) = Len(jobs[t])
               /\ jobs'[t][k].outcome = IF resolved THEN w.row.status ELSE jobs[t][k].outcome
  BY CommitLeaves
<1>4. pc[s] = "commit" /\ TaskOK("commit", w, locks[s], task[s]) /\ t \in Txns
  BY AtHome DEF CommitTask
<1>5. \A u \in Txns : Len(jobs[u]) \in Nat /\ Len(jobs'[u]) \in Nat
  BY <1>1 DEF ReconInv, Shape
<1> HIDE DEF resolved
<1>6. \A u \in Txns : Len(jobs[u]) <= Len(jobs'[u])
  <2> SUFFICES ASSUME NEW u \in Txns PROVE Len(jobs[u]) <= Len(jobs'[u])
    OBVIOUS
  <2>1. CASE u = t
    BY <1>2, <1>3, <1>5, <2>1
  <2>2. CASE u # t
    BY <1>1, <1>5, <2>2
  <2> QED
    BY <2>1, <2>2
<1>7. Len(jobs'[t]) >= 1
  BY <1>2, <1>3, <1>4, <1>5
<1>8. ResolvedHasJob'
  <2> SUFFICES ASSUME NEW u \in Txns, jobs'[u] = <<>> PROVE txn'[u].status = "UNKNOWN"
    BY DEF ResolvedHasJob
  <2>1. u # t
    BY <1>7
  <2> QED
    BY <1>1, <2>1 DEF ReconInv, ResolvedHasJob
<1>9. OutcomeIsProviders'
  <2> SUFFICES ASSUME NEW u \in Txns
               PROVE  /\ txn'[u].status = "COMPLETED" => "captured" \in provider[u]
                      /\ txn'[u].status = "FAILED" => "failed" \in provider[u]
    BY <1>1 DEF OutcomeIsProviders
  <2>1. /\ txn[u].status = "COMPLETED" => "captured" \in provider[u]
        /\ txn[u].status = "FAILED" => "failed" \in provider[u]
    BY DEF ReconInv, OutcomeIsProviders
  <2>2. /\ w.row.status = "COMPLETED" => "captured" \in provider[t]
        /\ w.row.status = "FAILED" => "failed" \in provider[t]
    BY <1>4 DEF TaskOK
  <2>3. CASE u = t
    BY <1>1, <2>1, <2>2, <2>3
  <2>4. CASE u # t
    BY <1>1, <2>1, <2>4
  <2> QED
    BY <2>3, <2>4
<1>10. JobTellsOutcome'
  <2> SUFFICES ASSUME NEW u \in Txns, Len(jobs'[u]) = 1
               PROVE  jobs'[u][1].outcome = IF txn'[u].status = "UNKNOWN" THEN "NONE" ELSE txn'[u].status
    BY DEF JobTellsOutcome
  <2>1. CASE u # t
    BY <1>1, <2>1 DEF ReconInv, JobTellsOutcome
  <2>2. CASE u = t /\ k = 0
    <3>1. Len(jobs[t]) = 0 /\ jobs[t] \in Seq(Job)
      BY <1>2, <1>4, <1>5, <2>2 DEF ReconInv, Shape
    <3>2. txn[t].status = "UNKNOWN"
      BY <1>4, <3>1 DEF ReconInv, ResolvedHasJob
    <3>3. jobs'[u][1].outcome = IF resolved THEN w.row.status ELSE "NONE"
      BY <1>2, <2>2, <3>1
    <3> QED
      BY <1>1, <2>2, <3>2, <3>3 DEF resolved, Outcomes
  <2>3. CASE u = t /\ k # 0
    <3>1. k = 1 /\ Len(jobs[t]) = 1
      BY <1>3, <1>5, <1>4, <2>3
    <3>2. jobs[t][1].outcome = IF txn[t].status = "UNKNOWN" THEN "NONE" ELSE txn[t].status
      BY <1>4, <3>1 DEF ReconInv, JobTellsOutcome
    <3>3. jobs'[u][1].outcome = IF resolved THEN w.row.status ELSE jobs[t][1].outcome
      BY <1>3, <2>3, <3>1
    <3> QED
      BY <1>1, <2>3, <3>2, <3>3 DEF resolved, Outcomes
  <2> QED
    BY <2>1, <2>2, <2>3
<1>11. ASSUME NEW o \in Sessions \ {s}, task[o].key # 0, txn'[work[o].txn].status = "COMPLETED"
       PROVE  \/ txn[work[o].txn].status = "COMPLETED" \/ Len(jobs'[work[o].txn]) >= 2
              \/ pc[o] \in {"job", "count"} \/ <<"job", work[o].txn, task[o].key>> \notin locks[o]
  <2> SUFFICES ASSUME work[o].txn = t, pc[o] \notin {"job", "count"}, <<"job", t, task[o].key>> \in locks[o]
               PROVE  Len(jobs'[t]) >= 2
    BY <1>1, <1>11, AtHome
  <2>1. task[o].key \in 1..Len(jobs[t])
    <3>1. TaskOK(pc[o], work[o], locks[o], task[o])
      BY AtHome
    <3> QED
      BY <1>4, <1>5, <1>11, <3>1 DEF TaskOK
  <2>2. CASE k = 0
    BY <1>2, <1>4, <1>5, <2>1, <2>2
  <2>3. CASE k # 0
    <3>1. <<"job", t, k>> \in locks[s]
      BY <1>4, <2>3 DEF TaskOK
    <3>2. k # task[o].key
      <4>1. locks[s] \cap locks[o] = {}
        BY DEF ReconInv, Exclusive
      <4> QED
        BY <3>1, <4>1
    <3> QED
      BY <1>3, <1>4, <1>5, <2>1, <2>3, <3>2
  <2> QED
    BY <2>2, <2>3
<1> QED
  <2> HIDE DEF ReconInv, w, t, k
  <2> QED
    BY <1>1, <1>6, <1>8, <1>9, <1>10, <1>11, TaskEnds

LEMMA ReconStep == ReconInv /\ [Next]_vars => ReconInv'
<1> SUFFICES ASSUME ReconInv, [Next]_vars PROVE ReconInv'
  OBVIOUS
<1>1. ASSUME NEW t \in Txns, RecordOrder(t) \/ NotePayment(t) PROVE ReconInv'
  BY <1>1, Outside
<1>2. ASSUME NEW t \in Txns, NEW kind \in {"failed", "captured"}, UserPays(t, kind) PROVE ReconInv'
  BY <1>2, Outside
<1>3. CASE sweep_unknown_payments
  <2>1. PICK t \in Txns : TRUE
    BY <1>3 DEF sweep_unknown_payments
  <2> QED
    BY <1>3, <2>1, Outside
<1>4. ASSUME NEW s \in Sessions, WorkerStep(s) PROVE ReconInv'
  BY <1>4, Started, GotJob, Ended, Counted, Answered, NoAnswer, Verified, Resolved, Committed DEF WorkerStep
<1>5. ASSUME NEW s \in Sessions, FailTask(s) PROVE ReconInv'
  BY <1>5, Ended
<1>6. CASE UNCHANGED vars
  <2>1. UNCHANGED <<pc, work, locks, task, jobs, txn, provider>>
    BY <1>6 DEF vars, ledgerVars, ownVars
  <2>2. Shape'
    BY <2>1 DEF ReconInv, Shape
  <2> QED
    BY <2>1, <2>2, Beside
<1> QED
  BY <1>1, <1>2, <1>3, <1>4, <1>5, <1>6 DEF Next

LEMMA ReconInvariant == Spec => []ReconInv
  BY ReconInit, ReconStep, PTL DEF Spec

\* COMPLETED and FAILED are the provider's words, however many tasks ask about
\* one transaction, fail or run again, and however late they write.
THEOREM OutcomesAreProviders == Spec => []OutcomeIsProviders
<1>1. ReconInv => OutcomeIsProviders
  BY DEF ReconInv
<1> QED
  BY <1>1, ReconInvariant, PTL

\* The only job of a transaction tells what its row tells.
THEOREM JobsTell == Spec => []JobTellsOutcome
<1>1. ReconInv => JobTellsOutcome
  BY DEF ReconInv
<1> QED
  BY <1>1, ReconInvariant, PTL

\* A capture is never overwritten while the transaction has one job.
THEOREM CapturesStay == Spec => CapturedStays
<1> DEFINE Stays == \A t \in Txns : txn[t].status = "COMPLETED" /\ Len(jobs'[t]) = 1
                                    => txn'[t].status = "COMPLETED"
<1>1. ReconInv /\ [Next]_vars => [Stays]_vars
  <2> SUFFICES ASSUME ReconInv, Next, NEW t \in Txns, txn[t].status = "COMPLETED", Len(jobs'[t]) = 1
               PROVE  txn'[t].status = "COMPLETED"
    OBVIOUS
  <2>1. CASE txn' = txn
    BY <2>1
  <2>2. ASSUME NEW u \in Txns, NotePayment(u) PROVE txn'[t].status = "COMPLETED"
    <3>1. txn' = [txn EXCEPT ![u].paid = TRUE]
      BY <2>2 DEF NotePayment
    <3> QED
      BY <3>1 DEF ReconInv, Shape, Row
  <2>3. ASSUME NEW s \in Sessions, CommitTask(s) PROVE txn'[t].status = "COMPLETED"
    <3> DEFINE w == work[s]
               k == task[s].key
    <3>1. TaskOK("commit", w, locks[s], task[s]) /\ w.txn \in Txns
      BY <2>3, AtHome DEF CommitTask
    <3>2. /\ w.txn # t => txn'[t] = txn[t]
          /\ txn'[w.txn].status = IF w.row.status \in Outcomes THEN w.row.status ELSE txn[w.txn].status
          /\ k = 0 => Len(jobs'[w.txn]) = Len(jobs[w.txn]) + 1
          /\ k # 0 => Len(jobs'[w.txn]) = Len(jobs[w.txn])
      BY <2>3, <3>1, CommitLeaves
    <3>3. CASE w.txn = t /\ k = 0
      <4>1. jobs[t] \in Seq(Job) /\ jobs[t] # <<>>
        BY DEF ReconInv, Shape, ResolvedHasJob
      <4>2. Len(jobs[t]) \in Nat /\ Len(jobs[t]) # 0
        BY <4>1
      <4>3. Len(jobs'[t]) = Len(jobs[t]) + 1
        BY <3>2, <3>3
      <4>4. ASSUME NEW n \in Nat, n # 0 PROVE n + 1 # 1
        BY <4>4
      <4>5. Len(jobs[t]) + 1 # 1
        BY <4>2, <4>4
      <4>6. Len(jobs'[t]) # 1
        BY <4>3, <4>5
      <4> QED
        BY <4>6
    <3>4. CASE w.txn = t /\ k # 0
      <4>1. Len(jobs[t]) = 1
        BY <3>2, <3>4
      <4>2. w.row.status = "FAILED" => txn[t].status # "COMPLETED" \/ Len(jobs[t]) >= 2
        BY <3>1, <3>4 DEF TaskOK
      <4>3. w.row.status # "FAILED"
        BY <4>1, <4>2
      <4> QED
        BY <3>1, <3>2, <3>4, <4>3 DEF Outcomes, TaskOK
    <3> QED
      BY <3>2, <3>3, <3>4
  <2>4. ASSUME NEW s \in Sessions, WorkerStep(s), ~CommitTask(s) PROVE txn' = txn
    BY <2>4 DEF WorkerStep, StartTask, _get_or_create_job, GiveUp, CountAttempt, QueryAnswered, QueryRetry,
                VerifyRow, ReconcileStep, LockAudit, settle_budget_for_intent, SelectHold, UpdateHold,
                FreeUse, rows
  <2>5. ASSUME NEW s \in Sessions, FailTask(s) PROVE txn' = txn
    BY <2>5 DEF FailTask, rows
  <2>6. ASSUME NEW u \in Txns, RecordOrder(u) \/ \E kind \in {"failed", "captured"} : UserPays(u, kind)
        PROVE  txn' = txn
    BY <2>6 DEF RecordOrder, UserPays, ledgerVars
  <2>7. CASE sweep_unknown_payments
    BY <2>7 DEF sweep_unknown_payments, ledgerVars
  <2> QED
    BY <2>1, <2>2, <2>3, <2>4, <2>5, <2>6, <2>7 DEF Next
<1> QED
  BY <1>1, ReconInvariant, PTL DEF Spec, CapturedStays

-----------------------------------------------------------------------------
(* The rest of the types.  The campaign's count of uses stays a number only *)
(* because a session keeps the campaign's row from its check to its commit. *)

Rest ==
  /\ intent \in [Intents -> TransactionStatus]
  /\ budget \in [Intents -> {"RESERVED", "SETTLED", "RELEASED"}]
  /\ hold \in [Intents -> {"RESERVED", "CONSUMED", "RELEASED"}]
  /\ ordered \subseteq Txns
  /\ queue \in [Txns -> Nat]
  /\ faults \in 0..MaxFaults

Frees(w, held) == w.freed <= uses /\ (w.freed # 0 => Campaign \in held)

UsesCovered == uses \in Nat /\ \A s \in Sessions : Frees(work[s], locks[s])

TypesInv == ReconInv /\ Rest /\ UsesCovered

LEMMA BlankFreesNone == Blank.freed = 0
  BY DEF Blank

LEMMA TypesInit == Init => TypesInv
<1> SUFFICES ASSUME Init PROVE TypesInv
  OBVIOUS
<1>1. Rest
  BY Statuses, ReconciliationAssumption DEF Init, Rest
<1>2. uses \in Nat
  BY IntentOfAssumption, FS_CardinalityType DEF Init
<1>3. UsesCovered
  BY <1>2, BlankFreesNone DEF Init, UsesCovered, Frees
<1> QED
  BY <1>1, <1>3, ReconInit DEF TypesInv

\* A step that frees no use keeps what the sessions freed covered.
LEMMA StillCovered ==
  ASSUME TypesInv, uses' = uses,
         \A o \in Sessions : \/ work'[o].freed = 0
                             \/ work'[o].freed = work[o].freed /\ locks[o] \subseteq locks'[o]
  PROVE  UsesCovered'
<1> SUFFICES ASSUME NEW o \in Sessions PROVE Frees(work[o], locks[o])'
  BY DEF TypesInv, UsesCovered
<1>1. Frees(work[o], locks[o]) /\ uses \in Nat
  BY DEF TypesInv, UsesCovered
<1>2. CASE work'[o].freed = 0
  BY <1>1, <1>2 DEF Frees
<1>3. CASE work'[o].freed = work[o].freed /\ locks[o] \subseteq locks'[o]
  BY <1>1, <1>3 DEF Frees
<1> QED
  BY <1>2, <1>3

LEMMA EndCovered ==
  ASSUME TypesInv, NEW s \in Sessions, EndTask(s), uses' = uses PROVE UsesCovered'
<1>1. /\ locks' = [locks EXCEPT ![s] = {}] /\ work' = [work EXCEPT ![s] = Blank]
  BY DEF EndTask, EndSession
<1>2. ASSUME NEW o \in Sessions
      PROVE  work'[o].freed = 0 \/ (work'[o].freed = work[o].freed /\ locks[o] \subseteq locks'[o])
  BY <1>1, BlankFreesNone DEF TypesInv, ReconInv, Shape
<1> QED
  BY <1>2, StillCovered

LEMMA TakeCovered ==
  ASSUME TypesInv, NEW s \in Sessions, UNCHANGED <<uses, work>>,
         UNCHANGED locks \/ \E r : Take(s, r)
  PROVE  UsesCovered'
<1>1. \A o \in Sessions : locks[o] \subseteq locks'[o]
  BY DEF Take, TypesInv, ReconInv, Shape
<1> QED
  BY <1>1, StillCovered

LEMMA FreeCovered ==
  ASSUME TypesInv, NEW s \in Sessions, FreeUse(s, "commit") PROVE UsesCovered'
<1>1. uses' = uses /\ uses \in Nat /\ work[s].freed \in Nat
  BY AtHome DEF FreeUse, rows, TypesInv, UsesCovered, WorkType
<1>2. CASE UNCHANGED <<locks, work>>
  BY <1>1, <1>2, StillCovered
<1>3. CASE uses > work[s].freed /\ Take(s, Campaign) /\ work' = [work EXCEPT ![s].freed = @ + 1]
  <2> SUFFICES ASSUME NEW o \in Sessions PROVE Frees(work[o], locks[o])'
    BY <1>1 DEF UsesCovered
  <2>1. locks' = [locks EXCEPT ![s] = locks[s] \cup {Campaign}]
    BY <1>3, Taken DEF TypesInv
  <2>2. CASE o = s
    <3>1. Campaign \in locks'[o]
      BY <2>1, <2>2 DEF TypesInv, ReconInv, Shape
    <3>2. work'[o].freed = work[s].freed + 1
      BY <1>3, <2>2, AtHome DEF TypesInv, ReconInv, Shape, WorkType
    <3>3. work[s].freed + 1 <= uses
      BY <1>1, <1>3
    <3> QED
      BY <1>1, <3>1, <3>2, <3>3 DEF Frees
  <2>3. CASE o # s
    <3>1. work'[o] = work[o] /\ locks'[o] = locks[o]
      BY <1>3, <2>1, <2>3 DEF TypesInv, ReconInv, Shape
    <3> QED
      BY <1>1, <3>1 DEF TypesInv, UsesCovered, Frees
  <2> QED
    BY <2>2, <2>3
<1> QED
  BY <1>2, <1>3 DEF FreeUse

LEMMA CommitCovered ==
  ASSUME TypesInv, NEW s \in Sessions, CommitTask(s) PROVE UsesCovered' /\ Rest'
<1> DEFINE n == work[s].freed
<1>1. /\ uses' = uses - n
      /\ intent' = [i \in Intents |-> IF <<"intent", i>> \in locks[s] THEN work[s].row.status ELSE intent[i]]
      /\ budget' = [i \in Intents |-> IF ~(<<"budget", i>> \in locks[s]) THEN budget[i]
                                      ELSE IF work[s].row.status = "COMPLETED" THEN "SETTLED" ELSE "RELEASED"]
      /\ hold' = [i \in Intents |-> IF ~(<<"hold", i>> \in locks[s]) THEN hold[i]
                                    ELSE IF work[s].row.status = "COMPLETED" THEN "CONSUMED" ELSE "RELEASED"]
      /\ UNCHANGED <<ordered, queue, faults>>
  BY DEF CommitTask, CommitRows
<1>2. locks' = [locks EXCEPT ![s] = {}] /\ work' = [work EXCEPT ![s] = Blank]
  BY DEF CommitTask, EndTask, EndSession
<1>3. n \in Nat /\ uses \in Nat /\ n <= uses /\ work[s].row.status \in TransactionStatus
  BY AtHome DEF TypesInv, UsesCovered, Frees, WorkType, Row
<1>4. UsesCovered'
  <2>1. uses' \in Nat
    BY <1>1, <1>3
  <2> SUFFICES ASSUME NEW o \in Sessions PROVE Frees(work[o], locks[o])'
    BY <2>1 DEF UsesCovered
  <2>2. CASE o = s
    <3>1. work'[o].freed = 0
      BY <1>2, <2>2, BlankFreesNone DEF TypesInv, ReconInv, Shape
    <3> QED
      BY <2>1, <3>1 DEF Frees
  <2>3. CASE o # s
    <3>1. work'[o] = work[o] /\ locks'[o] = locks[o]
      BY <1>2, <2>3 DEF TypesInv, ReconInv, Shape
    <3>2. Frees(work[o], locks[o]) /\ Frees(work[s], locks[s]) /\ locks[s] \cap locks[o] = {}
      BY <2>3, AtHome DEF TypesInv, UsesCovered
    <3>3. work[o].freed \in Nat
      BY AtHome DEF TypesInv, WorkType
    <3>4. CASE work[o].freed = 0
      BY <2>1, <3>1, <3>4 DEF Frees
    <3>5. CASE work[o].freed # 0
      <4>1. Campaign \in locks[o] /\ n = 0
        BY <3>2, <3>5 DEF Frees
      <4>2. uses' = uses
        BY <1>1, <1>3, <4>1
      <4> QED
        BY <3>1, <3>2, <4>2 DEF Frees
    <3> QED
      BY <3>4, <3>5
  <2> QED
    BY <2>2, <2>3
<1>5. Rest'
  <2>1. intent' \in [Intents -> TransactionStatus]
    BY <1>1, <1>3 DEF TypesInv, Rest
  <2>2. /\ budget' \in [Intents -> {"RESERVED", "SETTLED", "RELEASED"}]
        /\ hold' \in [Intents -> {"RESERVED", "CONSUMED", "RELEASED"}]
    BY <1>1 DEF TypesInv, Rest
  <2> QED
    BY <1>1, <2>1, <2>2 DEF TypesInv, Rest
<1> QED
  BY <1>4, <1>5

LEMMA RestStands ==
  ASSUME TypesInv, UNCHANGED <<intent, budget, hold, ordered, queue, faults>> PROVE Rest'
  BY DEF TypesInv, Rest

LEMMA TypesStep == TypesInv /\ [Next]_vars => TypesInv'
<1> SUFFICES ASSUME TypesInv, [Next]_vars PROVE Rest' /\ UsesCovered'
  BY ReconStep DEF TypesInv
<1>1. CASE UNCHANGED vars
  <2>1. UNCHANGED <<intent, budget, hold, ordered, queue, faults, uses, work, locks>>
    BY <1>1 DEF vars, ledgerVars, ownVars
  <2>2. Rest'
    BY <2>1, RestStands
  <2> QED
    BY <2>1, <2>2, StillCovered
<1>2. ASSUME NEW t \in Txns,
             RecordOrder(t) \/ NotePayment(t) \/ \E kind \in {"failed", "captured"} : UserPays(t, kind)
      PROVE  Rest' /\ UsesCovered'
  <2>1. UNCHANGED <<intent, budget, hold, queue, faults, uses, work, locks>>
    BY <1>2 DEF RecordOrder, NotePayment, UserPays, ledgerVars, ownVars
  <2>2. ordered' = ordered \/ ordered' = ordered \cup {t}
    BY <1>2 DEF RecordOrder, NotePayment, UserPays, ownVars
  <2>3. UsesCovered'
    BY <2>1, StillCovered
  <2> QED
    BY <2>1, <2>2, <2>3 DEF TypesInv, Rest
<1>3. CASE sweep_unknown_payments
  <2>1. UNCHANGED <<intent, budget, hold, ordered, faults, uses, work, locks>>
    BY <1>3 DEF sweep_unknown_payments, ledgerVars
  <2>2. queue' \in [Txns -> Nat]
    BY <1>3 DEF sweep_unknown_payments, TypesInv, Rest
  <2>3. UsesCovered'
    BY <2>1, StillCovered
  <2> QED
    BY <2>1, <2>2, <2>3 DEF TypesInv, Rest
<1>4. ASSUME NEW s \in Sessions, NEW t \in Txns, StartTask(s, t) PROVE Rest' /\ UsesCovered'
  <2>1. UNCHANGED <<intent, budget, hold, ordered, faults, uses, locks>>
    BY <1>4 DEF StartTask, rows
  <2>2. queue[t] > 0 /\ queue' = [queue EXCEPT ![t] = @ - 1]
    BY <1>4 DEF StartTask
  <2>3. queue' \in [Txns -> Nat]
    BY <2>2 DEF TypesInv, Rest
  <2>4. ASSUME NEW o \in Sessions PROVE work'[o].freed = 0 \/ work'[o].freed = work[o].freed
    <3>1. \/ UNCHANGED work
          \/ work' = [work EXCEPT ![s] = [txn |-> t, item |-> IntentOf[t],
                                          load |-> txn[t], row |-> txn[t], freed |-> 0]]
      BY <1>4 DEF StartTask
    <3> QED
      BY <3>1 DEF TypesInv, ReconInv, Shape
  <2>5. UsesCovered'
    BY <2>1, <2>4, StillCovered
  <2> QED
    BY <2>1, <2>3, <2>5 DEF TypesInv, Rest
<1>5. ASSUME NEW s \in Sessions, _get_or_create_job(s) \/ CountAttempt(s) \/ QueryRetry(s) \/ VerifyRow(s)
      PROVE  Rest' /\ UsesCovered'
  <2>1. UNCHANGED <<intent, budget, hold, ordered, queue, faults, uses, work>>
    BY <1>5 DEF _get_or_create_job, CountAttempt, QueryRetry, VerifyRow, rows, ownVars
  <2>2. UNCHANGED locks \/ \E r : Take(s, r)
    BY <1>5 DEF _get_or_create_job, CountAttempt, QueryRetry, VerifyRow
  <2>3. UsesCovered'
    BY <2>1, <2>2, TakeCovered
  <2> QED
    BY <2>1, <2>3, RestStands
<1>6. ASSUME NEW s \in Sessions, QueryAnswered(s) PROVE Rest' /\ UsesCovered'
  <2>1. UNCHANGED <<intent, budget, hold, ordered, queue, faults, uses, locks>>
    BY <1>6 DEF QueryAnswered, rows, ownVars
  <2>2. PICK row : work' = [work EXCEPT ![s].row = row]
    BY <1>6 DEF QueryAnswered
  <2>3. \A o \in Sessions : work'[o].freed = work[o].freed
    BY <2>2 DEF TypesInv, ReconInv, Shape, WorkType
  <2>4. UsesCovered'
    BY <2>1, <2>3, StillCovered
  <2> QED
    BY <2>1, <2>4, RestStands
<1>7. ASSUME NEW s \in Sessions, ReconcileStep(s) PROVE Rest' /\ UsesCovered'
  <2>1. UNCHANGED <<intent, budget, hold, ordered, queue, faults, uses>>
    BY <1>7 DEF ReconcileStep, LockAudit, settle_budget_for_intent, SelectHold, UpdateHold, FreeUse,
                rows, ownVars
  <2>2. CASE FreeUse(s, "commit")
    BY <2>1, <2>2, FreeCovered, RestStands
  <2>3. CASE ~FreeUse(s, "commit")
    <3>1. UNCHANGED work /\ (UNCHANGED locks \/ \E r : Take(s, r))
      BY <1>7, <2>3 DEF ReconcileStep, LockAudit, settle_budget_for_intent, SelectHold, UpdateHold
    <3>2. UsesCovered'
      BY <2>1, <3>1, TakeCovered
    <3> QED
      BY <2>1, <3>2, RestStands
  <2> QED
    BY <2>2, <2>3
<1>8. ASSUME NEW s \in Sessions, CommitTask(s) PROVE Rest' /\ UsesCovered'
  BY <1>8, CommitCovered
<1>9. ASSUME NEW s \in Sessions, GiveUp(s) PROVE Rest' /\ UsesCovered'
  <2>1. UNCHANGED <<intent, budget, hold, ordered, queue, faults, uses>> /\ EndTask(s)
    BY <1>9 DEF GiveUp, rows
  <2> QED
    BY <2>1, EndCovered, RestStands
<1>10. ASSUME NEW s \in Sessions, FailTask(s) PROVE Rest' /\ UsesCovered'
  <2>1. /\ UNCHANGED <<intent, budget, hold, ordered, uses>> /\ EndTask(s)
        /\ faults < MaxFaults /\ faults' = faults + 1
        /\ \E redelivered \in {0, 1} : queue' = [queue EXCEPT ![work[s].txn] = @ + redelivered]
    BY <1>10 DEF FailTask, rows
  <2>2. queue' \in [Txns -> Nat]
    <3>1. PICK redelivered \in {0, 1} :
            queue' = [queue EXCEPT ![work[s].txn] = queue[work[s].txn] + redelivered]
      BY <2>1
    <3>2. queue \in [Txns -> Nat] /\ work[s].txn \in Txns
      BY AtHome DEF TypesInv, Rest
    <3>3. queue[work[s].txn] + redelivered \in Nat
      BY <3>2
    <3> QED
      BY <3>1, <3>2, <3>3
  <2>3. faults' \in 0..MaxFaults
    BY <2>1, ReconciliationAssumption DEF TypesInv, Rest
  <2>4. UsesCovered'
    BY <2>1, EndCovered
  <2> QED
    BY <2>1, <2>2, <2>3, <2>4 DEF TypesInv, Rest
<1>11. ASSUME NEW s \in Sessions, WorkerStep(s) PROVE Rest' /\ UsesCovered'
  BY <1>4, <1>5, <1>6, <1>7, <1>8, <1>9, <1>11 DEF WorkerStep
<1> QED
  BY <1>1, <1>2, <1>3, <1>10, <1>11 DEF Next

\* Rows, jobs, tasks and sessions keep the shape of their tables and objects, the
\* count of the campaign's uses among them: it never goes below zero.
THEOREM ReconciliationTypes == Spec => []TypeOK
<1>1. TypesInv => TypeOK
  BY DEF TypesInv, UsesCovered, Rest, ReconInv, Shape, Outcomes, TypeOK, TaskType
<1> QED
  BY <1>1, TypesInit, TypesStep, PTL DEF Spec
=============================================================================
