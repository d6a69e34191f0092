--------------------------- MODULE LedgerSessions ---------------------------
(***************************************************************************)
(* The rows a payment's outcome is written to, and the database sessions   *)
(* that write them: one request or task is one PostgreSQL transaction at   *)
(* READ COMMITTED.  A session reads committed rows, an UPDATE takes the    *)
(* row's lock and waits while another session holds it, and what a session *)
(* wrote becomes visible to the others when it commits.  The steps here    *)
(* are those of transition_transaction and of the two settlements it       *)
(* calls; the modules that extend this one say when a session takes them.  *)
(***************************************************************************)
EXTENDS TransactionStates, Integers, FiniteSets

CONSTANTS
  Sessions,   \* requests and tasks that hold a database session
  Txns,       \* transaction rows
  Intents,    \* intent rows; each has one budget and one campaign reservation
  IntentOf    \* the intent a transaction pays for

ASSUME IntentOfAssumption ==
  /\ Txns # {}
  /\ IsFiniteSet(Intents)
  /\ IntentOf \in [Txns -> Intents]

VARIABLES
  txn,        \* committed transaction rows
  intent,     \* committed status of every intent row
  budget,     \* committed status of the budget reservation of every intent
  hold,       \* committed status of the campaign reservation of every intent
  uses,       \* committed total_uses of the campaign the intents hold
  locks,      \* the row and advisory locks each session holds until it ends
  pc,         \* the step each session takes next
  work        \* what each session holds in memory

rows == <<txn, intent, budget, hold, uses>>
ledgerVars == <<txn, intent, budget, hold, uses, locks, pc, work>>

Row == [status : TransactionStatus, version : Nat, paid : BOOLEAN]

\* checkout writes SUBMITTED with its sixth transition, so at version 7.
SubmittedRow == [status |-> "SUBMITTED", version |-> 7, paid |-> FALSE]

Blank ==
  [txn |-> CHOOSE t \in Txns : TRUE, item |-> CHOOSE i \in Intents : TRUE,
   load |-> SubmittedRow, row |-> SubmittedRow, freed |-> 0]

-----------------------------------------------------------------------------
(* Locks.  A resource is a pair: the table or lock space, and the row.     *)

Campaign == <<"campaign", "row">>
AuditLock == <<"audit", "chain">>

Free(s, r) == \A o \in Sessions \ {s} : r \notin locks[o]

Take(s, r) ==
  /\ Free(s, r)
  /\ locks' = [locks EXCEPT ![s] = @ \cup {r}]

Goto(s, step) == pc' = [pc EXCEPT ![s] = step]

\* Variant: an advisory lock of session level outlives the transaction.
EndSession_keeps_audit(s, step) ==
  /\ Goto(s, step)
  /\ locks' = [locks EXCEPT ![s] = @ \cap {AuditLock}]
  /\ work' = [work EXCEPT ![s] = Blank]

\* The session ends: its locks go, and so does its identity map.
EndSession(s, step) ==
  /\ Goto(s, step)
  /\ locks' = [locks EXCEPT ![s] = {}]
  /\ work' = [work EXCEPT ![s] = Blank]

-----------------------------------------------------------------------------
(* transition_transaction.  The version it compares is the one the session *)
(* loaded itself, and a second SELECT in a session does not refresh a row, *)
(* so the comparison cannot fail and is not a guard here.                  *)

Transitioned(row, target) ==
  [row EXCEPT !.status = target, !.version = @ + 1]

\* Variant: the update skips a row that is locked.
FlushRow_skip_locked(s) ==
  /\ pc[s] = "flush"
  /\ \/ /\ Take(s, <<"txn", work[s].txn>>)
        /\ Goto(s, IF work[s].row.status # work[s].load.status THEN "budget" ELSE "commit")
     \/ /\ ~Free(s, <<"txn", work[s].txn>>)
        /\ Goto(s, "commit")
        /\ UNCHANGED locks
  /\ UNCHANGED <<rows, work>>

\* UPDATE transactions SET <changed columns> WHERE id = ...: no version
\* predicate, so a row that another session changed meanwhile is overwritten.
FlushRow(s) ==
  LET w == work[s]
      settles == /\ w.row.status # w.load.status
                 /\ w.row.status \in SettlingStatuses
  IN /\ pc[s] = "flush"
     /\ Take(s, <<"txn", w.txn>>)
     /\ Goto(s, IF settles THEN "budget"
                ELSE IF w.row.status # w.load.status THEN "audit" ELSE "commit")
     /\ UNCHANGED <<rows, work>>

\* Variant: the update is not restricted to reservations that are RESERVED.
settle_budget_unfiltered(s) ==
  /\ pc[s] = "budget"
  /\ Take(s, <<"budget", work[s].item>>)
  /\ Goto(s, "select")
  /\ UNCHANGED <<rows, work>>

\* UPDATE budget_reservations ... WHERE intent_id AND status = 'RESERVED'.
settle_budget_for_intent(s) ==
  LET i == work[s].item IN
  /\ pc[s] = "budget"
  /\ \/ budget[i] = "RESERVED" /\ Take(s, <<"budget", i>>)
     \/ budget[i] # "RESERVED" /\ UNCHANGED locks
  /\ Goto(s, "select")
  /\ UNCHANGED <<rows, work>>

\* Variant: the SELECT is not restricted to holds that are RESERVED.
SelectHold_unfiltered(s, after) ==
  /\ pc[s] = "select"
  /\ Goto(s, "hold")
  /\ UNCHANGED <<rows, locks, work>>

\* settle_campaign_for_intent, its three statements one step each: it reads
\* the reservation without a lock, then updates it whatever the row count...
SelectHold(s, after) ==
  /\ pc[s] = "select"
  /\ Goto(s, IF hold[work[s].item] = "RESERVED" THEN "hold" ELSE after)
  /\ UNCHANGED <<rows, locks, work>>

UpdateHold(s, captured, after) ==
  LET i == work[s].item IN
  /\ pc[s] = "hold"
  /\ \/ hold[i] = "RESERVED" /\ Take(s, <<"hold", i>>)
     \/ hold[i] # "RESERVED" /\ UNCHANGED locks
  /\ Goto(s, IF captured THEN after ELSE "free")
  /\ UNCHANGED <<rows, work>>

\* Variant: one use is given back for all the holds that are released.
FreeUse_once(s, after) ==
  /\ pc[s] = "free"
  /\ \/ /\ uses > 0
        /\ Take(s, Campaign)
        /\ work' = [work EXCEPT ![s].freed = 1]
     \/ /\ uses <= 0
        /\ UNCHANGED <<locks, work>>
  /\ Goto(s, after)
  /\ UNCHANGED rows

\* ...and gives the use back with total_uses - 1 where total_uses > 0.
FreeUse(s, after) ==
  /\ pc[s] = "free"
  /\ \/ /\ uses > work[s].freed
        /\ Take(s, Campaign)
        /\ work' = [work EXCEPT ![s].freed = @ + 1]
     \/ /\ uses <= work[s].freed
        /\ UNCHANGED <<locks, work>>
  /\ Goto(s, after)
  /\ UNCHANGED rows

\* record_audit_event: an advisory lock that is held until the session ends.
LockAudit(s, after) ==
  /\ pc[s] = "audit"
  /\ Take(s, AuditLock)
  /\ Goto(s, after)
  /\ UNCHANGED <<rows, work>>

\* Variant: only a completed payment is copied.
MirrorIntent_completed_only(s) ==
  /\ pc[s] = "mirror"
  /\ IF work[s].row.status = "COMPLETED"
       THEN Take(s, <<"intent", work[s].item>>) ELSE UNCHANGED locks
  /\ Goto(s, "commit")
  /\ UNCHANGED <<rows, work>>

\* UPDATE intents SET status: the callers copy the outcome for the UI.
MirrorIntent(s) ==
  /\ pc[s] = "mirror"
  /\ Take(s, <<"intent", work[s].item>>)
  /\ Goto(s, "commit")
  /\ UNCHANGED <<rows, work>>

-----------------------------------------------------------------------------
(* Commit: every row the session locked takes the value it wrote there.    *)

\* Variant: the UPDATE writes every column of the row the session holds.
Overwrite_whole_row(current, w) ==
  [ status  |-> IF w.row.status # w.load.status THEN w.row.status ELSE current.status,
    version |-> w.row.version,
    paid    |-> w.row.paid ]

\* The ORM writes the columns the session changed, and no other.
Overwrite(current, w) ==
  [ status  |-> IF w.row.status # w.load.status THEN w.row.status ELSE current.status,
    version |-> IF w.row.status # w.load.status THEN w.row.version ELSE current.version,
    paid    |-> current.paid \/ w.row.paid ]

CommitRows(s, captured) ==
  LET w == work[s]
      Wrote(r) == r \in locks[s]
  IN /\ txn' = [t \in Txns |-> IF Wrote(<<"txn", t>>) THEN Overwrite(txn[t], w) ELSE txn[t]]
     /\ intent' = [i \in Intents |-> IF Wrote(<<"intent", i>>) THEN w.row.status ELSE intent[i]]
     /\ budget' = [i \in Intents |-> IF ~Wrote(<<"budget", i>>) THEN budget[i]
                                     ELSE IF captured THEN "SETTLED" ELSE "RELEASED"]
     /\ hold' = [i \in Intents |-> IF ~Wrote(<<"hold", i>>) THEN hold[i]
                                   ELSE IF captured THEN "CONSUMED" ELSE "RELEASED"]
     /\ uses' = uses - w.freed
=============================================================================
