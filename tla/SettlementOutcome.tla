------------------------- MODULE SettlementOutcome -------------------------
(***************************************************************************)
(* Proofs about what a settlement leaves in the ledger: a budget           *)
(* reservation is settled once, the intent shows the status of one of its  *)
(* payments, an outcome event leaves its transaction settled and a capture *)
(* its payment on it, and no use of the campaign is lost.                  *)
(***************************************************************************)
EXTENDS SettlementProofs

Commits(s) ==
  /\ CommitRows(s, Captured(s))
  /\ EndSession(s, "idle")
  /\ pc[s] = IF s \in Webhooks THEN "commit" ELSE "sweep"

\* What the buyer writes over the intent's copy, and nothing else.
Cancels(i) ==
  /\ intent' = [intent EXCEPT ![i] = "CANCELLED"]
  /\ UNCHANGED <<txn, budget, hold, uses, pc, locks, work, event, inbox>>

\* Committed rows change in no other step than a commit or a cancellation.
LEMMA OnlyCommitsWrite ==
  ASSUME [Next]_vars
  PROVE  \/ UNCHANGED rows
         \/ \E i \in Intents : Cancels(i)
         \/ \E s \in Sessions : Commits(s)
<1>1. ASSUME NEW s \in Sessions, SessionStep(s)
      PROVE  UNCHANGED rows \/ Commits(s)
  <2>1. CASE s \in Webhooks /\ process_webhook(s)
    BY <2>1 DEF process_webhook, InsertEvent, InsertConflict, HandleEvent, CommitWebhook, Recover,
                Commits
  <2>2. CASE s \in Janitors /\ release_expired_campaign_reservations(s)
    <3>1. Captured(s) = FALSE /\ s \notin Webhooks
      BY <2>2, SettlementAssumption DEF Captured
    <3> QED
      BY <2>2, <3>1 DEF release_expired_campaign_reservations, SweepNext, CommitSweep, Commits
  <2>3. CASE Settle(s)
    BY <2>3 DEF Settle, FlushRow, settle_budget_for_intent, SelectHold, UpdateHold, FreeUse,
                LockAudit, MirrorIntent
  <2> QED
    BY <1>1, <2>1, <2>2, <2>3 DEF SessionStep
<1>2. ASSUME NEW s \in Sessions, SessionError(s) \/ Crash(s) \/ DeadlockVictim(s)
      PROVE  UNCHANGED rows
  BY <1>2 DEF SessionError, Crash, DeadlockVictim
<1>3. ASSUME NEW s \in Webhooks, NEW e \in Events, Deliver(s, e)
      PROVE  UNCHANGED rows
  BY <1>3 DEF Deliver
<1>4. ASSUME NEW e \in Events, retry_webhook_event(e)
      PROVE  UNCHANGED rows
  BY <1>4 DEF retry_webhook_event, ledgerVars, rows
<1>5. ASSUME NEW i \in Intents, ExpireHold(i)
      PROVE  UNCHANGED rows
  BY <1>5 DEF ExpireHold, ledgerVars, rows
<1>6. ASSUME NEW j \in Janitors, StartSweep(j)
      PROVE  UNCHANGED rows
  BY <1>6 DEF StartSweep
<1>7. ASSUME NEW i \in Cancellable, cancel_intent(i)
      PROVE  i \in Intents /\ Cancels(i)
  BY <1>7, SettlementAssumption DEF cancel_intent, ownVars, Cancels
<1>8. CASE UNCHANGED vars
  BY <1>8 DEF vars, ledgerVars, rows
<1> QED
  BY <1>1, <1>2, <1>3, <1>4, <1>5, <1>6, <1>7, <1>8 DEF Next

\* A session gets a lock in no other way than by Take, which a step that
\* settles a budget does only on a reservation that is still RESERVED.
LEMMA BudgetLockTaken ==
  ASSUME IntakeInv, [Next]_vars, NEW s \in Sessions, NEW i \in Intents,
         <<"budget", i>> \in locks'[s], <<"budget", i>> \notin locks[s]
  PROVE  budget[i] = "RESERVED" /\ UNCHANGED rows
<1>0. /\ locks \in [Sessions -> SUBSET Resources] /\ work \in [Sessions -> WorkType]
      /\ Webhooks \subseteq Sessions /\ Janitors \subseteq Sessions
      /\ \A e \in Events : <<"event", e>> # <<"budget", i>>
      /\ \A t \in Txns : <<"txn", t>> # <<"budget", i>>
      /\ Campaign # <<"budget", i>> /\ AuditLock # <<"budget", i>>
  BY Typed, SettlementAssumption DEF IntakeInv, Campaign, AuditLock
<1>1. ASSUME NEW o \in Sessions, NEW step, EndSession(o, step)
      PROVE  FALSE
  BY <1>0, <1>1 DEF EndSession
<1>2. ASSUME NEW o \in Sessions, NEW r, Take(o, r)
      PROVE  r = <<"budget", i>> /\ o = s
  BY <1>0, <1>2 DEF Take
<1>3. ASSUME UNCHANGED locks
      PROVE  FALSE
  BY <1>3
<1>4. ASSUME NEW o \in Sessions, SessionStep(o)
      PROVE  budget[i] = "RESERVED" /\ UNCHANGED rows
  <2>1. CASE o \in Webhooks /\ process_webhook(o)
    <3>1. CASE InsertEvent(o)
      BY <1>0, <1>2, <3>1 DEF InsertEvent
    <3>2. CASE InsertConflict(o) \/ CommitWebhook(o) \/ Recover(o)
      BY <1>1, <3>2 DEF InsertConflict, CommitWebhook, Recover
    <3>3. CASE HandleEvent(o)
      BY <1>3, <3>3 DEF HandleEvent
    <3> QED
      BY <2>1, <3>1, <3>2, <3>3 DEF process_webhook
  <2>2. CASE o \in Janitors /\ release_expired_campaign_reservations(o)
    BY <1>1, <1>3, <2>2 DEF release_expired_campaign_reservations, SweepNext, CommitSweep
  <2>3. CASE FlushRow(o)
    <3>1. Take(o, <<"txn", work[o].txn>>)
      BY <2>3 DEF FlushRow
    <3> QED
      BY <1>2, <3>1
  <2>4. CASE settle_budget_for_intent(o)
    <3>1. /\ UNCHANGED rows
          /\ \/ budget[work[o].item] = "RESERVED" /\ Take(o, <<"budget", work[o].item>>)
             \/ UNCHANGED locks
      BY <2>4 DEF settle_budget_for_intent
    <3> QED
      BY <1>2, <1>3, <3>1
  <2>5. CASE SelectHold(o, AfterHold(o))
    BY <1>3, <2>5 DEF SelectHold
  <2>6. CASE UpdateHold(o, Captured(o), AfterHold(o))
    <3>1. Take(o, <<"hold", work[o].item>>) \/ UNCHANGED locks
      BY <2>6 DEF UpdateHold
    <3> QED
      BY <1>2, <1>3, <3>1
  <2>7. CASE FreeUse(o, AfterHold(o))
    BY <1>0, <1>2, <1>3, <2>7 DEF FreeUse
  <2>8. CASE LockAudit(o, "mirror")
    BY <1>0, <1>2, <2>8 DEF LockAudit
  <2>9. CASE MirrorIntent(o)
    <3>1. Take(o, <<"intent", work[o].item>>)
      BY <2>9 DEF MirrorIntent
    <3> QED
      BY <1>2, <3>1
  <2> QED
    BY <1>4, <2>1, <2>2, <2>3, <2>4, <2>5, <2>6, <2>7, <2>8, <2>9 DEF SessionStep, Settle
<1>5. ASSUME NEW o \in Sessions, SessionError(o) \/ Crash(o) \/ DeadlockVictim(o)
      PROVE  FALSE
  BY <1>1, <1>5 DEF SessionError, Crash, DeadlockVictim, Abort
<1>6. ASSUME NEW o \in Webhooks, NEW e \in Events, Deliver(o, e)
      PROVE  FALSE
  BY <1>3, <1>6 DEF Deliver
<1>7. ASSUME NEW e \in Events, retry_webhook_event(e)
      PROVE  FALSE
  BY <1>3, <1>7 DEF retry_webhook_event, ledgerVars
<1>8. ASSUME NEW k \in Intents, ExpireHold(k)
      PROVE  FALSE
  BY <1>3, <1>8 DEF ExpireHold, ledgerVars
<1>9. ASSUME NEW j \in Janitors, StartSweep(j)
      PROVE  FALSE
  BY <1>3, <1>9 DEF StartSweep
<1>10. ASSUME NEW k \in Cancellable, cancel_intent(k)
       PROVE  FALSE
  BY <1>3, <1>10 DEF cancel_intent
<1>11. CASE UNCHANGED vars
  BY <1>3, <1>11 DEF vars, ledgerVars
<1> QED
  BY <1>4, <1>5, <1>6, <1>7, <1>8, <1>9, <1>10, <1>11 DEF Next

-----------------------------------------------------------------------------
(* A budget reservation is settled once.                                   *)

\* A session that is about to settle a reservation locked it while it was
\* RESERVED, and nobody else can have committed to it since.
BudgetLocked ==
  \A s \in Sessions, i \in Intents : <<"budget", i>> \in locks[s] => budget[i] = "RESERVED"

\* A commit writes the reservations of its own session only.
LEMMA BudgetWrite ==
  ASSUME IntakeInv, [Next]_vars, NEW i \in Intents, budget'[i] # budget[i]
  PROVE  \E s \in Sessions : <<"budget", i>> \in locks[s] /\ EndSession(s, "idle")
<1>1. PICK s \in Sessions : Commits(s)
  BY OnlyCommitsWrite DEF rows, Cancels
<1>2. <<"budget", i>> \in locks[s]
  BY <1>1 DEF Commits, CommitRows
<1> QED
  BY <1>1, <1>2 DEF Commits

LEMMA InitBudgetLocked == Init => BudgetLocked
BY DEF Init, BudgetLocked

LEMMA NextBudgetLocked == IntakeInv /\ BudgetLocked /\ [Next]_vars => BudgetLocked'
<1> SUFFICES ASSUME IntakeInv, BudgetLocked, [Next]_vars,
                    NEW s \in Sessions, NEW i \in Intents, <<"budget", i>> \in locks'[s]
             PROVE  budget'[i] = "RESERVED"
  BY DEF BudgetLocked
<1>1. CASE <<"budget", i>> \notin locks[s]
  BY <1>1, BudgetLockTaken DEF rows
<1>2. CASE <<"budget", i>> \in locks[s]
  <2>1. budget[i] = "RESERVED"
    BY <1>2 DEF BudgetLocked
  <2>2. ASSUME budget'[i] # budget[i]
        PROVE  FALSE
    <3>1. PICK o \in Sessions : <<"budget", i>> \in locks[o] /\ EndSession(o, "idle")
      BY <2>2, BudgetWrite
    <3>2. o = s
      BY <1>2, <3>1 DEF IntakeInv, LocksExclusive
    <3> QED
      BY <3>1, <3>2, Typed DEF IntakeInv, EndSession
  <2> QED
    BY <2>1, <2>2
<1> QED
  BY <1>1, <1>2

\* However many sessions settle one intent, and whatever outcomes they bring,
\* the first commit decides its budget reservation for good.
THEOREM BudgetOnce == Spec => BudgetSettledOnce
<1>1. IntakeInv /\ BudgetLocked /\ [Next]_vars
        => [\A i \in Intents : budget[i] # "RESERVED" => budget'[i] = budget[i]]_vars
  BY BudgetWrite DEF BudgetLocked
<1>2. Spec => []BudgetLocked
  BY InitBudgetLocked, NextBudgetLocked, IntakeExclusive, PTL DEF Spec
<1> QED
  BY <1>1, <1>2, IntakeExclusive, PTL DEF Spec, BudgetSettledOnce

-----------------------------------------------------------------------------
(* The intent's copy of the status.                                        *)

Changed(s) == work[s].row.status # work[s].load.status

\* Where a session stands between the transaction's row and the intent's: it
\* settles only what it changed, and changed legally, it owns the row it
\* changed, and when it comes to commit a change it owns the intent's row too,
\* and no intent's otherwise.
Stage(s) ==
  /\ s \in Webhooks /\ pc[s] \in Applying =>
       /\ work[s].item = IntentOf[work[s].txn]
       /\ pc[s] \notin {"flush", "commit"} => Changed(s)
       /\ pc[s] # "flush" /\ Changed(s) => <<"txn", work[s].txn>> \in locks[s]
       /\ pc[s] = "commit" /\ Changed(s) => <<"intent", work[s].item>> \in locks[s]
       /\ Changed(s) => can_transition(work[s].load.status, work[s].row.status)
  /\ \A i \in Intents : <<"intent", i>> \in locks[s] =>
       s \in Webhooks /\ pc[s] = "commit" /\ i = work[s].item /\ Changed(s)

Staged == \A s \in Sessions : Stage(s)

LEMMA InitMirror == Init => Staged /\ MirrorAgrees
<1> SUFFICES ASSUME Init PROVE Staged /\ MirrorAgrees
  OBVIOUS
<1>1. Staged
  BY DEF Init, Staged, Stage, Applying
<1>2. MirrorAgrees
  BY IntentOfAssumption DEF Init, MirrorAgrees, SubmittedRow
<1> QED
  BY <1>1, <1>2

\* A step of one session leaves the stage of the others as it was.
LEMMA StageOfOne ==
  ASSUME Staged, NEW s \in Sessions, Stage(s)',
         \A o \in Sessions \ {s} : pc'[o] = pc[o] /\ locks'[o] = locks[o] /\ work'[o] = work[o]
  PROVE  Staged'
<1>1. ASSUME NEW o \in Sessions \ {s} PROVE Stage(o)'
  <2>1. pc'[o] = pc[o] /\ locks'[o] = locks[o] /\ work'[o] = work[o] /\ Stage(o)
    BY DEF Staged
  <2> QED
    BY <2>1 DEF Stage, Changed
<1> QED
  BY <1>1 DEF Staged

LEMMA StageAtEnd ==
  ASSUME TypeOK, Staged, NEW s \in Sessions, NEW step \in {"idle", "recover"}, EndSession(s, step)
  PROVE  Staged'
<1>1. pc'[s] \notin Applying /\ locks'[s] = {}
  BY Typed DEF EndSession, Goto, Applying
<1>2. Stage(s)'
  BY <1>1 DEF Stage
<1> QED
  BY <1>2, StageOfOne, Typed DEF EndSession, Goto

\* A session that starts or inserts its event owns no intent's row yet.
LEMMA StageAtStart ==
  ASSUME TypeOK, Staged, NEW s \in Sessions, NEW step, step \notin Applying,
         pc[s] # "commit", Goto(s, step),
         \/ UNCHANGED locks
         \/ \E r : (\A i \in Intents : r # <<"intent", i>>) /\ Take(s, r),
         \A o \in Sessions \ {s} : work'[o] = work[o]
  PROVE  Staged'
<1>1. pc'[s] \notin Applying /\ \A o \in Sessions \ {s} : pc'[o] = pc[o] /\ locks'[o] = locks[o]
  BY Typed DEF Goto, Take
<1>2. \A i \in Intents : <<"intent", i>> \notin locks[s]
  BY DEF Staged, Stage
<1>3. \A i \in Intents : <<"intent", i>> \notin locks'[s]
  BY <1>2, Typed DEF Take
<1>4. Stage(s)'
  BY <1>1, <1>3 DEF Stage
<1> QED
  BY <1>1, <1>4, StageOfOne

\* _handle_event changes a status along a legal transition only.
LEMMA HandledLegal ==
  ASSUME NEW kind, NEW row \in Row, _handle_event(kind, row).status # row.status
  PROVE  can_transition(row.status, _handle_event(kind, row).status)
<1>1. ASSUME NEW r \in Row, NEW target
      PROVE  Transitioned(r, target).status = target
  BY DEF Row, Transitioned
<1> DEFINE noted == [row EXCEPT !.paid = @ \/ kind = "captured"]
<1>2. noted \in Row /\ noted.status = row.status
  BY DEF Row
<1>3. CASE kind \in Captures
  <2>1. _handle_event(kind, row) =
          IF can_transition(row.status, "COMPLETED") THEN Transitioned(noted, "COMPLETED") ELSE noted
    BY <1>3 DEF _handle_event, Captures
  <2> HIDE DEF noted
  <2> QED
    BY <1>1, <1>2, <2>1
<1>4. CASE kind = "failed"
  BY <1>1, <1>4 DEF _handle_event, Captures
<1>5. CASE kind \notin Captures \cup {"failed"}
  BY <1>5 DEF _handle_event
<1> QED
  BY <1>3, <1>4, <1>5

LEMMA StageAtHandle ==
  ASSUME TypeOK, Staged, NEW s \in Webhooks, HandleEvent(s)
  PROVE  Staged'
<1> DEFINE t == EventTxn[event[s]]
           row == _handle_event(EventKind[event[s]], txn[t])
<1>0. s \in Sessions
  BY SettlementAssumption
<1>1. /\ pc'[s] = IF row = txn[t] THEN "commit" ELSE "flush"
      /\ locks' = locks /\ pc[s] = "load"
      /\ \A o \in Sessions \ {s} : pc'[o] = pc[o] /\ locks'[o] = locks[o] /\ work'[o] = work[o]
  BY <1>0, Typed DEF HandleEvent, Goto
<1>2. /\ work'[s].txn = t /\ work'[s].item = IntentOf[t]
      /\ work'[s].load = txn[t] /\ work'[s].row = row
  BY <1>0, Typed DEF HandleEvent
<1>7. txn[t] \in Row
  BY SettlementAssumption, Typed DEF TypeOK
<1>8. row.status # txn[t].status => can_transition(txn[t].status, row.status)
  BY <1>7, HandledLegal
<1> HIDE DEF t, row
<1>3. pc'[s] = "commit" => work'[s].row.status = work'[s].load.status
  BY <1>1, <1>2
<1>4. \A i \in Intents : <<"intent", i>> \notin locks'[s]
  BY <1>0, <1>1 DEF Staged, Stage
<1>5. pc'[s] \in {"commit", "flush"}
  BY <1>1
<1>6. Stage(s)'
  BY <1>2, <1>3, <1>4, <1>5, <1>8 DEF Stage, Changed
<1> QED
  BY <1>0, <1>1, <1>6, StageOfOne

LEMMA StageAtSettle ==
  ASSUME IntakeInv, Staged, NEW s \in Sessions, Settle(s)
  PROVE  Staged'
<1>0. /\ locks \in [Sessions -> SUBSET Resources] /\ pc \in [Sessions -> Steps]
      /\ work \in [Sessions -> WorkType] /\ work[s].item \in Intents /\ Stage(s)
      /\ Sessions = Webhooks \cup Janitors /\ Webhooks \cap Janitors = {}
  BY Typed, SettlementAssumption DEF IntakeInv, WorkType, Staged
<1>1. /\ work'[s].txn = work[s].txn /\ work'[s].item = work[s].item
      /\ work'[s].row = work[s].row /\ work'[s].load = work[s].load
      /\ \A o \in Sessions \ {s} : work'[o] = work[o]
  <2>1. CASE UNCHANGED work
    BY <2>1
  <2>2. ASSUME NEW n, work' = [work EXCEPT ![s].freed = n]
        PROVE  /\ work'[s].txn = work[s].txn /\ work'[s].item = work[s].item
               /\ work'[s].row = work[s].row /\ work'[s].load = work[s].load
               /\ \A o \in Sessions \ {s} : work'[o] = work[o]
    BY <1>0, <2>2 DEF WorkType
  <2>3. UNCHANGED work \/ work' = [work EXCEPT ![s].freed = work[s].freed + 1]
    BY <1>0 DEF Settle, FlushRow, settle_budget_for_intent, SelectHold, UpdateHold, FreeUse,
                LockAudit, MirrorIntent
  <2> QED
    BY <2>1, <2>2, <2>3
<1>2. Changed(s)' = Changed(s)
  BY <1>1 DEF Changed
<1>3. /\ pc[s] \in {"flush", "budget", "select", "hold", "free", "audit", "mirror"}
      /\ \A i \in Intents : <<"intent", i>> \notin locks[s]
      /\ s \in Janitors => pc[s] \in {"select", "hold", "free"}
  BY <1>0 DEF Stage, Settle, FlushRow, settle_budget_for_intent, SelectHold, UpdateHold, FreeUse,
              LockAudit, MirrorIntent, IntakeInv, JanitorSteps
<1>4. AfterHold(s) = IF s \in Webhooks THEN "audit" ELSE "sweep"
  BY DEF AfterHold
<1>5. ASSUME NEW step, Goto(s, step)
      PROVE  pc'[s] = step /\ \A o \in Sessions \ {s} : pc'[o] = pc[o]
  BY <1>0, <1>5 DEF Goto
<1>6. ASSUME NEW r, Take(s, r)
      PROVE  /\ locks'[s] = locks[s] \cup {r}
             /\ \A o \in Sessions \ {s} : locks'[o] = locks[o]
  BY <1>0, <1>6 DEF Take
<1>7. CASE FlushRow(s)
  <2> DEFINE r == <<"txn", work[s].txn>>
  <2>1. PICK step \in {"budget", "audit", "commit"} : Goto(s, step) /\ (step = "commit" <=> ~Changed(s))
    BY <1>7 DEF FlushRow, Changed
  <2>2. Take(s, r) /\ s \in Webhooks /\ pc[s] = "flush" /\ pc[s] \in Applying
    BY <1>0, <1>3, <1>7 DEF FlushRow, Applying
  <2>3. /\ work[s].item = IntentOf[work[s].txn]
        /\ Changed(s) => can_transition(work[s].load.status, work[s].row.status)
    BY <1>0, <2>2 DEF Stage
  <2>4. \A i \in Intents : <<"intent", i>> \notin locks'[s]
    <3>1. locks'[s] = locks[s] \cup {r}
      BY <1>6, <2>2
    <3>2. \A i \in Intents : <<"intent", i>> # r
      OBVIOUS
    <3> QED
      BY <1>3, <3>1, <3>2
  <2>5. Stage(s)'
    BY <1>1, <1>2, <1>5, <1>6, <2>1, <2>2, <2>3, <2>4 DEF Stage
  <2> QED
    BY <1>1, <1>5, <1>6, <2>1, <2>2, <2>5, StageOfOne
<1>8. ASSUME s \in Webhooks \/ pc[s] # "mirror", pc[s] # "flush",
             NEW step, step # "flush", step # "commit", Goto(s, step),
             UNCHANGED locks \/ \E r : (\A i \in Intents : r # <<"intent", i>>) /\ Take(s, r)
      PROVE  Staged'
  <2>1. /\ \A o \in Sessions \ {s} : locks'[o] = locks[o] /\ pc'[o] = pc[o]
        /\ locks[s] \subseteq locks'[s] /\ pc'[s] = step
        /\ \A i \in Intents : <<"intent", i>> \notin locks'[s]
    BY <1>3, <1>5, <1>6, <1>8
  <2>2. s \in Webhooks => /\ work[s].item = IntentOf[work[s].txn] /\ Changed(s)
                          /\ <<"txn", work[s].txn>> \in locks[s]
                          /\ can_transition(work[s].load.status, work[s].row.status)
    BY <1>0, <1>3, <1>8 DEF Stage, Applying
  <2>3. Stage(s)'
    BY <1>1, <1>2, <1>8, <2>1, <2>2 DEF Stage
  <2> QED
    BY <1>1, <2>1, <2>3, StageOfOne
<1>9. CASE settle_budget_for_intent(s)
  <2>1. UNCHANGED locks \/ Take(s, <<"budget", work[s].item>>)
    BY <1>9 DEF settle_budget_for_intent
  <2>2. \A i \in Intents : <<"budget", work[s].item>> # <<"intent", i>>
    OBVIOUS
  <2>3. Goto(s, "select") /\ pc[s] = "budget"
    BY <1>9 DEF settle_budget_for_intent
  <2> QED
    BY <1>8, <2>1, <2>2, <2>3
<1>10. CASE SelectHold(s, AfterHold(s))
  <2>1. UNCHANGED locks /\ pc[s] = "select" /\ (Goto(s, "hold") \/ Goto(s, "audit") \/ Goto(s, "sweep"))
    BY <1>4, <1>10 DEF SelectHold
  <2> QED
    BY <1>8, <2>1
<1>11. CASE UpdateHold(s, Captured(s), AfterHold(s))
  <2>1. UNCHANGED locks \/ Take(s, <<"hold", work[s].item>>)
    BY <1>11 DEF UpdateHold
  <2>2. \A i \in Intents : <<"hold", work[s].item>> # <<"intent", i>>
    OBVIOUS
  <2>3. pc[s] = "hold" /\ (Goto(s, "free") \/ Goto(s, "audit") \/ Goto(s, "sweep"))
    BY <1>4, <1>11 DEF UpdateHold
  <2> QED
    BY <1>8, <2>1, <2>2, <2>3
<1>12. CASE FreeUse(s, AfterHold(s))
  <2>1. UNCHANGED locks \/ Take(s, Campaign)
    BY <1>12 DEF FreeUse
  <2>2. \A i \in Intents : Campaign # <<"intent", i>>
    BY DEF Campaign
  <2>3. pc[s] = "free" /\ (Goto(s, "audit") \/ Goto(s, "sweep"))
    BY <1>4, <1>12 DEF FreeUse
  <2> QED
    BY <1>8, <2>1, <2>2, <2>3
<1>13. CASE LockAudit(s, "mirror")
  <2>1. Take(s, AuditLock) /\ pc[s] = "audit" /\ Goto(s, "mirror")
    BY <1>13 DEF LockAudit
  <2>2. \A i \in Intents : AuditLock # <<"intent", i>>
    BY DEF AuditLock
  <2> QED
    BY <1>8, <2>1, <2>2
<1>14. CASE MirrorIntent(s)
  <2>1. Take(s, <<"intent", work[s].item>>) /\ pc[s] = "mirror" /\ Goto(s, "commit")
    BY <1>14 DEF MirrorIntent
  <2>2. s \in Webhooks /\ pc[s] \in Applying
    BY <1>0, <1>3, <2>1 DEF Applying
  <2>3. /\ work[s].item = IntentOf[work[s].txn] /\ Changed(s)
        /\ <<"txn", work[s].txn>> \in locks[s]
        /\ can_transition(work[s].load.status, work[s].row.status)
    BY <1>0, <2>1, <2>2 DEF Stage
  <2>4. locks'[s] = locks[s] \cup {<<"intent", work[s].item>>} /\ pc'[s] = "commit"
    BY <1>5, <1>6, <2>1
  <2>5. \A i \in Intents : <<"intent", i>> \in locks'[s] => i = work[s].item
    BY <1>3, <2>4
  <2>6. Stage(s)'
    BY <1>1, <1>2, <2>2, <2>3, <2>4, <2>5 DEF Stage
  <2> QED
    BY <1>1, <1>5, <1>6, <2>1, <2>6, StageOfOne
<1> QED
  BY <1>7, <1>9, <1>10, <1>11, <1>12, <1>13, <1>14 DEF Settle

LEMMA NextStaged == IntakeInv /\ Staged /\ [Next]_vars => Staged'
<1> SUFFICES ASSUME IntakeInv, TypeOK, Staged, [Next]_vars PROVE Staged'
  BY DEF IntakeInv
<1>0. /\ Webhooks \subseteq Sessions /\ Janitors \subseteq Sessions
      /\ {"insert", "load", "sweep", "select"} \cap Applying = {"select"}
  BY SettlementAssumption DEF Applying
<1>1. ASSUME UNCHANGED <<pc, locks, work>>
      PROVE  Staged'
  <2>1. pc' = pc /\ locks' = locks /\ work' = work
    BY <1>1
  <2> QED
    BY <2>1 DEF Staged, Stage, Changed
<1>2. ASSUME NEW s \in Webhooks, NEW e \in Events, Deliver(s, e)
      PROVE  Staged'
  <2>1. UNCHANGED <<locks, work>> /\ pc[s] = "idle" /\ (Goto(s, "insert") \/ UNCHANGED pc)
    BY <1>2 DEF Deliver
  <2> QED
    BY <1>0, <1>1, <2>1, StageAtStart
<1>3. ASSUME NEW s \in Webhooks, InsertEvent(s)
      PROVE  Staged'
  <2>1. Take(s, <<"event", event[s]>>) /\ work' = work /\ pc[s] = "insert" /\ Goto(s, "load")
    BY <1>3 DEF InsertEvent
  <2>2. \A i \in Intents : <<"event", event[s]>> # <<"intent", i>>
    OBVIOUS
  <2> QED
    BY <1>0, <2>1, <2>2, StageAtStart
<1>4. ASSUME NEW j \in Janitors, StartSweep(j)
      PROVE  Staged'
  <2>1. UNCHANGED <<locks, work>> /\ pc[j] = "idle" /\ Goto(j, "sweep")
    BY <1>4 DEF StartSweep
  <2> QED
    BY <1>0, <2>1, StageAtStart
<1>5. ASSUME NEW j \in Janitors, SweepNext(j)
      PROVE  Staged'
  <2>1. PICK n : work' = [work EXCEPT ![j].item = n]
    BY <1>5 DEF SweepNext
  <2>2. pc[j] = "sweep" /\ Goto(j, "select") /\ locks' = locks
    BY <1>5 DEF SweepNext
  <2>3. j \notin Webhooks
    BY SettlementAssumption
  <2>4. \A i \in Intents : <<"intent", i>> \notin locks'[j]
    BY <1>0, <2>2 DEF Staged, Stage
  <2>5. Stage(j)'
    BY <2>3, <2>4 DEF Stage
  <2> QED
    BY <1>0, <2>1, <2>2, <2>5, StageOfOne, Typed DEF Goto
<1>6. ASSUME NEW s \in Sessions, NEW step \in {"idle", "recover"}, EndSession(s, step)
      PROVE  Staged'
  BY <1>6, StageAtEnd
<1>7. ASSUME NEW s \in Sessions, SessionStep(s)
      PROVE  Staged'
  <2>1. CASE s \in Webhooks /\ process_webhook(s)
    BY <1>3, <1>6, <2>1, StageAtHandle DEF process_webhook, InsertConflict, CommitWebhook, Recover
  <2>2. CASE s \in Janitors /\ release_expired_campaign_reservations(s)
    BY <1>5, <1>6, <2>2 DEF release_expired_campaign_reservations, CommitSweep
  <2>3. CASE Settle(s)
    BY <2>3, StageAtSettle
  <2> QED
    BY <1>7, <2>1, <2>2, <2>3 DEF SessionStep
<1>8. ASSUME NEW s \in Sessions, SessionError(s) \/ Crash(s) \/ DeadlockVictim(s)
      PROVE  Staged'
  BY <1>6, <1>8 DEF SessionError, Crash, DeadlockVictim, Abort
<1>9. ASSUME NEW e \in Events, retry_webhook_event(e)
      PROVE  Staged'
  BY <1>1, <1>9 DEF retry_webhook_event, ledgerVars
<1>10. ASSUME NEW i \in Intents, ExpireHold(i)
       PROVE  Staged'
  BY <1>1, <1>10 DEF ExpireHold, ledgerVars
<1>11. ASSUME NEW i \in Cancellable, cancel_intent(i)
       PROVE  Staged'
  BY <1>1, <1>11 DEF cancel_intent
<1>12. CASE UNCHANGED vars
  BY <1>1, <1>12 DEF vars, ledgerVars
<1> QED
  BY <1>2, <1>4, <1>7, <1>8, <1>9, <1>10, <1>11, <1>12 DEF Next

LEMMA StagedAlways == Spec => []Staged
BY InitMirror, NextStaged, IntakeExclusive, PTL DEF Spec

\* The payment an intent shows stays as it is, or the commit that changes it
\* shows the change; and what a commit shows is what it leaves its payment with.
LEMMA NextMirror == IntakeInv /\ Staged /\ MirrorAgrees /\ [Next]_vars => MirrorAgrees'
<1> SUFFICES ASSUME IntakeInv, Staged, MirrorAgrees, [Next]_vars, NEW t \in Txns,
                    NEW i \in Intents, i = IntentOf[t]
             PROVE  \/ intent'[i] = "CANCELLED"
                    \/ \E u \in Txns : IntentOf[u] = i /\ intent'[i] = txn'[u].status
  BY IntentOfAssumption DEF MirrorAgrees
<1>0. /\ intent \in [Intents -> TransactionStatus]
      /\ \/ intent[i] = "CANCELLED"
         \/ \E u \in Txns : IntentOf[u] = i /\ intent[i] = txn[u].status
  BY DEF IntakeInv, TypeOK, MirrorAgrees
<1>1. CASE UNCHANGED rows
  BY <1>0, <1>1 DEF rows
<1>2. ASSUME NEW k \in Intents, Cancels(k)
      PROVE  \/ intent'[i] = "CANCELLED"
             \/ \E u \in Txns : IntentOf[u] = i /\ intent'[i] = txn'[u].status
  BY <1>0, <1>2 DEF Cancels
<1>3. ASSUME NEW s \in Sessions, Commits(s)
      PROVE  \/ intent'[i] = "CANCELLED"
             \/ \E u \in Txns : IntentOf[u] = i /\ intent'[i] = txn'[u].status
  <2>0. Stage(s) /\ work[s].txn \in Txns
    BY Typed DEF Staged, IntakeInv, WorkType
  <2>1. /\ intent'[i] = IF <<"intent", i>> \in locks[s] THEN work[s].row.status ELSE intent[i]
        /\ \A u \in Txns : txn'[u] = IF <<"txn", u>> \in locks[s]
                                        THEN Overwrite(txn[u], work[s]) ELSE txn[u]
    BY <1>3 DEF Commits, CommitRows
  <2>4. \A row : /\ Changed(s) => Overwrite(row, work[s]).status = work[s].row.status
                 /\ ~Changed(s) => Overwrite(row, work[s]).status = row.status
    BY DEF Overwrite, Changed
  <2>2. CASE <<"intent", i>> \in locks[s]
    <3>1. s \in Webhooks /\ pc[s] = "commit" /\ i = work[s].item /\ Changed(s)
      BY <2>0, <2>2 DEF Stage
    <3>2. IntentOf[work[s].txn] = i /\ <<"txn", work[s].txn>> \in locks[s]
      BY <2>0, <3>1 DEF Stage, Applying
    <3>3. txn'[work[s].txn].status = work[s].row.status
      BY <2>0, <2>1, <2>4, <3>1, <3>2
    <3> QED
      BY <2>0, <2>1, <2>2, <3>2, <3>3
  <2>3. CASE <<"intent", i>> \notin locks[s]
    <3>1. ASSUME NEW u \in Txns, IntentOf[u] = i
          PROVE  txn'[u].status = txn[u].status
      <4>1. SUFFICES ASSUME <<"txn", u>> \in locks[s], Changed(s) PROVE FALSE
        BY <2>1, <2>4
      <4>2. s \in Webhooks /\ pc[s] = "commit" /\ pc[s] \in Applying /\ u = work[s].txn
        BY <1>3, <4>1 DEF Commits, IntakeInv, TxnLocked, ReportsVerdict, Applying
      <4> QED
        BY <2>0, <2>3, <3>1, <4>1, <4>2 DEF Stage
    <3> QED
      BY <1>0, <2>1, <2>3, <3>1
  <2> QED
    BY <2>2, <2>3
<1> QED
  BY <1>1, <1>2, <1>3, OnlyCommitsWrite

\* However many payments an intent has, and however often one is written over,
\* the intent shows the status of one of them, unless the buyer cancelled it:
\* webhook sessions and cancellations are the only writers (reconciliation, which
\* leaves the intent alone, settles UNKNOWN payments and none of these).
THEOREM MirrorCorrect == Spec => []MirrorAgrees
BY StagedAlways, InitMirror, NextMirror, IntakeExclusive, PTL DEF Spec

-----------------------------------------------------------------------------
(* Transitions are legal unless the row that was read is stale.            *)

LEMMA StepLegal ==
  ASSUME IntakeInv, Staged, [Next]_vars, NEW t \in Txns, txn'[t].status # txn[t].status
  PROVE  \E s \in Webhooks :
           /\ pc[s] = "commit" /\ pc'[s] = "idle" /\ work[s].txn = t
           /\ can_transition(work[s].load.status, txn'[t].status)
           /\ txn[t].status \in TerminalStatuses => work[s].load.status # txn[t].status
<1>1. PICK s \in Sessions : Commits(s)
  BY OnlyCommitsWrite DEF rows, Cancels
<1>2. txn'[t] = IF <<"txn", t>> \in locks[s] THEN Overwrite(txn[t], work[s]) ELSE txn[t]
  BY <1>1 DEF Commits, CommitRows
<1>3. /\ <<"txn", t>> \in locks[s]
      /\ work[s].row.status # work[s].load.status /\ txn'[t].status = work[s].row.status
  BY <1>2 DEF Overwrite
<1>4. s \in Webhooks /\ pc[s] \in Applying /\ t = work[s].txn
  BY <1>3 DEF IntakeInv, TxnLocked, ReportsVerdict
<1>5. pc[s] = "commit" /\ pc'[s] = "idle"
  BY <1>1, <1>4, SettlementAssumption, Typed DEF IntakeInv, Commits, EndSession, Goto
<1>6. can_transition(work[s].load.status, work[s].row.status)
  BY <1>3, <1>4 DEF Staged, Stage, Changed
<1>7. work[s].load.status \notin TerminalStatuses
  BY <1>6 DEF can_transition
<1> QED
  BY <1>3, <1>4, <1>5, <1>6, <1>7

\* A status changes along a legal transition from what the writing session
\* read; a terminal one changes only if that session read it before it was.
THEOREM LegalTransitions == Spec => LegalUnlessStale
<1>1. IntakeInv /\ Staged /\ [Next]_vars =>
        [\A t \in Txns : txn'[t].status # txn[t].status =>
           \E s \in Webhooks :
             /\ pc[s] = "commit" /\ pc'[s] = "idle" /\ work[s].txn = t
             /\ can_transition(work[s].load.status, txn'[t].status)
             /\ txn[t].status \in TerminalStatuses => work[s].load.status # txn[t].status]_vars
  BY StepLegal
<1> QED
  BY <1>1, StagedAlways, IntakeExclusive, PTL DEF Spec, LegalUnlessStale

-----------------------------------------------------------------------------
(* An outcome event that its delivery processed left its transaction       *)
(* settled, and a capture its payment on it.                               *)

Outcome(e) == EventKind[e] \in Captures \cup {"failed"}

\* Transactions start SUBMITTED and only ever become terminal.
SubmittedOrSettled ==
  \A t \in Txns : txn[t].status \in TerminalStatuses \cup {"SUBMITTED"}

\* A session has nothing to change only when its transaction was settled.
NothingToSettle ==
  \A s \in Webhooks :
    pc[s] \in Applying /\ Outcome(event[s]) /\ ~Changed(s)
      => txn[EventTxn[event[s]]].status \in TerminalStatuses

\* The row the recovery session leaves names no transaction.
FailedUnlinked ==
  \A e \in Events : inbox[e].status = "FAILED" => ~inbox[e].linked

SettledInv ==
  SubmittedOrSettled /\ NothingToSettle /\ FailedUnlinked /\ DeliveredIsSettled

LEMMA InitSettled == Init => SettledInv
<1> SUFFICES ASSUME Init PROVE SettledInv
  OBVIOUS
<1>1. NothingToSettle
  BY SettlementAssumption DEF Init, NothingToSettle, Applying
<1>2. SubmittedOrSettled /\ FailedUnlinked /\ DeliveredIsSettled
  BY DEF Init, SubmittedOrSettled, SubmittedRow, FailedUnlinked, DeliveredIsSettled,
         ProcessedAtDelivery, Absent
<1> QED
  BY <1>1, <1>2 DEF SettledInv

LEMMA SettledStays ==
  ASSUME IntakeInv, [Next]_vars, NEW t \in Txns
  PROVE  txn'[t].status = txn[t].status \/ txn'[t].status \in TerminalStatuses
<1> SUFFICES ASSUME txn'[t].status # txn[t].status
             PROVE  txn'[t].status \in TerminalStatuses
  OBVIOUS
<1>1. PICK s \in Sessions : Commits(s)
  BY OnlyCommitsWrite DEF rows, Cancels
<1>2. txn'[t] = IF <<"txn", t>> \in locks[s] THEN Overwrite(txn[t], work[s]) ELSE txn[t]
  BY <1>1 DEF Commits, CommitRows
<1>3. /\ <<"txn", t>> \in locks[s]
      /\ work[s].row.status # work[s].load.status /\ txn'[t].status = work[s].row.status
  BY <1>2 DEF Overwrite
<1>4. s \in Webhooks /\ pc[s] \in Applying
  BY <1>3 DEF IntakeInv, TxnLocked
<1>5. work[s].row.status = Verdict[event[s]] /\ event[s] \in Events
  BY <1>3, <1>4, Typed DEF IntakeInv, ReportsVerdict
<1> QED
  BY <1>3, <1>5 DEF Verdict, TerminalStatuses

\* A session that goes on settling keeps its event, the row it handled and its
\* locks, and leaves "flush" with the lock of the transaction.
StillSettling(s) ==
  /\ pc[s] \in Applying /\ event'[s] = event[s] /\ locks[s] \subseteq locks'[s]
  /\ work'[s].txn = work[s].txn /\ work'[s].row = work[s].row /\ work'[s].load = work[s].load
  /\ pc[s] = "flush" => pc'[s] = "flush" \/ <<"txn", work[s].txn>> \in locks'[s]

\* A session is settling because it was already, or because it read the row.
LEMMA SettlingSince ==
  ASSUME IntakeInv, [Next]_vars, NEW s \in Webhooks, pc'[s] \in Applying
  PROVE  HandleEvent(s) \/ StillSettling(s)
<1> DEFINE Same == StillSettling(s)
<1>0. /\ pc \in [Sessions -> Steps] /\ locks \in [Sessions -> SUBSET Resources]
      /\ work \in [Sessions -> WorkType] /\ event \in [Webhooks -> Events]
      /\ Webhooks \subseteq Sessions /\ Webhooks \cap Janitors = {}
      /\ {"idle", "recover", "insert", "load", "sweep"} \cap Applying = {}
  BY Typed, SettlementAssumption DEF IntakeInv, Applying
<1>1. ASSUME NEW o \in Sessions, NEW step \in {"idle", "recover"}, EndSession(o, step), event' = event
      PROVE  Same
  BY <1>0, <1>1 DEF EndSession, Goto, StillSettling
<1>2. ASSUME UNCHANGED <<pc, work, event, locks>>
      PROVE  Same
  BY <1>2 DEF StillSettling
<1>3. ASSUME NEW o \in Sessions, NEW step, Goto(o, step), event' = event,
             \/ UNCHANGED work
             \/ \E n : work' = [work EXCEPT ![o].freed = n]
             \/ \E n : work' = [work EXCEPT ![o].item = n],
             UNCHANGED locks \/ \E r : Take(o, r),
             o = s => pc[s] \in Applying \/ step \notin Applying,
             pc[o] = "flush" => Take(o, <<"txn", work[o].txn>>)
      PROVE  Same
  <2>1. pc[s] \in Applying /\ (o # s => pc'[s] = pc[s])
    BY <1>0, <1>3 DEF Goto
  <2>2. work'[s].txn = work[s].txn /\ work'[s].row = work[s].row /\ work'[s].load = work[s].load
    BY <1>0, <1>3 DEF WorkType
  <2>3. locks[s] \subseteq locks'[s]
    BY <1>0, <1>3 DEF Take
  <2>4. o = s /\ pc[s] = "flush" => <<"txn", work[s].txn>> \in locks'[s]
    BY <1>0, <1>3 DEF Take
  <2> QED
    BY <1>3, <2>1, <2>2, <2>3, <2>4 DEF StillSettling
<1>4. ASSUME NEW o \in Sessions, Settle(o)
      PROVE  Same
  <2>1. /\ pc[o] \in Applying /\ event' = event
        /\ UNCHANGED work \/ work' = [work EXCEPT ![o].freed = work[o].freed + 1]
    BY <1>0, <1>4 DEF Settle, FlushRow, settle_budget_for_intent, SelectHold, UpdateHold, FreeUse,
                      LockAudit, MirrorIntent, Applying, ownVars
  <2>2. PICK step : Goto(o, step)
    BY <1>4 DEF Settle, FlushRow, settle_budget_for_intent, SelectHold, UpdateHold, FreeUse,
                LockAudit, MirrorIntent
  <2>3. /\ UNCHANGED locks \/ \E r : Take(o, r)
        /\ pc[o] = "flush" => Take(o, <<"txn", work[o].txn>>)
    BY <1>4 DEF Settle, FlushRow, settle_budget_for_intent, SelectHold, UpdateHold, FreeUse,
                LockAudit, MirrorIntent
  <2> QED
    BY <1>3, <2>1, <2>2, <2>3
<1>5. ASSUME NEW o \in Webhooks, process_webhook(o)
      PROVE  HandleEvent(s) \/ Same
  <2>1. CASE InsertEvent(o)
    <3>1. /\ Goto(o, "load") /\ UNCHANGED work /\ event' = event /\ pc[o] # "flush"
          /\ Take(o, <<"event", event[o]>>)
      BY <2>1 DEF InsertEvent, ownVars
    <3> QED
      BY <1>0, <1>3, <3>1
  <2>2. CASE InsertConflict(o) \/ CommitWebhook(o) \/ Recover(o)
    BY <1>0, <1>1, <2>2 DEF InsertConflict, CommitWebhook, Recover, ownVars
  <2>3. CASE HandleEvent(o)
    <3>1. CASE o = s
      BY <2>3, <3>1
    <3>2. CASE o # s
      <4>1. pc'[s] = pc[s] /\ work'[s] = work[s] /\ event' = event /\ locks' = locks
        BY <1>0, <2>3, <3>2 DEF HandleEvent, Goto, ownVars
      <4> QED
        BY <4>1 DEF StillSettling
    <3> QED
      BY <3>1, <3>2
  <2> QED
    BY <1>5, <2>1, <2>2, <2>3 DEF process_webhook
<1>6. ASSUME NEW j \in Janitors, release_expired_campaign_reservations(j)
      PROVE  Same
  <2>0. j \in Sessions /\ j # s
    BY <1>0, SettlementAssumption
  <2>1. CASE SweepNext(j)
    <3>1. PICK n : work' = [work EXCEPT ![j].item = n]
      BY <2>1 DEF SweepNext
    <3>2. Goto(j, "select") /\ event' = event /\ UNCHANGED locks /\ pc[j] # "flush"
      BY <2>1 DEF SweepNext
    <3> QED
      BY <1>3, <2>0, <3>1, <3>2
  <2>2. CASE CommitSweep(j)
    BY <1>1, <2>0, <2>2 DEF CommitSweep, ownVars
  <2> QED
    BY <1>6, <2>1, <2>2 DEF release_expired_campaign_reservations
<1>7. ASSUME NEW o \in Sessions, SessionError(o) \/ Crash(o) \/ DeadlockVictim(o)
      PROVE  Same
  BY <1>1, <1>7 DEF SessionError, Crash, DeadlockVictim, Abort, ownVars
<1>8. ASSUME NEW o \in Webhooks, NEW e \in Events, Deliver(o, e)
      PROVE  Same
  <2>1. CASE inbox[e] = Absent
    <3>1. /\ UNCHANGED <<work, locks>> /\ \A x \in Webhooks \ {o} : event'[x] = event[x]
          /\ pc'[s] = IF o = s THEN "insert" ELSE pc[s]
      BY <1>0, <1>8, <2>1 DEF Deliver, Goto
    <3> QED
      BY <1>0, <3>1 DEF StillSettling
  <2>2. CASE inbox[e] # Absent
    BY <1>2, <1>8, <2>2 DEF Deliver
  <2> QED
    BY <2>1, <2>2
<1>9. ASSUME NEW j \in Janitors, StartSweep(j)
      PROVE  Same
  <2>1. j \in Sessions /\ j # s
    BY <1>0, SettlementAssumption
  <2> QED
    BY <1>3, <1>9, <2>1 DEF StartSweep
<1>10. ASSUME NEW e \in Events, retry_webhook_event(e)
       PROVE  Same
  BY <1>2, <1>10 DEF retry_webhook_event, ledgerVars
<1>11. ASSUME NEW i \in Intents, ExpireHold(i)
       PROVE  Same
  BY <1>2, <1>11 DEF ExpireHold, ledgerVars
<1>12. CASE UNCHANGED vars
  BY <1>2, <1>12 DEF vars, ledgerVars, ownVars
<1>14. ASSUME NEW i \in Cancellable, cancel_intent(i)
       PROVE  Same
  BY <1>2, <1>14 DEF cancel_intent, ownVars
<1>13. ASSUME NEW o \in Sessions, SessionStep(o)
       PROVE  HandleEvent(s) \/ Same
  BY <1>4, <1>5, <1>6, <1>13 DEF SessionStep
<1> QED
  BY <1>7, <1>8, <1>9, <1>10, <1>11, <1>12, <1>13, <1>14 DEF Next

\* An outcome event changes a SUBMITTED row.
LEMMA HandledOutcome ==
  ASSUME NEW e \in Events, Outcome(e), NEW row \in Row, row.status = "SUBMITTED"
  PROVE  _handle_event(EventKind[e], row).status # row.status
<1>1. ASSUME NEW r \in Row, NEW target
      PROVE  Transitioned(r, target).status = target
  BY DEF Row, Transitioned
<1> DEFINE noted == [row EXCEPT !.paid = @ \/ EventKind[e] = "captured"]
<1>2. noted \in Row
  BY DEF Row
<1>3. can_transition("SUBMITTED", "COMPLETED") /\ can_transition("SUBMITTED", "FAILED")
  BY DEF can_transition, LEGAL_TRANSITIONS, TerminalStatuses
<1>4. CASE EventKind[e] \in Captures
  <2>1. _handle_event(EventKind[e], row) = Transitioned(noted, "COMPLETED")
    BY <1>3, <1>4 DEF _handle_event, Captures
  <2> HIDE DEF noted
  <2> QED
    BY <1>1, <1>2, <2>1
<1>5. CASE EventKind[e] = "failed"
  BY <1>1, <1>3, <1>5 DEF _handle_event, Captures
<1> QED
  BY <1>4, <1>5 DEF Outcome

\* The inbox rows a step writes.
LEMMA InboxWrite ==
  ASSUME IntakeInv, [Next]_vars, NEW e \in Events, inbox'[e] # inbox[e]
  PROVE  \/ \E s \in Webhooks : CommitWebhook(s) /\ e = event[s]
         \/ inbox'[e] = [status |-> "FAILED", linked |-> FALSE]
         \/ inbox[e].status = "FAILED" /\ inbox'[e] = [inbox[e] EXCEPT !.status = "PROCESSED"]
<1>0. /\ inbox \in [Events -> InboxRow] /\ event \in [Webhooks -> Events]
      /\ Webhooks \subseteq Sessions
  BY Typed, SettlementAssumption DEF IntakeInv
<1>1. ASSUME NEW s \in Sessions, SessionStep(s)
      PROVE  \/ s \in Webhooks /\ CommitWebhook(s) /\ e = event[s]
             \/ inbox'[e] = [status |-> "FAILED", linked |-> FALSE]
  <2>1. CASE s \in Webhooks /\ CommitWebhook(s)
    BY <1>0, <2>1 DEF CommitWebhook
  <2>2. CASE s \in Webhooks /\ Recover(s)
    BY <1>0, <2>2 DEF Recover
  <2>3. CASE s \in Webhooks /\ (InsertEvent(s) \/ InsertConflict(s) \/ HandleEvent(s))
    BY <2>3 DEF InsertEvent, InsertConflict, HandleEvent, ownVars
  <2>4. CASE release_expired_campaign_reservations(s)
    BY <2>4 DEF release_expired_campaign_reservations, SweepNext, CommitSweep, ownVars
  <2>5. CASE Settle(s)
    BY <2>5 DEF Settle, ownVars
  <2> QED
    BY <1>1, <2>1, <2>2, <2>3, <2>4, <2>5 DEF SessionStep, process_webhook
<1>2. ASSUME NEW d \in Events, retry_webhook_event(d)
      PROVE  inbox[e].status = "FAILED" /\ inbox'[e] = [inbox[e] EXCEPT !.status = "PROCESSED"]
  BY <1>0, <1>2 DEF retry_webhook_event
<1>3. ASSUME NEW s \in Sessions, SessionError(s) \/ Crash(s) \/ DeadlockVictim(s)
      PROVE  FALSE
  BY <1>3 DEF SessionError, Crash, DeadlockVictim, ownVars
<1>4. ASSUME NEW s \in Webhooks, NEW d \in Events, Deliver(s, d)
      PROVE  FALSE
  BY <1>4 DEF Deliver
<1>5. ASSUME NEW i \in Intents, ExpireHold(i)
      PROVE  FALSE
  BY <1>5 DEF ExpireHold
<1>6. ASSUME NEW j \in Janitors, StartSweep(j)
      PROVE  FALSE
  BY <1>6 DEF StartSweep
<1>7. ASSUME NEW i \in Cancellable, cancel_intent(i)
      PROVE  FALSE
  BY <1>7 DEF cancel_intent, ownVars
<1>8. CASE UNCHANGED vars
  BY <1>8 DEF vars, ownVars
<1> QED
  BY <1>1, <1>2, <1>3, <1>4, <1>5, <1>6, <1>7, <1>8 DEF Next

LEMMA NextSettled == IntakeInv /\ Staged /\ SettledInv /\ [Next]_vars => SettledInv'
<1> SUFFICES ASSUME IntakeInv, Staged, SettledInv, [Next]_vars PROVE SettledInv'
  OBVIOUS
<1> USE DEF SettledInv
<1>0. /\ txn \in [Txns -> Row] /\ inbox \in [Events -> InboxRow] /\ event \in [Webhooks -> Events]
      /\ work \in [Sessions -> WorkType] /\ EventTxn \in [Events -> Txns]
      /\ Webhooks \subseteq Sessions
  BY Typed, SettlementAssumption DEF IntakeInv, TypeOK
<1>1. SubmittedOrSettled'
  BY SettledStays DEF SubmittedOrSettled
<1>2. NothingToSettle'
  <2> SUFFICES ASSUME NEW s \in Webhooks, pc'[s] \in Applying, Outcome(event'[s]), ~Changed(s)'
               PROVE  txn'[EventTxn[event'[s]]].status \in TerminalStatuses
    BY DEF NothingToSettle, Outcome
  <2>1. CASE HandleEvent(s)
    <3> DEFINE e == event[s]
    <3>1. /\ event' = event /\ txn' = txn /\ e \in Events /\ EventTxn[e] \in Txns
          /\ txn[EventTxn[e]] \in Row
      BY <1>0, <2>1 DEF HandleEvent, ownVars, rows
    <3>2. /\ work'[s].row = _handle_event(EventKind[e], txn[EventTxn[e]])
          /\ work'[s].load = txn[EventTxn[e]]
      BY <1>0, <2>1 DEF HandleEvent
    <3> HIDE DEF e
    <3>3. _handle_event(EventKind[e], txn[EventTxn[e]]).status = txn[EventTxn[e]].status
      BY <3>2 DEF Changed
    <3>4. Outcome(e)
      BY <3>1 DEF e
    <3>5. txn[EventTxn[e]].status # "SUBMITTED"
      BY <3>1, <3>3, <3>4, HandledOutcome
    <3>6. txn[EventTxn[e]].status \in TerminalStatuses
      BY <3>1, <3>5 DEF SubmittedOrSettled
    <3> QED
      BY <3>1, <3>6 DEF e
  <2>2. CASE StillSettling(s)
    <3>1. txn[EventTxn[event[s]]].status \in TerminalStatuses
      BY <2>2 DEF StillSettling, Changed, NothingToSettle
    <3> QED
      BY <1>0, <2>2, <3>1, SettledStays DEF StillSettling
  <2> QED
    BY <2>1, <2>2, SettlingSince
<1>3. FailedUnlinked'
  <2> SUFFICES ASSUME NEW e \in Events, inbox'[e].status = "FAILED"
               PROVE  ~inbox'[e].linked
    BY DEF FailedUnlinked
  <2>1. CASE inbox'[e] = inbox[e]
    BY <2>1 DEF FailedUnlinked
  <2>2. CASE inbox'[e] = [status |-> "FAILED", linked |-> FALSE]
    BY <2>2
  <2>3. ASSUME NEW s \in Webhooks, CommitWebhook(s), e = event[s]
        PROVE  FALSE
    BY <1>0, <2>3 DEF CommitWebhook
  <2>4. CASE inbox'[e] = [inbox[e] EXCEPT !.status = "PROCESSED"]
    BY <1>0, <2>4 DEF InboxRow
  <2> QED
    BY <2>1, <2>2, <2>3, <2>4, InboxWrite
<1>4. DeliveredIsSettled'
  <2> SUFFICES ASSUME NEW e \in Events, inbox'[e] = [status |-> "PROCESSED", linked |-> TRUE], Outcome(e)
               PROVE  txn'[EventTxn[e]].status \in TerminalStatuses
    BY DEF DeliveredIsSettled, ProcessedAtDelivery, Outcome
  <2>0. EventTxn[e] \in Txns
    BY <1>0
  <2>1. CASE inbox'[e] = inbox[e]
    <3>1. txn[EventTxn[e]].status \in TerminalStatuses
      BY <2>1 DEF DeliveredIsSettled, ProcessedAtDelivery, Outcome
    <3> QED
      BY <2>0, <3>1, SettledStays
  <2>2. CASE inbox'[e] = [status |-> "FAILED", linked |-> FALSE]
    BY <2>2
  <2>3. CASE inbox[e].status = "FAILED" /\ inbox'[e] = [inbox[e] EXCEPT !.status = "PROCESSED"]
    BY <1>0, <2>3 DEF InboxRow, FailedUnlinked
  <2>4. ASSUME NEW s \in Webhooks, CommitWebhook(s), e = event[s]
        PROVE  txn'[EventTxn[e]].status \in TerminalStatuses
    <3>1. pc[s] = "commit" /\ pc[s] \in Applying
      BY <2>4 DEF CommitWebhook, Applying
    <3>2. CASE ~Changed(s)
      <4>1. txn[EventTxn[e]].status \in TerminalStatuses
        BY <2>4, <3>1, <3>2 DEF NothingToSettle
      <4> QED
        BY <2>0, <4>1, SettledStays
    <3>3. CASE Changed(s)
      <4>1. work[s].txn = EventTxn[e] /\ work[s].row.status = Verdict[e]
        BY <2>4, <3>1, <3>3 DEF IntakeInv, ReportsVerdict, Changed
      <4>2. <<"txn", EventTxn[e]>> \in locks[s]
        BY <1>0, <3>1, <3>3, <4>1 DEF Staged, Stage
      <4>3. txn'[EventTxn[e]] = Overwrite(txn[EventTxn[e]], work[s])
        BY <2>0, <2>4, <4>2 DEF CommitWebhook, CommitRows
      <4>4. txn'[EventTxn[e]].status = Verdict[e]
        BY <3>3, <4>1, <4>3 DEF Overwrite, Changed
      <4> QED
        BY <4>4 DEF Verdict, TerminalStatuses
    <3> QED
      BY <3>2, <3>3
  <2> QED
    BY <2>1, <2>2, <2>3, <2>4, InboxWrite
<1> QED
  BY <1>1, <1>2, <1>3, <1>4

\* Whatever else settles its transaction, an outcome event that was processed by
\* its own delivery leaves the transaction settled.
THEOREM DeliverySettles == Spec => []DeliveredIsSettled
<1>1. Spec => []SettledInv
  BY InitSettled, NextSettled, StagedAlways, IntakeExclusive, PTL DEF Spec
<1>2. SettledInv => DeliveredIsSettled
  BY DEF SettledInv
<1> QED
  BY <1>1, <1>2, PTL

-----------------------------------------------------------------------------
(* The payment of a processed capture stays on its transaction.            *)

\* A session that handles a capture has its payment in memory, and once it is
\* past the UPDATE it owns the row it writes it to, or found it there.
NotedWork ==
  \A s \in Webhooks : pc[s] \in Applying /\ EventKind[event[s]] = "captured" =>
    /\ work[s].row.paid
    /\ \/ pc[s] = "flush"
       \/ <<"txn", EventTxn[event[s]]>> \in locks[s]
       \/ txn[EventTxn[event[s]]].paid

NotedInv == NotedWork /\ FailedUnlinked /\ CaptureIsNoted

LEMMA InitNoted == Init => NotedInv
<1> SUFFICES ASSUME Init PROVE NotedInv
  OBVIOUS
<1>1. NotedWork
  BY SettlementAssumption DEF Init, NotedWork, Applying
<1>2. FailedUnlinked /\ CaptureIsNoted
  BY DEF Init, FailedUnlinked, CaptureIsNoted, ProcessedAtDelivery, Absent
<1> QED
  BY <1>1, <1>2 DEF NotedInv

\* _handle_event records the payment a capture names, whatever it does besides.
LEMMA HandledNotes ==
  ASSUME NEW row \in Row
  PROVE  _handle_event("captured", row).paid
<1> DEFINE noted == [row EXCEPT !.paid = @ \/ "captured" = "captured"]
<1>1. noted \in Row /\ noted.paid
  BY DEF Row
<1>2. _handle_event("captured", row) =
        IF can_transition(row.status, "COMPLETED") THEN Transitioned(noted, "COMPLETED") ELSE noted
  BY DEF _handle_event, Captures
<1> HIDE DEF noted
<1>3. Transitioned(noted, "COMPLETED").paid
  BY <1>1 DEF Transitioned, Row
<1> QED
  BY <1>1, <1>2, <1>3

\* No commit takes a payment off a transaction.
LEMMA PaidStays ==
  ASSUME [Next]_vars, NEW t \in Txns, txn[t].paid
  PROVE  txn'[t].paid
<1>1. CASE UNCHANGED rows
  BY <1>1 DEF rows
<1>2. ASSUME NEW i \in Intents, Cancels(i)
      PROVE  txn'[t].paid
  BY <1>2 DEF Cancels
<1>3. ASSUME NEW s \in Sessions, Commits(s)
      PROVE  txn'[t].paid
  <2>1. txn'[t] = IF <<"txn", t>> \in locks[s] THEN Overwrite(txn[t], work[s]) ELSE txn[t]
    BY <1>3 DEF Commits, CommitRows
  <2>2. Overwrite(txn[t], work[s]).paid
    BY DEF Overwrite
  <2> QED
    BY <2>1, <2>2
<1> QED
  BY <1>1, <1>2, <1>3, OnlyCommitsWrite

LEMMA NextNotedWork == IntakeInv /\ NotedInv /\ [Next]_vars => NotedWork'
<1> SUFFICES ASSUME IntakeInv, NotedInv, [Next]_vars, NEW s \in Webhooks, pc'[s] \in Applying,
                    EventKind[event'[s]] = "captured"
             PROVE  /\ work'[s].row.paid
                    /\ \/ pc'[s] = "flush"
                       \/ <<"txn", EventTxn[event'[s]]>> \in locks'[s]
                       \/ txn'[EventTxn[event'[s]]].paid
  BY DEF NotedWork
<1>0. /\ txn \in [Txns -> Row] /\ work \in [Sessions -> WorkType] /\ pc \in [Sessions -> Steps]
      /\ event[s] \in Events /\ EventTxn[event[s]] \in Txns /\ s \in Sessions
  BY Typed, SettlementAssumption DEF IntakeInv, TypeOK
<1>1. CASE HandleEvent(s)
  <2> DEFINE t == EventTxn[event[s]]
             row == _handle_event("captured", txn[t])
  <2>1. txn[t] \in Row /\ event' = event /\ txn' = txn
    BY <1>0, <1>1 DEF HandleEvent, ownVars, rows
  <2>2. work'[s].row = row /\ pc'[s] = IF row = txn[t] THEN "commit" ELSE "flush"
    BY <1>0, <1>1, <2>1 DEF HandleEvent, Goto
  <2>3. row.paid
    BY <2>1, HandledNotes
  <2> HIDE DEF row
  <2> QED
    BY <2>1, <2>2, <2>3
<1>2. CASE StillSettling(s)
  <2>1. /\ pc[s] \in Applying /\ event'[s] = event[s] /\ work'[s].row = work[s].row
        /\ locks[s] \subseteq locks'[s]
        /\ pc[s] = "flush" => pc'[s] = "flush" \/ <<"txn", work[s].txn>> \in locks'[s]
    BY <1>2 DEF StillSettling
  <2>2. /\ work[s].row.paid
        /\ \/ pc[s] = "flush"
           \/ <<"txn", EventTxn[event[s]]>> \in locks[s]
           \/ txn[EventTxn[event[s]]].paid
    BY <2>1 DEF NotedInv, NotedWork
  <2>3. work[s].txn = EventTxn[event[s]]
    BY <2>1 DEF IntakeInv, ReportsVerdict
  <2>4. txn[EventTxn[event[s]]].paid => txn'[EventTxn[event[s]]].paid
    BY <1>0, PaidStays
  <2> QED
    BY <2>1, <2>2, <2>3, <2>4
<1> QED
  BY <1>1, <1>2, SettlingSince

LEMMA NextNoted == IntakeInv /\ NotedInv /\ FailedUnlinked' /\ [Next]_vars => NotedInv'
<1> SUFFICES ASSUME IntakeInv, NotedInv, [Next]_vars, NEW e \in Events,
                    inbox'[e] = [status |-> "PROCESSED", linked |-> TRUE], EventKind[e] = "captured"
             PROVE  txn'[EventTxn[e]].paid
  BY NextNotedWork DEF NotedInv, CaptureIsNoted, ProcessedAtDelivery
<1>0. /\ EventTxn[e] \in Txns /\ inbox \in [Events -> InboxRow] /\ Webhooks \subseteq Sessions
  BY Typed, SettlementAssumption DEF IntakeInv
<1>1. CASE inbox'[e] = inbox[e]
  BY <1>0, <1>1, PaidStays DEF NotedInv, CaptureIsNoted, ProcessedAtDelivery
<1>2. CASE inbox'[e] = [status |-> "FAILED", linked |-> FALSE]
  BY <1>2
<1>3. CASE inbox[e].status = "FAILED" /\ inbox'[e] = [inbox[e] EXCEPT !.status = "PROCESSED"]
  BY <1>0, <1>3 DEF InboxRow, NotedInv, FailedUnlinked
<1>4. ASSUME NEW s \in Webhooks, CommitWebhook(s), e = event[s]
      PROVE  txn'[EventTxn[e]].paid
  <2>1. /\ work[s].row.paid
        /\ <<"txn", EventTxn[e]>> \in locks[s] \/ txn[EventTxn[e]].paid
    BY <1>4 DEF NotedInv, NotedWork, CommitWebhook, Applying
  <2>2. CASE <<"txn", EventTxn[e]>> \in locks[s]
    <3>1. txn'[EventTxn[e]] = Overwrite(txn[EventTxn[e]], work[s])
      BY <1>0, <1>4, <2>2 DEF CommitWebhook, CommitRows
    <3>2. Overwrite(txn[EventTxn[e]], work[s]).paid
      BY <2>1 DEF Overwrite
    <3> QED
      BY <3>1, <3>2
  <2>3. CASE txn[EventTxn[e]].paid
    BY <1>0, <2>3, PaidStays
  <2> QED
    BY <2>1, <2>2, <2>3
<1> QED
  BY <1>1, <1>2, <1>3, <1>4, InboxWrite

\* The payment a capture names is on its transaction once its delivery is
\* processed, and no session that read the row before that writes it away.
THEOREM CapturesNoted == Spec => []CaptureIsNoted
<1>1. Spec => []FailedUnlinked
  <2>1. Spec => []SettledInv
    BY InitSettled, NextSettled, StagedAlways, IntakeExclusive, PTL DEF Spec
  <2>2. SettledInv => FailedUnlinked
    BY DEF SettledInv
  <2> QED
    BY <2>1, <2>2, PTL
<1>2. NotedInv => CaptureIsNoted
  BY DEF NotedInv
<1> QED
  BY <1>1, <1>2, InitNoted, NextNoted, IntakeExclusive, PTL DEF Spec

-----------------------------------------------------------------------------
(* No use of the campaign is lost.  The hold of an intent is read without  *)
(* a lock and its use given back without a condition, so a janitor run and *)
(* a webhook may both give one back; but no commit releases more holds     *)
(* than it gives uses back, unless none was left to give.                  *)

\* One element more makes a set larger by one at most.
LEMMA OneMore ==
  ASSUME NEW S, IsFiniteSet(S), NEW x
  PROVE  Cardinality(S \cup {x}) \in Nat /\ Cardinality(S \cup {x}) <= Cardinality(S) + 1
<1>1. Cardinality(S) \in Nat
  BY FS_CardinalityType
<1>2. Cardinality(S \cup {x}) = IF x \in S THEN Cardinality(S) ELSE Cardinality(S) + 1
  BY FS_AddElement
<1> QED
  BY <1>1, <1>2

\* A union is no larger than its two parts together.
LEMMA UnionBound ==
  ASSUME NEW S, IsFiniteSet(S), NEW T, IsFiniteSet(T)
  PROVE  /\ IsFiniteSet(S \cup T)
         /\ Cardinality(S \cup T) <= Cardinality(S) + Cardinality(T)
<1>1. IsFiniteSet(S \cap T)
  BY FS_Intersection
<1>2. Cardinality(S) \in Nat /\ Cardinality(T) \in Nat /\ Cardinality(S \cap T) \in Nat
  BY <1>1, FS_CardinalityType
<1>3. /\ IsFiniteSet(S \cup T)
      /\ Cardinality(S \cup T) = Cardinality(S) + Cardinality(T) - Cardinality(S \cap T)
  BY FS_Union
<1> QED
  BY <1>2, <1>3

Taken(s) == {i \in Intents : <<"hold", i>> \in locks[s]}

\* The holds a session takes to release are those it gave a use back for, and
\* the one it is about to.
GivesBack(s) ==
  /\ pc[s] \in {"idle", "insert", "load"} => Taken(s) = {}
  /\ \/ Captured(s)
     \/ uses <= work[s].freed
     \/ Cardinality(Taken(s)) <= work[s].freed + (IF pc[s] = "free" THEN 1 ELSE 0)

UseInv == NoUseIsLost /\ \A s \in Sessions : GivesBack(s)

LEMMA InitUse == Init => UseInv
<1> SUFFICES ASSUME Init PROVE UseInv
  OBVIOUS
<1>1. NoUseIsLost
  <2>1. {i \in Intents : hold[i] # "RELEASED"} = Intents
    BY DEF Init
  <2>2. Cardinality(Intents) \in Nat /\ uses = Cardinality(Intents)
    BY IntentOfAssumption, FS_CardinalityType DEF Init
  <2> QED
    BY <2>1, <2>2 DEF NoUseIsLost
<1>2. ASSUME NEW s \in Sessions PROVE GivesBack(s)
  <2>1. Taken(s) = {} /\ work[s].freed = 0 /\ pc[s] = "idle"
    BY <1>2 DEF Init, Taken, Blank
  <2> QED
    BY <2>1, FS_EmptySet DEF GivesBack
<1> QED
  BY <1>1, <1>2 DEF UseInv

\* A step of one session leaves what the others give back as it was.
LEMMA UseOfOne ==
  ASSUME UseInv, NEW s \in Sessions, GivesBack(s)', UNCHANGED <<hold, uses>>,
         \A o \in Sessions \ {s} : pc'[o] = pc[o] /\ locks'[o] = locks[o] /\ work'[o] = work[o]
  PROVE  UseInv'
<1>1. hold' = hold /\ uses' = uses
  OBVIOUS
<1>2. ASSUME NEW o \in Sessions \ {s} PROVE GivesBack(o)'
  <2>1. pc'[o] = pc[o] /\ locks'[o] = locks[o] /\ work'[o] = work[o] /\ GivesBack(o)
    BY DEF UseInv
  <2> QED
    BY <1>1, <2>1 DEF GivesBack, Taken, Captured
<1> QED
  BY <1>1, <1>2 DEF UseInv, NoUseIsLost

LEMMA UseAtEnd ==
  ASSUME TypeOK, UseInv, NEW s \in Sessions, NEW step, EndSession(s, step), UNCHANGED <<hold, uses>>
  PROVE  UseInv'
<1>1. /\ locks'[s] = {} /\ work'[s] = Blank
      /\ \A o \in Sessions \ {s} : pc'[o] = pc[o] /\ locks'[o] = locks[o] /\ work'[o] = work[o]
  BY Typed DEF EndSession, Goto
<1>2. Taken(s)' = {} /\ work'[s].freed = 0
  BY <1>1 DEF Taken, Blank
<1>3. GivesBack(s)'
  BY <1>2, FS_EmptySet DEF GivesBack
<1> QED
  BY <1>1, <1>3, UseOfOne

\* A step that takes no hold, and is not the UPDATE of the campaign.
LEMMA UseAtMove ==
  ASSUME TypeOK, UseInv, NEW s \in Sessions, NEW step, Goto(s, step), UNCHANGED <<hold, uses>>,
         UNCHANGED locks \/ \E r : (\A i \in Intents : r # <<"hold", i>>) /\ Take(s, r),
         \/ UNCHANGED work
         \/ \E i : work' = [work EXCEPT ![s].item = i],
         step \in {"idle", "insert", "load"} => pc[s] \in {"idle", "insert", "load"},
         pc[s] # "free"
  PROVE  UseInv'
<1>1. /\ pc'[s] = step /\ uses' = uses
      /\ \A o \in Sessions \ {s} : pc'[o] = pc[o] /\ locks'[o] = locks[o] /\ work'[o] = work[o]
  BY Typed DEF Goto, Take
<1>2. work'[s].freed = work[s].freed /\ work'[s].row = work[s].row
  BY Typed DEF WorkType
<1>3. \A i \in Intents : <<"hold", i>> \in locks'[s] <=> <<"hold", i>> \in locks[s]
  BY Typed DEF Take
<1>4. Taken(s)' = Taken(s) /\ Captured(s)' = Captured(s)
  BY <1>2, <1>3 DEF Taken, Captured
<1>5. GivesBack(s) /\ work[s].freed \in Nat
  BY Typed DEF UseInv, WorkType
<1>6. Cardinality(Taken(s)) \in Nat
  <2>1. IsFiniteSet(Taken(s))
    BY IntentOfAssumption, FS_Subset DEF Taken
  <2> QED
    BY <2>1, FS_CardinalityType
<1>7. GivesBack(s)'
  BY <1>1, <1>2, <1>4, <1>5, <1>6 DEF GivesBack
<1> QED
  BY <1>1, <1>7, UseOfOne

\* The UPDATE of a hold takes one more, and the UPDATE of the campaign follows
\* if it is released.
LEMMA UseAtHold ==
  ASSUME TypeOK, UseInv, NEW s \in Sessions, UpdateHold(s, Captured(s), AfterHold(s))
  PROVE  UseInv'
<1> DEFINE i == work[s].item
<1>1. /\ pc[s] = "hold" /\ work' = work /\ hold' = hold /\ uses' = uses
      /\ pc'[s] = IF Captured(s) THEN AfterHold(s) ELSE "free"
      /\ \A o \in Sessions \ {s} : pc'[o] = pc[o] /\ locks'[o] = locks[o] /\ work'[o] = work[o]
      /\ locks'[s] = locks[s] \/ locks'[s] = locks[s] \cup {<<"hold", i>>}
  BY Typed DEF UpdateHold, Goto, Take, rows
<1>2. Taken(s)' = Taken(s) \/ Taken(s)' = Taken(s) \cup {i}
  <2>1. i \in Intents
    BY Typed DEF WorkType
  <2>2. \A j : <<"hold", j>> = <<"hold", i>> <=> j = i
    OBVIOUS
  <2> QED
    BY <1>1, <2>1, <2>2 DEF Taken
<1>3. IsFiniteSet(Taken(s)) /\ Cardinality(Taken(s)) \in Nat
  <2>1. IsFiniteSet(Taken(s))
    BY IntentOfAssumption, FS_Subset DEF Taken
  <2> QED
    BY <2>1, FS_CardinalityType
<1>4. /\ Cardinality(Taken(s)') <= Cardinality(Taken(s)) + 1
      /\ Cardinality(Taken(s)') \in Nat
  <2>1. CASE Taken(s)' = Taken(s)
    BY <1>3, <2>1
  <2>2. CASE Taken(s)' = Taken(s) \cup {i}
    <3>1. /\ Cardinality(Taken(s) \cup {i}) \in Nat
          /\ Cardinality(Taken(s) \cup {i}) <= Cardinality(Taken(s)) + 1
      BY <1>3, OneMore
    <3> QED
      BY <2>2, <3>1
  <2> QED
    BY <1>2, <2>1, <2>2
<1>5. /\ work[s].freed \in Nat /\ uses \in Int
      /\ \/ Captured(s)
         \/ uses <= work[s].freed
         \/ Cardinality(Taken(s)) <= work[s].freed
  BY <1>1, Typed DEF UseInv, GivesBack, WorkType, TypeOK
<1>6. Captured(s)' = Captured(s) /\ AfterHold(s) \in {"audit", "sweep"}
  BY <1>1 DEF Captured, AfterHold
<1>7. GivesBack(s)'
  BY <1>1, <1>3, <1>4, <1>5, <1>6 DEF GivesBack
<1> QED
  BY <1>1, <1>7, UseOfOne

LEMMA UseAtFree ==
  ASSUME TypeOK, UseInv, NEW s \in Sessions, FreeUse(s, AfterHold(s))
  PROVE  UseInv'
<1>1. /\ pc[s] = "free" /\ pc'[s] = AfterHold(s) /\ hold' = hold /\ uses' = uses
      /\ \A o \in Sessions \ {s} : pc'[o] = pc[o] /\ locks'[o] = locks[o] /\ work'[o] = work[o]
      /\ locks'[s] = locks[s] \/ locks'[s] = locks[s] \cup {Campaign}
  BY Typed DEF FreeUse, Goto, Take, rows
<1>2. Taken(s)' = Taken(s)
  BY <1>1 DEF Taken, Campaign
<1>3. /\ work[s].freed \in Nat /\ uses \in Int
      /\ \/ Captured(s)
         \/ uses <= work[s].freed
         \/ Cardinality(Taken(s)) <= work[s].freed + 1
  BY <1>1, Typed DEF UseInv, GivesBack, WorkType, TypeOK
<1>4. \/ uses <= work[s].freed /\ work' = work
      \/ work' = [work EXCEPT ![s].freed = work[s].freed + 1]
  BY Typed DEF FreeUse
<1>5. work'[s].row = work[s].row /\ AfterHold(s) \in {"audit", "sweep"}
  BY <1>4, Typed DEF WorkType, AfterHold
<1>6. Captured(s)' = Captured(s)
  BY <1>5 DEF Captured
<1>7. ASSUME uses <= work[s].freed, work' = work
      PROVE  GivesBack(s)'
  BY <1>1, <1>5, <1>7 DEF GivesBack
<1>8. ASSUME work' = [work EXCEPT ![s].freed = work[s].freed + 1]
      PROVE  GivesBack(s)'
  <2>1. work'[s].freed = work[s].freed + 1
    BY <1>8, Typed DEF WorkType
  <2>2. \/ Captured(s)'
        \/ uses' <= work'[s].freed
        \/ Cardinality(Taken(s)') <= work'[s].freed
    BY <1>1, <1>2, <1>3, <1>6, <2>1
  <2>3. Cardinality(Taken(s)') <= work'[s].freed => Cardinality(Taken(s)') <= work'[s].freed + 0
    BY <1>3, <2>1
  <2>4. pc'[s] \notin {"free", "idle", "insert", "load"}
    BY <1>1, <1>5
  <2> QED
    BY <2>2, <2>3, <2>4 DEF GivesBack
<1>9. GivesBack(s)'
  BY <1>4, <1>7, <1>8
<1> QED
  BY <1>1, <1>9, UseOfOne

\* A commit releases no more holds than it gives uses back, or leaves no use.
LEMMA UseAtCommit ==
  ASSUME TypeOK, UseInv, NEW s \in Sessions, Commits(s)
  PROVE  UseInv'
<1> DEFINE held == {i \in Intents : hold[i] # "RELEASED"}
           left == {i \in Intents : hold'[i] # "RELEASED"}
           n == work[s].freed
<1>0. /\ \A o \in Sessions : work[o].freed \in Nat
      /\ uses \in Int /\ n \in Nat /\ pc[s] # "free"
  BY Typed DEF WorkType, TypeOK, Commits
<1>1. /\ hold' = [i \in Intents |-> IF ~(<<"hold", i>> \in locks[s]) THEN hold[i]
                                    ELSE IF Captured(s) THEN "CONSUMED" ELSE "RELEASED"]
      /\ uses' = uses - n
  BY DEF Commits, CommitRows
<1>2. /\ pc'[s] = "idle" /\ locks'[s] = {} /\ work'[s] = Blank
      /\ \A o \in Sessions \ {s} : pc'[o] = pc[o] /\ locks'[o] = locks[o] /\ work'[o] = work[o]
  BY Typed DEF Commits, EndSession, Goto
<1>3. /\ IsFiniteSet(held) /\ IsFiniteSet(left) /\ IsFiniteSet(Taken(s))
      /\ Cardinality(held) \in Nat /\ Cardinality(left) \in Nat /\ Cardinality(Taken(s)) \in Nat
  <2>1. IsFiniteSet(held) /\ IsFiniteSet(left) /\ IsFiniteSet(Taken(s))
    BY IntentOfAssumption, FS_Subset DEF Taken
  <2> QED
    BY <2>1, FS_CardinalityType
<1>4. uses <= Cardinality(held)
  BY DEF UseInv, NoUseIsLost
<1>5. ASSUME Captured(s)
      PROVE  uses' <= Cardinality(left)
  <2>1. held \subseteq left
    BY <1>1, <1>5
  <2>2. Cardinality(held) <= Cardinality(left)
    BY <1>3, <2>1, FS_Subset
  <2> QED
    BY <1>0, <1>1, <1>3, <1>4, <2>2
<1>6. ASSUME ~Captured(s), Cardinality(Taken(s)) <= n
      PROVE  uses' <= Cardinality(left)
  <2>1. held \subseteq left \cup Taken(s)
    BY <1>1 DEF Taken
  <2> HIDE DEF left, held
  <2>2. /\ IsFiniteSet(left \cup Taken(s))
        /\ Cardinality(left \cup Taken(s)) <= Cardinality(left) + Cardinality(Taken(s))
    BY <1>3, UnionBound
  <2>3. Cardinality(held) <= Cardinality(left \cup Taken(s))
    BY <2>1, <2>2, FS_Subset
  <2>4. Cardinality(left \cup Taken(s)) \in Nat
    BY <2>2, FS_CardinalityType
  <2> QED
    BY <1>0, <1>1, <1>3, <1>4, <1>6, <2>2, <2>3, <2>4
<1>7. ASSUME uses <= n
      PROVE  uses' <= Cardinality(left)
  BY <1>0, <1>1, <1>3, <1>7
<1>8. NoUseIsLost'
  <2>1. Captured(s) \/ uses <= n \/ Cardinality(Taken(s)) <= n
    BY <1>0, <1>3 DEF UseInv, GivesBack
  <2>2. uses' <= Cardinality(left)
    BY <1>5, <1>6, <1>7, <2>1
  <2> QED
    BY <2>2 DEF NoUseIsLost
<1>9. ASSUME NEW o \in Sessions PROVE GivesBack(o)'
  <2>1. CASE o = s
    <3>1. Taken(s)' = {} /\ work'[s].freed = 0
      BY <1>2 DEF Taken, Blank
    <3> QED
      BY <2>1, <3>1, FS_EmptySet DEF GivesBack
  <2>2. CASE o # s
    <3>1. pc'[o] = pc[o] /\ locks'[o] = locks[o] /\ work'[o] = work[o] /\ GivesBack(o)
      BY <1>2, <2>2 DEF UseInv
    <3>2. uses <= work[o].freed => uses' <= work[o].freed
      BY <1>0, <1>1
    <3>3. Taken(o)' = Taken(o) /\ Captured(o)' = Captured(o)
      BY <3>1 DEF Taken, Captured
    <3> QED
      BY <3>1, <3>2, <3>3 DEF GivesBack
  <2> QED
    BY <2>1, <2>2
<1> QED
  BY <1>8, <1>9 DEF UseInv

LEMMA UseAtHandle ==
  ASSUME TypeOK, UseInv, NEW s \in Webhooks, HandleEvent(s)
  PROVE  UseInv'
<1>0. s \in Sessions
  BY SettlementAssumption
<1>1. /\ pc[s] = "load" /\ pc'[s] \in {"commit", "flush"} /\ locks' = locks
      /\ hold' = hold /\ uses' = uses /\ work'[s].freed = 0
      /\ \A o \in Sessions \ {s} : pc'[o] = pc[o] /\ locks'[o] = locks[o] /\ work'[o] = work[o]
  BY <1>0, Typed DEF HandleEvent, Goto, rows
<1>2. Taken(s)' = {}
  BY <1>0, <1>1 DEF UseInv, GivesBack, Taken
<1>3. GivesBack(s)'
  BY <1>1, <1>2, FS_EmptySet DEF GivesBack
<1> QED
  BY <1>0, <1>1, <1>3, UseOfOne

LEMMA UseAtSettle ==
  ASSUME TypeOK, UseInv, NEW s \in Sessions, Settle(s)
  PROVE  UseInv'
<1>1. \A i \in Intents : /\ <<"txn", work[s].txn>> # <<"hold", i>>
                         /\ <<"budget", work[s].item>> # <<"hold", i>>
                         /\ <<"intent", work[s].item>> # <<"hold", i>> /\ AuditLock # <<"hold", i>>
  BY DEF AuditLock
<1>2. AfterHold(s) \in {"audit", "sweep"}
  BY DEF AfterHold
<1>3. CASE UpdateHold(s, Captured(s), AfterHold(s))
  BY <1>3, UseAtHold
<1>4. CASE FreeUse(s, AfterHold(s))
  BY <1>4, UseAtFree
<1>5. CASE FlushRow(s)
  <2>1. PICK step \in {"budget", "audit", "commit"} : Goto(s, step)
    BY <1>5 DEF FlushRow
  <2>2. Take(s, <<"txn", work[s].txn>>) /\ UNCHANGED <<hold, uses, work>> /\ pc[s] = "flush"
    BY <1>5 DEF FlushRow, rows
  <2> QED
    BY <1>1, <2>1, <2>2, UseAtMove
<1>6. CASE settle_budget_for_intent(s)
  <2>1. /\ Goto(s, "select") /\ UNCHANGED <<hold, uses, work>> /\ pc[s] = "budget"
        /\ UNCHANGED locks \/ Take(s, <<"budget", work[s].item>>)
    BY <1>6 DEF settle_budget_for_intent, rows
  <2> QED
    BY <1>1, <2>1, UseAtMove
<1>7. CASE SelectHold(s, AfterHold(s))
  <2>1. PICK step \in {"hold", "audit", "sweep"} : Goto(s, step)
    BY <1>2, <1>7 DEF SelectHold
  <2>2. UNCHANGED <<hold, uses, work, locks>> /\ pc[s] = "select"
    BY <1>7 DEF SelectHold, rows
  <2> QED
    BY <2>1, <2>2, UseAtMove
<1>8. CASE LockAudit(s, "mirror")
  <2>1. /\ Goto(s, "mirror") /\ UNCHANGED <<hold, uses, work>> /\ pc[s] = "audit"
        /\ Take(s, AuditLock)
    BY <1>8 DEF LockAudit, rows
  <2> QED
    BY <1>1, <2>1, UseAtMove
<1>9. CASE MirrorIntent(s)
  <2>1. /\ Goto(s, "commit") /\ UNCHANGED <<hold, uses, work>> /\ pc[s] = "mirror"
        /\ Take(s, <<"intent", work[s].item>>)
    BY <1>9 DEF MirrorIntent, rows
  <2> QED
    BY <1>1, <2>1, UseAtMove
<1> QED
  BY <1>3, <1>4, <1>5, <1>6, <1>7, <1>8, <1>9 DEF Settle

LEMMA NextUse == TypeOK /\ UseInv /\ [Next]_vars => UseInv'
<1> SUFFICES ASSUME TypeOK, UseInv, [Next]_vars PROVE UseInv'
  OBVIOUS
<1>0. Webhooks \subseteq Sessions /\ Janitors \subseteq Sessions /\ Webhooks \cap Janitors = {}
  BY SettlementAssumption
<1>1. ASSUME UNCHANGED <<hold, uses, pc, locks, work>>
      PROVE  UseInv'
  <2>1. hold' = hold /\ uses' = uses /\ pc' = pc /\ locks' = locks /\ work' = work
    BY <1>1
  <2> QED
    BY <2>1 DEF UseInv, NoUseIsLost, GivesBack, Taken, Captured
<1>2. ASSUME NEW s \in Sessions, NEW step, EndSession(s, step), UNCHANGED rows
      PROVE  UseInv'
  BY <1>2, UseAtEnd DEF rows
<1>3. ASSUME NEW s \in Webhooks, NEW e \in Events, Deliver(s, e)
      PROVE  UseInv'
  <2>1. /\ UNCHANGED <<hold, uses, locks, work>> /\ pc[s] = "idle"
        /\ Goto(s, "insert") \/ UNCHANGED pc
    BY <1>3 DEF Deliver, rows
  <2> QED
    BY <1>0, <1>1, <2>1, UseAtMove
<1>4. ASSUME NEW s \in Webhooks, InsertEvent(s)
      PROVE  UseInv'
  <2>1. /\ UNCHANGED <<hold, uses, work>> /\ pc[s] = "insert" /\ Goto(s, "load")
        /\ Take(s, <<"event", event[s]>>)
    BY <1>4 DEF InsertEvent, rows
  <2>2. \A i \in Intents : <<"event", event[s]>> # <<"hold", i>>
    OBVIOUS
  <2> QED
    BY <1>0, <2>1, <2>2, UseAtMove
<1>5. ASSUME NEW s \in Sessions, SessionStep(s)
      PROVE  UseInv'
  <2>1. CASE s \in Webhooks /\ (InsertEvent(s) \/ HandleEvent(s))
    BY <1>4, <2>1, UseAtHandle
  <2>2. CASE InsertConflict(s) \/ Recover(s)
    BY <1>2, <1>5, <2>2 DEF InsertConflict, Recover
  <2>3. CASE s \in Webhooks /\ CommitWebhook(s)
    BY <1>0, <2>3, UseAtCommit DEF CommitWebhook, Commits
  <2>4. CASE s \in Janitors /\ CommitSweep(s)
    <3>1. s \notin Webhooks /\ Captured(s) = FALSE
      BY <1>0, <2>4 DEF Captured
    <3> QED
      BY <1>0, <2>4, <3>1, UseAtCommit DEF CommitSweep, Commits
  <2>5. CASE s \in Janitors /\ SweepNext(s)
    <3>1. PICK i : work' = [work EXCEPT ![s].item = i]
      BY <2>5 DEF SweepNext
    <3>2. UNCHANGED <<hold, uses, locks>> /\ pc[s] = "sweep" /\ Goto(s, "select")
      BY <2>5 DEF SweepNext, rows
    <3> QED
      BY <1>0, <2>5, <3>1, <3>2, UseAtMove
  <2>6. CASE Settle(s)
    BY <1>5, <2>6, UseAtSettle
  <2> QED
    BY <1>5, <2>1, <2>2, <2>3, <2>4, <2>5, <2>6
       DEF SessionStep, process_webhook, release_expired_campaign_reservations
<1>6. ASSUME NEW s \in Sessions, SessionError(s) \/ Crash(s) \/ DeadlockVictim(s)
      PROVE  UseInv'
  BY <1>2, <1>6 DEF SessionError, Crash, DeadlockVictim, Abort
<1>7. ASSUME NEW j \in Janitors, StartSweep(j)
      PROVE  UseInv'
  <2>1. UNCHANGED <<hold, uses, locks, work>> /\ pc[j] = "idle" /\ Goto(j, "sweep")
    BY <1>7 DEF StartSweep, rows
  <2> QED
    BY <1>0, <2>1, UseAtMove
<1>8. ASSUME NEW e \in Events, retry_webhook_event(e)
      PROVE  UseInv'
  BY <1>1, <1>8 DEF retry_webhook_event, ledgerVars
<1>9. ASSUME NEW i \in Intents, ExpireHold(i)
      PROVE  UseInv'
  BY <1>1, <1>9 DEF ExpireHold, ledgerVars
<1>10. ASSUME NEW i \in Cancellable, cancel_intent(i)
       PROVE  UseInv'
  BY <1>1, <1>10 DEF cancel_intent
<1>11. CASE UNCHANGED vars
  BY <1>1, <1>11 DEF vars, ledgerVars
<1> QED
  BY <1>3, <1>5, <1>6, <1>7, <1>8, <1>9, <1>10, <1>11 DEF Next

\* However many sessions and janitor runs release the holds of a campaign at
\* once, it never counts more uses than there are holds that were not released.
THEOREM UsesAreReturned == Spec => []NoUseIsLost
<1>1. UseInv => NoUseIsLost
  BY DEF UseInv
<1> QED
  BY <1>1, InitUse, NextUse, TypeCorrect, PTL DEF Spec
=============================================================================
