-------------------------- MODULE SettlementProofs --------------------------
(***************************************************************************)
(* Proofs about Settlement, for any number of sessions, transactions,      *)
(* intents and events, and any bound on deliveries, errors and crashes.    *)
(*                                                                         *)
(* The last part proves that settlement implements the event inbox: an     *)
(* event is recorded once and a transaction changes only in the step that  *)
(* records an event about it.  The argument is the unique index of         *)
(* webhook_events: while a session works on an event it holds the index    *)
(* entry, the entry is not in the table, and nobody else holds it.         *)
(***************************************************************************)
EXTENDS SettlementProperties, FiniteSetTheorems, TLAPS

LEMMA ConstantsNonEmpty ==
  /\ (CHOOSE t \in Txns : TRUE) \in Txns
  /\ (CHOOSE i \in Intents : TRUE) \in Intents
  /\ (CHOOSE e \in Events : TRUE) \in Events
BY IntentOfAssumption, SettlementAssumption

LEMMA SubmittedRowType == SubmittedRow \in Row
BY DEF SubmittedRow, Row, TransactionStatus, TerminalStatuses, OpenStatuses

WorkType == [txn : Txns, item : Intents, load : Row, row : Row, freed : Nat]

LEMMA BlankType == Blank \in WorkType
BY ConstantsNonEmpty, SubmittedRowType DEF Blank, WorkType

LEMMA InitTypeOK == Init => TypeOK
<1> SUFFICES ASSUME Init PROVE TypeOK
  OBVIOUS
<1>1. txn \in [Txns -> Row]
  BY SubmittedRowType DEF Init
<1>2. intent \in [Intents -> TransactionStatus]
  BY DEF Init, TransactionStatus
<1>3. uses \in Int
  BY IntentOfAssumption, FS_CardinalityType DEF Init
<1>4. work \in [Sessions -> WorkType]
  BY BlankType DEF Init
<1>5. event \in [Webhooks -> Events]
  BY ConstantsNonEmpty DEF Init
<1>6. inbox \in [Events -> InboxRow]
  BY DEF Init, InboxRow, Absent
<1> QED
  BY <1>1, <1>2, <1>3, <1>4, <1>5, <1>6 DEF Init, TypeOK, WorkType, Steps

\* What _handle_event leaves is a row again.
LEMMA HandledRow ==
  ASSUME NEW kind, NEW row \in Row
  PROVE  _handle_event(kind, row) \in Row
<1>1. /\ {"COMPLETED", "FAILED"} \subseteq TransactionStatus
  BY DEF TransactionStatus, TerminalStatuses
<1>2. [row EXCEPT !.paid = @ \/ kind = "captured"] \in Row
  BY DEF Row
<1>3. ASSUME NEW r \in Row, NEW target \in TransactionStatus
      PROVE  Transitioned(r, target) \in Row
  <2>1. ASSUME NEW v \in Nat
        PROVE  [r EXCEPT !.status = target, !.version = v] \in Row
    BY DEF Row
  <2>2. r.version + 1 \in Nat
    BY DEF Row
  <2> QED
    BY <2>1, <2>2 DEF Transitioned
<1> QED
  BY <1>1, <1>2, <1>3 DEF _handle_event

-----------------------------------------------------------------------------
(* The type invariant, in three parts: what is committed in the ledger,    *)
(* what the sessions hold, and what intake adds.                           *)

RowsType ==
  /\ txn \in [Txns -> Row]
  /\ intent \in [Intents -> TransactionStatus]
  /\ budget \in [Intents -> {"RESERVED", "SETTLED", "RELEASED"}]
  /\ hold \in [Intents -> {"RESERVED", "CONSUMED", "RELEASED"}]
  /\ uses \in Int

SessionType ==
  /\ locks \in [Sessions -> SUBSET Resources]
  /\ pc \in [Sessions -> Steps]
  /\ work \in [Sessions -> WorkType]

IntakeType ==
  /\ inbox \in [Events -> InboxRow]
  /\ event \in [Webhooks -> Events]
  /\ todo \in [Janitors -> SUBSET Intents]
  /\ expired \in SUBSET Intents
  /\ delivered \in [Events -> Nat]
  /\ {errors, crashes} \subseteq Nat

LEMMA TypeParts == TypeOK <=> RowsType /\ SessionType /\ IntakeType
BY DEF TypeOK, RowsType, SessionType, IntakeType, WorkType

LEMMA TypePartsPrime == TypeOK' <=> RowsType' /\ SessionType' /\ IntakeType'
BY DEF TypeOK, RowsType, SessionType, IntakeType, WorkType

LEMMA GotoType ==
  ASSUME NEW s \in Sessions, NEW step \in Steps, SessionType, Goto(s, step)
  PROVE  pc' \in [Sessions -> Steps]
BY DEF SessionType, Goto

LEMMA TakeType ==
  ASSUME NEW s \in Sessions, NEW r \in Resources, SessionType, Take(s, r)
  PROVE  locks' \in [Sessions -> SUBSET Resources]
BY DEF SessionType, Take

LEMMA EndSessionType ==
  ASSUME NEW s \in Sessions, NEW step \in Steps, SessionType, EndSession(s, step)
  PROVE  SessionType'
BY BlankType DEF SessionType, EndSession, Goto

LEMMA CommitRowsType ==
  ASSUME NEW s \in Sessions, NEW captured, RowsType, SessionType, CommitRows(s, captured)
  PROVE  RowsType'
<1>1. work[s] \in WorkType
  BY DEF SessionType
<1>2. ASSUME NEW t \in Txns
      PROVE  Overwrite(txn[t], work[s]) \in Row
  BY <1>1 DEF RowsType, WorkType, Row, Overwrite
<1>3. txn' \in [Txns -> Row]
  BY <1>2 DEF CommitRows, RowsType
<1>4. intent' \in [Intents -> TransactionStatus]
  BY <1>1 DEF CommitRows, RowsType, WorkType, Row
<1>5. /\ budget' \in [Intents -> {"RESERVED", "SETTLED", "RELEASED"}]
      /\ hold' \in [Intents -> {"RESERVED", "CONSUMED", "RELEASED"}]
  BY DEF CommitRows, RowsType
<1>6. uses' \in Int
  BY <1>1 DEF CommitRows, RowsType, WorkType
<1> QED
  BY <1>3, <1>4, <1>5, <1>6 DEF RowsType

LEMMA ResourceOf ==
  /\ \A t \in Txns : <<"txn", t>> \in Resources
  /\ \A e \in Events : <<"event", e>> \in Resources
  /\ \A i \in Intents : {<<"intent", i>>, <<"budget", i>>, <<"hold", i>>} \subseteq Resources
  /\ {Campaign, AuditLock} \subseteq Resources
BY DEF Resources

\* A step of transition_transaction or of a settlement writes no committed row.
LEMMA SettleType ==
  ASSUME NEW s \in Sessions, RowsType, SessionType, IntakeType, Settle(s)
  PROVE  RowsType' /\ SessionType' /\ IntakeType'
<1> DEFINE w == work[s]
<1>1. w \in WorkType
  BY DEF SessionType
<1>2. w.txn \in Txns /\ w.item \in Intents /\ w.freed \in Nat
  BY <1>1 DEF WorkType
<1> HIDE DEF w
<1>3. AfterHold(s) \in Steps
  BY DEF AfterHold, Steps
<1>4. {"flush", "budget", "select", "hold", "free", "audit", "mirror", "commit"} \subseteq Steps
  BY DEF Steps
<1>5. IntakeType'
  BY DEF Settle, ownVars, IntakeType
<1>6. RowsType'
  BY DEF Settle, FlushRow, settle_budget_for_intent, SelectHold, UpdateHold, FreeUse, LockAudit,
         MirrorIntent, rows, RowsType
<1>7. SessionType'
  <2>1. CASE FlushRow(s)
    <3>1. locks' \in [Sessions -> SUBSET Resources]
      BY <1>2, <2>1, ResourceOf, TakeType DEF FlushRow, w
    <3>2. pc' \in [Sessions -> Steps]
      BY <1>4, <2>1 DEF FlushRow, Goto, SessionType
    <3> QED
      BY <2>1, <3>1, <3>2 DEF FlushRow, SessionType
  <2>2. CASE settle_budget_for_intent(s)
    <3>1. locks' \in [Sessions -> SUBSET Resources]
      BY <1>2, <2>2, ResourceOf, TakeType DEF settle_budget_for_intent, SessionType, w
    <3> QED
      BY <1>4, <2>2, <3>1 DEF settle_budget_for_intent, Goto, SessionType
  <2>3. CASE SelectHold(s, AfterHold(s))
    BY <1>3, <1>4, <2>3 DEF SelectHold, Goto, SessionType
  <2>4. CASE UpdateHold(s, Captured(s), AfterHold(s))
    <3>1. locks' \in [Sessions -> SUBSET Resources]
      BY <1>2, <2>4, ResourceOf, TakeType DEF UpdateHold, SessionType, w
    <3> QED
      BY <1>3, <1>4, <2>4, <3>1 DEF UpdateHold, Goto, SessionType
  <2>5. CASE FreeUse(s, AfterHold(s))
    <3>1. locks' \in [Sessions -> SUBSET Resources]
      BY <2>5, ResourceOf, TakeType DEF FreeUse, SessionType
    <3>2. pc' \in [Sessions -> Steps]
      BY <1>3, <2>5, GotoType DEF FreeUse
    <3>3. ASSUME NEW n \in Nat
          PROVE  [work EXCEPT ![s].freed = n] \in [Sessions -> WorkType]
      BY <1>1 DEF SessionType, WorkType, w
    <3>4. w.freed + 1 \in Nat
      BY <1>2
    <3>5. work' \in [Sessions -> WorkType]
      BY <2>5, <3>3, <3>4 DEF FreeUse, SessionType, w
    <3> QED
      BY <3>1, <3>2, <3>5 DEF SessionType
  <2>6. CASE LockAudit(s, "mirror")
    <3>1. locks' \in [Sessions -> SUBSET Resources]
      BY <2>6, ResourceOf, TakeType DEF LockAudit
    <3> QED
      BY <1>4, <2>6, <3>1 DEF LockAudit, Goto, SessionType
  <2>7. CASE MirrorIntent(s)
    <3>1. locks' \in [Sessions -> SUBSET Resources]
      BY <1>2, <2>7, ResourceOf, TakeType DEF MirrorIntent, w
    <3> QED
      BY <1>4, <2>7, <3>1 DEF MirrorIntent, Goto, SessionType
  <2> QED
    BY <2>1, <2>2, <2>3, <2>4, <2>5, <2>6, <2>7 DEF Settle
<1> QED
  BY <1>5, <1>6, <1>7

LEMMA ProcessWebhookType ==
  ASSUME NEW s \in Webhooks, RowsType, SessionType, IntakeType, process_webhook(s)
  PROVE  RowsType' /\ SessionType' /\ IntakeType'
<1>1. s \in Sessions /\ event[s] \in Events /\ EventTxn[event[s]] \in Txns
  BY SettlementAssumption DEF IntakeType
<1>2. {"idle", "load", "flush", "commit"} \subseteq Steps
  BY DEF Steps
<1>3. CASE InsertEvent(s)
  <2>1. RowsType' /\ IntakeType'
    BY <1>3 DEF InsertEvent, rows, ownVars, RowsType, IntakeType
  <2>2. locks' \in [Sessions -> SUBSET Resources]
    BY <1>1, <1>3, ResourceOf, TakeType DEF InsertEvent
  <2> QED
    BY <1>1, <1>2, <1>3, <2>1, <2>2 DEF InsertEvent, Goto, SessionType
<1>4. CASE InsertConflict(s)
  <2>1. RowsType' /\ IntakeType'
    BY <1>4 DEF InsertConflict, rows, ownVars, RowsType, IntakeType
  <2> QED
    BY <1>1, <1>2, <1>4, <2>1, EndSessionType DEF InsertConflict
<1>5. CASE HandleEvent(s)
  <2> DEFINE t == EventTxn[event[s]]
             row == _handle_event(EventKind[event[s]], txn[t])
  <2>1. RowsType' /\ IntakeType'
    BY <1>5 DEF HandleEvent, rows, ownVars, RowsType, IntakeType
  <2>2. txn[t] \in Row /\ row \in Row /\ IntentOf[t] \in Intents
    BY <1>1, HandledRow, IntentOfAssumption DEF RowsType
  <2>3. [txn |-> t, item |-> IntentOf[t], load |-> txn[t], row |-> row, freed |-> 0] \in WorkType
    BY <1>1, <2>2 DEF WorkType
  <2> HIDE DEF t, row
  <2>4. work' = [work EXCEPT ![s] =
                   [txn |-> t, item |-> IntentOf[t], load |-> txn[t], row |-> row, freed |-> 0]]
    BY <1>5 DEF HandleEvent, t, row
  <2>5. work' \in [Sessions -> WorkType]
    BY <2>3, <2>4 DEF SessionType
  <2>6. pc' \in [Sessions -> Steps]
    BY <1>1, <1>2, <1>5 DEF HandleEvent, Goto, SessionType
  <2> QED
    BY <1>5, <2>1, <2>5, <2>6 DEF HandleEvent, SessionType
<1>6. CASE CommitWebhook(s)
  <2>1. RowsType'
    BY <1>1, <1>6, CommitRowsType DEF CommitWebhook
  <2>2. SessionType'
    BY <1>1, <1>2, <1>6, EndSessionType DEF CommitWebhook
  <2>3. [status |-> "PROCESSED", linked |-> TRUE] \in InboxRow
    BY DEF InboxRow
  <2>4. IntakeType'
    BY <1>1, <1>6, <2>3 DEF CommitWebhook, IntakeType
  <2> QED
    BY <2>1, <2>2, <2>4
<1>7. CASE Recover(s)
  <2>1. RowsType'
    BY <1>7 DEF Recover, rows, RowsType
  <2>2. SessionType'
    BY <1>1, <1>2, <1>7, EndSessionType DEF Recover
  <2>3. [status |-> "FAILED", linked |-> FALSE] \in InboxRow
    BY DEF InboxRow
  <2>4. IntakeType'
    BY <1>1, <1>7, <2>3 DEF Recover, IntakeType
  <2> QED
    BY <2>1, <2>2, <2>4
<1> QED
  BY <1>3, <1>4, <1>5, <1>6, <1>7 DEF process_webhook

LEMMA JanitorType ==
  ASSUME NEW j \in Janitors, RowsType, SessionType, IntakeType,
         release_expired_campaign_reservations(j)
  PROVE  RowsType' /\ SessionType' /\ IntakeType'
<1>1. j \in Sessions /\ {"idle", "select"} \subseteq Steps
  BY SettlementAssumption DEF Steps
<1>2. CASE SweepNext(j)
  <2>1. RowsType'
    BY <1>2 DEF SweepNext, rows, RowsType
  <2>2. PICK i \in todo[j] : /\ work' = [work EXCEPT ![j].item = i]
                             /\ todo' = [todo EXCEPT ![j] = @ \ {i}]
    BY <1>2 DEF SweepNext
  <2>3. i \in Intents
    BY <2>2 DEF IntakeType
  <2>4. IntakeType'
    BY <1>2, <2>2 DEF SweepNext, IntakeType
  <2>5. work' \in [Sessions -> WorkType]
    BY <2>2, <2>3 DEF SessionType, WorkType
  <2>6. pc' \in [Sessions -> Steps]
    BY <1>1, <1>2 DEF SweepNext, Goto, SessionType
  <2> QED
    BY <1>2, <2>1, <2>4, <2>5, <2>6 DEF SweepNext, SessionType
<1>3. CASE CommitSweep(j)
  <2>1. RowsType'
    BY <1>1, <1>3, CommitRowsType DEF CommitSweep
  <2>2. SessionType'
    BY <1>1, <1>3, EndSessionType DEF CommitSweep
  <2>3. IntakeType'
    BY <1>3 DEF CommitSweep, ownVars, IntakeType
  <2> QED
    BY <2>1, <2>2, <2>3
<1> QED
  BY <1>2, <1>3 DEF release_expired_campaign_reservations

LEMMA AbortType ==
  ASSUME NEW s \in Sessions, SessionType, Abort(s)
  PROVE  SessionType'
BY EndSessionType DEF Abort, Steps

LEMMA NextTypeOK == TypeOK /\ [Next]_vars => TypeOK'
<1> SUFFICES ASSUME RowsType, SessionType, IntakeType, [Next]_vars
             PROVE  RowsType' /\ SessionType' /\ IntakeType'
  BY TypeParts, TypePartsPrime
<1> USE DEF rows
<1>1. ASSUME NEW s \in Webhooks, NEW e \in Events, Deliver(s, e)
      PROVE  RowsType' /\ SessionType' /\ IntakeType'
  <2>1. RowsType'
    BY <1>1 DEF Deliver, RowsType
  <2>2. pc' \in [Sessions -> Steps] /\ event' \in [Webhooks -> Events]
    BY <1>1, SettlementAssumption DEF Deliver, Goto, Steps, SessionType, IntakeType
  <2>3. delivered' \in [Events -> Nat]
    BY <1>1 DEF Deliver, IntakeType
  <2> QED
    BY <1>1, <2>1, <2>2, <2>3 DEF Deliver, SessionType, IntakeType
<1>2. ASSUME NEW s \in Sessions, SessionStep(s)
      PROVE  RowsType' /\ SessionType' /\ IntakeType'
  BY <1>2, SettleType, ProcessWebhookType, JanitorType DEF SessionStep
<1>3. ASSUME NEW s \in Sessions, SessionError(s)
      PROVE  RowsType' /\ SessionType' /\ IntakeType'
  BY <1>3, AbortType DEF SessionError, RowsType, IntakeType
<1>4. ASSUME NEW s \in Sessions, Crash(s)
      PROVE  RowsType' /\ SessionType' /\ IntakeType'
  <2>1. SessionType'
    BY <1>4, EndSessionType DEF Crash, Steps
  <2> QED
    BY <1>4, <2>1 DEF Crash, RowsType, IntakeType
<1>5. ASSUME NEW s \in Sessions, DeadlockVictim(s)
      PROVE  RowsType' /\ SessionType' /\ IntakeType'
  BY <1>5, AbortType DEF DeadlockVictim, ownVars, RowsType, IntakeType
<1>6. ASSUME NEW e \in Events, retry_webhook_event(e)
      PROVE  RowsType' /\ SessionType' /\ IntakeType'
  BY <1>6 DEF retry_webhook_event, ledgerVars, RowsType, SessionType, IntakeType, InboxRow
<1>7. ASSUME NEW i \in Intents, ExpireHold(i)
      PROVE  RowsType' /\ SessionType' /\ IntakeType'
  BY <1>7 DEF ExpireHold, ledgerVars, RowsType, SessionType, IntakeType
<1>8. ASSUME NEW j \in Janitors, StartSweep(j)
      PROVE  RowsType' /\ SessionType' /\ IntakeType'
  <2>1. pc' \in [Sessions -> Steps]
    BY <1>8, SettlementAssumption DEF StartSweep, Goto, Steps, SessionType
  <2>2. todo' \in [Janitors -> SUBSET Intents]
    BY <1>8 DEF StartSweep, IntakeType
  <2> QED
    BY <1>8, <2>1, <2>2 DEF StartSweep, RowsType, SessionType, IntakeType
<1>9. CASE UNCHANGED vars
  BY <1>9 DEF vars, ledgerVars, ownVars, RowsType, SessionType, IntakeType
<1>10. ASSUME NEW i \in Cancellable, cancel_intent(i)
       PROVE  RowsType' /\ SessionType' /\ IntakeType'
  <2>1. "CANCELLED" \in TransactionStatus
    BY DEF TransactionStatus, TerminalStatuses
  <2>2. intent' \in [Intents -> TransactionStatus]
    BY <1>10, <2>1 DEF cancel_intent, RowsType
  <2> QED
    BY <1>10, <2>2 DEF cancel_intent, ownVars, RowsType, SessionType, IntakeType
<1> QED
  BY <1>1, <1>2, <1>3, <1>4, <1>5, <1>6, <1>7, <1>8, <1>9, <1>10 DEF Next

\* Rows, locks and sessions keep their shape in every behaviour of settlement.
THEOREM TypeCorrect == Spec => []TypeOK
BY InitTypeOK, NextTypeOK, PTL DEF Spec

-----------------------------------------------------------------------------
(* Settlement implements the event inbox.                                  *)

\* The steps of a webhook session after it loaded the transaction.
Applying == {"flush", "budget", "select", "hold", "free", "audit", "mirror", "commit"}

\* No row or advisory lock has two owners.
LocksExclusive ==
  \A s, o \in Sessions : s # o => locks[s] \cap locks[o] = {}

\* A session that is past the insert holds the inbox entry of its event.
InboxHeld ==
  \A s \in Webhooks : pc[s] \in Applying \cup {"load"} =>
    /\ <<"event", event[s]>> \in locks[s]
    /\ inbox[event[s]] = Absent

\* A transaction row is locked only by a session whose event names it.
TxnLocked ==
  \A s \in Sessions, t \in Txns : <<"txn", t>> \in locks[s] =>
    /\ s \in Webhooks
    /\ pc[s] \in Applying
    /\ t = EventTxn[event[s]]

\* The status a session is about to write is the one its event reports.
ReportsVerdict ==
  \A s \in Webhooks : pc[s] \in Applying =>
    /\ work[s].txn = EventTxn[event[s]]
    /\ work[s].row.status # work[s].load.status => work[s].row.status = Verdict[event[s]]

\* A janitor run never takes the steps of a webhook session.
JanitorSteps ==
  \A j \in Janitors : pc[j] \in {"idle", "sweep", "select", "hold", "free"}

IntakeInv ==
  /\ TypeOK
  /\ LocksExclusive
  /\ InboxHeld
  /\ TxnLocked
  /\ ReportsVerdict
  /\ JanitorSteps

LEMMA InitIntakeInv == Init => IntakeInv
<1> SUFFICES ASSUME Init PROVE IntakeInv
  OBVIOUS
<1>1. \A s \in Sessions : pc[s] = "idle" /\ locks[s] = {}
  BY DEF Init
<1>2. Webhooks \subseteq Sessions /\ Janitors \subseteq Sessions
  BY SettlementAssumption
<1>3. "idle" \notin Applying \cup {"load"}
  BY DEF Applying
<1>4. LocksExclusive /\ TxnLocked
  BY <1>1 DEF LocksExclusive, TxnLocked
<1>5. InboxHeld /\ ReportsVerdict /\ JanitorSteps
  BY <1>1, <1>2, <1>3 DEF InboxHeld, ReportsVerdict, JanitorSteps
<1> QED
  BY <1>4, <1>5, InitTypeOK DEF IntakeInv

LEMMA Typed ==
  ASSUME TypeOK
  PROVE  /\ locks \in [Sessions -> SUBSET Resources]
         /\ pc \in [Sessions -> Steps]
         /\ work \in [Sessions -> WorkType]
         /\ event \in [Webhooks -> Events]
         /\ inbox \in [Events -> InboxRow]
BY DEF TypeOK, WorkType

\* Nobody holds what a session takes, so no lock gets a second owner.
LEMMA TakeExclusive ==
  ASSUME TypeOK, LocksExclusive, NEW s \in Sessions, NEW r, Take(s, r)
  PROVE  LocksExclusive'
BY Typed DEF LocksExclusive, Take, Free

\* A session that ends gives up all it held, and no other session notices.
LEMMA EndKeepsInv ==
  ASSUME IntakeInv, TypeOK', NEW s \in Sessions, NEW step \in {"idle", "recover"},
         s \in Webhooks \/ step = "idle",
         EndSession(s, step), UNCHANGED event,
         \A o \in Webhooks \ {s} : pc[o] \in Applying \cup {"load"}
                                     => inbox'[event[o]] = inbox[event[o]]
  PROVE  IntakeInv'
<1> USE DEF IntakeInv, EndSession, Goto
<1>0. Webhooks \subseteq Sessions /\ Webhooks \cap Janitors = {}
  BY SettlementAssumption
<1>1. \A o \in Sessions : /\ pc'[o] = IF o = s THEN step ELSE pc[o]
                          /\ locks'[o] = IF o = s THEN {} ELSE locks[o]
                          /\ o # s => work'[o] = work[o]
  BY Typed
<1>2. step \notin Applying \cup {"load"}
  BY DEF Applying
<1>3. LocksExclusive'
  BY <1>1 DEF LocksExclusive
<1>4. InboxHeld'
  BY <1>0, <1>1, <1>2 DEF InboxHeld
<1>5. TxnLocked'
  BY <1>1 DEF TxnLocked
<1>6. ReportsVerdict'
  BY <1>0, <1>1, <1>2 DEF ReportsVerdict
<1>7. JanitorSteps'
  BY <1>0, <1>1, SettlementAssumption DEF JanitorSteps
<1> QED
  BY <1>3, <1>4, <1>5, <1>6, <1>7

JanitorStep == {"idle", "sweep", "select", "hold", "free"}

\* A session that goes on, and locks what nobody holds, keeps the invariant.
LEMMA MoveKeepsInv ==
  ASSUME IntakeInv, TypeOK', NEW s \in Sessions, NEW step \in Steps, Goto(s, step),
         NEW R \in SUBSET Resources,
         locks' = [locks EXCEPT ![s] = @ \cup R],
         \A o \in Sessions \ {s} : R \cap locks[o] = {},
         event' = event, inbox' = inbox,
         work'[s].txn = work[s].txn, work'[s].row = work[s].row, work'[s].load = work[s].load,
         \A o \in Sessions \ {s} : work'[o] = work[o],
         s \in Webhooks => pc[s] \in Applying /\ step \in Applying,
         s \in Janitors => step \in JanitorStep,
         \A t \in Txns : <<"txn", t>> \in R => s \in Webhooks /\ t = work[s].txn
  PROVE  IntakeInv'
<1> USE DEF IntakeInv
<1>0. Webhooks \subseteq Sessions /\ Webhooks \cap Janitors = {} /\ Janitors \subseteq Sessions
  BY SettlementAssumption
<1>1. \A o \in Sessions : /\ pc'[o] = IF o = s THEN step ELSE pc[o]
                          /\ locks'[o] = IF o = s THEN locks[o] \cup R ELSE locks[o]
  BY Typed DEF Goto
<1>2. LocksExclusive'
  BY <1>1 DEF LocksExclusive
<1>3. InboxHeld'
  <2>1. ASSUME NEW o \in Webhooks, pc'[o] \in Applying \cup {"load"}
        PROVE  <<"event", event[o]>> \in locks'[o] /\ inbox[event[o]] = Absent
    <3>1. pc[o] \in Applying \cup {"load"}
      BY <1>0, <1>1, <2>1
    <3>2. <<"event", event[o]>> \in locks[o] /\ inbox[event[o]] = Absent
      BY <3>1 DEF InboxHeld
    <3>3. locks[o] \subseteq locks'[o]
      BY <1>0, <1>1
    <3> QED
      BY <3>2, <3>3
  <2> QED
    BY <2>1 DEF InboxHeld
<1>4. TxnLocked'
  <2>1. ASSUME NEW o \in Sessions, NEW t \in Txns, <<"txn", t>> \in locks'[o]
        PROVE  o \in Webhooks /\ pc'[o] \in Applying /\ t = EventTxn[event[o]]
    <3>1. CASE <<"txn", t>> \in locks[o]
      BY <1>0, <1>1, <3>1 DEF TxnLocked
    <3>2. CASE <<"txn", t>> \notin locks[o]
      <4>1. o = s /\ <<"txn", t>> \in R
        BY <1>1, <2>1, <3>2
      <4> QED
        BY <1>1, <4>1 DEF ReportsVerdict
    <3> QED
      BY <3>1, <3>2
  <2> QED
    BY <2>1 DEF TxnLocked
<1>5. ReportsVerdict'
  <2>1. ASSUME NEW o \in Webhooks, pc'[o] \in Applying
        PROVE  /\ work[o].txn = EventTxn[event[o]]
               /\ work[o].row.status # work[o].load.status => work[o].row.status = Verdict[event[o]]
    BY <1>0, <1>1, <2>1 DEF ReportsVerdict
  <2>2. \A o \in Webhooks : /\ work'[o].txn = work[o].txn
                            /\ work'[o].row = work[o].row
                            /\ work'[o].load = work[o].load
    BY <1>0
  <2>3. Verdict' = Verdict
    BY DEF Verdict
  <2> QED
    BY <2>1, <2>2, <2>3 DEF ReportsVerdict
<1>6. JanitorSteps'
  BY <1>0, <1>1 DEF JanitorSteps, JanitorStep
<1> QED
  BY <1>2, <1>3, <1>4, <1>5, <1>6

\* What _handle_event changes the status to is what the event reports.
LEMMA HandledVerdict ==
  ASSUME NEW e \in Events, NEW row \in Row,
         _handle_event(EventKind[e], row).status # row.status
  PROVE  _handle_event(EventKind[e], row).status = Verdict[e]
<1> DEFINE noted == [row EXCEPT !.paid = @ \/ EventKind[e] = "captured"]
<1>1. ASSUME NEW r \in Row, NEW target
      PROVE  Transitioned(r, target).status = target
  BY DEF Row, Transitioned
<1>2. noted \in Row /\ noted.status = row.status
  BY DEF Row
<1>3. CASE EventKind[e] \in Captures
  <2>1. _handle_event(EventKind[e], row) =
          IF can_transition(row.status, "COMPLETED") THEN Transitioned(noted, "COMPLETED") ELSE noted
    BY <1>3 DEF _handle_event, Captures
  <2> HIDE DEF noted
  <2>2. can_transition(row.status, "COMPLETED")
    BY <1>2, <2>1
  <2>3. _handle_event(EventKind[e], row).status = "COMPLETED"
    BY <1>1, <1>2, <2>1, <2>2
  <2> QED
    BY <1>3, <2>3 DEF Verdict
<1>4. CASE EventKind[e] = "failed"
  BY <1>1, <1>4 DEF _handle_event, Verdict, Captures
<1>5. CASE EventKind[e] \notin Captures \cup {"failed"}
  BY <1>5 DEF _handle_event
<1> QED
  BY <1>3, <1>4, <1>5

\* The steps of transition_transaction and of the settlements: each moves on
\* and takes at most the lock of one row.
LEMMA SettleKeepsInv ==
  ASSUME IntakeInv, TypeOK', NEW s \in Sessions, Settle(s)
  PROVE  IntakeInv'
<1> DEFINE Moves(R, step) ==
      /\ Goto(s, step)
      /\ R \in SUBSET Resources
      /\ locks' = [locks EXCEPT ![s] = @ \cup R]
      /\ \A o \in Sessions \ {s} : R \cap locks[o] = {}
      /\ \A t \in Txns : <<"txn", t>> \in R => pc[s] = "flush" /\ t = work[s].txn
<1>1. /\ pc \in [Sessions -> Steps] /\ locks \in [Sessions -> SUBSET Resources]
      /\ work \in [Sessions -> WorkType]
      /\ work[s].txn \in Txns /\ work[s].item \in Intents
  BY Typed DEF IntakeInv, WorkType
<1>2. /\ Webhooks \subseteq Sessions /\ Webhooks \cap Janitors = {}
      /\ Sessions = Webhooks \cup Janitors
  BY SettlementAssumption
<1>3. /\ event' = event /\ inbox' = inbox
      /\ pc[s] \in {"flush", "budget", "select", "hold", "free", "audit", "mirror"}
  BY DEF Settle, ownVars, FlushRow, settle_budget_for_intent, SelectHold, UpdateHold, FreeUse,
         LockAudit, MirrorIntent
<1>4. /\ s \in Webhooks => pc[s] \in Applying /\ AfterHold(s) = "audit"
      /\ s \in Janitors => pc[s] \in {"select", "hold", "free"} /\ AfterHold(s) = "sweep"
  BY <1>2, <1>3 DEF Applying, IntakeInv, JanitorSteps, AfterHold
<1>5. ASSUME NEW r \in Resources, NEW step, Take(s, r), Goto(s, step),
             \A t \in Txns : r = <<"txn", t>> => pc[s] = "flush" /\ t = work[s].txn
      PROVE  Moves({r}, step)
  BY <1>5 DEF Take, Free
<1>6. ASSUME NEW step, UNCHANGED locks, Goto(s, step)
      PROVE  Moves({}, step)
  BY <1>1, <1>6
<1>7. /\ \A o \in Sessions \ {s} : work'[o] = work[o]
      /\ work'[s].txn = work[s].txn
      /\ work'[s].row = work[s].row
      /\ work'[s].load = work[s].load
  <2>1. CASE UNCHANGED work
    BY <2>1
  <2>2. CASE work' = [work EXCEPT ![s].freed = @ + 1]
    BY <1>1, <2>2 DEF WorkType
  <2> QED
    BY <2>1, <2>2 DEF Settle, FlushRow, settle_budget_for_intent, SelectHold, UpdateHold, FreeUse,
         LockAudit, MirrorIntent
<1>8. \E R \in SUBSET Resources, step \in Steps :
         /\ Moves(R, step)
         /\ s \in Webhooks => step \in Applying
         /\ s \in Janitors => step \in JanitorStep
  <2> DEFINE Goal(R, step) ==
        /\ Moves(R, step)
        /\ s \in Webhooks => step \in Applying
        /\ s \in Janitors => step \in JanitorStep
  <2> SUFFICES \E R \in SUBSET Resources, step \in Steps : Goal(R, step)
    OBVIOUS
  <2>0. /\ {"flush", "budget", "select", "hold", "free", "audit", "mirror", "commit", "sweep"}
              \subseteq Steps
        /\ AfterHold(s) \in Steps
    BY DEF Steps, AfterHold
  <2>1. CASE FlushRow(s)
    <3>1. PICK step \in {"budget", "audit", "commit"} : Goto(s, step) /\ Take(s, <<"txn", work[s].txn>>)
      BY <2>1 DEF FlushRow
    <3>2. pc[s] = "flush" /\ s \notin Janitors
      BY <1>4, <2>1 DEF FlushRow
    <3>3. Moves({<<"txn", work[s].txn>>}, step)
      BY <1>1, <1>5, <3>1, <3>2, ResourceOf
    <3>4. Goal({<<"txn", work[s].txn>>}, step)
      BY <3>2, <3>3 DEF Applying
    <3> QED
      BY <1>1, <2>0, <3>4, ResourceOf
  <2>2. ASSUME NEW r \in Resources, NEW step \in Steps, Goto(s, step),
               Take(s, r) \/ UNCHANGED locks,
               \A t \in Txns : r # <<"txn", t>>,
               s \in Webhooks => step \in Applying,
               s \in Janitors => step \in JanitorStep
        PROVE  \E R \in SUBSET Resources, q \in Steps : Goal(R, q)
    <3>1. CASE Take(s, r)
      <4>1. Goal({r}, step)
        BY <1>5, <2>2, <3>1
      <4> QED
        BY <2>2, <4>1
    <3>2. CASE UNCHANGED locks
      <4>1. Goal({}, step)
        BY <1>6, <2>2, <3>2
      <4> QED
        BY <2>2, <4>1
    <3> QED
      BY <2>2, <3>1, <3>2
  <2>3. /\ \A i \in Intents, t \in Txns : <<"budget", i>> # <<"txn", t>> /\ <<"hold", i>> # <<"txn", t>>
                                         /\ <<"intent", i>> # <<"txn", t>>
        /\ \A t \in Txns : Campaign # <<"txn", t>> /\ AuditLock # <<"txn", t>>
    BY DEF Campaign, AuditLock
  <2>4. /\ {"budget", "hold", "free", "audit", "mirror", "commit", "select"} \subseteq Applying
        /\ {"hold", "free", "sweep"} \subseteq JanitorStep
    BY DEF Applying, JanitorStep
  <2> HIDE DEF Goal
  <2>5. CASE settle_budget_for_intent(s)
    BY <1>1, <1>4, <2>0, <2>2, <2>3, <2>4, <2>5, ResourceOf DEF settle_budget_for_intent
  <2>6. CASE SelectHold(s, AfterHold(s))
    BY <1>4, <2>0, <2>2, <2>3, <2>4, <2>6, ResourceOf DEF SelectHold
  <2>7. CASE UpdateHold(s, Captured(s), AfterHold(s))
    BY <1>1, <1>4, <2>0, <2>2, <2>3, <2>4, <2>7, ResourceOf DEF UpdateHold
  <2>8. CASE FreeUse(s, AfterHold(s))
    BY <1>4, <2>0, <2>2, <2>3, <2>4, <2>8, ResourceOf DEF FreeUse
  <2>9. CASE LockAudit(s, "mirror")
    BY <1>4, <2>0, <2>2, <2>3, <2>4, <2>9, ResourceOf DEF LockAudit
  <2>10. CASE MirrorIntent(s)
    BY <1>1, <1>4, <2>0, <2>2, <2>3, <2>4, <2>10, ResourceOf DEF MirrorIntent
  <2> QED
    BY <2>1, <2>5, <2>6, <2>7, <2>8, <2>9, <2>10 DEF Settle
<1>9. PICK R \in SUBSET Resources, step \in Steps :
        /\ Moves(R, step)
        /\ s \in Webhooks => step \in Applying
        /\ s \in Janitors => step \in JanitorStep
  BY <1>8
<1>10. \A t \in Txns : <<"txn", t>> \in R => s \in Webhooks /\ t = work[s].txn
  BY <1>2, <1>4, <1>9
<1> QED
  BY <1>3, <1>4, <1>7, <1>9, <1>10, MoveKeepsInv

LEMMA InsertKeepsInv ==
  ASSUME IntakeInv, TypeOK', NEW s \in Webhooks, InsertEvent(s)
  PROVE  IntakeInv'
<1> USE DEF IntakeInv
<1>0. /\ Webhooks \subseteq Sessions /\ Webhooks \cap Janitors = {} /\ Janitors \subseteq Sessions
      /\ "insert" \notin Applying /\ "load" \notin Applying
  BY SettlementAssumption DEF Applying
<1>1. /\ event' = event /\ inbox' = inbox /\ work' = work
      /\ pc[s] = "insert" /\ inbox[event[s]] = Absent
  BY DEF InsertEvent, ownVars
<1>2. \A o \in Sessions :
        /\ pc'[o] = IF o = s THEN "load" ELSE pc[o]
        /\ locks'[o] = IF o = s THEN locks[o] \cup {<<"event", event[s]>>} ELSE locks[o]
  BY <1>0, Typed DEF InsertEvent, Goto, Take
<1>3. LocksExclusive'
  BY <1>0, TakeExclusive DEF InsertEvent
<1>4. InboxHeld'
  <2>1. ASSUME NEW o \in Webhooks, pc'[o] \in Applying \cup {"load"}
        PROVE  <<"event", event[o]>> \in locks'[o] /\ inbox[event[o]] = Absent
    <3>1. CASE o = s
      BY <1>0, <1>1, <1>2, <3>1
    <3>2. CASE o # s
      BY <1>0, <1>2, <2>1, <3>2 DEF InboxHeld
    <3> QED
      BY <3>1, <3>2
  <2> QED
    BY <1>1, <2>1 DEF InboxHeld
<1>5. TxnLocked'
  <2>1. ASSUME NEW o \in Sessions, NEW t \in Txns, <<"txn", t>> \in locks'[o]
        PROVE  o \in Webhooks /\ pc'[o] \in Applying /\ t = EventTxn[event[o]]
    <3>0. <<"txn", t>> # <<"event", event[s]>>
      OBVIOUS
    <3>1. <<"txn", t>> \in locks[o]
      BY <1>2, <2>1, <3>0
    <3>2. o \in Webhooks /\ pc[o] \in Applying /\ t = EventTxn[event[o]]
      BY <3>1 DEF TxnLocked
    <3> QED
      BY <1>0, <1>1, <1>2, <3>2
  <2> QED
    BY <1>1, <2>1 DEF TxnLocked
<1>6. ReportsVerdict'
  <2>1. ASSUME NEW o \in Webhooks, pc'[o] \in Applying
        PROVE  pc[o] \in Applying
    BY <1>0, <1>2, <2>1
  <2>2. Verdict' = Verdict
    BY DEF Verdict
  <2> QED
    BY <1>1, <2>1, <2>2 DEF ReportsVerdict
<1>7. JanitorSteps'
  BY <1>0, <1>2 DEF JanitorSteps
<1> QED
  BY <1>3, <1>4, <1>5, <1>6, <1>7

LEMMA HandleKeepsInv ==
  ASSUME IntakeInv, TypeOK', NEW s \in Webhooks, HandleEvent(s)
  PROVE  IntakeInv'
<1> USE DEF IntakeInv
<1> DEFINE e == event[s]
           row == _handle_event(EventKind[e], txn[EventTxn[e]])
<1>0. /\ Webhooks \subseteq Sessions /\ Webhooks \cap Janitors = {} /\ Janitors \subseteq Sessions
      /\ {"commit", "flush"} \subseteq Applying /\ "load" \notin Applying
  BY SettlementAssumption DEF Applying
<1>1. /\ event' = event /\ inbox' = inbox /\ locks' = locks /\ pc[s] = "load"
  BY DEF HandleEvent, ownVars
<1>2. PICK step \in {"commit", "flush"} : Goto(s, step)
  BY DEF HandleEvent
<1>3. \A o \in Sessions : pc'[o] = IF o = s THEN step ELSE pc[o]
  BY <1>0, <1>2, Typed DEF Goto
<1>4. \A o \in Sessions \ {s} : work'[o] = work[o]
  BY <1>0, Typed DEF HandleEvent
<1>5. /\ work'[s].txn = EventTxn[e] /\ work'[s].row = row
      /\ work'[s].load = txn[EventTxn[e]]
  BY <1>0, Typed DEF HandleEvent
<1>6. e \in Events /\ txn[EventTxn[e]] \in Row
  BY SettlementAssumption DEF TypeOK
<1>7. row.status # txn[EventTxn[e]].status => row.status = Verdict[e]
  BY <1>6, HandledVerdict
<1> HIDE DEF e, row
<1>8. LocksExclusive'
  BY <1>1 DEF LocksExclusive
<1>9. InboxHeld'
  <2>1. ASSUME NEW o \in Webhooks, pc'[o] \in Applying \cup {"load"}
        PROVE  pc[o] \in Applying \cup {"load"}
    BY <1>0, <1>1, <1>3, <2>1
  <2> QED
    BY <1>1, <2>1 DEF InboxHeld
<1>10. TxnLocked'
  <2>1. ASSUME NEW o \in Sessions, pc[o] \in Applying
        PROVE  pc'[o] \in Applying
    BY <1>0, <1>1, <1>3, <2>1
  <2> QED
    BY <1>1, <2>1 DEF TxnLocked
<1>11. ReportsVerdict'
  <2>1. Verdict' = Verdict
    BY DEF Verdict
  <2>2. ASSUME NEW o \in Webhooks, pc'[o] \in Applying
        PROVE  /\ work'[o].txn = EventTxn[event[o]]
               /\ work'[o].row.status # work'[o].load.status
                     => work'[o].row.status = Verdict[event[o]]
    <3>1. CASE o = s
      BY <1>5, <1>7, <3>1 DEF e
    <3>2. CASE o # s
      <4>1. work'[o] = work[o] /\ pc[o] \in Applying
        BY <1>0, <1>3, <1>4, <2>2, <3>2
      <4> QED
        BY <4>1 DEF ReportsVerdict
    <3> QED
      BY <3>1, <3>2
  <2> QED
    BY <1>1, <2>1, <2>2 DEF ReportsVerdict
<1>12. JanitorSteps'
  BY <1>0, <1>3 DEF JanitorSteps
<1> QED
  BY <1>8, <1>9, <1>10, <1>11, <1>12

\* A session that works on an event keeps every other session off it.
LEMMA EntryIsExclusive ==
  ASSUME IntakeInv, NEW s \in Webhooks, NEW o \in Webhooks, s # o,
         pc[o] \in Applying \cup {"load"},
         <<"event", event[s]>> \notin locks[o]
  PROVE  event[o] # event[s]
BY DEF IntakeInv, InboxHeld

LEMMA ProcessWebhookKeepsInv ==
  ASSUME IntakeInv, TypeOK', NEW s \in Webhooks, process_webhook(s)
  PROVE  IntakeInv'
<1>1. /\ Webhooks \subseteq Sessions /\ event \in [Webhooks -> Events]
      /\ inbox \in [Events -> InboxRow] /\ "commit" \in Applying
  BY SettlementAssumption, Typed DEF IntakeInv, Applying
<1>2. CASE InsertEvent(s)
  BY <1>2, InsertKeepsInv
<1>3. CASE InsertConflict(s)
  BY <1>1, <1>3, EndKeepsInv DEF InsertConflict, ownVars
<1>4. CASE HandleEvent(s)
  BY <1>4, HandleKeepsInv
<1>5. CASE CommitWebhook(s)
  <2>1. <<"event", event[s]>> \in locks[s]
    BY <1>1, <1>5 DEF CommitWebhook, IntakeInv, InboxHeld
  <2>2. ASSUME NEW o \in Webhooks \ {s}, pc[o] \in Applying \cup {"load"}
        PROVE  inbox'[event[o]] = inbox[event[o]]
    <3>1. <<"event", event[s]>> \notin locks[o]
      BY <1>1, <2>1 DEF IntakeInv, LocksExclusive
    <3>2. event[o] # event[s]
      BY <2>2, <3>1, EntryIsExclusive
    <3> QED
      BY <1>1, <1>5, <3>2 DEF CommitWebhook
  <2> QED
    BY <1>1, <1>5, <2>2, EndKeepsInv DEF CommitWebhook
<1>6. CASE Recover(s)
  <2>1. ASSUME NEW o \in Webhooks \ {s}, pc[o] \in Applying \cup {"load"}
        PROVE  inbox'[event[o]] = inbox[event[o]]
    <3>1. <<"event", event[s]>> \notin locks[o]
      BY <1>1, <1>6 DEF Recover, Free
    <3>2. event[o] # event[s]
      BY <2>1, <3>1, EntryIsExclusive
    <3> QED
      BY <1>1, <1>6, <3>2 DEF Recover
  <2> QED
    BY <1>1, <1>6, <2>1, EndKeepsInv DEF Recover
<1> QED
  BY <1>2, <1>3, <1>4, <1>5, <1>6 DEF process_webhook

\* A step that leaves sessions, events and locks alone, and removes no row
\* from the inbox that a session works on.
LEMMA IdleStepKeepsInv ==
  ASSUME IntakeInv, TypeOK', UNCHANGED <<locks, pc, work, event>>,
         \A e \in Events : inbox[e] = Absent => inbox'[e] = Absent
  PROVE  IntakeInv'
<1> USE DEF IntakeInv
<1>1. locks' = locks /\ pc' = pc /\ work' = work /\ event' = event
  OBVIOUS
<1>2. LocksExclusive' /\ TxnLocked' /\ JanitorSteps'
  BY <1>1 DEF LocksExclusive, TxnLocked, JanitorSteps
<1>3. InboxHeld'
  BY <1>1, Typed DEF InboxHeld
<1>4. Verdict' = Verdict
  BY DEF Verdict
<1>5. ReportsVerdict'
  BY <1>1, <1>4 DEF ReportsVerdict
<1> QED
  BY <1>2, <1>3, <1>5

\* A session that starts holds nothing yet.
LEMMA StartKeepsInv ==
  ASSUME IntakeInv, TypeOK', NEW s \in Sessions, NEW step,
         pc[s] = "idle", Goto(s, step), UNCHANGED <<locks, work, inbox>>,
         s \in Webhooks => step = "insert",
         s \in Janitors => step = "sweep",
         \A o \in Webhooks \ {s} : event'[o] = event[o]
  PROVE  IntakeInv'
<1> USE DEF IntakeInv
<1>0. /\ Webhooks \subseteq Sessions /\ Webhooks \cap Janitors = {} /\ Janitors \subseteq Sessions
      /\ {"insert", "idle", "sweep"} \cap Applying = {} /\ "load" \notin {"insert", "idle", "sweep"}
  BY SettlementAssumption DEF Applying
<1>1. locks' = locks /\ work' = work /\ inbox' = inbox
  OBVIOUS
<1>2. \A o \in Sessions : pc'[o] = IF o = s THEN step ELSE pc[o]
  BY Typed DEF Goto
<1>3. ASSUME NEW o \in Webhooks, pc'[o] \in Applying \cup {"load"}
      PROVE  o # s /\ pc[o] = pc'[o] /\ event'[o] = event[o]
  BY <1>0, <1>2, <1>3
<1>4. LocksExclusive'
  BY <1>1 DEF LocksExclusive
<1>5. InboxHeld'
  BY <1>1, <1>3 DEF InboxHeld
<1>6. TxnLocked'
  <2>1. ASSUME NEW o \in Sessions, NEW t \in Txns, <<"txn", t>> \in locks[o]
        PROVE  o \in Webhooks /\ o # s /\ pc[o] \in Applying /\ t = EventTxn[event[o]]
    BY <1>0, <2>1 DEF TxnLocked
  <2> QED
    BY <1>0, <1>1, <1>2, <2>1 DEF TxnLocked
<1>7. Verdict' = Verdict
  BY DEF Verdict
<1>8. ReportsVerdict'
  BY <1>1, <1>3, <1>7 DEF ReportsVerdict
<1>9. JanitorSteps'
  BY <1>0, <1>2 DEF JanitorSteps
<1> QED
  BY <1>4, <1>5, <1>6, <1>8, <1>9

LEMMA NextIntakeInv == IntakeInv /\ [Next]_vars => IntakeInv'
<1> SUFFICES ASSUME IntakeInv, [Next]_vars PROVE IntakeInv'
  OBVIOUS
<1>0. TypeOK'
  BY NextTypeOK DEF IntakeInv
<1>1. /\ Webhooks \subseteq Sessions /\ Janitors \subseteq Sessions /\ Webhooks \cap Janitors = {}
      /\ Sessions = Webhooks \cup Janitors
      /\ event \in [Webhooks -> Events] /\ inbox \in [Events -> InboxRow]
  BY SettlementAssumption, Typed DEF IntakeInv
<1>2. ASSUME NEW s \in Webhooks, NEW e \in Events, Deliver(s, e)
      PROVE  IntakeInv'
  <2>1. /\ UNCHANGED <<locks, work, inbox>> /\ pc[s] = "idle"
    BY <1>2 DEF Deliver
  <2>2. CASE inbox[e] = Absent
    <3>1. Goto(s, "insert") /\ \A o \in Webhooks \ {s} : event'[o] = event[o]
      BY <1>1, <1>2, <2>2 DEF Deliver
    <3> QED
      BY <1>0, <1>1, <2>1, <3>1, StartKeepsInv
  <2>3. CASE inbox[e] # Absent
    <3>1. UNCHANGED <<locks, pc, work, event>> /\ inbox' = inbox
      BY <1>2, <2>3 DEF Deliver
    <3> QED
      BY <1>0, <3>1, IdleStepKeepsInv
  <2> QED
    BY <2>2, <2>3
<1>3. ASSUME NEW s \in Sessions, SessionStep(s)
      PROVE  IntakeInv'
  <2>1. CASE s \in Webhooks /\ process_webhook(s)
    BY <1>0, <2>1, ProcessWebhookKeepsInv
  <2>2. CASE s \in Janitors /\ SweepNext(s)
    <3>1. pc[s] = "sweep" /\ Goto(s, "select") /\ locks' = locks /\ event' = event /\ inbox' = inbox
      BY <2>2 DEF SweepNext
    <3>2. PICK i : work' = [work EXCEPT ![s].item = i]
      BY <2>2 DEF SweepNext
    <3>3. work[s] \in WorkType /\ work \in [Sessions -> WorkType]
      BY Typed DEF IntakeInv
    <3>4. /\ \A o \in Sessions \ {s} : work'[o] = work[o]
          /\ work'[s].txn = work[s].txn /\ work'[s].row = work[s].row /\ work'[s].load = work[s].load
      BY <3>2, <3>3 DEF WorkType
    <3>5. locks' = [locks EXCEPT ![s] = @ \cup {}]
      BY <3>1, Typed DEF IntakeInv
    <3>6. "select" \in Steps /\ "select" \in JanitorStep /\ s \notin Webhooks
      BY <1>1, <2>2 DEF Steps, JanitorStep
    <3> DEFINE R == {}
    <3>7. /\ R \in SUBSET Resources
          /\ \A o \in Sessions \ {s} : R \cap locks[o] = {}
          /\ \A t \in Txns : <<"txn", t>> \notin R
          /\ locks' = [locks EXCEPT ![s] = @ \cup R]
      BY <3>5
    <3> HIDE DEF R
    <3> QED
      BY <1>0, <3>1, <3>4, <3>6, <3>7, MoveKeepsInv
  <2>3. CASE s \in Janitors /\ CommitSweep(s)
    BY <1>0, <2>3, EndKeepsInv DEF CommitSweep, ownVars
  <2>4. CASE Settle(s)
    BY <1>0, <2>4, SettleKeepsInv
  <2> QED
    BY <1>3, <2>1, <2>2, <2>3, <2>4 DEF SessionStep, release_expired_campaign_reservations
<1>4. ASSUME NEW s \in Sessions, Abort(s), event' = event, inbox' = inbox
      PROVE  IntakeInv'
  <2>1. PICK step \in {"idle", "recover"} : EndSession(s, step) /\ (s \in Webhooks \/ step = "idle")
    BY <1>4 DEF Abort
  <2> QED
    BY <1>0, <1>4, <2>1, EndKeepsInv
<1>5. ASSUME NEW s \in Sessions, SessionError(s)
      PROVE  IntakeInv'
  BY <1>4, <1>5 DEF SessionError
<1>6. ASSUME NEW s \in Sessions, DeadlockVictim(s)
      PROVE  IntakeInv'
  BY <1>4, <1>6 DEF DeadlockVictim, ownVars
<1>7. ASSUME NEW s \in Sessions, Crash(s)
      PROVE  IntakeInv'
  BY <1>0, <1>7, EndKeepsInv DEF Crash
<1>8. ASSUME NEW e \in Events, retry_webhook_event(e)
      PROVE  IntakeInv'
  <2>1. \A d \in Events : inbox[d] = Absent => inbox'[d] = Absent
    <3>1. ASSUME NEW d \in Events, inbox[d] = Absent
          PROVE  d # e
      BY <1>8, <3>1 DEF retry_webhook_event, Absent
    <3> QED
      BY <1>1, <1>8, <3>1 DEF retry_webhook_event
  <2>2. UNCHANGED <<locks, pc, work, event>>
    BY <1>8 DEF retry_webhook_event, ledgerVars
  <2> QED
    BY <1>0, <2>1, <2>2, IdleStepKeepsInv
<1>9. ASSUME NEW i \in Intents, ExpireHold(i)
      PROVE  IntakeInv'
  <2>1. UNCHANGED <<locks, pc, work, event>> /\ inbox' = inbox
    BY <1>9 DEF ExpireHold, ledgerVars
  <2> QED
    BY <1>0, <2>1, IdleStepKeepsInv
<1>10. ASSUME NEW j \in Janitors, StartSweep(j)
       PROVE  IntakeInv'
  <2>1. /\ UNCHANGED <<locks, work, inbox>> /\ event' = event
        /\ pc[j] = "idle" /\ Goto(j, "sweep")
    BY <1>10 DEF StartSweep
  <2> QED
    BY <1>0, <1>1, <2>1, StartKeepsInv
<1>11. CASE UNCHANGED vars
  <2>1. UNCHANGED <<locks, pc, work, event>> /\ inbox' = inbox
    BY <1>11 DEF vars, ledgerVars, ownVars
  <2> QED
    BY <1>0, <2>1, IdleStepKeepsInv
<1>12. ASSUME NEW i \in Cancellable, cancel_intent(i)
       PROVE  IntakeInv'
  <2>1. UNCHANGED <<locks, pc, work, event>> /\ inbox' = inbox
    BY <1>12 DEF cancel_intent, ownVars
  <2> QED
    BY <1>0, <2>1, IdleStepKeepsInv
<1> QED
  BY <1>2, <1>3, <1>5, <1>6, <1>7, <1>8, <1>9, <1>10, <1>11, <1>12 DEF Next

\* While a session works on an event it owns the event's inbox entry, and only
\* such a session owns the row of the event's transaction.
THEOREM IntakeExclusive == Spec => []IntakeInv
BY InitIntakeInv, NextIntakeInv, PTL DEF Spec

-----------------------------------------------------------------------------
(* Every step of settlement is a step of the inbox, or none.               *)

Recorded == {e \in Events : inbox[e] # Absent}
StatusOf == [t \in Txns |-> txn[t].status]

LEMMA InitRefines == Init => Inbox!Init
<1> SUFFICES ASSUME Init PROVE Inbox!Init
  OBVIOUS
<1>1. Recorded = {}
  BY DEF Init, Recorded
<1>2. StatusOf = [t \in Txns |-> "SUBMITTED"]
  BY DEF Init, StatusOf, SubmittedRow
<1> QED
  BY <1>1, <1>2 DEF Inbox!Init, Recorded, StatusOf

\* A step that touches neither the inbox rows nor the transactions.
LEMMA StutterRefines ==
  ASSUME txn' = txn, inbox' = inbox
  PROVE  UNCHANGED Inbox!vars
BY DEF Inbox!vars

LEMMA RecordRefines ==
  ASSUME TypeOK, NEW e \in Events, inbox[e] = Absent, txn' = txn,
         NEW row, row # Absent, inbox' = [inbox EXCEPT ![e] = row]
  PROVE  Inbox!Next
<1>1. e \in Events \ Recorded /\ Recorded' = Recorded \cup {e}
  BY Typed DEF Recorded
<1>2. StatusOf' = StatusOf
  BY DEF StatusOf
<1>3. Inbox!Record(e)
  BY <1>1, <1>2 DEF Inbox!Record, Recorded, StatusOf
<1> QED
  BY <1>1, <1>3 DEF Inbox!Next, Recorded

\* A commit writes the one transaction it locked, with the event's verdict.
LEMMA CommitRefines ==
  ASSUME IntakeInv, NEW s \in Webhooks, CommitWebhook(s)
  PROVE  Inbox!Next
<1>0. event[s] \in Events /\ EventTxn[event[s]] \in Txns /\ s \in Sessions
  BY SettlementAssumption, Typed DEF IntakeInv
<1>1. PICK e \in Events, t \in Txns : e = event[s] /\ t = EventTxn[e]
  BY <1>0
<1>2. /\ inbox[e] = Absent
      /\ work[s].txn = t
      /\ work[s].row.status # work[s].load.status => work[s].row.status = Verdict[e]
  BY <1>1 DEF CommitWebhook, IntakeInv, InboxHeld, ReportsVerdict, Applying
<1>3. \A u \in Txns : <<"txn", u>> \in locks[s] => u = t
  BY <1>0, <1>1 DEF IntakeInv, TxnLocked
<1>4. txn' = [u \in Txns |-> IF <<"txn", u>> \in locks[s] THEN Overwrite(txn[u], work[s]) ELSE txn[u]]
  BY DEF CommitWebhook, CommitRows
<1>5. e \in Events \ Recorded /\ Recorded' = Recorded \cup {e}
  BY <1>1, <1>2, Typed DEF CommitWebhook, IntakeInv, Recorded, Absent
<1>6. CASE <<"txn", t>> \in locks[s] /\ work[s].row.status # work[s].load.status
  <2>1. \A u \in Txns : StatusOf'[u] = IF u = t THEN Verdict[e] ELSE StatusOf[u]
    BY <1>2, <1>3, <1>4, <1>6 DEF StatusOf, Overwrite
  <2>2. StatusOf' = [StatusOf EXCEPT ![t] = Verdict[e]]
    BY <2>1 DEF StatusOf
  <2>3. Inbox!Apply(e)
    BY <1>1, <1>5, <2>2 DEF Inbox!Apply, Recorded, StatusOf
  <2> QED
    BY <1>5, <2>3 DEF Inbox!Next, Recorded
<1>7. CASE ~(<<"txn", t>> \in locks[s] /\ work[s].row.status # work[s].load.status)
  <2>1. \A u \in Txns : StatusOf'[u] = StatusOf[u]
    BY <1>3, <1>4, <1>7 DEF StatusOf, Overwrite
  <2>2. StatusOf' = StatusOf
    BY <2>1 DEF StatusOf
  <2>3. Inbox!Record(e)
    BY <1>5, <2>2 DEF Inbox!Record, Recorded, StatusOf
  <2> QED
    BY <1>5, <2>3 DEF Inbox!Next, Recorded
<1> QED
  BY <1>6, <1>7

\* The janitor locks no transaction, so its commit changes none.
LEMMA SweepRefines ==
  ASSUME IntakeInv, NEW j \in Janitors, CommitSweep(j)
  PROVE  UNCHANGED Inbox!vars
<1>1. \A t \in Txns : <<"txn", t>> \notin locks[j]
  BY SettlementAssumption DEF IntakeInv, TxnLocked
<1>2. txn' = txn
  BY <1>1 DEF CommitSweep, CommitRows, IntakeInv, TypeOK
<1> QED
  BY <1>2, StutterRefines DEF CommitSweep, ownVars

LEMMA NextRefines == IntakeInv /\ [Next]_vars => [Inbox!Next]_Inbox!vars
<1> SUFFICES ASSUME IntakeInv, [Next]_vars PROVE Inbox!Next \/ UNCHANGED Inbox!vars
  OBVIOUS
<1>1. /\ Webhooks \subseteq Sessions /\ event \in [Webhooks -> Events] /\ inbox \in [Events -> InboxRow]
  BY SettlementAssumption, Typed DEF IntakeInv
<1>2. ASSUME NEW s \in Sessions, SessionStep(s)
      PROVE  Inbox!Next \/ UNCHANGED Inbox!vars
  <2>1. CASE s \in Webhooks /\ CommitWebhook(s)
    BY <2>1, CommitRefines
  <2>2. CASE s \in Webhooks /\ Recover(s)
    <3>1. CASE inbox[event[s]] = Absent
      <4>1. inbox' = [inbox EXCEPT ![event[s]] = [status |-> "FAILED", linked |-> FALSE]]
        BY <1>1, <2>2, <3>1 DEF Recover
      <4>2. [status |-> "FAILED", linked |-> FALSE] # Absent
        BY DEF Absent
      <4> QED
        BY <1>1, <2>2, <3>1, <4>1, <4>2, RecordRefines DEF Recover, rows, IntakeInv
    <3>2. CASE inbox[event[s]] # Absent
      <4>1. inbox' = inbox
        BY <1>1, <2>2, <3>2 DEF Recover
      <4> QED
        BY <2>2, <4>1, StutterRefines DEF Recover, rows
    <3> QED
      BY <3>1, <3>2
  <2>3. CASE s \in Webhooks /\ (InsertEvent(s) \/ InsertConflict(s) \/ HandleEvent(s))
    BY <2>3, StutterRefines DEF InsertEvent, InsertConflict, HandleEvent, rows, ownVars
  <2>4. CASE s \in Janitors /\ SweepNext(s)
    BY <2>4, StutterRefines DEF SweepNext, rows
  <2>5. CASE s \in Janitors /\ CommitSweep(s)
    BY <2>5, SweepRefines
  <2>6. CASE Settle(s)
    <3>1. txn' = txn /\ inbox' = inbox
      BY <2>6 DEF Settle, ownVars, rows, FlushRow, settle_budget_for_intent, SelectHold, UpdateHold,
                  FreeUse, LockAudit, MirrorIntent
    <3> QED
      BY <3>1, StutterRefines
  <2> QED
    BY <1>2, <2>1, <2>2, <2>3, <2>4, <2>5, <2>6
       DEF SessionStep, process_webhook, release_expired_campaign_reservations
<1>3. ASSUME NEW e \in Events, retry_webhook_event(e)
      PROVE  UNCHANGED Inbox!vars
  <2>1. txn' = txn /\ inbox' = [inbox EXCEPT ![e].status = "PROCESSED"] /\ inbox[e].status = "FAILED"
    BY <1>3 DEF retry_webhook_event, ledgerVars
  <2>2. inbox[e] # Absent /\ inbox'[e].status = "PROCESSED"
    BY <1>1, <2>1 DEF Absent, InboxRow
  <2>3. \A d \in Events : (inbox'[d] # Absent) <=> (inbox[d] # Absent)
    <3>1. inbox'[e] # Absent
      BY <2>2 DEF Absent
    <3> QED
      BY <1>1, <2>1, <2>2, <3>1
  <2>4. Recorded' = Recorded
    BY <2>3 DEF Recorded
  <2> QED
    BY <2>1, <2>4 DEF Inbox!vars, Recorded
<1>4. ASSUME NEW s \in Webhooks, NEW e \in Events, Deliver(s, e)
      PROVE  UNCHANGED Inbox!vars
  BY <1>4, StutterRefines DEF Deliver, rows
<1>5. ASSUME NEW s \in Sessions, SessionError(s) \/ Crash(s) \/ DeadlockVictim(s)
      PROVE  UNCHANGED Inbox!vars
  BY <1>5, StutterRefines DEF SessionError, Crash, DeadlockVictim, rows, ownVars
<1>6. ASSUME NEW i \in Intents, ExpireHold(i)
      PROVE  UNCHANGED Inbox!vars
  BY <1>6, StutterRefines DEF ExpireHold, ledgerVars
<1>7. ASSUME NEW j \in Janitors, StartSweep(j)
      PROVE  UNCHANGED Inbox!vars
  BY <1>7, StutterRefines DEF StartSweep, rows
<1>8. CASE UNCHANGED vars
  BY <1>8, StutterRefines DEF vars, ledgerVars, ownVars
<1>9. ASSUME NEW i \in Cancellable, cancel_intent(i)
      PROVE  UNCHANGED Inbox!vars
  BY <1>9, StutterRefines DEF cancel_intent, ownVars
<1> QED
  BY <1>2, <1>3, <1>4, <1>5, <1>6, <1>7, <1>8, <1>9 DEF Next

\* However often an event is delivered, and by however many requests at once,
\* it is recorded once, and a transaction's status changes only in the step
\* that records an event about it, to the status that event reports.
THEOREM SettlementAppliesOnce == Spec => AppliedOnce
<1>1. IntakeInv /\ [Next]_vars => [Inbox!Next]_Inbox!vars
  BY NextRefines
<1> QED
  BY InitRefines, <1>1, IntakeExclusive, PTL DEF Spec, AppliedOnce, Inbox!Spec
=============================================================================
