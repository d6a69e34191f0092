------------------------ MODULE SettlementProperties ------------------------
(***************************************************************************)
(* What settlement guarantees, and what the documents claim of it.         *)
(***************************************************************************)
EXTENDS Settlement

Resources ==
  ({"txn"} \X Txns) \cup ({"event"} \X Events)
    \cup ({"intent", "budget", "hold"} \X Intents) \cup {Campaign, AuditLock}

Steps == {"idle", "insert", "load", "flush", "budget", "select", "hold", "free",
          "audit", "mirror", "commit", "recover", "sweep"}

\* Every row, lock and session has the shape its table or object gives it.
TypeOK ==
  /\ txn \in [Txns -> Row]
  /\ intent \in [Intents -> TransactionStatus]
  /\ budget \in [Intents -> {"RESERVED", "SETTLED", "RELEASED"}]
  /\ hold \in [Intents -> {"RESERVED", "CONSUMED", "RELEASED"}]
  /\ uses \in Int
  /\ locks \in [Sessions -> SUBSET Resources]
  /\ pc \in [Sessions -> Steps]
  /\ work \in [Sessions -> [txn : Txns, item : Intents, load : Row, row : Row, freed : Nat]]
  /\ inbox \in [Events -> InboxRow]
  /\ event \in [Webhooks -> Events]
  /\ todo \in [Janitors -> SUBSET Intents]
  /\ expired \in SUBSET Intents
  /\ delivered \in [Events -> Nat]
  /\ {errors, crashes} \subseteq Nat

-----------------------------------------------------------------------------
(* Guarantees.                                                             *)

\* An event is recorded once and takes effect only in the step that records
\* it, however often and by however many requests it is delivered at once.
Inbox == INSTANCE EventInbox WITH
  recorded <- {e \in Events : inbox[e] # Absent},
  status <- [t \in Txns |-> txn[t].status]
AppliedOnce == Inbox!Spec

\* A status changes only along a legal transition from what its session read,
\* and only a session that read the row before it was terminal, while another
\* settled it, ever changes a terminal status.
LegalUnlessStale ==
  [][\A t \in Txns : txn'[t].status # txn[t].status =>
       \E s \in Webhooks :
         /\ pc[s] = "commit" /\ pc'[s] = "idle" /\ work[s].txn = t
         /\ can_transition(work[s].load.status, txn'[t].status)
         /\ txn[t].status \in TerminalStatuses => work[s].load.status # txn[t].status
    ]_vars

\* The events whose own delivery processed them: their row names the order and
\* the transaction.  A FAILED row names neither, and a retry that turns it into
\* PROCESSED applies nothing.
ProcessedAtDelivery == {e \in Events : inbox[e] = [status |-> "PROCESSED", linked |-> TRUE]}

\* An outcome event that its delivery processed left its transaction settled,
\* whatever else was settling it: the outcome and the row commit together.
\* Nothing is claimed of an event whose delivery failed.
DeliveredIsSettled ==
  \A e \in ProcessedAtDelivery :
    EventKind[e] \in Captures \cup {"failed"} => txn[EventTxn[e]].status \in TerminalStatuses

\* The payment a processed capture named stays on its transaction, also when
\* the transaction had ended otherwise, or a session that read the row before
\* the capture writes another outcome over it.
CaptureIsNoted ==
  \A e \in ProcessedAtDelivery : EventKind[e] = "captured" => txn[EventTxn[e]].paid

\* The intent shows the status of one of its payments, however many of them end
\* at once and however often one is overwritten, unless the buyer cancelled it:
\* a webhook session that changes a payment owns the intent's row when it commits.
\* It is said of intents whose payments were all submitted; an UNKNOWN payment is
\* reconciled without its intent (reconcile_unknown.py:117-161), which then lags.
MirrorAgrees ==
  \A t \in Txns : LET i == IntentOf[t] IN
    \/ intent[i] = "CANCELLED"
    \/ \E u \in Txns : IntentOf[u] = i /\ intent[i] = txn[u].status

\* A budget reservation that was settled or released never changes again,
\* even when the payments of one intent end differently.
BudgetSettledOnce ==
  [][\A i \in Intents : budget[i] # "RESERVED" => budget'[i] = budget[i]]_vars

\* Without a janitor run, the uses counted on the campaign are those of the
\* holds that are reserved or consumed: no settlement gives a use back twice.
UsesMatchHolds ==
  uses = Cardinality({i \in Intents : hold[i] # "RELEASED"})

\* A hold that was released gave its use back, also when a janitor run and the
\* webhook of a failed payment release it at once: the campaign never counts
\* more uses than are reserved or consumed.  (It may count fewer: both of them
\* may give one use back.)
NoUseIsLost ==
  uses <= Cardinality({i \in Intents : hold[i] # "RELEASED"})

\* Every session ends: no request or task waits for a lock forever.
SessionsEnd == \A s \in Sessions : pc[s] # "idle" ~> pc[s] = "idle"

\* Every delivered event gets an inbox row, if only a FAILED one, as long as
\* no process dies and the recovery session works.
DeliveredIsRecorded ==
  \A e \in Events : delivered[e] > 0 ~> inbox[e] # Absent

-----------------------------------------------------------------------------
(* A claim of the documents that the code does not keep.                   *)

\* "COMPLETED, FAILED ... are terminal": docs say a terminal status is never left.
TerminalIsFinal ==
  [][\A t \in Txns : txn[t].status \in TerminalStatuses => txn'[t].status = txn[t].status]_vars
=============================================================================
