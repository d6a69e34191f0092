----------------------------- MODULE EventInbox -----------------------------
(***************************************************************************)
(* What webhook intake promises, with sessions, locks and retries hidden:  *)
(* an event of the provider is recorded at most once, and the status of a  *)
(* transaction changes only in the step that records an event about it,    *)
(* to the status that event reports.                                       *)
(***************************************************************************)
CONSTANTS Events, Txns, EventTxn, Verdict

VARIABLES
  recorded,   \* the events the inbox has a row for
  status      \* the committed status of every transaction

vars == <<recorded, status>>

Init ==
  /\ recorded = {}
  /\ status = [t \in Txns |-> "SUBMITTED"]

\* Record an event without effect: a duplicate outcome, an amount that does
\* not match, an event type with no handler, a failure kept for inspection.
Record(e) ==
  /\ recorded' = recorded \cup {e}
  /\ UNCHANGED status

\* Record an event and give its transaction the status it reports.
Apply(e) ==
  /\ recorded' = recorded \cup {e}
  /\ status' = [status EXCEPT ![EventTxn[e]] = Verdict[e]]

Next == \E e \in Events \ recorded : Record(e) \/ Apply(e)

Spec == Init /\ [][Next]_vars
=============================================================================
