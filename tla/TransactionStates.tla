------------------------- MODULE TransactionStates -------------------------
(***************************************************************************)
(* The transaction state machine: the statuses, the terminal ones and the  *)
(* relation of legal transitions that every status change is checked       *)
(* against before it is applied.                                           *)
(***************************************************************************)

\* The statuses an agent, a user, a merchant or the provider ends a purchase in.
TerminalStatuses ==
  { "COMPLETED", "FAILED", "POLICY_BLOCKED", "CONSENT_REJECTED",
    "EXPIRED", "CANCELLED", "AGENT_STOPPED" }

\* The statuses before anything was sent to the provider.
OpenStatuses ==
  { "CREATED", "VALIDATING", "POLICY_PENDING", "POLICY_APPROVED",
    "AWAITING_CONSENT", "CONSENT_GRANTED", "AUTHORIZED" }

TransactionStatus ==
  TerminalStatuses \cup OpenStatuses
    \cup { "EXECUTING", "SUBMITTED", "UNKNOWN", "VERIFYING" }

\* The pairs of LEGAL_TRANSITIONS: the approval path, the submission path,
\* the reconciliation path, then expiry and the stops an agent may be given.
LEGAL_TRANSITIONS ==
  { <<"CREATED", "VALIDATING">>, <<"VALIDATING", "POLICY_PENDING">>,
    <<"POLICY_PENDING", "POLICY_APPROVED">>, <<"POLICY_PENDING", "POLICY_BLOCKED">>,
    <<"POLICY_APPROVED", "AWAITING_CONSENT">>, <<"POLICY_APPROVED", "AUTHORIZED">>,
    <<"AWAITING_CONSENT", "CONSENT_GRANTED">>, <<"AWAITING_CONSENT", "CONSENT_REJECTED">>,
    <<"CONSENT_GRANTED", "AUTHORIZED">>, <<"AUTHORIZED", "EXECUTING">> }
  \cup ({"EXECUTING"} \X {"SUBMITTED", "UNKNOWN"})
  \cup ({"SUBMITTED"} \X {"COMPLETED", "FAILED", "UNKNOWN"})
  \cup {<<"UNKNOWN", "VERIFYING">>}
  \cup ({"VERIFYING"} \X {"COMPLETED", "FAILED"})
  \cup (OpenStatuses \X {"EXPIRED"})
  \cup {<<"AUTHORIZED", "CANCELLED">>}
  \cup ({"AUTHORIZED", "EXECUTING", "SUBMITTED"} \X {"AGENT_STOPPED"})

can_transition(current, target) ==
  /\ current \notin TerminalStatuses
  /\ <<current, target>> \in LEGAL_TRANSITIONS

\* The statuses on which transition_transaction settles budget and campaign.
SettlingStatuses ==
  { "COMPLETED", "FAILED", "EXPIRED", "CANCELLED", "AGENT_STOPPED" }
=============================================================================
