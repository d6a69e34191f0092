-------------------------- MODULE MCReconciliation --------------------------
(***************************************************************************)
(* One payment, reconciled by two workers; another intent holds a use of   *)
(* the same campaign.                                                      *)
(***************************************************************************)
EXTENDS ReconciliationProperties, TLC

CONSTANTS w1, w2, t1, i1, i2

MCIntentOf == [t \in Txns |-> i1]
=============================================================================
