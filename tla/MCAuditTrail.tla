---------------------------- MODULE MCAuditTrail ----------------------------
(***************************************************************************)
(* Two writers at a time of any kind, on one intent.                       *)
(***************************************************************************)
EXTENDS AuditTrailProperties, TLC

CONSTANTS s1, s2
=============================================================================
