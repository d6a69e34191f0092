---------------------------- MODULE MCSettlement ----------------------------
(***************************************************************************)
(* Small instances of Settlement.                                          *)
(***************************************************************************)
EXTENDS SettlementProperties, TLC

CONSTANTS w1, w2, j1, t1, t2, i1, i2, c1, f1, x1, u1

\* Two payments of one intent: a captured, a failed and a misquoted report about
\* the first, and a capture of the second that names no payment.
MCRivalIntentOf == (t1 :> i1 @@ t2 :> i1)
MCRivalTxn == (c1 :> t1 @@ f1 :> t1 @@ x1 :> t1 @@ u1 :> t2)
MCRivalKind == (c1 :> "captured" @@ f1 :> "failed" @@ x1 :> "misquoted" @@ u1 :> "unnamed")

\* One payment and its captured and failed reports.
MCOneIntentOf == (t1 :> i1)
MCOneTxn == (c1 :> t1 @@ f1 :> t1)
MCOneKind == (c1 :> "captured" @@ f1 :> "failed")

\* Two intents with a payment each, on one campaign.
MCPairIntentOf == (t1 :> i1 @@ t2 :> i2)
MCPairTxn == (c1 :> t1 @@ f1 :> t2)
MCPairKind == (c1 :> "captured" @@ f1 :> "failed")
=============================================================================
