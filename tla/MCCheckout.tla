----------------------------- MODULE MCCheckout -----------------------------
(***************************************************************************)
(* Small instances of Checkout.                                            *)
(***************************************************************************)
EXTENDS CheckoutProperties, TLC

CONSTANTS r1, r2, i1, i2, i3

\* Two intents that do not fit into the delegation's limit together, whatever
\* the mandate allows, and a free one; and one intent.
MCAmount == (i1 :> 2 @@ i2 :> 2 @@ i3 :> 0)
MCWideTerms == {[largest |-> 2, daily |-> 4, covers |-> {i1, i2}]}
MCOneAmount == (i1 :> 2)

\* Two intents that fit into the delegation's limit, but not the mandate's; one
\* is as large as the mandate allows.
MCMandateAmount == (i1 :> 2 @@ i2 :> 1)
MCNarrowTerms == {[largest |-> 2, daily |-> 2, covers |-> {i1, i2}]}

MCSymmetry == Permutations(Requests)

-----------------------------------------------------------------------------
(* i1 and i2 are paid; i3 needs consent and is asked about, decided and     *)
(* cancelled.  The run explores the one beside the other not at all: they   *)
(* share nothing but the budget, and what needs consent never reaches it.   *)

Busy(i) == \E s \in Requests : pc[s] # "idle" /\ work[s].item = i

Asked == \/ Busy(i3) \/ intent[i3] # "CREATED" \/ consent[i3].status # "NONE"
         \/ \E s \in Requests : work[s].kind # "checkout"

MCApart == Asked =>
  /\ mandates = <<>>
  /\ \A i \in Intents \ {i3} : attempts[i] = <<>> /\ ~Busy(i)
=============================================================================
