---------------------------- MODULE MCBuyerAgent ----------------------------
(***************************************************************************)
(* Two requests, one campaign with a single use that takes half the price  *)
(* up to a cap, and one whose fixed discount is the whole price.           *)
(***************************************************************************)
EXTENDS BuyerAgentProperties, TLC

CONSTANTS r1, r2, i1, i2, i3, book, half, free

MCPrice == (book :> 5)
MCValue == (half :> 50 @@ free :> 9)
MCMaxDiscount == (half :> 2 @@ free :> 0)
MCEligible == [c \in Campaigns |-> {book}]
MCMaxUses == (half :> 1 @@ free :> 1)
MCSymmetry == Permutations(Requests) \cup Permutations(Intents)
=============================================================================
