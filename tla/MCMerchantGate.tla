---------------------------- MODULE MCMerchantGate ----------------------------
(***************************************************************************)
(* A merchant who changes the policy while two intents are checked out:    *)
(* one that a smaller limit refuses, one the user has to be asked about or *)
(* whose category the delegation does not allow.                           *)
(***************************************************************************)
EXTENDS MerchantGateProperties, TLC

CONSTANTS r1, r2, r3

MCSymmetry == Permutations({r1, r2, r3})

Item(amount, category) ==
  [amount |-> amount, method |-> "UPI", category |-> category,
   currency |-> "INR", merchant |-> "shop"]

MCItems == {Item(2, "audio"), Item(3, "audio")}

MCUser == [maxSingle |-> 4, dailyLimit |-> 4, consentAbove |-> 2, categories |-> {"audio"},
           merchants |-> {"shop"}, blocked |-> {}, currencies |-> {"INR"}]

MCDefaults == [maxSingle |-> 5, dailyLimit |-> 20, consentAbove |-> 3, categories |-> {},
               merchants |-> {}, blocked |-> {}, currencies |-> {"INR"}]
=============================================================================
