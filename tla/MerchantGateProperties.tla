------------------------ MODULE MerchantGateProperties ------------------------
(***************************************************************************)
(* What the merchant's policy versions guarantee.                          *)
(***************************************************************************)
EXTENDS MerchantGate

\* Rows and requests have the shape of their tables and objects, no version
\* number runs ahead of the rows there are, and a closed session holds nothing.
TypeOK ==
  /\ policies \in Seq(Policy)
  /\ \A k \in DOMAIN policies : policies[k].version \in 1..k
  /\ delegated \in BOOLEAN
  /\ \A k \in Current, i \in Items : Context(i, policies[k]) \in IntentEvaluationContext
  /\ \A i \in Items : capability[i].policy \in 0..Len(policies)
  /\ pc \in [Requests -> {"idle", "toggle", "configure", "deprecate", "lock", "insert",
                          "policy", "evaluate", "issue", "commit"}]
  /\ \A s \in Requests : pc[s] = "idle" => locks[s] = {} /\ work[s] = Blank

\* The version that was committed last is in force: no configuration that was
\* answered is deprecated by one that committed before it, however their reads,
\* updates and inserts interleave.
NewestInForce == policies[Len(policies)].current

\* The kill switch and the limits act on every request that arrives later: no
\* capability rests on a version that had been replaced, switched off or made
\* too small when its checkout began, although others change the policy while
\* the checkout runs.
IssuedInForce ==
  \A i \in Items : capability[i] # None =>
    /\ capability[i].policy >= capability[i].begun
    /\ policies[capability[i].policy].enabled
    /\ i.amount <= policies[capability[i].policy].maxOrder

\* The simulator, given the delegation's limits, foresees the decision of a
\* checkout about an intent the delegation's lists admit.  It knows no currency
\* but INR, and takes a limit of 0 for one that is not given: a delegation that
\* asks about every amount cannot be simulated.
SimulatorForesees ==
  \A k \in Current, i \in Items :
    LET c == Context(i, policies[k])
        overrides == [maxSingle |-> User.maxSingle, dailyLimit |-> User.dailyLimit,
                      consentAbove |-> User.consentAbove, maxOrder |-> 0]
    IN  (/\ delegated /\ 0 \notin {User.maxSingle, User.dailyLimit, User.consentAbove}
         /\ rule_category_allowed(c) /\ rule_merchant_allowed(c)
         /\ rule_currency_allowed(c) /\ i.currency = "INR") =>
          _evaluate(c) = simulate_policy_for_request(i, c.shop, overrides, Defaults)
=============================================================================
