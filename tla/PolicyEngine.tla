----------------------------- MODULE PolicyEngine -----------------------------
(***************************************************************************)
(* The policy engine: pure rules over a context that is read from the      *)
(* database.  The hard rules are tried in order and the first that fails   *)
(* denies; the consent rule comes last and asks the user.  The context is  *)
(* a record of the intent's fields, the merchant's policy (shop) and the   *)
(* limits of the user's delegation (user).                                 *)
(***************************************************************************)
EXTENDS Integers, Sequences, FiniteSetsExt

\* The snapshots a decision is made of, by the fields the rules read.
UserPolicyContext ==
  [maxSingle : Nat, dailyLimit : Nat, consentAbove : Nat, categories : SUBSET STRING,
   merchants : SUBSET STRING, blocked : SUBSET STRING, currencies : SUBSET STRING]

MerchantPolicyContext == [enabled : BOOLEAN, maxOrder : Nat, methods : SUBSET STRING]

IntentEvaluationContext ==
  [amount : Nat, method : STRING, category : STRING, currency : STRING, merchant : STRING,
   spent : Nat, agent : BOOLEAN, delegated : BOOLEAN,
   shop : MerchantPolicyContext, user : UserPolicyContext]

\* In every list of a policy, an empty one admits everything.
Admits(list, x) == list = {} \/ x \in list

rule_agent_active(c) == c.agent
rule_delegation_active(c) == c.delegated
rule_merchant_agent_commerce_enabled(c) == c.shop.enabled
rule_merchant_max_order(c) == c.amount <= c.shop.maxOrder
rule_merchant_payment_method(c) == Admits(c.shop.methods, c.method)
rule_max_single_transaction(c) == c.amount <= c.user.maxSingle
rule_daily_limit(c) == c.amount <= c.user.dailyLimit - c.spent
rule_category_allowed(c) == Admits(c.user.categories, c.category)
rule_merchant_allowed(c) == c.merchant \notin c.user.blocked /\ Admits(c.user.merchants, c.merchant)
rule_currency_allowed(c) == Admits(c.user.currencies, c.currency)

\* A threshold of 0 asks about every amount.
rule_consent_threshold(c) == c.user.consentAbove # 0 /\ c.amount <= c.user.consentAbove

\* The results of the hard rules, in the order of the registry.
HARD_DENY_RULES(c) == <<
  rule_agent_active(c), rule_delegation_active(c), rule_merchant_agent_commerce_enabled(c),
  rule_merchant_max_order(c), rule_merchant_payment_method(c),
  rule_max_single_transaction(c), rule_daily_limit(c), rule_category_allowed(c),
  rule_merchant_allowed(c), rule_currency_allowed(c)>>

\* The answer of the engine: the blocking rule is its place in the registry, 11
\* the consent rule and 0 none.
_evaluate(c) ==
  LET failing == {k \in 1..10 : ~HARD_DENY_RULES(c)[k]} IN
  IF failing # {} THEN [decision |-> "DENY", rule |-> Min(failing)]
  ELSE IF rule_consent_threshold(c) THEN [decision |-> "APPROVE", rule |-> 0]
  ELSE [decision |-> "ASK_USER", rule |-> 11]

POLICY_UNAVAILABLE == [decision |-> "DENY", rule |-> 0]

\* Whatever a rule raises denies.
evaluate_policy(c) == {_evaluate(c), POLICY_UNAVAILABLE}

-----------------------------------------------------------------------------
(* The simulator fills the user's part of the context itself.              *)

\* Variant: the caller's limits are not used.
Override_default(value, default) == default

\* An override that is missing or 0 leaves the default.
Override(value, default) == IF value = 0 THEN default ELSE value

\* simulate_policy_for_request for an item, at the merchant's current policy or
\* a permissive one when there is none.
simulate_policy_for_request(item, shop, overrides, defaults) ==
  _evaluate([amount |-> item.amount, method |-> item.method, category |-> item.category,
             currency |-> item.currency, merchant |-> item.merchant, spent |-> 0,
             agent |-> TRUE, delegated |-> TRUE,
             shop |-> [shop EXCEPT !.maxOrder = Override(overrides.maxOrder, @)],
             user |-> [maxSingle |-> Override(overrides.maxSingle, defaults.maxSingle),
                       dailyLimit |-> Override(overrides.dailyLimit, defaults.dailyLimit),
                       consentAbove |-> Override(overrides.consentAbove, defaults.consentAbove),
                       categories |-> {}, merchants |-> {}, blocked |-> {},
                       currencies |-> {"INR"}]])
=============================================================================
