-------------------------- MODULE MerchantGateProofs --------------------------
(***************************************************************************)
(* Checkouts rest on a policy that was in force after they began, for any  *)
(* requests, intents, limits and number of versions.                       *)
(*                                                                         *)
(* IssuedInForce speaks of capabilities only.  It is inductive together    *)
(* with what each request read: a checkout that reads the one current      *)
(* version reads the newest, because a configuration never deprecates a    *)
(* version that was committed after its UPDATE looked.                     *)
(*                                                                         *)
(* The last part has the shape of rows and requests, and the simulator,    *)
(* which agrees with a checkout because every rule answers both alike.     *)
(***************************************************************************)
EXTENDS MerchantGateProperties, FiniteSetTheorems, TLAPS

Steps == {"idle", "toggle", "configure", "deprecate", "lock", "insert",
          "policy", "evaluate", "issue", "commit"}

Work == [kind : {"checkout", "execute", "configure", "enable", "disable"}, item : Items,
         read : Nat, hit : SUBSET Nat, enabled : BOOLEAN, maxOrder : Nat, begun : Nat]

\* The part of the type invariant the proofs need.
Shape ==
  /\ policies \in Seq(Policy) /\ Len(policies) > 0
  /\ capability \in [Items -> [policy : Nat, begun : Nat]]
  /\ pc \in [Requests -> Steps]
  /\ work \in [Requests -> Work]

\* Version k lets an intent i of this size through.
Lets(k, i) == policies[k].enabled /\ i.amount <= policies[k].maxOrder

\* What a request holds in memory that it read from the policies.
HeldRead(step, w) ==
  /\ step \in {"deprecate", "lock", "insert"} => w.read \in 1..Len(policies)
  /\ step \in {"configure", "deprecate", "lock", "insert"} => w.maxOrder \in Limits
  /\ step # "idle" => w.begun <= Len(policies)
  /\ step \in {"evaluate", "issue", "commit"} => w.read \in 1..Len(policies) /\ w.begun <= w.read
  /\ step \in {"issue", "commit"} => Lets(w.read, w.item)

ReadsHold == \A s \in Requests : HeldRead(pc[s], work[s])

Issued(i) ==
  capability[i] # None =>
    /\ capability[i].policy \in 1..Len(policies)
    /\ capability[i].begun <= capability[i].policy
    /\ Lets(capability[i].policy, i)

GateInv == Shape /\ NewestInForce /\ ReadsHold /\ \A i \in Items : Issued(i)

-----------------------------------------------------------------------------
\* What the engine approves, the merchant's switch and limit let through.
LEMMA ApprovedByMerchant ==
  ASSUME NEW c, NEW answer \in evaluate_policy(c), answer.decision = "APPROVE"
  PROVE  c.shop.enabled /\ c.amount <= c.shop.maxOrder
<1> DEFINE failing == {k \in 1..10 : ~HARD_DENY_RULES(c)[k]}
<1>1. answer = _evaluate(c)
  BY DEF evaluate_policy, POLICY_UNAVAILABLE
<1>2. failing = {}
  BY <1>1 DEF _evaluate
<1>3. HARD_DENY_RULES(c)[3] /\ HARD_DENY_RULES(c)[4]
  BY <1>2
<1> QED
  BY <1>3 DEF HARD_DENY_RULES, rule_merchant_agent_commerce_enabled, rule_merchant_max_order

\* The version a request reads as the current one is the newest.
LEMMA ReadsNewest ==
  ASSUME Shape, NewestInForce, NEW k \in get_current_policy
  PROVE  k = Len(policies)
<1>1. k \in Current /\ Cardinality(Current) = 1
  BY DEF get_current_policy
<1>2. Len(policies) \in Current
  BY DEF Shape, NewestInForce, Current
<1>3. IsFiniteSet(Current)
  <2>1. IsFiniteSet(1..Len(policies))
    BY FS_Interval DEF Shape
  <2>2. Current \subseteq 1..Len(policies)
    BY DEF Current, Shape
  <2> QED
    BY <2>1, <2>2, FS_Subset
<1>4. PICK x : Current = {x}
  BY <1>1, <1>3, FS_Singleton
<1> QED
  BY <1>1, <1>2, <1>4

LEMMA BlankIsWork == Blank \in Work
  BY MerchantGateAssumption DEF Blank, Work

LEMMA GateInit == Init => GateInv
<1> SUFFICES ASSUME Init PROVE GateInv
  OBVIOUS
<1>1. policies = <<[version |-> 1, enabled |-> TRUE, maxOrder |-> SeedLimit, current |-> TRUE]>>
  BY DEF Init
<1>2. [version |-> 1, enabled |-> TRUE, maxOrder |-> SeedLimit, current |-> TRUE] \in Policy
  BY MerchantGateAssumption DEF Policy
<1>3. policies \in Seq(Policy) /\ Len(policies) = 1 /\ policies[1].current
  BY <1>1, <1>2
<1>4. Shape
  BY <1>3, BlankIsWork DEF Init, Shape, Steps, None
<1>5. NewestInForce
  BY <1>3 DEF NewestInForce
<1>6. ReadsHold /\ \A i \in Items : Issued(i)
  BY DEF Init, ReadsHold, HeldRead, Issued
<1> QED
  BY <1>4, <1>5, <1>6 DEF GateInv

\* A request goes on and the policies and capabilities stay.
LEMMA GoOn ==
  ASSUME GateInv, NEW s \in Requests, NEW step \in Steps, NEW w \in Work, HeldRead(step, w),
         pc' = [pc EXCEPT ![s] = step], work' = [work EXCEPT ![s] = w],
         policies' = policies, capability' = capability
  PROVE  GateInv'
<1> USE DEF GateInv
<1>1. Shape' /\ NewestInForce'
  BY DEF Shape, NewestInForce
<1>2. ReadsHold'
  <2> SUFFICES ASSUME NEW o \in Requests PROVE HeldRead(pc[o], work[o])'
    BY DEF ReadsHold
  <2>1. CASE o = s
    BY <2>1 DEF Shape, HeldRead, Lets
  <2>2. CASE o # s
    BY <2>2 DEF Shape, ReadsHold, HeldRead, Lets
  <2> QED
    BY <2>1, <2>2
<1>3. \A i \in Items : Issued(i)'
  BY DEF Issued, Lets
<1> QED
  BY <1>1, <1>2, <1>3

LEMMA Ending ==
  ASSUME GateInv, NEW s \in Requests, EndRequest(s), policies' = policies, capability' = capability
  PROVE  GateInv'
<1>1. HeldRead("idle", Blank)
  BY DEF HeldRead
<1> QED
  BY <1>1, BlankIsWork, GoOn DEF EndRequest, Goto, Steps

\* A request that moves on with what it holds.
LEMMA Moving ==
  ASSUME GateInv, NEW s \in Requests, NEW step \in Steps, Goto(s, step), HeldRead(step, work[s]),
         work' = work, policies' = policies, capability' = capability
  PROVE  GateInv'
<1>1. work[s] \in Work /\ work' = [work EXCEPT ![s] = work[s]]
  BY DEF GateInv, Shape
<1> QED
  BY <1>1, GoOn DEF Goto

LEMMA UpdateStep ==
  ASSUME GateInv, NEW s \in Requests, NEW enabled \in BOOLEAN, NEW maxOrder \in Limits,
         update_policy(s, enabled, maxOrder)
  PROVE  GateInv'
<1> DEFINE v == [work[s] EXCEPT !.kind = "configure", !.enabled = enabled]
           w == [v EXCEPT !.maxOrder = maxOrder, !.begun = Len(policies)]
<1>0. work[s] \in Work /\ Len(policies) \in Nat /\ maxOrder \in Nat
  BY MerchantGateAssumption DEF GateInv, Shape
<1>1. v \in Work
  BY <1>0 DEF Work
<1>2. work' = [work EXCEPT ![s] = w]
  BY DEF update_policy
<1> HIDE DEF v
<1>3. w \in Work /\ w.maxOrder = maxOrder /\ w.begun = Len(policies)
  BY <1>0, <1>1 DEF Work
<1> HIDE DEF w
<1>4. HeldRead("configure", w)
  BY <1>0, <1>3 DEF HeldRead
<1> QED
  BY <1>2, <1>3, <1>4, GoOn DEF update_policy, Goto, Steps

LEMMA ToggleStep ==
  ASSUME GateInv, NEW s \in Requests, NEW kind \in {"enable", "disable"}, toggle_commerce(s, kind)
  PROVE  GateInv'
<1> DEFINE v == [work[s] EXCEPT !.kind = kind, !.enabled = (kind = "enable")]
           w == [v EXCEPT !.begun = Len(policies)]
<1>0. work[s] \in Work /\ Len(policies) \in Nat
  BY DEF GateInv, Shape
<1>1. v \in Work
  BY <1>0 DEF Work
<1>2. work' = [work EXCEPT ![s] = w]
  BY DEF toggle_commerce
<1> HIDE DEF v
<1>3. w \in Work /\ w.begun = Len(policies)
  BY <1>0, <1>1 DEF Work
<1> HIDE DEF w
<1>4. HeldRead("toggle", w)
  BY <1>0, <1>3 DEF HeldRead
<1> QED
  BY <1>2, <1>3, <1>4, GoOn DEF toggle_commerce, Goto, Steps

LEMMA ArriveStep ==
  ASSUME GateInv, NEW s \in Requests, NEW i \in Items, NEW kind \in {"checkout", "execute"},
         Arrive(s, i, kind)
  PROVE  GateInv'
<1> DEFINE v == [work[s] EXCEPT !.kind = kind, !.item = i]
           w == [v EXCEPT !.begun = Len(policies)]
<1>0. work[s] \in Work /\ Len(policies) \in Nat
  BY DEF GateInv, Shape
<1>1. v \in Work
  BY <1>0 DEF Work
<1>2. work' = [work EXCEPT ![s] = w]
  BY DEF Arrive
<1> HIDE DEF v
<1>3. w \in Work /\ w.begun = Len(policies)
  BY <1>0, <1>1 DEF Work
<1> HIDE DEF w
<1>4. HeldRead("policy", w)
  BY <1>0, <1>3 DEF HeldRead
<1> QED
  BY <1>2, <1>3, <1>4, GoOn DEF Arrive, Goto, Steps

\* The reads of a configuration.
LEMMA ConfigureSteps ==
  ASSUME GateInv, NEW s \in Requests,
         toggle_agent_commerce(s) \/ configure_merchant_policy(s) \/ DeprecateCurrent(s) \/ LockCurrent(s)
  PROVE  GateInv'
<1> USE DEF GateInv
<1>0. /\ work[s] \in Work /\ Len(policies) \in Nat /\ HeldRead(pc[s], work[s])
      /\ \A k \in 1..Len(policies) : policies[k] \in Policy
  BY DEF Shape, ReadsHold
<1>1. CASE toggle_agent_commerce(s)
  <2>1. PICK k \in get_current_policy :
          work' = [work EXCEPT ![s].maxOrder = policies[k].maxOrder]
    BY <1>1 DEF toggle_agent_commerce
  <2>2. k \in 1..Len(policies)
    BY <1>0, ReadsNewest DEF Shape
  <2> DEFINE m == policies[k].maxOrder
             w == [work[s] EXCEPT !.maxOrder = m]
  <2>3. m \in Limits /\ m \in Nat
    BY <1>0, <2>2, MerchantGateAssumption DEF Policy
  <2>4. work' = [work EXCEPT ![s] = w]
    BY <2>1
  <2> HIDE DEF m
  <2>5. w \in Work /\ w.maxOrder = m /\ w.begun = work[s].begun
    BY <1>0, <2>3 DEF Work
  <2> HIDE DEF w
  <2>6. HeldRead("configure", w)
    BY <1>0, <1>1, <2>3, <2>5 DEF HeldRead, toggle_agent_commerce
  <2> QED
    BY <1>1, <2>4, <2>5, <2>6, GoOn DEF toggle_agent_commerce, Goto, Steps
<1>2. CASE configure_merchant_policy(s)
  <2>1. PICK k \in get_current_policy : work' = [work EXCEPT ![s].read = k]
    BY <1>2 DEF configure_merchant_policy
  <2>2. k \in 1..Len(policies) /\ k \in Nat
    BY <1>0, ReadsNewest DEF Shape
  <2> DEFINE w == [work[s] EXCEPT !.read = k]
  <2>3. work' = [work EXCEPT ![s] = w]
    BY <2>1
  <2>4. w \in Work /\ w.read = k /\ w.maxOrder = work[s].maxOrder /\ w.begun = work[s].begun
    BY <1>0, <2>2 DEF Work
  <2> HIDE DEF w
  <2>5. HeldRead("deprecate", w)
    BY <1>0, <1>2, <2>2, <2>4 DEF HeldRead, configure_merchant_policy
  <2> QED
    BY <1>2, <2>3, <2>4, <2>5, GoOn DEF configure_merchant_policy, Goto, Steps
<1>3. ASSUME NEW rows \in SUBSET Nat, NEW step \in {"lock", "insert"}, pc[s] \in {"deprecate", "lock"},
             work' = [work EXCEPT ![s].hit = rows], Goto(s, step),
             policies' = policies, capability' = capability
      PROVE  GateInv'
  <2> DEFINE w == [work[s] EXCEPT !.hit = rows]
  <2>1. work' = [work EXCEPT ![s] = w]
    BY <1>3
  <2>2. /\ w \in Work /\ w.read = work[s].read /\ w.maxOrder = work[s].maxOrder
        /\ w.begun = work[s].begun
    BY <1>0 DEF Work
  <2> HIDE DEF w
  <2>3. HeldRead(step, w)
    BY <1>0, <1>3, <2>2 DEF HeldRead
  <2>4. step \in Steps /\ pc' = [pc EXCEPT ![s] = step]
    BY <1>3 DEF Steps, Goto
  <2> HIDE DEF GateInv
  <2> QED
    BY <1>3, <2>1, <2>2, <2>3, <2>4, GoOn
<1>4. Current \in SUBSET Nat /\ (work[s].hit \cap Current) \in SUBSET Nat
  BY <1>0 DEF Current, Shape
<1>5. CASE DeprecateCurrent(s)
  BY <1>3, <1>4, <1>5 DEF DeprecateCurrent
<1>6. CASE LockCurrent(s)
  BY <1>3, <1>4, <1>6 DEF LockCurrent
<1> QED
  BY <1>1, <1>2, <1>5, <1>6

\* A new version comes after all others, and only marks change on those.
LEMMA CommitPolicyStep ==
  ASSUME GateInv, NEW s \in Requests, CommitPolicy(s)
  PROVE  GateInv'
<1> USE DEF GateInv
<1> DEFINE n == Len(policies)
           new == NewPolicy(work[s])
           marked == [k \in DOMAIN policies |->
                        [policies[k] EXCEPT !.current = @ /\ k \notin work[s].hit]]
<1>0. /\ work[s] \in Work /\ n \in Nat /\ pc[s] = "insert"
      /\ DOMAIN policies = 1..n /\ \A k \in 1..n : policies[k] \in Policy
      /\ work[s].read \in 1..n /\ work[s].maxOrder \in Limits
  BY DEF Shape, ReadsHold, HeldRead, CommitPolicy
<1>1. new \in Policy /\ new.current
  BY <1>0 DEF NewPolicy, Policy, Work
<1>2. ASSUME NEW k \in 1..n
      PROVE  /\ marked[k] \in Policy /\ marked[k].enabled = policies[k].enabled
             /\ marked[k].maxOrder = policies[k].maxOrder
  <2>1. ASSUME NEW p \in Policy, NEW b \in BOOLEAN
        PROVE  /\ [p EXCEPT !.current = b] \in Policy
               /\ [p EXCEPT !.current = b].enabled = p.enabled
               /\ [p EXCEPT !.current = b].maxOrder = p.maxOrder
    BY DEF Policy
  <2>2. marked[k] = [policies[k] EXCEPT !.current = policies[k].current /\ k \notin work[s].hit]
    BY <1>0
  <2> QED
    BY <1>0, <2>1, <2>2
<1>3. marked \in Seq(Policy) /\ Len(marked) = n
  BY <1>0, <1>2
<1>4. policies' = Append(marked, new)
  BY DEF CommitPolicy
<1> HIDE DEF marked, new
<1>5. /\ policies' \in Seq(Policy) /\ Len(policies') = n + 1 /\ policies'[n + 1] = new
      /\ \A k \in 1..n : policies'[k] = marked[k]
  BY <1>0, <1>1, <1>3, <1>4
<1>6. /\ pc' = [pc EXCEPT ![s] = "idle"] /\ work' = [work EXCEPT ![s] = Blank]
      /\ capability' = capability
  BY DEF CommitPolicy, EndRequest, Goto
<1>7. Shape'
  BY <1>0, <1>5, <1>6, BlankIsWork DEF Shape, Steps
<1>8. NewestInForce'
  BY <1>0, <1>1, <1>5 DEF NewestInForce
<1>9. \A k \in 1..n, i \in Items : Lets(k, i) => Lets(k, i)'
  BY <1>0, <1>2, <1>5 DEF Lets
<1>10. ReadsHold'
  <2> SUFFICES ASSUME NEW o \in Requests PROVE HeldRead(pc[o], work[o])'
    BY DEF ReadsHold
  <2>1. CASE o = s
    BY <2>1, <1>6 DEF Shape, HeldRead
  <2>2. CASE o # s
    <3>1. pc'[o] = pc[o] /\ work'[o] = work[o] /\ HeldRead(pc[o], work[o])
      BY <2>2, <1>6 DEF Shape, ReadsHold
    <3>2. work[o] \in Work /\ work[o].item \in Items /\ work[o].begun \in Nat
      BY DEF Shape, Work
    <3> QED
      BY <3>1, <3>2, <1>0, <1>5, <1>9 DEF HeldRead
  <2> QED
    BY <2>1, <2>2
<1>11. ASSUME NEW i \in Items PROVE Issued(i)'
  BY <1>0, <1>5, <1>6, <1>9 DEF Issued, Shape
<1> QED
  BY <1>7, <1>8, <1>10, <1>11

\* The reads of a checkout, the engine's answer and the capability.
LEMMA CheckoutSteps ==
  ASSUME GateInv, NEW s \in Requests, CheckoutStep(s)
  PROVE  GateInv'
<1> USE DEF GateInv
<1>0. /\ work[s] \in Work /\ work[s].item \in Items /\ Len(policies) \in Nat
      /\ HeldRead(pc[s], work[s])
  BY DEF Shape, ReadsHold, Work
<1>1. CASE ReadPolicy(s)
  <2>1. PICK k \in get_current_policy : work' = [work EXCEPT ![s].read = k]
    BY <1>1 DEF ReadPolicy
  <2>2. k = Len(policies) /\ k \in 1..Len(policies)
    BY <1>0, ReadsNewest DEF Shape
  <2> DEFINE w == [work[s] EXCEPT !.read = k]
  <2>3. work' = [work EXCEPT ![s] = w]
    BY <2>1
  <2>4. w \in Work /\ w.read = k /\ w.begun = work[s].begun
    BY <1>0, <2>2 DEF Work
  <2> HIDE DEF w
  <2>5. HeldRead("evaluate", w)
    BY <1>0, <1>1, <2>2, <2>4 DEF HeldRead, ReadPolicy
  <2> QED
    BY <1>1, <2>3, <2>4, <2>5, GoOn DEF ReadPolicy, Goto, Steps
<1>2. CASE EvaluateCheckout(s)
  <2> DEFINE c == Context(work[s].item, policies[work[s].read])
  <2>1. PICK answer \in evaluate_policy(c) :
          IF answer.decision = "APPROVE"
          THEN Goto(s, "issue") /\ UNCHANGED <<locks, work>>
          ELSE EndRequest(s)
    BY <1>2 DEF EvaluateCheckout
  <2>2. UNCHANGED <<policies, capability>>
    BY <1>2 DEF EvaluateCheckout
  <2>3. CASE answer.decision = "APPROVE"
    <3>1. c.shop.enabled /\ c.amount <= c.shop.maxOrder
      BY <2>3, ApprovedByMerchant
    <3>2. Lets(work[s].read, work[s].item)
      BY <3>1 DEF Context, Lets
    <3>3. HeldRead("issue", work[s])
      BY <1>0, <1>2, <3>2 DEF HeldRead, EvaluateCheckout
    <3> QED
      BY <2>1, <2>2, <2>3, <3>3, Moving DEF Steps
  <2>4. CASE answer.decision # "APPROVE"
    BY <2>1, <2>2, <2>4, Ending
  <2> QED
    BY <2>3, <2>4
<1>3. CASE issue_capability(s)
  <2>1. HeldRead("commit", work[s])
    BY <1>0, <1>3 DEF HeldRead, issue_capability
  <2> QED
    BY <1>3, <2>1, Moving DEF issue_capability, Steps
<1>4. CASE CommitCheckout(s)
  <2> DEFINE i == work[s].item
             fresh == [policy |-> work[s].read, begun |-> work[s].begun]
  <2>1. /\ i \in Items /\ fresh \in [policy : Nat, begun : Nat]
        /\ fresh.policy = work[s].read /\ fresh.begun = work[s].begun
    BY <1>0 DEF Work
  <2>2. /\ work[s].read \in 1..Len(policies) /\ work[s].begun <= work[s].read
        /\ Lets(work[s].read, i)
    BY <1>0, <1>4 DEF HeldRead, CommitCheckout
  <2>3. capability' = [capability EXCEPT ![i] = IF @ = None THEN fresh ELSE @]
    BY <1>4 DEF CommitCheckout
  <2>4. /\ pc' = [pc EXCEPT ![s] = "idle"] /\ work' = [work EXCEPT ![s] = Blank]
        /\ policies' = policies
    BY <1>4 DEF CommitCheckout, EndRequest, Goto
  <2> HIDE DEF fresh
  <2>5. Shape' /\ NewestInForce'
    BY <2>1, <2>3, <2>4, BlankIsWork DEF Shape, NewestInForce, Steps
  <2>6. ReadsHold'
    <3> SUFFICES ASSUME NEW o \in Requests PROVE HeldRead(pc[o], work[o])'
      BY DEF ReadsHold
    <3>1. CASE o = s
      BY <3>1, <2>4 DEF Shape, HeldRead
    <3>2. CASE o # s
      BY <3>2, <2>4 DEF Shape, ReadsHold, HeldRead, Lets
    <3> QED
      BY <3>1, <3>2
  <2>7. ASSUME NEW j \in Items PROVE Issued(j)'
    <3>1. CASE j = i /\ capability[i] = None
      <4>1. capability'[j] = fresh
        BY <3>1, <2>1, <2>3 DEF Shape
      <4> QED
        BY <3>1, <4>1, <2>1, <2>2, <2>4 DEF Issued, Lets
    <3>2. CASE ~(j = i /\ capability[i] = None)
      <4>1. capability'[j] = capability[j]
        BY <3>2, <2>1, <2>3 DEF Shape
      <4> QED
        BY <4>1, <2>4 DEF Issued, Lets
    <3> QED
      BY <3>1, <3>2
  <2> QED
    BY <2>5, <2>6, <2>7
<1>5. CASE execute_payment(s)
  BY <1>5, Ending DEF execute_payment
<1> QED
  BY <1>1, <1>2, <1>3, <1>4, <1>5 DEF CheckoutStep

LEMMA GateStep == GateInv /\ [Next]_vars => GateInv'
<1> SUFFICES ASSUME GateInv, [Next]_vars PROVE GateInv'
  OBVIOUS
<1>1. ASSUME UNCHANGED <<policies, capability, pc, work>> PROVE GateInv'
  BY <1>1 DEF GateInv, Shape, NewestInForce, ReadsHold, HeldRead, Issued, Lets
<1>2. CASE UNCHANGED vars \/ EndDelegation
  BY <1>1, <1>2 DEF vars, EndDelegation
<1>3. ASSUME NEW s \in Requests, MerchantStep(s) PROVE GateInv'
  BY <1>3, ConfigureSteps, CommitPolicyStep DEF MerchantStep
<1>4. ASSUME NEW s \in Requests, Raise(s) PROVE GateInv'
  BY <1>4, Ending DEF Raise
<1> QED
  BY <1>2, <1>3, <1>4, UpdateStep, ToggleStep, ArriveStep, CheckoutSteps DEF Next

\* No capability rests on a policy that had been replaced, switched off or made
\* too small when its checkout began, although the policy is read once and the
\* merchant's configurations interleave with the checkout.
THEOREM CapabilitiesInForce == Spec => []IssuedInForce
<1>1. GateInv => IssuedInForce
  BY DEF GateInv, Shape, Issued, Lets, IssuedInForce
<1> QED
  BY GateInit, GateStep, <1>1, PTL DEF Spec

\* The configuration that was committed last is in force, whatever overlapped.
THEOREM NewestStaysInForce == Spec => []NewestInForce
<1>1. GateInv => NewestInForce
  BY DEF GateInv
<1> QED
  BY GateInit, GateStep, <1>1, PTL DEF Spec

-----------------------------------------------------------------------------
(* The shape of rows and requests.                                         *)

\* No version number runs ahead of the rows there are.
Numbered == \A k \in 1..Len(policies) : policies[k].version \in 1..k

\* A closed session holds nothing.
Closed ==
  /\ locks \in [Requests -> SUBSET Nat]
  /\ \A s \in Requests : pc[s] = "idle" => locks[s] = {} /\ work[s] = Blank

TypeInv == GateInv /\ Numbered /\ Closed /\ delegated \in BOOLEAN

LEMMA TypeInit == Init => TypeInv
<1> SUFFICES ASSUME Init PROVE TypeInv
  OBVIOUS
<1>1. Numbered
  <2>1. Len(policies) = 1 /\ policies[1].version = 1
    BY DEF Init
  <2> QED
    BY <2>1 DEF Numbered
<1>2. Closed /\ delegated \in BOOLEAN
  BY DEF Init, Closed
<1> QED
  BY <1>1, <1>2, GateInit DEF TypeInv

\* A request that goes on keeps the others closed.
LEMMA StaysClosed ==
  ASSUME TypeInv, NEW s \in Requests, NEW step \in Steps \ {"idle"}, Goto(s, step),
         locks' \in [Requests -> SUBSET Nat],
         \A o \in Requests \ {s} : locks'[o] = locks[o] /\ work'[o] = work[o]
  PROVE  Closed'
  BY DEF TypeInv, GateInv, Shape, Closed, Goto

LEMMA EndsClosed == ASSUME TypeInv, NEW s \in Requests, EndRequest(s) PROVE Closed'
  BY DEF TypeInv, GateInv, Shape, Closed, EndRequest, Goto

LEMMA ClosedStep == ASSUME TypeInv, [Next]_vars PROVE Closed'
<1>1. locks \in [Requests -> SUBSET Nat] /\ work \in [Requests -> Work]
  BY DEF TypeInv, Closed, GateInv, Shape
<1>2. CASE EndDelegation \/ UNCHANGED vars
  BY <1>2 DEF TypeInv, Closed, EndDelegation, vars
<1>3. ASSUME NEW s \in Requests, NEW enabled \in BOOLEAN, NEW maxOrder \in Limits,
             update_policy(s, enabled, maxOrder)
      PROVE  Closed'
  <2>1. /\ Goto(s, "configure") /\ locks' = locks
        /\ \A o \in Requests \ {s} : work'[o] = work[o]
    BY <1>1, <1>3 DEF update_policy
  <2> QED
    BY <1>1, <2>1, StaysClosed DEF Steps
<1>4. ASSUME NEW s \in Requests, NEW kind, toggle_commerce(s, kind) PROVE Closed'
  <2>1. /\ Goto(s, "toggle") /\ locks' = locks
        /\ \A o \in Requests \ {s} : work'[o] = work[o]
    BY <1>1, <1>4 DEF toggle_commerce
  <2> QED
    BY <1>1, <2>1, StaysClosed DEF Steps
<1>5. ASSUME NEW s \in Requests, NEW i \in Items, NEW kind, Arrive(s, i, kind) PROVE Closed'
  <2>1. /\ Goto(s, "policy") /\ locks' = locks
        /\ \A o \in Requests \ {s} : work'[o] = work[o]
    BY <1>1, <1>5 DEF Arrive
  <2> QED
    BY <1>1, <2>1, StaysClosed DEF Steps
<1>6. ASSUME NEW s \in Requests, MerchantStep(s) PROVE Closed'
  <2>1. CASE toggle_agent_commerce(s)
    <3>1. Goto(s, "configure") /\ locks' = locks /\ \A o \in Requests \ {s} : work'[o] = work[o]
      BY <1>1, <2>1 DEF toggle_agent_commerce
    <3> QED
      BY <1>1, <3>1, StaysClosed DEF Steps
  <2>2. CASE configure_merchant_policy(s)
    <3>1. Goto(s, "deprecate") /\ locks' = locks /\ \A o \in Requests \ {s} : work'[o] = work[o]
      BY <1>1, <2>2 DEF configure_merchant_policy
    <3> QED
      BY <1>1, <3>1, StaysClosed DEF Steps
  <2>3. CASE DeprecateCurrent(s)
    <3>1. Goto(s, "lock") /\ locks' = locks /\ \A o \in Requests \ {s} : work'[o] = work[o]
      BY <1>1, <2>3 DEF DeprecateCurrent
    <3> QED
      BY <1>1, <3>1, StaysClosed DEF Steps
  <2>4. CASE LockCurrent(s)
    <3>1. work[s].hit \cap Current \in SUBSET Nat
      BY <1>1 DEF Work
    <3>2. /\ Goto(s, "insert") /\ locks' = [locks EXCEPT ![s] = work[s].hit \cap Current]
          /\ \A o \in Requests \ {s} : work'[o] = work[o]
      BY <1>1, <2>4 DEF LockCurrent
    <3>3. /\ locks' \in [Requests -> SUBSET Nat]
          /\ \A o \in Requests \ {s} : locks'[o] = locks[o]
      BY <1>1, <3>1, <3>2
    <3> QED
      BY <3>2, <3>3, StaysClosed DEF Steps
  <2>5. CASE CommitPolicy(s)
    BY <2>5, EndsClosed DEF CommitPolicy
  <2> QED
    BY <1>6, <2>1, <2>2, <2>3, <2>4, <2>5 DEF MerchantStep
<1>7. ASSUME NEW s \in Requests, CheckoutStep(s) PROVE Closed'
  <2>1. CASE ReadPolicy(s)
    <3>1. Goto(s, "evaluate") /\ locks' = locks /\ \A o \in Requests \ {s} : work'[o] = work[o]
      BY <1>1, <2>1 DEF ReadPolicy
    <3> QED
      BY <1>1, <3>1, StaysClosed DEF Steps
  <2>2. CASE EvaluateCheckout(s)
    <3>1. (Goto(s, "issue") /\ UNCHANGED <<locks, work>>) \/ EndRequest(s)
      BY <2>2 DEF EvaluateCheckout
    <3> QED
      BY <1>1, <3>1, StaysClosed, EndsClosed DEF Steps
  <2>3. CASE issue_capability(s)
    <3>1. Goto(s, "commit") /\ UNCHANGED <<locks, work>>
      BY <2>3 DEF issue_capability
    <3> QED
      BY <1>1, <3>1, StaysClosed DEF Steps
  <2>4. CASE CommitCheckout(s) \/ execute_payment(s)
    BY <2>4, EndsClosed DEF CommitCheckout, execute_payment
  <2> QED
    BY <1>7, <2>1, <2>2, <2>3, <2>4 DEF CheckoutStep
<1>8. ASSUME NEW s \in Requests, Raise(s) PROVE Closed'
  BY <1>8, EndsClosed DEF Raise
<1> QED
  BY <1>2, <1>3, <1>4, <1>5, <1>6, <1>7, <1>8 DEF Next

\* Only a commit adds a version, one above the version it read.
LEMMA NumberedStep == ASSUME TypeInv, [Next]_vars PROVE Numbered'
<1>1. ASSUME policies' = policies PROVE Numbered'
  BY <1>1 DEF TypeInv, Numbered
<1>2. ASSUME NEW s \in Requests, CommitPolicy(s) PROVE Numbered'
  <2> DEFINE n == Len(policies)
             new == NewPolicy(work[s])
             marked == [k \in DOMAIN policies |->
                          [policies[k] EXCEPT !.current = @ /\ k \notin work[s].hit]]
  <2>1. /\ n \in Nat /\ DOMAIN policies = 1..n /\ \A k \in 1..n : policies[k] \in Policy
        /\ policies \in Seq(Policy)
    BY DEF TypeInv, GateInv, Shape
  <2>2. HeldRead(pc[s], work[s]) /\ pc[s] = "insert"
    BY <1>2 DEF TypeInv, GateInv, ReadsHold, CommitPolicy
  <2>3. work[s].read \in 1..n
    BY <2>2 DEF HeldRead
  <2>4. \A k \in 1..n : marked[k].version = policies[k].version
    BY <2>1 DEF Policy
  <2>5. policies[work[s].read].version \in 1..work[s].read
    BY <2>3 DEF TypeInv, Numbered
  <2>6. new.version \in 1..(n + 1)
    BY <2>1, <2>3, <2>5 DEF NewPolicy
  <2>7. policies' = Append(marked, new)
    BY <1>2 DEF CommitPolicy
  <2>8. marked \in Seq({marked[k] : k \in 1..n}) /\ Len(marked) = n
    BY <2>1
  <2> HIDE DEF marked, new
  <2>9. /\ Len(policies') = n + 1 /\ policies'[n + 1] = new
        /\ \A k \in 1..n : policies'[k] = marked[k]
    BY <2>1, <2>7, <2>8
  <2>10. \A k \in 1..n : policies[k].version \in 1..k
    BY DEF TypeInv, Numbered
  <2> SUFFICES ASSUME NEW k \in 1..(n + 1) PROVE policies'[k].version \in 1..k
    BY <2>9 DEF Numbered
  <2> QED
    BY <2>1, <2>4, <2>6, <2>9, <2>10
<1>3. ASSUME NEW s \in Requests, MerchantStep(s) PROVE Numbered'
  BY <1>1, <1>2, <1>3 DEF MerchantStep, toggle_agent_commerce, configure_merchant_policy,
     DeprecateCurrent, LockCurrent
<1>4. ASSUME NEW s \in Requests, CheckoutStep(s) PROVE Numbered'
  BY <1>1, <1>4 DEF CheckoutStep, ReadPolicy, EvaluateCheckout, issue_capability, CommitCheckout,
     execute_payment
<1>5. CASE EndDelegation \/ UNCHANGED vars
  BY <1>1, <1>5 DEF EndDelegation, vars
<1>6. ASSUME NEW s \in Requests, Raise(s) PROVE Numbered'
  BY <1>1, <1>6 DEF Raise
<1>7. ASSUME NEW s \in Requests,
             \/ \E enabled \in BOOLEAN, maxOrder \in Limits : update_policy(s, enabled, maxOrder)
             \/ \E kind \in {"enable", "disable"} : toggle_commerce(s, kind)
             \/ \E i \in Items, kind \in {"checkout", "execute"} : Arrive(s, i, kind)
      PROVE  Numbered'
  BY <1>1, <1>7 DEF update_policy, toggle_commerce, Arrive
<1> QED
  BY <1>3, <1>4, <1>5, <1>6, <1>7 DEF Next

LEMMA DelegatedStep == ASSUME TypeInv, [Next]_vars PROVE delegated' \in BOOLEAN
<1>1. ASSUME NEW s \in Requests, MerchantStep(s) PROVE delegated' = delegated
  BY <1>1 DEF MerchantStep, toggle_agent_commerce, configure_merchant_policy, DeprecateCurrent,
     LockCurrent, CommitPolicy
<1>2. ASSUME NEW s \in Requests, CheckoutStep(s) PROVE delegated' = delegated
  BY <1>2 DEF CheckoutStep, ReadPolicy, EvaluateCheckout, issue_capability, CommitCheckout,
     execute_payment
<1>3. ASSUME NEW s \in Requests, Raise(s) PROVE delegated' = delegated
  BY <1>3 DEF Raise
<1>4. ASSUME NEW s \in Requests,
             \/ \E enabled \in BOOLEAN, maxOrder \in Limits : update_policy(s, enabled, maxOrder)
             \/ \E kind \in {"enable", "disable"} : toggle_commerce(s, kind)
             \/ \E i \in Items, kind \in {"checkout", "execute"} : Arrive(s, i, kind)
      PROVE  delegated' = delegated
  BY <1>4 DEF update_policy, toggle_commerce, Arrive
<1>5. CASE EndDelegation
  BY <1>5 DEF EndDelegation
<1>6. CASE UNCHANGED vars
  BY <1>6 DEF vars, TypeInv
<1>7. CASE Next /\ ~EndDelegation
  <2>1. delegated' = delegated
    BY <1>1, <1>2, <1>3, <1>4, <1>7 DEF Next
  <2> QED
    BY <2>1 DEF TypeInv
<1> QED
  BY <1>5, <1>6, <1>7

\* What a rule reads of an intent under a version is a well-formed context.
LEMMA ContextType ==
  ASSUME delegated \in BOOLEAN, NEW i \in Items, NEW policy \in Policy
  PROVE  Context(i, policy) \in IntentEvaluationContext
<1>1. /\ i.amount \in Nat /\ i.method \in STRING /\ i.category \in STRING
      /\ i.currency \in STRING /\ i.merchant \in STRING
      /\ policy.enabled \in BOOLEAN /\ policy.maxOrder \in Nat
  BY MerchantGateAssumption DEF Policy
<1>2. (IF delegated THEN User ELSE Defaults) \in UserPolicyContext
  BY MerchantGateAssumption
<1>3. [enabled |-> policy.enabled, maxOrder |-> policy.maxOrder, methods |-> Methods]
        \in MerchantPolicyContext
  BY <1>1, MerchantGateAssumption DEF MerchantPolicyContext
<1> DEFINE shop == [enabled |-> policy.enabled, maxOrder |-> policy.maxOrder, methods |-> Methods]
           user == IF delegated THEN User ELSE Defaults
<1>4. shop \in MerchantPolicyContext /\ user \in UserPolicyContext
  BY <1>2, <1>3
<1>5. Context(i, policy) =
        [amount |-> i.amount, method |-> i.method, category |-> i.category,
         currency |-> i.currency, merchant |-> i.merchant, spent |-> 0,
         agent |-> TRUE, delegated |-> delegated, shop |-> shop, user |-> user]
  BY DEF Context
<1> HIDE DEF shop, user
<1> QED
  BY <1>1, <1>4, <1>5 DEF IntentEvaluationContext

\* Rows and requests of the merchant's gate keep their shape, and every current
\* version with the delegation makes a context the rules can read.
THEOREM GateTypes == Spec => []TypeOK
<1>1. TypeInv /\ [Next]_vars => TypeInv'
  BY GateStep, ClosedStep, NumberedStep, DelegatedStep DEF TypeInv
<1>2. ASSUME TypeInv PROVE TypeOK
  <2>1. /\ policies \in Seq(Policy) /\ DOMAIN policies = 1..Len(policies) /\ Len(policies) \in Nat
        /\ \A k \in 1..Len(policies) : policies[k] \in Policy
    BY <1>2 DEF TypeInv, GateInv, Shape
  <2>2. \A k \in Current, i \in Items : Context(i, policies[k]) \in IntentEvaluationContext
    BY <1>2, <2>1, ContextType DEF TypeInv, Current
  <2>3. ASSUME NEW i \in Items PROVE capability[i].policy \in 0..Len(policies)
    <3>1. CASE capability[i] = None
      BY <3>1, <2>1 DEF None
    <3>2. CASE capability[i] # None
      BY <1>2, <2>1, <3>2 DEF TypeInv, GateInv, Issued
    <3> QED
      BY <3>1, <3>2
  <2>4. pc \in [Requests -> Steps]
    BY <1>2 DEF TypeInv, GateInv, Shape
  <2>5. \A k \in DOMAIN policies : policies[k].version \in 1..k
    BY <1>2, <2>1 DEF TypeInv, Numbered
  <2> QED
    BY <1>2, <2>1, <2>2, <2>3, <2>4, <2>5 DEF TypeInv, Closed, TypeOK, Steps
<1> QED
  BY <1>1, <1>2, TypeInit, PTL DEF Spec

\* The place of every rule in the registry.
LEMMA RulesInOrder ==
  ASSUME NEW c
  PROVE  /\ HARD_DENY_RULES(c)[1] <=> rule_agent_active(c)
         /\ HARD_DENY_RULES(c)[2] <=> rule_delegation_active(c)
         /\ HARD_DENY_RULES(c)[3] <=> rule_merchant_agent_commerce_enabled(c)
         /\ HARD_DENY_RULES(c)[4] <=> rule_merchant_max_order(c)
         /\ HARD_DENY_RULES(c)[5] <=> rule_merchant_payment_method(c)
         /\ HARD_DENY_RULES(c)[6] <=> rule_max_single_transaction(c)
         /\ HARD_DENY_RULES(c)[7] <=> rule_daily_limit(c)
         /\ HARD_DENY_RULES(c)[8] <=> rule_category_allowed(c)
         /\ HARD_DENY_RULES(c)[9] <=> rule_merchant_allowed(c)
         /\ HARD_DENY_RULES(c)[10] <=> rule_currency_allowed(c)
  BY DEF HARD_DENY_RULES

\* The engine's answer depends on the answers of its rules only.
LEMMA SameAnswer ==
  ASSUME NEW c, NEW d, \A k \in 1..10 : HARD_DENY_RULES(c)[k] <=> HARD_DENY_RULES(d)[k],
         rule_consent_threshold(c) <=> rule_consent_threshold(d)
  PROVE  _evaluate(c) = _evaluate(d)
<1>1. {k \in 1..10 : ~HARD_DENY_RULES(c)[k]} = {k \in 1..10 : ~HARD_DENY_RULES(d)[k]}
  OBVIOUS
<1> QED
  BY <1>1 DEF _evaluate

\* The simulator and a checkout ask the same engine: given the delegation's
\* limits, simulate_policy_for_request foresees what the checkout decides.
THEOREM SimulatorTells == Spec => []SimulatorForesees
<1>1. SimulatorForesees
  <2> SUFFICES ASSUME NEW k \in Current, NEW i \in Items
               PROVE LET c == Context(i, policies[k])
                         overrides == [maxSingle |-> User.maxSingle, dailyLimit |-> User.dailyLimit,
                                       consentAbove |-> User.consentAbove, maxOrder |-> 0]
                     IN (/\ delegated /\ 0 \notin {User.maxSingle, User.dailyLimit, User.consentAbove}
                         /\ rule_category_allowed(c) /\ rule_merchant_allowed(c)
                         /\ rule_currency_allowed(c) /\ i.currency = "INR") =>
                          _evaluate(c) = simulate_policy_for_request(i, c.shop, overrides, Defaults)
    BY DEF SimulatorForesees
  <2> DEFINE c == Context(i, policies[k])
             d == [amount |-> i.amount, method |-> i.method, category |-> i.category,
                   currency |-> i.currency, merchant |-> i.merchant, spent |-> 0,
                   agent |-> TRUE, delegated |-> TRUE, shop |-> c.shop,
                   user |-> [maxSingle |-> User.maxSingle, dailyLimit |-> User.dailyLimit,
                             consentAbove |-> User.consentAbove,
                             categories |-> {}, merchants |-> {}, blocked |-> {},
                             currencies |-> {"INR"}]]
             overrides == [maxSingle |-> User.maxSingle, dailyLimit |-> User.dailyLimit,
                           consentAbove |-> User.consentAbove, maxOrder |-> 0]
  <2> SUFFICES ASSUME delegated, 0 \notin {User.maxSingle, User.dailyLimit, User.consentAbove},
                      rule_category_allowed(c), rule_merchant_allowed(c),
                      rule_currency_allowed(c), i.currency = "INR"
               PROVE  _evaluate(c) = simulate_policy_for_request(i, c.shop, overrides, Defaults)
    OBVIOUS
  <2>1. [c.shop EXCEPT !.maxOrder = Override(overrides.maxOrder, @)] = c.shop
    BY DEF Context, Override
  <2>2. simulate_policy_for_request(i, c.shop, overrides, Defaults) = _evaluate(d)
    BY <2>1 DEF simulate_policy_for_request, Override
  <2>3. /\ c.agent /\ c.delegated /\ c.spent = d.spent /\ c.amount = d.amount
        /\ c.method = d.method /\ c.shop = d.shop /\ c.user = User
    BY DEF Context
  <2>4. /\ d.agent /\ d.delegated /\ d.currency = "INR" /\ d.user.maxSingle = User.maxSingle
        /\ d.user.dailyLimit = User.dailyLimit /\ d.user.consentAbove = User.consentAbove
        /\ d.user.categories = {} /\ d.user.merchants = {} /\ d.user.blocked = {}
        /\ d.user.currencies = {"INR"}
    OBVIOUS
  <2> HIDE DEF c, d
  <2>5. /\ rule_agent_active(c) <=> rule_agent_active(d)
        /\ rule_delegation_active(c) <=> rule_delegation_active(d)
    BY <2>3, <2>4 DEF rule_agent_active, rule_delegation_active
  <2>6. /\ rule_merchant_agent_commerce_enabled(c) <=> rule_merchant_agent_commerce_enabled(d)
        /\ rule_merchant_max_order(c) <=> rule_merchant_max_order(d)
        /\ rule_merchant_payment_method(c) <=> rule_merchant_payment_method(d)
    BY <2>3 DEF rule_merchant_agent_commerce_enabled, rule_merchant_max_order,
       rule_merchant_payment_method
  <2>7. /\ rule_max_single_transaction(c) <=> rule_max_single_transaction(d)
        /\ rule_daily_limit(c) <=> rule_daily_limit(d)
        /\ rule_consent_threshold(c) <=> rule_consent_threshold(d)
    BY <2>3, <2>4 DEF rule_max_single_transaction, rule_daily_limit, rule_consent_threshold
  <2>8. rule_category_allowed(d) /\ rule_merchant_allowed(d) /\ rule_currency_allowed(d)
    BY <2>4 DEF rule_category_allowed, rule_merchant_allowed, rule_currency_allowed, Admits
  <2>9. \A n \in 1..10 : HARD_DENY_RULES(c)[n] <=> HARD_DENY_RULES(d)[n]
    BY <2>5, <2>6, <2>7, <2>8, RulesInOrder
  <2> QED
    BY <2>2, <2>7, <2>9, SameAnswer
<1> QED
  BY <1>1, PTL
=============================================================================
