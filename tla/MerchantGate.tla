----------------------------- MODULE MerchantGate -----------------------------
(***************************************************************************)
(* The merchant's policy versions against the checkouts they gate.  Every  *)
(* configuration deprecates the current version and inserts the next; the  *)
(* kill switch copies the current settings with one field changed.  A      *)
(* checkout reads the one current version and the delegation, asks the     *)
(* engine and may commit a capability much later.                          *)
(*                                                                         *)
(* Each request is one database session at READ COMMITTED.  Checkout.tla   *)
(* has the rest of a checkout, which takes the engine's answer as given.   *)
(***************************************************************************)
EXTENDS PolicyEngine

CONSTANTS
  Requests,    \* HTTP requests that may be open at once
  Items,       \* the intents that are checked out, by the fields rules read
  User,        \* the limits of the user's delegation
  Defaults,    \* the simulator's limits for a user
  Limits,      \* bound: the values of max_autonomous_order_minor
  SeedLimit,   \* the value the seed script writes
  Methods,     \* the merchant's allowed_payment_methods
  MaxPolicies  \* bound: policy versions of the merchant

ASSUME MerchantGateAssumption ==
  /\ Items # {} /\ Methods \subseteq STRING
  /\ Items \subseteq [amount : Nat, method : STRING, category : STRING, currency : STRING,
                      merchant : STRING]
  /\ SeedLimit \in Limits /\ Limits \subseteq Nat \ {0}
  /\ MaxPolicies \in Nat \ {0}
  /\ {User, Defaults} \subseteq UserPolicyContext

VARIABLES
  policies,    \* committed merchant_policies, in the order of their commits
  delegated,   \* whether the delegation is ACTIVE and valid
  capability,  \* what the capability of every intent was issued on
  locks,       \* the policy rows each request holds until it ends
  pc,          \* the step each request takes next
  work         \* what each request holds in memory

vars == <<policies, delegated, capability, locks, pc, work>>

\* A row of merchant_policies, by what differs between the versions.
Policy == [version : Nat, enabled : BOOLEAN, maxOrder : Limits, current : BOOLEAN]

None == [policy |-> 0, begun |-> 0]

\* read is the row a request read, hit the rows its UPDATE deprecates; begun,
\* the rows there were when it began, is not in the code: properties use it.
Blank == [kind |-> "checkout", item |-> CHOOSE i \in Items : TRUE, read |-> 0, hit |-> {},
          enabled |-> TRUE, maxOrder |-> 0, begun |-> 0]

\* The merchant, its policy and the delegation the seed script writes.
Init ==
  /\ policies = <<[version |-> 1, enabled |-> TRUE, maxOrder |-> SeedLimit, current |-> TRUE]>>
  /\ delegated = TRUE
  /\ capability = [i \in Items |-> None]
  /\ locks = [s \in Requests |-> {}]
  /\ pc = [s \in Requests |-> "idle"]
  /\ work = [s \in Requests |-> Blank]

Goto(s, step) == pc' = [pc EXCEPT ![s] = step]

\* Variant: an exception leaves the rows of the session locked.
EndRequest_keeps_locks(s) ==
  /\ Goto(s, "idle")
  /\ work' = [work EXCEPT ![s] = Blank]
  /\ UNCHANGED locks

\* The session ends; what an exception leaves uncommitted is gone.
EndRequest(s) ==
  /\ Goto(s, "idle")
  /\ locks' = [locks EXCEPT ![s] = {}]
  /\ work' = [work EXCEPT ![s] = Blank]

Raise(s) ==
  /\ pc[s] # "idle"
  /\ EndRequest(s)
  /\ UNCHANGED <<policies, delegated, capability>>

Current == {k \in DOMAIN policies : policies[k].current}

\* Variant: the first current row, in whatever order the table gives them.
get_current_policy_first == Current

\* scalar_one_or_none: with two current rows it raises.
get_current_policy == IF Cardinality(Current) = 1 THEN Current ELSE {}

-----------------------------------------------------------------------------
(* The merchant's requests.                                                *)

Changing == {s \in Requests : pc[s] \in {"toggle", "configure", "deprecate", "lock", "insert"}}

\* POST policy, or one of the two switches.
update_policy(s, enabled, maxOrder) ==
  /\ pc[s] = "idle"
  /\ Len(policies) + Cardinality(Changing) < MaxPolicies
  /\ work' = [work EXCEPT ![s].kind = "configure", ![s].enabled = enabled,
                          ![s].maxOrder = maxOrder, ![s].begun = Len(policies)]
  /\ Goto(s, "configure")
  /\ UNCHANGED <<policies, delegated, capability, locks>>

toggle_commerce(s, kind) ==
  /\ pc[s] = "idle"
  /\ Len(policies) + Cardinality(Changing) < MaxPolicies
  /\ work' = [work EXCEPT ![s].kind = kind, ![s].enabled = (kind = "enable"),
                          ![s].begun = Len(policies)]
  /\ Goto(s, "toggle")
  /\ UNCHANGED <<policies, delegated, capability, locks>>

\* disable_agent_commerce and enable_agent_commerce keep the other settings of
\* the version they read.
toggle_agent_commerce(s) ==
  /\ pc[s] = "toggle"
  /\ \E k \in get_current_policy : work' = [work EXCEPT ![s].maxOrder = policies[k].maxOrder]
  /\ Goto(s, "configure")
  /\ UNCHANGED <<policies, delegated, capability, locks>>

\* configure_merchant_policy: read the current version...
configure_merchant_policy(s) ==
  /\ pc[s] = "configure"
  /\ \E k \in get_current_policy : work' = [work EXCEPT ![s].read = k]
  /\ Goto(s, "deprecate")
  /\ UNCHANGED <<policies, delegated, capability, locks>>

\* ...UPDATE the current rows the statement sees when it starts...
DeprecateCurrent(s) ==
  /\ pc[s] = "deprecate"
  /\ work' = [work EXCEPT ![s].hit = Current]
  /\ Goto(s, "lock")
  /\ UNCHANGED <<policies, delegated, capability, locks>>

\* ...which waits for the sessions that hold them, and leaves those alone that
\* are no longer current then...
LockCurrent(s) ==
  /\ pc[s] = "lock"
  /\ \A o \in Requests \ {s} : work[s].hit \cap locks[o] = {}
  /\ work' = [work EXCEPT ![s].hit = @ \cap Current]
  /\ locks' = [locks EXCEPT ![s] = work[s].hit \cap Current]
  /\ Goto(s, "insert")
  /\ UNCHANGED <<policies, delegated, capability>>

\* The row of the next version.
NewPolicy(w) ==
  [version |-> policies[w.read].version + 1, enabled |-> w.enabled,
   maxOrder |-> w.maxOrder, current |-> TRUE]

\* Variant: the row is inserted before the UPDATE, which deprecates it as well.
CommitPolicy_inserted_first(s) ==
  /\ pc[s] = "insert"
  /\ policies' = [k \in 1..(Len(policies) + 1) |->
                    IF k > Len(policies) THEN [NewPolicy(work[s]) EXCEPT !.current = FALSE]
                    ELSE [policies[k] EXCEPT !.current = @ /\ k \notin work[s].hit]]
  /\ EndRequest(s)
  /\ UNCHANGED <<delegated, capability>>

\* ...and INSERT the next version and commit.
CommitPolicy(s) ==
  /\ pc[s] = "insert"
  /\ policies' = Append([k \in DOMAIN policies |->
                           [policies[k] EXCEPT !.current = @ /\ k \notin work[s].hit]],
                        NewPolicy(work[s]))
  /\ EndRequest(s)
  /\ UNCHANGED <<delegated, capability>>

-----------------------------------------------------------------------------
(* The checkouts.                                                          *)

\* Outside the program: the delegation expires or is revoked.
EndDelegation ==
  /\ delegated
  /\ delegated' = FALSE
  /\ UNCHANGED <<policies, capability, locks, pc, work>>

\* A checkout or a direct execution arrives and its intent is valid.
Arrive(s, i, kind) ==
  /\ pc[s] = "idle"
  /\ kind = "execute" => capability[i] # None
  /\ work' = [work EXCEPT ![s].kind = kind, ![s].item = i, ![s].begun = Len(policies)]
  /\ Goto(s, "policy")
  /\ UNCHANGED <<policies, delegated, capability, locks>>

\* checkout_and_pay reads the merchant's policy; a request that arrived while
\* one version is in force can only read that one or a newer one.
ReadPolicy(s) ==
  /\ pc[s] = "policy" /\ work[s].kind = "checkout"
  /\ \E k \in get_current_policy : work' = [work EXCEPT ![s].read = k]
  /\ Goto(s, "evaluate")
  /\ UNCHANGED <<policies, delegated, capability, locks>>

\* The context of an intent; without a delegation the limits are the defaults,
\* and nothing has been spent so far, whatever was.
Context(i, policy) ==
  [amount |-> i.amount, method |-> i.method, category |-> i.category,
   currency |-> i.currency, merchant |-> i.merchant, spent |-> 0,
   agent |-> TRUE, delegated |-> delegated,
   shop |-> [enabled |-> policy.enabled, maxOrder |-> policy.maxOrder, methods |-> Methods],
   user |-> IF delegated THEN User ELSE Defaults]

\* The delegation is read and the engine asked; only APPROVE goes on, ASK_USER
\* parks the intent and DENY raises.
EvaluateCheckout(s) ==
  /\ pc[s] = "evaluate"
  /\ \E answer \in evaluate_policy(Context(work[s].item, policies[work[s].read])) :
       IF answer.decision = "APPROVE"
       THEN Goto(s, "issue") /\ UNCHANGED <<locks, work>>
       ELSE EndRequest(s)
  /\ UNCHANGED <<policies, delegated, capability>>

\* issue_capability reads the delegation again.
issue_capability(s) ==
  /\ pc[s] = "issue"
  /\ delegated
  /\ Goto(s, "commit")
  /\ UNCHANGED <<policies, delegated, capability, locks, work>>

\* The capability commits, or the one that was live is used again.
CommitCheckout(s) ==
  LET i == work[s].item IN
  /\ pc[s] = "commit"
  /\ capability' = [capability EXCEPT ![i] =
       IF @ = None THEN [policy |-> work[s].read, begun |-> work[s].begun] ELSE @]
  /\ EndRequest(s)
  /\ UNCHANGED <<policies, delegated>>

\* The merchant_policy_id of a capability: issue_capability copies the intent's,
\* and nothing ever writes that one.
BoundPolicy(i) == 0

\* _revalidate_for_execution wants the capability bound to the current version.
_revalidate_for_execution(i) ==
  \E k \in get_current_policy : policies[k].enabled /\ BoundPolicy(i) = k

\* execute_payment raises where the revalidation fails; what the code does after
\* that, with the payment lock and the capability, is never reached.
execute_payment(s) ==
  /\ pc[s] = "policy" /\ work[s].kind = "execute"
  /\ ~_revalidate_for_execution(work[s].item)
  /\ EndRequest(s)
  /\ UNCHANGED <<policies, delegated, capability>>

-----------------------------------------------------------------------------

MerchantStep(s) ==
  \/ toggle_agent_commerce(s) \/ configure_merchant_policy(s)
  \/ DeprecateCurrent(s) \/ LockCurrent(s) \/ CommitPolicy(s)

CheckoutStep(s) ==
  ReadPolicy(s) \/ EvaluateCheckout(s) \/ issue_capability(s) \/ CommitCheckout(s)
    \/ execute_payment(s)

Next ==
  \/ EndDelegation
  \/ \E s \in Requests :
       \/ \E enabled \in BOOLEAN, maxOrder \in Limits : update_policy(s, enabled, maxOrder)
       \/ \E kind \in {"enable", "disable"} : toggle_commerce(s, kind)
       \/ \E i \in Items, kind \in {"checkout", "execute"} : Arrive(s, i, kind)
       \/ MerchantStep(s) \/ CheckoutStep(s) \/ Raise(s)

Spec == Init /\ [][Next]_vars
=============================================================================
