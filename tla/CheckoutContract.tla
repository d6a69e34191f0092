-------------------------- MODULE CheckoutContract --------------------------
(***************************************************************************)
(* What checkout promises, with requests, reads and locks hidden.  One     *)
(* purchase attempt at a time is admitted, in a single step that looks at  *)
(* everything that could forbid it, and then made or withdrawn.            *)
(*                                                                         *)
(* An attempt beside an UNKNOWN one whose capability lapsed, and one on a  *)
(* reservation that expired, are admitted: the code refuses neither.       *)
(***************************************************************************)
EXTENDS Amounts, Sequences

CONSTANTS Intents, Amount, DailyLimit, CapabilityTTL

VARIABLES
  now,        \* the clock
  attempts,   \* the attempts of every intent: a capability and its transaction
  budget,     \* the budget reservation of every intent
  admitted    \* the attempt that was admitted and is not made yet, if any

vars == <<now, attempts, budget, admitted>>

Init ==
  /\ now = 0
  /\ attempts = [i \in Intents |-> <<>>]
  /\ budget = [i \in Intents |-> [status |-> "NONE", until |-> 0]]
  /\ admitted = {}

Held(i) == budget[i].status = "RESERVED" /\ budget[i].until > now

HeldAmount == Total(Amount, {i \in Intents : Held(i)})

\* The intent's earlier capabilities ended before the new one was issued, none
\* of its payments is settled, and it has a reservation or finds room for one.
Admit(i) ==
  /\ admitted = {}
  /\ \E until \in 0..(now + CapabilityTTL) :
       /\ \A k \in DOMAIN attempts[i] : /\ attempts[i][k].until + CapabilityTTL <= until
                                        /\ attempts[i][k].status \notin {"COMPLETED", "FAILED"}
       /\ admitted' = {[item |-> i, until |-> until]}
  /\ \/ budget[i].status = "RESERVED"
     \/ budget[i].status = "NONE" /\ HeldAmount + Amount[i] <= DailyLimit
  /\ UNCHANGED <<now, attempts, budget>>

\* The provider accepted the order or left it open; the first attempt of an
\* intent brings its reservation, a later one finds it.
Attempt ==
  \E a \in admitted, outcome \in {"SUBMITTED", "UNKNOWN"} :
    /\ admitted' = {}
    /\ attempts' = [attempts EXCEPT ![a.item] = Append(@, [status |-> outcome, until |-> a.until])]
    /\ budget' = IF budget[a.item].status = "NONE"
                   THEN [budget EXCEPT ![a.item] = [status |-> "RESERVED", until |-> a.until]]
                   ELSE budget
    /\ UNCHANGED now

Withdraw == admitted' = {} /\ UNCHANGED <<now, attempts, budget>>

\* A payment is settled at any time, beside an admitted attempt too.
Settled(i, outcome) ==
  /\ \E k \in DOMAIN attempts[i] :
       /\ attempts[i][k].status \in {"SUBMITTED", "UNKNOWN"}
       /\ attempts' = [attempts EXCEPT ![i][k].status = outcome]
  /\ budget' = [budget EXCEPT ![i].status =
                  IF @ # "RESERVED" THEN @
                  ELSE IF outcome = "COMPLETED" THEN "SETTLED" ELSE "RELEASED"]
  /\ UNCHANGED <<now, admitted>>

Tick == now' = now + 1 /\ UNCHANGED <<attempts, budget, admitted>>

Next ==
  \/ Tick \/ Attempt \/ Withdraw
  \/ \E i \in Intents : Admit(i) \/ Settled(i, "COMPLETED") \/ Settled(i, "FAILED")

Spec == Init /\ [][Next]_vars
=============================================================================
