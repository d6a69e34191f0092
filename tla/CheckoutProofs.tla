---------------------------- MODULE CheckoutProofs ----------------------------
(***************************************************************************)
(* What holds of checkouts for any requests, intents, amounts, mandates    *)
(* and lifetimes: the types, one live capability per intent, no intent     *)
(* that waits for a question nobody was asked, no reservation after a      *)
(* settlement, the two limits, and the contract of atomic attempts.        *)
(*                                                                         *)
(* None but the types is inductive.  That a capability may be issued, an   *)
(* intent parked or an amount reserved was read in an earlier step and     *)
(* committed in a later one: CheckoutInv and SpendInv say what each        *)
(* session still knows meanwhile, because of the locks it holds.           *)
(* BudgetInv adds what a settlement leaves behind: it ends the reservation *)
(* on which every attempt of the intent is made.                           *)
(***************************************************************************)
EXTENDS CheckoutProperties, FiniteSetTheorems, TLAPS

Work == [kind : Kinds, item : Intents, until : Nat, limit : Nat, outcome : TransactionStatus]

\* What a session at a step knows of the rows and has locked.
SessionOK(step, w, held) ==
  /\ step # "commit" => w.outcome = "POLICY_APPROVED"
  /\ step = "issue" \/ Issuing(step, w) => <<"intent", w.item>> \in held
  /\ Issuing(step, w) => \A k \in DOMAIN attempts[w.item] : ~Live(attempts[w.item][k])
  /\ step = "park" \/ (step = "commit" /\ w.outcome = "AWAITING_CONSENT") =>
       <<"consent", w.item>> \in held \/ consent[w.item].status # "NONE"
  /\ step = "decide" => w.kind \in {"APPROVED", "REJECTED"}
  /\ \A i \in Intents : <<"budget", i>> \in held => BudgetLock \in held

SessionsOK == \A s \in Requests : SessionOK(pc[s], work[s], locks[s])

\* No lock has two owners.
Exclusive == \A s \in Requests : \A o \in Requests \ {s} : locks[s] \cap locks[o] = {}

\* An attempt's transaction is past the statuses a new one goes through, and
\* one attempt of an intent is live at most.
AttemptsOK ==
  \A i \in Intents :
    /\ \A k \in DOMAIN attempts[i] : attempts[i][k].status \in OrderOutcomes \cup {"COMPLETED", "FAILED"}
    /\ \A k, l \in DOMAIN attempts[i] : Live(attempts[i][k]) /\ Live(attempts[i][l]) => k = l

CheckoutInv == TypeOK /\ SessionsOK /\ Exclusive /\ AttemptsOK /\ ParkedWasAsked

-----------------------------------------------------------------------------
LEMMA BlankIsWork == Blank \in Work
<1>1. Blank.item \in Intents /\ Blank.kind \in Kinds /\ Blank.outcome \in TransactionStatus
  BY CheckoutAssumption DEF Blank, Kinds, TransactionStatus, OpenStatuses
<1> QED
  BY <1>1 DEF Blank, Work

LEMMA CheckoutInit == Init => CheckoutInv
<1> SUFFICES ASSUME Init PROVE CheckoutInv
  OBVIOUS
<1>1. TypeOK
  <2>1. "CREATED" \in TransactionStatus
    BY DEF TransactionStatus, OpenStatuses
  <2> QED
    BY <2>1, BlankIsWork DEF Init, TypeOK, Steps, Work
<1>2. SessionsOK
  BY DEF Init, SessionsOK, SessionOK, Issuing, Blank
<1>3. Exclusive /\ AttemptsOK /\ ParkedWasAsked
  BY DEF Init, Exclusive, AttemptsOK, ParkedWasAsked
<1> QED
  BY <1>1, <1>2, <1>3 DEF CheckoutInv

\* A session goes on with what it holds and nothing is committed.
LEMMA GoOn ==
  ASSUME CheckoutInv, NEW s \in Requests, NEW step \in Steps, NEW w \in Work,
         NEW held \in SUBSET Resources, SessionOK(step, w, held),
         \A o \in Requests \ {s} : held \cap locks[o] = {},
         pc' = [pc EXCEPT ![s] = step], work' = [work EXCEPT ![s] = w],
         locks' = [locks EXCEPT ![s] = held],
         now' = now, intent' = intent, consent' = consent, attempts' = attempts,
         budget' = budget, mandates' = mandates
  PROVE  CheckoutInv'
<1> USE DEF CheckoutInv
<1>1. TypeOK'
  BY DEF TypeOK, Work
<1>2. SessionsOK'
  <2> SUFFICES ASSUME NEW o \in Requests PROVE SessionOK(pc[o], work[o], locks[o])'
    BY DEF SessionsOK
  <2>1. CASE o = s
    BY <2>1 DEF TypeOK, SessionOK, Issuing, Live
  <2>2. CASE o # s
    <3>1. pc'[o] = pc[o] /\ work'[o] = work[o] /\ locks'[o] = locks[o]
      BY <2>2 DEF TypeOK
    <3> QED
      BY <3>1 DEF SessionsOK, SessionOK, Issuing, Live
  <2> QED
    BY <2>1, <2>2
<1>3. Exclusive'
  BY DEF TypeOK, Exclusive
<1>4. AttemptsOK' /\ ParkedWasAsked'
  BY DEF AttemptsOK, ParkedWasAsked, Live
<1> QED
  BY <1>1, <1>2, <1>3, <1>4

LEMMA SamePlace == ASSUME CheckoutInv, NEW s \in Requests
                   PROVE  /\ pc[s] \in Steps /\ work[s] \in Work /\ work[s].item \in Intents
                          /\ locks[s] \in SUBSET Resources /\ SessionOK(pc[s], work[s], locks[s])
                          /\ \A o \in Requests \ {s} : locks[s] \cap locks[o] = {}
  BY DEF CheckoutInv, TypeOK, Work, SessionsOK, Exclusive

\* A request opens.
LEMMA Opened ==
  ASSUME CheckoutInv, NEW s \in Requests, NEW kind \in Kinds, NEW i \in Intents, NEW step \in Steps,
         Open(s, kind, i, step), step \in {"consent", "approve", "decide", "cancel"},
         step = "decide" => kind \in {"APPROVED", "REJECTED"},
         UNCHANGED <<now, rows, locks>>
  PROVE  CheckoutInv'
<1> DEFINE v == [work[s] EXCEPT !.kind = kind]
<1> DEFINE w == [v EXCEPT !.item = i]
<1>1. /\ v \in Work /\ v.kind = kind /\ v.outcome = work[s].outcome
  BY SamePlace DEF Work
<1>2. w \in Work /\ w.kind = kind /\ w.item = i /\ w.outcome = work[s].outcome
  <2> HIDE DEF v
  <2> QED
    BY <1>1 DEF Work
<1>3. work' = [work EXCEPT ![s] = w]
  BY DEF Open, CheckoutInv, TypeOK
<1>4. work[s].outcome = "POLICY_APPROVED" /\ pc' = [pc EXCEPT ![s] = step]
  BY SamePlace DEF Open, Goto, SessionOK
<1>5. SessionOK(step, w, locks[s])
  <2> HIDE DEF w
  <2> QED
    BY <1>2, <1>4, SamePlace DEF SessionOK, Issuing
<1>6. locks' = [locks EXCEPT ![s] = locks[s]]
  BY DEF CheckoutInv, TypeOK
<1> QED
  <2> HIDE DEF w, CheckoutInv
  <2> QED
    BY <1>2, <1>3, <1>4, <1>5, <1>6, SamePlace, GoOn DEF rows

\* A request takes a lock nobody else holds.
LEMMA Taken ==
  ASSUME CheckoutInv, NEW s \in Requests, NEW r \in Resources, Take(s, r)
  PROVE  /\ locks[s] \cup {r} \in SUBSET Resources
         /\ locks' = [locks EXCEPT ![s] = locks[s] \cup {r}]
         /\ \A o \in Requests \ {s} : (locks[s] \cup {r}) \cap locks[o] = {}
  BY SamePlace DEF Take, Free, CheckoutInv, TypeOK

LEMMA RequestConsent ==
  ASSUME CheckoutInv, NEW s \in Requests, request_consent(s) PROVE CheckoutInv'
<1> DEFINE i == work[s].item
           step == IF consent[i].status = "PENDING" /\ consent[i].until >= now THEN AfterConsent(s) ELSE "ask"
<1>1. step \in {"park", "commit", "ask"} /\ (step = "park" => consent[i].status # "NONE")
  BY DEF AfterConsent
<1>2. pc' = [pc EXCEPT ![s] = step] /\ pc[s] = "consent"
  BY DEF request_consent, Goto
<1>3. SessionOK(step, work[s], locks[s])
  <2> HIDE DEF step
  <2> QED
    BY <1>1, <1>2, SamePlace DEF SessionOK, Issuing, OrderOutcomes
<1>4. work' = [work EXCEPT ![s] = work[s]] /\ locks' = [locks EXCEPT ![s] = locks[s]]
  BY DEF request_consent, CheckoutInv, TypeOK
<1>5. step \in Steps /\ UNCHANGED <<now, rows>>
  BY <1>1 DEF Steps, request_consent
<1> QED
  <2> HIDE DEF step, CheckoutInv
  <2> QED
    BY <1>2, <1>3, <1>4, <1>5, SamePlace, GoOn DEF rows

LEMMA AskConsent ==
  ASSUME CheckoutInv, NEW s \in Requests, InsertConsent(s) PROVE CheckoutInv'
<1> DEFINE r == <<"consent", work[s].item>>
           held == locks[s] \cup {r}
           w == [work[s] EXCEPT !.until = now + ConsentTTL]
           step == AfterConsent(s)
<1>1. r \in Resources
  BY SamePlace DEF Resources
<1>2. held \in SUBSET Resources /\ locks' = [locks EXCEPT ![s] = held]
      /\ \A o \in Requests \ {s} : held \cap locks[o] = {}
  BY <1>1, Taken DEF InsertConsent
<1>3. w \in Work /\ w.item = work[s].item /\ w.outcome = work[s].outcome /\ work' = [work EXCEPT ![s] = w]
  <2>1. now + ConsentTTL \in Nat
    <3>1. ConsentTTL \in Nat
      BY CheckoutAssumption
    <3>2. now \in Nat
      BY DEF CheckoutInv, TypeOK
    <3> QED
      BY <3>1, <3>2
  <2>2. w \in Work /\ w.item = work[s].item /\ w.outcome = work[s].outcome
    BY <2>1, SamePlace DEF Work
  <2> QED
    BY <2>2 DEF InsertConsent, CheckoutInv, TypeOK
<1>4. step \in {"park", "commit"} /\ step \in Steps /\ pc' = [pc EXCEPT ![s] = step]
  BY DEF AfterConsent, InsertConsent, Goto, Steps
<1>5. work[s].outcome = "POLICY_APPROVED"
  BY SamePlace DEF InsertConsent, SessionOK
<1>6. SessionOK(step, w, held)
  <2> HIDE DEF step, w
  <2> QED
    BY <1>3, <1>4, <1>5, SamePlace DEF SessionOK, Issuing, OrderOutcomes, BudgetLock
<1>7. UNCHANGED <<now, rows>>
  BY DEF InsertConsent
<1> QED
  <2> HIDE DEF step, w, held, CheckoutInv
  <2> QED
    BY <1>2, <1>3, <1>4, <1>6, <1>7, GoOn DEF rows

LEMMA Parked ==
  ASSUME CheckoutInv, NEW s \in Requests, ParkIntent(s) PROVE CheckoutInv'
<1> DEFINE r == <<"intent", work[s].item>>
           held == locks[s] \cup {r}
           w == [work[s] EXCEPT !.outcome = "AWAITING_CONSENT"]
<1>1. r \in Resources
  BY SamePlace DEF Resources
<1>2. held \in SUBSET Resources /\ locks' = [locks EXCEPT ![s] = held]
      /\ \A o \in Requests \ {s} : held \cap locks[o] = {}
  BY <1>1, Taken DEF ParkIntent
<1>3. w \in Work /\ w.item = work[s].item /\ w.outcome = "AWAITING_CONSENT" /\ work' = [work EXCEPT ![s] = w]
  BY SamePlace DEF ParkIntent, CheckoutInv, TypeOK, Work, TransactionStatus, OpenStatuses
<1>4. "commit" \in Steps /\ pc' = [pc EXCEPT ![s] = "commit"] /\ pc[s] = "park"
  BY DEF ParkIntent, Goto, Steps
<1>5. SessionOK("commit", w, held)
  <2> HIDE DEF w
  <2> QED
    BY <1>3, <1>4, SamePlace DEF SessionOK, Issuing, OrderOutcomes, BudgetLock
<1>6. UNCHANGED <<now, rows>>
  BY DEF ParkIntent
<1> QED
  <2> HIDE DEF w, held, CheckoutInv
  <2> QED
    BY <1>2, <1>3, <1>4, <1>5, <1>6, GoOn DEF rows

LEMMA Approved ==
  ASSUME CheckoutInv, NEW s \in Requests, ApproveIntent(s) PROVE CheckoutInv'
<1> DEFINE r == <<"intent", work[s].item>>
           held == locks[s] \cup {r}
<1>1. r \in Resources
  BY SamePlace DEF Resources
<1>2. held \in SUBSET Resources /\ locks' = [locks EXCEPT ![s] = held]
      /\ \A o \in Requests \ {s} : held \cap locks[o] = {}
  BY <1>1, Taken DEF ApproveIntent
<1>3. "issue" \in Steps /\ pc' = [pc EXCEPT ![s] = "issue"] /\ pc[s] = "approve"
  BY DEF ApproveIntent, Goto, Steps
<1>4. SessionOK("issue", work[s], held)
  BY <1>3, SamePlace DEF SessionOK, Issuing, BudgetLock
<1>5. UNCHANGED <<now, rows>> /\ work' = [work EXCEPT ![s] = work[s]]
  BY DEF ApproveIntent, CheckoutInv, TypeOK
<1> QED
  <2> HIDE DEF held, CheckoutInv
  <2> QED
    BY <1>2, <1>3, <1>4, <1>5, SamePlace, GoOn DEF rows

\* No transaction of an attempt can be validated again.
LEMMA NoneValidates ==
  \A status \in OrderOutcomes \cup {"COMPLETED", "FAILED"} : ~can_transition(status, "VALIDATING")
  BY DEF OrderOutcomes, can_transition, LEGAL_TRANSITIONS, OpenStatuses

LEMMA MandateOfOne == ASSUME TypeOK, NEW k \in DOMAIN mandates PROVE mandates[k] \in Mandate
<1>1. mandates \in Seq(Mandate)
  BY DEF TypeOK
<1>2. ASSUME NEW S, NEW q \in Seq(S), NEW n \in DOMAIN q PROVE q[n] \in S
  BY <1>2
<1> QED
  BY <1>1, <1>2

LEMMA LimitIsNat == ASSUME TypeOK, NEW i \in Intents PROVE DailyLimits(i) \subseteq Nat
<1>1. \A k \in InForce : mandates[k].daily \in Nat
  BY MandateOfOne DEF InForce, Mandate
<1>2. DailyLimit \in Nat
  BY CheckoutAssumption
<1>3. {IF Eligible(mandates[k], i) /\ mandates[k].daily < DailyLimit
         THEN mandates[k].daily ELSE DailyLimit : k \in InForce} \subseteq Nat
  BY <1>1, <1>2
<1>4. (IF InForce = {} THEN {DailyLimit} ELSE {}) \subseteq Nat
  BY <1>2
<1> QED
  BY <1>3, <1>4 DEF DailyLimits

LEMMA Issued ==
  ASSUME CheckoutInv, NEW s \in Requests, issue_capability(s) PROVE CheckoutInv'
<1> DEFINE i == work[s].item
<1>1. PICK limit \in DailyLimits(i) :
        work' = [work EXCEPT ![s].until = now + CapabilityTTL, ![s].limit = limit]
  BY DEF issue_capability
<1> DEFINE v == [work[s] EXCEPT !.until = now + CapabilityTTL]
<1> DEFINE w == [v EXCEPT !.limit = limit]
<1>2. now + CapabilityTTL \in Nat /\ limit \in Nat
  <2>1. CapabilityTTL \in Nat
    BY CheckoutAssumption
  <2>2. now + CapabilityTTL \in Nat
    BY <2>1 DEF CheckoutInv, TypeOK
  <2>3. DailyLimits(i) \subseteq Nat
    BY SamePlace, LimitIsNat DEF CheckoutInv
  <2> QED
    BY <2>2, <2>3, <1>1
<1>3. v \in Work /\ v.item = i /\ v.outcome = work[s].outcome
  BY <1>2, SamePlace DEF Work
<1>4. w \in Work /\ w.item = i /\ w.outcome = work[s].outcome
  <2> HIDE DEF v
  <2> QED
    BY <1>2, <1>3 DEF Work
<1>5. work' = [work EXCEPT ![s] = w]
  BY <1>1 DEF CheckoutInv, TypeOK
<1>6. "reserve" \in Steps /\ pc' = [pc EXCEPT ![s] = "reserve"] /\ pc[s] = "issue"
  BY DEF issue_capability, Goto, Steps
<1>7. \A k \in DOMAIN attempts[i] : ~Live(attempts[i][k])
  BY SamePlace, NoneValidates DEF issue_capability, CheckoutInv, AttemptsOK
<1>8. SessionOK("reserve", w, locks[s])
  <2> HIDE DEF w
  <2> QED
    BY <1>4, <1>6, <1>7, SamePlace DEF SessionOK, Issuing
<1>9. UNCHANGED <<now, rows>> /\ locks' = [locks EXCEPT ![s] = locks[s]]
  BY DEF issue_capability, CheckoutInv, TypeOK
<1> QED
  <2> HIDE DEF w, CheckoutInv
  <2> QED
    BY <1>4, <1>5, <1>6, <1>8, <1>9, SamePlace, GoOn DEF rows

LEMMA Reserved ==
  ASSUME CheckoutInv, NEW s \in Requests, reserve_budget(s) PROVE CheckoutInv'
<1> DEFINE i == work[s].item
<1>1. pc[s] = "reserve" /\ pc' = [pc EXCEPT ![s] = "order"] /\ "order" \in Steps
  BY DEF reserve_budget, Goto, Steps
<1>2. UNCHANGED <<now, rows>> /\ work' = [work EXCEPT ![s] = work[s]]
  BY DEF reserve_budget, CheckoutInv, TypeOK
<1>3. BudgetLock \in Resources /\ <<"budget", i>> \in Resources
  BY SamePlace DEF Resources
<1>4. PICK held \in SUBSET Resources :
        /\ locks' = [locks EXCEPT ![s] = held]
        /\ locks[s] \subseteq held /\ BudgetLock \in held
        /\ \A o \in Requests \ {s} : held \cap locks[o] = {}
  <2>1. CASE Take(s, BudgetLock)
    <3> DEFINE held == locks[s] \cup {BudgetLock}
    <3>1. held \in SUBSET Resources /\ locks' = [locks EXCEPT ![s] = held]
          /\ \A o \in Requests \ {s} : held \cap locks[o] = {}
      BY <1>3, <2>1, Taken
    <3> QED
      BY <3>1
  <2>2. CASE Free(s, BudgetLock) /\ locks' = [locks EXCEPT ![s] = @ \cup {BudgetLock, <<"budget", i>>}]
    <3> DEFINE held == locks[s] \cup {BudgetLock, <<"budget", i>>}
    <3>1. held \in SUBSET Resources /\ locks' = [locks EXCEPT ![s] = held]
      BY <1>3, <2>2, SamePlace DEF CheckoutInv, TypeOK
    <3>2. ASSUME NEW o \in Requests \ {s} PROVE held \cap locks[o] = {}
      <4>1. BudgetLock \notin locks[o]
        BY <2>2 DEF Free
      <4>2. <<"budget", i>> \notin locks[o]
        BY <4>1, SamePlace DEF CheckoutInv, SessionsOK, SessionOK
      <4> QED
        BY <4>1, <4>2, SamePlace
    <3> QED
      BY <3>1, <3>2
  <2> QED
    BY <2>1, <2>2 DEF reserve_budget
<1>5. SessionOK("order", work[s], held)
  BY <1>1, <1>4, SamePlace DEF SessionOK, Issuing
<1> QED
  <2> HIDE DEF CheckoutInv
  <2> QED
    BY <1>1, <1>2, <1>4, <1>5, SamePlace, GoOn DEF rows

LEMMA Ordered ==
  ASSUME CheckoutInv, NEW s \in Requests, create_order(s) PROVE CheckoutInv'
<1>1. PICK outcome \in OrderOutcomes : work' = [work EXCEPT ![s].outcome = outcome]
  BY DEF create_order
<1> DEFINE w == [work[s] EXCEPT !.outcome = outcome]
<1>2. outcome \in TransactionStatus /\ outcome # "AWAITING_CONSENT"
  BY <1>1 DEF OrderOutcomes, TransactionStatus
<1>3. w \in Work /\ w.item = work[s].item /\ w.outcome = outcome
  BY <1>2, SamePlace DEF Work
<1>4. work' = [work EXCEPT ![s] = w]
  BY <1>1 DEF CheckoutInv, TypeOK
<1>5. "commit" \in Steps /\ pc' = [pc EXCEPT ![s] = "commit"] /\ pc[s] = "order"
  BY DEF create_order, Goto, Steps
<1>6. SessionOK("commit", w, locks[s])
  <2> HIDE DEF w
  <2> QED
    BY <1>1, <1>2, <1>3, <1>5, SamePlace DEF SessionOK, Issuing
<1>7. UNCHANGED <<now, rows>> /\ locks' = [locks EXCEPT ![s] = locks[s]]
  BY DEF create_order, CheckoutInv, TypeOK
<1> QED
  <2> HIDE DEF w, CheckoutInv
  <2> QED
    BY <1>3, <1>4, <1>5, <1>6, <1>7, SamePlace, GoOn DEF rows

-----------------------------------------------------------------------------
(* A session ends: the others go on with what they know.                   *)

LEMMA SessionsEnd ==
  ASSUME CheckoutInv, NEW s \in Requests, EndRequest(s), now' = now,
         \A i \in Intents : consent[i].status # "NONE" => consent'[i].status # "NONE",
         \A i \in Intents :
           attempts'[i] = attempts[i] \/ \A o \in Requests \ {s} : <<"intent", i>> \notin locks[o]
  PROVE  /\ pc' \in [Requests -> Steps] /\ work' \in [Requests -> Work]
         /\ locks' \in [Requests -> SUBSET Resources]
         /\ SessionsOK' /\ Exclusive'
<1> USE DEF CheckoutInv
<1>1. /\ pc' = [pc EXCEPT ![s] = "idle"] /\ work' = [work EXCEPT ![s] = Blank]
      /\ locks' = [locks EXCEPT ![s] = {}]
  BY DEF EndRequest, Goto
<1>2. /\ pc' \in [Requests -> Steps] /\ work' \in [Requests -> Work]
      /\ locks' \in [Requests -> SUBSET Resources]
  BY <1>1, BlankIsWork DEF TypeOK, Work, Steps
<1>3. SessionsOK'
  <2> SUFFICES ASSUME NEW o \in Requests PROVE SessionOK(pc[o], work[o], locks[o])'
    BY DEF SessionsOK
  <2>1. CASE o = s
    <3>1. pc'[o] = "idle" /\ work'[o] = Blank /\ locks'[o] = {}
      BY <1>1, <2>1 DEF TypeOK
    <3> QED
      BY <3>1 DEF SessionOK, Issuing, Blank
  <2>2. CASE o # s
    <3>1. pc'[o] = pc[o] /\ work'[o] = work[o] /\ locks'[o] = locks[o]
      BY <1>1, <2>2 DEF TypeOK
    <3>2. work[o].item \in Intents /\ SessionOK(pc[o], work[o], locks[o])
      BY SamePlace
    <3>3. Issuing(pc[o], work[o]) => attempts'[work[o].item] = attempts[work[o].item]
      BY <2>2, <3>2 DEF SessionOK
    <3> QED
      BY <3>1, <3>2, <3>3 DEF SessionOK, Issuing, Live
  <2> QED
    BY <2>1, <2>2
<1>4. Exclusive'
  <2> SUFFICES ASSUME NEW p \in Requests, NEW o \in Requests \ {p} PROVE locks'[p] \cap locks'[o] = {}
    BY DEF Exclusive
  <2>1. /\ locks'[p] = {} \/ locks'[p] = locks[p]
        /\ locks'[o] = {} \/ locks'[o] = locks[o]
    BY <1>1 DEF TypeOK
  <2> QED
    BY <2>1 DEF Exclusive
<1> QED
  BY <1>2, <1>3, <1>4

LEMMA Raised ==
  ASSUME CheckoutInv, NEW s \in Requests, Raise(s) PROVE CheckoutInv'
<1>1. EndRequest(s) /\ UNCHANGED <<now, rows>>
  BY DEF Raise
<1>2. /\ pc' \in [Requests -> Steps] /\ work' \in [Requests -> Work]
      /\ locks' \in [Requests -> SUBSET Resources]
      /\ SessionsOK' /\ Exclusive'
  BY <1>1, SessionsEnd DEF rows
<1>3. TypeOK' /\ AttemptsOK' /\ ParkedWasAsked'
  BY <1>1, <1>2 DEF rows, CheckoutInv, TypeOK, AttemptsOK, ParkedWasAsked, Live, Work
<1> QED
  BY <1>2, <1>3 DEF CheckoutInv

LEMMA Decided ==
  ASSUME CheckoutInv, NEW s \in Requests, WriteDecision(s) PROVE CheckoutInv'
<1> DEFINE i == work[s].item
<1>1. /\ EndRequest(s) /\ consent' = [consent EXCEPT ![i].status = work[s].kind]
      /\ UNCHANGED <<now, intent, attempts, budget, mandates>> /\ pc[s] = "decide"
  BY DEF WriteDecision
<1>2. i \in Intents /\ work[s].kind \in {"APPROVED", "REJECTED"}
  BY <1>1, SamePlace DEF SessionOK
<1>3. \A j \in Intents : consent[j].status # "NONE" => consent'[j].status # "NONE"
  BY <1>1, <1>2 DEF CheckoutInv, TypeOK
<1>4. consent' \in [Intents -> [status : {"NONE", "PENDING", "APPROVED", "REJECTED"}, until : Nat]]
  <2> DEFINE Row == [status : {"NONE", "PENDING", "APPROVED", "REJECTED"}, until : Nat]
  <2>1. consent \in [Intents -> Row]
    BY DEF CheckoutInv, TypeOK
  <2>2. [consent[i] EXCEPT !.status = work[s].kind] \in Row
    BY <1>2, <2>1
  <2>3. consent' = [consent EXCEPT ![i] = [consent[i] EXCEPT !.status = work[s].kind]]
    BY <1>1
  <2> HIDE DEF Row
  <2>4. consent' \in [Intents -> Row]
    BY <1>2, <2>1, <2>2, <2>3
  <2> QED
    BY <2>4 DEF Row
<1>5. /\ pc' \in [Requests -> Steps] /\ work' \in [Requests -> Work]
      /\ locks' \in [Requests -> SUBSET Resources]
      /\ SessionsOK' /\ Exclusive'
  BY <1>1, <1>3, SessionsEnd
<1>6. TypeOK'
  BY <1>1, <1>4, <1>5 DEF CheckoutInv, TypeOK, Work
<1>7. AttemptsOK' /\ ParkedWasAsked'
  BY <1>1, <1>3 DEF CheckoutInv, AttemptsOK, ParkedWasAsked, Live
<1> QED
  BY <1>5, <1>6, <1>7 DEF CheckoutInv

LEMMA CancelledOne ==
  ASSUME CheckoutInv, NEW s \in Requests, WriteCancel(s) PROVE CheckoutInv'
<1> DEFINE i == work[s].item
<1>1. /\ EndRequest(s) /\ intent' = [intent EXCEPT ![i] = "CANCELLED"]
      /\ UNCHANGED <<now, consent, attempts, budget, mandates>>
  BY DEF WriteCancel
<1>2. "CANCELLED" \in TransactionStatus
  BY DEF TransactionStatus, TerminalStatuses
<1>3. /\ pc' \in [Requests -> Steps] /\ work' \in [Requests -> Work]
      /\ locks' \in [Requests -> SUBSET Resources]
      /\ SessionsOK' /\ Exclusive'
  BY <1>1, SessionsEnd
<1>4. TypeOK'
  BY <1>1, <1>2, <1>3 DEF CheckoutInv, TypeOK, Work
<1>5. AttemptsOK' /\ ParkedWasAsked'
  BY <1>1 DEF CheckoutInv, TypeOK, AttemptsOK, ParkedWasAsked, Live
<1> QED
  BY <1>3, <1>4, <1>5 DEF CheckoutInv

LEMMA AppendOne ==
  ASSUME NEW S, NEW q \in Seq(S), NEW e \in S
  PROVE  /\ Append(q, e) \in Seq(S) /\ Append(q, e)[Len(q) + 1] = e
         /\ \A k \in DOMAIN Append(q, e) : k = Len(q) + 1 \/ (k \in DOMAIN q /\ Append(q, e)[k] = q[k])
  OBVIOUS

\* A session that commits an attempt found no live one, and nobody else can
\* have made one meanwhile: it holds the intent row.
LEMMA Committed ==
  ASSUME CheckoutInv, NEW s \in Requests, CommitRequest(s) PROVE CheckoutInv'
<1> DEFINE w == work[s]
           i == w.item
           made == create_transaction(w)
<1>1. /\ EndRequest(s) /\ pc[s] = "commit" /\ UNCHANGED <<now, mandates>>
      /\ intent' = IF <<"intent", i>> \in locks[s] THEN [intent EXCEPT ![i] = w.outcome] ELSE intent
      /\ consent' = IF <<"consent", i>> \in locks[s]
                       THEN [consent EXCEPT ![i] = [status |-> "PENDING", until |-> w.until]] ELSE consent
      /\ attempts' = IF w.outcome \in OrderOutcomes
                        THEN [attempts EXCEPT ![i] = Append(attempts[i], made)] ELSE attempts
      /\ budget' = IF <<"budget", i>> \in locks[s]
                      THEN [budget EXCEPT ![i] = [status |-> "RESERVED", until |-> w.until]] ELSE budget
  BY DEF CommitRequest
<1>2. i \in Intents /\ w.outcome \in TransactionStatus /\ w.until \in Nat
  BY SamePlace DEF Work
<1>3. made \in [status : TransactionStatus, until : Nat] /\ made.status = w.outcome
  BY <1>2 DEF create_transaction
<1>4. consent' \in [Intents -> [status : {"NONE", "PENDING", "APPROVED", "REJECTED"}, until : Nat]]
  <2>1. [status |-> "PENDING", until |-> w.until] \in
          [status : {"NONE", "PENDING", "APPROVED", "REJECTED"}, until : Nat]
    BY <1>2
  <2> QED
    BY <1>1, <1>2, <2>1 DEF CheckoutInv, TypeOK
<1>5. \A j \in Intents : consent[j].status # "NONE" => consent'[j].status # "NONE"
  BY <1>1, <1>2 DEF CheckoutInv, TypeOK
<1>6. /\ intent' \in [Intents -> TransactionStatus]
      /\ budget' \in [Intents -> [status : {"NONE", "RESERVED", "SETTLED", "RELEASED"}, until : Nat]]
  BY <1>1, <1>2 DEF CheckoutInv, TypeOK
<1>7. attempts[i] \in Seq([status : TransactionStatus, until : Nat])
  BY <1>2 DEF CheckoutInv, TypeOK
<1>8. attempts' \in [Intents -> Seq([status : TransactionStatus, until : Nat])]
  <2>1. Append(attempts[i], made) \in Seq([status : TransactionStatus, until : Nat])
    BY <1>3, <1>7, AppendOne
  <2> QED
    BY <1>1, <1>2, <2>1 DEF CheckoutInv, TypeOK
<1>9. w.outcome \in OrderOutcomes =>
        /\ <<"intent", i>> \in locks[s]
        /\ \A k \in DOMAIN attempts[i] : ~Live(attempts[i][k])
  BY <1>1, SamePlace DEF SessionOK, Issuing
<1>10. \A j \in Intents :
         attempts'[j] = attempts[j] \/ \A o \in Requests \ {s} : <<"intent", j>> \notin locks[o]
  <2>1. w.outcome \in OrderOutcomes => \A o \in Requests \ {s} : <<"intent", i>> \notin locks[o]
    BY <1>9, SamePlace
  <2> QED
    BY <1>1, <1>2, <2>1 DEF CheckoutInv, TypeOK
<1>11. /\ pc' \in [Requests -> Steps] /\ work' \in [Requests -> Work]
       /\ locks' \in [Requests -> SUBSET Resources]
       /\ SessionsOK' /\ Exclusive'
  BY <1>1, <1>5, <1>10, SessionsEnd
<1>12. TypeOK'
  BY <1>1, <1>4, <1>6, <1>8, <1>11 DEF CheckoutInv, TypeOK, Work
<1>13. AttemptsOK'
  <2> SUFFICES ASSUME NEW j \in Intents
               PROVE  /\ \A k \in DOMAIN attempts'[j] :
                           attempts'[j][k].status \in OrderOutcomes \cup {"COMPLETED", "FAILED"}
                      /\ \A k, l \in DOMAIN attempts'[j] :
                           attempts'[j][k].until > now' /\ attempts'[j][l].until > now' => k = l
    BY DEF AttemptsOK, Live
  <2>1. CASE j = i /\ w.outcome \in OrderOutcomes
    <3>1. attempts'[j] = Append(attempts[i], made)
      BY <1>1, <1>2, <2>1 DEF CheckoutInv, TypeOK
    <3>2. \A k \in DOMAIN attempts'[j] :
            k = Len(attempts[i]) + 1 \/ (k \in DOMAIN attempts[i] /\ attempts'[j][k] = attempts[i][k])
      BY <3>1, <1>3, <1>7, AppendOne
    <3>3. attempts'[j][Len(attempts[i]) + 1] = made
      BY <3>1, <1>3, <1>7, AppendOne
    <3>4. \A k \in DOMAIN attempts'[j] : attempts'[j][k].until > now' => k = Len(attempts[i]) + 1
      BY <1>1, <1>9, <2>1, <3>2 DEF Live
    <3>5. \A k \in DOMAIN attempts[i] : attempts[i][k].status \in OrderOutcomes \cup {"COMPLETED", "FAILED"}
      BY <1>2 DEF CheckoutInv, AttemptsOK
    <3> QED
      BY <1>3, <2>1, <3>2, <3>3, <3>4, <3>5
  <2>2. CASE ~(j = i /\ w.outcome \in OrderOutcomes)
    <3>1. attempts'[j] = attempts[j]
      BY <1>1, <1>2, <2>2 DEF CheckoutInv, TypeOK
    <3> QED
      BY <1>1, <3>1 DEF CheckoutInv, AttemptsOK, Live
  <2> QED
    BY <2>1, <2>2
<1>14. ParkedWasAsked'
  <2> SUFFICES ASSUME NEW j \in Intents, intent'[j] = "AWAITING_CONSENT" PROVE consent'[j].status # "NONE"
    BY DEF ParkedWasAsked
  <2>1. CASE intent[j] = "AWAITING_CONSENT"
    BY <1>5, <2>1 DEF CheckoutInv, ParkedWasAsked
  <2>2. CASE intent[j] # "AWAITING_CONSENT"
    <3>1. j = i /\ w.outcome = "AWAITING_CONSENT"
      BY <1>1, <1>2, <2>2 DEF CheckoutInv, TypeOK
    <3>2. <<"consent", i>> \in locks[s] \/ consent[i].status # "NONE"
      BY <1>1, <3>1, SamePlace DEF SessionOK
    <3>3. <<"consent", i>> \in locks[s] => consent'[i].status # "NONE"
      BY <1>1, <1>2 DEF CheckoutInv, TypeOK
    <3> QED
      BY <1>2, <1>5, <3>1, <3>2, <3>3
  <2> QED
    BY <2>1, <2>2
<1> QED
  BY <1>11, <1>12, <1>13, <1>14 DEF CheckoutInv

-----------------------------------------------------------------------------
(* Steps of nobody's request: the sessions' steps, work and locks stay.    *)

LEMMA AttemptOfOne ==
  ASSUME TypeOK, NEW i \in Intents, NEW k \in DOMAIN attempts[i]
  PROVE  attempts[i][k] \in [status : TransactionStatus, until : Nat]
<1>1. attempts[i] \in Seq([status : TransactionStatus, until : Nat])
  BY DEF TypeOK
<1>2. ASSUME NEW S, NEW q \in Seq(S), NEW n \in DOMAIN q PROVE q[n] \in S
  BY <1>2
<1> QED
  BY <1>1, <1>2

LEMMA Beside ==
  ASSUME CheckoutInv, UNCHANGED <<locks, pc, work>>, now' = now \/ now' = now + 1,
         TypeOK', consent' = consent, attempts' = attempts,
         \A i \in Intents : intent'[i] = "AWAITING_CONSENT" => intent[i] = "AWAITING_CONSENT"
  PROVE  CheckoutInv'
<1> USE DEF CheckoutInv
<1>1. ASSUME NEW i \in Intents, NEW k \in DOMAIN attempts[i]
      PROVE  attempts[i][k].until > now' => attempts[i][k].until > now
  <2>1. attempts[i][k].until \in Nat /\ now \in Nat
    BY AttemptOfOne DEF TypeOK
  <2> QED
    BY <2>1
<1>2. SessionsOK'
  <2> SUFFICES ASSUME NEW o \in Requests PROVE SessionOK(pc[o], work[o], locks[o])'
    BY DEF SessionsOK
  <2>1. work[o].item \in Intents /\ SessionOK(pc[o], work[o], locks[o])
    BY SamePlace
  <2> QED
    BY <1>1, <2>1 DEF SessionOK, Issuing, Live
<1>3. Exclusive' /\ ParkedWasAsked'
  BY DEF Exclusive, ParkedWasAsked
<1>4. AttemptsOK'
  BY <1>1 DEF AttemptsOK, Live
<1> QED
  BY <1>2, <1>3, <1>4

LEMMA Ticked == ASSUME CheckoutInv, Tick PROVE CheckoutInv'
<1>1. now' \in Nat
  <2>1. now \in Nat
    BY DEF CheckoutInv, TypeOK
  <2> QED
    BY <2>1 DEF Tick
<1>2. TypeOK'
  BY <1>1 DEF Tick, rows, CheckoutInv, TypeOK
<1> QED
  BY <1>2, Beside DEF Tick, rows

LEMMA CancelledAll == ASSUME CheckoutInv, cancel_all_intents PROVE CheckoutInv'
<1>1. "CANCELLED" \in TransactionStatus
  BY DEF TransactionStatus, TerminalStatuses
<1>2. TypeOK'
  BY <1>1 DEF cancel_all_intents, CheckoutInv, TypeOK
<1>3. \A i \in Intents : intent'[i] = "AWAITING_CONSENT" => intent[i] = "AWAITING_CONSENT"
  BY DEF cancel_all_intents
<1> QED
  BY <1>2, <1>3, Beside DEF cancel_all_intents

LEMMA MandateMade ==
  ASSUME CheckoutInv, NEW t \in Terms, NEW until \in 0..MaxTime, create_mandate(t, until) PROVE CheckoutInv'
<1> DEFINE m == [largest |-> t.largest, daily |-> t.daily, covers |-> t.covers,
                 from |-> now, until |-> until, status |-> "APPROVED"]
<1>1. t \in Term
  BY CheckoutAssumption
<1>2. m \in Mandate
  BY <1>1 DEF Term, Mandate, CheckoutInv, TypeOK
<1>3. Append(mandates, m) \in Seq(Mandate)
  BY <1>2, AppendOne DEF CheckoutInv, TypeOK
<1>4. TypeOK'
  BY <1>3 DEF create_mandate, CheckoutInv, TypeOK
<1> QED
  BY <1>4, Beside DEF create_mandate

LEMMA MandateRevoked ==
  ASSUME CheckoutInv, NEW k \in DOMAIN mandates, revoke_mandate(k) PROVE CheckoutInv'
<1> DEFINE m == [mandates[k] EXCEPT !.status = "REJECTED"]
<1>1. m \in Mandate
  BY MandateOfOne DEF Mandate, CheckoutInv
<1>2. [mandates EXCEPT ![k] = m] \in Seq(Mandate)
  <2>1. ASSUME NEW S, NEW q \in Seq(S), NEW n \in DOMAIN q, NEW e \in S PROVE [q EXCEPT ![n] = e] \in Seq(S)
    BY <2>1
  <2> QED
    BY <1>1, <2>1 DEF CheckoutInv, TypeOK
<1>3. mandates' = [mandates EXCEPT ![k] = m]
  BY DEF revoke_mandate
<1>4. TypeOK'
  BY <1>2, <1>3 DEF revoke_mandate, CheckoutInv, TypeOK
<1> QED
  BY <1>4, Beside DEF revoke_mandate

\* An attempt ends: its status and the reservation change, its lifetime stays.
LEMMA EndedOne ==
  ASSUME CheckoutInv, NEW i \in Intents, NEW k \in DOMAIN attempts[i], NEW outcome \in {"COMPLETED", "FAILED"},
         transition_transaction(i, k, outcome),
         UNCHANGED <<now, consent, mandates, locks, pc, work>>,
         intent' = intent \/ intent' = [intent EXCEPT ![i] = outcome]
  PROVE  CheckoutInv'
<1> USE DEF CheckoutInv
<1>1. attempts' = [attempts EXCEPT ![i][k].status = outcome]
  BY DEF transition_transaction
<1> DEFINE a == [attempts[i][k] EXCEPT !.status = outcome]
<1>2. outcome \in TransactionStatus
  BY DEF TransactionStatus, TerminalStatuses
<1>3. a \in [status : TransactionStatus, until : Nat] /\ a.until = attempts[i][k].until /\ a.status = outcome
  BY <1>1, <1>2, AttemptOfOne
<1>4. attempts' = [attempts EXCEPT ![i] = [attempts[i] EXCEPT ![k] = a]]
  BY <1>1 DEF TypeOK
<1>5. [attempts[i] EXCEPT ![k] = a] \in Seq([status : TransactionStatus, until : Nat])
  <2>1. attempts[i] \in Seq([status : TransactionStatus, until : Nat])
    BY DEF TypeOK
  <2>2. ASSUME NEW S, NEW q \in Seq(S), NEW n \in DOMAIN q, NEW e \in S PROVE [q EXCEPT ![n] = e] \in Seq(S)
    BY <2>2
  <2> HIDE DEF a
  <2> QED
    BY <1>1, <1>3, <2>1, <2>2
<1>6. budget' = [budget EXCEPT ![i].status =
                   IF @ # "RESERVED" THEN @
                   ELSE IF outcome = "COMPLETED" THEN "SETTLED" ELSE "RELEASED"]
  BY DEF transition_transaction
<1>7. attempts' \in [Intents -> Seq([status : TransactionStatus, until : Nat])]
  <2> HIDE DEF a
  <2> QED
    BY <1>4, <1>5 DEF TypeOK
<1>8. budget' \in [Intents -> [status : {"NONE", "RESERVED", "SETTLED", "RELEASED"}, until : Nat]]
  <2> DEFINE b == [budget[i] EXCEPT !.status =
                     IF @ # "RESERVED" THEN @ ELSE IF outcome = "COMPLETED" THEN "SETTLED" ELSE "RELEASED"]
             Hold == [status : {"NONE", "RESERVED", "SETTLED", "RELEASED"}, until : Nat]
  <2>1. budget \in [Intents -> Hold]
    BY DEF TypeOK
  <2>2. b \in Hold
    BY <2>1
  <2>3. budget' = [budget EXCEPT ![i] = b]
    BY <1>6
  <2> HIDE DEF b, Hold
  <2>4. budget' \in [Intents -> Hold]
    BY <2>1, <2>2, <2>3
  <2> QED
    BY <2>4 DEF Hold
<1>9. TypeOK'
  <2>1. intent' \in [Intents -> TransactionStatus]
    BY <1>2 DEF TypeOK
  <2> HIDE DEF a
  <2> QED
    BY <1>7, <1>8, <2>1 DEF TypeOK
<1>10. \A j \in Intents : j # i => attempts'[j] = attempts[j]
  BY <1>4 DEF TypeOK
<1>11. /\ DOMAIN attempts'[i] = DOMAIN attempts[i]
       /\ \A l \in DOMAIN attempts[i] :
            attempts'[i][l] = IF l = k THEN a ELSE attempts[i][l]
  <2> HIDE DEF a
  <2>1. attempts'[i] = [attempts[i] EXCEPT ![k] = a]
    BY <1>4 DEF TypeOK
  <2> QED
    BY <1>1, <2>1
<1>12. \A j \in Intents : /\ DOMAIN attempts'[j] = DOMAIN attempts[j]
                          /\ \A n \in DOMAIN attempts[j] : attempts'[j][n].until = attempts[j][n].until
  BY <1>3, <1>10, <1>11
<1>13. SessionsOK'
  <2> SUFFICES ASSUME NEW o \in Requests PROVE SessionOK(pc[o], work[o], locks[o])'
    BY DEF SessionsOK
  <2>1. work[o].item \in Intents /\ SessionOK(pc[o], work[o], locks[o])
    BY SamePlace
  <2> HIDE DEF a
  <2> QED
    BY <1>12, <2>1 DEF SessionOK, Issuing, Live
<1>14. Exclusive' /\ ParkedWasAsked'
  BY DEF Exclusive, ParkedWasAsked, TypeOK
<1>15. AttemptsOK'
  <2> SUFFICES ASSUME NEW j \in Intents
               PROVE  /\ \A n \in DOMAIN attempts'[j] :
                           attempts'[j][n].status \in OrderOutcomes \cup {"COMPLETED", "FAILED"}
                      /\ \A n, l \in DOMAIN attempts'[j] :
                           attempts'[j][n].until > now' /\ attempts'[j][l].until > now' => n = l
    BY DEF AttemptsOK, Live
  <2>1. CASE j = i
    <3>1. \A n \in DOMAIN attempts[i] : attempts'[i][n].until = attempts[i][n].until
      BY <1>3, <1>11
    <3>2. \A n \in DOMAIN attempts[i] : attempts'[i][n].status \in {outcome, attempts[i][n].status}
      BY <1>3, <1>11
    <3> QED
      BY <1>11, <2>1, <3>1, <3>2 DEF AttemptsOK, Live
  <2>2. CASE j # i
    BY <1>10, <2>2 DEF AttemptsOK, Live
  <2> QED
    BY <2>1, <2>2
<1> QED
  BY <1>9, <1>13, <1>14, <1>15

LEMMA SettledOne ==
  ASSUME CheckoutInv, NEW i \in Intents, NEW outcome \in {"COMPLETED", "FAILED"},
         SettleAttempt(i, outcome) \/ reconcile_unknown_payment(i, outcome)
  PROVE  CheckoutInv'
<1>1. CASE SettleAttempt(i, outcome)
  BY <1>1, EndedOne DEF SettleAttempt
<1>2. CASE reconcile_unknown_payment(i, outcome)
  BY <1>2, EndedOne DEF reconcile_unknown_payment
<1> QED
  BY <1>1, <1>2

-----------------------------------------------------------------------------
LEMMA ArriveKeeps ==
  ASSUME CheckoutInv, NEW s \in Requests, NEW i \in Intents, Arrive(s, i) PROVE CheckoutInv'
<1>1. {"checkout", "request", "APPROVED", "REJECTED", "cancel"} = Kinds
  BY DEF Kinds
<1>2. {"consent", "approve", "decide", "cancel"} \subseteq Steps
  BY DEF Steps
<1> HIDE DEF CheckoutInv
<1>3. CASE validate_intent_for_execution(s, i)
  <2> DEFINE step == IF i \in NeedsConsent THEN "consent" ELSE "approve"
  <2>1. Open(s, "checkout", i, step) /\ UNCHANGED <<now, rows, locks>>
    BY <1>3 DEF validate_intent_for_execution
  <2>2. step \in {"consent", "approve"}
    OBVIOUS
  <2> HIDE DEF step
  <2> QED
    BY <1>1, <1>2, <2>1, <2>2, Opened
<1>4. CASE request_consent_route(s, i)
  BY <1>1, <1>2, <1>4, Opened DEF request_consent_route
<1>5. CASE approve_consent(s, i)
  BY <1>1, <1>2, <1>5, Opened DEF approve_consent
<1>6. CASE reject_consent(s, i)
  BY <1>1, <1>2, <1>6, Opened DEF reject_consent
<1>7. CASE cancel_intent(s, i)
  BY <1>1, <1>2, <1>7, Opened DEF cancel_intent
<1> QED
  BY <1>3, <1>4, <1>5, <1>6, <1>7 DEF Arrive

LEMMA CheckoutStep == CheckoutInv /\ [Next]_vars => CheckoutInv'
<1> SUFFICES ASSUME CheckoutInv, [Next]_vars PROVE CheckoutInv'
  OBVIOUS
<1>1. ASSUME NEW s \in Requests, NEW i \in Intents, Arrive(s, i) PROVE CheckoutInv'
  BY <1>1, ArriveKeeps
<1>2. ASSUME NEW s \in Requests, RequestStep(s) PROVE CheckoutInv'
  BY <1>2, RequestConsent, AskConsent, Parked, Approved, Issued, Reserved, Ordered, Committed,
     Decided, CancelledOne DEF RequestStep
<1>3. ASSUME NEW s \in Requests, Raise(s) PROVE CheckoutInv'
  BY <1>3, Raised
<1>4. ASSUME NEW i \in Intents, NEW outcome \in {"COMPLETED", "FAILED"},
             SettleAttempt(i, outcome) \/ reconcile_unknown_payment(i, outcome)
      PROVE  CheckoutInv'
  BY <1>4, SettledOne
<1>5. CASE UNCHANGED vars
  BY <1>5 DEF vars, rows, CheckoutInv, TypeOK, SessionsOK, SessionOK, Issuing, Exclusive, AttemptsOK,
              ParkedWasAsked, Live
<1> QED
  BY <1>1, <1>2, <1>3, <1>4, <1>5, CancelledAll, MandateMade, MandateRevoked, Ticked DEF Next

LEMMA CheckoutInvariant == Spec => []CheckoutInv
  BY CheckoutInit, CheckoutStep, PTL DEF Spec

\* Every row, lock and request keeps the shape its table or object gives it.
THEOREM CheckoutTypes == Spec => []TypeOK
<1>1. CheckoutInv => TypeOK
  BY DEF CheckoutInv
<1> QED
  BY <1>1, CheckoutInvariant, PTL

\* No intent waits for a consent nobody was asked for.
THEOREM ConsentWasAsked == Spec => []ParkedWasAsked
<1>1. CheckoutInv => ParkedWasAsked
  BY DEF CheckoutInv
<1> QED
  BY <1>1, CheckoutInvariant, PTL

\* At most one element, at most 1.
LEMMA AtMostOne ==
  ASSUME NEW S, \A x, y \in S : x = y
  PROVE  Cardinality(S) = 0 \/ Cardinality(S) = 1
<1>1. CASE S = {}
  BY <1>1, FS_EmptySet
<1>2. CASE S # {}
  <2>1. PICK x \in S : TRUE
    BY <1>2
  <2>2. S = {x}
    BY <2>1
  <2>3. Cardinality({x}) = 1
    BY FS_Singleton
  <2> QED
    BY <2>2, <2>3
<1> QED
  BY <1>1, <1>2

\* Two sessions never issue a capability for one intent, nor one session beside
\* a live capability: the lock of the intent row is taken before the look for a
\* live one and kept until the commit.
THEOREM OneCapabilityAtATime == Spec => []OneLiveCapability
<1>1. ASSUME CheckoutInv, NEW i \in Intents
      PROVE  LET uncommitted == {s \in Requests : work[s].item = i /\ Issuing(pc[s], work[s])
                                                    /\ work[s].until > now}
             IN  Cardinality(uncommitted)
                   + Cardinality({k \in DOMAIN attempts[i] : Live(attempts[i][k])}) <= 1
  <2> DEFINE U == {s \in Requests : work[s].item = i /\ Issuing(pc[s], work[s])
                                      /\ work[s].until > now}
             L == {k \in DOMAIN attempts[i] : Live(attempts[i][k])}
  <2>1. \A s \in U : <<"intent", i>> \in locks[s] /\ \A k \in DOMAIN attempts[i] : ~Live(attempts[i][k])
    BY <1>1, SamePlace DEF SessionOK
  <2>2. \A s, o \in U : s = o
    BY <1>1, <2>1 DEF CheckoutInv, Exclusive
  <2>3. \A k, l \in L : k = l
    BY <1>1 DEF CheckoutInv, AttemptsOK
  <2>4. Cardinality(U) = 0 \/ Cardinality(U) = 1
    BY <2>2, AtMostOne
  <2>5. Cardinality(L) = 0 \/ Cardinality(L) = 1
    BY <2>3, AtMostOne
  <2>6. U = {} \/ L = {}
    BY <2>1
  <2>7. Cardinality(U) = 0 \/ Cardinality(L) = 0
    BY <2>6, FS_EmptySet
  <2> HIDE DEF U, L
  <2>8. Cardinality(U) + Cardinality(L) <= 1
    BY <2>4, <2>5, <2>7
  <2> QED
    BY <2>8 DEF U, L
<1>2. CheckoutInv => OneLiveCapability
  BY <1>1 DEF OneLiveCapability
<1> QED
  BY <1>2, CheckoutInvariant, PTL

-----------------------------------------------------------------------------
(* Why nothing is reserved after a settlement: an attempt is made on a     *)
(* reservation, and a settlement ends the reservation for good.            *)

\* A session whose reservation is made and whose attempt has not committed.
BudgetOK(s) ==
  /\ Ordering(s) =>
       /\ BudgetLock \in locks[s]
       /\ budget[work[s].item].status = "NONE" <=> <<"budget", work[s].item>> \in locks[s]
  /\ \A i \in Intents : <<"budget", i>> \in locks[s] => Ordering(s)

AttemptsReserved ==
  \A i \in Intents :
    /\ attempts[i] # <<>> => budget[i].status # "NONE"
    /\ (\E k \in DOMAIN attempts[i] : attempts[i][k].status \in TerminalStatuses)
         => budget[i].status \in {"SETTLED", "RELEASED"}

BudgetInv == AttemptsReserved /\ \A s \in Requests : BudgetOK(s)

LEMMA OnlyOwn ==
  ASSUME TypeOK, NEW s \in Requests, NEW o \in Requests, o # s,
         RequestStep(s) \/ Raise(s) \/ \E i \in Intents : Arrive(s, i)
  PROVE  pc'[o] = pc[o] /\ work'[o] = work[o] /\ locks'[o] = locks[o]
<1> USE DEF TypeOK
<1>1. CASE \E i \in Intents : Arrive(s, i)
  BY <1>1 DEF Arrive, validate_intent_for_execution, request_consent_route, approve_consent, reject_consent,
              cancel_intent, Open, Goto
<1>2. CASE Raise(s)
  BY <1>2 DEF Raise, EndRequest, Goto
<1>3. CASE request_consent(s) \/ InsertConsent(s) \/ ParkIntent(s) \/ ApproveIntent(s)
  BY <1>3 DEF request_consent, InsertConsent, ParkIntent, ApproveIntent, Take, Goto
<1>4. CASE issue_capability(s) \/ reserve_budget(s) \/ create_order(s)
  BY <1>4 DEF issue_capability, reserve_budget, create_order, Take, Goto
<1>5. CASE CommitRequest(s) \/ WriteDecision(s) \/ WriteCancel(s)
  BY <1>5 DEF CommitRequest, WriteDecision, WriteCancel, EndRequest, Goto
<1> QED
  BY <1>1, <1>2, <1>3, <1>4, <1>5 DEF RequestStep

\* A step of a session that leaves attempts and budget alone.
LEMMA BudgetGoesOn ==
  ASSUME CheckoutInv, BudgetInv, NEW s \in Requests,
         RequestStep(s) \/ Raise(s) \/ \E i \in Intents : Arrive(s, i),
         attempts' = attempts, budget' = budget, BudgetOK(s)'
  PROVE  BudgetInv'
<1>1. AttemptsReserved'
  BY DEF BudgetInv, AttemptsReserved
<1>2. ASSUME NEW o \in Requests PROVE BudgetOK(o)'
  <2>1. CASE o # s
    <3>1. pc'[o] = pc[o] /\ work'[o] = work[o] /\ locks'[o] = locks[o]
      BY <2>1, OnlyOwn DEF CheckoutInv
    <3> QED
      BY <3>1 DEF BudgetInv, BudgetOK, Ordering
  <2> QED
    BY <2>1
<1> QED
  BY <1>1, <1>2 DEF BudgetInv

LEMMA BudgetArrives ==
  ASSUME CheckoutInv, BudgetInv, NEW s \in Requests, NEW i \in Intents, Arrive(s, i) PROVE BudgetInv'
<1>1. /\ \E kind, step : Open(s, kind, i, step) /\ step \in {"consent", "approve", "decide", "cancel"}
      /\ UNCHANGED <<now, rows, locks>>
  BY DEF Arrive, validate_intent_for_execution, request_consent_route, approve_consent, reject_consent,
         cancel_intent
<1>2. pc[s] = "idle" /\ pc'[s] \in {"consent", "approve", "decide", "cancel"}
  BY <1>1 DEF Open, Goto, CheckoutInv, TypeOK
<1>3. BudgetOK(s)'
  BY <1>1, <1>2 DEF BudgetInv, BudgetOK, Ordering
<1> QED
  BY <1>1, <1>3, BudgetGoesOn DEF rows

LEMMA BudgetEnds ==
  ASSUME CheckoutInv, BudgetInv, NEW s \in Requests, Raise(s) \/ WriteDecision(s) \/ WriteCancel(s)
  PROVE  BudgetInv'
<1>1. EndRequest(s) /\ attempts' = attempts /\ budget' = budget
  BY DEF Raise, WriteDecision, WriteCancel, rows
<1>2. BudgetOK(s)'
  BY <1>1 DEF EndRequest, Goto, BudgetOK, Ordering, CheckoutInv, TypeOK
<1> QED
  BY <1>1, <1>2, BudgetGoesOn DEF RequestStep

\* Until it has reserved, a session has no order to make.
LEMMA BeforeOrdering ==
  ASSUME CheckoutInv, NEW s \in Requests,
         request_consent(s) \/ InsertConsent(s) \/ ParkIntent(s) \/ ApproveIntent(s) \/ issue_capability(s)
  PROVE  ~Ordering(s)'
<1>1. CASE request_consent(s)
  <2>1. pc'[s] # "order" /\ work'[s].outcome = "POLICY_APPROVED"
    BY <1>1, SamePlace DEF request_consent, Goto, AfterConsent, CheckoutInv, TypeOK, SessionOK
  <2> QED
    BY <2>1 DEF Ordering, OrderOutcomes
<1>2. CASE InsertConsent(s)
  <2>1. pc'[s] # "order" /\ work[s].outcome = "POLICY_APPROVED" /\ work[s] \in Work
    <3>1. pc'[s] # "order"
      BY <1>2 DEF InsertConsent, Goto, AfterConsent, CheckoutInv, TypeOK
    <3>2. pc[s] = "ask"
      BY <1>2 DEF InsertConsent
    <3> QED
      BY <3>1, <3>2, SamePlace DEF SessionOK
  <2>2. work'[s] = [work[s] EXCEPT !.until = now + ConsentTTL]
    BY <1>2 DEF InsertConsent, CheckoutInv, TypeOK
  <2>3. work'[s].outcome = "POLICY_APPROVED"
    BY <2>1, <2>2 DEF Work
  <2> QED
    BY <2>1, <2>3 DEF Ordering, OrderOutcomes
<1>3. CASE ParkIntent(s)
  <2>1. pc'[s] = "commit" /\ work'[s].outcome = "AWAITING_CONSENT"
    BY <1>3 DEF ParkIntent, Goto, CheckoutInv, TypeOK
  <2> QED
    BY <2>1 DEF Ordering, OrderOutcomes
<1>4. CASE ApproveIntent(s) \/ issue_capability(s)
  <2>1. pc'[s] \in {"issue", "reserve"}
    BY <1>4 DEF ApproveIntent, issue_capability, Goto, CheckoutInv, TypeOK
  <2> QED
    BY <2>1 DEF Ordering
<1> QED
  BY <1>1, <1>2, <1>3, <1>4

LEMMA BudgetBefore ==
  ASSUME CheckoutInv, BudgetInv, NEW s \in Requests,
         request_consent(s) \/ InsertConsent(s) \/ ParkIntent(s) \/ ApproveIntent(s) \/ issue_capability(s)
  PROVE  BudgetInv'
<1>1. /\ attempts' = attempts /\ budget' = budget
      /\ pc[s] \in {"consent", "ask", "park", "approve", "issue"}
  BY DEF request_consent, InsertConsent, ParkIntent, ApproveIntent, issue_capability, rows
<1>2. \A i \in Intents : <<"budget", i>> \notin locks[s]
  BY <1>1 DEF BudgetInv, BudgetOK, Ordering
<1>3. \A i \in Intents : <<"budget", i>> \notin locks'[s]
  <2>1. CASE request_consent(s) \/ issue_capability(s)
    BY <1>2, <2>1 DEF request_consent, issue_capability
  <2>2. CASE InsertConsent(s)
    BY <1>2, <2>2 DEF InsertConsent, Take, CheckoutInv, TypeOK
  <2>3. CASE ParkIntent(s)
    BY <1>2, <2>3 DEF ParkIntent, Take, CheckoutInv, TypeOK
  <2>4. CASE ApproveIntent(s)
    BY <1>2, <2>4 DEF ApproveIntent, Take, CheckoutInv, TypeOK
  <2> QED
    BY <2>1, <2>2, <2>3, <2>4
<1>4. ~Ordering(s)'
  BY BeforeOrdering
<1>5. BudgetOK(s)'
  BY <1>3, <1>4 DEF BudgetOK
<1> QED
  BY <1>1, <1>5, BudgetGoesOn DEF RequestStep

LEMMA BudgetOrders ==
  ASSUME CheckoutInv, BudgetInv, NEW s \in Requests, reserve_budget(s) \/ create_order(s) PROVE BudgetInv'
<1>1. CASE reserve_budget(s)
  <2> DEFINE i == work[s].item
  <2>1. /\ attempts' = attempts /\ budget' = budget /\ work' = work
        /\ pc[s] = "reserve" /\ pc'[s] = "order" /\ i \in Intents
    BY <1>1, SamePlace DEF reserve_budget, rows, Goto, CheckoutInv, TypeOK
  <2>2. /\ BudgetLock \in locks'[s]
        /\ budget[i].status = "NONE" <=> <<"budget", i>> \in locks'[s]
    <3>1. <<"budget", i>> \notin locks[s] /\ <<"budget", i>> # BudgetLock
      BY <2>1 DEF BudgetInv, BudgetOK, Ordering, BudgetLock
    <3>2. CASE budget[i].status = "RESERVED" /\ Take(s, BudgetLock)
      <4>1. locks'[s] = locks[s] \cup {BudgetLock}
        BY <3>2 DEF Take, CheckoutInv, TypeOK
      <4> QED
        BY <3>1, <3>2, <4>1
    <3>3. CASE budget[i].status = "NONE" /\ locks' = [locks EXCEPT ![s] = @ \cup {BudgetLock, <<"budget", i>>}]
      <4>1. locks'[s] = locks[s] \cup {BudgetLock, <<"budget", i>>}
        BY <3>3 DEF CheckoutInv, TypeOK
      <4> QED
        BY <3>3, <4>1
    <3> QED
      BY <1>1, <3>2, <3>3 DEF reserve_budget
  <2>3. BudgetOK(s)'
    BY <2>1, <2>2 DEF BudgetOK, Ordering
  <2> QED
    BY <1>1, <2>1, <2>3, BudgetGoesOn DEF RequestStep
<1>2. CASE create_order(s)
  <2>1. PICK outcome \in OrderOutcomes : work' = [work EXCEPT ![s].outcome = outcome]
    BY <1>2 DEF create_order
  <2>2. work'[s].item = work[s].item /\ work'[s].outcome = outcome
    <3>1. work'[s] = [work[s] EXCEPT !.outcome = outcome]
      BY <2>1 DEF CheckoutInv, TypeOK
    <3> QED
      BY <3>1, SamePlace DEF Work
  <2>3. /\ attempts' = attempts /\ budget' = budget /\ locks' = locks
        /\ pc[s] = "order" /\ pc'[s] = "commit"
    BY <1>2 DEF create_order, rows, Goto, CheckoutInv, TypeOK
  <2>4. BudgetOK(s)'
    BY <2>1, <2>2, <2>3 DEF BudgetInv, BudgetOK, Ordering
  <2> QED
    BY <1>2, <2>3, <2>4, BudgetGoesOn DEF RequestStep
<1> QED
  BY <1>1, <1>2

\* The attempt that brings the reservation is the intent's first one.
LEMMA BudgetCommits ==
  ASSUME CheckoutInv, BudgetInv, NEW s \in Requests, CommitRequest(s) PROVE BudgetInv'
<1> DEFINE w == work[s]
           i == w.item
           made == create_transaction(w)
<1>1. /\ EndRequest(s) /\ pc[s] = "commit" /\ now' = now
      /\ attempts' = IF w.outcome \in OrderOutcomes
                        THEN [attempts EXCEPT ![i] = Append(attempts[i], made)] ELSE attempts
      /\ budget' = IF <<"budget", i>> \in locks[s]
                      THEN [budget EXCEPT ![i] = [status |-> "RESERVED", until |-> w.until]] ELSE budget
  BY DEF CommitRequest
<1>2. i \in Intents /\ w.outcome \in TransactionStatus /\ w.until \in Nat
  BY SamePlace DEF Work
<1>3. Ordering(s) <=> w.outcome \in OrderOutcomes
  BY <1>1 DEF Ordering
<1>4. Ordering(s) =>
        /\ <<"intent", i>> \in locks[s]
        /\ budget[i].status = "NONE" <=> <<"budget", i>> \in locks[s]
        /\ budget'[i] = IF budget[i].status = "NONE" THEN [status |-> "RESERVED", until |-> w.until]
                                                     ELSE budget[i]
  <2>1. Ordering(s) => <<"intent", i>> \in locks[s]
    BY <1>1, <1>3, SamePlace DEF SessionOK, Issuing
  <2>2. Ordering(s) => (budget[i].status = "NONE" <=> <<"budget", i>> \in locks[s])
    BY DEF BudgetInv, BudgetOK
  <2> QED
    BY <1>1, <1>2, <2>1, <2>2 DEF CheckoutInv, TypeOK
<1>5. ~Ordering(s) => attempts' = attempts /\ budget' = budget
  BY <1>1, <1>2, <1>3 DEF BudgetInv, BudgetOK
<1>6. \A j \in Intents : j # i => attempts'[j] = attempts[j] /\ budget'[j] = budget[j]
  BY <1>1, <1>2 DEF CheckoutInv, TypeOK
<1>7. ASSUME Ordering(s), NEW k \in DOMAIN attempts'[i], attempts'[i][k].status \in TerminalStatuses
      PROVE  k \in DOMAIN attempts[i] /\ attempts[i][k].status \in TerminalStatuses
  <2>1. attempts'[i] = Append(attempts[i], made)
    BY <1>1, <1>2, <1>3, <1>7 DEF CheckoutInv, TypeOK
  <2>2. attempts[i] \in Seq([status : TransactionStatus, until : Nat])
    BY <1>2 DEF CheckoutInv, TypeOK
  <2>3. made \in [status : TransactionStatus, until : Nat] /\ made.status = w.outcome
    BY <1>2 DEF create_transaction
  <2>4. attempts'[i][k] = made \/ (k \in DOMAIN attempts[i] /\ attempts'[i][k] = attempts[i][k])
    BY <1>7, <2>1, <2>2, <2>3, AppendOne
  <2>5. made.status \notin TerminalStatuses
    BY <1>3, <1>7, <2>3 DEF OrderOutcomes, TerminalStatuses
  <2> QED
    BY <1>7, <2>4, <2>5
<1>9. AttemptsReserved'
  <2> SUFFICES ASSUME NEW j \in Intents
               PROVE  /\ attempts'[j] # <<>> => budget'[j].status # "NONE"
                      /\ (\E k \in DOMAIN attempts'[j] : attempts'[j][k].status \in TerminalStatuses)
                           => budget'[j].status \in {"SETTLED", "RELEASED"}
    BY DEF AttemptsReserved
  <2>1. CASE j = i /\ Ordering(s)
    <3>1. budget'[i].status # "NONE"
      BY <1>4, <2>1
    <3>2. (\E k \in DOMAIN attempts'[i] : attempts'[i][k].status \in TerminalStatuses)
            => budget[i].status \in {"SETTLED", "RELEASED"}
      BY <1>2, <1>7, <2>1 DEF BudgetInv, AttemptsReserved
    <3> QED
      BY <1>4, <2>1, <3>1, <3>2
  <2>2. CASE j # i \/ ~Ordering(s)
    BY <1>5, <1>6, <2>2 DEF BudgetInv, AttemptsReserved
  <2> QED
    BY <2>1, <2>2
<1>10. ASSUME NEW o \in Requests PROVE BudgetOK(o)'
  <2>1. CASE o = s
    BY <1>1, <2>1 DEF EndRequest, Goto, BudgetOK, Ordering, CheckoutInv, TypeOK
  <2>2. CASE o # s
    <3>1. pc'[o] = pc[o] /\ work'[o] = work[o] /\ locks'[o] = locks[o]
      BY <2>2, OnlyOwn DEF RequestStep, CheckoutInv
    <3>2. BudgetOK(o) /\ work[o].item \in Intents
      BY SamePlace DEF BudgetInv
    <3>3. Ordering(o) => <<"intent", work[o].item>> \in locks[o]
      BY SamePlace DEF Ordering, SessionOK, Issuing
    <3>4. Ordering(o) => budget'[work[o].item] = budget[work[o].item]
      BY <1>4, <1>5, <1>6, <2>2, <3>2, <3>3, SamePlace
    <3> QED
      BY <3>1, <3>2, <3>4 DEF BudgetOK, Ordering
  <2> QED
    BY <2>1, <2>2
<1> QED
  BY <1>9, <1>10 DEF BudgetInv

\* What a settlement changes of attempts and reservations.
LEMMA Settling ==
  ASSUME TypeOK, NEW i \in Intents, NEW outcome \in {"COMPLETED", "FAILED"},
         SettleAttempt(i, outcome) \/ reconcile_unknown_payment(i, outcome)
  PROVE  /\ UNCHANGED <<now, mandates, locks, pc, work>>
         /\ \A j \in Intents : j # i => attempts'[j] = attempts[j] /\ budget'[j] = budget[j]
         /\ attempts[i] # <<>> /\ DOMAIN attempts'[i] = DOMAIN attempts[i]
         /\ \A n \in DOMAIN attempts[i] : attempts'[i][n].until = attempts[i][n].until
         /\ budget'[i].until = budget[i].until
         /\ budget'[i].status = IF budget[i].status # "RESERVED" THEN budget[i].status
                                ELSE IF outcome = "COMPLETED" THEN "SETTLED" ELSE "RELEASED"
<1>1. UNCHANGED <<now, mandates, locks, pc, work>>
  BY DEF SettleAttempt, reconcile_unknown_payment
<1>2. PICK k \in DOMAIN attempts[i] : transition_transaction(i, k, outcome)
  BY DEF SettleAttempt, reconcile_unknown_payment
<1>3. \A j \in Intents : j # i => attempts'[j] = attempts[j] /\ budget'[j] = budget[j]
  BY <1>2 DEF transition_transaction, TypeOK
<1>4. /\ budget'[i].until = budget[i].until
      /\ budget'[i].status = IF budget[i].status # "RESERVED" THEN budget[i].status
                             ELSE IF outcome = "COMPLETED" THEN "SETTLED" ELSE "RELEASED"
  BY <1>2 DEF transition_transaction, TypeOK
<1>5. attempts'[i] = [attempts[i] EXCEPT ![k] = [attempts[i][k] EXCEPT !.status = outcome]]
  BY <1>2 DEF transition_transaction, TypeOK
<1>6. DOMAIN attempts'[i] = DOMAIN attempts[i]
      /\ \A n \in DOMAIN attempts[i] : attempts'[i][n].until = attempts[i][n].until
  <2>1. attempts[i][k] \in [status : TransactionStatus, until : Nat]
    BY <1>2, AttemptOfOne
  <2>2. [attempts[i][k] EXCEPT !.status = outcome].until = attempts[i][k].until
    BY <2>1
  <2> QED
    BY <1>2, <1>5, <2>2
<1>7. attempts[i] # <<>>
  BY <1>2
<1> QED
  BY <1>1, <1>3, <1>4, <1>6, <1>7

LEMMA BudgetSettles ==
  ASSUME CheckoutInv, BudgetInv, NEW i \in Intents, NEW outcome \in {"COMPLETED", "FAILED"},
         SettleAttempt(i, outcome) \/ reconcile_unknown_payment(i, outcome)
  PROVE  BudgetInv'
<1>1. budget'[i].status \in {"SETTLED", "RELEASED"} /\ budget[i].status # "NONE"
  <2>1. budget[i].status \in {"RESERVED", "SETTLED", "RELEASED"}
    BY Settling DEF BudgetInv, AttemptsReserved, CheckoutInv, TypeOK
  <2> QED
    BY <2>1, Settling DEF CheckoutInv
<1>2. \A j \in Intents : j # i => attempts'[j] = attempts[j] /\ budget'[j] = budget[j]
  BY Settling DEF CheckoutInv
<1>3. AttemptsReserved'
  BY <1>1, <1>2 DEF BudgetInv, AttemptsReserved
<1>4. \A j \in Intents : budget'[j].status = "NONE" <=> budget[j].status = "NONE"
  BY <1>1, <1>2
<1>5. UNCHANGED <<locks, pc, work>>
  BY Settling DEF CheckoutInv
<1>6. ASSUME NEW o \in Requests PROVE BudgetOK(o)'
  BY <1>4, <1>5, SamePlace DEF BudgetInv, BudgetOK, Ordering
<1> QED
  BY <1>3, <1>6 DEF BudgetInv

LEMMA BudgetStays ==
  ASSUME BudgetInv, UNCHANGED <<attempts, budget, locks, pc, work>> PROVE BudgetInv'
  BY DEF BudgetInv, AttemptsReserved, BudgetOK, Ordering

LEMMA BudgetInit == Init => BudgetInv
  BY DEF Init, BudgetInv, AttemptsReserved, BudgetOK, Ordering

LEMMA BudgetStep == CheckoutInv /\ BudgetInv /\ [Next]_vars => BudgetInv'
<1> SUFFICES ASSUME CheckoutInv, BudgetInv, [Next]_vars PROVE BudgetInv'
  OBVIOUS
<1>1. ASSUME NEW s \in Requests, NEW i \in Intents, Arrive(s, i) PROVE BudgetInv'
  BY <1>1, BudgetArrives
<1>2. ASSUME NEW s \in Requests, RequestStep(s) \/ Raise(s) PROVE BudgetInv'
  BY <1>2, BudgetEnds, BudgetBefore, BudgetOrders, BudgetCommits DEF RequestStep
<1>3. ASSUME NEW i \in Intents, NEW outcome \in {"COMPLETED", "FAILED"},
             SettleAttempt(i, outcome) \/ reconcile_unknown_payment(i, outcome)
      PROVE  BudgetInv'
  BY <1>3, BudgetSettles
<1>4. CASE cancel_all_intents \/ Tick \/ UNCHANGED vars
  BY <1>4, BudgetStays DEF cancel_all_intents, Tick, vars, rows
<1>5. ASSUME NEW t, NEW until, create_mandate(t, until) PROVE BudgetInv'
  BY <1>5, BudgetStays DEF create_mandate
<1>6. ASSUME NEW k, revoke_mandate(k) PROVE BudgetInv'
  BY <1>6, BudgetStays DEF revoke_mandate
<1> HIDE DEF CheckoutInv, BudgetInv
<1> QED
  BY <1>1, <1>2, <1>3, <1>4, <1>5, <1>6 DEF Next

\* A session gets from reserve to order by reserving.
LEMMA OnlyReserves ==
  ASSUME TypeOK, [Next]_vars, NEW s \in Requests, pc[s] = "reserve", pc'[s] = "order"
  PROVE  reserve_budget(s)
<1>1. ASSUME NEW o \in Requests, RequestStep(o) \/ Raise(o) \/ \E i \in Intents : Arrive(o, i)
      PROVE  o = s
  <2>1. o # s => pc'[s] = pc[s]
    BY <1>1, OnlyOwn
  <2> QED
    BY <2>1
<1>2. CASE RequestStep(s)
  <2>1. ~request_consent(s) /\ ~InsertConsent(s) /\ ~ParkIntent(s) /\ ~ApproveIntent(s)
    BY DEF request_consent, InsertConsent, ParkIntent, ApproveIntent
  <2>2. ~issue_capability(s) /\ ~create_order(s) /\ ~CommitRequest(s) /\ ~WriteDecision(s) /\ ~WriteCancel(s)
    BY DEF issue_capability, create_order, CommitRequest, WriteDecision, WriteCancel
  <2> QED
    BY <1>2, <2>1, <2>2 DEF RequestStep
<1>3. CASE Raise(s)
  BY <1>3 DEF Raise, EndRequest, Goto, TypeOK
<1>4. CASE \E i \in Intents : Arrive(s, i)
  BY <1>4 DEF Arrive, validate_intent_for_execution, request_consent_route, approve_consent, reject_consent,
              cancel_intent, Open
<1>5. CASE pc' = pc
  BY <1>5
<1>6. ASSUME NEW i \in Intents, NEW outcome \in {"COMPLETED", "FAILED"},
             SettleAttempt(i, outcome) \/ reconcile_unknown_payment(i, outcome)
      PROVE  pc' = pc
  BY <1>6, Settling
<1>7. cancel_all_intents \/ Tick \/ UNCHANGED vars => pc' = pc
  BY DEF cancel_all_intents, Tick, vars
<1>8. ASSUME NEW t, NEW until, create_mandate(t, until) PROVE pc' = pc
  BY <1>8 DEF create_mandate
<1>9. ASSUME NEW k, revoke_mandate(k) PROVE pc' = pc
  BY <1>9 DEF revoke_mandate
<1> QED
  BY <1>1, <1>2, <1>3, <1>4, <1>5, <1>6, <1>7, <1>8, <1>9 DEF Next

\* Once a payment of an intent is settled, by a webhook or by a reconciliation
\* that waits for nothing, no checkout gets past reserve_budget any more: the
\* settlement ended the reservation, and an attempt needs it or is the first.
THEOREM ReservesBeforeSettlement == Spec => ReservesUnsettled
<1> DEFINE Unsettled ==
      \A s \in Requests :
        pc[s] = "reserve" /\ pc'[s] = "order" =>
          \A k \in DOMAIN attempts[work[s].item] :
            attempts[work[s].item][k].status \notin TerminalStatuses
<1>1. CheckoutInv /\ BudgetInv /\ [Next]_vars => [Unsettled]_vars
  <2> SUFFICES ASSUME CheckoutInv, BudgetInv, [Next]_vars, NEW s \in Requests, pc[s] = "reserve", pc'[s] = "order",
                      NEW k \in DOMAIN attempts[work[s].item]
               PROVE  attempts[work[s].item][k].status \notin TerminalStatuses
    OBVIOUS
  <2>1. budget[work[s].item].status \in {"NONE", "RESERVED"}
    BY OnlyReserves DEF reserve_budget, CheckoutInv
  <2> QED
    BY <2>1, SamePlace DEF BudgetInv, AttemptsReserved
<1>2. Spec => [][Unsettled]_vars
  BY <1>1, BudgetInit, BudgetStep, CheckoutInvariant, CheckoutInit, CheckoutStep, PTL DEF Spec
<1> QED
  BY <1>2 DEF ReservesUnsettled

-----------------------------------------------------------------------------
(* A question is inserted once: who holds the lock of a consent row inserts *)
(* it, and who decides a question found one, which is never removed.        *)

AskOK(s) ==
  /\ \A i \in Intents : <<"consent", i>> \in locks[s] => consent[i].status = "NONE"
  /\ pc[s] = "decide" => consent[work[s].item].status # "NONE"

AskInv == \A s \in Requests : AskOK(s)

Once ==
  \A i \in Intents : consent[i].status # "NONE" =>
    /\ consent'[i].until = consent[i].until
    /\ consent'[i].status = "PENDING" => consent[i].status = "PENDING"

LEMMA AskGoesOn ==
  ASSUME CheckoutInv, AskInv, NEW s \in Requests,
         RequestStep(s) \/ Raise(s) \/ \E i \in Intents : Arrive(s, i),
         consent' = consent, AskOK(s)'
  PROVE  AskInv' /\ Once
<1>1. ASSUME NEW o \in Requests PROVE AskOK(o)'
  <2>1. CASE o # s
    <3>1. pc'[o] = pc[o] /\ work'[o] = work[o] /\ locks'[o] = locks[o]
      BY <2>1, OnlyOwn DEF CheckoutInv
    <3> QED
      BY <3>1 DEF AskInv, AskOK
  <2> QED
    BY <2>1
<1> QED
  BY <1>1 DEF AskInv, Once

\* A step that takes no lock of a consent and decides none.
LEMMA AskIdle ==
  ASSUME CheckoutInv, AskInv, NEW s \in Requests,
         RequestStep(s) \/ Raise(s) \/ \E i \in Intents : Arrive(s, i),
         consent' = consent, pc'[s] # "decide",
         \A i \in Intents : <<"consent", i>> \in locks'[s] => <<"consent", i>> \in locks[s]
  PROVE  AskInv' /\ Once
<1>1. AskOK(s)'
  BY DEF AskInv, AskOK
<1> QED
  BY <1>1, AskGoesOn

LEMMA AskArrives ==
  ASSUME CheckoutInv, AskInv, NEW s \in Requests, NEW i \in Intents, Arrive(s, i) PROVE AskInv' /\ Once
<1>1. consent' = consent /\ locks' = locks
  BY DEF Arrive, validate_intent_for_execution, request_consent_route, approve_consent, reject_consent,
         cancel_intent, rows
<1>2. CASE validate_intent_for_execution(s, i) \/ request_consent_route(s, i) \/ cancel_intent(s, i)
  <2>1. pc'[s] \in {"consent", "approve", "cancel"}
    BY <1>2 DEF validate_intent_for_execution, request_consent_route, cancel_intent, Open, Goto,
                CheckoutInv, TypeOK
  <2> QED
    BY <1>1, <2>1, AskIdle
<1>3. CASE approve_consent(s, i) \/ reject_consent(s, i)
  <2>1. consent[i].status = "PENDING" /\ \E kind : work' = [work EXCEPT ![s].kind = kind, ![s].item = i]
    BY <1>3 DEF approve_consent, reject_consent, Open
  <2>2. PICK kind : work' = [work EXCEPT ![s].kind = kind, ![s].item = i]
    BY <2>1
  <2>3. work'[s].item = i
    <3> DEFINE v == [work[s] EXCEPT !.kind = kind]
    <3>1. v.item = work[s].item /\ DOMAIN v = {"kind", "item", "until", "limit", "outcome"}
      BY SamePlace DEF Work
    <3>2. work'[s] = [v EXCEPT !.item = i]
      BY <2>2 DEF CheckoutInv, TypeOK
    <3> HIDE DEF v
    <3> QED
      BY <3>1, <3>2
  <2>4. AskOK(s)'
    BY <1>1, <2>1, <2>3 DEF AskInv, AskOK
  <2> QED
    BY <1>1, <2>4, AskGoesOn
<1> QED
  BY <1>2, <1>3 DEF Arrive

LEMMA AskEnds ==
  ASSUME CheckoutInv, AskInv, NEW s \in Requests, Raise(s) \/ WriteCancel(s) PROVE AskInv' /\ Once
<1>1. consent' = consent /\ pc'[s] = "idle" /\ locks'[s] = {}
  BY DEF Raise, WriteCancel, EndRequest, Goto, rows, CheckoutInv, TypeOK
<1> QED
  BY <1>1, AskIdle DEF RequestStep

LEMMA AskWorks ==
  ASSUME CheckoutInv, AskInv, NEW s \in Requests,
         request_consent(s) \/ ParkIntent(s) \/ ApproveIntent(s) \/ issue_capability(s)
           \/ reserve_budget(s) \/ create_order(s)
  PROVE  AskInv' /\ Once
<1>1. consent' = consent
  BY DEF request_consent, ParkIntent, ApproveIntent, issue_capability, reserve_budget, create_order, rows
<1>2. pc'[s] # "decide"
  BY DEF request_consent, ParkIntent, ApproveIntent, issue_capability, reserve_budget, create_order,
         Goto, AfterConsent, CheckoutInv, TypeOK
<1>3. ASSUME NEW i \in Intents, <<"consent", i>> \in locks'[s] PROVE <<"consent", i>> \in locks[s]
  <2>1. CASE request_consent(s) \/ issue_capability(s) \/ create_order(s)
    BY <1>3, <2>1 DEF request_consent, issue_capability, create_order
  <2>2. CASE ParkIntent(s) \/ ApproveIntent(s)
    <3>1. locks'[s] = locks[s] \cup {<<"intent", work[s].item>>}
      BY <2>2 DEF ParkIntent, ApproveIntent, Take, CheckoutInv, TypeOK
    <3> QED
      BY <1>3, <3>1
  <2>3. CASE reserve_budget(s)
    <3>1. \/ locks'[s] = locks[s] \cup {BudgetLock}
          \/ locks'[s] = locks[s] \cup {BudgetLock, <<"budget", work[s].item>>}
      BY <2>3 DEF reserve_budget, Take, CheckoutInv, TypeOK
    <3> QED
      BY <1>3, <3>1 DEF BudgetLock
  <2> QED
    BY <2>1, <2>2, <2>3
<1> QED
  BY <1>1, <1>2, <1>3, AskIdle DEF RequestStep

LEMMA AskInserts ==
  ASSUME CheckoutInv, AskInv, NEW s \in Requests, InsertConsent(s) PROVE AskInv' /\ Once
<1> DEFINE i == work[s].item
<1>1. consent' = consent /\ consent[i].status = "NONE" /\ pc'[s] # "decide"
  BY DEF InsertConsent, Goto, AfterConsent, rows, CheckoutInv, TypeOK
<1>2. locks'[s] = locks[s] \cup {<<"consent", i>>}
  BY DEF InsertConsent, Take, CheckoutInv, TypeOK
<1>3. AskOK(s)'
  BY <1>1, <1>2 DEF AskInv, AskOK
<1> QED
  BY <1>1, <1>3, AskGoesOn DEF RequestStep

LEMMA AskDecides ==
  ASSUME CheckoutInv, AskInv, NEW s \in Requests, WriteDecision(s) PROVE AskInv' /\ Once
<1> DEFINE i == work[s].item
           c == [consent[i] EXCEPT !.status = work[s].kind]
<1>1. consent' = [consent EXCEPT ![i] = c] /\ pc[s] = "decide" /\ pc'[s] = "idle" /\ locks'[s] = {}
  BY DEF WriteDecision, EndRequest, Goto, CheckoutInv, TypeOK
<1>2. i \in Intents /\ work[s].kind \in {"APPROVED", "REJECTED"} /\ consent[i].status # "NONE"
  BY <1>1, SamePlace DEF SessionOK, AskInv, AskOK
<1>3. c.until = consent[i].until /\ c.status = work[s].kind
  BY <1>2 DEF CheckoutInv, TypeOK
<1> HIDE DEF c
<1>4. ASSUME NEW j \in Intents
      PROVE  /\ consent'[j].until = consent[j].until
             /\ consent[j].status = "NONE" <=> consent'[j].status = "NONE"
             /\ consent'[j].status = "PENDING" => consent[j].status = "PENDING"
  <2>1. CASE j = i
    BY <1>1, <1>2, <1>3, <2>1 DEF CheckoutInv, TypeOK
  <2>2. CASE j # i
    BY <1>1, <2>2 DEF CheckoutInv, TypeOK
  <2> QED
    BY <2>1, <2>2
<1>5. ASSUME NEW o \in Requests PROVE AskOK(o)'
  <2>1. CASE o = s
    BY <1>1, <2>1 DEF AskOK
  <2>2. CASE o # s
    <3>1. pc'[o] = pc[o] /\ work'[o] = work[o] /\ locks'[o] = locks[o]
      BY <2>2, OnlyOwn DEF CheckoutInv, RequestStep
    <3> QED
      BY <1>4, <3>1, SamePlace DEF AskInv, AskOK
  <2> QED
    BY <2>1, <2>2
<1> QED
  BY <1>4, <1>5 DEF AskInv, Once

LEMMA AskCommits ==
  ASSUME CheckoutInv, AskInv, NEW s \in Requests, CommitRequest(s) PROVE AskInv' /\ Once
<1> DEFINE i == work[s].item
           c == [status |-> "PENDING", until |-> work[s].until]
           asks == <<"consent", i>> \in locks[s]
<1>1. /\ consent' = IF asks THEN [consent EXCEPT ![i] = c] ELSE consent
      /\ pc'[s] = "idle" /\ locks'[s] = {}
  BY DEF CommitRequest, EndRequest, Goto, CheckoutInv, TypeOK
<1>2. i \in Intents /\ (asks => consent[i].status = "NONE")
  BY SamePlace DEF AskInv, AskOK
<1>3. ASSUME NEW j \in Intents
      PROVE  \/ consent'[j] = consent[j]
             \/ asks /\ j = i /\ consent[j].status = "NONE" /\ consent'[j].status = "PENDING"
  BY <1>1, <1>2 DEF CheckoutInv, TypeOK
<1>4. ASSUME NEW o \in Requests PROVE AskOK(o)'
  <2>1. CASE o = s
    BY <1>1, <2>1 DEF AskOK
  <2>2. CASE o # s
    <3>1. pc'[o] = pc[o] /\ work'[o] = work[o] /\ locks'[o] = locks[o]
      BY <2>2, OnlyOwn DEF CheckoutInv, RequestStep
    <3>2. AskOK(o) /\ work[o].item \in Intents /\ locks[s] \cap locks[o] = {}
      BY <2>2, SamePlace DEF AskInv
    <3>3. ASSUME NEW j \in Intents, <<"consent", j>> \in locks'[o] PROVE consent'[j].status = "NONE"
      <4>1. consent[j].status = "NONE" /\ ~(asks /\ j = i)
        BY <3>1, <3>2, <3>3 DEF AskOK
      <4> QED
        BY <1>3, <4>1
    <3>4. pc'[o] = "decide" => consent'[work'[o].item].status # "NONE"
      BY <1>3, <3>1, <3>2 DEF AskOK
    <3> QED
      BY <3>3, <3>4 DEF AskOK
  <2> QED
    BY <2>1, <2>2
<1> QED
  BY <1>3, <1>4 DEF AskInv, Once

LEMMA AskStep == CheckoutInv /\ AskInv /\ [Next]_vars => AskInv' /\ Once
<1> SUFFICES ASSUME CheckoutInv, AskInv, [Next]_vars PROVE AskInv' /\ Once
  OBVIOUS
<1>1. ASSUME UNCHANGED <<consent, locks, pc, work>> PROVE AskInv' /\ Once
  BY <1>1 DEF AskInv, AskOK, Once
<1>2. CASE cancel_all_intents \/ Tick \/ UNCHANGED vars
  BY <1>1, <1>2 DEF cancel_all_intents, Tick, vars, rows
<1>3. ASSUME NEW t, NEW until, create_mandate(t, until) PROVE AskInv' /\ Once
  BY <1>1, <1>3 DEF create_mandate
<1>4. ASSUME NEW k, revoke_mandate(k) PROVE AskInv' /\ Once
  BY <1>1, <1>4 DEF revoke_mandate
<1>5. ASSUME NEW i, NEW outcome, SettleAttempt(i, outcome) \/ reconcile_unknown_payment(i, outcome)
      PROVE  AskInv' /\ Once
  BY <1>1, <1>5 DEF SettleAttempt, reconcile_unknown_payment
<1>6. ASSUME NEW s \in Requests, RequestStep(s) PROVE AskInv' /\ Once
  BY <1>6, AskWorks, AskInserts, AskDecides, AskCommits, AskEnds DEF RequestStep
<1>7. ASSUME NEW s \in Requests, Raise(s) PROVE AskInv' /\ Once
  BY <1>7, AskEnds
<1>8. ASSUME NEW s \in Requests, NEW i \in Intents, Arrive(s, i) PROVE AskInv' /\ Once
  BY <1>8, AskArrives
<1> HIDE DEF CheckoutInv, AskInv
<1> QED
  BY <1>2, <1>3, <1>4, <1>5, <1>6, <1>7, <1>8 DEF Next

LEMMA AskInit == Init => AskInv
  BY DEF Init, AskInv, AskOK

\* The user is asked once about an intent: of the checkouts and requests that
\* ask at the same time one inserts the question, and whoever decided it or
\* let it expire is not asked again.
THEOREM QuestionIsAskedOnce == Spec => AskedOnce
<1>1. CheckoutInv /\ AskInv /\ [Next]_vars => [Once]_vars
  BY AskStep
<1>2. Spec => [][Once]_vars
  BY <1>1, AskInit, AskStep, CheckoutInvariant, CheckoutInit, CheckoutStep, PTL DEF Spec
<1> QED
  BY <1>2 DEF AskedOnce, Once

-----------------------------------------------------------------------------
(* The limits.  A request sums the reservations, waits, calls the provider *)
(* and commits later: SpendInv carries the room it found, which nobody     *)
(* else can take while it holds the advisory lock, and the limit it read   *)
(* before it waited, which stays below the mandate's.                      *)

\* A session past issue_capability whose attempt, if any, has not committed.
Spends(s) == pc[s] = "reserve" \/ Ordering(s)

SpendOK(s) ==
  LET i == work[s].item IN
  /\ Spends(s) => /\ work[s].until \in CapabilityTTL..(now + CapabilityTTL)
                  /\ \A k \in DOMAIN attempts[i] : attempts[i][k].until + CapabilityTTL <= work[s].until
  /\ pc[s] = "reserve" => work[s].limit <= DailyLimit
  /\ <<"budget", i>> \in locks[s] => budget[i].status = "NONE" /\ HeldAmount + Amount[i] <= DailyLimit

MandateOK(s) ==
  \A k \in InForce :
    LET m == mandates[k]
        i == work[s].item
    IN  /\ Len(mandates) = 1 /\ Eligible(m, i) /\ work[s].until > m.from + CapabilityTTL
        => /\ pc[s] = "reserve" => work[s].limit <= m.daily
           /\ <<"budget", i>> \in locks[s] => HeldAmount + Amount[i] <= m.daily

SpendInv ==
  /\ ReservedWithinLimit /\ CoveredWithinMandate
  /\ \A i \in Intents : budget[i].until <= now + CapabilityTTL
  /\ \A k \in DOMAIN mandates : mandates[k].from <= now
  /\ \A s \in Requests : SpendOK(s) /\ MandateOK(s)

-----------------------------------------------------------------------------
(* Sums of amounts.                                                        *)

LEMMA UnitsOfOne ==
  ASSUME NEW i, NEW n \in Nat
  PROVE  IsFiniteSet({i} \X (1..n)) /\ Cardinality({i} \X (1..n)) = n
<1>1. IsFiniteSet({i}) /\ Cardinality({i}) = 1
  BY FS_Singleton
<1>2. IsFiniteSet(1..n) /\ Cardinality(1..n) = n
  <2>1. 1 \in Int /\ n \in Int
    OBVIOUS
  <2>2. IsFiniteSet(1..n) /\ Cardinality(1..n) = IF 1 > n THEN 0 ELSE n-1+1
    BY <2>1, FS_Interval, Zenon
  <2> QED
    BY <2>2
<1>3. IsFiniteSet({i} \X (1..n)) /\ Cardinality({i} \X (1..n)) = Cardinality({i}) * Cardinality(1..n)
  BY <1>1, <1>2, FS_Product
<1> QED
  BY <1>1, <1>2, <1>3

LEMMA UnitsFinite ==
  ASSUME NEW S, IsFiniteSet(S), NEW amount, \A i \in S : amount[i] \in Nat
  PROVE  IsFiniteSet(Units(amount, S))
<1> DEFINE f == [i \in S |-> {i} \X (1..amount[i])]
           T == {{i} \X (1..amount[i]) : i \in S}
<1>1. f \in Surjection(S, T)
  BY DEF Surjection
<1>2. IsFiniteSet(T)
  BY <1>1, FS_Surjection
<1>3. ASSUME NEW i \in S PROVE IsFiniteSet({i} \X (1..amount[i]))
  BY UnitsOfOne
<1> QED
  BY <1>2, <1>3, FS_UNION DEF Units

LEMMA TotalIsNat ==
  ASSUME NEW S, IsFiniteSet(S), NEW amount, \A i \in S : amount[i] \in Nat
  PROVE  Total(amount, S) \in Nat
  BY UnitsFinite, FS_CardinalityType DEF Total

LEMMA TotalOfFewer ==
  ASSUME NEW S, IsFiniteSet(S), NEW T \in SUBSET S, NEW amount, \A i \in S : amount[i] \in Nat
  PROVE  Total(amount, T) <= Total(amount, S)
<1>1. Units(amount, T) \in SUBSET Units(amount, S)
  BY DEF Units
<1> QED
  BY <1>1, UnitsFinite, FS_Subset DEF Total

LEMMA TotalOfOneMore ==
  ASSUME NEW S, IsFiniteSet(S), NEW i, NEW amount, \A j \in S \cup {i} : amount[j] \in Nat
  PROVE  Total(amount, S \cup {i}) <= Total(amount, S) + amount[i]
<1> DEFINE A == Units(amount, S)
           B == {i} \X (1..amount[i])
<1>1. Units(amount, S \cup {i}) = A \cup B
  BY DEF Units
<1>2. IsFiniteSet(A)
  BY UnitsFinite
<1>3. IsFiniteSet(B) /\ Cardinality(B) = amount[i]
  BY UnitsOfOne
<1>4. Cardinality(A \cup B) = Cardinality(A) + Cardinality(B) - Cardinality(A \cap B)
  <2> HIDE DEF A, B
  <2> QED
    BY <1>2, <1>3, FS_Union
<1>5. Cardinality(A) \in Nat /\ Cardinality(A \cap B) \in Nat
  <2> HIDE DEF A, B
  <2> QED
    BY <1>2, FS_CardinalityType, FS_Intersection
<1> QED
  <2>1. Total(amount, S \cup {i}) = Cardinality(A \cup B) /\ Total(amount, S) = Cardinality(A)
    BY <1>1 DEF Total
  <2>2. amount[i] \in Nat
    OBVIOUS
  <2> HIDE DEF A, B
  <2> QED
    BY <2>1, <2>2, <1>3, <1>4, <1>5

HeldSet == {i \in Intents : Held(i)}

LEMMA HeldIsTotal ==
  /\ HeldAmount = Total(Amount, HeldSet) /\ HeldAmount \in Nat /\ IsFiniteSet(HeldSet)
  /\ HeldAmount' = Total(Amount, HeldSet') /\ HeldAmount' \in Nat /\ IsFiniteSet(HeldSet')
<1>1. HeldSet \in SUBSET Intents /\ HeldSet' \in SUBSET Intents
  BY DEF HeldSet
<1>2. IsFiniteSet(HeldSet) /\ IsFiniteSet(HeldSet')
  BY <1>1, CheckoutAssumption, FS_Subset
<1>3. (\A i \in HeldSet : Amount[i] \in Nat) /\ (\A i \in HeldSet' : Amount[i] \in Nat)
  BY <1>1, CheckoutAssumption
<1>4. HeldAmount = Total(Amount, HeldSet) /\ HeldAmount' = Total(Amount, HeldSet')
  BY DEF HeldAmount, HeldSet, Held
<1> QED
  BY <1>2, <1>3, <1>4, TotalIsNat

LEMMA HeldFewer == ASSUME HeldSet' \subseteq HeldSet PROVE HeldAmount' <= HeldAmount
<1>1. \A i \in HeldSet : Amount[i] \in Nat
  BY CheckoutAssumption DEF HeldSet
<1> QED
  BY <1>1, HeldIsTotal, TotalOfFewer

LEMMA TotalOfNone == ASSUME NEW amount PROVE Total(amount, {}) = 0
<1>1. Units(amount, {}) = {}
  BY DEF Units
<1> QED
  BY <1>1, FS_EmptySet DEF Total

LEMMA SpendInit == Init => SpendInv
<1> SUFFICES ASSUME Init PROVE SpendInv
  OBVIOUS
<1>1. HeldSet = {} /\ HeldAmount = 0
  <2>1. HeldSet = {}
    BY DEF Init, HeldSet, Held
  <2> QED
    BY <2>1, HeldIsTotal, TotalOfNone
<1>2. InForce = {} /\ DOMAIN mandates = {}
  BY DEF Init, InForce
<1>3. ReservedWithinLimit /\ CoveredWithinMandate
  BY <1>1, <1>2, CheckoutAssumption DEF ReservedWithinLimit, CoveredWithinMandate
<1>4. \A i \in Intents : budget[i].until <= now + CapabilityTTL
  BY CheckoutAssumption DEF Init
<1>5. ASSUME NEW s \in Requests PROVE SpendOK(s) /\ MandateOK(s)
  BY <1>2 DEF Init, SpendOK, MandateOK, Spends, Ordering
<1> QED
  BY <1>2, <1>3, <1>4, <1>5 DEF SpendInv

\* Where clock, budget and mandates stay, so does what they say.
LEMMA SameRoom ==
  ASSUME SpendInv, UNCHANGED <<now, budget, mandates>>
  PROVE  /\ HeldAmount' = HeldAmount /\ InForce' = InForce
         /\ ReservedWithinLimit' /\ CoveredWithinMandate'
         /\ \A i \in Intents : budget'[i].until <= now' + CapabilityTTL
         /\ \A k \in DOMAIN mandates' : mandates'[k].from <= now'
<1>1. HeldAmount' = HeldAmount
  BY DEF HeldAmount, Held
<1>2. InForce' = InForce
  BY DEF InForce
<1>3. \A k \in InForce : HeldSince(mandates[k])' = HeldSince(mandates[k])
  BY DEF HeldSince, Held, Eligible
<1>4. CoveredWithinMandate'
  BY <1>2, <1>3 DEF SpendInv, CoveredWithinMandate
<1>5. ReservedWithinLimit'
  BY <1>1 DEF SpendInv, ReservedWithinLimit
<1> QED
  BY <1>1, <1>2, <1>4, <1>5 DEF SpendInv

LEMMA SpendGoesOn ==
  ASSUME CheckoutInv, SpendInv, NEW s \in Requests,
         RequestStep(s) \/ Raise(s) \/ \E i \in Intents : Arrive(s, i),
         UNCHANGED <<now, attempts, budget, mandates>>, SpendOK(s)', MandateOK(s)'
  PROVE  SpendInv'
<1>1. ASSUME NEW o \in Requests PROVE SpendOK(o)' /\ MandateOK(o)'
  <2>1. CASE o # s
    <3>1. pc'[o] = pc[o] /\ work'[o] = work[o] /\ locks'[o] = locks[o]
      BY <2>1, OnlyOwn DEF CheckoutInv
    <3>2. SpendOK(o)'
      BY <3>1, SameRoom DEF SpendInv, SpendOK, Spends, Ordering
    <3>3. MandateOK(o)'
      BY <3>1, SameRoom DEF SpendInv, MandateOK, Eligible
    <3> QED
      BY <3>2, <3>3
  <2> QED
    BY <2>1
<1> QED
  BY <1>1, SameRoom DEF SpendInv

\* A session that is not about to make an order has reserved nothing.
LEMMA SpendIdle ==
  ASSUME CheckoutInv, SpendInv, CheckoutInv', BudgetInv', NEW s \in Requests,
         RequestStep(s) \/ Raise(s) \/ \E i \in Intents : Arrive(s, i),
         UNCHANGED <<now, attempts, budget, mandates>>, ~Spends(s)'
  PROVE  SpendInv'
<1>1. work'[s].item \in Intents
  BY DEF CheckoutInv, TypeOK
<1>2. <<"budget", work'[s].item>> \notin locks'[s]
  BY <1>1 DEF BudgetInv, BudgetOK, Spends
<1>3. pc'[s] # "reserve"
  BY DEF Spends
<1>4. SpendOK(s)' /\ MandateOK(s)'
  BY <1>2, <1>3 DEF SpendOK, MandateOK, Spends
<1> QED
  BY <1>4, SpendGoesOn

LEMMA SpendArrives ==
  ASSUME CheckoutInv, SpendInv, CheckoutInv', BudgetInv', NEW s \in Requests, NEW i \in Intents, Arrive(s, i)
  PROVE  SpendInv'
<1>1. /\ \E kind, step : Open(s, kind, i, step) /\ step \in {"consent", "approve", "decide", "cancel"}
      /\ UNCHANGED <<now, rows, locks>>
  BY DEF Arrive, validate_intent_for_execution, request_consent_route, approve_consent, reject_consent,
         cancel_intent
<1>2. pc'[s] \in {"consent", "approve", "decide", "cancel"}
  BY <1>1 DEF Open, Goto, CheckoutInv, TypeOK
<1> QED
  BY <1>1, <1>2, SpendIdle DEF rows, Spends, Ordering

LEMMA SpendEnds ==
  ASSUME CheckoutInv, SpendInv, CheckoutInv', BudgetInv', NEW s \in Requests,
         Raise(s) \/ WriteDecision(s) \/ WriteCancel(s)
  PROVE  SpendInv'
<1>1. EndRequest(s) /\ UNCHANGED <<now, attempts, budget, mandates>>
  BY DEF Raise, WriteDecision, WriteCancel, rows
<1>2. pc'[s] = "idle"
  BY <1>1 DEF EndRequest, Goto, CheckoutInv, TypeOK
<1> QED
  BY <1>1, <1>2, SpendIdle DEF RequestStep, Spends, Ordering

LEMMA SpendBefore ==
  ASSUME CheckoutInv, SpendInv, CheckoutInv', BudgetInv', NEW s \in Requests,
         request_consent(s) \/ InsertConsent(s) \/ ParkIntent(s) \/ ApproveIntent(s)
  PROVE  SpendInv'
<1>1. UNCHANGED <<now, attempts, budget, mandates>>
  BY DEF request_consent, InsertConsent, ParkIntent, ApproveIntent, rows
<1>2. pc'[s] # "reserve"
  BY DEF request_consent, InsertConsent, ParkIntent, ApproveIntent, Goto, AfterConsent, CheckoutInv, TypeOK
<1> QED
  BY <1>1, <1>2, BeforeOrdering, SpendIdle DEF RequestStep, Spends

\* Two attempts' capabilities are a lifetime apart: the earlier one had ended.
LEMMA SpendIssues ==
  ASSUME CheckoutInv, SpendInv, CheckoutInv', BudgetInv', NEW s \in Requests, issue_capability(s)
  PROVE  SpendInv'
<1> DEFINE i == work[s].item
<1>1. PICK limit \in DailyLimits(i) :
        work' = [work EXCEPT ![s].until = now + CapabilityTTL, ![s].limit = limit]
  BY DEF issue_capability
<1>2. /\ UNCHANGED <<now, attempts, budget, mandates, locks>> /\ pc'[s] = "reserve"
      /\ i \in Intents
  BY SamePlace DEF issue_capability, rows, Goto, CheckoutInv, TypeOK
<1>3. work'[s].item = i /\ work'[s].until = now + CapabilityTTL /\ work'[s].limit = limit
  <2>1. work'[s] = [work[s] EXCEPT !.until = now + CapabilityTTL, !.limit = limit]
    BY <1>1 DEF CheckoutInv, TypeOK
  <2> QED
    BY <2>1, SamePlace DEF Work
<1>4. now \in Nat /\ CapabilityTTL \in Nat /\ DailyLimit \in Nat
  BY CheckoutAssumption DEF CheckoutInv, TypeOK
<1>5. <<"budget", i>> \notin locks'[s]
  BY <1>2, BeforeOrdering DEF BudgetInv, BudgetOK
<1>6. \A k \in DOMAIN attempts[i] : attempts[i][k].until <= now
  <2> SUFFICES ASSUME NEW k \in DOMAIN attempts[i] PROVE attempts[i][k].until <= now
    OBVIOUS
  <2>1. ~Live(attempts[i][k])
    BY SamePlace, NoneValidates DEF issue_capability, CheckoutInv, AttemptsOK
  <2>2. attempts[i][k] \in [status : TransactionStatus, until : Nat]
    BY <1>2, AttemptOfOne DEF CheckoutInv
  <2> QED
    BY <1>4, <2>1, <2>2 DEF Live
<1>7. \A k \in InForce : mandates[k].daily \in Nat
  BY MandateOfOne DEF InForce, Mandate, CheckoutInv
<1>8. limit <= DailyLimit
  BY <1>4, <1>7 DEF DailyLimits
<1>9. SpendOK(s)'
  <2>1. work'[s].until \in CapabilityTTL..(now' + CapabilityTTL)
    BY <1>2, <1>3, <1>4
  <2>2. \A k \in DOMAIN attempts'[i] : attempts'[i][k].until + CapabilityTTL <= work'[s].until
    <3> SUFFICES ASSUME NEW k \in DOMAIN attempts[i] PROVE attempts[i][k].until + CapabilityTTL <= now + CapabilityTTL
      BY <1>2, <1>3
    <3>1. attempts[i][k] \in [status : TransactionStatus, until : Nat]
      BY <1>2, AttemptOfOne DEF CheckoutInv
    <3> QED
      BY <1>4, <1>6, <3>1
  <2> QED
    BY <1>3, <1>5, <1>8, <2>1, <2>2 DEF SpendOK
<1>10. MandateOK(s)'
  <2> SUFFICES ASSUME NEW k \in InForce, Len(mandates) = 1, Eligible(mandates[k], i)
               PROVE  limit <= mandates[k].daily
    BY <1>2, <1>3, <1>5 DEF MandateOK, InForce, Eligible
  <2>1. \A l \in InForce : l = k
    <3>1. mandates \in Seq(Mandate)
      BY DEF CheckoutInv, TypeOK
    <3>2. DOMAIN mandates = 1..1
      BY <3>1
    <3> QED
      BY <3>2 DEF InForce
  <2>2. limit = IF mandates[k].daily < DailyLimit THEN mandates[k].daily ELSE DailyLimit
    BY <2>1 DEF DailyLimits
  <2> QED
    BY <1>4, <1>7, <2>2
<1> QED
  BY <1>2, <1>9, <1>10, SpendGoesOn DEF RequestStep

LEMMA SpendReserves ==
  ASSUME CheckoutInv, BudgetInv, SpendInv, NEW s \in Requests, reserve_budget(s)
  PROVE  SpendInv'
<1> DEFINE i == work[s].item
<1>1. /\ UNCHANGED <<now, attempts, budget, mandates, work>> /\ pc[s] = "reserve" /\ pc'[s] = "order"
      /\ i \in Intents
  BY SamePlace DEF reserve_budget, rows, Goto, CheckoutInv, TypeOK
<1>2. <<"budget", i>> \in locks'[s] =>
        budget[i].status = "NONE" /\ HeldAmount + Amount[i] <= work[s].limit
  <2>1. <<"budget", i>> \notin locks[s]
    BY <1>1 DEF BudgetInv, BudgetOK, Ordering
  <2>2. CASE Take(s, BudgetLock)
    <3>1. locks'[s] = locks[s] \cup {BudgetLock}
      BY <2>2 DEF Take, CheckoutInv, TypeOK
    <3>2. <<"budget", i>> # BudgetLock
      BY DEF BudgetLock
    <3> QED
      BY <2>1, <3>1, <3>2
  <2> QED
    BY <2>2 DEF reserve_budget
<1>3. HeldAmount \in Nat /\ Amount[i] \in Nat /\ work[s].limit \in Nat /\ DailyLimit \in Nat
  BY <1>1, HeldIsTotal, SamePlace, CheckoutAssumption DEF Work
<1>4. SpendOK(s)'
  <2>1. SpendOK(s) /\ work[s].limit <= DailyLimit
    BY <1>1 DEF SpendInv, SpendOK
  <2>2. <<"budget", i>> \in locks'[s] => HeldAmount + Amount[i] <= DailyLimit
    BY <1>2, <1>3, <2>1
  <2> QED
    BY <1>1, <1>2, <2>1, <2>2, SameRoom DEF SpendOK, Spends
<1>5. MandateOK(s)'
  <2> SUFFICES ASSUME NEW k \in InForce, Len(mandates) = 1, Eligible(mandates[k], i),
                      work[s].until > mandates[k].from + CapabilityTTL, <<"budget", i>> \in locks'[s]
               PROVE  HeldAmount + Amount[i] <= mandates[k].daily
    BY <1>1, SameRoom DEF MandateOK, Eligible
  <2>1. work[s].limit <= mandates[k].daily
    BY <1>1 DEF SpendInv, MandateOK
  <2>2. mandates[k].daily \in Nat
    BY MandateOfOne DEF InForce, Mandate, CheckoutInv
  <2> QED
    BY <1>2, <1>3, <2>1, <2>2
<1> QED
  BY <1>1, <1>4, <1>5, SpendGoesOn DEF RequestStep

LEMMA SpendOrders ==
  ASSUME CheckoutInv, SpendInv, NEW s \in Requests, create_order(s) PROVE SpendInv'
<1>1. PICK outcome \in OrderOutcomes : work' = [work EXCEPT ![s].outcome = outcome]
  BY DEF create_order
<1>2. /\ UNCHANGED <<now, attempts, budget, mandates, locks>> /\ pc[s] = "order" /\ pc'[s] = "commit"
  BY DEF create_order, rows, Goto, CheckoutInv, TypeOK
<1>3. work'[s].item = work[s].item /\ work'[s].until = work[s].until
  <2>1. work'[s] = [work[s] EXCEPT !.outcome = outcome]
    BY <1>1 DEF CheckoutInv, TypeOK
  <2> QED
    BY <2>1, SamePlace DEF Work
<1>4. SpendOK(s)'
  BY <1>2, <1>3, SameRoom DEF SpendInv, SpendOK, Spends, Ordering
<1>5. MandateOK(s)'
  BY <1>2, <1>3, SameRoom DEF SpendInv, MandateOK, Eligible
<1> QED
  BY <1>2, <1>4, <1>5, SpendGoesOn DEF RequestStep

\* Only one session at a time has counted the reservations and not yet written its own.
LEMMA OneReserves ==
  ASSUME CheckoutInv, NEW s \in Requests, NEW o \in Requests \ {s}, NEW i \in Intents, NEW j \in Intents,
         <<"budget", i>> \in locks[s]
  PROVE  <<"budget", j>> \notin locks[o]
<1>1. \A p \in Requests, l \in Intents : <<"budget", l>> \in locks[p] => BudgetLock \in locks[p]
  BY SamePlace DEF SessionOK
<1> QED
  BY <1>1, SamePlace

LEMMA SpendCommits ==
  ASSUME CheckoutInv, BudgetInv, SpendInv, NEW s \in Requests, CommitRequest(s) PROVE SpendInv'
<1> DEFINE w == work[s]
           i == w.item
           made == create_transaction(w)
           mine == <<"budget", i>> \in locks[s]
<1>1. /\ EndRequest(s) /\ pc[s] = "commit" /\ now' = now /\ mandates' = mandates
      /\ attempts' = IF w.outcome \in OrderOutcomes
                        THEN [attempts EXCEPT ![i] = Append(attempts[i], made)] ELSE attempts
      /\ budget' = IF mine THEN [budget EXCEPT ![i] = [status |-> "RESERVED", until |-> w.until]] ELSE budget
  BY DEF CommitRequest
<1>2. i \in Intents /\ w.until \in Nat /\ now \in Nat /\ CapabilityTTL \in Nat /\ DailyLimit \in Nat
      /\ Amount[i] \in Nat /\ HeldAmount \in Nat /\ HeldAmount' \in Nat
  BY SamePlace, HeldIsTotal, CheckoutAssumption DEF Work, CheckoutInv, TypeOK
<1>3. Ordering(s) <=> w.outcome \in OrderOutcomes
  BY <1>1 DEF Ordering
<1>4. mine => /\ Ordering(s) /\ budget[i].status = "NONE" /\ HeldAmount + Amount[i] <= DailyLimit
              /\ w.until <= now + CapabilityTTL
  BY <1>2 DEF BudgetInv, BudgetOK, SpendInv, SpendOK, Spends
<1>5. /\ \A j \in Intents : j # i => budget'[j] = budget[j] /\ attempts'[j] = attempts[j]
      /\ mine => budget'[i] = [status |-> "RESERVED", until |-> w.until]
      /\ ~mine => budget' = budget
  BY <1>1, <1>2 DEF CheckoutInv, TypeOK
<1>6. HeldAmount' <= IF mine THEN HeldAmount + Amount[i] ELSE HeldAmount
  <2>1. CASE ~mine
    BY <1>1, <1>2, <1>5, <2>1 DEF HeldAmount, Held
  <2>2. CASE mine
    <3>1. HeldSet' \subseteq HeldSet \cup {i}
      BY <1>1, <1>5 DEF HeldSet, Held
    <3>2. IsFiniteSet(HeldSet \cup {i}) /\ \A j \in HeldSet \cup {i} : Amount[j] \in Nat
      BY <1>2, HeldIsTotal, FS_AddElement, CheckoutAssumption DEF HeldSet
    <3>3. Total(Amount, HeldSet') <= Total(Amount, HeldSet \cup {i})
      BY <3>1, <3>2, TotalOfFewer
    <3>4. Total(Amount, HeldSet \cup {i}) <= Total(Amount, HeldSet) + Amount[i]
      BY <3>2, HeldIsTotal, TotalOfOneMore
    <3>5. Total(Amount, HeldSet \cup {i}) \in Nat
      BY <3>2, TotalIsNat
    <3> QED
      BY <1>2, <2>2, <3>3, <3>4, <3>5, HeldIsTotal
  <2> QED
    BY <2>1, <2>2
<1>7. ReservedWithinLimit'
  BY <1>2, <1>4, <1>6 DEF SpendInv, ReservedWithinLimit
<1>8. CoveredWithinMandate'
  <2> SUFFICES ASSUME NEW k \in InForce, Len(mandates) = 1
               PROVE  Total(Amount, HeldSince(mandates[k])') <= mandates[k].daily
    BY <1>1 DEF CoveredWithinMandate, InForce
  <2> DEFINE m == mandates[k]
             since == HeldSince(m)
             after == HeldSince(m)'
  <2>1. m.daily \in Nat /\ m.from \in Nat
    BY MandateOfOne DEF InForce, Mandate, CheckoutInv
  <2>2. since \in SUBSET Intents /\ after \in SUBSET Intents
    BY DEF HeldSince
  <2>3. IsFiniteSet(since) /\ IsFiniteSet(after)
        /\ (\A j \in since : Amount[j] \in Nat) /\ (\A j \in after : Amount[j] \in Nat)
    BY <2>2, CheckoutAssumption, FS_Subset
  <2>4. Total(Amount, since) <= m.daily
    BY DEF SpendInv, CoveredWithinMandate
  <2>5. CASE mine /\ Eligible(m, i) /\ w.until > m.from + CapabilityTTL
    <3>1. HeldAmount + Amount[i] <= m.daily
      BY <2>5 DEF SpendInv, MandateOK
    <3>2. after \subseteq HeldSet'
      BY <1>1 DEF HeldSince, HeldSet
    <3>3. \A j \in HeldSet' : Amount[j] \in Nat
      BY CheckoutAssumption DEF HeldSet
    <3>4. Total(Amount, after) <= HeldAmount'
      <4> HIDE DEF after
      <4> QED
        BY <3>2, <3>3, HeldIsTotal, TotalOfFewer
    <3>5. Total(Amount, after) \in Nat
      BY <2>3, TotalIsNat
    <3> QED
      BY <1>2, <1>6, <2>1, <2>5, <3>1, <3>4, <3>5
  <2>6. CASE ~(mine /\ Eligible(m, i) /\ w.until > m.from + CapabilityTTL)
    <3>1. after \subseteq since
      BY <1>1, <1>5, <2>6 DEF HeldSince, Held, Eligible
    <3>2. Total(Amount, after) <= Total(Amount, since)
      <4> HIDE DEF after, since
      <4> QED
        BY <2>3, <3>1, TotalOfFewer
    <3>3. Total(Amount, after) \in Nat /\ Total(Amount, since) \in Nat
      BY <2>3, TotalIsNat
    <3> QED
      BY <2>1, <2>4, <3>2, <3>3
  <2> QED
    BY <2>5, <2>6
<1>9. \A j \in Intents : budget'[j].until <= now' + CapabilityTTL
  BY <1>1, <1>4, <1>5 DEF SpendInv
<1>10. ASSUME NEW o \in Requests PROVE SpendOK(o)' /\ MandateOK(o)'
  <2>1. CASE o = s
    <3>1. pc'[o] = "idle" /\ locks'[o] = {}
      BY <1>1, <2>1 DEF EndRequest, Goto, CheckoutInv, TypeOK
    <3> QED
      BY <3>1 DEF SpendOK, MandateOK, Spends, Ordering
  <2>2. CASE o # s
    <3> DEFINE j == work[o].item
    <3>1. pc'[o] = pc[o] /\ work'[o] = work[o] /\ locks'[o] = locks[o] /\ j \in Intents
      BY <2>2, OnlyOwn, SamePlace DEF RequestStep, CheckoutInv
    <3>2. Spends(o) => attempts'[j] = attempts[j]
      <4>1. Spends(o) => <<"intent", j>> \in locks[o]
        BY SamePlace DEF Spends, Ordering, SessionOK, Issuing
      <4>2. Ordering(s) => <<"intent", i>> \in locks[s]
        BY <1>1, <1>3, SamePlace DEF SessionOK, Issuing
      <4>3. ~Ordering(s) => attempts' = attempts
        BY <1>1, <1>3
      <4> QED
        BY <1>5, <2>2, <3>1, <4>1, <4>2, <4>3, SamePlace
    <3>3. <<"budget", j>> \in locks[o] => ~mine /\ budget' = budget /\ HeldAmount' = HeldAmount
      <4>1. <<"budget", j>> \in locks[o] => ~mine
        BY <1>2, <2>2, <3>1, OneReserves
      <4> QED
        BY <1>1, <1>5, <4>1 DEF HeldAmount, Held
    <3>4. SpendOK(o)'
      BY <1>1, <3>1, <3>2, <3>3 DEF SpendInv, SpendOK, Spends, Ordering
    <3>5. MandateOK(o)'
      BY <1>1, <3>1, <3>3 DEF SpendInv, MandateOK, Eligible, InForce
    <3> QED
      BY <3>4, <3>5
  <2> QED
    BY <2>1, <2>2
<1> QED
  BY <1>1, <1>7, <1>8, <1>9, <1>10 DEF SpendInv

\* HeldSince after the step, for a mandate as it is then.
HeldLater(m) ==
  {i \in Intents : /\ Eligible(m, i) /\ budget'[i].status = "RESERVED" /\ budget'[i].until > now'
                   /\ budget'[i].until > m.from + CapabilityTTL}

LEMMA LaterCovered ==
  ASSUME \A k \in InForce' : Len(mandates') = 1 => Total(Amount, HeldLater(mandates'[k])) <= mandates'[k].daily
  PROVE  CoveredWithinMandate'
<1> SUFFICES ASSUME NEW k \in InForce', Len(mandates') = 1
             PROVE  Total(Amount, HeldSince(mandates[k])') <= mandates'[k].daily
  BY DEF CoveredWithinMandate
<1>1. HeldSince(mandates[k])' = HeldLater(mandates'[k])
  BY DEF HeldSince, HeldLater, Held, Eligible
<1> QED
  BY <1>1

\* A step of nobody's session that adds nothing to what is held.
LEMMA SpendFewer ==
  ASSUME CheckoutInv, SpendInv, UNCHANGED <<locks, pc, work>>, now <= now', now' \in Nat,
         HeldSet' \subseteq HeldSet, InForce' \subseteq InForce, Len(mandates') = Len(mandates),
         \A k \in InForce' : mandates'[k] = mandates[k],
         \A k \in DOMAIN mandates' : mandates'[k].from <= now',
         \A i \in Intents : /\ budget'[i].until = budget[i].until
                            /\ budget[i].status = "NONE" => budget'[i].status = "NONE",
         \A s \in Requests : LET i == work[s].item IN
           Spends(s) => /\ DOMAIN attempts'[i] = DOMAIN attempts[i]
                        /\ \A k \in DOMAIN attempts[i] : attempts'[i][k].until = attempts[i][k].until
  PROVE  SpendInv'
<1>1. HeldAmount' <= HeldAmount /\ HeldAmount \in Nat /\ HeldAmount' \in Nat
  BY HeldFewer, HeldIsTotal
<1>2. DailyLimit \in Nat /\ CapabilityTTL \in Nat /\ now \in Nat
  BY CheckoutAssumption DEF CheckoutInv, TypeOK
<1>3. ReservedWithinLimit'
  BY <1>1, <1>2 DEF SpendInv, ReservedWithinLimit
<1>4. CoveredWithinMandate'
  <2> SUFFICES ASSUME NEW k \in InForce', Len(mandates) = 1
               PROVE  Total(Amount, HeldLater(mandates'[k])) <= mandates'[k].daily
    BY LaterCovered
  <2> DEFINE m == mandates[k]
             since == HeldSince(m)
             after == HeldLater(m)
  <2>1. k \in InForce /\ mandates'[k] = m /\ m.daily \in Nat
    BY MandateOfOne DEF InForce, Mandate, CheckoutInv
  <2>2. since \in SUBSET Intents /\ after \subseteq since
    BY DEF HeldSince, HeldLater, HeldSet, Held, Eligible
  <2>3. IsFiniteSet(since) /\ \A j \in since : Amount[j] \in Nat
    BY <2>2, CheckoutAssumption, FS_Subset
  <2>4. Total(Amount, since) <= m.daily
    BY <2>1 DEF SpendInv, CoveredWithinMandate
  <2>5. Total(Amount, after) <= Total(Amount, since) /\ Total(Amount, since) \in Nat
    <3> HIDE DEF since, after
    <3> QED
      BY <2>2, <2>3, TotalOfFewer, TotalIsNat
  <2>6. IsFiniteSet(after) /\ \A j \in after : Amount[j] \in Nat
    <3> HIDE DEF since, after
    <3> QED
      BY <2>2, <2>3, FS_Subset
  <2>7. Total(Amount, after) \in Nat
    BY <2>6, TotalIsNat
  <2> HIDE DEF since, after
  <2>8. Total(Amount, after) <= m.daily
    BY <2>1, <2>4, <2>5, <2>7
  <2> QED
    BY <2>1, <2>8 DEF after
<1>5. \A i \in Intents : budget'[i].until <= now' + CapabilityTTL
  BY <1>2 DEF SpendInv, CheckoutInv, TypeOK
<1>6. ASSUME NEW s \in Requests PROVE SpendOK(s)' /\ MandateOK(s)'
  <2> DEFINE i == work[s].item
  <2>1. i \in Intents /\ work[s] \in Work /\ Amount[i] \in Nat
    BY SamePlace, CheckoutAssumption
  <2>2. SpendOK(s) /\ MandateOK(s)
    BY DEF SpendInv
  <2>3. Spends(s)' <=> Spends(s)
    BY DEF Spends, Ordering
  <2>4. SpendOK(s)'
    <3>1. Spends(s) => /\ work[s].until \in CapabilityTTL..(now' + CapabilityTTL)
                       /\ \A k \in DOMAIN attempts'[i] : attempts'[i][k].until + CapabilityTTL <= work[s].until
      BY <1>2, <2>2 DEF SpendOK
    <3>2. <<"budget", i>> \in locks[s] => budget'[i].status = "NONE" /\ HeldAmount' + Amount[i] <= DailyLimit
      BY <1>1, <1>2, <2>1, <2>2 DEF SpendOK
    <3> QED
      BY <2>2, <2>3, <3>1, <3>2 DEF SpendOK
  <2>5. MandateOK(s)'
    <3> SUFFICES ASSUME NEW k \in InForce', Len(mandates) = 1, Eligible(mandates[k], i),
                        work[s].until > mandates[k].from + CapabilityTTL
                 PROVE  /\ pc[s] = "reserve" => work[s].limit <= mandates[k].daily
                        /\ <<"budget", i>> \in locks[s] => HeldAmount' + Amount[i] <= mandates[k].daily
      BY DEF MandateOK, Eligible
    <3>1. k \in InForce /\ mandates[k].daily \in Nat
      BY MandateOfOne DEF InForce, Mandate, CheckoutInv
    <3> QED
      BY <1>1, <2>1, <2>2, <3>1 DEF MandateOK
  <2> QED
    BY <2>4, <2>5
<1> QED
  BY <1>3, <1>4, <1>5, <1>6 DEF SpendInv

LEMMA SpendSettles ==
  ASSUME CheckoutInv, SpendInv, NEW i \in Intents, NEW outcome \in {"COMPLETED", "FAILED"},
         SettleAttempt(i, outcome) \/ reconcile_unknown_payment(i, outcome)
  PROVE  SpendInv'
<1>1. UNCHANGED <<now, mandates, locks, pc, work>>
  BY Settling DEF CheckoutInv
<1>2. \A j \in Intents : /\ budget'[j].until = budget[j].until
                         /\ budget[j].status = "NONE" => budget'[j].status = "NONE"
                         /\ budget'[j].status = "RESERVED" => budget[j].status = "RESERVED"
                         /\ DOMAIN attempts'[j] = DOMAIN attempts[j]
                         /\ \A k \in DOMAIN attempts[j] : attempts'[j][k].until = attempts[j][k].until
  BY Settling DEF CheckoutInv
<1>3. HeldSet' \subseteq HeldSet
  BY <1>1, <1>2 DEF HeldSet, Held
<1>4. \A s \in Requests : work[s].item \in Intents
  BY SamePlace
<1>5. now \in Nat /\ InForce' = InForce
  BY <1>1 DEF CheckoutInv, TypeOK, InForce
<1>6. \A k \in DOMAIN mandates' : mandates'[k].from <= now'
  BY <1>1 DEF SpendInv
<1> QED
  BY <1>1, <1>2, <1>3, <1>4, <1>5, <1>6, SpendFewer

LEMMA SpendTicks == ASSUME CheckoutInv, SpendInv, Tick PROVE SpendInv'
<1>1. now \in Nat /\ now' = now + 1 /\ UNCHANGED <<attempts, budget, mandates, locks, pc, work>>
  BY DEF Tick, rows, CheckoutInv, TypeOK
<1>2. \A k \in DOMAIN mandates : mandates[k].from \in Nat /\ mandates[k].until \in Nat
  BY MandateOfOne DEF Mandate, CheckoutInv
<1>3. \A k \in DOMAIN mandates : mandates[k].from <= now /\ mandates'[k].from <= now'
  BY <1>1, <1>2 DEF SpendInv
<1>4. InForce' \subseteq InForce
  BY <1>1, <1>2, <1>3 DEF InForce
<1>5. HeldSet' \subseteq HeldSet
  BY <1>1 DEF HeldSet, Held, CheckoutInv, TypeOK
<1> QED
  BY <1>1, <1>3, <1>4, <1>5, SpendFewer

LEMMA SpendRevokes ==
  ASSUME CheckoutInv, SpendInv, NEW k \in DOMAIN mandates, revoke_mandate(k) PROVE SpendInv'
<1>1. /\ UNCHANGED <<now, attempts, budget, locks, pc, work>>
      /\ mandates' = [mandates EXCEPT ![k].status = "REJECTED"]
  BY DEF revoke_mandate
<1>2. mandates \in Seq(Mandate) /\ mandates[k] \in Mandate
  BY MandateOfOne DEF CheckoutInv, TypeOK
<1>3. /\ Len(mandates') = Len(mandates) /\ DOMAIN mandates' = DOMAIN mandates
      /\ mandates'[k].status = "REJECTED" /\ mandates'[k].from = mandates[k].from
      /\ \A l \in DOMAIN mandates : l # k => mandates'[l] = mandates[l]
  <2>1. mandates' = [mandates EXCEPT ![k] = [mandates[k] EXCEPT !.status = "REJECTED"]]
    BY <1>1
  <2>2. ASSUME NEW S, NEW q \in Seq(S), NEW n \in DOMAIN q, NEW e
        PROVE  LET p == [q EXCEPT ![n] = e] IN
               /\ Len(p) = Len(q) /\ DOMAIN p = DOMAIN q /\ p[n] = e
               /\ \A l \in DOMAIN q : l # n => p[l] = q[l]
    OBVIOUS
  <2>3. LET e == [mandates[k] EXCEPT !.status = "REJECTED"] IN e.status = "REJECTED" /\ e.from = mandates[k].from
    BY <1>2 DEF Mandate
  <2> DEFINE e == [mandates[k] EXCEPT !.status = "REJECTED"]
  <2>4. /\ Len(mandates') = Len(mandates) /\ DOMAIN mandates' = DOMAIN mandates /\ mandates'[k] = e
        /\ \A l \in DOMAIN mandates : l # k => mandates'[l] = mandates[l]
    <3> HIDE DEF e
    <3> QED
      BY <1>2, <2>1, <2>2 DEF e
  <2> QED
    BY <2>3, <2>4
<1>4. \A l \in InForce' : l \in InForce /\ mandates'[l] = mandates[l]
  BY <1>1, <1>3 DEF InForce
<1>5. \A l \in DOMAIN mandates' : mandates'[l].from <= now'
  BY <1>1, <1>3 DEF SpendInv
<1>6. HeldSet' = HeldSet /\ now \in Nat
  BY <1>1 DEF HeldSet, Held, CheckoutInv, TypeOK
<1> QED
  BY <1>1, <1>3, <1>4, <1>5, <1>6, SpendFewer

\* Nothing that is held or about to be began after a mandate of this moment.
LEMMA SpendMandates ==
  ASSUME CheckoutInv, BudgetInv, SpendInv, NEW t \in Terms, NEW until \in 0..MaxTime, create_mandate(t, until)
  PROVE  SpendInv'
<1> DEFINE m == [largest |-> t.largest, daily |-> t.daily, covers |-> t.covers,
                 from |-> now, until |-> until, status |-> "APPROVED"]
<1>1. UNCHANGED <<now, attempts, budget, locks, pc, work>> /\ mandates' = Append(mandates, m)
  BY DEF create_mandate
<1>2. now \in Nat /\ CapabilityTTL \in Nat /\ t.daily \in Nat
  BY CheckoutAssumption DEF CheckoutInv, TypeOK, Term
<1>3. /\ Len(mandates') = Len(mandates) + 1 /\ Len(mandates) \in Nat
      /\ \A k \in DOMAIN mandates' : \/ k = Len(mandates) + 1 /\ mandates'[k] = m
                                     \/ k \in DOMAIN mandates /\ mandates'[k] = mandates[k]
  <2>1. m \in Mandate
    BY <1>2, CheckoutAssumption DEF Term, Mandate
  <2>2. mandates \in Seq(Mandate)
    BY DEF CheckoutInv, TypeOK
  <2>3. ASSUME NEW S, NEW q \in Seq(S), NEW e \in S
        PROVE  Len(Append(q, e)) = Len(q) + 1 /\ Len(q) \in Nat
    OBVIOUS
  <2> HIDE DEF m
  <2> QED
    BY <1>1, <2>1, <2>2, <2>3, AppendOne
<1>4. \A k \in DOMAIN mandates' : mandates'[k].from <= now'
  BY <1>1, <1>2, <1>3 DEF SpendInv
<1>5. ASSUME NEW k \in InForce', Len(mandates') = 1 PROVE mandates'[k] = m
  <2>1. k \in DOMAIN mandates'
    BY DEF InForce
  <2>2. DOMAIN mandates = 1..Len(mandates)
    BY DEF CheckoutInv, TypeOK
  <2> HIDE DEF m
  <2>3. k \notin DOMAIN mandates
    <3>1. Len(mandates) \in Nat /\ Len(mandates) + 1 = 1
      BY <1>3, <1>5
    <3> QED
      BY <2>2, <3>1
  <2> QED
    BY <1>3, <2>1, <2>3
<1>6. CoveredWithinMandate'
  <2> SUFFICES ASSUME NEW k \in InForce', Len(mandates') = 1
               PROVE  Total(Amount, HeldLater(mandates'[k])) <= mandates'[k].daily
    BY LaterCovered
  <2>1. mandates'[k].daily = t.daily /\ mandates'[k].from = now
    BY <1>5
  <2>2. \A i \in Intents : budget'[i].until \in Nat /\ budget'[i].until <= now + CapabilityTTL
    BY <1>1 DEF SpendInv, CheckoutInv, TypeOK
  <2>3. HeldLater(mandates'[k]) = {}
    BY <1>2, <2>1, <2>2 DEF HeldLater
  <2> QED
    BY <1>2, <2>1, <2>3, TotalOfNone
<1>7. ReservedWithinLimit' /\ HeldAmount' = HeldAmount
  BY <1>1 DEF SpendInv, ReservedWithinLimit, HeldAmount, Held
<1>8. ASSUME NEW s \in Requests PROVE SpendOK(s)' /\ MandateOK(s)'
  <2>1. SpendOK(s)'
    BY <1>1, <1>7 DEF SpendInv, SpendOK, Spends, Ordering
  <2>2. pc[s] = "reserve" \/ <<"budget", work[s].item>> \in locks[s] => work[s].until <= now + CapabilityTTL
    <3>1. work[s].item \in Intents
      BY SamePlace
    <3>2. pc[s] = "reserve" \/ <<"budget", work[s].item>> \in locks[s] => Spends(s)
      BY <3>1 DEF BudgetInv, BudgetOK, Spends
    <3> QED
      BY <3>2 DEF SpendInv, SpendOK
  <2>3. MandateOK(s)'
    <3>1. work[s].until \in Nat
      BY SamePlace DEF Work
    <3>2. ASSUME NEW k \in InForce', Len(mandates') = 1, work[s].until > mandates'[k].from + CapabilityTTL
          PROVE  pc[s] # "reserve" /\ <<"budget", work[s].item>> \notin locks[s]
      <4>1. mandates'[k].from = now
        BY <1>5, <3>2
      <4> QED
        BY <1>2, <2>2, <3>1, <3>2, <4>1
    <3> QED
      BY <1>1, <3>2 DEF MandateOK
  <2> QED
    BY <2>1, <2>3
<1>9. \A i \in Intents : budget'[i].until <= now' + CapabilityTTL
  BY <1>1 DEF SpendInv
<1> QED
  BY <1>4, <1>6, <1>7, <1>8, <1>9 DEF SpendInv

LEMMA SpendStays ==
  ASSUME SpendInv, UNCHANGED <<now, attempts, budget, mandates, locks, pc, work>> PROVE SpendInv'
<1>1. ASSUME NEW s \in Requests PROVE SpendOK(s)' /\ MandateOK(s)'
  BY SameRoom DEF SpendInv, SpendOK, MandateOK, Spends, Ordering, Eligible
<1> QED
  BY <1>1, SameRoom DEF SpendInv

LEMMA SpendStep == CheckoutInv /\ BudgetInv /\ SpendInv /\ [Next]_vars => SpendInv'
<1> SUFFICES ASSUME CheckoutInv, BudgetInv, SpendInv, [Next]_vars PROVE SpendInv'
  OBVIOUS
<1>1. CheckoutInv' /\ BudgetInv'
  BY CheckoutStep, BudgetStep
<1>2. CASE cancel_all_intents \/ UNCHANGED vars
  BY <1>2, SpendStays DEF cancel_all_intents, vars, rows
<1>3. ASSUME NEW t \in Terms, NEW until \in 0..MaxTime, create_mandate(t, until) PROVE SpendInv'
  BY <1>3, SpendMandates
<1>4. ASSUME NEW k \in DOMAIN mandates, revoke_mandate(k) PROVE SpendInv'
  BY <1>4, SpendRevokes
<1>5. ASSUME NEW i \in Intents, NEW outcome \in {"COMPLETED", "FAILED"},
             SettleAttempt(i, outcome) \/ reconcile_unknown_payment(i, outcome)
      PROVE  SpendInv'
  BY <1>5, SpendSettles
<1>6. ASSUME NEW s \in Requests, RequestStep(s) PROVE SpendInv'
  BY <1>1, <1>6, SpendEnds, SpendBefore, SpendIssues, SpendReserves, SpendOrders, SpendCommits
     DEF RequestStep
<1>7. ASSUME NEW s \in Requests, Raise(s) PROVE SpendInv'
  BY <1>1, <1>7, SpendEnds
<1>8. ASSUME NEW s \in Requests, NEW i \in Intents, Arrive(s, i) PROVE SpendInv'
  BY <1>1, <1>8, SpendArrives
<1>9. CASE Tick
  BY <1>9, SpendTicks
<1> HIDE DEF CheckoutInv, BudgetInv, SpendInv
<1> QED
  BY <1>2, <1>3, <1>4, <1>5, <1>6, <1>7, <1>8, <1>9 DEF Next

LEMMA SpendInvariant == Spec => [](CheckoutInv /\ BudgetInv /\ SpendInv)
  BY CheckoutInit, BudgetInit, SpendInit, CheckoutStep, BudgetStep, SpendStep, PTL DEF Spec

\* However many checkouts of the user's intents reserve at the same time, the
\* reservations that count never exceed the delegation's daily limit: each of
\* them sums under the advisory lock and keeps it until its own has committed.
THEOREM LimitIsKept == Spec => []ReservedWithinLimit
<1>1. SpendInv => ReservedWithinLimit
  BY DEF SpendInv
<1> QED
  BY <1>1, SpendInvariant, PTL

\* What the only mandate covers, reserved by attempts that began after it, stays
\* within its daily limit while it is in force, although a checkout reads the
\* mandate before it waits for the advisory lock under which it sums.
THEOREM MandateIsKept == Spec => []CoveredWithinMandate
<1>1. SpendInv => CoveredWithinMandate
  BY DEF SpendInv
<1> QED
  BY <1>1, SpendInvariant, PTL

-----------------------------------------------------------------------------
(* The contract: reserving admits an attempt, committing makes it, raising *)
(* withdraws it; the advisory lock lets one of them be under way.          *)

LEMMA ContractSameHeld == HeldAmount = Contract!HeldAmount
<1>1. \A S : Total(Amount, S) = Contract!Total(Amount, S)
  BY DEF Total, Units, Cardinality, Contract!Total, Contract!Units, Contract!Cardinality
<1>2. \A i \in Intents : Held(i) = Contract!Held(i)
  BY DEF Held, Contract!Held
<1>3. {i \in Intents : Held(i)} = {i \in Intents : Contract!Held(i)}
  BY <1>2
<1> QED
  BY <1>1, <1>3 DEF HeldAmount, Contract!HeldAmount

LEMMA ContractInit == Init => Contract!Init
  BY DEF Init, Contract!Init, Admitted, Ordering

LEMMA ContractStays ==
  ASSUME UNCHANGED <<now, attempts, budget, Admitted>> PROVE [Contract!Next]_(Contract!vars)
  BY DEF Contract!vars

LEMMA SameAdmitted == ASSUME UNCHANGED <<pc, work>> PROVE Admitted' = Admitted
  BY DEF Admitted, Ordering

\* One attempt is under way at most.
LEMMA OneOrders ==
  ASSUME CheckoutInv, BudgetInv, NEW s \in Requests,
         Ordering(s) \/ Free(s, BudgetLock)
  PROVE  /\ \A o \in Requests \ {s} : ~Ordering(o)
         /\ Ordering(s) => Admitted = {[item |-> work[s].item, until |-> work[s].until]}
         /\ ~Ordering(s) => Admitted = {}
<1>1. ASSUME NEW o \in Requests \ {s}, Ordering(o) PROVE FALSE
  <2>1. BudgetLock \in locks[o]
    BY <1>1 DEF BudgetInv, BudgetOK
  <2>2. Ordering(s) => BudgetLock \in locks[s]
    BY DEF BudgetInv, BudgetOK
  <2> QED
    BY <2>1, <2>2, SamePlace DEF Free
<1> QED
  BY <1>1 DEF Admitted

\* A session's step leaves the others' attempts alone.
LEMMA AdmittedSame ==
  ASSUME TypeOK, NEW s \in Requests, RequestStep(s) \/ Raise(s) \/ \E i \in Intents : Arrive(s, i),
         Ordering(s)' <=> Ordering(s),
         Ordering(s) => work'[s].item = work[s].item /\ work'[s].until = work[s].until
  PROVE  Admitted' = Admitted
<1>1. \A o \in Requests : Ordering(o)' <=> Ordering(o)
  BY OnlyOwn DEF Ordering
<1>2. \A o \in Requests : Ordering(o) => work'[o].item = work[o].item /\ work'[o].until = work[o].until
  BY OnlyOwn
<1> QED
  BY <1>1, <1>2 DEF Admitted

LEMMA AdmittedEnds ==
  ASSUME CheckoutInv, BudgetInv, NEW s \in Requests, RequestStep(s) \/ Raise(s), EndRequest(s)
  PROVE  Admitted' = IF Ordering(s) THEN {} ELSE Admitted
<1>1. ~Ordering(s)'
  BY DEF EndRequest, Goto, Ordering, CheckoutInv, TypeOK
<1>2. CASE Ordering(s)
  <2>1. \A o \in Requests : ~Ordering(o)'
    BY <1>1, <1>2, OneOrders, OnlyOwn DEF Ordering, CheckoutInv
  <2> QED
    BY <1>2, <2>1 DEF Admitted
<1>3. CASE ~Ordering(s)
  BY <1>1, <1>3, AdmittedSame DEF CheckoutInv
<1> QED
  BY <1>2, <1>3

LEMMA ContractRaises ==
  ASSUME CheckoutInv, BudgetInv, NEW s \in Requests, Raise(s) \/ WriteDecision(s) \/ WriteCancel(s)
  PROVE  [Contract!Next]_(Contract!vars)
<1>1. EndRequest(s) /\ UNCHANGED <<now, attempts, budget>> /\ (RequestStep(s) \/ Raise(s))
  BY DEF Raise, WriteDecision, WriteCancel, rows, RequestStep
<1>2. Admitted' = {} \/ Admitted' = Admitted
  BY <1>1, AdmittedEnds
<1> QED
  BY <1>1, <1>2 DEF Contract!vars, Contract!Withdraw, Contract!Next

LEMMA ContractReserves ==
  ASSUME CheckoutInv, BudgetInv, SpendInv, NEW s \in Requests, reserve_budget(s)
  PROVE  Contract!Next
<1> DEFINE i == work[s].item
           until == work[s].until
<1>1. /\ UNCHANGED <<now, attempts, budget, work>> /\ pc[s] = "reserve" /\ pc'[s] = "order"
      /\ i \in Intents
  BY SamePlace DEF reserve_budget, rows, Goto, CheckoutInv, TypeOK
<1>2. Free(s, BudgetLock) /\ ~Ordering(s) /\ Ordering(s)'
  BY <1>1 DEF reserve_budget, Take, Ordering
<1>3. Admitted = {} /\ \A o \in Requests \ {s} : ~Ordering(o)
  BY <1>2, OneOrders
<1>4. \A o \in Requests \ {s} : ~Ordering(o)'
  BY <1>3, OnlyOwn DEF Ordering, RequestStep, CheckoutInv
<1>5. Admitted' = {[item |-> i, until |-> until]}
  BY <1>1, <1>2, <1>4 DEF Admitted
<1>6. /\ until \in 0..(now + CapabilityTTL)
      /\ \A k \in DOMAIN attempts[i] : attempts[i][k].until + CapabilityTTL <= until
  <2>1. /\ until \in CapabilityTTL..(now + CapabilityTTL)
        /\ \A k \in DOMAIN attempts[i] : attempts[i][k].until + CapabilityTTL <= until
    BY <1>1 DEF SpendInv, SpendOK, Spends
  <2>2. now \in Nat /\ CapabilityTTL \in Nat
    BY CheckoutAssumption DEF CheckoutInv, TypeOK
  <2> QED
    BY <2>1, <2>2
<1>7. \A k \in DOMAIN attempts[i] : attempts[i][k].status \notin {"COMPLETED", "FAILED"}
  <2>1. budget[i].status \in {"NONE", "RESERVED"}
    BY DEF reserve_budget
  <2>2. {"COMPLETED", "FAILED"} \subseteq TerminalStatuses
    BY DEF TerminalStatuses
  <2> QED
    BY <1>1, <2>1, <2>2 DEF BudgetInv, AttemptsReserved
<1>8. \/ budget[i].status = "RESERVED"
      \/ budget[i].status = "NONE" /\ Contract!HeldAmount + Amount[i] <= DailyLimit
  <2>1. work[s].limit <= DailyLimit
    BY <1>1 DEF SpendInv, SpendOK
  <2>2. work[s].limit \in Nat /\ DailyLimit \in Nat /\ HeldAmount \in Nat /\ Amount[i] \in Nat
    BY <1>1, SamePlace, HeldIsTotal, CheckoutAssumption DEF Work
  <2>3. CASE budget[i].status = "NONE" /\ HeldAmount + Amount[i] <= work[s].limit
    BY <2>1, <2>2, <2>3, ContractSameHeld
  <2> QED
    BY <2>3 DEF reserve_budget
<1>9. Contract!Admit(i)
  <2> HIDE DEF i, until
  <2> QED
    BY <1>1, <1>3, <1>5, <1>6, <1>7, <1>8 DEF Contract!Admit
<1> QED
  BY <1>1, <1>9 DEF Contract!Next

LEMMA ContractCommits ==
  ASSUME CheckoutInv, BudgetInv, NEW s \in Requests, CommitRequest(s)
  PROVE  [Contract!Next]_(Contract!vars)
<1> DEFINE w == work[s]
           i == w.item
           mine == <<"budget", i>> \in locks[s]
           a == [item |-> i, until |-> w.until]
<1>1. /\ EndRequest(s) /\ pc[s] = "commit" /\ now' = now
      /\ attempts' = IF w.outcome \in OrderOutcomes
                        THEN [attempts EXCEPT ![i] = Append(@, [status |-> w.outcome, until |-> w.until])]
                        ELSE attempts
      /\ budget' = IF mine THEN [budget EXCEPT ![i] = [status |-> "RESERVED", until |-> w.until]] ELSE budget
  BY DEF CommitRequest, create_transaction
<1>2. i \in Intents
  BY SamePlace
<1>3. Ordering(s) <=> w.outcome \in OrderOutcomes
  BY <1>1 DEF Ordering
<1>4. Admitted' = IF Ordering(s) THEN {} ELSE Admitted
  BY <1>1, AdmittedEnds DEF RequestStep
<1>5. CASE ~Ordering(s)
  <2>1. ~mine
    BY <1>2, <1>5 DEF BudgetInv, BudgetOK
  <2> QED
    BY <1>1, <1>3, <1>4, <1>5, <2>1, ContractStays
<1>6. CASE Ordering(s)
  <2>1. mine <=> budget[i].status = "NONE"
    BY <1>6 DEF BudgetInv, BudgetOK
  <2>2. Admitted = {a} /\ Admitted' = {} /\ a.item = i /\ a.until = w.until
    BY <1>4, <1>6, OneOrders
  <2>3. w.outcome \in {"SUBMITTED", "UNKNOWN"}
    BY <1>3, <1>6 DEF OrderOutcomes
  <2>4. attempts' = [attempts EXCEPT ![a.item] = Append(@, [status |-> w.outcome, until |-> a.until])]
    BY <1>1, <1>3, <1>6, <2>2
  <2>5. budget' = IF budget[a.item].status = "NONE"
                    THEN [budget EXCEPT ![a.item] = [status |-> "RESERVED", until |-> a.until]] ELSE budget
    BY <1>1, <2>1, <2>2
  <2>6. Contract!Attempt
    <3> HIDE DEF a, w
    <3> QED
      BY <1>1, <2>2, <2>3, <2>4, <2>5 DEF Contract!Attempt
  <2> QED
    BY <2>6 DEF Contract!Next
<1> QED
  BY <1>5, <1>6

LEMMA ContractSettles ==
  ASSUME CheckoutInv, NEW i \in Intents, NEW outcome \in {"COMPLETED", "FAILED"},
         SettleAttempt(i, outcome) \/ reconcile_unknown_payment(i, outcome)
  PROVE  Contract!Next
<1>1. PICK k \in DOMAIN attempts[i] :
        /\ can_transition(attempts[i][k].status, outcome) \/ can_transition(attempts[i][k].status, "VERIFYING")
        /\ transition_transaction(i, k, outcome)
  BY DEF SettleAttempt, reconcile_unknown_payment
<1>2. attempts[i][k].status \in {"SUBMITTED", "UNKNOWN"}
  <2>1. attempts[i][k].status \in OrderOutcomes \cup {"COMPLETED", "FAILED"}
    BY DEF CheckoutInv, AttemptsOK
  <2> QED
    BY <1>1, <2>1 DEF OrderOutcomes, can_transition, TerminalStatuses
<1>3. now' = now /\ Admitted' = Admitted
  BY Settling, SameAdmitted DEF CheckoutInv
<1>4. Contract!Settled(i, outcome)
  BY <1>1, <1>2, <1>3 DEF transition_transaction, Contract!Settled
<1> QED
  BY <1>4 DEF Contract!Next

\* The steps of a request that reserve, commit and end nothing.
LEMMA ContractWorks ==
  ASSUME CheckoutInv, BudgetInv, NEW s \in Requests,
         \/ request_consent(s) \/ InsertConsent(s) \/ ParkIntent(s) \/ ApproveIntent(s) \/ issue_capability(s)
         \/ create_order(s) \/ \E i \in Intents : Arrive(s, i)
  PROVE  [Contract!Next]_(Contract!vars)
<1>1. UNCHANGED <<now, attempts, budget>>
  BY DEF request_consent, InsertConsent, ParkIntent, ApproveIntent, issue_capability, create_order, Arrive,
         validate_intent_for_execution, request_consent_route, approve_consent, reject_consent,
         cancel_intent, rows
<1>2. CASE \E i \in Intents : Arrive(s, i)
  <2>1. pc[s] = "idle" /\ pc'[s] \in {"consent", "approve", "decide", "cancel"}
    BY <1>2 DEF Arrive, validate_intent_for_execution, request_consent_route, approve_consent, reject_consent,
                cancel_intent, Open, Goto, CheckoutInv, TypeOK
  <2>2. ~Ordering(s) /\ ~Ordering(s)'
    BY <2>1 DEF Ordering
  <2> QED
    BY <1>1, <1>2, <2>2, AdmittedSame, ContractStays DEF CheckoutInv
<1>3. CASE request_consent(s) \/ InsertConsent(s) \/ ParkIntent(s) \/ ApproveIntent(s) \/ issue_capability(s)
  <2>1. pc[s] \in {"consent", "ask", "park", "approve", "issue"}
    BY <1>3 DEF request_consent, InsertConsent, ParkIntent, ApproveIntent, issue_capability
  <2>2. ~Ordering(s) /\ ~Ordering(s)'
    BY <1>3, <2>1, BeforeOrdering DEF Ordering
  <2> QED
    BY <1>1, <1>3, <2>2, AdmittedSame, ContractStays DEF CheckoutInv, RequestStep
<1>4. CASE create_order(s)
  <2>1. PICK outcome \in OrderOutcomes : work' = [work EXCEPT ![s].outcome = outcome]
    BY <1>4 DEF create_order
  <2>2. work'[s].item = work[s].item /\ work'[s].until = work[s].until /\ work'[s].outcome = outcome
    <3>1. work'[s] = [work[s] EXCEPT !.outcome = outcome]
      BY <2>1 DEF CheckoutInv, TypeOK
    <3> QED
      BY <3>1, SamePlace DEF Work
  <2>3. pc[s] = "order" /\ pc'[s] = "commit"
    BY <1>4 DEF create_order, Goto, CheckoutInv, TypeOK
  <2>4. Ordering(s) /\ Ordering(s)'
    BY <2>1, <2>2, <2>3 DEF Ordering
  <2> QED
    BY <1>1, <1>4, <2>2, <2>4, AdmittedSame, ContractStays DEF CheckoutInv, RequestStep
<1> QED
  BY <1>2, <1>3, <1>4

LEMMA ContractStep ==
  CheckoutInv /\ BudgetInv /\ SpendInv /\ [Next]_vars => [Contract!Next]_(Contract!vars)
<1> SUFFICES ASSUME CheckoutInv, BudgetInv, SpendInv, [Next]_vars PROVE [Contract!Next]_(Contract!vars)
  OBVIOUS
<1>1. ASSUME UNCHANGED <<now, attempts, budget, pc, work>> PROVE [Contract!Next]_(Contract!vars)
  BY <1>1, SameAdmitted, ContractStays
<1>2. CASE cancel_all_intents \/ UNCHANGED vars
  BY <1>1, <1>2 DEF cancel_all_intents, vars, rows
<1>3. ASSUME NEW t, NEW until, create_mandate(t, until) PROVE [Contract!Next]_(Contract!vars)
  BY <1>1, <1>3 DEF create_mandate
<1>4. ASSUME NEW k, revoke_mandate(k) PROVE [Contract!Next]_(Contract!vars)
  BY <1>1, <1>4 DEF revoke_mandate
<1>5. ASSUME NEW i \in Intents, NEW outcome \in {"COMPLETED", "FAILED"},
             SettleAttempt(i, outcome) \/ reconcile_unknown_payment(i, outcome)
      PROVE  [Contract!Next]_(Contract!vars)
  BY <1>5, ContractSettles
<1>6. ASSUME NEW s \in Requests, RequestStep(s) \/ Raise(s) PROVE [Contract!Next]_(Contract!vars)
  BY <1>6, ContractRaises, ContractReserves, ContractCommits, ContractWorks DEF RequestStep
<1>7. ASSUME NEW s \in Requests, NEW i \in Intents, Arrive(s, i) PROVE [Contract!Next]_(Contract!vars)
  BY <1>7, ContractWorks
<1>8. CASE Tick
  BY <1>8, SameAdmitted DEF Tick, rows, Contract!Tick, Contract!Next
<1> HIDE DEF CheckoutInv, BudgetInv, SpendInv
<1> QED
  BY <1>2, <1>3, <1>4, <1>5, <1>6, <1>7, <1>8 DEF Next

\* Checkouts that run at the same time are as good as checkouts one at a time:
\* seen through clock, attempts, reservations and the attempt under way, every
\* behaviour is one in which each attempt is admitted in a single step that
\* finds the intent's capabilities lapsed, none of its payments settled, and its
\* reservation or room for one; reconciliation may settle beside it.
THEOREM CheckoutsAreAtomic == Spec => AtomicCheckout
<1>1. Init => Contract!Init
  BY ContractInit
<1>2. CheckoutInv /\ BudgetInv /\ SpendInv /\ [Next]_vars => [Contract!Next]_(Contract!vars)
  BY ContractStep
<1> QED
  BY <1>1, <1>2, SpendInvariant, PTL DEF Spec, AtomicCheckout, Contract!Spec
=============================================================================
