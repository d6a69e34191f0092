--------------------------- MODULE BuyerAgentProofs ---------------------------
(***************************************************************************)
(* What holds of chats and the creation of intents for any requests,       *)
(* products, prices, campaigns, caps and answers of the model.             *)
(*                                                                         *)
(* The cap is kept because a session that takes a use of a campaign keeps  *)
(* the campaign's row until it commits: SessionOK says that the use it     *)
(* took still fits into the cap, and that nothing it holds outlives a      *)
(* proposal that ends the chat.  RowsOK ties the counter to the holds, but *)
(* for the uses given back twice, and the holds to the intents that may be *)
(* paid; ReturnsOK says what a session that gives a use back may find.     *)
(***************************************************************************)
EXTENDS BuyerAgentProperties, FiniteSetTheorems, TLAPS

Steps == {"idle", "campaign", "insert", "audit", "commit", "llm", "tool", "proposed", "exhausted"}

Resources == ({"campaign"} \X Campaigns) \cup {AuditLock}

NoUse == [c \in Campaigns |-> 0]

Work == [kind : {"request", "chat"}, order : Order \cup {Blank.order},
         taken : [Campaigns -> Nat], made : SUBSET Intents]

Chat == [iteration : Nat, calls : Int]

\* The session took the use its order asks for and holds the campaign's row.
Took(w, held) ==
  /\ w.taken = [c \in Campaigns |-> IF c = w.order.campaign THEN 1 ELSE 0]
  /\ w.order.campaign \in Campaigns => <<"campaign", w.order.campaign>> \in held

\* What a session at a step has in memory and locked.
SessionOK(step, w, held, loop) ==
  /\ step = "idle" => w = Blank /\ loop = NoChat
  /\ step \in {"idle", "llm", "tool", "exhausted", "campaign"} =>
       held = {} /\ w.made = {} /\ w.taken = NoUse
  /\ step \in {"campaign", "insert"} => w.order \in Order /\ Acceptable(w.order)
  /\ step = "campaign" => w.order.campaign # NoCampaign
  /\ step = "insert" => w.made = {} /\ Took(w, held)
  /\ step \in {"audit", "proposed", "commit"} =>
       \/ w.made = {} /\ w.taken = NoUse
       \/ \E i \in Intents : w.made = {i} /\ intent[i].campaign = w.order.campaign /\ Took(w, held)
  /\ \A i \in w.made : intent[i].status = "DRAFT"
  /\ \A c \in Campaigns : uses[c] + w.taken[c] <= MaxUses[c]
  /\ loop.iteration <= MaxIterations
  /\ step = "llm" => loop.iteration < MaxIterations

Shape ==
  /\ pc \in [Requests -> Steps]
  /\ work \in [Requests -> Work]
  /\ locks \in [Requests -> SUBSET Resources]
  /\ chat \in [Requests -> Chat]
  /\ turns \in 0..MaxTurns

\* No lock and no uncommitted row has two owners.
Apart ==
  \A s \in Requests : \A o \in Requests \ {s} :
    locks[s] \cap locks[o] = {} /\ work[s].made \cap work[o].made = {}

SessionsOK == \A s \in Requests : SessionOK(pc[s], work[s], locks[s], chat[s])

Holding(c) == {i \in Intents : intent[i].campaign = c /\ hold[i] \in {"RESERVED", "CONSUMED"}}

\* A counter lacks a hold only for a use that was given back twice.
CountOK(c) ==
  /\ uses[c] <= Cardinality(Holding(c)) /\ Cardinality(Holding(c)) <= uses[c] + twice[c]
  /\ uses[c] <= MaxUses[c]

\* Who gives a use back read a hold of a failing payment, or an expired one.
ReturnsOK ==
  /\ returning \subseteq Settlers \X Intents
  /\ twice \in [Campaigns -> Nat]
  /\ \A i \in Intents : hold[i] # "NONE" => intent[i].campaign \in Campaigns
  /\ \A i \in Intents :
       <<"payment", i>> \in returning => hold[i] # "NONE" /\ intent[i].status = "SUBMITTED"
  /\ \A i \in Intents :
       <<"janitor", i>> \in returning => hold[i] # "NONE" /\ intent[i].until <= now

\* What the rows say of each other.
RowsOK ==
  /\ now \in 0..MaxTime
  /\ uses \in [Campaigns -> Nat]
  /\ intent \in [Intents -> IntentRow]
  /\ hold \in [Intents -> {"NONE", "RESERVED", "CONSUMED", "RELEASED"}]
  /\ \A i \in Intents : intent[i] = Absent \/
       (intent[i].amount \in Money /\ intent[i].final \in 1..intent[i].amount)
  /\ \A i \in Intents : hold[i] # "NONE" => Committed(i)
  /\ \A i \in Intents :
       /\ Committed(i) /\ intent[i].campaign \in Campaigns
       /\ intent[i].status # "FAILED" /\ intent[i].until > now
       => hold[i] \in {"RESERVED", "CONSUMED"}
  /\ \A c \in Campaigns : CountOK(c)
  /\ ReturnsOK

AgentInv == RowsOK /\ Shape /\ Apart /\ SessionsOK

-----------------------------------------------------------------------------
LEMMA Numbers ==
  /\ MaxIterations \in Nat /\ MaxIterations > 0 /\ MaxTurns \in Nat /\ MaxTime \in Nat
  /\ IntentTTL \in Nat /\ MaxAmount \in Nat /\ IsFiniteSet(Intents)
  /\ \A c \in Campaigns : MaxUses[c] \in Nat /\ Value[c] \in Nat /\ MaxDiscount[c] \in Nat
  /\ NoCampaign \notin Campaigns
  BY IntentCreationAssumption, BuyerAgentAssumption

LEMMA BlankIsWork ==
  /\ Blank \in Work /\ Blank.made = {} /\ Blank.taken = NoUse
  /\ NoChat \in Chat /\ NoChat.iteration = 0
  BY DEF Blank, Work, NoUse, NoChat, Chat

LEMMA FiniteHolding == ASSUME NEW c PROVE IsFiniteSet(Holding(c)) /\ Cardinality(Holding(c)) \in Nat
<1>1. Holding(c) \in SUBSET Intents
  BY DEF Holding
<1>2. IsFiniteSet(Holding(c))
  BY <1>1, Numbers, FS_Subset
<1> QED
  BY <1>2, FS_CardinalityType

LEMMA AgentInit == Init => AgentInv
<1> SUFFICES ASSUME Init PROVE AgentInv
  OBVIOUS
<1>1. Shape /\ Apart
  BY BlankIsWork, Numbers DEF Init, InitRows, Shape, Apart, Steps
<1>2. SessionsOK
  <2> SUFFICES ASSUME NEW s \in Requests PROVE SessionOK("idle", Blank, {}, NoChat)
    BY DEF Init, InitRows, SessionsOK
  <2>1. \A c \in Campaigns : uses[c] + Blank.taken[c] <= MaxUses[c]
    BY BlankIsWork, Numbers DEF Init, InitRows, NoUse
  <2> QED
    BY <2>1, BlankIsWork, Numbers DEF SessionOK
<1>3. RowsOK
  <2>1. Absent \in IntentRow /\ Absent.status = "NONE"
    BY DEF Absent, IntentRow
  <2>2. \A i \in Intents : intent[i] = Absent /\ hold[i] = "NONE"
    BY DEF Init, InitRows
  <2>3. ASSUME NEW c \in Campaigns PROVE CountOK(c)
    <3>1. Holding(c) = {}
      BY <2>2 DEF Holding
    <3>2. Cardinality(Holding(c)) = 0 /\ uses[c] = 0 /\ twice[c] = 0 /\ MaxUses[c] \in Nat
      BY <3>1, Numbers, FS_EmptySet DEF Init, InitRows
    <3> QED
      BY <3>2 DEF CountOK
  <2>4. ReturnsOK
    BY <2>2 DEF Init, InitRows, ReturnsOK
  <2> QED
    BY <2>1, <2>2, <2>3, <2>4, Numbers DEF Init, InitRows, RowsOK, Committed
<1> QED
  BY <1>1, <1>2, <1>3 DEF AgentInv

\* What a session has, by its step.
LEMMA SessionOf ==
  ASSUME AgentInv, NEW s \in Requests
  PROVE  /\ pc[s] \in Steps /\ work[s] \in Work /\ locks[s] \in SUBSET Resources /\ chat[s] \in Chat
         /\ SessionOK(pc[s], work[s], locks[s], chat[s])
         /\ \A o \in Requests \ {s} : locks[s] \cap locks[o] = {} /\ work[s].made \cap work[o].made = {}
  BY DEF AgentInv, Shape, SessionsOK, Apart

LEMMA TakenIsLocked ==
  ASSUME AgentInv, NEW s \in Requests, NEW c \in Campaigns
  PROVE  /\ work[s].taken[c] \in {0, 1}
         /\ work[s].taken[c] = 1 => <<"campaign", c>> \in locks[s]
<1>1. work[s].taken = NoUse \/ Took(work[s], locks[s])
  BY SessionOf DEF SessionOK, Steps
<1>2. CASE work[s].taken = NoUse
  BY <1>2 DEF NoUse
<1>3. CASE Took(work[s], locks[s])
  BY <1>3 DEF Took
<1> QED
  BY <1>1, <1>2, <1>3

\* A session that keeps what it has, while its rows and the room it found stay.
LEMMA OtherSession ==
  ASSUME AgentInv, NEW o \in Requests,
         pc'[o] = pc[o], work'[o] = work[o], locks'[o] = locks[o], chat'[o] = chat[o],
         \A i \in work[o].made : intent'[i] = intent[i],
         \A c \in Campaigns : uses'[c] + work[o].taken[c] <= MaxUses[c]
  PROVE  SessionOK(pc[o], work[o], locks[o], chat[o])'
<1>1. SessionOK(pc[o], work[o], locks[o], chat[o])
  BY SessionOf
<1>2. \A i \in work[o].made : intent'[i].status = intent[i].status /\ intent'[i].campaign = intent[i].campaign
  OBVIOUS
<1> QED
  BY <1>1, <1>2 DEF SessionOK, Took, Acceptable

\* The counters and holds stay.
LEMMA CountStays ==
  ASSUME NEW c \in Campaigns, CountOK(c), Holding(c)' = Holding(c), UNCHANGED <<uses, twice>>
  PROVE  CountOK(c)'
<1>1. Cardinality(Holding(c))' = Cardinality(Holding(c))
  OBVIOUS
<1> QED
  BY <1>1 DEF CountOK

\* Who gives a use back finds what it read, while rows that have a hold keep it,
\* their campaign and their expiry.
LEMMA ReturnsStay ==
  ASSUME RowsOK, UNCHANGED returns, now' \in Nat, now <= now',
         \A i \in Intents : hold[i] # "NONE" =>
           /\ hold'[i] # "NONE" /\ intent'[i].campaign = intent[i].campaign
           /\ intent'[i].until = intent[i].until
           /\ <<"payment", i>> \in returning => intent'[i].status = intent[i].status,
         \A i \in Intents : hold[i] = "NONE" /\ hold'[i] # "NONE" => intent'[i].campaign \in Campaigns
  PROVE  ReturnsOK'
<1>1. returning' = returning /\ twice' = twice
  BY DEF returns
<1>2. now \in Nat /\ \A i \in Intents : intent[i].until \in Nat
  BY Numbers DEF RowsOK, IntentRow
<1>3. ASSUME NEW i \in Intents
      PROVE  /\ hold'[i] # "NONE" => intent'[i].campaign \in Campaigns
             /\ <<"payment", i>> \in returning => hold'[i] # "NONE" /\ intent'[i].status = "SUBMITTED"
             /\ <<"janitor", i>> \in returning => hold'[i] # "NONE" /\ intent'[i].until <= now'
  <2>1. intent[i].until <= now => intent[i].until <= now'
    BY <1>2
  <2> QED
    BY <2>1 DEF RowsOK, ReturnsOK
<1> QED
  BY <1>1, <1>3 DEF RowsOK, ReturnsOK

LEMMA RowsStay == ASSUME RowsOK, UNCHANGED <<now, rows>> PROVE RowsOK'
<1>1. UNCHANGED <<now, uses, intent, hold, returning, twice>>
  BY DEF rows, returns
<1>2. \A c \in Campaigns : CountOK(c)'
  <2>1. \A c \in Campaigns : Holding(c)' = Holding(c)
    BY <1>1 DEF Holding
  <2> QED
    BY <1>1, <2>1, CountStays DEF RowsOK
<1>3. ReturnsOK'
  BY <1>1 DEF RowsOK, ReturnsOK
<1> QED
  BY <1>1, <1>2, <1>3 DEF RowsOK, Committed

\* A session goes on, and no row changes.
LEMMA GoOn ==
  ASSUME AgentInv, NEW s \in Requests, UNCHANGED <<now, rows>>, turns' \in 0..MaxTurns,
         NEW step \in Steps, NEW w \in Work, NEW held \in SUBSET Resources, NEW loop \in Chat,
         pc' = [pc EXCEPT ![s] = step], work' = [work EXCEPT ![s] = w],
         locks' = [locks EXCEPT ![s] = held], chat' = [chat EXCEPT ![s] = loop],
         w.made \subseteq work[s].made,
         \A o \in Requests \ {s} : held \cap locks[o] = {},
         SessionOK(step, w, held, loop)
  PROVE  AgentInv'
<1>1. UNCHANGED <<uses, intent>>
  BY DEF rows
<1>2. /\ pc'[s] = step /\ work'[s] = w /\ locks'[s] = held /\ chat'[s] = loop
      /\ \A o \in Requests \ {s} :
           pc'[o] = pc[o] /\ work'[o] = work[o] /\ locks'[o] = locks[o] /\ chat'[o] = chat[o]
  BY DEF AgentInv, Shape
<1>3. Shape'
  BY DEF AgentInv, Shape
<1>4. Apart'
  BY <1>2 DEF AgentInv, Apart
<1>5. ASSUME NEW o \in Requests PROVE SessionOK(pc[o], work[o], locks[o], chat[o])'
  <2>1. CASE o = s
    BY <1>1, <1>2, <2>1 DEF SessionOK, Took, Acceptable
  <2>2. CASE o # s
    <3>1. \A c \in Campaigns : uses'[c] + work[o].taken[c] <= MaxUses[c]
      BY <1>1, SessionOf DEF SessionOK
    <3> QED
      BY <1>1, <1>2, <2>2, <3>1, OtherSession
  <2> QED
    BY <2>1, <2>2
<1> QED
  BY <1>3, <1>4, <1>5, RowsStay DEF AgentInv, SessionsOK

\* A session goes to another step, and keeps its memory and its locks.
LEMMA WalkOn ==
  ASSUME AgentInv, NEW s \in Requests, UNCHANGED <<now, rows, locks, work>>, turns' \in 0..MaxTurns,
         NEW step \in Steps, NEW loop \in Chat,
         pc' = [pc EXCEPT ![s] = step], chat' = [chat EXCEPT ![s] = loop],
         SessionOK(step, work[s], locks[s], loop)
  PROVE  AgentInv'
<1>1. /\ work[s] \in Work /\ locks[s] \in SUBSET Resources
      /\ \A o \in Requests \ {s} : locks[s] \cap locks[o] = {}
  BY SessionOf
<1>2. locks' = [locks EXCEPT ![s] = locks[s]] /\ work' = [work EXCEPT ![s] = work[s]]
  BY DEF AgentInv, Shape
<1> DEFINE w == work[s]
           held == locks[s]
<1>3. w \in Work /\ held \in SUBSET Resources /\ w.made \subseteq work[s].made
  BY <1>1
<1>4. SessionOK(step, w, held, loop)
  OBVIOUS
<1>5. locks' = [locks EXCEPT ![s] = held] /\ work' = [work EXCEPT ![s] = w]
  BY <1>2
<1>6. \A o \in Requests \ {s} : held \cap locks[o] = {}
  BY <1>1
<1> HIDE DEF w, held
<1> QED
  BY <1>3, <1>4, <1>5, <1>6, GoOn

LEMMA TurnKept == ASSUME AgentInv, append_session_turn PROVE turns' \in 0..MaxTurns
  BY Numbers DEF AgentInv, Shape, append_session_turn, Lesser

LEMMA TurnSame == ASSUME AgentInv, UNCHANGED turns PROVE turns' \in 0..MaxTurns
  BY DEF AgentInv, Shape

LEMMA LoopSame ==
  ASSUME AgentInv, NEW s \in Requests, UNCHANGED chat PROVE chat' = [chat EXCEPT ![s] = chat[s]]
  BY DEF AgentInv, Shape

LEMMA ChatBegins ==
  ASSUME AgentInv, NEW s \in Requests, run_buyer_agent(s) PROVE AgentInv'
<1>1. /\ pc[s] = "idle" /\ work[s] = Blank /\ chat[s] = NoChat /\ locks[s] = {}
      /\ SessionOK("idle", Blank, {}, NoChat)
  BY SessionOf DEF run_buyer_agent, SessionOK
<1> DEFINE w == [work[s] EXCEPT !.kind = "chat"]
<1>2. w \in Work /\ w.made = {} /\ w.taken = NoUse /\ w.made \subseteq work[s].made
  BY <1>1, BlankIsWork DEF Work
<1>3. SessionOK("llm", w, {}, NoChat)
  <2>1. \A c \in Campaigns : uses[c] + w.taken[c] <= MaxUses[c]
    BY <1>1, <1>2, BlankIsWork DEF SessionOK
  <2> QED
    BY <2>1, <1>2, BlankIsWork, Numbers DEF SessionOK
<1>4. work' = [work EXCEPT ![s] = w] /\ pc' = [pc EXCEPT ![s] = "llm"]
  BY DEF run_buyer_agent, Goto
<1>5. locks' = [locks EXCEPT ![s] = {}] /\ chat' = [chat EXCEPT ![s] = NoChat]
  BY <1>1 DEF run_buyer_agent, AgentInv, Shape
<1>6. turns' \in 0..MaxTurns /\ UNCHANGED <<now, rows>>
  BY TurnKept DEF run_buyer_agent
<1>7. "llm" \in Steps /\ NoChat \in Chat /\ {} \in SUBSET Resources
  BY BlankIsWork DEF Steps
<1>8. \A o \in Requests \ {s} : {} \cap locks[o] = {}
  OBVIOUS
<1> HIDE DEF w
<1> QED
  BY <1>2, <1>3, <1>4, <1>5, <1>6, <1>7, <1>8, GoOn

LEMMA ModelAnswers ==
  ASSUME AgentInv, NEW s \in Requests, call_llm(s) PROVE AgentInv'
<1>1. PICK n \in ToolCalls : chat' = [chat EXCEPT ![s] = [iteration |-> @.iteration + 1, calls |-> n]]
  BY DEF call_llm
<1> DEFINE loop == [iteration |-> chat[s].iteration + 1, calls |-> n]
<1>2. pc[s] = "llm" /\ SessionOK("llm", work[s], locks[s], chat[s]) /\ chat[s] \in Chat
  BY SessionOf DEF call_llm
<1>3. loop \in Chat /\ loop.iteration <= MaxIterations
  BY <1>2, Numbers, BuyerAgentAssumption DEF Chat, ToolCalls, SessionOK
<1>4. SessionOK("tool", work[s], locks[s], loop)
  BY <1>2, <1>3 DEF SessionOK
<1>5. chat' = [chat EXCEPT ![s] = loop] /\ pc' = [pc EXCEPT ![s] = "tool"] /\ "tool" \in Steps
  BY <1>1 DEF call_llm, Goto, Steps, AgentInv, Shape
<1>6. turns' \in 0..MaxTurns /\ UNCHANGED <<now, rows, locks, work>>
  BY TurnSame DEF call_llm
<1> HIDE DEF loop
<1> QED
  BY <1>3, <1>4, <1>5, <1>6, WalkOn

\* An answer, a proposal or the last iteration sends the session to its commit.
LEMMA ChatEnds ==
  ASSUME AgentInv, NEW s \in Requests, AnswerText(s) \/ Proposed(s) \/ Exhausted(s) PROVE AgentInv'
<1>1. /\ pc[s] \in {"llm", "proposed", "exhausted"} /\ pc' = [pc EXCEPT ![s] = "commit"]
      /\ append_session_turn /\ UNCHANGED <<now, rows, locks, work, chat>>
  BY DEF AnswerText, Proposed, Exhausted, Goto
<1>2. SessionOK(pc[s], work[s], locks[s], chat[s]) /\ chat[s] \in Chat /\ "commit" \in Steps
  BY SessionOf DEF Steps
<1>3. SessionOK("commit", work[s], locks[s], chat[s])
  BY <1>1, <1>2 DEF SessionOK
<1> QED
  BY <1>1, <1>2, <1>3, TurnKept, LoopSame, WalkOn

LEMMA ToolAnswers ==
  ASSUME AgentInv, NEW s \in Requests, _execute_tool(s) PROVE AgentInv'
<1> DEFINE loop == [chat[s] EXCEPT !.calls = @ - 1]
           step == IF chat[s].calls > 1 THEN "tool"
                   ELSE IF chat[s].iteration < MaxIterations THEN "llm" ELSE "exhausted"
<1>1. pc[s] = "tool" /\ SessionOK("tool", work[s], locks[s], chat[s]) /\ chat[s] \in Chat
  BY SessionOf DEF _execute_tool
<1>2. loop \in Chat /\ loop.iteration = chat[s].iteration /\ step \in Steps
  BY <1>1 DEF Chat, Steps
<1>3. /\ step \in {"tool", "llm", "exhausted"}
      /\ step = "llm" => chat[s].iteration < MaxIterations
  OBVIOUS
<1> HIDE DEF step
<1>4. SessionOK(step, work[s], locks[s], loop)
  BY <1>1, <1>2, <1>3 DEF SessionOK
<1>5. chat' = [chat EXCEPT ![s] = loop] /\ pc' = [pc EXCEPT ![s] = step]
  BY DEF _execute_tool, NextCall, Goto, step, AgentInv, Shape
<1>6. turns' \in 0..MaxTurns /\ UNCHANGED <<now, rows, locks, work>>
  BY TurnSame DEF _execute_tool
<1> HIDE DEF loop
<1> QED
  BY <1>2, <1>4, <1>5, <1>6, WalkOn

\* create_intent begins, in a request of its own or in the session of a chat.
LEMMA CreateBegins ==
  ASSUME AgentInv, NEW s \in Requests, pc[s] \in {"idle", "tool"},
         NEW kind \in {"request", "chat"}, NEW order \in Order, NEW proposed,
         create_intent(s, kind, order, proposed), UNCHANGED chatVars
  PROVE  AgentInv'
<1> DEFINE w == [work[s] EXCEPT !.kind = kind, !.order = order]
           step == IF order.campaign = NoCampaign THEN "insert" ELSE "campaign"
<1>1. /\ SessionOK(pc[s], work[s], locks[s], chat[s]) /\ work[s] \in Work /\ chat[s] \in Chat
      /\ locks[s] = {} /\ work[s].made = {} /\ work[s].taken = NoUse
  BY SessionOf DEF SessionOK
<1>2. /\ w \in Work /\ w.order = order /\ w.made = {} /\ w.taken = NoUse /\ w.made \subseteq work[s].made
  BY <1>1 DEF Work
<1>3. step \in Steps
  BY DEF Steps
<1>4. SessionOK(step, w, {}, chat[s])
  <2>1. Acceptable(order) /\ order \in Order /\ order.campaign \in Campaigns \cup {NoCampaign}
    BY DEF create_intent, Order
  <2>2. \A c \in Campaigns : uses[c] + w.taken[c] <= MaxUses[c]
    BY <1>1, <1>2 DEF SessionOK
  <2>3. order.campaign = NoCampaign => Took(w, {})
    BY <1>2, Numbers DEF Took, NoUse
  <2>4. chat[s].iteration <= MaxIterations
    BY <1>1 DEF SessionOK
  <2> HIDE DEF w
  <2> QED
    BY <1>2, <2>1, <2>2, <2>3, <2>4 DEF SessionOK
<1>5. work' = [work EXCEPT ![s] = w] /\ pc' = [pc EXCEPT ![s] = step]
  BY DEF create_intent, Goto, AgentInv, Shape
<1>6. locks' = [locks EXCEPT ![s] = {}] /\ chat' = [chat EXCEPT ![s] = chat[s]]
  BY <1>1, LoopSame DEF create_intent, chatVars, AgentInv, Shape
<1>7. turns' \in 0..MaxTurns /\ UNCHANGED <<now, rows>>
  BY TurnSame DEF create_intent, chatVars
<1>8. \A o \in Requests \ {s} : {} \cap locks[o] = {}
  OBVIOUS
<1> HIDE DEF w, step
<1> QED
  BY <1>1, <1>2, <1>3, <1>4, <1>5, <1>6, <1>7, <1>8, GoOn

LEMMA Proposes ==
  ASSUME AgentInv, NEW s \in Requests, _tool_propose_intent(s) PROVE AgentInv'
<1>1. PICK order \in Order : create_intent(s, "chat", order, CanonicalAmount(order))
  BY DEF _tool_propose_intent
<1> QED
  BY <1>1, CreateBegins DEF _tool_propose_intent

LEMMA Arrives ==
  ASSUME AgentInv, NEW s \in Requests, Arrive(s), UNCHANGED chatVars PROVE AgentInv'
<1>0. PICK order \in Order : \E proposed \in {CanonicalAmount(order), 1} :
        \/ create_intent_route(s, order, proposed)
        \/ \E protocol \in Protocols : ingest_protocol_intent(s, protocol, order, proposed)
  BY DEF Arrive
<1>1. PICK proposed :
        \/ create_intent_route(s, order, proposed)
        \/ \E protocol \in Protocols : ingest_protocol_intent(s, protocol, order, proposed)
  BY <1>0
<1>2. CASE create_intent_route(s, order, proposed)
  BY <1>2, CreateBegins DEF create_intent_route
<1>3. CASE \E protocol \in Protocols : ingest_protocol_intent(s, protocol, order, proposed)
  <2>1. PICK protocol \in Protocols : ingest_protocol_intent(s, protocol, order, proposed)
    BY <1>3
  <2>2. to_create_intent_request(protocol, order) \in Order
    BY DEF to_create_intent_request, WithoutCampaign, Order
  <2> QED
    BY <2>1, <2>2, CreateBegins DEF ingest_protocol_intent
<1> QED
  BY <1>1, <1>2, <1>3

\* The use is taken under the row's lock, which no other session has: nobody
\* else counts on the same room.
LEMMA TakesUse ==
  ASSUME AgentInv, NEW s \in Requests, TakeUse(s), UNCHANGED chatVars PROVE AgentInv'
<1> DEFINE c == work[s].order.campaign
           w == [work[s] EXCEPT !.taken[c] = @ + 1]
           held == locks[s] \cup {<<"campaign", c>>}
<1>1. /\ pc[s] = "campaign" /\ SessionOK("campaign", work[s], locks[s], chat[s])
      /\ work[s] \in Work /\ chat[s] \in Chat
  BY SessionOf DEF TakeUse
<1>2. /\ locks[s] = {} /\ work[s].made = {} /\ work[s].taken = NoUse
      /\ work[s].order \in Order /\ Acceptable(work[s].order) /\ c \in Campaigns
  BY <1>1 DEF SessionOK, Order
<1>3. /\ w \in Work /\ w.order = work[s].order /\ w.made = {}
      /\ w.taken = [k \in Campaigns |-> IF k = c THEN 1 ELSE 0]
  BY <1>1, <1>2 DEF Work, NoUse
<1>4. held \in SUBSET Resources /\ <<"campaign", c>> \in held
  BY <1>2 DEF Resources
<1>5. SessionOK("insert", w, held, chat[s])
  <2>1. \A k \in Campaigns : uses[k] + w.taken[k] <= MaxUses[k]
    <3> SUFFICES ASSUME NEW k \in Campaigns PROVE uses[k] + w.taken[k] <= MaxUses[k]
      OBVIOUS
    <3>1. uses[k] \in Nat /\ MaxUses[k] \in Nat
      BY Numbers DEF AgentInv, RowsOK
    <3>2. uses[k] + work[s].taken[k] <= MaxUses[k] /\ work[s].taken[k] = 0
      BY <1>1, <1>2 DEF SessionOK, NoUse
    <3>3. uses[c] + work[s].taken[c] < MaxUses[c] /\ work[s].taken[c] = 0
      BY <1>2 DEF TakeUse, NoUse
    <3> HIDE DEF c, w
    <3> QED
      BY <3>1, <3>2, <3>3, <1>3
  <2>2. Took(w, held)
    BY <1>3, <1>4 DEF Took
  <2>3. chat[s].iteration <= MaxIterations
    BY <1>1 DEF SessionOK
  <2> HIDE DEF c, w, held
  <2> QED
    BY <2>1, <2>2, <2>3, <1>2, <1>3 DEF SessionOK
<1>6. work' = [work EXCEPT ![s] = w] /\ pc' = [pc EXCEPT ![s] = "insert"]
  BY DEF TakeUse, Goto, AgentInv, Shape
<1>7. locks' = [locks EXCEPT ![s] = held] /\ chat' = [chat EXCEPT ![s] = chat[s]]
  BY LoopSame DEF TakeUse, Take, chatVars
<1>8. turns' \in 0..MaxTurns /\ UNCHANGED <<now, rows>> /\ "insert" \in Steps
  BY TurnSame DEF TakeUse, chatVars, Steps
<1>9. \A o \in Requests \ {s} : held \cap locks[o] = {}
  BY SessionOf DEF TakeUse, Take, Free
<1>10. w.made \subseteq work[s].made
  BY <1>3
<1> HIDE DEF c, w, held
<1> QED
  BY <1>1, <1>3, <1>4, <1>5, <1>6, <1>7, <1>8, <1>9, <1>10, GoOn

LEMMA LocksAudit ==
  ASSUME AgentInv, NEW s \in Requests, LockAudit(s), UNCHANGED chatVars PROVE AgentInv'
<1> DEFINE w == work[s]
           held == locks[s] \cup {AuditLock}
           step == IF work[s].kind = "chat" THEN "proposed" ELSE "commit"
<1>1. /\ pc[s] = "audit" /\ SessionOK("audit", work[s], locks[s], chat[s])
      /\ w \in Work /\ chat[s] \in Chat /\ w.made \subseteq work[s].made
  BY SessionOf DEF LockAudit
<1>2. held \in SUBSET Resources /\ step \in {"proposed", "commit"}
  BY SessionOf DEF Resources
<1>3. \A o \in Requests \ {s} : held \cap locks[o] = {}
  BY SessionOf DEF LockAudit, Take, Free
<1>4. work' = [work EXCEPT ![s] = w] /\ pc' = [pc EXCEPT ![s] = step]
  BY DEF LockAudit, Goto, AgentInv, Shape
<1>5. locks' = [locks EXCEPT ![s] = held] /\ chat' = [chat EXCEPT ![s] = chat[s]]
  BY LoopSame DEF LockAudit, Take, chatVars
<1>6. turns' \in 0..MaxTurns /\ UNCHANGED <<now, rows>>
  BY TurnSame DEF LockAudit, chatVars
<1> HIDE DEF step
<1>7. SessionOK(step, w, held, chat[s])
  BY <1>1, <1>2 DEF SessionOK, Took
<1>8. step \in Steps
  BY <1>2 DEF Steps
<1> HIDE DEF w, held
<1> QED
  BY <1>1, <1>2, <1>3, <1>4, <1>5, <1>6, <1>7, <1>8, GoOn

-----------------------------------------------------------------------------
(* The steps that change rows.                                             *)

\* A session acts on rows that no other session made, and leaves the room the
\* others found.
LEMMA RowsChange ==
  ASSUME AgentInv, NEW s \in Requests, RowsOK', Shape', Apart',
         \A o \in Requests \ {s} :
           pc'[o] = pc[o] /\ work'[o] = work[o] /\ locks'[o] = locks[o] /\ chat'[o] = chat[o],
         \A o \in Requests \ {s} : \A i \in work[o].made : intent'[i] = intent[i],
         \A o \in Requests \ {s} : \A c \in Campaigns : uses'[c] + work[o].taken[c] <= MaxUses[c],
         SessionOK(pc[s], work[s], locks[s], chat[s])'
  PROVE  AgentInv'
<1>1. ASSUME NEW o \in Requests PROVE SessionOK(pc[o], work[o], locks[o], chat[o])'
  <2>1. CASE o = s
    BY <2>1
  <2>2. CASE o # s
    BY <2>2, OtherSession
  <2> QED
    BY <2>1, <2>2
<1> QED
  BY <1>1 DEF AgentInv, SessionsOK

\* No session acts.
LEMMA OnlyRows ==
  ASSUME AgentInv, RowsOK', UNCHANGED <<locks, pc, work, chatVars>>,
         \A o \in Requests : \A i \in work[o].made : intent'[i] = intent[i],
         \A c \in Campaigns : uses'[c] <= uses[c]
  PROVE  AgentInv'
<1>1. Shape' /\ Apart'
  BY DEF AgentInv, Shape, Apart, chatVars
<1>2. ASSUME NEW o \in Requests PROVE SessionOK(pc[o], work[o], locks[o], chat[o])'
  <2>1. pc'[o] = pc[o] /\ work'[o] = work[o] /\ locks'[o] = locks[o] /\ chat'[o] = chat[o]
    BY DEF chatVars
  <2>2. ASSUME NEW c \in Campaigns PROVE uses'[c] + work[o].taken[c] <= MaxUses[c]
    <3>1. uses[c] + work[o].taken[c] <= MaxUses[c]
      BY SessionOf DEF SessionOK
    <3>2. uses[c] \in Nat /\ uses'[c] \in Nat /\ MaxUses[c] \in Nat
      BY Numbers DEF AgentInv, RowsOK
    <3>3. work[o].taken[c] \in Nat
      BY SessionOf DEF Work
    <3> QED
      BY <3>1, <3>2, <3>3
  <2> QED
    BY <2>1, <2>2, OtherSession
<1> QED
  BY <1>1, <1>2 DEF AgentInv, SessionsOK

\* What a session made and did not commit has no hold.
LEMMA Drafts ==
  ASSUME AgentInv, NEW s \in Requests, NEW i \in work[s].made
  PROVE  i \in Intents /\ intent[i].status = "DRAFT" /\ hold[i] = "NONE" /\ ~Committed(i)
<1>1. SessionOK(pc[s], work[s], locks[s], chat[s]) /\ work[s] \in Work
  BY SessionOf
<1>2. i \in Intents /\ intent[i].status = "DRAFT"
  BY <1>1 DEF SessionOK, Work
<1> QED
  BY <1>2 DEF AgentInv, RowsOK, Committed

LEMMA Discounts ==
  ASSUME NEW c \in Campaigns \cup {NoCampaign}, NEW amount \in Nat PROVE Discount(c, amount) \in Nat
<1>1. CASE c = NoCampaign
  BY <1>1 DEF Discount
<1>2. CASE c \in Campaigns
  <2>1. Value[c] \in Nat /\ MaxDiscount[c] \in Nat /\ c # NoCampaign
    BY <1>2, Numbers
  <2>2. amount * Value[c] \in Nat
    BY <2>1
  <2>3. (amount * Value[c]) \div 100 \in Nat
    BY <2>2
  <2> QED
    BY <2>1, <2>3 DEF Discount, Lesser
<1> QED
  BY <1>1, <1>2

LEMMA Inserts ==
  ASSUME AgentInv, NEW s \in Requests, InsertIntent(s), UNCHANGED chatVars PROVE AgentInv'
<1> DEFINE order == work[s].order
           amount == CanonicalAmount(order)
<1>1. PICK i \in Intents, final \in subtract_discount(amount, Discount(order.campaign, amount)) :
        /\ intent[i] = Absent
        /\ intent' = [intent EXCEPT ![i] =
                        [status |-> "DRAFT", amount |-> amount, final |-> final,
                         campaign |-> order.campaign, until |-> now + IntentTTL]]
        /\ work' = [work EXCEPT ![s].made = @ \cup {i}]
  BY DEF InsertIntent
<1> DEFINE row == [status |-> "DRAFT", amount |-> amount, final |-> final,
                   campaign |-> order.campaign, until |-> now + IntentTTL]
<1>2. /\ pc[s] = "insert" /\ SessionOK("insert", work[s], locks[s], chat[s])
      /\ work[s] \in Work /\ chat[s] \in Chat
  BY SessionOf DEF InsertIntent
<1>3. /\ order \in Order /\ order.campaign \in Campaigns \cup {NoCampaign} /\ amount \in Money
      /\ work[s].made = {} /\ Took(work[s], locks[s])
  BY <1>2 DEF SessionOK, Order, Acceptable
<1>4. row \in IntentRow /\ final \in 1..amount
  <2>1. amount \in Nat /\ amount > 0
    BY <1>3, Numbers DEF Money
  <2>2. Discount(order.campaign, amount) \in Nat
    BY <1>3, <2>1, Discounts
  <2> DEFINE d == Discount(order.campaign, amount)
  <2>3. final = amount - d /\ d < amount
    BY DEF subtract_discount
  <2>4. now \in Nat /\ IntentTTL \in Nat
    BY Numbers DEF AgentInv, RowsOK
  <2> HIDE DEF amount, d
  <2>5. final \in 1..amount /\ final \in Nat
    BY <2>1, <2>2, <2>3 DEF d
  <2> QED
    BY <1>3, <2>1, <2>4, <2>5 DEF IntentRow
<1>5. /\ UNCHANGED <<now, uses, hold, twice, locks, chat, turns>> /\ UNCHANGED returns
      /\ pc' = [pc EXCEPT ![s] = "audit"]
  BY DEF InsertIntent, Goto, chatVars, returns
<1>6. /\ work'[s] = [work[s] EXCEPT !.made = {i}] /\ work'[s] \in Work
      /\ work'[s].made = {i} /\ work'[s].order = order /\ work'[s].taken = work[s].taken
      /\ \A o \in Requests \ {s} : work'[o] = work[o]
  BY <1>1, <1>2, <1>3 DEF AgentInv, Shape, Work
<1>7. ASSUME NEW o \in Requests PROVE i \notin work[o].made
  BY <1>1, Drafts DEF Absent
<1>8. intent'[i] = row /\ \A j \in Intents \ {i} : intent'[j] = intent[j]
  BY <1>1 DEF AgentInv, RowsOK
<1>9. hold[i] = "NONE"
  BY <1>1 DEF AgentInv, RowsOK, Committed, Absent
<1>10. RowsOK'
  <2>1. intent' \in [Intents -> IntentRow]
    BY <1>1, <1>4 DEF AgentInv, RowsOK
  <2>2. row.status = "DRAFT" /\ row.amount = amount /\ row.final = final
    OBVIOUS
  <2> HIDE DEF row, amount, order
  <2>3. ~Committed(i)' /\ \A j \in Intents \ {i} : Committed(j)' <=> Committed(j)
    BY <1>8, <2>2 DEF Committed
  <2>4. \A c \in Campaigns : Holding(c)' = Holding(c)
    BY <1>5, <1>8, <1>9 DEF Holding
  <2>5. \A j \in Intents : intent'[j] = Absent \/
          (intent'[j].amount \in Money /\ intent'[j].final \in 1..intent'[j].amount)
    BY <1>3, <1>4, <1>8, <2>2 DEF AgentInv, RowsOK
  <2>6. \A j \in Intents : hold'[j] # "NONE" => Committed(j)'
    BY <1>5, <1>9, <2>3 DEF AgentInv, RowsOK
  <2>7. \A j \in Intents :
          /\ Committed(j)' /\ intent'[j].campaign \in Campaigns
          /\ intent'[j].status # "FAILED" /\ intent'[j].until > now'
          => hold'[j] \in {"RESERVED", "CONSUMED"}
    BY <1>5, <1>8, <2>3 DEF AgentInv, RowsOK
  <2>8. now' \in 0..MaxTime /\ uses' \in [Campaigns -> Nat]
        /\ hold' \in [Intents -> {"NONE", "RESERVED", "CONSUMED", "RELEASED"}]
    BY <1>5 DEF AgentInv, RowsOK
  <2>9. \A c \in Campaigns : CountOK(c)'
    BY <1>5, <2>4, CountStays DEF AgentInv, RowsOK
  <2>10. ReturnsOK'
    BY <1>5, <1>8, <1>9, Numbers, ReturnsStay DEF AgentInv, RowsOK
  <2> QED
    BY <2>1, <2>5, <2>6, <2>7, <2>8, <2>9, <2>10 DEF RowsOK
<1>11. Shape'
  <2>1. pc' \in [Requests -> Steps]
    BY <1>5 DEF AgentInv, Shape, Steps
  <2>2. work' \in [Requests -> Work]
    BY <1>1, <1>6 DEF AgentInv, Shape
  <2> QED
    BY <1>5, <2>1, <2>2 DEF AgentInv, Shape
<1>12. Apart'
  <2> SUFFICES ASSUME NEW o \in Requests, NEW q \in Requests \ {o}
               PROVE  locks'[o] \cap locks'[q] = {} /\ work'[o].made \cap work'[q].made = {}
    BY DEF Apart
  <2>1. locks'[o] \cap locks'[q] = {}
    BY <1>5 DEF AgentInv, Apart
  <2>2. CASE o = s
    BY <1>6, <1>7, <2>1, <2>2
  <2>3. CASE q = s
    BY <1>6, <1>7, <2>1, <2>3
  <2>4. CASE o # s /\ q # s
    BY <1>6, <2>1, <2>4 DEF AgentInv, Apart
  <2> QED
    BY <2>2, <2>3, <2>4
<1>13. SessionOK(pc[s], work[s], locks[s], chat[s])'
  <2>1. pc'[s] = "audit" /\ locks'[s] = locks[s] /\ chat'[s] = chat[s]
    BY <1>5 DEF AgentInv, Shape
  <2>2. intent'[i].campaign = order.campaign /\ intent'[i].status = "DRAFT"
    BY <1>8
  <2>3. \A c \in Campaigns : uses'[c] + work'[s].taken[c] <= MaxUses[c]
    BY <1>2, <1>5, <1>6 DEF SessionOK
  <2>4. Took(work'[s], locks'[s])
    BY <1>3, <1>6, <2>1 DEF Took
  <2>5. chat'[s].iteration <= MaxIterations
    BY <1>2, <2>1 DEF SessionOK
  <2> HIDE DEF order
  <2> QED
    BY <1>6, <2>1, <2>2, <2>3, <2>4, <2>5 DEF SessionOK, Took
<1>14. \A o \in Requests \ {s} : pc'[o] = pc[o] /\ locks'[o] = locks[o] /\ chat'[o] = chat[o]
  BY <1>5 DEF AgentInv, Shape
<1>15. \A o \in Requests \ {s} : \A j \in work[o].made : intent'[j] = intent[j]
  BY <1>7, <1>8, Drafts
<1>16. \A o \in Requests \ {s} : \A c \in Campaigns : uses'[c] + work[o].taken[c] <= MaxUses[c]
  BY <1>5, SessionOf DEF SessionOK
<1> QED
  BY <1>6, <1>10, <1>11, <1>12, <1>13, <1>14, <1>15, <1>16, RowsChange

\* A session that ends keeps nothing.
LEMMA Ends ==
  ASSUME AgentInv, NEW s \in Requests, EndRequest(s), chat' = [chat EXCEPT ![s] = NoChat],
         UNCHANGED turns, RowsOK',
         \A o \in Requests \ {s} : \A i \in work[o].made : intent'[i] = intent[i],
         \A o \in Requests \ {s} : \A c \in Campaigns : uses'[c] + work[o].taken[c] <= MaxUses[c]
  PROVE  AgentInv'
<1>1. /\ pc'[s] = "idle" /\ work'[s] = Blank /\ locks'[s] = {} /\ chat'[s] = NoChat
      /\ \A o \in Requests \ {s} :
           pc'[o] = pc[o] /\ work'[o] = work[o] /\ locks'[o] = locks[o] /\ chat'[o] = chat[o]
  BY DEF EndRequest, Goto, AgentInv, Shape
<1>2. Shape'
  BY BlankIsWork DEF EndRequest, Goto, AgentInv, Shape, Steps
<1>3. Apart'
  BY <1>1, BlankIsWork DEF AgentInv, Apart
<1>4. SessionOK(pc[s], work[s], locks[s], chat[s])'
  <2>1. \A c \in Campaigns : uses'[c] + Blank.taken[c] <= MaxUses[c]
    BY BlankIsWork, Numbers DEF RowsOK, CountOK, NoUse
  <2> QED
    BY <1>1, <2>1, BlankIsWork, Numbers DEF SessionOK
<1> QED
  BY <1>1, <1>2, <1>3, <1>4, RowsChange

LEMMA Raises ==
  ASSUME AgentInv, NEW s \in Requests, Raise(s) PROVE AgentInv'
<1> DEFINE made == work[s].made
<1>1. /\ intent' = [i \in Intents |-> IF i \in made THEN Absent ELSE intent[i]]
      /\ EndRequest(s) /\ chat' = [chat EXCEPT ![s] = NoChat]
      /\ UNCHANGED <<now, uses, hold, twice, turns>> /\ UNCHANGED returns
  BY DEF Raise, Rollback, returns
<1>2. \A i \in made : hold[i] = "NONE" /\ ~Committed(i)
  BY Drafts
<1>3. \A o \in Requests \ {s} : \A i \in work[o].made : i \in Intents /\ i \notin made
  BY SessionOf, Drafts
<1>4. RowsOK'
  <2>1. Absent \in IntentRow /\ Absent.status = "NONE"
    BY DEF Absent, IntentRow
  <2>2. \A i \in Intents : \/ i \in made /\ intent'[i] = Absent
                           \/ i \notin made /\ intent'[i] = intent[i]
    BY <1>1
  <2> HIDE DEF made
  <2>3. \A i \in Intents : Committed(i)' <=> Committed(i)
    BY <1>2, <2>1, <2>2 DEF Committed
  <2>4. \A i \in Intents : Committed(i) => intent'[i] = intent[i]
    BY <1>2, <2>2
  <2>5. \A c \in Campaigns : Holding(c)' = Holding(c)
    BY <1>1, <1>2, <2>2 DEF Holding
  <2>6. intent' \in [Intents -> IntentRow]
    BY <1>1, <2>1 DEF AgentInv, RowsOK
  <2>7. \A i \in Intents : intent'[i] = Absent \/
          (intent'[i].amount \in Money /\ intent'[i].final \in 1..intent'[i].amount)
    BY <2>2 DEF AgentInv, RowsOK
  <2>8. \A i \in Intents : hold'[i] # "NONE" => Committed(i)'
    BY <1>1, <2>3 DEF AgentInv, RowsOK
  <2>9. \A i \in Intents :
          /\ Committed(i)' /\ intent'[i].campaign \in Campaigns
          /\ intent'[i].status # "FAILED" /\ intent'[i].until > now'
          => hold'[i] \in {"RESERVED", "CONSUMED"}
    BY <1>1, <2>3, <2>4 DEF AgentInv, RowsOK
  <2>10. /\ now' \in 0..MaxTime /\ uses' \in [Campaigns -> Nat]
         /\ hold' \in [Intents -> {"NONE", "RESERVED", "CONSUMED", "RELEASED"}]
    BY <1>1 DEF AgentInv, RowsOK
  <2>11. \A c \in Campaigns : CountOK(c)'
    BY <1>1, <2>5, CountStays DEF AgentInv, RowsOK
  <2>12. ReturnsOK'
    <3>1. \A i \in Intents : hold[i] # "NONE" => intent'[i] = intent[i]
      BY <2>4 DEF AgentInv, RowsOK
    <3> QED
      BY <1>1, <3>1, Numbers, ReturnsStay DEF AgentInv, RowsOK
  <2> QED
    BY <2>6, <2>7, <2>8, <2>9, <2>10, <2>11, <2>12 DEF RowsOK
<1>5. \A o \in Requests \ {s} : \A i \in work[o].made : intent'[i] = intent[i]
  BY <1>1, <1>3
<1>6. \A o \in Requests \ {s} : \A c \in Campaigns : uses'[c] + work[o].taken[c] <= MaxUses[c]
  BY <1>1, SessionOf DEF SessionOK
<1> QED
  BY <1>1, <1>4, <1>5, <1>6, Ends

\* What a commit adds to the holds of a campaign is the use the session took.
LEMMA CommitHolds ==
  ASSUME AgentInv, NEW s \in Requests, CommitRequest(s), NEW c \in Campaigns
  PROVE  CountOK(c)'
<1>1. /\ pc[s] = "commit" /\ SessionOK("commit", work[s], locks[s], chat[s]) /\ work[s] \in Work
  BY SessionOf DEF CommitRequest
<1>2. /\ uses'[c] = uses[c] + work[s].taken[c] /\ uses[c] + work[s].taken[c] <= MaxUses[c]
      /\ uses[c] \in Nat /\ twice[c] \in Nat /\ work[s].taken[c] \in Nat
      /\ IsFiniteSet(Holding(c)) /\ Cardinality(Holding(c)) \in Nat
  BY <1>1, FiniteHolding DEF CommitRequest, SessionOK, AgentInv, RowsOK, ReturnsOK, Work
<1>3. ASSUME NEW j \in Intents
      PROVE  /\ intent'[j].campaign = intent[j].campaign
             /\ hold'[j] = IF j \in reserve_campaign(s) THEN "RESERVED" ELSE hold[j]
  <2>1. intent[j] \in IntentRow
    BY DEF AgentInv, RowsOK
  <2>2. intent'[j] = IF j \in work[s].made THEN [intent[j] EXCEPT !.status = "CREATED"] ELSE intent[j]
    BY DEF CommitRequest
  <2>3. intent'[j].campaign = intent[j].campaign
    BY <2>1, <2>2 DEF IntentRow
  <2> QED
    BY <2>3 DEF CommitRequest
<1>4. ASSUME work[s].made = {}, work[s].taken = NoUse
      PROVE  Cardinality(Holding(c)') = Cardinality(Holding(c)) + work[s].taken[c]
  <2>1. Holding(c)' = Holding(c) /\ work[s].taken[c] = 0
    BY <1>3, <1>4 DEF Holding, reserve_campaign, NoUse
  <2> QED
    BY <1>2, <2>1
<1>5. ASSUME NEW i \in Intents, work[s].made = {i}, Took(work[s], locks[s]),
             intent[i].campaign = work[s].order.campaign
      PROVE  Cardinality(Holding(c)') = Cardinality(Holding(c)) + work[s].taken[c]
  <2>1. hold[i] = "NONE"
    BY <1>5, Drafts
  <2>2. CASE work[s].order.campaign = c
    <3>1. reserve_campaign(s) = {i} /\ work[s].taken[c] = 1
      BY <1>5, <2>2, Numbers DEF reserve_campaign, Took
    <3>2. Holding(c)' = Holding(c) \cup {i} /\ i \notin Holding(c)
      BY <1>3, <1>5, <2>1, <2>2, <3>1 DEF Holding
    <3> QED
      BY <1>2, <3>1, <3>2, FS_AddElement
  <2>3. CASE work[s].order.campaign # c
    <3>1. work[s].taken[c] = 0
      BY <1>5, <2>3 DEF Took
    <3>2. reserve_campaign(s) \subseteq {i} /\ intent[i].campaign # c
      BY <1>5, <2>3 DEF reserve_campaign
    <3>3. Holding(c)' = Holding(c)
      BY <1>3, <3>2 DEF Holding
    <3> QED
      BY <1>2, <3>1, <3>3
  <2> QED
    BY <2>2, <2>3
<1>6. Cardinality(Holding(c))' = Cardinality(Holding(c)) + work[s].taken[c]
  BY <1>1, <1>2, <1>4, <1>5 DEF SessionOK
<1>7. twice'[c] = twice[c] /\ CountOK(c)
  BY DEF CommitRequest, returns, AgentInv, RowsOK
<1> QED
  BY <1>2, <1>6, <1>7 DEF CountOK

\* The room a session counts on is locked, so no commit of another takes it.
LEMMA RoomIsKept ==
  ASSUME AgentInv, NEW s \in Requests, CommitRequest(s), NEW o \in Requests \ {s}, NEW c \in Campaigns
  PROVE  uses'[c] + work[o].taken[c] <= MaxUses[c]
<1>1. uses'[c] = uses[c] + work[s].taken[c] /\ uses[c] \in Nat
  BY DEF CommitRequest, AgentInv, RowsOK
<1>2. uses[c] + work[s].taken[c] <= MaxUses[c] /\ uses[c] + work[o].taken[c] <= MaxUses[c]
  BY SessionOf DEF SessionOK
<1>3. /\ work[s].taken[c] = 0 \/ (work[s].taken[c] = 1 /\ <<"campaign", c>> \in locks[s])
      /\ work[o].taken[c] = 0 \/ (work[o].taken[c] = 1 /\ <<"campaign", c>> \in locks[o])
  BY TakenIsLocked
<1>4. work[s].taken[c] = 0 \/ work[o].taken[c] = 0
  BY <1>3, SessionOf
<1> QED
  BY <1>1, <1>2, <1>3, <1>4

LEMMA Commits ==
  ASSUME AgentInv, NEW s \in Requests, CommitRequest(s),
         chat' = [chat EXCEPT ![s] = NoChat], UNCHANGED turns
  PROVE  AgentInv'
<1> DEFINE made == work[s].made
<1>1. /\ intent' = [i \in Intents |-> IF i \in made THEN [intent[i] EXCEPT !.status = "CREATED"] ELSE intent[i]]
      /\ hold' = [i \in Intents |-> IF i \in reserve_campaign(s) THEN "RESERVED" ELSE hold[i]]
      /\ uses' = [c \in Campaigns |-> uses[c] + work[s].taken[c]]
      /\ now' = now /\ EndRequest(s) /\ UNCHANGED returns
  BY DEF CommitRequest
<1>2. /\ made \subseteq Intents
      /\ \A i \in made : intent[i].status = "DRAFT" /\ hold[i] = "NONE"
      /\ reserve_campaign(s) = {i \in made : intent[i].campaign # NoCampaign}
  BY Drafts DEF reserve_campaign
<1>3. \A o \in Requests \ {s} : \A i \in work[o].made : i \in Intents /\ i \notin made
  BY SessionOf, Drafts
<1>4. RowsOK'
  <2>1. ASSUME NEW i \in made
        PROVE  /\ intent[i] \in IntentRow /\ intent'[i] \in IntentRow
               /\ intent'[i].status = "CREATED" /\ intent'[i].campaign = intent[i].campaign
               /\ intent'[i].amount = intent[i].amount /\ intent'[i].final = intent[i].final
               /\ intent[i] # Absent
    <3>1. i \in Intents /\ intent'[i] = [intent[i] EXCEPT !.status = "CREATED"]
      BY <1>1, <1>2
    <3>2. intent[i] \in IntentRow
      BY <3>1 DEF AgentInv, RowsOK
    <3>3. intent[i].status = "DRAFT"
      BY <1>2
    <3> QED
      BY <3>1, <3>2, <3>3 DEF IntentRow, Absent
  <2>2. \A i \in Intents : i \notin made => intent'[i] = intent[i] /\ hold'[i] = hold[i]
    BY <1>1, <1>2
  <2>3. intent' \in [Intents -> IntentRow]
    BY <1>1, <2>1 DEF AgentInv, RowsOK
  <2>4. hold' \in [Intents -> {"NONE", "RESERVED", "CONSUMED", "RELEASED"}]
    BY <1>1 DEF AgentInv, RowsOK
  <2>5. uses' \in [Campaigns -> Nat]
    <3>1. \A c \in Campaigns : work[s].taken[c] \in Nat
      BY SessionOf DEF Work
    <3> QED
      BY <1>1, <3>1 DEF AgentInv, RowsOK
  <2>6. ASSUME NEW i \in Intents
        PROVE  /\ intent'[i] = Absent \/
                    (intent'[i].amount \in Money /\ intent'[i].final \in 1..intent'[i].amount)
               /\ hold'[i] # "NONE" => Committed(i)'
               /\ (/\ Committed(i)' /\ intent'[i].campaign \in Campaigns
                   /\ intent'[i].status # "FAILED" /\ intent'[i].until > now')
                  => hold'[i] \in {"RESERVED", "CONSUMED"}
    <3> HIDE DEF made
    <3>1. CASE i \in made
      <4>1. ASSUME intent'[i].campaign \in Campaigns PROVE hold'[i] = "RESERVED"
        <5>1. intent[i].campaign # NoCampaign
          BY <2>1, <3>1, <4>1, Numbers
        <5>2. i \in reserve_campaign(s)
          BY <1>2, <3>1, <5>1
        <5> QED
          BY <1>1, <5>2
      <4> QED
        BY <2>1, <3>1, <4>1 DEF AgentInv, RowsOK, Committed
    <3>2. CASE i \notin made
      BY <1>1, <2>2, <3>2 DEF AgentInv, RowsOK, Committed
    <3> QED
      BY <3>1, <3>2
  <2>7. now' \in 0..MaxTime
    BY <1>1 DEF AgentInv, RowsOK
  <2>8. \A c \in Campaigns : CountOK(c)'
    BY CommitHolds
  <2>9. ReturnsOK'
    <3>1. \A i \in Intents : hold[i] # "NONE" => intent'[i] = intent[i] /\ hold'[i] = hold[i]
      BY <1>2, <2>2
    <3>2. ASSUME NEW i \in Intents, hold[i] = "NONE", hold'[i] # "NONE"
          PROVE  intent'[i].campaign \in Campaigns
      <4>1. i \in made /\ intent[i].campaign # NoCampaign
        BY <1>1, <1>2, <3>2
      <4>2. intent'[i].campaign = intent[i].campaign /\ intent[i] \in IntentRow
        BY <2>1, <4>1
      <4> QED
        BY <4>1, <4>2 DEF IntentRow
    <3>3. now' \in Nat /\ now <= now'
      BY <1>1, Numbers DEF AgentInv, RowsOK
    <3> HIDE DEF made
    <3> QED
      BY <1>1, <3>1, <3>2, <3>3, ReturnsStay DEF AgentInv
  <2> QED
    BY <2>3, <2>4, <2>5, <2>6, <2>7, <2>8, <2>9 DEF RowsOK
<1>5. \A o \in Requests \ {s} : \A i \in work[o].made : intent'[i] = intent[i]
  BY <1>1, <1>3
<1> QED
  BY <1>1, <1>4, <1>5, RoomIsKept, Ends

LEMMA Creates ==
  ASSUME AgentInv, NEW s \in Requests, CreateInSession(s) PROVE AgentInv'
<1>1. CASE TakeUse(s) \/ InsertIntent(s) \/ LockAudit(s)
  <2>1. pc' = [pc EXCEPT ![s] = pc'[s]] /\ pc'[s] \in {"insert", "audit", "proposed", "commit"}
    BY <1>1 DEF TakeUse, InsertIntent, LockAudit, Goto, AgentInv, Shape
  <2>2. UNCHANGED chatVars
    BY <2>1 DEF CreateInSession, chatVars
  <2> QED
    BY <1>1, <2>2, TakesUse, Inserts, LocksAudit
<1>2. CASE CommitRequest(s)
  <2>1. pc'[s] = "idle"
    BY <1>2 DEF CommitRequest, EndRequest, Goto, AgentInv, Shape
  <2> QED
    BY <1>2, <2>1, Commits DEF CreateInSession
<1> QED
  BY <1>1, <1>2 DEF CreateInSession, CreateStep

-----------------------------------------------------------------------------
(* The life of intents and holds.                                          *)

LEMMA Submits ==
  ASSUME AgentInv, NEW i \in Intents, SubmitPayment(i), UNCHANGED chatVars PROVE AgentInv'
<1>1. /\ intent[i].status = "CREATED" /\ intent' = [intent EXCEPT ![i].status = "SUBMITTED"]
      /\ UNCHANGED <<now, uses, hold, twice, locks, pc, work>> /\ UNCHANGED returns
  BY DEF SubmitPayment, returns
<1>2. /\ intent[i] \in IntentRow /\ intent'[i] \in IntentRow /\ intent[i] # Absent
      /\ intent'[i] = [intent[i] EXCEPT !.status = "SUBMITTED"]
      /\ intent'[i].status = "SUBMITTED" /\ intent'[i].campaign = intent[i].campaign
      /\ intent'[i].amount = intent[i].amount /\ intent'[i].final = intent[i].final
      /\ intent'[i].until = intent[i].until
  BY <1>1 DEF AgentInv, RowsOK, IntentRow, Absent
<1>3. \A j \in Intents \ {i} : intent'[j] = intent[j]
  BY <1>1 DEF AgentInv, RowsOK
<1>4. \A c \in Campaigns : Holding(c)' = Holding(c)
  BY <1>1, <1>2, <1>3 DEF Holding
<1>5. \A j \in Intents : Committed(j)' <=> Committed(j)
  BY <1>1, <1>2, <1>3 DEF Committed
<1>6. RowsOK'
  <2>1. intent' \in [Intents -> IntentRow]
    BY <1>1, <1>2 DEF AgentInv, RowsOK
  <2>2. ASSUME NEW j \in Intents
        PROVE  /\ intent'[j] = Absent \/
                    (intent'[j].amount \in Money /\ intent'[j].final \in 1..intent'[j].amount)
               /\ hold'[j] # "NONE" => Committed(j)'
               /\ (/\ Committed(j)' /\ intent'[j].campaign \in Campaigns
                   /\ intent'[j].status # "FAILED" /\ intent'[j].until > now')
                  => hold'[j] \in {"RESERVED", "CONSUMED"}
    <3>1. CASE j = i
      BY <1>1, <1>2, <1>5, <3>1 DEF AgentInv, RowsOK
    <3>2. CASE j # i
      BY <1>1, <1>3, <1>5, <3>2 DEF AgentInv, RowsOK
    <3> QED
      BY <3>1, <3>2
  <2>3. /\ now' \in 0..MaxTime /\ uses' \in [Campaigns -> Nat]
        /\ hold' \in [Intents -> {"NONE", "RESERVED", "CONSUMED", "RELEASED"}]
    BY <1>1 DEF AgentInv, RowsOK
  <2>4. \A c \in Campaigns : CountOK(c)'
    BY <1>1, <1>4, CountStays DEF AgentInv, RowsOK
  <2>5. ReturnsOK'
    <3>1. <<"payment", i>> \notin returning
      BY <1>1 DEF AgentInv, RowsOK, ReturnsOK
    <3> QED
      BY <1>1, <1>2, <1>3, <3>1, Numbers, ReturnsStay DEF AgentInv, RowsOK
  <2> QED
    BY <2>1, <2>2, <2>3, <2>4, <2>5 DEF RowsOK
<1>7. \A o \in Requests : \A j \in work[o].made : intent'[j] = intent[j]
  BY <1>1, <1>3, Drafts
<1>8. \A c \in Campaigns : uses'[c] <= uses[c]
  BY <1>1 DEF AgentInv, RowsOK
<1> QED
  BY <1>1, <1>6, <1>7, <1>8, OnlyRows

\* The status of a committed intent and its hold change, and nobody acts.
LEMMA RowSettles ==
  ASSUME AgentInv, NEW i \in Intents, NEW status, NEW next,
         intent' = [intent EXCEPT ![i].status = status], hold' = [hold EXCEPT ![i] = next],
         Committed(i), status \in {"COMPLETED", "FAILED", intent[i].status},
         next \in {"NONE", "RESERVED", "CONSUMED", "RELEASED"},
         (/\ intent[i].campaign \in Campaigns
          /\ status # "FAILED" /\ intent[i].until > now) => next \in {"RESERVED", "CONSUMED"},
         UNCHANGED <<now, locks, pc, work, chatVars>>,
         uses' \in [Campaigns -> Nat], \A c \in Campaigns : uses'[c] <= uses[c] /\ CountOK(c)',
         ReturnsOK'
  PROVE  AgentInv'
<1>1. /\ intent[i] \in IntentRow /\ intent'[i] \in IntentRow /\ intent[i] # Absent
      /\ intent'[i].status = status /\ intent'[i].campaign = intent[i].campaign
      /\ intent'[i].amount = intent[i].amount /\ intent'[i].final = intent[i].final
      /\ intent'[i].until = intent[i].until
  BY DEF AgentInv, RowsOK, IntentRow, Absent, Committed
<1>2. hold'[i] = next /\ \A j \in Intents \ {i} : intent'[j] = intent[j] /\ hold'[j] = hold[j]
  BY DEF AgentInv, RowsOK
<1>3. Committed(i)' /\ \A j \in Intents \ {i} : Committed(j)' <=> Committed(j)
  BY <1>1, <1>2 DEF Committed
<1>4. ASSUME NEW j \in Intents
      PROVE  /\ intent'[j] = Absent \/
                  (intent'[j].amount \in Money /\ intent'[j].final \in 1..intent'[j].amount)
             /\ hold'[j] # "NONE" => Committed(j)'
             /\ (/\ Committed(j)' /\ intent'[j].campaign \in Campaigns
                 /\ intent'[j].status # "FAILED" /\ intent'[j].until > now')
                => hold'[j] \in {"RESERVED", "CONSUMED"}
  <2>1. CASE j = i
    BY <1>1, <1>2, <1>3, <2>1 DEF AgentInv, RowsOK
  <2>2. CASE j # i
    BY <1>2, <1>3, <2>2 DEF AgentInv, RowsOK
  <2> QED
    BY <2>1, <2>2
<1>5. intent' \in [Intents -> IntentRow]
  BY <1>1 DEF AgentInv, RowsOK
<1>6. hold' \in [Intents -> {"NONE", "RESERVED", "CONSUMED", "RELEASED"}]
  BY DEF AgentInv, RowsOK
<1>7. RowsOK'
  BY <1>4, <1>5, <1>6 DEF AgentInv, RowsOK
<1>8. \A o \in Requests : \A j \in work[o].made : intent'[j] = intent[j]
  BY <1>2, Drafts
<1> QED
  BY <1>7, <1>8, OnlyRows

\* The payment ends and no use is given back.
LEMMA PaymentEnds ==
  ASSUME AgentInv, NEW i \in Intents, CapturePayment(i) \/ FailPayment(i), UNCHANGED chatVars
  PROVE  AgentInv'
<1> DEFINE status == IF CapturePayment(i) THEN "COMPLETED" ELSE "FAILED"
           next == IF CapturePayment(i) /\ hold[i] = "RESERVED" THEN "CONSUMED" ELSE hold[i]
<1>1. /\ intent[i].status = "SUBMITTED" /\ <<"payment", i>> \notin returning
      /\ intent' = [intent EXCEPT ![i].status = status]
      /\ UNCHANGED <<now, uses, twice, locks, pc, work>> /\ UNCHANGED returns
  BY DEF CapturePayment, FailPayment, returns
<1>2. hold[i] \in {"NONE", "RESERVED", "CONSUMED", "RELEASED"}
  BY DEF AgentInv, RowsOK
<1>3. hold' = [hold EXCEPT ![i] = next]
  BY DEF CapturePayment, FailPayment, AgentInv, RowsOK
<1>4. /\ status \in {"COMPLETED", "FAILED"}
      /\ next \in {"NONE", "RESERVED", "CONSUMED", "RELEASED"}
      /\ next = "NONE" <=> hold[i] = "NONE"
      /\ next \in {"RESERVED", "CONSUMED"} <=> hold[i] \in {"RESERVED", "CONSUMED"}
  BY <1>2
<1> HIDE DEF status, next
<1>5. /\ intent'[i].campaign = intent[i].campaign /\ intent'[i].until = intent[i].until
      /\ hold'[i] = next /\ \A j \in Intents \ {i} : intent'[j] = intent[j] /\ hold'[j] = hold[j]
  BY <1>1, <1>3 DEF AgentInv, RowsOK, IntentRow
<1>6. Committed(i)
  BY <1>1 DEF Committed
<1>7. (/\ intent[i].campaign \in Campaigns
       /\ status # "FAILED" /\ intent[i].until > now) => next \in {"RESERVED", "CONSUMED"}
  <2>1. intent[i].status # "FAILED"
    BY <1>1
  <2> QED
    BY <1>4, <1>6, <2>1 DEF AgentInv, RowsOK
<1>8. ASSUME NEW c \in Campaigns PROVE uses'[c] <= uses[c] /\ CountOK(c)'
  <2>1. Holding(c)' = Holding(c)
    BY <1>4, <1>5 DEF Holding
  <2> QED
    BY <1>1, <2>1, CountStays DEF AgentInv, RowsOK
<1>9. ReturnsOK' /\ uses' \in [Campaigns -> Nat]
  BY <1>1, <1>4, <1>5, Numbers, ReturnsStay DEF AgentInv, RowsOK
<1> QED
  BY <1>1, <1>3, <1>4, <1>6, <1>7, <1>8, <1>9, RowSettles

\* Who read the hold of an intent, or forgets it, changes no row.
LEMMA Reads ==
  ASSUME AgentInv, NEW by \in Settlers, NEW i \in Intents,
         ReadHold(by, i) \/ SettlerRollback(by, i), UNCHANGED chatVars
  PROVE  AgentInv'
<1>1. UNCHANGED <<now, uses, intent, hold, twice, locks, pc, work>>
  BY DEF ReadHold, SettlerRollback
<1>2. \/ /\ returning' = returning \cup {<<by, i>>} /\ hold[i] = "RESERVED"
         /\ by = "payment" => intent[i].status = "SUBMITTED"
         /\ by # "payment" => intent[i].until <= now
      \/ returning' = returning \ {<<by, i>>}
  BY DEF ReadHold, MaySettle, SettlerRollback
<1>3. ReturnsOK'
  BY <1>1, <1>2 DEF AgentInv, RowsOK, ReturnsOK, Settlers
<1>4. \A c \in Campaigns : CountOK(c)'
  <2>1. \A c \in Campaigns : Holding(c)' = Holding(c)
    BY <1>1 DEF Holding
  <2> QED
    BY <1>1, <2>1, CountStays DEF AgentInv, RowsOK
<1>5. RowsOK'
  BY <1>1, <1>3, <1>4 DEF AgentInv, RowsOK, Committed
<1>6. \A c \in Campaigns : uses'[c] <= uses[c]
  BY <1>1 DEF AgentInv, RowsOK
<1> QED
  BY <1>1, <1>5, <1>6, OnlyRows

\* The counter of the campaign whose use is given back.
LEMMA CountReturned ==
  ASSUME AgentInv, NEW by \in Settlers, NEW i \in Intents, GiveBack(by, i),
         hold[i] # "NONE", NEW c \in Campaigns
  PROVE  uses'[c] \in Nat /\ uses'[c] <= uses[c] /\ CountOK(c)'
<1> DEFINE d == intent[i].campaign
<1>1. /\ uses' = [uses EXCEPT ![d] = IF @ > 0 THEN @ - 1 ELSE 0]
      /\ twice' = [twice EXCEPT ![d] = IF hold[i] = "RESERVED" THEN @ ELSE @ + 1]
      /\ hold' = [hold EXCEPT ![i] = IF @ = "RESERVED" THEN "RELEASED" ELSE @]
  BY DEF GiveBack
<1>2. /\ d \in Campaigns /\ CountOK(c) /\ IsFiniteSet(Holding(c))
      /\ uses[c] \in Nat /\ twice[c] \in Nat /\ MaxUses[c] \in Nat /\ Cardinality(Holding(c)) \in Nat
      /\ uses \in [Campaigns -> Nat] /\ twice \in [Campaigns -> Nat]
  BY FiniteHolding, Numbers DEF AgentInv, RowsOK, ReturnsOK
<1>3. \A j \in Intents : intent'[j].campaign = intent[j].campaign
  BY DEF GiveBack, AgentInv, RowsOK, IntentRow
<1>4. /\ hold'[i] = IF hold[i] = "RESERVED" THEN "RELEASED" ELSE hold[i]
      /\ \A j \in Intents \ {i} : hold'[j] = hold[j]
  BY <1>1 DEF AgentInv, RowsOK
<1>5. Holding(c)' = IF hold[i] = "RESERVED" /\ c = d THEN Holding(c) \ {i} ELSE Holding(c)
  BY <1>3, <1>4 DEF Holding
<1> HIDE DEF d
<1>6. CASE c # d
  <2>1. uses'[c] = uses[c] /\ twice'[c] = twice[c] /\ Cardinality(Holding(c))' = Cardinality(Holding(c))
    BY <1>1, <1>2, <1>5, <1>6
  <2> QED
    BY <1>2, <2>1 DEF CountOK
<1>7. CASE c = d /\ hold[i] # "RESERVED"
  <2>1. uses'[c] = (IF uses[c] > 0 THEN uses[c] - 1 ELSE 0) /\ twice'[c] = twice[c] + 1
    BY <1>1, <1>2, <1>7
  <2>2. Cardinality(Holding(c))' = Cardinality(Holding(c))
    BY <1>5, <1>7
  <2> QED
    BY <1>2, <2>1, <2>2 DEF CountOK
<1>8. CASE c = d /\ hold[i] = "RESERVED"
  <2>1. uses'[c] = (IF uses[c] > 0 THEN uses[c] - 1 ELSE 0) /\ twice'[c] = twice[c]
    BY <1>1, <1>2, <1>8
  <2>2. i \in Holding(c)
    BY <1>8 DEF Holding, d
  <2>3. Cardinality(Holding(c))' = Cardinality(Holding(c)) - 1
    BY <1>2, <1>5, <1>8, <2>2, FS_RemoveElement
  <2>4. Cardinality(Holding(c)) > 0
    <3>1. Holding(c) # {} /\ (Cardinality(Holding(c)) = 0 <=> Holding(c) = {})
      BY <1>2, <2>2, FS_EmptySet
    <3> QED
      BY <1>2, <3>1
  <2> QED
    BY <1>2, <2>1, <2>3, <2>4 DEF CountOK
<1> QED
  BY <1>6, <1>7, <1>8

LEMMA GivesBack ==
  ASSUME AgentInv, NEW by \in Settlers, NEW i \in Intents, GiveBack(by, i), UNCHANGED chatVars
  PROVE  AgentInv'
<1> DEFINE status == IF by = "payment" THEN "FAILED" ELSE intent[i].status
           next == IF hold[i] = "RESERVED" THEN "RELEASED" ELSE hold[i]
<1>1. /\ <<by, i>> \in returning /\ returning' = returning \ {<<by, i>>}
      /\ UNCHANGED <<now, locks, pc, work>>
  BY DEF GiveBack
<1>2. intent' = [intent EXCEPT ![i].status = status] /\ hold' = [hold EXCEPT ![i] = next]
  BY DEF GiveBack, AgentInv, RowsOK
<1>3. /\ hold[i] \in {"RESERVED", "CONSUMED", "RELEASED"} /\ by \in {"payment", "janitor"}
      /\ by = "janitor" => intent[i].until <= now
  BY <1>1 DEF AgentInv, RowsOK, ReturnsOK, Settlers
<1>4. /\ status \in {"COMPLETED", "FAILED", intent[i].status}
      /\ next \in {"NONE", "RESERVED", "CONSUMED", "RELEASED"} /\ next # "NONE"
      /\ by = "payment" => status = "FAILED"
      /\ by # "payment" => status = intent[i].status
  BY <1>3
<1> HIDE DEF status, next
<1>5. /\ intent'[i].status = status
      /\ intent'[i].campaign = intent[i].campaign /\ intent'[i].until = intent[i].until
      /\ hold'[i] = next /\ \A j \in Intents \ {i} : intent'[j] = intent[j] /\ hold'[j] = hold[j]
  BY <1>2 DEF AgentInv, RowsOK, IntentRow
<1>6. Committed(i)
  BY <1>3 DEF AgentInv, RowsOK
<1>7. (/\ intent[i].campaign \in Campaigns
       /\ status # "FAILED" /\ intent[i].until > now) => next \in {"RESERVED", "CONSUMED"}
  <2>1. by = "janitor" => ~(intent[i].until > now)
    BY <1>3, Numbers DEF AgentInv, RowsOK, IntentRow
  <2> QED
    BY <1>3, <1>4, <2>1
<1>8. /\ \A c \in Campaigns : uses'[c] \in Nat /\ uses'[c] <= uses[c] /\ CountOK(c)'
      /\ uses' \in [Campaigns -> Nat]
  <2>1. \A c \in Campaigns : uses'[c] \in Nat /\ uses'[c] <= uses[c] /\ CountOK(c)'
    BY <1>3, CountReturned
  <2> QED
    BY <2>1 DEF GiveBack, AgentInv, RowsOK
<1>9. ReturnsOK'
  <2>1. twice' \in [Campaigns -> Nat]
    <3>1. twice \in [Campaigns -> Nat] /\ intent[i].campaign \in Campaigns
      BY <1>3 DEF AgentInv, RowsOK, ReturnsOK
    <3>2. twice[intent[i].campaign] \in Nat /\ twice[intent[i].campaign] + 1 \in Nat
      BY <3>1
    <3> QED
      BY <3>1, <3>2 DEF GiveBack
  <2>2. ASSUME NEW j \in Intents
        PROVE  /\ hold'[j] # "NONE" => intent'[j].campaign \in Campaigns
               /\ <<"payment", j>> \in returning' => hold'[j] # "NONE" /\ intent'[j].status = "SUBMITTED"
               /\ <<"janitor", j>> \in returning' => hold'[j] # "NONE" /\ intent'[j].until <= now'
    <3>1. CASE j = i
      BY <1>1, <1>3, <1>4, <1>5, <3>1 DEF AgentInv, RowsOK, ReturnsOK
    <3>2. CASE j # i
      BY <1>1, <1>5, <3>2 DEF AgentInv, RowsOK, ReturnsOK
    <3> QED
      BY <3>1, <3>2
  <2> QED
    BY <1>1, <2>1, <2>2 DEF AgentInv, RowsOK, ReturnsOK
<1> QED
  BY <1>1, <1>2, <1>4, <1>6, <1>7, <1>8, <1>9, RowSettles

LEMMA Ticks == ASSUME AgentInv, Tick, UNCHANGED chatVars PROVE AgentInv'
<1>1. /\ now' = now + 1 /\ now < MaxTime
      /\ UNCHANGED <<uses, intent, hold, twice, locks, pc, work>> /\ UNCHANGED returns
  BY DEF Tick, rows, returns
<1>2. \A c \in Campaigns : Holding(c)' = Holding(c)
  BY <1>1 DEF Holding
<1>3. \A i \in Intents : intent[i].until > now' => intent[i].until > now
  BY <1>1, Numbers DEF AgentInv, RowsOK, IntentRow
<1>4. now' \in 0..MaxTime
  BY <1>1, Numbers DEF AgentInv, RowsOK
<1>5. \A c \in Campaigns : CountOK(c)'
  BY <1>1, <1>2, CountStays DEF AgentInv, RowsOK
<1>6. now \in Nat /\ now' \in Nat /\ now <= now'
  BY <1>1, <1>4, Numbers DEF AgentInv, RowsOK
<1>7. ReturnsOK'
  BY <1>1, <1>6, ReturnsStay DEF AgentInv
<1>8. RowsOK'
  BY <1>1, <1>3, <1>4, <1>5, <1>7 DEF AgentInv, RowsOK, Committed
<1>9. \A c \in Campaigns : uses'[c] <= uses[c]
  BY <1>1 DEF AgentInv, RowsOK
<1> QED
  BY <1>1, <1>8, <1>9, OnlyRows

LEMMA Stutters == ASSUME AgentInv, UNCHANGED vars PROVE AgentInv'
<1>1. UNCHANGED <<now, rows>> /\ UNCHANGED <<now, uses, intent, hold, locks, pc, work, turns, chat>>
  BY DEF vars, creationVars, chatVars, rows
<1>2. RowsOK'
  BY <1>1, RowsStay DEF AgentInv
<1>3. \A c \in Campaigns : uses'[c] <= uses[c]
  BY <1>1 DEF AgentInv, RowsOK
<1> QED
  BY <1>1, <1>2, <1>3, OnlyRows DEF chatVars

LEMMA AgentStep == AgentInv /\ [Next]_vars => AgentInv'
<1> SUFFICES ASSUME AgentInv, [Next]_vars PROVE AgentInv'
  OBVIOUS
<1>1. ASSUME NEW s \in Requests, run_buyer_agent(s) PROVE AgentInv'
  BY <1>1, ChatBegins
<1>2. ASSUME NEW s \in Requests, RequestStep(s) PROVE AgentInv'
  BY <1>2, ModelAnswers, ChatEnds, ToolAnswers, Proposes, Creates, Raises DEF RequestStep
<1>3. ASSUME NEW s \in Requests, Arrive(s), UNCHANGED chatVars PROVE AgentInv'
  BY <1>3, Arrives
<1>4. CASE Lifecycle /\ UNCHANGED chatVars
  BY <1>4, Submits, PaymentEnds, Reads, GivesBack, Ticks DEF Lifecycle
<1>5. CASE UNCHANGED vars
  BY <1>5, Stutters
<1> QED
  BY <1>1, <1>2, <1>3, <1>4, <1>5 DEF Next

LEMMA AgentInvariant == Spec => []AgentInv
  BY AgentInit, AgentStep, PTL DEF Spec

-----------------------------------------------------------------------------
(* What the invariant gives.                                               *)

\* Rows, requests and chats keep their shape: a committed or drafted intent
\* costs something, never more than the catalog's price, and the chat's loop
\* never exceeds MAX_AGENT_ITERATIONS (create_intent, run_buyer_agent).
THEOREM AgentTypes == Spec => []TypeOK
<1>1. ASSUME AgentInv PROVE TypeOK
  <2>1. \A s \in Requests : chat[s].iteration \in 0..MaxIterations
    <3> SUFFICES ASSUME NEW s \in Requests PROVE chat[s].iteration \in 0..MaxIterations
      OBVIOUS
    <3>1. chat[s].iteration \in Nat /\ chat[s].iteration <= MaxIterations
      BY <1>1, SessionOf DEF Chat, SessionOK
    <3> QED
      BY <3>1, Numbers
  <2> QED
    BY <1>1, <2>1 DEF AgentInv, RowsOK, ReturnsOK, Shape, Steps, TypeOK
<1> QED
  BY <1>1, AgentInvariant, PTL

\* The counter of a campaign never exceeds its reserved and consumed holds, and
\* falls short of them only by second give-backs of one hold, whatever sessions,
\* settlements and releases run beside each other (settle_campaign_for_intent).
THEOREM CounterMatchesHolds == Spec => []UsesMatchHolds
<1>1. ASSUME AgentInv PROVE UsesMatchHolds
  BY <1>1 DEF AgentInv, RowsOK, CountOK, UsesMatchHolds, Holding
<1> QED
  BY <1>1, AgentInvariant, PTL

\* Concurrent create_intent sessions never commit more offers of a campaign
\* than max_total_uses and the uses given back a second time for one hold: the
\* reservation of uses itself never exceeds the cap.
THEOREM CapIsKept == Spec => []OffersWithinCap
<1>1. ASSUME AgentInv PROVE OffersWithinCap
  <2> SUFFICES ASSUME NEW c \in Campaigns PROVE Cardinality(Offers(c)) <= MaxUses[c] + twice[c]
    BY DEF OffersWithinCap
  <2>1. Offers(c) \in SUBSET Holding(c)
    BY <1>1 DEF AgentInv, RowsOK, Holding, Offers
  <2>2. IsFiniteSet(Holding(c)) /\ Cardinality(Holding(c)) \in Nat
    BY FiniteHolding
  <2>3. Cardinality(Offers(c)) <= Cardinality(Holding(c)) /\ Cardinality(Offers(c)) \in Nat
    BY <2>1, <2>2, FS_Subset, FS_CardinalityType
  <2>4. /\ Cardinality(Holding(c)) <= uses[c] + twice[c] /\ uses[c] <= MaxUses[c]
        /\ uses[c] \in Nat /\ twice[c] \in Nat /\ MaxUses[c] \in Nat
    BY <1>1, Numbers DEF AgentInv, RowsOK, CountOK, ReturnsOK
  <2> QED
    BY <2>2, <2>3, <2>4
<1> QED
  BY <1>1, AgentInvariant, PTL

\* A chat that waits for the model or for a tool holds no row lock, not the audit
\* lock, and no uncommitted intent (run_buyer_agent, _tool_propose_intent).
THEOREM ThinksUnlocked == Spec => []AgentThinksUnlocked
<1>1. ASSUME AgentInv PROVE AgentThinksUnlocked
  BY <1>1, SessionOf DEF AgentThinksUnlocked, SessionOK
<1> QED
  BY <1>1, AgentInvariant, PTL
=============================================================================
