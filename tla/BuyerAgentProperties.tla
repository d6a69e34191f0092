------------------------ MODULE BuyerAgentProperties ------------------------
(***************************************************************************)
(* What the buyer agent and the creation of intents guarantee.             *)
(***************************************************************************)
EXTENDS BuyerAgent

\* Rows, requests and chats have the shape of their tables and objects; an
\* intent's amounts are a price and what a discount leaves of it.
TypeOK ==
  /\ now \in 0..MaxTime
  /\ uses \in [Campaigns -> Nat]
  /\ intent \in [Intents -> IntentRow]
  /\ \A i \in Intents : intent[i] = Absent \/
       (intent[i].amount \in Money /\ intent[i].final \in 1..intent[i].amount)
  /\ hold \in [Intents -> {"NONE", "RESERVED", "CONSUMED", "RELEASED"}]
  /\ returning \subseteq Settlers \X Intents
  /\ twice \in [Campaigns -> Nat]
  /\ pc \in [Requests -> {"idle", "campaign", "insert", "audit", "commit",
                          "llm", "tool", "proposed", "exhausted"}]
  /\ turns \in 0..MaxTurns
  /\ \A s \in Requests : chat[s].iteration \in 0..MaxIterations

Committed(i) == intent[i].status \notin {"NONE", "DRAFT"}

\* The intents that may still be paid at a campaign's discount, or were.
Offers(c) ==
  {i \in Intents : /\ Committed(i) /\ intent[i].campaign = c
                   /\ intent[i].status # "FAILED"
                   /\ intent[i].until > now \/ hold[i] = "CONSUMED"}

\* What create_intent.py says of its reservation: concurrent requests cannot
\* exceed the campaign-wide usage cap.
CapNotExceeded == \A c \in Campaigns : Cardinality(Offers(c)) <= MaxUses[c]

\* Concurrent requests never commit more offers of a campaign than its cap and
\* the uses that a failed payment and the janitor both gave back for one hold.
OffersWithinCap == \A c \in Campaigns : Cardinality(Offers(c)) <= MaxUses[c] + twice[c]

\* The counter of a campaign never exceeds its holds that are reserved or
\* consumed, and lacks one of them only for a second give-back of one hold,
\* whatever rolls back between the counter's update and the hold's.
UsesMatchHolds ==
  \A c \in Campaigns :
    LET held == Cardinality({i \in Intents : intent[i].campaign = c
                                               /\ hold[i] \in {"RESERVED", "CONSUMED"}})
    IN  uses[c] <= held /\ held <= uses[c] + twice[c]

\* A chat asks the model, or runs its next tool, with empty hands: it holds no
\* row of the database and has made no intent, whatever list of calls it got.
\* A proposal that locked a campaign or made an intent ends the chat or raises,
\* so one message buys once and nobody waits for the model to think.
AgentThinksUnlocked ==
  \A s \in Requests : pc[s] \in {"llm", "tool"} => locks[s] = {} /\ work[s].made = {}
=============================================================================
