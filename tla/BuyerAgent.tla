----------------------------- MODULE BuyerAgent -----------------------------
(***************************************************************************)
(* Chats with the buyer agent, beside the other requests that create       *)
(* intents.  A chat is one request and one database session: it asks the   *)
(* model, runs the tools the answer names one by one, asks again with      *)
(* their results, and ends with a proposed intent, an answer or an error.  *)
(* The model is external: it may answer anything, and so may its client.   *)
(***************************************************************************)
EXTENDS IntentCreation

CONSTANTS
  MaxIterations,  \* MAX_AGENT_ITERATIONS
  MaxTurns,       \* MAX_CONTEXT_TURNS
  MaxCalls        \* bound: tool calls in one answer of the model

ASSUME BuyerAgentAssumption == {MaxIterations, MaxTurns, MaxCalls} \subseteq Nat \ {0}

VARIABLES
  turns,    \* how many turns of the conversation are kept, in memory
  chat      \* the loop of each chat: its iteration and the tool calls left

chatVars == <<turns, chat>>
vars == <<creationVars, chatVars>>

FORBIDDEN_TOOLS == {"execute_payment", "issue_capability", "approve_consent"}

NoChat == [iteration |-> 0, calls |-> 0]

Init ==
  /\ InitRows
  /\ turns = 0
  /\ chat = [s \in Requests |-> NoChat]

\* append_session_turn keeps the last MAX_CONTEXT_TURNS; nothing undoes it.
append_session_turn == turns' = Lesser(turns + 1, MaxTurns)

\* run_buyer_agent: the message joins the conversation, of which the chat takes
\* a copy; several chats may share the conversation.
run_buyer_agent(s) ==
  /\ pc[s] = "idle"
  /\ append_session_turn
  /\ work' = [work EXCEPT ![s].kind = "chat"]
  /\ Goto(s, "llm")
  /\ UNCHANGED <<now, rows, locks, chat>>

\* Whatever provider answers, its tool calls become one list; which tools they
\* name shows when they run.
ToolCalls == 1..MaxCalls

\* The model answers with tool calls...
call_llm(s) ==
  /\ pc[s] = "llm"
  /\ \E n \in ToolCalls :
       chat' = [chat EXCEPT ![s] = [iteration |-> @.iteration + 1, calls |-> n]]
  /\ Goto(s, "tool")
  /\ UNCHANGED <<now, rows, locks, work, turns>>

\* ...or with text, or with nothing, which ends the chat.
AnswerText(s) ==
  /\ pc[s] = "llm"
  /\ append_session_turn
  /\ Goto(s, "commit")
  /\ UNCHANGED <<now, rows, locks, work, chat>>

\* One call is done: the next one, or the next iteration, or the end of them.
NextCall(s) ==
  /\ chat' = [chat EXCEPT ![s].calls = @ - 1]
  /\ Goto(s, IF chat[s].calls > 1 THEN "tool"
             ELSE IF chat[s].iteration < MaxIterations THEN "llm" ELSE "exhausted")

\* A tool that reads, is forbidden or unknown, or a proposal of a product that
\* is not for sale: its result is text for the model.
_execute_tool(s) ==
  /\ pc[s] = "tool"
  /\ NextCall(s)
  /\ UNCHANGED <<now, rows, locks, work, turns>>

\* The controlled tool takes price and amount from the catalog and runs
\* create_intent in the chat's session.
_tool_propose_intent(s) ==
  /\ pc[s] = "tool"
  /\ "propose_intent" \notin FORBIDDEN_TOOLS
  /\ \E order \in Order : create_intent(s, "chat", order, CanonicalAmount(order))
  /\ UNCHANGED chatVars

\* The intent is proposed: the chat ends at once, whatever calls are left.
Proposed(s) ==
  /\ pc[s] = "proposed"
  /\ append_session_turn
  /\ Goto(s, "commit")
  /\ UNCHANGED <<now, rows, locks, work, chat>>

\* The iterations are used up.
Exhausted(s) ==
  /\ pc[s] = "exhausted"
  /\ append_session_turn
  /\ Goto(s, "commit")
  /\ UNCHANGED <<now, rows, locks, work, chat>>

\* Variant: what create_intent raises becomes the result of the tool.
Raise_caught(s) ==
  \/ /\ work[s].kind = "chat" /\ pc[s] = "insert"
     /\ NextCall(s)
     /\ UNCHANGED <<now, rows, locks, work, turns>>
  \/ /\ ~(work[s].kind = "chat" /\ pc[s] = "insert")
     /\ Rollback(s)
     /\ chat' = [chat EXCEPT ![s] = NoChat]
     /\ UNCHANGED turns

\* What a tool, the model's client or create_intent raises ends the request.
Raise(s) ==
  /\ Rollback(s)
  /\ chat' = [chat EXCEPT ![s] = NoChat]
  /\ UNCHANGED turns

\* A step of create_intent or the commit, which also ends a chat.
CreateInSession(s) ==
  /\ CreateStep(s)
  /\ chat' = IF pc'[s] = "idle" THEN [chat EXCEPT ![s] = NoChat] ELSE chat
  /\ UNCHANGED turns

RequestStep(s) ==
  \/ call_llm(s) \/ AnswerText(s) \/ _execute_tool(s) \/ _tool_propose_intent(s)
  \/ Proposed(s) \/ Exhausted(s) \/ CreateInSession(s) \/ Raise(s)

Next ==
  \/ \E s \in Requests : run_buyer_agent(s) \/ RequestStep(s)
  \/ \E s \in Requests : Arrive(s) /\ UNCHANGED chatVars
  \/ Lifecycle /\ UNCHANGED chatVars

Spec == Init /\ [][Next]_vars
=============================================================================
