---------------------------- MODULE Conversation ----------------------------
(***************************************************************************)
(* One conversation with a model: the loop that runAgent, callVerifyBatch  *)
(* and RunTriage each run over infer.HTTPClient.Complete, with the tool    *)
(* calls it serves and its two budgets of repetition, one for HTTP posts   *)
(* and one for answers that do not decode.                                 *)
(*                                                                         *)
(* A message is its role and, for an assistant's, the number of tool calls *)
(* it makes.                                                               *)
(***************************************************************************)
EXTENDS Integers, Sequences

Style == {"agent", "lens", "triage"}

CONSTANTS
    MaxTurns,       \* maxAgentTurns, maxVerifyTurns, and for triage its attempts
    MaxRetries,     \* 2 in each of the loops
    MaxToolCalls,   \* the largest budget.max_tool_calls of a persona
    MaxCalls,       \* bound: tool calls of one answer
    PostRetries     \* len(retryBackoffs) of the client, 3 in the code

ASSUME ConversationAssumption ==
    /\ MaxTurns \in [Style -> Nat \ {0}]
    /\ MaxRetries \in Nat
    /\ MaxTurns["triage"] = MaxRetries + 1
    /\ MaxToolCalls \in Nat
    /\ MaxCalls \in Nat \ {0}
    /\ PostRetries \in Nat

Message == [role : {"system", "user", "assistant", "tool"}, calls : 0 .. MaxCalls]
Say(role) == [role |-> role, calls |-> 0]

VARIABLES
    pc,         \* "start", "ask", "answer", "done" or "failed"
    style,
    budget,     \* the persona's tool calls; 0 when it has no tools
    turn,       \* turns completed
    attempt,    \* posts of this turn that were answered with "try again"
    retries,    \* answers that were asked for again
    remaining,  \* tool calls left in the registry
    context,    \* the messages of the next request
    ran,        \* tool calls that were executed
    posts       \* requests the endpoint has received, up to PostLimit + 1

vars == <<pc, style, budget, turn, attempt, retries, remaining, context, ran, posts>>

Prompt == <<Say("system"), Say("user")>>

Init ==
    /\ pc = "start"
    /\ style \in Style
    /\ budget \in IF style = "triage" THEN {0} ELSE 0 .. MaxToolCalls
    /\ turn = 0 /\ attempt = 0 /\ retries = 0
    /\ remaining = budget
    /\ context = Prompt
    /\ ran = 0 /\ posts = 0

\* The persona has a model binding and its input can be built, or there is no
\* conversation.
Begin ==
    /\ pc = "start"
    /\ pc' \in {"ask", "failed"}
    /\ UNCHANGED <<style, budget, turn, attempt, retries, remaining, context, ran, posts>>

\* PostLimit is what the three budgets allow together; the count stops beyond.
PostLimit == MaxTurns[style] * (PostRetries + 1)
CountPost == posts' = IF posts =< PostLimit THEN posts + 1 ELSE posts

\* Complete: a post that is refused, or whose answer cannot be read as a
\* response, is fatal; one that may be tried again is, after a sleep that a
\* cancelled run breaks off.
Complete ==
    /\ pc = "ask"
    /\ CountPost
    /\ \/ pc' = "answer" /\ attempt' = 0
       \/ pc' = "failed" /\ UNCHANGED attempt
       \/ /\ attempt < PostRetries
          /\ attempt' = attempt + 1
          /\ UNCHANGED pc
    /\ UNCHANGED <<style, budget, turn, retries, remaining, context, ran>>

\* The loop's end test.
NextTurn ==
    /\ turn' = turn + 1
    /\ pc' = IF turn + 1 < MaxTurns[style] THEN "ask" ELSE "failed"

\* Mutant: the budget is that of one turn.
ServedPerTurn(k) == IF k =< budget THEN k ELSE budget

\* Of k tool calls, those the registry's budget still covers.
Served(k) == IF k =< remaining THEN k ELSE remaining

\* Mutant: a call beyond the budget gets no answer.
ResultsServedOnly(k) == [i \in 1 .. Served(k) |-> Say("tool")]

\* Every call is answered, if only with an error.
Results(k) == [i \in 1 .. k |-> Say("tool")]

\* The answer makes tool calls.  Triage does not look for any.
CallTools ==
    /\ pc = "answer" /\ style # "triage"
    /\ \E k \in 1 .. MaxCalls :
        /\ context' = Append(context, [role |-> "assistant", calls |-> k]) \o Results(k)
        /\ remaining' = remaining - Served(k)
        /\ ran' = ran + Served(k)
    /\ NextTurn
    /\ UNCHANGED <<style, budget, attempt, retries, posts>>

\* The answer decodes, or there is none: a response without choices.
Finish ==
    /\ pc = "answer"
    /\ pc' \in {"done", "failed"}
    /\ UNCHANGED <<style, budget, turn, attempt, retries, remaining, context, ran, posts>>

\* The request for a shorter answer.  Triage takes back what it has said since
\* its prompt.
Shorter ==
    IF style = "triage" THEN Append(Prompt, Say("user")) ELSE Append(context, Say("user"))

\* Mutant: triage asks for a shorter answer without counting it.
MalformedCutFree(cut) ==
    /\ pc = "answer"
    /\ IF cut /\ style = "triage"
       THEN pc' = "ask" /\ context' = Shorter /\ UNCHANGED <<retries, turn>>
       ELSE IF retries < MaxRetries
       THEN /\ retries' = retries + 1
            /\ context' = context \o <<Say("assistant"), Say("user")>>
            /\ NextTurn
       ELSE pc' = "failed" /\ UNCHANGED <<retries, context, turn>>
    /\ UNCHANGED <<style, budget, attempt, remaining, ran, posts>>

\* The answer does not decode.  One that was cut at the token budget is not
\* quoted back; any other is, with what is wrong with it.
Malformed(cut) ==
    /\ pc = "answer"
    /\ IF retries < MaxRetries
       THEN /\ retries' = retries + 1
            /\ context' = IF cut THEN Shorter
                          ELSE context \o <<Say("assistant"), Say("user")>>
            /\ NextTurn
       ELSE pc' = "failed" /\ UNCHANGED <<retries, context, turn>>
    /\ UNCHANGED <<style, budget, attempt, remaining, ran, posts>>

Terminated == pc \in {"done", "failed"} /\ UNCHANGED vars

Next ==
    \/ Begin
    \/ Complete
    \/ CallTools
    \/ Finish
    \/ \E cut \in BOOLEAN : Malformed(cut)
    \/ Terminated

Spec == Init /\ [][Next]_vars

\* A post is answered or times out (requestTimeout), a tool call returns, and
\* the loop goes on.
FairSpec == Spec /\ WF_vars(Next)

-----------------------------------------------------------------------------
TypeOK ==
    /\ pc \in {"start", "ask", "answer", "done", "failed"}
    /\ style \in Style
    /\ budget \in 0 .. MaxToolCalls
    /\ turn \in 0 .. MaxTurns[style]
    /\ attempt \in 0 .. PostRetries
    /\ retries \in 0 .. MaxRetries
    /\ remaining \in Nat
    /\ context \in Seq(Message)
    /\ ran \in Nat
    /\ posts \in Nat

\* However its tool calls are spread over the turns, a conversation executes
\* no more of them than its persona's budget.
ToolBudgetHolds == ran =< budget

\* Whenever the endpoint is asked, the request is one it accepts: it opens
\* with the prompt, and every tool call an assistant made is answered, call
\* for call, before anyone else speaks.
RequestIsWellFormed ==
    pc = "ask" =>
        /\ Len(context) >= 2 /\ SubSeq(context, 1, 2) = Prompt
        /\ \A i \in DOMAIN context : context[i].calls > 0 =>
              \A j \in 1 .. context[i].calls :
                  i + j \in DOMAIN context /\ context[i + j].role = "tool"
        /\ \A i \in DOMAIN context : context[i].role = "tool" =>
              \E k \in 1 .. i : k < i /\ i - k =< context[k].calls

\* Retries of posts within retries of answers within turns: a conversation
\* makes at most so many requests.
PostsBounded == posts =< PostLimit

\* A conversation comes to its end whatever the model answers.
Ends == <>(pc \in {"done", "failed"})
=============================================================================
