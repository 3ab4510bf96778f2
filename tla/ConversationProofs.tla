------------------------- MODULE ConversationProofs -------------------------
(***************************************************************************)
(* For every value of the limits: the type invariant, the bound on the     *)
(* tool calls a conversation executes, the bound on the requests it makes, *)
(* and the form of every request.                                          *)
(***************************************************************************)
EXTENDS Conversation, SequenceTheorems, TLAPS

PerTurn == PostRetries + 1

LEMMA PerTurnIsNat == PerTurn \in Nat
BY ConversationAssumption DEF PerTurn

LEMMA Product ==
    ASSUME NEW t \in Nat, NEW m \in Nat
    PROVE  t * m \in Nat /\ (t + 1) * m = t * m + m
OBVIOUS

LEMMA Monotone ==
    ASSUME NEW s \in Nat, NEW t \in Nat, NEW m \in Nat, s =< t
    PROVE  s * m =< t * m
<1>1. PICK d \in Nat : t = s + d
  <2>1. t - s \in Nat /\ t = s + (t - s)
    OBVIOUS
  <2> QED BY <2>1
<1>2. (s + d) * m = s * m + d * m
  OBVIOUS
<1>3. s * m \in Nat /\ d * m \in Nat
  OBVIOUS
<1> QED BY <1>1, <1>2, <1>3

\* A conversation that is still going has turns left.
Going == pc \in {"ask", "answer"} => turn < MaxTurns[style]

\* The posts of the completed turns and those of this one.
Counted ==
    /\ pc = "start" => posts = 0
    /\ pc = "ask" => posts =< turn * PerTurn + attempt
    /\ pc = "answer" => posts =< (turn + 1) * PerTurn
    /\ pc \in {"done", "failed"} => posts =< MaxTurns[style] * PerTurn

Fresh == pc = "start" => turn = 0 /\ attempt = 0 /\ retries = 0
Answered == pc = "answer" => attempt = 0

\* Every tool call of the budget is either left or executed.
Accounted == ran + remaining = budget

IInv == TypeOK /\ Going /\ Fresh /\ Answered /\ Counted /\ Accounted

LEMMA PromptIsContext == Prompt \in Seq(Message)
BY ConversationAssumption DEF Prompt, Say, Message

LEMMA Talk ==
    ASSUME NEW c \in Seq(Message), NEW k \in 0 .. MaxCalls
    PROVE  /\ Append(c, [role |-> "assistant", calls |-> k]) \o Results(k) \in Seq(Message)
           /\ Append(c, Say("user")) \in Seq(Message)
           /\ c \o <<Say("assistant"), Say("user")>> \in Seq(Message)
<1> USE ConversationAssumption
<1>1. [role |-> "assistant", calls |-> k] \in Message
  BY DEF Message
<1>2. Say("user") \in Message /\ Say("assistant") \in Message /\ Say("tool") \in Message
  BY DEF Message, Say
<1>3. Results(k) \in Seq(Message)
  BY <1>2 DEF Results
<1> QED
  BY <1>1, <1>2, <1>3

LEMMA Initially == Init => IInv
<1> SUFFICES ASSUME Init PROVE IInv
  OBVIOUS
<1> USE ConversationAssumption DEF Init
<1>1. TypeOK
  BY PromptIsContext DEF TypeOK
<1>2. Going /\ Fresh /\ Answered /\ Counted /\ Accounted
  BY DEF Going, Fresh, Answered, Counted, Accounted
<1> QED BY <1>1, <1>2 DEF IInv

LEMMA Stepwise == IInv /\ [Next]_vars => IInv'
<1> SUFFICES ASSUME IInv, [Next]_vars PROVE IInv'
  OBVIOUS
<1>m. MaxTurns[style] \in Nat \ {0} /\ PerTurn \in Nat /\ PerTurn = PostRetries + 1
      /\ PostRetries \in Nat /\ MaxRetries \in Nat /\ MaxToolCalls \in Nat /\ MaxCalls \in Nat
  BY ConversationAssumption, PerTurnIsNat DEF IInv, TypeOK, PerTurn
<1>t. /\ turn \in Nat /\ attempt \in Nat /\ posts \in Nat /\ attempt =< PostRetries
      /\ retries \in 0 .. MaxRetries /\ budget \in 0 .. MaxToolCalls
      /\ turn =< MaxTurns[style] /\ remaining \in Nat /\ ran \in Nat
      /\ context \in Seq(Message) /\ style \in Style
  BY <1>m DEF IInv, TypeOK
<1>p. /\ turn * PerTurn \in Nat
      /\ (turn + 1) * PerTurn = turn * PerTurn + PerTurn
      /\ MaxTurns[style] * PerTurn \in Nat
  BY <1>m, <1>t, Product
<1>q. turn < MaxTurns[style] => (turn + 1) * PerTurn =< MaxTurns[style] * PerTurn
  BY <1>m, <1>t, Monotone
<1>l. PostLimit = MaxTurns[style] * PerTurn
  BY DEF PostLimit, PerTurn
<1>1. CASE Begin
  <2>1. TypeOK' /\ Answered' /\ Fresh'
    BY <1>1, <1>m, <1>t DEF IInv, TypeOK, Begin, Answered, Fresh
  <2>2. Going'
    BY <1>1, <1>m DEF IInv, Begin, Going, Fresh
  <2>3. Counted' /\ Accounted'
    BY <1>1, <1>m, <1>t, <1>p DEF IInv, Begin, Fresh, Counted, Accounted
  <2> QED BY <2>1, <2>2, <2>3 DEF IInv
<1>2. CASE Complete
  <2>0. turn < MaxTurns[style] /\ posts =< turn * PerTurn + attempt
    BY <1>2 DEF IInv, Complete, Going, Counted
  <2>1. posts' = posts + 1
    BY <1>2, <2>0, <1>m, <1>t, <1>p, <1>q, <1>l DEF Complete, CountPost
  <2>2. TypeOK' /\ Going' /\ Fresh' /\ Answered' /\ Accounted'
    BY <1>2, <1>m, <1>t, <2>0, <2>1
       DEF IInv, TypeOK, Complete, Going, Fresh, Answered, Accounted
  <2>3. Counted'
    <3>1. UNCHANGED <<turn, style>> /\ posts + 1 =< turn * PerTurn + attempt + 1
      BY <1>2, <1>t, <1>p, <2>0 DEF Complete
    <3>2. CASE pc' = "answer"
      BY <3>1, <3>2, <2>1, <1>m, <1>t, <1>p DEF Counted
    <3>3. CASE pc' = "failed"
      BY <3>1, <3>3, <2>1, <1>m, <1>t, <1>p, <1>q, <2>0 DEF Counted
    <3>4. CASE pc' = "ask" /\ attempt' = attempt + 1
      BY <3>1, <3>4, <2>1, <1>m, <1>t, <1>p DEF Counted
    <3> QED BY <1>2, <3>2, <3>3, <3>4 DEF Complete
  <2> QED BY <2>2, <2>3 DEF IInv
<1>3. ASSUME NextTurn, pc = "answer", UNCHANGED <<style, attempt, posts>>
      PROVE  /\ turn' \in 0 .. MaxTurns[style] /\ pc' \in {"ask", "failed"}
             /\ Going' /\ Fresh' /\ Answered' /\ Counted'
  <2>1. turn < MaxTurns[style] /\ posts =< (turn + 1) * PerTurn /\ attempt = 0
    BY <1>3 DEF IInv, Going, Counted, Answered
  <2>2. turn' \in 0 .. MaxTurns[style] /\ pc' \in {"ask", "failed"}
    BY <1>3, <2>1, <1>m, <1>t DEF NextTurn
  <2>3. Going' /\ Fresh' /\ Answered'
    BY <1>3, <2>1, <2>2, <1>m, <1>t DEF NextTurn, Going, Fresh, Answered
  <2>4. Counted'
    <3>1. posts' = posts /\ style' = style /\ attempt' = attempt
      BY <1>3
    <3>2. posts =< MaxTurns[style] * PerTurn
      BY <2>1, <1>q, <1>p, <1>m, <1>t
    <3>3. turn' * PerTurn = (turn + 1) * PerTurn
      BY <1>3 DEF NextTurn
    <3>4. posts' =< turn' * PerTurn + attempt'
      BY <3>1, <3>3, <2>1, <1>p, <1>m, <1>t
    <3>5. posts' =< MaxTurns[style'] * PerTurn
      BY <3>1, <3>2
    <3> QED BY <2>2, <3>4, <3>5 DEF Counted
  <2> QED BY <2>2, <2>3, <2>4
<1>4. CASE CallTools
  <2>1. PICK k \in 1 .. MaxCalls :
          /\ context' = Append(context, [role |-> "assistant", calls |-> k]) \o Results(k)
          /\ remaining' = remaining - Served(k)
          /\ ran' = ran + Served(k)
    BY <1>4 DEF CallTools
  <2>2. Served(k) \in 0 .. remaining
    BY <1>m, <1>t DEF Served
  <2>3. context' \in Seq(Message)
    BY <2>1, <1>m, <1>t, Talk
  <2>4. remaining' \in Nat /\ ran' \in Nat /\ Accounted'
    <3>1. ran + remaining = budget /\ budget' = budget
      BY <1>4 DEF IInv, Accounted, CallTools
    <3>2. Served(k) \in Nat /\ Served(k) =< remaining
      BY <2>2, <1>t
    <3>3. \A s \in Nat : s =< remaining =>
             /\ remaining - s \in Nat /\ ran + s \in Nat
             /\ (ran + s) + (remaining - s) = ran + remaining
      BY <1>t
    <3>4. /\ remaining - Served(k) \in Nat /\ ran + Served(k) \in Nat
          /\ (ran + Served(k)) + (remaining - Served(k)) = ran + remaining
      BY <3>2, <3>3
    <3> QED BY <2>1, <3>1, <3>4 DEF Accounted
  <2>5. /\ turn' \in 0 .. MaxTurns[style] /\ pc' \in {"ask", "failed"}
        /\ Going' /\ Fresh' /\ Answered' /\ Counted'
    BY <1>3, <1>4 DEF CallTools
  <2>6. TypeOK'
    BY <2>3, <2>4, <2>5, <1>4, <1>m, <1>t DEF TypeOK, CallTools
  <2> QED BY <2>4, <2>5, <2>6 DEF IInv
<1>5. CASE Finish
  <2>0. posts =< (turn + 1) * PerTurn /\ turn < MaxTurns[style]
    BY <1>5 DEF IInv, Finish, Going, Counted
  <2>1. TypeOK' /\ Going' /\ Fresh' /\ Answered' /\ Accounted'
    BY <1>5, <1>m, <1>t DEF IInv, TypeOK, Finish, Going, Fresh, Answered, Accounted
  <2>2. Counted'
    <3>1. posts' = posts /\ style' = style /\ pc' \in {"done", "failed"}
      BY <1>5 DEF Finish
    <3>2. posts =< MaxTurns[style] * PerTurn
      BY <2>0, <1>q, <1>p, <1>m, <1>t
    <3> QED BY <3>1, <3>2 DEF Counted
  <2> QED BY <2>1, <2>2 DEF IInv
<1>6. ASSUME NEW cut \in BOOLEAN, Malformed(cut) PROVE IInv'
  <2>0. posts =< (turn + 1) * PerTurn /\ turn < MaxTurns[style] /\ pc = "answer"
    BY <1>6 DEF IInv, Malformed, Going, Counted
  <2>1. CASE retries < MaxRetries
    <3>1. retries' = retries + 1 /\ NextTurn
      BY <2>1, <1>6 DEF Malformed
    <3>2. context' \in Seq(Message)
      <4>0. 0 \in 0 .. MaxCalls
        BY <1>m
      <4>1. Shorter \in Seq(Message)
        <5>1. Append(context, Say("user")) \in Seq(Message)
          BY <1>t, <4>0, Talk
        <5>2. Append(Prompt, Say("user")) \in Seq(Message)
          BY <4>0, Talk, PromptIsContext
        <5> QED BY <5>1, <5>2 DEF Shorter
      <4>2. context \o <<Say("assistant"), Say("user")>> \in Seq(Message)
        BY <1>t, <4>0, Talk
      <4> QED BY <2>1, <1>6, <4>1, <4>2 DEF Malformed
    <3>3. /\ turn' \in 0 .. MaxTurns[style] /\ pc' \in {"ask", "failed"}
          /\ Going' /\ Fresh' /\ Answered' /\ Counted'
      BY <1>3, <1>6, <2>0, <3>1 DEF Malformed
    <3>4. TypeOK' /\ Accounted'
      BY <1>6, <2>1, <3>1, <3>2, <3>3, <1>m, <1>t DEF IInv, TypeOK, Malformed, Accounted
    <3> QED BY <3>3, <3>4 DEF IInv
  <2>2. CASE ~(retries < MaxRetries)
    <3>1. pc' = "failed" /\ UNCHANGED <<style, budget, turn, attempt, retries, remaining,
                                        context, ran, posts>>
      BY <2>2, <1>6 DEF Malformed
    <3>2. TypeOK' /\ Going' /\ Fresh' /\ Answered' /\ Accounted'
      BY <3>1, <1>m, <1>t DEF IInv, TypeOK, Going, Fresh, Answered, Accounted
    <3>3. Counted'
      <4>1. posts =< MaxTurns[style] * PerTurn
        BY <2>0, <1>q, <1>p, <1>m, <1>t
      <4> QED BY <3>1, <4>1 DEF Counted
    <3> QED BY <3>2, <3>3 DEF IInv
  <2> QED BY <2>1, <2>2
<1>7. CASE UNCHANGED vars
  BY <1>7 DEF vars, IInv, TypeOK, Going, Fresh, Answered, Counted, Accounted
<1> QED
  BY <1>1, <1>2, <1>4, <1>5, <1>6, <1>7 DEF Next, Terminated

LEMMA Always == Spec => []IInv
BY Initially, Stepwise, PTL DEF Spec

\* The limits bound every counter, for any values of them.
THEOREM TypeCorrect == Spec => []TypeOK
<1>1. IInv => TypeOK
  BY DEF IInv
<1> QED BY Always, <1>1, PTL

\* However many turns and calls an answer may take, the executed tool calls
\* stay within the persona's budget.
THEOREM ToolBudgetKept == Spec => []ToolBudgetHolds
<1>1. IInv => ToolBudgetHolds
  BY ConversationAssumption DEF IInv, TypeOK, Accounted, ToolBudgetHolds
<1> QED BY Always, <1>1, PTL

\* A conversation's requests number at most its turns times the posts of one
\* completion.
THEOREM PostsAreBounded == Spec => []PostsBounded
<1>1. IInv => PostsBounded
  <2> SUFFICES ASSUME IInv PROVE PostsBounded
    OBVIOUS
  <2>m. MaxTurns[style] \in Nat \ {0} /\ PerTurn \in Nat /\ PerTurn = PostRetries + 1
    BY ConversationAssumption, PerTurnIsNat DEF IInv, TypeOK, PerTurn
  <2>t. turn \in Nat /\ attempt \in 0 .. PostRetries /\ posts \in Nat
    BY <2>m DEF IInv, TypeOK
  <2>p. /\ turn * PerTurn \in Nat
        /\ (turn + 1) * PerTurn = turn * PerTurn + PerTurn
        /\ MaxTurns[style] * PerTurn \in Nat
    BY <2>m, <2>t, Product
  <2>q. turn < MaxTurns[style] => (turn + 1) * PerTurn =< MaxTurns[style] * PerTurn
    BY <2>m, <2>t, Monotone
  <2>1. posts =< MaxTurns[style] * PerTurn
    BY <2>m, <2>t, <2>p, <2>q, ConversationAssumption DEF IInv, TypeOK, Going, Counted
  <2> QED BY <2>1 DEF PostsBounded, PostLimit, PerTurn
<1> QED BY Always, <1>1, PTL

-----------------------------------------------------------------------------
(* What a request may look like.                                           *)

Opened(c) == Len(c) >= 2 /\ c[1] = Say("system") /\ c[2] = Say("user")

Paired(c) ==
    \A i \in 1 .. Len(c) : \A j \in 1 .. c[i].calls :
        i + j =< Len(c) /\ c[i + j].role = "tool"

Asked(c) ==
    \A i \in 1 .. Len(c) : c[i].role = "tool" =>
        \E k \in 1 .. i : k < i /\ i - k =< c[k].calls

Exchange(c) == c \in Seq(Message) /\ Paired(c) /\ Asked(c)

LEMMA CallsAreNatural ==
    ASSUME NEW c \in Seq(Message), NEW i \in 1 .. Len(c)
    PROVE  c[i].calls \in Nat
<1>1. c[i] \in Message
  BY ElementOfSeq
<1> QED
  BY <1>1, ConversationAssumption DEF Message

\* Two exchanges, one after the other, are one.
LEMMA ExchangesFollow ==
    ASSUME NEW c, Exchange(c), NEW e, Exchange(e)
    PROVE  Exchange(c \o e)
<1> DEFINE d == c \o e
           n == Len(c)
           m == Len(e)
<1>1. /\ d \in Seq(Message) /\ n \in Nat /\ m \in Nat /\ Len(d) = n + m
      /\ \A i \in 1 .. n : d[i] = c[i]
      /\ \A i \in 1 .. m : d[n + i] = e[i]
  BY DEF Exchange
<1>2. \A i \in 1 .. n : c[i].calls \in Nat
  BY CallsAreNatural DEF Exchange
<1>3. \A i \in 1 .. m : e[i].calls \in Nat
  BY CallsAreNatural DEF Exchange
<1>4. \A i \in 1 .. n + m : i \in 1 .. n \/ (i - n \in 1 .. m /\ i = n + (i - n))
  BY <1>1
<1> HIDE DEF d, n, m
<1>5. \A i \in 1 .. n : \A j \in 1 .. c[i].calls : i + j \in 1 .. n /\ c[i + j].role = "tool"
  BY <1>1, <1>2 DEF Exchange, Paired, n
<1>6. \A i \in 1 .. m : \A j \in 1 .. e[i].calls : i + j \in 1 .. m /\ e[i + j].role = "tool"
  BY <1>1, <1>3 DEF Exchange, Paired, m
<1>7. Paired(d)
  <2> SUFFICES ASSUME NEW i \in 1 .. n + m, NEW j \in 1 .. d[i].calls
               PROVE  i + j =< n + m /\ d[i + j].role = "tool"
    BY <1>1 DEF Paired
  <2>1. CASE i \in 1 .. n
    BY <1>1, <1>5, <2>1
  <2>2. CASE i - n \in 1 .. m
    <3>1. PICK a \in 1 .. m : i = n + a
      BY <1>1, <2>2
    <3>2. j \in 1 .. e[a].calls
      BY <1>1, <3>1
    <3>3. a + j \in 1 .. m /\ e[a + j].role = "tool" /\ j \in Nat /\ a \in Nat
      BY <1>3, <1>6, <3>2
    <3>4. i + j = n + (a + j) /\ n + (a + j) =< n + m
      BY <1>1, <3>1, <3>3
    <3>5. d[n + (a + j)] = e[a + j]
      BY <1>1, <3>3
    <3> QED
      BY <3>3, <3>4, <3>5
  <2> QED
    BY <1>4, <2>1, <2>2
<1>8. Asked(d)
  <2> SUFFICES ASSUME NEW i \in 1 .. n + m, d[i].role = "tool"
               PROVE  \E k \in 1 .. i : k < i /\ i - k =< d[k].calls
    BY <1>1 DEF Asked
  <2>1. CASE i \in 1 .. n
    <3>1. PICK k \in 1 .. i : k < i /\ i - k =< c[k].calls
      BY <1>1, <2>1 DEF Exchange, Asked, n
    <3>2. k \in 1 .. n /\ d[k] = c[k]
      BY <1>1, <2>1, <3>1
    <3> QED
      BY <3>1, <3>2
  <2>2. CASE i - n \in 1 .. m
    <3>1. PICK a \in 1 .. m : i = n + a
      BY <1>1, <2>2
    <3>2. e[a].role = "tool"
      BY <1>1, <3>1
    <3>3. PICK k \in 1 .. a : k < a /\ a - k =< e[k].calls
      BY <3>2 DEF Exchange, Asked, m
    <3>4. k \in 1 .. m /\ d[n + k] = e[k]
      BY <1>1, <3>3
    <3>5. n + k \in 1 .. i /\ n + k < i /\ i - (n + k) = a - k
      BY <1>1, <3>1, <3>3
    <3> QED
      BY <3>3, <3>4, <3>5
  <2> QED
    BY <1>4, <2>1, <2>2
<1> QED
  BY <1>1, <1>7, <1>8 DEF Exchange, d

LEMMA OpeningStays ==
    ASSUME NEW c \in Seq(Message), Opened(c), NEW e \in Seq(Message)
    PROVE  Opened(c \o e)
BY DEF Opened

LEMMA SayIsMessage ==
    \A role \in {"system", "user", "assistant", "tool"} :
        Say(role) \in Message /\ Say(role).calls = 0 /\ Say(role).role = role
BY ConversationAssumption DEF Say, Message

LEMMA PlainTalk ==
    /\ Exchange(<<Say("user")>>)
    /\ Exchange(<<Say("assistant"), Say("user")>>)
    /\ Exchange(Prompt) /\ Opened(Prompt)
<1>1. /\ Say("user") \in Message /\ Say("assistant") \in Message /\ Say("system") \in Message
      /\ Say("user").calls = 0 /\ Say("assistant").calls = 0 /\ Say("system").calls = 0
      /\ Say("user").role # "tool" /\ Say("assistant").role # "tool" /\ Say("system").role # "tool"
  BY SayIsMessage
<1>2. Exchange(<<Say("user")>>)
  BY <1>1 DEF Exchange, Paired, Asked
<1>3. Exchange(<<Say("assistant"), Say("user")>>)
  BY <1>1 DEF Exchange, Paired, Asked
<1>4. Exchange(Prompt) /\ Opened(Prompt)
  BY <1>1 DEF Exchange, Paired, Asked, Prompt, Opened
<1> QED
  BY <1>2, <1>3, <1>4

\* An assistant's tool calls with their results.
LEMMA ToolTalk ==
    ASSUME NEW k \in 1 .. MaxCalls
    PROVE  Exchange(<<[role |-> "assistant", calls |-> k]>> \o Results(k))
<1> DEFINE call == [role |-> "assistant", calls |-> k]
           e == <<call>> \o Results(k)
<1>1. /\ call \in Message /\ call.calls = k /\ call.role = "assistant" /\ k \in Nat
      /\ Say("tool") \in Message /\ Say("tool").calls = 0 /\ Say("tool").role = "tool"
  BY ConversationAssumption, SayIsMessage DEF Message
<1>2. Results(k) \in Seq(Message) /\ Len(Results(k)) = k /\ \A i \in 1 .. k : Results(k)[i] = Say("tool")
  BY <1>1 DEF Results
<1> HIDE DEF call
<1>3. /\ e \in Seq(Message) /\ Len(e) = k + 1 /\ e[1] = call
      /\ \A i \in 1 .. k + 1 : i # 1 => e[i] = Say("tool")
  BY <1>1, <1>2
<1> HIDE DEF e
<1>4. Paired(e)
  BY <1>1, <1>3 DEF Paired
<1>5. Asked(e)
  BY <1>1, <1>3 DEF Asked
<1> QED
  BY <1>3, <1>4, <1>5 DEF Exchange, e, call

WellFormed == Exchange(context) /\ Opened(context)

LEMMA WellFormedStep ==
    ASSUME WellFormed, [Next]_vars
    PROVE  WellFormed'
<1>c. context \in Seq(Message)
  BY DEF WellFormed, Exchange
<1>1. ASSUME NEW e, Exchange(e), context' = context \o e
      PROVE  WellFormed'
  BY <1>1, ExchangesFollow, OpeningStays DEF WellFormed, Exchange
<1>2. CASE CallTools
  <2>1. PICK k \in 1 .. MaxCalls :
            context' = Append(context, [role |-> "assistant", calls |-> k]) \o Results(k)
    BY <1>2 DEF CallTools
  <2>2. [role |-> "assistant", calls |-> k] \in Message /\ Results(k) \in Seq(Message)
    BY ConversationAssumption, SayIsMessage DEF Message, Results
  <2>3. context' = context \o (<<[role |-> "assistant", calls |-> k]>> \o Results(k))
    <3> DEFINE call == [role |-> "assistant", calls |-> k]
    <3>1. Append(context, call) = context \o <<call>>
      BY <1>c, <2>2
    <3>2. <<call>> \in Seq(Message)
      BY <2>2
    <3> HIDE DEF call
    <3>3. (context \o <<call>>) \o Results(k) = context \o (<<call>> \o Results(k))
      BY <1>c, <2>2, <3>2, ConcatAssociative
    <3> QED
      BY <2>1, <3>1, <3>3 DEF call
  <2> QED
    BY <1>1, <2>3, ToolTalk
<1>3. ASSUME NEW cut \in BOOLEAN, Malformed(cut)
      PROVE  WellFormed'
  <2>1. CASE context' = context
    BY <2>1 DEF WellFormed
  <2>2. CASE context' = Shorter
    <3>1. CASE style = "triage"
      <4>1. context' = Prompt \o <<Say("user")>>
        BY <2>2, <3>1, SayIsMessage, PromptIsContext DEF Shorter
      <4> QED
        BY <4>1, PlainTalk, ExchangesFollow, OpeningStays DEF WellFormed, Exchange
    <3>2. CASE style # "triage"
      <4>1. context' = context \o <<Say("user")>>
        BY <1>c, <2>2, <3>2, SayIsMessage DEF Shorter
      <4> QED
        BY <1>1, <4>1, PlainTalk
    <3> QED
      BY <3>1, <3>2
  <2>3. CASE context' = context \o <<Say("assistant"), Say("user")>>
    BY <1>1, <2>3, PlainTalk
  <2> QED
    BY <1>3, <2>1, <2>2, <2>3 DEF Malformed
<1>4. CASE context' = context
  BY <1>4 DEF WellFormed
<1> QED
  BY <1>2, <1>3, <1>4 DEF Next, Begin, Complete, Finish, Terminated, vars

\* Every request of a conversation opens with the prompt and pairs tool calls
\* with their results, for any budgets (the loops over Complete).
THEOREM RequestsAreWellFormed == Spec => []RequestIsWellFormed
<1>1. Init => WellFormed
  BY PlainTalk DEF Init, WellFormed
<1>2. WellFormed => RequestIsWellFormed
  <2> SUFFICES ASSUME WellFormed PROVE RequestIsWellFormed
    OBVIOUS
  <2>1. context \in Seq(Message) /\ DOMAIN context = 1 .. Len(context) /\ Len(context) \in Nat
    BY DEF WellFormed, Exchange
  <2>2. SubSeq(context, 1, 2) = Prompt
    <3>1. Len(context) >= 2 /\ context[1] = Say("system") /\ context[2] = Say("user")
      BY DEF WellFormed, Opened
    <3>2. /\ SubSeq(context, 1, 2) \in Seq(Message) /\ Len(SubSeq(context, 1, 2)) = 2
          /\ SubSeq(context, 1, 2)[1] = context[1] /\ SubSeq(context, 1, 2)[2] = context[2]
      BY <2>1, <3>1, SubSeqProperties
    <3>3. Prompt \in Seq(Message) /\ Len(Prompt) = 2
          /\ Prompt[1] = Say("system") /\ Prompt[2] = Say("user")
      BY PromptIsContext DEF Prompt
    <3> HIDE DEF Prompt
    <3>4. \A i \in 1 .. Len(Prompt) : SubSeq(context, 1, 2)[i] = Prompt[i]
      BY <3>1, <3>2, <3>3
    <3> QED
      BY <3>2, <3>3, <3>4, SeqEqual
  <2>3. \A i \in DOMAIN context : context[i].calls \in Nat
    BY <2>1, CallsAreNatural
  <2>4. \A i \in DOMAIN context : context[i].calls > 0 =>
            \A j \in 1 .. context[i].calls :
                i + j \in DOMAIN context /\ context[i + j].role = "tool"
    BY <2>1, <2>3 DEF WellFormed, Exchange, Paired
  <2>5. \A i \in DOMAIN context : context[i].role = "tool" =>
            \E k \in 1 .. i : k < i /\ i - k =< context[k].calls
    BY <2>1 DEF WellFormed, Exchange, Asked
  <2> QED
    BY <2>2, <2>4, <2>5 DEF WellFormed, Opened, RequestIsWellFormed
<1> QED
  BY <1>1, <1>2, WellFormedStep, PTL DEF Spec

-----------------------------------------------------------------------------
(* How long a conversation can be.                                         *)

\* The posts of one turn, and its answer.
TurnSteps == PostRetries + 2

\* The beginning, and as many turns as there may be.
MaxSteps == MaxTurns[style] * TurnSteps + 1

\* The steps that a conversation has before it at most.
StepsLeft ==
    IF pc = "start" THEN MaxSteps
    ELSE IF pc = "ask" THEN (MaxTurns[style] - turn) * TurnSteps - attempt
    ELSE IF pc = "answer" THEN (MaxTurns[style] - (turn + 1)) * TurnSteps + 1
    ELSE 0

LEMMA StepsAreCounted ==
    ASSUME IInv
    PROVE  StepsLeft \in 0 .. MaxSteps
<1>1. /\ MaxTurns[style] \in Nat \ {0} /\ TurnSteps \in Nat /\ TurnSteps = PostRetries + 2
      /\ PostRetries \in Nat /\ turn \in 0 .. MaxTurns[style] /\ attempt \in 0 .. PostRetries
  BY ConversationAssumption DEF IInv, TypeOK, TurnSteps
<1>2. MaxTurns[style] * TurnSteps \in Nat
  BY <1>1, Product
<1>3. CASE pc = "ask"
  <2>1. turn < MaxTurns[style]
    BY <1>3 DEF IInv, Going
  <2> DEFINE left == MaxTurns[style] - turn
  <2>2. left \in Nat /\ 1 =< left /\ left =< MaxTurns[style]
    BY <1>1, <2>1
  <2> HIDE DEF left
  <2>3. left * TurnSteps \in Nat /\ 1 * TurnSteps =< left * TurnSteps
    BY <1>1, <2>2, Product, Monotone
  <2>4. left * TurnSteps =< MaxTurns[style] * TurnSteps
    BY <1>1, <2>2, Monotone
  <2>5. StepsLeft = left * TurnSteps - attempt
    BY <1>3 DEF StepsLeft, left
  <2> QED
    BY <1>1, <1>2, <2>3, <2>4, <2>5 DEF MaxSteps
<1>4. CASE pc = "answer"
  <2>1. turn < MaxTurns[style]
    BY <1>4 DEF IInv, Going
  <2> DEFINE left == MaxTurns[style] - (turn + 1)
  <2>2. left \in Nat /\ left =< MaxTurns[style]
    BY <1>1, <2>1
  <2> HIDE DEF left
  <2>3. left * TurnSteps \in Nat /\ left * TurnSteps =< MaxTurns[style] * TurnSteps
    BY <1>1, <2>2, Product, Monotone
  <2>4. StepsLeft = left * TurnSteps + 1
    BY <1>4 DEF StepsLeft, left
  <2> QED
    BY <1>2, <2>3, <2>4 DEF MaxSteps
<1> QED
  BY <1>2, <1>3, <1>4 DEF StepsLeft, MaxSteps

LEMMA StepsDecrease ==
    ASSUME IInv, IInv', Next, vars' # vars
    PROVE  StepsLeft' < StepsLeft
<1>1. /\ MaxTurns[style] \in Nat \ {0} /\ TurnSteps \in Nat /\ TurnSteps = PostRetries + 2
      /\ PostRetries \in Nat /\ turn \in 0 .. MaxTurns[style] /\ attempt \in 0 .. PostRetries
  BY ConversationAssumption DEF IInv, TypeOK, TurnSteps
<1>2. MaxTurns[style] * TurnSteps \in Nat
  BY <1>1, Product
<1>3. pc = "answer" => attempt = 0
  BY DEF IInv, Answered
<1>4. pc = "start" => turn = 0 /\ attempt = 0
  BY DEF IInv, Fresh
<1>5. pc \in {"ask", "answer"} => turn < MaxTurns[style]
  BY DEF IInv, Going
<1> DEFINE All == MaxTurns[style] * TurnSteps
           This == (MaxTurns[style] - turn) * TurnSteps
           After == (MaxTurns[style] - (turn + 1)) * TurnSteps
<1>6. All \in Nat /\ After \in Int /\ This = After + TurnSteps
  <2> DEFINE left == MaxTurns[style] - (turn + 1)
  <2>1. left \in Int /\ MaxTurns[style] - turn = left + 1
    BY <1>1
  <2> HIDE DEF left
  <2>2. left * TurnSteps \in Int /\ (left + 1) * TurnSteps = left * TurnSteps + TurnSteps
    BY <1>1, <2>1
  <2> QED
    BY <1>2, <2>1, <2>2 DEF left
<1>7. pc \in {"ask", "answer"} => After \in Nat
  <2> DEFINE left == MaxTurns[style] - (turn + 1)
  <2>1. pc \in {"ask", "answer"} => left \in Nat
    BY <1>1, <1>5
  <2> HIDE DEF left
  <2>2. pc \in {"ask", "answer"} => left * TurnSteps \in Nat
    BY <1>1, <2>1, Product
  <2> QED
    BY <2>2 DEF left
<1>8. /\ pc = "start" => StepsLeft = All + 1
      /\ pc = "ask" => StepsLeft = This - attempt
      /\ pc = "answer" => StepsLeft = After + 1
  BY DEF StepsLeft, MaxSteps
<1>9. UNCHANGED style
  BY DEF Next, Begin, Complete, CallTools, Finish, Malformed, Terminated, vars
<1>10. /\ pc' = "ask" /\ turn' = 0 => StepsLeft' = All - attempt'
       /\ pc' = "ask" /\ turn' = turn => StepsLeft' = This - attempt'
       /\ pc' = "ask" /\ turn' = turn + 1 => StepsLeft' = After - attempt'
       /\ pc' = "answer" /\ turn' = turn => StepsLeft' = After + 1
       /\ pc' \in {"done", "failed"} => StepsLeft' = 0
  <2>1. MaxTurns[style] - 0 = MaxTurns[style]
    BY <1>1
  <2> QED
    BY <1>9, <2>1 DEF StepsLeft, TurnSteps
<1> HIDE DEF All, This, After
<1>11. CASE Begin
  <2>1. pc = "start" /\ pc' \in {"ask", "failed"} /\ turn' = 0 /\ attempt' = 0
    BY <1>4, <1>11 DEF Begin
  <2> QED
    BY <1>6, <1>8, <1>10, <2>1
<1>12. CASE Complete
  <2>1. /\ pc = "ask" /\ turn' = turn
        /\ \/ pc' = "answer" \/ pc' = "failed"
           \/ pc' = "ask" /\ attempt' = attempt + 1
    BY <1>12 DEF Complete
  <2>2. After \in Nat /\ StepsLeft = After + TurnSteps - attempt
    BY <1>1, <1>6, <1>7, <1>8, <2>1
  <2> QED
    BY <1>1, <1>6, <1>10, <2>1, <2>2
<1>13. ASSUME pc = "answer", pc' \in {"ask", "done", "failed"},
              pc' = "ask" => turn' = turn + 1 /\ attempt' = attempt
       PROVE  StepsLeft' < StepsLeft
  <2>1. After \in Nat /\ StepsLeft = After + 1
    BY <1>7, <1>8, <1>13
  <2> QED
    BY <1>3, <1>10, <1>13, <2>1
<1>14. CASE CallTools
  BY <1>13, <1>14 DEF CallTools, NextTurn
<1>15. CASE Finish
  BY <1>13, <1>15 DEF Finish
<1>16. CASE \E cut \in BOOLEAN : Malformed(cut)
  BY <1>13, <1>16 DEF Malformed, NextTurn
<1> QED
  BY <1>11, <1>12, <1>14, <1>15, <1>16 DEF Next, Terminated

\* Whatever the model answers and however posts fail, every step of a
\* conversation uses up one of a number of steps that the limits fix at its
\* beginning: no retry, no refused tool call and no shortened answer is free.
THEOREM ConversationsRunOut ==
    Spec => [](StepsLeft \in 0 .. MaxSteps) /\ [][StepsLeft' < StepsLeft]_vars
<1>1. IInv /\ IInv' /\ [Next]_vars => [StepsLeft' < StepsLeft]_vars
  BY StepsDecrease
<1> QED
  BY <1>1, Always, StepsAreCounted, PTL DEF Spec
=============================================================================
