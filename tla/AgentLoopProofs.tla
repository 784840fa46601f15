--------------------------- MODULE AgentLoopProofs --------------------------
(***************************************************************************)
(* What holds of the agent loop for every set of endpoints and tools,      *)
(* every turn limit and every number of calls in a reply.                  *)
(*                                                                         *)
(* Neither TypeOK nor CallsAreAnswered is inductive: the turn counter      *)
(* stays in its type because the loop ends at the limit (TurnsLeft), and   *)
(* the answers of a whole turn are right because those given so far are    *)
(* (AnsweredSoFar) and no tool is bound or lost once tasks run             *)
(* (ToolsAreFixed).                                                        *)
(***************************************************************************)
EXTENDS AgentLoop, TLAPS

\* A loop that goes on has turns left.
TurnsLeft ==
  /\ stage \in {"connect", "ready"} => turn = 0
  /\ stage \notin {"answered", "failed"} => turn < MaxAgentTurns

\* The tools are bound before the first task and never after.
ToolsAreFixed ==
  /\ stage = "connect" => answers = <<>>
  /\ stage # "connect" => pending = {}

\* The calls are answered one by one, and "unavailable" is said of a tool only if
\* it is.
AnsweredSoFar ==
  /\ Len(answers) <= Len(calls)
  /\ \A i \in 1..Len(answers) :
       /\ answers[i].call = i
       /\ answers[i].text = "unavailable" => tools[calls[i].tool] = NoEndpoint
  /\ stage = "chat" /\ turn > 0 => Len(answers) = Len(calls)

LoopInv == TypeOK /\ TurnsLeft /\ ToolsAreFixed /\ AnsweredSoFar

\* A tool message answers the call whose turn it is.
LEMMA ReplyStep ==
  ASSUME LoopInv, CallDue, UNCHANGED <<stage, pending, tools, turn, calls>>,
         NEW text \in {"unavailable", "invalid", "error", "result"}, Reply(text),
         text = "unavailable" => tools[Due.tool] = NoEndpoint
  PROVE  LoopInv'
<1> USE DEF LoopInv
<1> DEFINE a == [call |-> CallNumber, text |-> text]
           n == Len(answers)
<1>1. /\ answers \in Seq(Answer) /\ n \in Nat /\ Len(calls) \in Nat
      /\ Len(calls) <= MaxCalls /\ stage = "tools" /\ n + 1 <= Len(calls)
  BY DEF TypeOK, CallDue, CallNumber
<1>2. a \in Answer
  BY <1>1, AgentAssumption DEF Answer, CallNumber
<1>3. /\ answers' = Append(answers, a) /\ answers' \in Seq(Answer) /\ Len(answers') = n + 1
      /\ answers'[n + 1] = a /\ \A i \in 1..n : answers'[i] = answers[i]
  BY <1>1, <1>2 DEF Reply
<1>4. TypeOK'
  BY <1>3 DEF TypeOK
<1>5. TurnsLeft' /\ ToolsAreFixed'
  BY <1>1 DEF TurnsLeft, ToolsAreFixed
<1>6. ASSUME NEW i \in 1..Len(answers')
      PROVE  /\ answers'[i].call = i
             /\ answers'[i].text = "unavailable" => tools[calls[i].tool] = NoEndpoint
  <2>1. CASE i \in 1..n
    BY <1>3, <2>1 DEF AnsweredSoFar
  <2>2. CASE i = n + 1
    BY <1>3, <2>2 DEF Due, CallNumber
  <2>3. QED
    BY <1>1, <1>3, <2>1, <2>2
<1>7. AnsweredSoFar'
  BY <1>1, <1>3, <1>6 DEF AnsweredSoFar
<1>8. QED
  BY <1>4, <1>5, <1>7

\* Every step of the runner, the LLM and the MCP servers keeps the invariant.
LEMMA LoopStepKeeps == LoopInv /\ [Next]_vars => LoopInv'
<1> SUFFICES ASSUME LoopInv, [Next]_vars PROVE LoopInv'
  OBVIOUS
<1> USE AgentAssumption DEF LoopInv
<1>0. turn \in Nat /\ MaxAgentTurns \in Nat /\ answers \in Seq(Answer) /\ calls \in Seq(Call)
  BY DEF TypeOK
<1>1. ASSUME NEW e \in Endpoints, ConnectEndpoint(e) PROVE LoopInv'
  <2>1. stage = "connect" /\ answers = <<>>
    BY <1>1 DEF ConnectEndpoint, ToolsAreFixed
  <2>2. TypeOK'
    BY <1>1 DEF ConnectEndpoint, TypeOK
  <2>3. TurnsLeft' /\ ToolsAreFixed' /\ AnsweredSoFar'
    BY <1>0, <1>1, <2>1 DEF ConnectEndpoint, TurnsLeft, ToolsAreFixed, AnsweredSoFar
  <2>4. QED
    BY <2>2, <2>3
<1>2. ASSUME NEW e \in Endpoints, SkipEndpoint(e) PROVE LoopInv'
  BY <1>2 DEF SkipEndpoint, TypeOK, TurnsLeft, ToolsAreFixed, AnsweredSoFar
<1>3. CASE Connected
  BY <1>3 DEF Connected, TypeOK, TurnsLeft, ToolsAreFixed, AnsweredSoFar
<1>4. CASE StartTask
  <2>1. /\ stage = "ready" /\ stage' \in {"chat", "failed"}
        /\ UNCHANGED <<pending, tools, turn, calls, answers>>
    BY <1>4 DEF StartTask
  <2>2. turn = 0
    BY <2>1 DEF TurnsLeft
  <2>3. QED
    BY <2>1, <2>2 DEF TypeOK, TurnsLeft, ToolsAreFixed, AnsweredSoFar
<1>5. CASE FinalAnswer \/ ChatFails
  BY <1>5 DEF FinalAnswer, ChatFails, TypeOK, TurnsLeft, ToolsAreFixed, AnsweredSoFar
<1>6. ASSUME NEW reply \in Replies, AsksForTools(reply) PROVE LoopInv'
  <2>1. PICK n \in 1..MaxCalls : reply \in [1..n -> Call]
    BY DEF Replies
  <2>2. reply \in Seq(Call) /\ Len(reply) = n
    BY <2>1
  <2>3. TypeOK'
    BY <1>6, <2>2 DEF AsksForTools, TypeOK
  <2>4. TurnsLeft' /\ ToolsAreFixed' /\ AnsweredSoFar'
    BY <1>6, <2>2 DEF AsksForTools, TurnsLeft, ToolsAreFixed, AnsweredSoFar
  <2>5. QED
    BY <2>3, <2>4
<1>7. CASE EndTurn
  <2>1. /\ stage = "tools" /\ Len(answers) = Len(calls) /\ turn' = turn + 1
        /\ stage' = IF turn' >= MaxAgentTurns THEN "failed" ELSE "chat"
        /\ UNCHANGED <<pending, tools, calls, answers>>
    BY <1>7 DEF EndTurn, TurnDone, NextTurn, TurnCap
  <2>2. TypeOK'
    BY <1>0, <2>1 DEF TypeOK, TurnsLeft
  <2>3. TurnsLeft' /\ ToolsAreFixed' /\ AnsweredSoFar'
    BY <1>0, <2>1 DEF TurnsLeft, ToolsAreFixed, AnsweredSoFar
  <2>4. QED
    BY <2>2, <2>3
<1>8. CASE RefuseTool
  BY <1>8, ReplyStep DEF RefuseTool
<1>9. CASE CallTool
  BY <1>9, ReplyStep DEF CallTool, ToolRuns
<1>10. CASE UNCHANGED vars
  BY <1>10 DEF vars, TypeOK, TurnsLeft, ToolsAreFixed, AnsweredSoFar
<1>11. QED
  BY <1>1, <1>2, <1>3, <1>4, <1>5, <1>6, <1>7, <1>8, <1>9, <1>10 DEF Next, LoopStep

\* The invariant holds before the first chat and after every step of the loop.
LEMMA LoopInvHolds == Spec => []LoopInv
<1>1. ASSUME Init PROVE LoopInv
  <2>1. TypeOK
    BY <1>1, AgentAssumption DEF Init, TypeOK
  <2>2. TurnsLeft /\ ToolsAreFixed /\ AnsweredSoFar
    BY <1>1, AgentAssumption DEF Init, TurnsLeft, ToolsAreFixed, AnsweredSoFar
  <2>3. QED
    BY <2>1, <2>2 DEF LoopInv
<1>2. QED
  BY <1>1, LoopStepKeeps, PTL DEF Spec

\* LoopTypeCorrect: the loop never goes past maxAgentTurns, and never answers more
\* calls than a reply has.
THEOREM LoopTypeCorrect == Spec => []TypeOK
BY LoopInvHolds, PTL DEF LoopInv

\* EveryCallIsAnswered: for every number of endpoints, tools, turns and calls, the
\* LLM is asked again only when each of its tool calls has its one tool message,
\* in order, and no tool it was offered was reported as unavailable.
THEOREM EveryCallIsAnswered == Spec => []CallsAreAnswered
<1>1. LoopInv => CallsAreAnswered
  BY DEF LoopInv, AnsweredSoFar, CallsAreAnswered, Offered, TypeOK
<1>2. QED
  BY <1>1, LoopInvHolds, PTL
=============================================================================
