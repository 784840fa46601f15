----------------------------- MODULE AgentLoop ------------------------------
(***************************************************************************)
(* The agent of a Worker node: connectMCPTools at the start of the process *)
(* and agentLoop for one task.  The LLM endpoint and the MCP servers are   *)
(* external: each answer and each failure the runner handles is possible.  *)
(* An LLM call ends within the HTTP client's timeout; a tool call has no   *)
(* timeout and may hang.                                                   *)
(***************************************************************************)
EXTENDS Integers, Sequences

CONSTANTS
  Endpoints,     \* cfg.mcpEndpoints
  Tools,         \* tool names the LLM may ask for, existing or not
  Serves,        \* the tools each endpoint lists
  AllowedTools,  \* cfg.allowedTools
  HasLLM,        \* whether LLM_BASE_URL is set
  MaxAgentTurns, \* maxAgentTurns
  MaxCalls,      \* bound on the tool calls of one reply
  NoEndpoint

ASSUME AgentAssumption ==
  /\ Serves \in [Endpoints -> SUBSET Tools]
  /\ AllowedTools \subseteq Tools
  /\ HasLLM \in BOOLEAN
  /\ MaxAgentTurns \in Nat \ {0}
  /\ MaxCalls \in Nat
  /\ NoEndpoint \notin Endpoints

VARIABLES
  stage,    \* "connect", "ready", "chat", "tools", "answered" or "failed"
  pending,  \* endpoints that are still to be connected
  tools,    \* handler.tools: the endpoint each tool is bound to
  turn,     \* completed turns of the loop
  calls,    \* tool calls of the last reply
  answers   \* the tool messages that were appended after it

vars == <<stage, pending, tools, turn, calls, answers>>

\* A tool call of the LLM: the tool, and whether its arguments are a JSON object.
\* A tool message: the call it answers and what it tells the LLM.
Call   == [tool : Tools, valid : BOOLEAN]
Answer == [call : 1..MaxCalls, text : {"unavailable", "invalid", "error", "result"}]

TypeOK ==
  /\ stage \in {"connect", "ready", "chat", "tools", "answered", "failed"}
  /\ pending \subseteq Endpoints
  /\ tools \in [Tools -> Endpoints \cup {NoEndpoint}]
  /\ turn \in 0..MaxAgentTurns
  /\ calls \in Seq(Call) /\ Len(calls) <= MaxCalls
  /\ answers \in Seq(Answer)

Init ==
  /\ stage = "connect"
  /\ pending = Endpoints
  /\ tools = [t \in Tools |-> NoEndpoint]
  /\ turn = 0
  /\ calls = <<>>
  /\ answers = <<>>
-----------------------------------------------------------------------------
(***************************************************************************)
(* connectMCPTools: the endpoints in map order.  A tool that several       *)
(* endpoints list is bound to the one that was connected last.             *)
(***************************************************************************)
ConnectEndpoint(e) ==
  /\ e \in pending
  /\ pending' = pending \ {e}
  /\ tools' = [t \in Tools |-> IF t \in Serves[e] THEN e ELSE tools[t]]
  /\ UNCHANGED <<stage, turn, calls, answers>>

\* Creating, starting or initialising the client or listing its tools fails: the
\* endpoint is skipped, for as long as the process lives.
SkipEndpoint(e) ==
  /\ e \in pending
  /\ pending' = pending \ {e}
  /\ UNCHANGED <<stage, tools, turn, calls, answers>>

Connected ==
  /\ stage = "connect"
  /\ pending = {}
  /\ stage' = "ready"
  /\ UNCHANGED <<pending, tools, turn, calls, answers>>
-----------------------------------------------------------------------------
(***************************************************************************)
(* agentLoop.                                                              *)
(***************************************************************************)
StartTask ==
  /\ stage = "ready"
  /\ stage' = IF HasLLM THEN "chat" ELSE "failed"
  /\ UNCHANGED <<pending, tools, turn, calls, answers>>

\* A reply without tool calls is the final answer.
FinalAnswer ==
  /\ stage = "chat"
  /\ stage' = "answered"
  /\ UNCHANGED <<pending, tools, turn, calls, answers>>

\* A reply with tool calls: it joins the conversation.
AsksForTools(reply) ==
  /\ stage = "chat"
  /\ reply # <<>>
  /\ calls' = reply
  /\ answers' = <<>>
  /\ stage' = "tools"
  /\ UNCHANGED <<pending, tools, turn>>

\* chat returns an error: transport, status, decoding, or no choices.
ChatFails ==
  /\ stage = "chat"
  /\ stage' = "failed"
  /\ UNCHANGED <<pending, tools, turn, calls, answers>>

\* The tool call whose turn it is.
CallNumber == Len(answers) + 1
CallDue    == stage = "tools" /\ CallNumber \in 1..Len(calls)

Due        == calls[CallNumber]
Reply(text) == answers' = Append(answers, [call |-> CallNumber, text |-> text])

\* callToolForAgent, when no MCP server is asked: the tool is not connected, or
\* its arguments cannot be decoded.
RefuseTool ==
  /\ CallDue
  /\ \/ tools[Due.tool] = NoEndpoint /\ Reply("unavailable")
     \/ tools[Due.tool] # NoEndpoint /\ ~Due.valid /\ Reply("invalid")
  /\ UNCHANGED <<stage, pending, tools, turn, calls>>

\* callToolForAgent, when the call is made.  An error is the tool's answer.
ToolRuns == CallDue /\ tools[Due.tool] # NoEndpoint /\ Due.valid
CallTool ==
  /\ ToolRuns
  /\ \E text \in {"error", "result"} : Reply(text)
  /\ UNCHANGED <<stage, pending, tools, turn, calls>>

\* Mutant of TurnDone: only the first tool call of a reply is looked at.
FirstCallDone == Len(answers) > 0

TurnDone == Len(answers) = Len(calls)

\* Mutant of NextTurn: the turns are not counted.
SameTurn == turn

NextTurn == turn + 1

\* Mutant of TurnCap: off by one.
TurnCapLate(n) == n > MaxAgentTurns

TurnCap(n) == n >= MaxAgentTurns

\* All calls of the reply are answered; the turn cap ends the loop.
EndTurn ==
  /\ stage = "tools"
  /\ TurnDone
  /\ turn' = NextTurn
  /\ stage' = IF TurnCap(turn') THEN "failed" ELSE "chat"
  /\ UNCHANGED <<pending, tools, calls, answers>>
-----------------------------------------------------------------------------
Replies == UNION {[1..n -> Call] : n \in 1..MaxCalls}

LoopStep ==
  \/ Connected
  \/ StartTask
  \/ FinalAnswer
  \/ ChatFails
  \/ \E reply \in Replies : AsksForTools(reply)
  \/ EndTurn

Next ==
  \/ \E e \in Endpoints : ConnectEndpoint(e) \/ SkipEndpoint(e)
  \/ LoopStep
  \/ RefuseTool
  \/ CallTool

Spec == Init /\ [][Next]_vars

\* The loop itself never waits, an LLM call times out, and a refused call needs
\* nobody.  Nothing obliges an MCP server to answer.
FairSpec == Spec /\ WF_vars(LoopStep) /\ WF_vars(RefuseTool)
-----------------------------------------------------------------------------
\* toolSpecs: the connected ones among the allowed tools are offered to the LLM.
Offered == {t \in AllowedTools : tools[t] # NoEndpoint}

\* CallsAreAnswered: the LLM is asked again only when every tool call of its last
\* reply has exactly one tool message, in order, failed and unknown calls too,
\* and a tool it was offered has never turned out to be unavailable.
CallsAreAnswered ==
  stage = "chat" /\ turn > 0 =>
    /\ Len(answers) = Len(calls)
    /\ \A i \in 1..Len(calls) :
         /\ answers[i].call = i
         /\ calls[i].tool \in Offered => answers[i].text # "unavailable"

Ended == stage \in {"answered", "failed"}

\* TaskEnds: a task gets its final answer or is given up, whatever the LLM keeps
\* asking for, unless an MCP server never answers a call.
TaskEnds == [](stage = "ready" => <>Ended \/ <>[]ToolRuns)
=============================================================================
