--------------------------- MODULE AgentExecution ---------------------------
(***************************************************************************)
(* Agent nodes of one parallel batch: NodeExecutor._execute_agent with its *)
(* retries, the model/tool loop of BaseAgent.execute inside it, and the    *)
(* agents it asks in passing (ask_peer, RunContext.execute_subgraph), each *)
(* of which runs the same loop on the same RunContext.                     *)
(*                                                                         *)
(* A coroutine is a stack of frames, the node's own agent at the bottom.   *)
(* What is said is not modelled: a reply is the calls it asks for, and     *)
(* whether its text is empty.                                              *)
(***************************************************************************)
EXTENDS Naturals, Sequences, FiniteSets, SequencesExt

CONSTANTS
  Agent,
  Worker,          \* agents with a node in the batch
  ToolUser,        \* agents whose configuration lets them use tools
  Reviewed,        \* agents with self_review_enabled, in a run with a skeleton
  MaxIters,        \* max_tool_iterations of each agent
  MaxAsk,          \* max_ask_peer of each agent
  MaxDepth,        \* MAX_PEER_DEPTH
  MaxReply,        \* bound: calls in one reply
  EmptyRetries,    \* AGENT_EMPTY_RETRIES
  NodeRetries,     \* max_retries_per_node of the adaptive router
  TotalIterations  \* max_total_iterations of the adaptive router

\* (The loop of an agent without a single round would not ask its model.)
ASSUME AgentsAssumption ==
  /\ Worker \subseteq Agent
  /\ MaxIters \in [Agent -> Nat \ {0}] /\ MaxAsk \in [Agent -> Nat]
  /\ MaxDepth \in Nat /\ MaxReply \in Nat \ {0}
  /\ EmptyRetries \in Nat /\ NodeRetries \in Nat /\ TotalIterations \in Nat

VARIABLES
  stack,     \* frames of each node's coroutine, the innermost last
  node,      \* where each node is between two executions of its agent
  attempt,   \* executions for empty output since _execute_agent began
  again,     \* _is_self_review_retry in the node's input_data
  retries,   \* the adaptive router's count for each node
  total,     \* the adaptive router's _total_iterations
  outputs,   \* the keys of RunContext.agent_outputs
  depth      \* RunContext._peer_depth

router == <<retries, total>>
agentsVars == <<stack, node, attempt, again, router, outputs, depth>>

ToDo == UNION {[1 .. n -> {"ask", "tool"}] : n \in 0 .. MaxReply}

Frame == [agent : Agent,
          at : {"model", "calls", "wait", "review"},
          iter : Nat,
          asks : Nat,
          todo : ToDo,
          open : 0 .. MaxReply,     \* tool_calls without their role:"tool" message
          did : BOOLEAN,            \* executed_any
          round : {"first", "repeat",  \* inside the refused execution's review
                   "marked"}]           \* input_data says _is_self_review_retry

AgentsTyped ==
  /\ \A w \in Worker : \A i \in DOMAIN stack[w] :
       LET f == stack[w][i] IN
       f \in Frame /\ f.iter \in 1 .. MaxIters[f.agent] /\ f.asks <= MaxAsk[f.agent]
  /\ node \in [Worker -> {"idle", "agent", "ok", "empty", "error",
                          "evaluate", "done", "paused", "failed"}]
  /\ attempt \in [Worker -> 0 .. EmptyRetries]
  /\ again \in [Worker -> BOOLEAN]
  /\ retries \in [Worker -> 0 .. NodeRetries]
  /\ total \in Nat /\ depth \in Nat
  /\ outputs \subseteq Agent

AgentsInit ==
  /\ stack = [w \in Worker |-> <<>>]
  /\ node = [w \in Worker |-> "idle"]
  /\ attempt = [w \in Worker |-> 0]
  /\ again = [w \in Worker |-> FALSE]
  /\ retries = [w \in Worker |-> 0]
  /\ total = 0
  /\ outputs \in SUBSET (Agent \ Worker)   \* of earlier phases
  /\ depth = 0

------------------------------------------------------------------------------
(* Frames *)

Fresh(a, round) ==
  [agent |-> a, at |-> "model", iter |-> 1, asks |-> MaxAsk[a], todo |-> <<>>,
   open |-> 0, did |-> FALSE, round |-> round]

Top(w) == Last(stack[w])
TopAt(w, place) == stack[w] # <<>> /\ Top(w).at = place
Peers(a) == outputs \ {a}

SetTop(w, f) == stack' = [stack EXCEPT ![w] = Append(Front(@), f)]

NodeIs(w, where) == node' = [node EXCEPT ![w] = where]

------------------------------------------------------------------------------
(* The node: _execute_agent up to the agent's execute(), and the repetitions *)
(* for an output without content, with the same input_data.                  *)

\* _build_agent_input puts the input_data together anew for each execution of
\* the node; of all that is in it, only the mark of a review is told apart.
StartAgent(w) ==
  /\ stack' = [stack EXCEPT ![w] = <<Fresh(w, IF again'[w] THEN "marked" ELSE "first")>>]
  /\ NodeIs(w, "agent")

ExecuteAgent(w) ==
  /\ node[w] = "idle"
  /\ again' = again
  /\ StartAgent(w)
  /\ UNCHANGED <<attempt, router, outputs, depth>>

RetryEmpty(w) ==
  /\ node[w] = "empty" /\ attempt[w] < EmptyRetries
  /\ attempt' = [attempt EXCEPT ![w] = @ + 1]
  /\ again' = again
  /\ StartAgent(w)
  /\ UNCHANGED <<router, outputs, depth>>

\* Any result that is not an error is recorded as the agent's output, and only
\* then is it checked that a file has been left behind.
RecordResult(w) ==
  /\ node[w] = "ok" \/ (node[w] = "empty" /\ attempt[w] = EmptyRetries)
  /\ outputs' = outputs \cup {w}
  /\ \E present \in BOOLEAN : NodeIs(w, IF present THEN "evaluate" ELSE "error")
  /\ UNCHANGED <<stack, attempt, again, router, depth>>

------------------------------------------------------------------------------
(* The adaptive router: its limits go before what the model decides.  An    *)
(* error result is evaluated like any other.                                *)

\* The locals of _execute_agent are gone.
Ended(w) ==
  /\ attempt' = [attempt EXCEPT ![w] = 0]
  /\ again' = [again EXCEPT ![w] = FALSE]

MayRetry(w) == retries[w] < NodeRetries /\ total + 1 < TotalIterations

GoOn(w) ==
  /\ node[w] \in {"evaluate", "error"}
  /\ total' = total + 1
  /\ NodeIs(w, IF node[w] = "error" THEN "failed" ELSE "done")
  /\ Ended(w)
  /\ UNCHANGED <<stack, retries, outputs, depth>>

Retry(w) ==
  /\ node[w] \in {"evaluate", "error"} /\ MayRetry(w)
  /\ total' = total + 1
  /\ retries' = [retries EXCEPT ![w] = @ + 1]
  /\ NodeIs(w, "idle")
  /\ Ended(w)
  /\ UNCHANGED <<stack, outputs, depth>>

AskHuman(w) ==
  /\ node[w] \in {"evaluate", "error"} /\ MayRetry(w)
  /\ total' = total + 1
  /\ NodeIs(w, "paused")
  /\ Ended(w)
  /\ UNCHANGED <<stack, retries, outputs, depth>>

------------------------------------------------------------------------------
(* The loop of BaseAgent.execute *)

\* Every way out of the loop but an error records the result at once.
EndLoop(w, f) ==
  /\ SetTop(w, [Fresh(f.agent, f.round) EXCEPT !.at = "review"])
  /\ outputs' = outputs \cup {f.agent}

ReplyText(w) ==
  /\ TopAt(w, "model")
  /\ EndLoop(w, Top(w))
  /\ UNCHANGED <<node, attempt, again, router, depth>>

\* _llm_call_messages: calls come in the API's own form only where tools were
\* offered, and a model that refuses them is asked again without: what it has
\* streamed so far is dropped.
Forms(a) == IF a \in ToolUser THEN {"api", "text"} ELSE {"text"}

\* Calls in the API's own form get an assistant message that lists them; a call
\* found in the text stands alone.
ReplyCalls(w) ==
  /\ TopAt(w, "model")
  /\ \E form \in Forms(Top(w).agent) :
     \E n \in 1 .. IF form = "api" THEN MaxReply ELSE 1 :
     \E todo \in [1 .. n -> {"ask", "tool"}] :
       SetTop(w, [Top(w) EXCEPT !.at = "calls", !.todo = todo,
                    !.open = IF form = "api" THEN n ELSE 0, !.did = FALSE])
  /\ UNCHANGED <<node, attempt, again, router, outputs, depth>>

\* One call is through, with its role:"tool" message in function calling mode.
CallDone(f, did) ==
  [f EXCEPT !.at = "calls", !.todo = Tail(@), !.did = @ \/ did,
            !.open = IF @ = 0 THEN 0 ELSE @ - 1]

Calls(w, kind) == TopAt(w, "calls") /\ Top(w).todo # <<>> /\ Head(Top(w).todo) = kind

\* A tool that is blocked, unknown or fails returns a text like any other.
UseTool(w) ==
  /\ Calls(w, "tool") /\ Top(w).agent \in ToolUser
  /\ \E returned \in BOOLEAN : SetTop(w, CallDone(Top(w), returned))
  /\ UNCHANGED <<node, attempt, again, router, outputs, depth>>

NoTools(w) ==
  /\ Calls(w, "tool") /\ Top(w).agent \notin ToolUser
  /\ SetTop(w, [Top(w) EXCEPT !.todo = <<>>])
  /\ UNCHANGED <<node, attempt, again, router, outputs, depth>>

MutAskOverBudget(w) ==
  /\ Calls(w, "ask") /\ Top(w).asks = 0
  /\ SetTop(w, [Top(w) EXCEPT !.todo = Tail(@)])
  /\ UNCHANGED <<node, attempt, again, router, outputs, depth>>

AskOverBudget(w) ==
  /\ Calls(w, "ask") /\ Top(w).asks = 0
  /\ SetTop(w, CallDone(Top(w), FALSE))
  /\ UNCHANGED <<node, attempt, again, router, outputs, depth>>

Spend(f) == [f EXCEPT !.asks = @ - 1]

AskNobody(w) ==
  /\ Calls(w, "ask") /\ Top(w).asks > 0 /\ Peers(Top(w).agent) = {}
  /\ SetTop(w, CallDone(Spend(Top(w)), TRUE))
  /\ UNCHANGED <<node, attempt, again, router, outputs, depth>>

\* The depth is that of the whole run, not of this chain of questions.
AskRefused(w) ==
  /\ Calls(w, "ask") /\ Top(w).asks > 0 /\ Peers(Top(w).agent) # {}
  /\ depth >= MaxDepth
  /\ SetTop(w, CallDone(Spend(Top(w)), TRUE))
  /\ UNCHANGED <<node, attempt, again, router, outputs, depth>>

Ask(w) ==
  /\ Calls(w, "ask") /\ Top(w).asks > 0
  /\ depth < MaxDepth
  /\ \E p \in Peers(Top(w).agent) :
       stack' = [stack EXCEPT ![w] =
         Append(Append(Front(@), [Spend(Top(w)) EXCEPT !.at = "wait"]), Fresh(p, "first"))]
  /\ depth' = depth + 1
  /\ UNCHANGED <<node, attempt, again, router, outputs>>

\* All calls are through: another round, unless it was the last or nothing ran.
NextRound(w) ==
  /\ TopAt(w, "calls") /\ Top(w).todo = <<>> /\ Top(w).did /\ Top(w).iter < MaxIters[Top(w).agent]
  /\ SetTop(w, [Top(w) EXCEPT !.at = "model", !.iter = @ + 1])
  /\ UNCHANGED <<node, attempt, again, router, outputs, depth>>

LastRound(w) ==
  /\ TopAt(w, "calls") /\ Top(w).todo = <<>>
  /\ ~Top(w).did \/ Top(w).iter = MaxIters[Top(w).agent]
  /\ EndLoop(w, Top(w))
  /\ UNCHANGED <<node, attempt, again, router, depth>>

------------------------------------------------------------------------------
(* The end of an execution *)

\* The stack without its frames from k on: each peer's finally clause runs.
MutUnwind(w, k) ==
  /\ depth' = IF k = Len(stack[w]) THEN depth - 1 ELSE depth
  /\ stack' = [stack EXCEPT ![w] = Append(SubSeq(@, 1, k - 2), CallDone(@[k - 1], TRUE))]

Unwind(w, k) ==
  /\ depth' = depth - (Len(stack[w]) - k + 1)
  /\ stack' = [stack EXCEPT ![w] = Append(SubSeq(@, 1, k - 2), CallDone(@[k - 1], TRUE))]

\* An execution has a result: for the node, or for the agent that asked.
ReturnResult(w, outcomes) ==
  IF Len(stack[w]) > 1
    THEN Unwind(w, Len(stack[w])) /\ UNCHANGED node
    ELSE /\ stack' = [stack EXCEPT ![w] = <<>>]
         /\ \E o \in outcomes : NodeIs(w, o)
         /\ UNCHANGED depth

\* The model call failed and says so in its text: nothing is recorded.
ReplyError(w) ==
  /\ TopAt(w, "model")
  /\ ReturnResult(w, {"error"})
  /\ UNCHANGED <<attempt, again, router, outputs>>

ReviewPasses(w) ==
  /\ TopAt(w, "review")
  /\ ReturnResult(w, {"ok", "empty"})
  /\ UNCHANGED <<attempt, again, router, outputs>>

\* A refused output is made once more, by the same coroutine.
ReviewRefuses(w) ==
  /\ TopAt(w, "review") /\ Top(w).agent \in Reviewed /\ Top(w).round = "first"
  /\ SetTop(w, Fresh(Top(w).agent, "repeat"))
  /\ IF Len(stack[w]) = 1
       THEN again' = [again EXCEPT ![w] = TRUE]
       ELSE UNCHANGED again
  /\ UNCHANGED <<node, attempt, router, outputs, depth>>

\* An exception ends the innermost execution: the review it repeats for falls
\* back on the refused result, execute_subgraph reports it, and _execute_agent
\* lets it end the node unless fail_fast is off.
Raise(w) ==
  /\ TopAt(w, "model")
  /\ ReturnResult(w, IF Top(w).round = "repeat" THEN {"ok", "empty"} ELSE {"failed", "error"})
  /\ UNCHANGED <<attempt, again, router, outputs>>

\* The time for an answer, or for the whole node, is over wherever it was.
PeerTimeout(w) ==
  /\ \E k \in 2 .. Len(stack[w]) : Unwind(w, k)
  /\ UNCHANGED <<node, attempt, again, router, outputs>>

AgentTimeout(w) ==
  /\ stack[w] # <<>>
  /\ depth' = depth - (Len(stack[w]) - 1)
  /\ stack' = [stack EXCEPT ![w] = <<>>]
  /\ NodeIs(w, "error")
  /\ UNCHANGED <<attempt, again, router, outputs>>

------------------------------------------------------------------------------
NodeStep(w) ==
  \/ ExecuteAgent(w) \/ RetryEmpty(w) \/ RecordResult(w)
  \/ GoOn(w) \/ Retry(w) \/ AskHuman(w)

LoopStep(w) ==
  \/ ReplyText(w) \/ ReplyCalls(w) \/ ReplyError(w) \/ Raise(w)
  \/ UseTool(w) \/ NoTools(w)
  \/ AskOverBudget(w) \/ AskNobody(w) \/ AskRefused(w) \/ Ask(w)
  \/ NextRound(w) \/ LastRound(w) \/ ReviewPasses(w) \/ ReviewRefuses(w)

AgentsNext == \E w \in Worker :
  NodeStep(w) \/ LoopStep(w) \/ PeerTimeout(w) \/ AgentTimeout(w)

AgentsSpec == AgentsInit /\ [][AgentsNext]_agentsVars

------------------------------------------------------------------------------
(* Properties *)

\* The model API refuses a conversation in which a call has no answer: whenever
\* a model is asked, each call of the replies so far has its role:"tool"
\* message, whatever became of it.
CallsAnswered ==
  \A w \in Worker : \A i \in DOMAIN stack[w] :
    stack[w][i].at = "model" => stack[w][i].open = 0

\* The frames of the agents that are asked, above the node's own.
PeerFrames == UNION {{w} \X (2 .. Len(stack[w])) : w \in Worker}

\* The shared depth counts the peers that are answering, in all branches:
\* after timeouts, errors and refusals nothing is left over that would refuse
\* later questions.
DepthIsPeers == depth = Cardinality(PeerFrames)
==============================================================================
