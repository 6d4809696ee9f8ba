---------------------------- MODULE GraphRuntime ----------------------------
(***************************************************************************)
(* GraphRuntime, NodeExecutor, ParallelExecutor and Router of              *)
(* core/graph/runtime.py around the Scheduler of GraphScheduler: one run   *)
(* of a workflow graph on one event loop, with pause, resume, cancel,      *)
(* replay, checkpoints, and a process that may die and recover from its    *)
(* last checkpoint (core/run/collaboration_graph.py).                      *)
(*                                                                         *)
(* A step is what the loop does between two points at which another        *)
(* coroutine can act: deciding what to run, one node finishing, settling   *)
(* one result, saving.  Control requests may come between any two steps.   *)
(***************************************************************************)
EXTENDS GraphScheduler

CONSTANTS
  MaxRetries,       \* retries a gate allows, in both modes
  ReviewModes,      \* the values of config.review_mode a run may have
  MaxIterations,    \* state.max_iterations
  CheckpointEvery,  \* checkpoint_every_n_nodes
  MayFail,          \* nodes whose execution may raise, time out or return an error
  Guarded,          \* nodes with preconditions, which may hold them back
  Adaptive,         \* agents of a run in mode "adaptive", whose router may ask a human
  SaveMayFail,      \* whether writing a checkpoint may fail (it is only logged)
  Requests,         \* the control requests made, of "pause", "cancel_request", "cancel"
  MaxRequests,      \* bound: how many of them
  MaxCrashes,       \* bound: how often the process dies
  MaxReplays,       \* bound: how often a run is replayed
  NULL

ASSUME RuntimeAssumption ==
  /\ MaxRetries \in Nat \ {0} /\ MaxIterations \in Nat \ {0}
  /\ CheckpointEvery \in Nat \ {0}
  /\ ReviewModes \subseteq BOOLEAN /\ SaveMayFail \in BOOLEAN
  /\ MayFail \subseteq Node /\ Guarded \subseteq Node
  /\ Adaptive \subseteq {n \in Node : Kind[n] = "agent"}
  /\ Requests \subseteq {"pause", "cancel_request", "cancel"}
  /\ MaxRequests \in Nat /\ MaxCrashes \in Nat /\ MaxReplays \in Nat
  /\ NULL \notin Node \cup {"completed", "error", "paused", "cancelled", "max_iterations",
                           "deadlock", "safety_limit"}
  /\ \A e, f \in Edges : /\ e.from_node = f.from_node
                         /\ e.edge_type = f.edge_type
                         /\ e.edge_type \in {"loop_back", "default"}
                         => e = f

VARIABLES
  sched,    \* the Scheduler
  state,    \* GraphState
  status,   \* GraphStatus of the runtime
  control,  \* run_context.control: what was asked for and not yet honoured
  pc,       \* where the main loop is
  result,   \* results of the current batch not yet settled
  grouped,  \* whether the current batch came from the parallel group
  counts,   \* the two counters local to _run_until_stop
  saved,    \* the last checkpoint written
  env,      \* the configuration of the run, and what its surroundings have done so far
  runs      \* history: how often each node was handed out

vars == <<sched, state, status, control, pc, result, grouped, counts, saved, env, runs>>

Reason == {NULL, "completed", "error", "paused", "cancelled", "max_iterations"}
Cause  == {NULL, "all_done", "reached_end", "user_cancel", "failed_nodes", "deadlock",
           "safety_limit", "retry_exhausted", "awaiting_user", "cancel", "max_iterations",
           "exception"}

GraphState == [completed_nodes    : SUBSET Node,
               failed_nodes       : SUBSET Node,
               termination_reason : Reason,
               cause              : Cause,
               quality_passed     : {"unset", "pass", "fail"},
               retries            : [Node -> Nat],
               current_node_id    : Node \cup {NULL},
               pause_context      : Node \cup {NULL},
               iteration_count    : Nat]

\* None is no checkpoint.
ASSUME NullAssumption ==
  NULL \notin [sched : SchedulerState, state : GraphState,
              control : [pause : BOOLEAN, cancel : BOOLEAN]]

GraphStatus == {"INITIALIZING", "READY", "RUNNING", "PAUSED", "COMPLETED", "FAILED", "CANCELLED"}

Outcome == {"none", "completed", "failed", "paused"}

TypeOK ==
  /\ sched \in SchedulerState
  /\ state \in GraphState
  /\ status \in GraphStatus
  /\ control \in [pause : BOOLEAN, cancel : BOOLEAN]
  /\ pc \in {"created", "reset", "loop", "executing", "settling", "tail", "final",
             "stopped", "down", "recovered"}
  /\ result \in [Node -> Outcome]
  /\ grouped \in BOOLEAN
  /\ counts \in [iteration : 0 .. 2 * MaxIterations + 2, checkpoint : 0 .. CheckpointEvery - 1]
  /\ saved \in [sched : SchedulerState, state : GraphState, control : [pause : BOOLEAN, cancel : BOOLEAN]]
               \cup {NULL}
  /\ env \in [review_mode : ReviewModes, requests : 0 .. MaxRequests, crashes : 0 .. MaxCrashes,
              replays : 0 .. MaxReplays]
  /\ runs \in [Node -> Nat]

InitialState ==
  [completed_nodes |-> {}, failed_nodes |-> {}, termination_reason |-> NULL, cause |-> NULL,
   quality_passed |-> "unset", retries |-> [n \in Node |-> 0],
   current_node_id |-> NULL, pause_context |-> NULL, iteration_count |-> 0]

Zero == [iteration |-> 0, checkpoint |-> 0]
NoResult == [n \in Node |-> "none"]

Init ==
  /\ sched = [ready |-> {}, running |-> {}, completed |-> {}, failed |-> {},
              pending |-> [n \in Id |-> 0]]
  /\ state = InitialState
  /\ status = "INITIALIZING"
  /\ control = [pause |-> FALSE, cancel |-> FALSE]
  /\ pc = "created"
  /\ result = NoResult
  /\ grouped = FALSE
  /\ counts = Zero
  /\ saved = NULL
  /\ env \in [review_mode : ReviewModes, requests : {0}, crashes : {0}, replays : {0}]
  /\ runs = [n \in Node |-> 0]

\* mark_completed, mark_failed, mark_paused, mark_cancelled
Marked(g, reason, cause) ==
  [g EXCEPT !.termination_reason = reason, !.cause = cause]

------------------------------------------------------------------------------
(* Routing *)

\* _evaluate_edge.  The edges whose condition is "other" and holds are chosen.
MutTraversed(e, g, holding) ==
  \/ e.edge_type \in {"always", "parallel_join", "conditional"}
  \/ e.condition = "none"
  \/ e.condition = "not_passed" /\ g.quality_passed = "fail"
  \/ e \in holding

Traversed(e, g, holding) ==
  \/ e.edge_type \in {"always", "parallel_join"}
  \/ e.condition = "none"
  \/ e.condition = "passed" /\ g.quality_passed = "pass"
  \/ e.condition = "not_passed" /\ g.quality_passed = "fail"
  \/ e \in holding

\* Router.resolve: the result of the node is not looked at, only the state.
Resolved(n, g, holding) ==
  LET out     == {e \in EdgesFrom(n) : e.to_node # END_NODE_ID}
      matched == {e.to_node : e \in {f \in out : /\ f.edge_type # "default"
                                                 /\ Traversed(f, g, holding)}}
  IN  IF matched # {}
      THEN matched
      ELSE {e.to_node : e \in {f \in out : f.edge_type = "default"}}

\* _requeue_quality_retry: the gate failed, its agent runs again; past the
\* limit the run fails (review mode) or the phase is skipped (autonomous).
MutRetryAgain(c, gate, agent) ==
  [c EXCEPT !.state.completed_nodes = @ \ {agent, gate},
            !.sched.completed = @ \ {agent, gate}]

RetryAgain(c, gate, agent) ==
  [c EXCEPT !.state.completed_nodes = @ \ {agent, gate},
            !.sched.completed = @ \ {agent, gate},
            !.sched.ready = IF agent \in c.sched.running THEN @ ELSE @ \cup {agent}]

SkipPhase(c, gate, agent) ==
  LET completed == c.sched.completed \cup {gate, agent}
      released  == Successors(gate) \ completed
      pending   == [m \in Id |-> IF m \notin released THEN c.sched.pending[m]
                                 ELSE IF c.sched.pending[m] > 1 THEN c.sched.pending[m] - 1
                                 ELSE 0]
  IN  [c EXCEPT !.state.completed_nodes = @ \cup {agent},
                !.sched.completed = completed,
                !.sched.pending = pending,
                !.sched.ready = @ \cup {m \in released : pending[m] <= 0}]

MutRequeuedOneMore(c, gate, agent) ==
  LET counted == [c EXCEPT !.state.retries[gate] = @ + 1]
  IN  IF c.state.retries[gate] <= MaxRetries THEN RetryAgain(counted, gate, agent)
      ELSE IF env.review_mode
           THEN [counted EXCEPT !.state = Marked(@, "error", "retry_exhausted")]
           ELSE SkipPhase(counted, gate, agent)

MutRequeuedUncounted(c, gate, agent) == RetryAgain(c, gate, agent)

Requeued(c, gate, agent) ==
  LET attempt == c.state.retries[gate] + 1
      counted == [c EXCEPT !.state.retries[gate] = attempt]
  IN  IF attempt <= MaxRetries THEN RetryAgain(counted, gate, agent)
      ELSE IF env.review_mode
           THEN [counted EXCEPT !.state = Marked(@, "error", "retry_exhausted")]
           ELSE SkipPhase(counted, gate, agent)

\* _schedule_next: forward targets become ready unless they have completed or
\* are under way; a gate that did not fail and has nowhere to go releases its
\* successors, and reaches the end if that is one of them.
MutScheduledNextAgain(c, n, targets) ==
  LET back == {t \in targets : HasEdge(n, t, "loop_back")}
  IN  [c EXCEPT !.sched.ready = @ \cup (targets \ back)]

MutScheduledNextEnds(c, n, targets) ==
  LET new == targets \ (c.sched.completed \cup c.sched.running)
  IN  [c EXCEPT !.sched.ready = @ \cup new,
                !.state = IF new = {} THEN Marked(@, "completed", "reached_end") ELSE @]

ScheduledNext(c, n, targets) ==
  LET back      == {t \in targets : HasEdge(n, t, "loop_back")}
      defensive == targets = {} /\ Kind[n] = "quality_gate" /\ c.state.quality_passed # "fail"
      ahead     == IF defensive
                   THEN {t \in Successors(n) : ~HasEdge(n, t, "loop_back")}
                   ELSE targets \ back
      forward   == [c EXCEPT !.sched.ready =
                      @ \cup (ahead \ ({END_NODE_ID} \cup c.sched.completed \cup c.sched.running))]
      ended     == IF END_NODE_ID \in ahead
                   THEN [forward EXCEPT !.state = Marked(@, "completed", "reached_end")]
                   ELSE forward
  IN  IF back = {} THEN ended ELSE Requeued(ended, n, CHOOSE t \in back : TRUE)

\* resolve, then _schedule_next
Routed(c, n, holding) == ScheduledNext(c, n, Resolved(n, c.state, holding))

OtherEdges(n) == {e \in EdgesFrom(n) : e.condition = "other"}

------------------------------------------------------------------------------
(* execute() and the top of the main loop *)

Execute ==
  /\ pc \in {"created", "reset"}
  /\ sched' = Initialize(StartNodes)
  /\ state' = InitialState
  /\ status' = "RUNNING"
  /\ pc' = "loop"
  /\ counts' = Zero
  /\ UNCHANGED <<control, result, grouped, saved, env, runs>>

\* should_stop, whose second half marks the state as it answers
StopTerminated ==
  /\ pc = "loop" /\ state.termination_reason # NULL
  /\ pc' = "final"
  /\ UNCHANGED <<sched, state, status, control, result, grouped, counts, saved, env, runs>>

StopAtLimit ==
  /\ pc = "loop" /\ state.termination_reason = NULL
  /\ state.iteration_count >= MaxIterations
  /\ state' = Marked(state, "max_iterations", "max_iterations")
  /\ pc' = "final"
  /\ UNCHANGED <<sched, status, control, result, grouped, counts, saved, env, runs>>

GoesOn == /\ pc = "loop" /\ state.termination_reason = NULL
          /\ state.iteration_count < MaxIterations

HonourCancel ==
  /\ GoesOn /\ control.cancel
  /\ state' = Marked(state, "error", "user_cancel")
  /\ status' = "FAILED"
  /\ pc' = "final"
  /\ UNCHANGED <<sched, control, result, grouped, counts, saved, env, runs>>

MutHonourPause ==
  /\ GoesOn /\ ~control.cancel /\ control.pause
  /\ status' = "PAUSED"
  /\ UNCHANGED <<sched, state, control, pc, result, grouped, counts, saved, env, runs>>

HonourPause ==
  /\ GoesOn /\ ~control.cancel /\ control.pause
  /\ status' = "PAUSED"
  /\ control' = [control EXCEPT !.pause = FALSE]
  /\ pc' = "final"
  /\ UNCHANGED <<sched, state, result, grouped, counts, saved, env, runs>>

MutUndisturbed == GoesOn /\ ~control.pause

Undisturbed == GoesOn /\ ~control.cancel /\ ~control.pause

\* next() is None: everything has ended, or nothing can be reached any more
NothingLeft ==
  /\ Undisturbed
  /\ sched.ready = {} /\ sched.running = {}
  /\ state' = IF IsComplete(sched) THEN Marked(state, "completed", "all_done")
              ELSE IF sched.failed # {} THEN Marked(state, "error", "failed_nodes")
              ELSE Marked(state, "error", "deadlock")
  /\ pc' = "final"
  /\ UNCHANGED <<sched, status, control, result, grouped, counts, saved, env, runs>>

\* _check_preconditions answers for every ready node at every next()
Eligible == {ready \in SUBSET sched.ready : sched.ready \ Guarded \subseteq ready}

\* next() returns no nodes: all are held back, or something still runs.  The
\* loop is left without a termination reason.
NothingEligible ==
  /\ Undisturbed
  /\ sched.ready \cup sched.running # {}
  /\ {} \in Eligible
  /\ pc' = "final"
  /\ UNCHANGED <<sched, state, status, control, result, grouped, counts, saved, env, runs>>

\* A single id without a node is completed as a failure and the loop continues.
DispatchMissing ==
  /\ Undisturbed
  /\ \E eligible \in Eligible \ {{}} :
       /\ {END_NODE_ID} \in Batches(eligible)
       /\ sched' = Failed(Dispatched(sched, {END_NODE_ID}), END_NODE_ID)
  /\ counts' = [counts EXCEPT !.iteration = @ + 1]
  /\ UNCHANGED <<state, status, control, pc, result, grouped, saved, env, runs>>

Schedule ==
  /\ Undisturbed
  /\ \E eligible \in Eligible \ {{}} : \E batch \in Batches(eligible) :
       /\ batch # {END_NODE_ID}
       /\ sched' = Dispatched(sched, batch)
       /\ grouped' = (Cardinality(batch) > 1)
       /\ runs' = [n \in Node |-> IF n \in batch THEN runs[n] + 1 ELSE runs[n]]
       /\ \E last \in batch \ {END_NODE_ID} :
            state' = [state EXCEPT !.current_node_id = last]
  /\ counts' = [counts EXCEPT !.iteration = @ + 1]
  /\ pc' = "executing"
  /\ UNCHANGED <<status, control, result, saved, env>>

------------------------------------------------------------------------------
(* NodeExecutor.execute: the nodes of a batch end in any order *)

\* set_node_output
Recorded(g, n, outcome) ==
  IF outcome = "completed" THEN [g EXCEPT !.completed_nodes = @ \cup {n}]
                           ELSE [g EXCEPT !.failed_nodes = @ \cup {n}]

Finish(n, outcome, g) ==
  /\ pc = "executing" /\ n \in sched.running \cap Node /\ result[n] = "none"
  /\ result' = [result EXCEPT ![n] = outcome]
  /\ state' = Recorded(g, n, outcome)
  /\ pc' = IF \E m \in (sched.running \cap Node) \ {n} : result[m] = "none"
           THEN "executing" ELSE "settling"
  /\ UNCHANGED <<sched, status, control, grouped, counts, saved, env, runs>>

\* The nodes that check an output: gates, and the checkpoints that have a target
Judges(n) == Kind[n] \in {"quality_gate", "checked"}

\* _execute_quality_gate, _execute_checkpoint: a verdict is written to the
\* state all nodes share
JudgeOutput(n, verdict) ==
  /\ Judges(n)
  /\ Finish(n, "completed", [state EXCEPT !.quality_passed = verdict])

\* A check that times out has written nothing; one that raises may have.
GateFails(n) ==
  /\ Judges(n) /\ n \in MayFail
  /\ \E written \in {state.quality_passed, "pass", "fail"} :
       Finish(n, "failed", [state EXCEPT !.quality_passed = written])

\* _execute_human: the state is marked before the event is sent
AskHuman(n) ==
  /\ Kind[n] = "human"
  /\ Finish(n, "paused", [Marked(state, "paused", "awaiting_user") EXCEPT !.pause_context = n])

\* _adaptive_evaluate, ASK_HUMAN: the state is marked, the node has completed.
AskAdaptive(n) ==
  /\ n \in Adaptive
  /\ Finish(n, "completed", [Marked(state, "paused", "awaiting_user") EXCEPT !.pause_context = n])

\* _execute_loop: the counter that max_iterations is about
CountLoop(n) ==
  /\ Kind[n] = "loop"
  /\ Finish(n, "completed", [state EXCEPT !.iteration_count = @ + 1])

\* Agents, routers, forks, merges and plain checkpoints leave the control state
\* alone.
Work(n) ==
  /\ ~Judges(n) /\ Kind[n] \notin {"human", "loop"}
  /\ \/ Finish(n, "completed", state)
     \/ n \in MayFail /\ Finish(n, "failed", state)

FinishNode(n) ==
  \/ \E verdict \in {"pass", "fail"} : JudgeOutput(n, verdict)
  \/ GateFails(n)
  \/ AskHuman(n)
  \/ AskAdaptive(n)
  \/ CountLoop(n)
  \/ Work(n)

------------------------------------------------------------------------------
(* Settling results: scheduler.complete, then routing *)

MutPausesRun(n) == status = "PAUSED"

PausesRun(n) == result[n] = "paused" \/ state.termination_reason = "paused"

MutSettlePaused(n) ==
  /\ pc = "settling" /\ ~grouped /\ result[n] # "none"
  /\ PausesRun(n)
  /\ sched' = Completed(sched, n, result[n] = "completed")
  /\ result' = NoResult
  /\ pc' = "final"
  /\ UNCHANGED <<state, status, control, grouped, counts, saved, env, runs>>

SettlePaused(n) ==
  /\ pc = "settling" /\ ~grouped /\ result[n] # "none"
  /\ PausesRun(n)
  /\ sched' = Completed(sched, n, result[n] = "completed")
  /\ status' = "PAUSED"
  /\ result' = NoResult
  /\ pc' = "final"
  /\ UNCHANGED <<state, control, grouped, counts, saved, env, runs>>

\* The results of a parallel group are settled one after the other; nothing
\* is asked about a pause there.
Settle(n) ==
  /\ pc = "settling" /\ result[n] # "none"
  /\ grouped \/ ~PausesRun(n)
  /\ \E holding \in SUBSET OtherEdges(n) :
       LET c == Routed([sched |-> Completed(sched, n, result[n] = "completed"),
                        state |-> state], n, holding)
       IN  sched' = c.sched /\ state' = c.state
  /\ result' = [result EXCEPT ![n] = "none"]
  /\ pc' = IF result' = NoResult THEN "tail" ELSE "settling"
  /\ UNCHANGED <<status, control, grouped, counts, saved, env, runs>>

\* A condition (a handler function, an attribute it lacks) may raise: the loop
\* is left by its except clause, and nothing is saved.
RouteRaises(n) ==
  /\ pc = "settling" /\ result[n] # "none" /\ OtherEdges(n) # {}
  /\ grouped \/ ~PausesRun(n)
  /\ sched' = Completed(sched, n, result[n] = "completed")
  /\ state' = Marked(state, "error", "exception")
  /\ status' = "FAILED"
  /\ result' = NoResult
  /\ pc' = "stopped"
  /\ UNCHANGED <<control, grouped, counts, saved, env, runs>>

------------------------------------------------------------------------------
(* Checkpoints, the end of the loop, resume *)

\* _save_checkpoint: scheduler, graph state and control go out together; a
\* failed write is logged and the run goes on.
MutSaveCheckpoint(g) ==
  saved' = IF saved = NULL THEN [sched |-> Restored(sched), state |-> g, control |-> control]
                           ELSE saved

SaveCheckpoint(g) ==
  \/ saved' = [sched |-> Restored(sched), state |-> g, control |-> control]
  \/ SaveMayFail /\ UNCHANGED saved

Tail ==
  /\ pc = "tail"
  /\ counts' = [counts EXCEPT !.checkpoint = (@ + 1) % CheckpointEvery]
  /\ IF counts'.checkpoint = 0 THEN SaveCheckpoint(state) ELSE UNCHANGED saved
  /\ IF counts.iteration > 2 * MaxIterations
     THEN state' = Marked(state, "error", "safety_limit") /\ pc' = "final"
     ELSE pc' = "loop" /\ UNCHANGED state
  /\ UNCHANGED <<sched, status, control, result, grouped, env, runs>>

Final ==
  /\ pc = "final"
  /\ status' = IF state.termination_reason = "completed" THEN "COMPLETED"
               ELSE IF status = "PAUSED" THEN "PAUSED"
               ELSE IF state.termination_reason = "error" THEN "FAILED"
               ELSE "CANCELLED"
  /\ SaveCheckpoint(state)
  /\ pc' = "stopped"
  /\ UNCHANGED <<sched, state, control, result, grouped, counts, env, runs>>

\* resume(): the node the run paused at, or the last one that ran, is routed
\* again; the pause context is never cleared.
PausedNode == IF state.pause_context # NULL THEN state.pause_context ELSE state.current_node_id
Reopened   == Marked(state, NULL, NULL)

Resume ==
  /\ pc \in {"stopped", "recovered"} /\ status = "PAUSED"
  /\ IF PausedNode = NULL
     THEN state' = Reopened /\ UNCHANGED sched
     ELSE \E holding \in SUBSET OtherEdges(PausedNode) :
            LET c == Routed([sched |-> sched, state |-> Reopened], PausedNode, holding)
            IN  sched' = c.sched /\ state' = c.state
  /\ status' = "RUNNING"
  /\ counts' = Zero
  /\ pc' = "loop"
  /\ UNCHANGED <<control, result, grouped, saved, env, runs>>

\* No except clause guards the routing of resume(): when a condition raises
\* there, the status stays RUNNING and no loop runs.
ResumeRaises ==
  /\ pc \in {"stopped", "recovered"} /\ status = "PAUSED"
  /\ PausedNode # NULL /\ OtherEdges(PausedNode) # {}
  /\ state' = Reopened
  /\ status' = "RUNNING"
  /\ pc' = "stopped"
  /\ UNCHANGED <<sched, control, result, grouped, counts, saved, env, runs>>

------------------------------------------------------------------------------
(* Requests from outside, crash and recovery, replay *)

\* update_control needs a live RunContext, cancel() a GraphState
Asked(request) ==
  /\ request \in Requests /\ env.requests < MaxRequests
  /\ pc \notin {"created", "reset", "down"}
  /\ env' = [env EXCEPT !.requests = @ + 1]
  /\ UNCHANGED <<sched, pc, result, grouped, counts, saved, runs>>

RequestPause ==
  /\ Asked("pause") /\ pc # "recovered"
  /\ control' = [control EXCEPT !.pause = TRUE]
  /\ UNCHANGED <<state, status>>

RequestCancel ==
  /\ Asked("cancel_request") /\ pc # "recovered"
  /\ control' = [control EXCEPT !.cancel = TRUE]
  /\ UNCHANGED <<state, status>>

Cancel ==
  /\ Asked("cancel")
  /\ state' = Marked(state, "cancelled", "cancel")
  /\ status' = "CANCELLED"
  /\ UNCHANGED control

\* The process dies; what is in memory is gone.
Crash ==
  /\ pc \notin {"created", "down"} /\ env.crashes < MaxCrashes
  /\ env' = [env EXCEPT !.crashes = @ + 1]
  /\ pc' = "down"
  /\ UNCHANGED <<sched, state, status, control, result, grouped, counts, saved, runs>>

\* from_checkpoint: the status is PAUSED whatever it was when saved.
Recover ==
  /\ pc = "down" /\ saved # NULL
  /\ sched' = saved.sched
  /\ state' = saved.state
  /\ control' = saved.control
  /\ status' = "PAUSED"
  /\ pc' = "recovered"
  /\ result' = NoResult
  /\ grouped' = FALSE
  /\ counts' = Zero
  /\ UNCHANGED <<saved, env, runs>>

\* _collect_downstream(n, include_self=True): the least set that holds n and
\* the successors of its members
Downstream(n) ==
  {m \in Node : \A S \in SUBSET Node :
     n \in S /\ (\A k \in S : Successors(k) \cap Node \subseteq S) => m \in S}

ResetFromPhase(n) ==
  LET reset == Downstream(n)
  IN  /\ state' = [state EXCEPT !.completed_nodes = @ \ reset, !.failed_nodes = @ \ reset,
                                !.termination_reason = NULL, !.cause = NULL,
                                !.current_node_id = n]
      /\ sched' = [sched EXCEPT !.completed = @ \ reset, !.failed = @ \ reset,
                                !.ready = {n}, !.running = {},
                                !.pending = [m \in Id |-> IF m \in reset THEN 0 ELSE @[m]]]
      /\ status' = "READY"

\* replay_from up to its call of execute(), which is the action Execute
ReplayFrom(n) ==
  /\ pc \in {"stopped", "recovered"} /\ env.replays < MaxReplays
  /\ ResetFromPhase(n)
  /\ pc' = "reset"
  /\ env' = [env EXCEPT !.replays = @ + 1]
  /\ UNCHANGED <<control, result, grouped, counts, saved, runs>>

------------------------------------------------------------------------------
MainLoop ==
  \/ Execute
  \/ StopTerminated \/ StopAtLimit \/ HonourCancel \/ HonourPause
  \/ NothingLeft \/ NothingEligible \/ DispatchMissing \/ Schedule
  \/ \E n \in Node : FinishNode(n) \/ SettlePaused(n) \/ Settle(n) \/ RouteRaises(n)
  \/ Tail \/ Final

Environment ==
  \/ Resume \/ ResumeRaises
  \/ RequestPause \/ RequestCancel \/ Cancel
  \/ Crash \/ Recover
  \/ \E n \in Node : ReplayFrom(n)

Next == MainLoop \/ Environment

\* The main loop is one coroutine of an event loop that runs whatever is
\* runnable, and every node ends: all kinds but agents and humans run under
\* asyncio.wait_for, a human node only marks the state, and an agent has a
\* timeout of its own.  Nobody has to ask, crash, resume or replay.
Fairness == WF_vars(MainLoop)

Spec == Init /\ [][Next]_vars
FairSpec == Spec /\ Fairness
==============================================================================
