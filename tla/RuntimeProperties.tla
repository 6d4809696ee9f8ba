-------------------------- MODULE RuntimeProperties --------------------------
(***************************************************************************)
(* What a run of the graph runtime should satisfy.  Which of these hold    *)
(* depends on the shape of the graph: the .cfg files say where each one is *)
(* checked, and the ones a documented claim implies but the code does not  *)
(* keep are the subject of the runs that expect a violation.               *)
(***************************************************************************)
EXTENDS GraphRuntime

\* Nobody is executing the run.
AtRest == pc \in {"created", "reset", "stopped", "down", "recovered"}

\* Handed out now or before, and not merely waiting in ready.
Started(n) == n \in sched.running \cup sched.completed \cup sched.failed

------------------------------------------------------------------------------
(* Scheduling *)

\* A ready node is not also running or completed, whoever made it ready: the
\* scheduler's count, the router, a requeue or the defensive branch.  (Not so
\* once a phase was skipped while its agent waited for the retry before it.)
NotTwice == sched.ready \cap (sched.running \cup sched.completed) \cap Node = {}

\* Without retries or crashes every node is handed out at most once, however
\* often the run is paused and its last node routed again.
RunsOnce == \A n \in Node : runs[n] <= 1 + env.crashes

\* A run that nobody cancels, in which no node fails and no gate refuses, is
\* never reported as failed or cancelled: pauses, crashes and recoveries are
\* transparent.
EndsWell ==
  pc = "stopped" => status \in {"COMPLETED", "PAUSED"}

\* A node is under way or done only when each of its predecessors has ended,
\* also across a crash, a recovery and the second routing of a resume.
CausalOrder ==
  pc \notin {"down", "reset"} =>
    \A n \in Node : n \in sched.ready \/ Started(n) =>
      \A e \in BlockingEdges(n) : e.from_node = START_NODE_ID \/ Started(e.from_node)

\* A completed run has executed everything: the counting of is_complete does
\* not take one node for two.
CompletedMeansDone ==
  status = "COMPLETED" => \A n \in Node : n \in sched.completed \cup sched.failed

------------------------------------------------------------------------------
(* Quality gates and retries *)

\* The nodes a gate protects by an edge that asks for a pass.
Protects(gate, n) == \E e \in EdgesFrom(gate) : e.to_node = n /\ e.condition = "passed"

\* The agent of a gate runs once, once more for each retry allowed, and for each
\* crash as often as it takes turns with its gate between two checkpoints.
LostRounds == (CheckpointEvery + 1) \div 2

RetryWithinBudget ==
  \A gate, agent \in Node :
    HasEdge(gate, agent, "loop_back") =>
      runs[agent] <= MaxRetries + 1 + env.crashes * LostRounds

\* What a gate protects is first handed out after a pass, or when the phase was
\* skipped because its retries are used up.
GateHolds ==
  \A gate, n \in Node :
    Protects(gate, n) /\ n \in sched.running /\ runs[n] = 1 =>
      state.quality_passed = "pass" \/ state.retries[gate] > MaxRetries

\* The retry budget alone ends a retry loop: the limit of the main loop, meant
\* for runaway graphs, is never what stops it.
NeverHitsSafetyLimit == state.cause \notin {"safety_limit", "max_iterations"}

\* A refused output leads to a retry, a skip or an explicit failure, and not
\* to a graph with nothing left to run.
RetryNotDeadlock == state.cause # "deadlock"

\* A gate that timed out or raised is not treated like one that passed.
FailedGateHolds ==
  \A gate \in Node :
    Kind[gate] = "quality_gate" /\ gate \in sched.failed \ sched.completed
    /\ state.quality_passed # "pass"
      => \A n \in Node : Protects(gate, n) => n \notin sched.ready \cup sched.running

------------------------------------------------------------------------------
(* Pause, cancel, human nodes *)

\* What only a human node leads to becomes ready when the run is resumed, and
\* at no other step.
HumanGate ==
  [][\A h, n \in Node :
       /\ Kind[h] = "human" /\ {e.from_node : e \in BlockingEdges(n)} = {h}
       /\ n \notin sched.ready /\ n \in sched'.ready
       => (status = "PAUSED" /\ status' = "RUNNING") \/ pc = "down"]_vars

\* Once a cancel request is in, nothing more is handed out by this process,
\* whatever pauses and resumes follow.
NoDispatchAfterCancel == [][control.cancel => runs' = runs]_vars

------------------------------------------------------------------------------
(* Failures *)

\* A node all of whose incoming edges are ordinary ones from failed nodes is
\* not executed.
FailureHoldsBack ==
  \A n \in Node :
    /\ BlockingEdges(n) # {}
    /\ \A e \in BlockingEdges(n) :
         e.edge_type # "error" /\ e.from_node \in sched.failed \ sched.completed
    => ~Started(n)

\* A joining node waits for every branch.
JoinWaits ==
  \A n \in Node : Kind[n] = "merge" /\ Started(n) =>
    \A e \in BlockingEdges(n) : e.from_node \in sched.completed

------------------------------------------------------------------------------
(* Checkpoints and replay *)

\* Nothing is in flight when a checkpoint is written, so leaving running out
\* of the snapshot loses no node.
QuiescentSave == [][saved' # saved => sched.running \cap Node = {}]_vars

\* Without parallel groups a crash loses at most CheckpointEvery nodes.
LossBounded ==
  LET kept == IF saved = NULL THEN {} ELSE saved.sched.completed
  IN  Cardinality(sched.completed \ kept) <= CheckpointEvery

------------------------------------------------------------------------------
(* Progress *)

\* The main loop always comes to a stop: retries, loops, preconditions that
\* never hold and requests that arrive at any time do not keep it going.
Stops == ~AtRest ~> AtRest
==============================================================================
