---------------------------- MODULE RuntimeProofs ----------------------------
(***************************************************************************)
(* The graph runtime for every graph that satisfies GraphAssumption, and   *)
(* every bound that satisfies RuntimeAssumption: type correctness, quiet   *)
(* checkpoints, no dispatch after a cancel request, and no node that is    *)
(* handed out while it is already running or completed.  And, where every  *)
(* agent has one gate, the budget of retries; where each gate follows its  *)
(* agent directly, that a refusal never ends in a deadlock.                *)
(*                                                                         *)
(* NotTwice is not true of every run.  A resume routes the last node once  *)
(* more, which costs a retry of its gate each time; past the limit the     *)
(* phase is skipped although its agent waits in ready.  So the theorem     *)
(* says NotTwice as long as no phase has been skipped.                     *)
(***************************************************************************)
EXTENDS RuntimeProperties, FiniteSetTheorems, TLAPS

\* No phase has been skipped: review mode skips none, and without it a gate
\* that skipped its phase has counted past MaxRetries.
NoSkip(g) == env.review_mode \/ \A n \in Node : g.retries[n] <= MaxRetries

\* A node is in one of ready, running and completed.
Apart(s) == /\ s.ready \cap (s.running \cup s.completed) \cap Node = {}
            /\ s.running \cap s.completed \cap Node = {}

Flight(s) == s.running \cap Node
Done(s)   == s.completed \cup s.failed
Placed(s) == s.ready \cup s.running \cup Done(s)

\* Nothing runs at any point from which the main loop, a resume or a replay
\* may go on; only a group that was left by an exception stays behind.
Quiet ==
  \/ pc \in {"created", "reset", "loop", "tail", "final", "recovered"}
  \/ pc = "stopped" /\ status = "PAUSED"
  => Flight(sched) = {}

\* The results of a batch are those of the nodes it still has in flight.
Results ==
  /\ \A n \in Node : result[n] # "none" => n \in Flight(sched)
  /\ pc \notin {"executing", "settling", "down"} => result = NoResult
  /\ pc = "settling" => \A n \in Flight(sched) : result[n] # "none"

\* A batch is one node or a group without direct edges between its members.
OneBatch ==
  /\ \A m, n \in Flight(sched) : m # n => m \notin Successors(n)
  /\ pc \in {"executing", "settling"} /\ ~grouped => \A m, n \in Flight(sched) : m = n

\* next() is called at most once more after the limit of the loop is passed:
\* the end marker, whose dispatch does not pass the tail, is gone by then.
Bounded ==
  pc = "loop" => \/ counts.iteration <= 2 * MaxIterations
                 \/ counts.iteration <= 2 * MaxIterations + 1 /\ END_NODE_ID \notin sched.ready

SavedQuiet == saved # NULL => saved.sched.running = {}

\* What holds on every graph, whatever has been skipped.
RInv == TypeOK /\ Quiet /\ Results /\ OneBatch /\ Bounded /\ SavedQuiet

\* What holds of the scheduler until a phase is skipped, now and in the
\* checkpoint a crash would go back to.
NInv == /\ NoSkip(state) => Apart(sched)
        /\ saved # NULL => (NoSkip(saved.state) => Apart(saved.sched))

------------------------------------------------------------------------------
(* The operators of the scheduler and of the router *)

Pair == [sched : SchedulerState, state : GraphState]

\* What routing does to the pair of scheduler and state: nothing starts or
\* ends, and unless a phase is skipped nothing gets into two places.
Keeps(c, d) ==
  /\ d \in Pair
  /\ d.sched.running = c.sched.running
  /\ NoSkip(d.state) => NoSkip(c.state) /\ (Apart(c.sched) => Apart(d.sched))

\* Ends of edges are nodes or the end, and the end has no edges of its own.
LEMMA EdgeEnds ==
  /\ \A n : Successors(n) \subseteq Id
  /\ EdgesFrom(END_NODE_ID) = {}
  /\ END_NODE_ID \notin Node
BY GraphAssumption DEF GraphAssumption, Successors, EdgesFrom, Edge, Id

\* mark_completed and its kin touch the two termination fields only.
LEMMA MarkedType ==
  ASSUME NEW g \in GraphState, NEW reason \in Reason, NEW cause \in Cause
  PROVE  /\ Marked(g, reason, cause) \in GraphState
         /\ Marked(g, reason, cause).retries = g.retries
BY DEF Marked, GraphState

\* initialize() makes nodes ready and nothing else.
LEMMA InitializeFacts ==
  /\ Initialize(StartNodes) \in SchedulerState
  /\ Initialize(StartNodes).running = {}
  /\ Initialize(StartNodes).completed = {}
  /\ Initialize(StartNodes).failed = {}
  /\ END_NODE_ID \notin Initialize(StartNodes).ready
<1> DEFINE indegree == [n \in Id |-> IF n = END_NODE_ID THEN 1 ELSE Cardinality(BlockingEdges(n))]
           isStartTarget(n) == \E e \in EdgesTo(n) : e.from_node = START_NODE_ID
           first == IF StartNodes # {}
                    THEN StartNodes \cap Node
                    ELSE {n \in Node : indegree[n] = 0 \/ isStartTarget(n)}
<1>1. Initialize(StartNodes) =
        [ready |-> first, running |-> {}, completed |-> {}, failed |-> {},
         pending |-> [n \in Id |-> IF n \in first THEN 0 ELSE indegree[n]]]
  BY DEF Initialize, InitializedFrom
<1>2. first \subseteq Node
  OBVIOUS
<1>3. \A n \in Id : indegree[n] \in Int
  <2> SUFFICES ASSUME NEW n \in Id PROVE Cardinality(BlockingEdges(n)) \in Int
    OBVIOUS
  <2>1. BlockingEdges(n) \subseteq Edges
    BY DEF BlockingEdges, EdgesTo
  <2>2. Cardinality(BlockingEdges(n)) \in Nat
    BY <2>1, FS_Subset, FS_CardinalityType, GraphAssumption DEF GraphAssumption
  <2> QED
    BY <2>2
<1>4. [n \in Id |-> IF n \in first THEN 0 ELSE indegree[n]] \in [Id -> Int]
  BY <1>3
<1> QED
  BY <1>1, <1>2, <1>4, EdgeEnds DEF SchedulerState, Id

LEMMA InitialReady == Initialize(StartNodes).ready \subseteq Node
BY DEF Initialize, InitializedFrom

LEMMA NodesFinite ==
  ASSUME NEW S \in SUBSET Node
  PROVE  /\ IsFiniteSet(S) /\ Cardinality(S) \in Nat
         /\ Cardinality(S) <= Cardinality(Node) /\ Cardinality(Node) \in Nat
BY GraphAssumption, FS_Subset, FS_CardinalityType DEF GraphAssumption

\* A batch is taken from the candidates and has no direct edge inside.
LEMMA BatchFacts ==
  ASSUME NEW cands, NEW batch \in Batches(cands)
  PROVE  /\ batch \subseteq cands
         /\ \A m, n \in batch : m # n => m \notin Successors(n)
         /\ ~(Cardinality(batch) > 1) => \E n : batch = {n}
<1>1. CASE Cardinality(Independent(cands)) > 1
  <2>1. batch = Independent(cands)
    BY <1>1 DEF Batches
  <2> QED
    BY <1>1, <2>1 DEF Independent
<1>2. CASE ~(Cardinality(Independent(cands)) > 1)
  BY <1>2 DEF Batches
<1> QED
  BY <1>1, <1>2

\* complete(): the node leaves running, and what it releases was not running
\* beside it, because no member of a batch is a successor of another.
LEMMA CompletedFacts ==
  ASSUME NEW s \in SchedulerState, NEW n \in Node, NEW success \in BOOLEAN
  PROVE  /\ Completed(s, n, success) \in SchedulerState
         /\ Completed(s, n, success).running = s.running \ {n}
         /\ /\ Apart(s)
            /\ n \in s.running
            /\ \A m \in s.running \cap Node : m # n => m \notin Successors(n)
            => Apart(Completed(s, n, success))
<1>1. CASE success
  <2> DEFINE released == {e.to_node : e \in {f \in EdgesFrom(n) :
                            f.edge_type \notin {"conditional", "loop_back"}}} \ {END_NODE_ID}
             pending  == [m \in Id |-> IF m \in released THEN s.pending[m] - 1 ELSE s.pending[m]]
             freed    == {m \in released : pending[m] <= 0
                            /\ m \notin (s.completed \cup {n}) \cup (s.running \ {n})}
  <2>1. released \subseteq Id
    BY EdgeEnds DEF Successors
  <2>2. pending \in [Id -> Int]
    BY DEF SchedulerState
  <2>3. Completed(s, n, success) =
          [s EXCEPT !.running = s.running \ {n}, !.completed = s.completed \cup {n},
                    !.pending = pending, !.ready = @ \cup freed]
    BY <1>1 DEF Completed, Succeeded
  <2>4. freed \subseteq Id
    BY <2>1
  <2> HIDE DEF pending, freed, released
  <2>5. Completed(s, n, success) \in SchedulerState
    <3>1. n \in Id /\ s.running \ {n} \in SUBSET Id /\ s.completed \cup {n} \in SUBSET Id
      BY DEF SchedulerState, Id
    <3>2. s.ready \cup freed \in SUBSET Id
      BY <2>4 DEF SchedulerState
    <3> QED BY <2>2, <2>3, <3>1, <3>2 DEF SchedulerState
  <2>6. /\ Completed(s, n, success).running = s.running \ {n}
        /\ Completed(s, n, success).completed = s.completed \cup {n}
        /\ Completed(s, n, success).ready = s.ready \cup freed
    BY <2>3 DEF SchedulerState
  <2>7. freed \cap ((s.completed \cup {n}) \cup (s.running \ {n})) = {}
    BY DEF freed
  <2> QED
    BY <2>5, <2>6, <2>7 DEF Apart
<1>2. CASE ~success
  <2> DEFINE handlers == {e.to_node : e \in {f \in EdgesFrom(n) : f.edge_type = "error"}}
             lowered(m) == IF s.pending[m] > 1 THEN s.pending[m] - 1 ELSE 0
             pending == [m \in Id |-> IF m \in handlers THEN lowered(m) ELSE s.pending[m]]
             freed   == {m \in handlers : pending[m] <= 0 /\ m \notin s.completed}
  <2>1. handlers \subseteq Successors(n)
    BY DEF Successors
  <2>2. pending \in [Id -> Int]
    BY DEF SchedulerState
  <2>3. Completed(s, n, success) =
          [s EXCEPT !.running = @ \ {n}, !.failed = @ \cup {n}, !.pending = pending,
                    !.ready = @ \cup freed]
    BY <1>2 DEF Completed, Failed
  <2>4. freed \subseteq Successors(n) \ s.completed
    BY <2>1
  <2> HIDE DEF pending, freed, handlers
  <2>5. Completed(s, n, success) \in SchedulerState
    <3>1. n \in Id /\ s.running \ {n} \in SUBSET Id /\ s.failed \cup {n} \in SUBSET Id
      BY DEF SchedulerState, Id
    <3>2. s.ready \cup freed \in SUBSET Id
      BY <2>4, EdgeEnds DEF SchedulerState
    <3> QED BY <2>2, <2>3, <3>1, <3>2 DEF SchedulerState
  <2>6. /\ Completed(s, n, success).running = s.running \ {n}
        /\ Completed(s, n, success).completed = s.completed
        /\ Completed(s, n, success).ready = s.ready \cup freed
    BY <2>3 DEF SchedulerState
  <2> QED
    BY <2>4, <2>5, <2>6 DEF Apart
<1> QED
  BY <1>1, <1>2

\* Updating one half of a pair leaves the other half as it is.
LEMMA PairUpdate ==
  ASSUME NEW c, NEW s, NEW g, c = [sched |-> s, state |-> g], NEW x
  PROVE  /\ c.sched = s /\ c.state = g
         /\ [c EXCEPT !.sched = x] = [sched |-> x, state |-> g]
         /\ [c EXCEPT !.state = x] = [sched |-> s, state |-> x]
OBVIOUS

\* Reason, cause, verdict and the nodes of the state stay as they are.
SameNodes(g, h) == h.current_node_id = g.current_node_id /\ h.pause_context = g.pause_context

SameMarks(g, h) == /\ h.termination_reason = g.termination_reason
                   /\ h.cause = g.cause
                   /\ SameNodes(g, h)
                   /\ h.quality_passed = g.quality_passed

Repeats(c, d, gate, agent) ==
  /\ d.state.retries = c.state.retries /\ SameMarks(c.state, d.state)
  /\ d.sched.failed = c.sched.failed /\ d.sched.pending = c.sched.pending
  /\ d.sched.running = c.sched.running
  /\ d.sched.completed = c.sched.completed \ {agent, gate}
  /\ c.sched.ready \subseteq d.sched.ready
  /\ d.sched.ready \subseteq c.sched.ready \cup {agent}
  /\ agent \in d.sched.ready \cup d.sched.running

Skips(c, d, gate, agent) ==
  /\ d.state.retries = c.state.retries /\ SameMarks(c.state, d.state)
  /\ d.sched.failed = c.sched.failed
  /\ \A m \in Id : c.sched.pending[m] <= 1 =>
       /\ d.sched.pending[m] <= 1
       /\ m \in Successors(gate) \ d.sched.completed => m \in d.sched.ready
  /\ d.sched.running = c.sched.running
  /\ d.sched.completed = c.sched.completed \cup {gate, agent}
  /\ c.sched.ready \subseteq d.sched.ready
  /\ d.sched.ready \subseteq c.sched.ready \cup (Successors(gate) \ d.sched.completed)

\* A retry that is granted: gate and agent leave completed, and the agent
\* becomes ready unless it is under way.
LEMMA RetryAgainKeeps ==
  ASSUME NEW c \in Pair, NEW gate \in Node, NEW agent \in Node
  PROVE  Keeps(c, RetryAgain(c, gate, agent)) /\ Repeats(c, RetryAgain(c, gate, agent), gate, agent)
<1> DEFINE ready == IF agent \in c.sched.running THEN c.sched.ready
                                                 ELSE c.sched.ready \cup {agent}
           left  == c.sched.completed \ {agent, gate}
           g     == [c.state EXCEPT !.completed_nodes = @ \ {agent, gate}]
           s1    == [c.sched EXCEPT !.completed = left]
           s2    == [s1 EXCEPT !.ready = ready]
           c1    == [c EXCEPT !.state = g]
           c2    == [c1 EXCEPT !.sched = [c1.sched EXCEPT !.completed = left]]
           d     == [c2 EXCEPT !.sched = [c2.sched EXCEPT !.ready = ready]]
<1>1. /\ c.sched \in SchedulerState /\ c.state \in GraphState
      /\ c = [sched |-> c.sched, state |-> c.state]
  BY DEF Pair
<1>2. RetryAgain(c, gate, agent) = d
  BY DEF RetryAgain
<1>3. c1 = [sched |-> c.sched, state |-> g]
  <2> HIDE DEF g
  <2> QED BY <1>1, PairUpdate
<1>4. c2 = [sched |-> s1, state |-> g]
  <2> HIDE DEF c1, g, left
  <2>1. c1.sched = c.sched
    BY <1>3
  <2> QED BY <1>3, <2>1, PairUpdate
<1>5. d = [sched |-> s2, state |-> g]
  <2> HIDE DEF c2, g, s1, ready
  <2>1. c2.sched = s1
    BY <1>4
  <2> QED BY <1>4, <2>1, PairUpdate
<1>6. /\ s1 \in SchedulerState /\ s1.running = c.sched.running /\ s1.completed = left
      /\ s1.failed = c.sched.failed /\ s1.pending = c.sched.pending
  BY <1>1 DEF SchedulerState
<1>7. /\ s2 \in SchedulerState
      /\ s2.running = c.sched.running /\ s2.completed = left /\ s2.ready = ready
      /\ s2.failed = c.sched.failed /\ s2.pending = c.sched.pending
  <2>1. ready \subseteq Id
    BY <1>1 DEF SchedulerState, Id
  <2> HIDE DEF s1, ready, left
  <2> QED BY <1>6, <2>1 DEF SchedulerState
<1>8. g \in GraphState /\ g.retries = c.state.retries /\ SameMarks(c.state, g)
  BY <1>1 DEF GraphState, SameMarks, SameNodes
<1> HIDE DEF d, s1, s2, g
<1>9. d \in Pair /\ d.sched = s2 /\ d.state = g
  BY <1>5, <1>7, <1>8 DEF Pair
<1> QED
  BY <1>2, <1>7, <1>8, <1>9 DEF Keeps, NoSkip, Apart, Repeats

\* A skip keeps the types and starts nothing; gate and agent are done, and what
\* becomes ready are successors of the gate that are not.
LEMMA SkipPhaseType ==
  ASSUME NEW c \in Pair, NEW gate \in Node, NEW agent \in Node
  PROVE  SkipPhase(c, gate, agent) \in Pair /\ Skips(c, SkipPhase(c, gate, agent), gate, agent)
<1> DEFINE completed == c.sched.completed \cup {gate, agent}
           released  == Successors(gate) \ completed
           pending   == [m \in Id |-> IF m \notin released THEN c.sched.pending[m]
                                      ELSE IF c.sched.pending[m] > 1 THEN c.sched.pending[m] - 1
                                      ELSE 0]
           ready     == c.sched.ready \cup {m \in released : pending[m] <= 0}
           g         == [c.state EXCEPT !.completed_nodes = @ \cup {agent}]
           s1        == [c.sched EXCEPT !.completed = completed]
           s2        == [s1 EXCEPT !.pending = pending]
           s3        == [s2 EXCEPT !.ready = ready]
           c1        == [c EXCEPT !.state = g]
           c2        == [c1 EXCEPT !.sched = [c1.sched EXCEPT !.completed = completed]]
           c3        == [c2 EXCEPT !.sched = [c2.sched EXCEPT !.pending = pending]]
           d         == [c3 EXCEPT !.sched = [c3.sched EXCEPT !.ready = ready]]
<1>1. /\ c.sched \in SchedulerState /\ c.state \in GraphState
      /\ c = [sched |-> c.sched, state |-> c.state]
  BY DEF Pair
<1>2. SkipPhase(c, gate, agent) = d
  BY DEF SkipPhase
<1>3. c1 = [sched |-> c.sched, state |-> g]
  <2> HIDE DEF g
  <2> QED BY <1>1, PairUpdate
<1>4. ready \subseteq Id
  <2>1. released \subseteq Id
    BY EdgeEnds
  <2> QED BY <1>1, <2>1 DEF SchedulerState
<1>5. pending \in [Id -> Int]
  BY <1>1 DEF SchedulerState
<1>6. completed \subseteq Id
  BY <1>1 DEF SchedulerState, Id
<1>14. ready \subseteq c.sched.ready \cup (Successors(gate) \ completed) /\ c.sched.ready \subseteq ready
  OBVIOUS
<1>15. completed = c.sched.completed \cup {gate, agent}
  OBVIOUS
<1>17. \A m \in Id : c.sched.pending[m] <= 1 =>
         /\ pending[m] <= 1
         /\ m \in Successors(gate) \ completed => m \in ready
  BY <1>1 DEF SchedulerState
<1> HIDE DEF pending, ready, completed, g
<1>7. c2 = [sched |-> s1, state |-> g]
  <2> HIDE DEF c1
  <2>1. c1.sched = c.sched
    BY <1>3
  <2> QED BY <1>3, <2>1, PairUpdate
<1>8. c3 = [sched |-> s2, state |-> g]
  <2> HIDE DEF c2, s1
  <2>1. c2.sched = s1
    BY <1>7
  <2> QED BY <1>7, <2>1, PairUpdate
<1>9. d = [sched |-> s3, state |-> g]
  <2> HIDE DEF c3, s2
  <2>1. c3.sched = s2
    BY <1>8
  <2> QED BY <1>8, <2>1, PairUpdate
<1>10. /\ s1 \in SchedulerState /\ s1.running = c.sched.running /\ s1.completed = completed
       /\ s1.failed = c.sched.failed
  BY <1>1, <1>6 DEF SchedulerState
<1> HIDE DEF s1
<1>11. /\ s2 \in SchedulerState /\ s2.running = c.sched.running /\ s2.completed = completed
       /\ s2.failed = c.sched.failed /\ s2.pending = pending
  BY <1>10, <1>5 DEF SchedulerState
<1> HIDE DEF s2
<1>12. /\ s3 \in SchedulerState
       /\ s3.running = c.sched.running /\ s3.completed = completed /\ s3.ready = ready
       /\ s3.failed = c.sched.failed /\ s3.pending = pending
  BY <1>11, <1>4 DEF SchedulerState
<1>13. g \in GraphState /\ g.retries = c.state.retries /\ SameMarks(c.state, g)
  BY <1>1 DEF GraphState, SameMarks, SameNodes, g
<1> HIDE DEF d, s3
<1>16. d \in Pair /\ d.sched = s3 /\ d.state = g
  BY <1>9, <1>12, <1>13 DEF Pair
<1> QED
  BY <1>2, <1>12, <1>13, <1>14, <1>15, <1>16, <1>17 DEF Skips

\* _requeue_quality_retry: counting up to the limit keeps the places apart in
\* both modes, and past it a phase counts as skipped unless the run fails.
LEMMA RequeuedKeeps ==
  ASSUME NEW c \in Pair, NEW gate \in Node, NEW agent \in Node
  PROVE  Keeps(c, Requeued(c, gate, agent))
<1> DEFINE attempt == c.state.retries[gate] + 1
           counted == [c EXCEPT !.state.retries[gate] = attempt]
<1>1. c.sched \in SchedulerState /\ c.state \in GraphState /\ c.state.retries \in [Node -> Nat]
  BY DEF Pair, GraphState
<1>2. counted = [sched |-> c.sched,
                 state |-> [c.state EXCEPT !.retries = [c.state.retries EXCEPT ![gate] = attempt]]]
  BY DEF Pair, GraphState
<1>3. [c.state.retries EXCEPT ![gate] = attempt] \in [Node -> Nat]
  BY <1>1
<1>4. counted.state \in GraphState
  BY <1>1, <1>2, <1>3 DEF GraphState
<1>5. counted \in Pair /\ counted.sched = c.sched
  BY <1>1, <1>2, <1>4 DEF Pair
<1>6. counted.state.retries = [c.state.retries EXCEPT ![gate] = attempt]
  BY <1>1, <1>2 DEF GraphState
<1>7. /\ counted.state.retries[gate] = attempt
      /\ \A n \in Node : counted.state.retries[n] >= c.state.retries[n]
      /\ \A n \in Node : counted.state.retries[n] \in Nat /\ c.state.retries[n] \in Nat
  BY <1>1, <1>3, <1>6
<1>8. NoSkip(counted.state) => NoSkip(c.state)
  BY <1>7, RuntimeAssumption DEF NoSkip, RuntimeAssumption
<1> HIDE DEF counted
<1>9. CASE attempt <= MaxRetries
  <2>1. Requeued(c, gate, agent) = RetryAgain(counted, gate, agent)
    BY <1>9 DEF Requeued, counted
  <2>2. Keeps(counted, RetryAgain(counted, gate, agent))
    BY <1>5, RetryAgainKeeps
  <2> QED
    BY <2>1, <2>2, <1>5, <1>8 DEF Keeps
<1>10. CASE ~(attempt <= MaxRetries) /\ env.review_mode
  <2> DEFINE d == [counted EXCEPT !.state = Marked(@, "error", "retry_exhausted")]
  <2>1. Requeued(c, gate, agent) = d
    BY <1>10 DEF Requeued, counted
  <2>2. d = [sched |-> c.sched, state |-> Marked(counted.state, "error", "retry_exhausted")]
    BY <1>5 DEF Pair
  <2>3. /\ Marked(counted.state, "error", "retry_exhausted") \in GraphState
        /\ Marked(counted.state, "error", "retry_exhausted").retries = counted.state.retries
    BY <1>4, MarkedType DEF Reason, Cause
  <2>4. d \in Pair /\ d.sched = c.sched /\ d.state.retries = counted.state.retries
    BY <2>2, <2>3, <1>1 DEF Pair
  <2> QED
    BY <2>1, <2>4, <1>8 DEF Keeps, NoSkip
<1>11. CASE ~(attempt <= MaxRetries) /\ ~env.review_mode
  <2>1. Requeued(c, gate, agent) = SkipPhase(counted, gate, agent)
    BY <1>11 DEF Requeued, counted
  <2>2. /\ SkipPhase(counted, gate, agent) \in Pair
        /\ SkipPhase(counted, gate, agent).sched.running = c.sched.running
        /\ SkipPhase(counted, gate, agent).state.retries = counted.state.retries
    BY <1>5, SkipPhaseType DEF Skips
  <2>3. ~NoSkip(SkipPhase(counted, gate, agent).state)
    BY <2>2, <1>7, <1>11 DEF NoSkip
  <2> QED
    BY <2>1, <2>2, <2>3 DEF Keeps
<1> QED
  BY <1>9, <1>10, <1>11

\* Making nodes ready that neither run nor have completed.
LEMMA ReadyKeeps ==
  ASSUME NEW c \in Pair, NEW new, new \subseteq Id \ (c.sched.completed \cup c.sched.running)
  PROVE  LET d == [c EXCEPT !.sched.ready = @ \cup new]
         IN  /\ Keeps(c, d) /\ d.state = c.state
             /\ d.sched.completed = c.sched.completed
             /\ d.sched.ready = c.sched.ready \cup new
<1> DEFINE ready == c.sched.ready \cup new
           s     == [c.sched EXCEPT !.ready = ready]
           d     == [c EXCEPT !.sched = s]
<1>1. /\ c.sched \in SchedulerState /\ c.state \in GraphState
      /\ c = [sched |-> c.sched, state |-> c.state]
  BY DEF Pair
<1>2. d = [sched |-> s, state |-> c.state]
  <2> HIDE DEF s
  <2> QED BY <1>1, PairUpdate
<1>3. ready \subseteq Id
  BY <1>1 DEF SchedulerState
<1>4. /\ s \in SchedulerState
      /\ s.running = c.sched.running /\ s.completed = c.sched.completed /\ s.ready = ready
  <2> HIDE DEF ready
  <2> QED BY <1>1, <1>3 DEF SchedulerState
<1> HIDE DEF s
<1>5. d \in Pair /\ d.sched = s /\ d.state = c.state
  BY <1>1, <1>2, <1>4 DEF Pair
<1>6. Keeps(c, d)
  BY <1>4, <1>5 DEF Keeps, NoSkip, Apart
<1> QED
  BY <1>4, <1>5, <1>6 DEF s

\* Marking the state changes no place and no count of retries.
LEMMA MarkKeeps ==
  ASSUME NEW c \in Pair, NEW reason \in Reason, NEW cause \in Cause
  PROVE  Keeps(c, [c EXCEPT !.state = Marked(@, reason, cause)])
<1> DEFINE g == Marked(c.state, reason, cause)
           d == [c EXCEPT !.state = g]
<1>1. /\ c.sched \in SchedulerState /\ c.state \in GraphState
      /\ c = [sched |-> c.sched, state |-> c.state]
  BY DEF Pair
<1>2. g \in GraphState /\ g.retries = c.state.retries
  BY <1>1, MarkedType
<1> HIDE DEF g
<1>3. d = [sched |-> c.sched, state |-> g]
  BY <1>1, PairUpdate
<1>4. d \in Pair /\ d.sched = c.sched /\ d.state = g
  BY <1>1, <1>2, <1>3 DEF Pair
<1> QED
  BY <1>2, <1>4 DEF Keeps, NoSkip, g

\* _schedule_next.
LEMMA ScheduledNextKeeps ==
  ASSUME NEW c \in Pair, NEW n \in Node, NEW targets \in SUBSET Node
  PROVE  Keeps(c, ScheduledNext(c, n, targets))
<1> DEFINE back      == {t \in targets : HasEdge(n, t, "loop_back")}
           defensive == targets = {} /\ Kind[n] = "quality_gate" /\ c.state.quality_passed # "fail"
           ahead     == IF defensive
                        THEN {t \in Successors(n) : ~HasEdge(n, t, "loop_back")}
                        ELSE targets \ back
           new       == ahead \ ({END_NODE_ID} \cup c.sched.completed \cup c.sched.running)
           forward   == [c EXCEPT !.sched.ready = @ \cup new]
           ended     == IF END_NODE_ID \in ahead
                        THEN [forward EXCEPT !.state = Marked(@, "completed", "reached_end")]
                        ELSE forward
           agent     == CHOOSE t \in back : TRUE
<1>1. ScheduledNext(c, n, targets) = IF back = {} THEN ended ELSE Requeued(ended, n, agent)
  BY Zenon DEF ScheduledNext
<1>2. ahead \subseteq Id
  BY EdgeEnds DEF Id
<1>3. new \subseteq Id \ (c.sched.completed \cup c.sched.running)
  BY <1>2
<1>4. Keeps(c, forward)
  <2> HIDE DEF new
  <2> QED BY <1>3, ReadyKeeps
<1>5. back # {} => agent \in Node
  <2>1. back # {} => agent \in back
    <3> HIDE DEF back
    <3> QED BY Zenon
  <2> QED BY <2>1
<1> HIDE DEF forward, back, agent, ahead
<1>6. Keeps(c, ended)
  <2>1. forward \in Pair
    BY <1>4 DEF Keeps
  <2>2. Keeps(forward, [forward EXCEPT !.state = Marked(@, "completed", "reached_end")])
    BY <2>1, MarkKeeps DEF Reason, Cause
  <2>3. Keeps(c, [forward EXCEPT !.state = Marked(@, "completed", "reached_end")])
    BY <1>4, <2>2 DEF Keeps
  <2> QED BY <1>4, <2>3
<1> HIDE DEF ended
<1>7. back # {} => Keeps(c, Requeued(ended, n, agent))
  <2>1. ended \in Pair
    BY <1>6 DEF Keeps
  <2>2. back # {} => Keeps(ended, Requeued(ended, n, agent))
    BY <2>1, <1>5, RequeuedKeeps
  <2> QED BY <1>6, <2>2 DEF Keeps
<1> QED
  BY <1>1, <1>6, <1>7

\* Routing a node, after it has ended or at a resume.
LEMMA RoutedKeeps ==
  ASSUME NEW c \in Pair, NEW n \in Node, NEW holding
  PROVE  Keeps(c, Routed(c, n, holding))
<1>1. Resolved(n, c.state, holding) \subseteq Node
  <2>1. \A e \in {f \in EdgesFrom(n) : f.to_node # END_NODE_ID} : e.to_node \in Node
    BY GraphAssumption DEF GraphAssumption, EdgesFrom, Edge
  <2> DEFINE out     == {e \in EdgesFrom(n) : e.to_node # END_NODE_ID}
             matched == {e.to_node : e \in {f \in out : /\ f.edge_type # "default"
                                                        /\ Traversed(f, c.state, holding)}}
  <2>2. matched \subseteq Node /\ {e.to_node : e \in {f \in out : f.edge_type = "default"}} \subseteq Node
    BY <2>1
  <2> QED BY <2>2 DEF Resolved
<1> QED
  BY <1>1, ScheduledNextKeeps DEF Routed

------------------------------------------------------------------------------
(* The invariants on every graph *)

LEMMA InitRInv == Init => RInv /\ NInv
<1> SUFFICES ASSUME Init PROVE RInv /\ NInv
  OBVIOUS
<1>1. InitialState \in GraphState
  BY DEF InitialState, GraphState, Reason, Cause
<1>2. sched \in SchedulerState /\ sched.running = {} /\ sched.completed = {}
  BY DEF Init, SchedulerState
<1>3. TypeOK
  <2>1. counts \in [iteration : 0 .. 2 * MaxIterations + 2, checkpoint : 0 .. CheckpointEvery - 1]
    BY RuntimeAssumption DEF Init, Zero, RuntimeAssumption
  <2>2. /\ env.review_mode \in ReviewModes
        /\ env = [review_mode |-> env.review_mode, requests |-> 0, crashes |-> 0, replays |-> 0]
    BY DEF Init
  <2>3. env \in [review_mode : ReviewModes, requests : 0 .. MaxRequests, crashes : 0 .. MaxCrashes,
                 replays : 0 .. MaxReplays]
    BY <2>2, RuntimeAssumption DEF RuntimeAssumption
  <2>4. result \in [Node -> Outcome] /\ runs \in [Node -> Nat]
    BY DEF Init, NoResult, Outcome
  <2> QED
    BY <1>1, <1>2, <2>1, <2>3, <2>4 DEF Init, TypeOK, GraphStatus
<1>4. Quiet /\ Results /\ OneBatch /\ Bounded /\ SavedQuiet
  BY <1>2 DEF Init, Quiet, Results, OneBatch, Bounded, SavedQuiet, Flight, NoResult
<1>5. NInv
  BY <1>2 DEF NInv, Apart, Init
<1> QED
  BY <1>3, <1>4, <1>5 DEF RInv

LEMMA ExecuteRInv == RInv /\ Execute => RInv'
<1> SUFFICES ASSUME RInv, Execute PROVE RInv'
  OBVIOUS
<1>1. /\ sched' \in SchedulerState /\ sched'.running = {}
      /\ state' \in GraphState
  BY InitializeFacts DEF Execute, InitialState, GraphState, Reason, Cause
<1>2. TypeOK'
  BY <1>1, RuntimeAssumption DEF RInv, TypeOK, Execute, GraphStatus, Zero, RuntimeAssumption
<1>3. Quiet' /\ OneBatch' /\ SavedQuiet'
  BY <1>1 DEF RInv, Execute, Quiet, OneBatch, SavedQuiet, Flight
<1>4. Results' /\ Bounded'
  BY <1>1, RuntimeAssumption DEF RInv, Execute, Results, Bounded, NoResult, Zero, Flight, RuntimeAssumption
<1> QED
  BY <1>2, <1>3, <1>4 DEF RInv

\* The ways out of the top of the main loop.
LEMMA LeaveRInv ==
  RInv /\ (StopTerminated \/ StopAtLimit \/ HonourCancel \/ HonourPause \/ NothingLeft
           \/ NothingEligible) => RInv'
<1> SUFFICES ASSUME RInv, StopTerminated \/ StopAtLimit \/ HonourCancel \/ HonourPause
                          \/ NothingLeft \/ NothingEligible
             PROVE  RInv'
  OBVIOUS
<1>1. /\ pc = "loop" /\ pc' = "final"
      /\ UNCHANGED <<sched, result, grouped, counts, saved, env, runs>>
  BY DEF StopTerminated, StopAtLimit, HonourCancel, HonourPause, NothingLeft, NothingEligible,
         GoesOn, Undisturbed
<1>2. state' \in GraphState
  BY MarkedType DEF RInv, TypeOK, StopTerminated, StopAtLimit, HonourCancel, HonourPause,
                    NothingLeft, NothingEligible, Reason, Cause
<1>3. status' \in GraphStatus /\ control' \in [pause : BOOLEAN, cancel : BOOLEAN]
  BY DEF RInv, TypeOK, GraphStatus, StopTerminated, StopAtLimit, HonourCancel, HonourPause,
         NothingLeft, NothingEligible
<1>4. TypeOK'
  BY <1>1, <1>2, <1>3 DEF RInv, TypeOK
<1> QED
  BY <1>1, <1>4 DEF RInv, Quiet, Results, OneBatch, Bounded, SavedQuiet, Flight, NoResult

\* The end marker has no edges: completing it as a failure only takes it out
\* of ready.
LEMMA MissingFacts ==
  ASSUME NEW s \in SchedulerState
  PROVE  LET t == Failed(Dispatched(s, {END_NODE_ID}), END_NODE_ID)
         IN  /\ t \in SchedulerState
             /\ t.ready = s.ready \ {END_NODE_ID}
             /\ t.running = s.running \ {END_NODE_ID}
             /\ t.completed = s.completed
             /\ t.failed = s.failed \cup {END_NODE_ID}
<1> DEFINE s1 == Dispatched(s, {END_NODE_ID})
           handlers == {e.to_node : e \in {f \in EdgesFrom(END_NODE_ID) : f.edge_type = "error"}}
           lowered(m) == IF s1.pending[m] > 1 THEN s1.pending[m] - 1 ELSE 0
           pending == [m \in Id |-> IF m \in handlers THEN lowered(m) ELSE s1.pending[m]]
           freed == {m \in handlers : pending[m] <= 0 /\ m \notin s1.completed}
           t == Failed(s1, END_NODE_ID)
<1>1. s1 \in SchedulerState
  BY DEF Dispatched, SchedulerState, Id
<1>2. /\ s1.ready = s.ready \ {END_NODE_ID} /\ s1.running = s.running \cup {END_NODE_ID}
      /\ s1.completed = s.completed /\ s1.failed = s.failed
  BY DEF Dispatched, SchedulerState
<1> HIDE DEF s1
<1>3. handlers = {}
  BY EdgeEnds
<1>4. freed = {} /\ pending \in [Id -> Int]
  BY <1>1, <1>3 DEF SchedulerState
<1>5. t = [s1 EXCEPT !.running = @ \ {END_NODE_ID}, !.failed = @ \cup {END_NODE_ID},
                     !.pending = pending, !.ready = @ \cup freed]
  BY DEF Failed
<1> HIDE DEF t, pending, freed
<1>6. t \in SchedulerState
  BY <1>1, <1>4, <1>5 DEF SchedulerState, Id
<1>7. /\ t.ready = s1.ready /\ t.running = s1.running \ {END_NODE_ID}
      /\ t.completed = s1.completed /\ t.failed = s1.failed \cup {END_NODE_ID}
  BY <1>1, <1>4, <1>5 DEF SchedulerState
<1> QED
  BY <1>2, <1>6, <1>7 DEF s1, t

LEMMA MissingRInv == RInv /\ DispatchMissing => RInv'
<1> SUFFICES ASSUME RInv, DispatchMissing PROVE RInv'
  OBVIOUS
<1>1. /\ sched' = Failed(Dispatched(sched, {END_NODE_ID}), END_NODE_ID)
      /\ END_NODE_ID \in sched.ready
  <2>1. PICK eligible \in Eligible \ {{}} :
          /\ {END_NODE_ID} \in Batches(eligible)
          /\ sched' = Failed(Dispatched(sched, {END_NODE_ID}), END_NODE_ID)
    BY DEF DispatchMissing
  <2>2. END_NODE_ID \in eligible
    BY <2>1, BatchFacts
  <2> QED BY <2>1, <2>2 DEF Eligible
<1>2. sched \in SchedulerState
  BY DEF RInv, TypeOK
<1>3. /\ sched' \in SchedulerState
      /\ sched'.ready = sched.ready \ {END_NODE_ID}
      /\ sched'.running = sched.running \ {END_NODE_ID}
  BY <1>1, <1>2, MissingFacts
<1>4. Flight(sched') = Flight(sched)
  BY <1>3, EdgeEnds DEF Flight
<1>5. /\ pc = "loop" /\ counts' = [counts EXCEPT !.iteration = @ + 1]
      /\ UNCHANGED <<state, status, control, pc, result, grouped, saved, env, runs>>
  BY DEF DispatchMissing, Undisturbed, GoesOn
<1>6. /\ counts.iteration \in Nat /\ counts.iteration <= 2 * MaxIterations
      /\ counts'.iteration = counts.iteration + 1 /\ counts'.checkpoint = counts.checkpoint
  BY <1>1, <1>5, RuntimeAssumption DEF RInv, TypeOK, Bounded, RuntimeAssumption
<1>7. counts' \in [iteration : 0 .. 2 * MaxIterations + 2, checkpoint : 0 .. CheckpointEvery - 1]
  BY <1>5, <1>6, RuntimeAssumption DEF RInv, TypeOK, RuntimeAssumption
<1>8. TypeOK'
  BY <1>3, <1>5, <1>7 DEF RInv, TypeOK
<1>9. Bounded'
  BY <1>3, <1>6, RuntimeAssumption DEF Bounded, RuntimeAssumption
<1> QED
  BY <1>4, <1>5, <1>8, <1>9 DEF RInv, Quiet, Results, OneBatch, SavedQuiet, NoResult

LEMMA ScheduleRInv == RInv /\ Schedule => RInv'
<1> SUFFICES ASSUME RInv, Schedule PROVE RInv'
  OBVIOUS
<1>0. PICK eligible \in Eligible : \E batch \in Batches(eligible) :
        /\ batch # {END_NODE_ID}
        /\ sched' = Dispatched(sched, batch)
        /\ grouped' = (Cardinality(batch) > 1)
        /\ runs' = [n \in Node |-> IF n \in batch THEN runs[n] + 1 ELSE runs[n]]
        /\ \E last \in batch \ {END_NODE_ID} : state' = [state EXCEPT !.current_node_id = last]
  BY DEF Schedule
<1>1. PICK batch \in Batches(eligible) :
        /\ batch # {END_NODE_ID}
        /\ sched' = Dispatched(sched, batch)
        /\ grouped' = (Cardinality(batch) > 1)
        /\ runs' = [n \in Node |-> IF n \in batch THEN runs[n] + 1 ELSE runs[n]]
        /\ \E last \in batch \ {END_NODE_ID} : state' = [state EXCEPT !.current_node_id = last]
  BY <1>0
<1>2. /\ pc = "loop" /\ pc' = "executing" /\ counts' = [counts EXCEPT !.iteration = @ + 1]
      /\ UNCHANGED <<status, control, result, saved, env>>
  BY DEF Schedule, Undisturbed, GoesOn
<1>3. batch \subseteq sched.ready
  BY <1>1, BatchFacts DEF Eligible
<1>4. sched \in SchedulerState /\ Flight(sched) = {}
  BY <1>2 DEF RInv, TypeOK, Quiet
<1>5. sched' \in SchedulerState /\ sched'.running = sched.running \cup batch
  BY <1>1, <1>3, <1>4 DEF Dispatched, SchedulerState
<1>6. Flight(sched') = batch \cap Node
  BY <1>4, <1>5 DEF Flight
<1>7. state' \in GraphState
  <2>1. PICK last \in batch \ {END_NODE_ID} : state' = [state EXCEPT !.current_node_id = last]
    BY <1>1
  <2>2. last \in Node
    BY <1>3, <1>4 DEF SchedulerState, Id
  <2> QED BY <2>1, <2>2 DEF RInv, TypeOK, GraphState
<1>8. /\ counts.iteration \in Nat /\ counts.iteration <= 2 * MaxIterations + 1
      /\ counts' \in [iteration : 0 .. 2 * MaxIterations + 2, checkpoint : 0 .. CheckpointEvery - 1]
  BY <1>2, RuntimeAssumption DEF RInv, TypeOK, Bounded, RuntimeAssumption
<1>9. grouped' \in BOOLEAN /\ runs' \in [Node -> Nat]
  BY <1>1 DEF RInv, TypeOK
<1>10. TypeOK'
  BY <1>2, <1>5, <1>7, <1>8, <1>9 DEF RInv, TypeOK
<1>11. result' = NoResult
  BY <1>2 DEF RInv, Results, NoResult
<1>12. Results'
  BY <1>2, <1>11 DEF Results, NoResult
<1>13. OneBatch'
  <2>1. /\ \A m, n \in batch : m # n => m \notin Successors(n)
        /\ ~(Cardinality(batch) > 1) => \E n : batch = {n}
    BY BatchFacts
  <2>2. \A m, n \in Flight(sched') : m # n => m \notin Successors(n)
    BY <2>1, <1>6
  <2>3. ~grouped' => \A m, n \in Flight(sched') : m = n
    BY <2>1, <1>1, <1>6
  <2> QED BY <2>2, <2>3 DEF OneBatch
<1>14. Quiet' /\ Bounded' /\ SavedQuiet'
  BY <1>2 DEF RInv, Quiet, Bounded, SavedQuiet
<1> QED
  BY <1>10, <1>12, <1>13, <1>14 DEF RInv

\* A node that ends writes its result and the state, and the last one of the
\* batch hands over to settling.
LEMMA FinishFacts ==
  ASSUME RInv, NEW n \in Node, NEW outcome \in Outcome \ {"none"}, NEW g \in GraphState,
         Finish(n, outcome, g)
  PROVE  RInv'
<1>1. /\ pc = "executing" /\ n \in Flight(sched) /\ pc' \in {"executing", "settling"}
      /\ result' = [result EXCEPT ![n] = outcome]
      /\ state' = Recorded(g, n, outcome)
      /\ UNCHANGED <<sched, status, control, grouped, counts, saved, env, runs>>
  BY DEF Finish, Flight
<1>2. state' \in GraphState
  BY <1>1 DEF Recorded, GraphState
<1>3. result \in [Node -> Outcome]
  BY DEF RInv, TypeOK
<1>4. TypeOK'
  BY <1>1, <1>2, <1>3 DEF RInv, TypeOK
<1>5. pc' = "settling" => \A m \in Flight(sched) : result'[m] # "none"
  <2> SUFFICES ASSUME pc' = "settling", NEW m \in Flight(sched) PROVE result'[m] # "none"
    OBVIOUS
  <2>1. CASE m = n
    BY <2>1, <1>1, <1>3
  <2>2. CASE m # n
    <3>1. result[m] # "none"
      BY <2>2 DEF Finish, Flight
    <3> QED BY <3>1, <2>2, <1>1, <1>3 DEF Flight
  <2> QED BY <2>1, <2>2
<1>6. Results'
  BY <1>1, <1>3, <1>5 DEF RInv, Results, Flight
<1> QED
  BY <1>1, <1>4, <1>6 DEF RInv, Quiet, OneBatch, Bounded, SavedQuiet, Flight

LEMMA FinishRInv ==
  ASSUME RInv, NEW n \in Node, FinishNode(n)
  PROVE  RInv'
<1>1. state \in GraphState
  BY DEF RInv, TypeOK
<1>2. ASSUME NEW verdict \in {"pass", "fail"}, JudgeOutput(n, verdict) PROVE RInv'
  <2>1. [state EXCEPT !.quality_passed = verdict] \in GraphState
    BY <1>1 DEF GraphState
  <2>2. Finish(n, "completed", [state EXCEPT !.quality_passed = verdict])
    BY <1>2 DEF JudgeOutput
  <2> QED BY <2>1, <2>2, FinishFacts DEF Outcome
<1>3. ASSUME GateFails(n) PROVE RInv'
  <2>1. PICK written \in {state.quality_passed, "pass", "fail"} :
          Finish(n, "failed", [state EXCEPT !.quality_passed = written])
    BY <1>3 DEF GateFails
  <2>2. [state EXCEPT !.quality_passed = written] \in GraphState
    BY <1>1 DEF GraphState
  <2> QED BY <2>1, <2>2, FinishFacts DEF Outcome
<1>4. ASSUME AskHuman(n) PROVE RInv'
  <2>1. Marked(state, "paused", "awaiting_user") \in GraphState
    BY <1>1, MarkedType DEF Reason, Cause
  <2>2. [Marked(state, "paused", "awaiting_user") EXCEPT !.pause_context = n] \in GraphState
    BY <2>1 DEF GraphState
  <2>3. Finish(n, "paused", [Marked(state, "paused", "awaiting_user") EXCEPT !.pause_context = n])
    BY <1>4 DEF AskHuman
  <2> QED BY <2>2, <2>3, FinishFacts DEF Outcome
<1>5. ASSUME CountLoop(n) PROVE RInv'
  <2>1. [state EXCEPT !.iteration_count = @ + 1] \in GraphState
    BY <1>1 DEF GraphState
  <2>2. Finish(n, "completed", [state EXCEPT !.iteration_count = @ + 1])
    BY <1>5 DEF CountLoop
  <2> QED BY <2>1, <2>2, FinishFacts DEF Outcome
<1>6. ASSUME Work(n) PROVE RInv'
  <2>1. Finish(n, "completed", state) \/ Finish(n, "failed", state)
    BY <1>6 DEF Work
  <2> QED BY <1>1, <2>1, FinishFacts DEF Outcome
<1>7. ASSUME AskAdaptive(n) PROVE RInv'
  <2>1. Marked(state, "paused", "awaiting_user") \in GraphState
    BY <1>1, MarkedType DEF Reason, Cause
  <2>2. [Marked(state, "paused", "awaiting_user") EXCEPT !.pause_context = n] \in GraphState
    BY <2>1 DEF GraphState
  <2>3. Finish(n, "completed", [Marked(state, "paused", "awaiting_user") EXCEPT !.pause_context = n])
    BY <1>7 DEF AskAdaptive
  <2> QED BY <2>2, <2>3, FinishFacts DEF Outcome
<1> QED
  BY <1>2, <1>3, <1>4, <1>5, <1>6, <1>7 DEF FinishNode

\* complete() on a node of the batch: the flight loses that node.
LEMMA SettledFacts ==
  ASSUME RInv, NEW n \in Node, result[n] # "none"
  PROVE  LET s == Completed(sched, n, result[n] = "completed")
         IN  /\ s \in SchedulerState
             /\ Flight(s) = Flight(sched) \ {n}
             /\ n \in Flight(sched)
             /\ Apart(sched) => Apart(s)
<1>1. n \in Flight(sched) /\ sched \in SchedulerState /\ (result[n] = "completed") \in BOOLEAN
  BY DEF RInv, Results, TypeOK
<1>2. \A m \in sched.running \cap Node : m # n => m \notin Successors(n)
  BY <1>1 DEF RInv, OneBatch, Flight
<1> DEFINE s == Completed(sched, n, result[n] = "completed")
<1>3. s \in SchedulerState /\ s.running = sched.running \ {n} /\ (Apart(sched) => Apart(s))
  BY <1>1, <1>2, CompletedFacts DEF Flight
<1> QED
  BY <1>1, <1>3 DEF Flight

LEMMA SettlePausedRInv ==
  ASSUME RInv, NEW n \in Node, SettlePaused(n)
  PROVE  RInv'
<1>1. /\ pc = "settling" /\ pc' = "final" /\ ~grouped /\ result[n] # "none"
      /\ sched' = Completed(sched, n, result[n] = "completed")
      /\ status' = "PAUSED" /\ result' = NoResult
      /\ UNCHANGED <<state, control, grouped, counts, saved, env, runs>>
  BY DEF SettlePaused
<1>2. /\ sched' \in SchedulerState /\ n \in Flight(sched)
      /\ Flight(sched') = Flight(sched) \ {n}
  BY <1>1, SettledFacts
<1>3. Flight(sched') = {}
  BY <1>1, <1>2 DEF RInv, OneBatch
<1>4. TypeOK'
  BY <1>1, <1>2 DEF RInv, TypeOK, NoResult, Outcome, GraphStatus
<1> QED
  BY <1>1, <1>3, <1>4 DEF RInv, Quiet, Results, OneBatch, Bounded, SavedQuiet, NoResult

LEMMA SettleRInv ==
  ASSUME RInv, NEW n \in Node, Settle(n)
  PROVE  RInv'
<1>1. PICK holding \in SUBSET OtherEdges(n) :
        LET c == Routed([sched |-> Completed(sched, n, result[n] = "completed"),
                         state |-> state], n, holding)
        IN  sched' = c.sched /\ state' = c.state
  BY DEF Settle
<1>2. /\ pc = "settling" /\ result[n] # "none"
      /\ result' = [result EXCEPT ![n] = "none"]
      /\ pc' = IF result' = NoResult THEN "tail" ELSE "settling"
      /\ UNCHANGED <<status, control, grouped, counts, saved, env, runs>>
  BY DEF Settle
<1> DEFINE s == Completed(sched, n, result[n] = "completed")
           a == [sched |-> s, state |-> state]
           c == Routed(a, n, holding)
<1>3. s \in SchedulerState /\ n \in Flight(sched) /\ Flight(s) = Flight(sched) \ {n}
  BY <1>2, SettledFacts
<1> HIDE DEF s
<1>4. a \in Pair /\ a.sched = s /\ a.state = state
  BY <1>3 DEF Pair, RInv, TypeOK
<1>5. Keeps(a, c)
  <2> HIDE DEF a
  <2> QED BY <1>4, RoutedKeeps
<1>6. sched' = c.sched /\ state' = c.state
  BY <1>1 DEF s
<1> HIDE DEF c, a
<1>7. sched' \in SchedulerState /\ state' \in GraphState /\ Flight(sched') = Flight(sched) \ {n}
  BY <1>3, <1>4, <1>5, <1>6 DEF Keeps, Pair, Flight
<1>8. result \in [Node -> Outcome] /\ result' \in [Node -> Outcome]
  BY <1>2 DEF RInv, TypeOK, Outcome
<1>9. TypeOK'
  BY <1>2, <1>7, <1>8 DEF RInv, TypeOK
<1>10. \A m \in Flight(sched') : result'[m] # "none"
  BY <1>2, <1>7, <1>8 DEF RInv, Results, Flight
<1>11. pc' = "tail" => Flight(sched') = {} /\ result' = NoResult
  <2>1. \A m \in Node : NoResult[m] = "none"
    BY DEF NoResult
  <2> QED BY <1>2, <1>10, <2>1 DEF Flight
<1>12. Results'
  BY <1>2, <1>7, <1>8, <1>10, <1>11 DEF RInv, Results, Flight
<1> QED
  BY <1>2, <1>7, <1>9, <1>11, <1>12 DEF RInv, Quiet, OneBatch, Bounded, SavedQuiet

\* A condition that raises leaves the rest of a group in running, under a
\* status no resume accepts.
LEMMA RaisesRInv ==
  ASSUME RInv, NEW n \in Node, RouteRaises(n)
  PROVE  RInv'
<1>1. /\ pc = "settling" /\ pc' = "stopped" /\ result[n] # "none"
      /\ sched' = Completed(sched, n, result[n] = "completed")
      /\ state' = Marked(state, "error", "exception")
      /\ status' = "FAILED" /\ result' = NoResult
      /\ UNCHANGED <<control, grouped, counts, saved, env, runs>>
  BY DEF RouteRaises
<1>2. sched' \in SchedulerState /\ Flight(sched') = Flight(sched) \ {n}
  BY <1>1, SettledFacts
<1>3. state' \in GraphState
  BY <1>1, MarkedType DEF RInv, TypeOK, Reason, Cause
<1>4. TypeOK'
  BY <1>1, <1>2, <1>3 DEF RInv, TypeOK, NoResult, Outcome, GraphStatus
<1> QED
  BY <1>1, <1>2, <1>4 DEF RInv, Quiet, Results, OneBatch, Bounded, SavedQuiet, NoResult

LEMMA SaveFacts ==
  ASSUME RInv, NEW g \in GraphState, SaveCheckpoint(g)
  PROVE  /\ saved' = saved \/ saved' = [sched |-> Restored(sched), state |-> g, control |-> control]
         /\ saved' \in [sched : SchedulerState, state : GraphState,
                        control : [pause : BOOLEAN, cancel : BOOLEAN]] \cup {NULL}
         /\ saved' # NULL => saved'.sched.running = {}
<1>1. Restored(sched) \in SchedulerState /\ Restored(sched).running = {}
  BY DEF RInv, TypeOK, Restored, SchedulerState
<1> QED
  BY <1>1 DEF SaveCheckpoint, RInv, TypeOK, SavedQuiet

LEMMA TailRInv == RInv /\ Tail => RInv'
<1> SUFFICES ASSUME RInv, Tail PROVE RInv'
  OBVIOUS
<1>1. /\ pc = "tail" /\ pc' \in {"loop", "final"}
      /\ counts' = [counts EXCEPT !.checkpoint = (@ + 1) % CheckpointEvery]
      /\ pc' = "loop" => ~(counts.iteration > 2 * MaxIterations)
      /\ UNCHANGED <<sched, status, control, result, grouped, env, runs>>
  BY DEF Tail
<1>2. state' \in GraphState
  BY MarkedType DEF Tail, RInv, TypeOK, Reason, Cause
<1>3. /\ counts'.iteration = counts.iteration /\ counts.iteration \in Nat
      /\ counts' \in [iteration : 0 .. 2 * MaxIterations + 2, checkpoint : 0 .. CheckpointEvery - 1]
  <2>1. counts.checkpoint \in Nat
    BY DEF RInv, TypeOK
  <2>2. (counts.checkpoint + 1) % CheckpointEvery \in 0 .. CheckpointEvery - 1
    BY <2>1, RuntimeAssumption DEF RuntimeAssumption
  <2> QED BY <1>1, <2>2, RuntimeAssumption DEF RInv, TypeOK, RuntimeAssumption
<1>4. SaveCheckpoint(state) \/ saved' = saved
  BY DEF Tail
<1>5. /\ saved' \in [sched : SchedulerState, state : GraphState,
                     control : [pause : BOOLEAN, cancel : BOOLEAN]] \cup {NULL}
      /\ SavedQuiet'
  BY <1>4, SaveFacts DEF RInv, TypeOK, SavedQuiet
<1>6. TypeOK'
  BY <1>1, <1>2, <1>3, <1>5 DEF RInv, TypeOK
<1>7. Bounded'
  BY <1>1, <1>3, RuntimeAssumption DEF Bounded, RuntimeAssumption
<1> QED
  BY <1>1, <1>5, <1>6, <1>7 DEF RInv, Quiet, Results, OneBatch, Flight, NoResult

LEMMA FinalRInv == RInv /\ Final => RInv'
<1> SUFFICES ASSUME RInv, Final PROVE RInv'
  OBVIOUS
<1>1. /\ pc = "final" /\ pc' = "stopped" /\ status' \in GraphStatus
      /\ UNCHANGED <<sched, state, control, result, grouped, counts, env, runs>>
  BY DEF Final, GraphStatus
<1>2. /\ saved' \in [sched : SchedulerState, state : GraphState,
                     control : [pause : BOOLEAN, cancel : BOOLEAN]] \cup {NULL}
      /\ SavedQuiet'
  BY SaveFacts DEF RInv, TypeOK, SavedQuiet, Final
<1>3. TypeOK'
  BY <1>1, <1>2 DEF RInv, TypeOK
<1> QED
  BY <1>1, <1>2, <1>3 DEF RInv, Quiet, Results, OneBatch, Bounded, Flight, NoResult

\* resume() routes the paused node again, and starts the loop afresh.
LEMMA ResumeFacts ==
  ASSUME RInv, Resume
  PROVE  /\ sched' \in SchedulerState /\ state' \in GraphState
         /\ sched'.running = sched.running
         /\ NoSkip(state') => NoSkip(state) /\ (Apart(sched) => Apart(sched'))
<1>1. /\ sched \in SchedulerState /\ state \in GraphState /\ Reopened \in GraphState
      /\ Reopened.retries = state.retries
  BY MarkedType DEF RInv, TypeOK, Reopened, Reason, Cause
<1>2. CASE PausedNode = NULL
  BY <1>1, <1>2 DEF Resume, NoSkip
<1>3. CASE PausedNode # NULL
  <2>1. PausedNode \in Node
    BY <1>1, <1>3 DEF PausedNode, GraphState
  <2> DEFINE a == [sched |-> sched, state |-> Reopened]
  <2>2. PICK holding \in SUBSET OtherEdges(PausedNode) :
          LET c == Routed(a, PausedNode, holding) IN sched' = c.sched /\ state' = c.state
    BY <1>3 DEF Resume
  <2>3. a \in Pair /\ a.sched = sched /\ a.state = Reopened
    BY <1>1 DEF Pair
  <2>4. Keeps(a, Routed(a, PausedNode, holding))
    <3> HIDE DEF a
    <3> QED BY <2>1, <2>3, RoutedKeeps
  <2> HIDE DEF a
  <2> QED BY <1>1, <2>2, <2>3, <2>4 DEF Keeps, Pair, NoSkip
<1> QED
  BY <1>2, <1>3

LEMMA ResumeRInv == RInv /\ Resume => RInv'
<1> SUFFICES ASSUME RInv, Resume PROVE RInv'
  OBVIOUS
<1>1. /\ pc \in {"stopped", "recovered"} /\ status = "PAUSED"
      /\ pc' = "loop" /\ status' = "RUNNING" /\ counts' = Zero
      /\ UNCHANGED <<control, result, grouped, saved, env, runs>>
  BY DEF Resume
<1>2. /\ sched' \in SchedulerState /\ state' \in GraphState
      /\ sched'.running = sched.running
  BY ResumeFacts
<1>3. Flight(sched) = {} /\ result = NoResult
  BY <1>1 DEF RInv, Quiet, Results
<1>4. /\ Zero \in [iteration : 0 .. 2 * MaxIterations + 2, checkpoint : 0 .. CheckpointEvery - 1]
      /\ Zero.iteration <= 2 * MaxIterations
  BY RuntimeAssumption DEF Zero, RuntimeAssumption
<1>5. TypeOK'
  BY <1>1, <1>2, <1>4 DEF RInv, TypeOK, GraphStatus
<1>6. Bounded'
  BY <1>1, <1>4 DEF Bounded
<1> QED
  BY <1>1, <1>2, <1>3, <1>5, <1>6 DEF RInv, Quiet, Results, OneBatch, SavedQuiet, Flight, NoResult

LEMMA ResumeRaisesRInv == RInv /\ ResumeRaises => RInv'
<1> SUFFICES ASSUME RInv, ResumeRaises PROVE RInv'
  OBVIOUS
<1>1. /\ pc \in {"stopped", "recovered"} /\ pc' = "stopped" /\ status' = "RUNNING"
      /\ UNCHANGED <<sched, control, result, grouped, counts, saved, env, runs>>
  BY DEF ResumeRaises
<1>2. state' \in GraphState
  BY MarkedType DEF ResumeRaises, Reopened, RInv, TypeOK, Reason, Cause
<1>3. TypeOK'
  BY <1>1, <1>2 DEF RInv, TypeOK, GraphStatus
<1> QED
  BY <1>1, <1>3 DEF RInv, Quiet, Results, OneBatch, Bounded, SavedQuiet, Flight, NoResult

\* Requests from outside touch the control flags, or the state and its status.
LEMMA RequestRInv == RInv /\ (RequestPause \/ RequestCancel \/ Cancel) => RInv'
<1> SUFFICES ASSUME RInv, RequestPause \/ RequestCancel \/ Cancel PROVE RInv'
  OBVIOUS
<1>1. /\ env.requests < MaxRequests /\ env' = [env EXCEPT !.requests = @ + 1]
      /\ UNCHANGED <<sched, pc, result, grouped, counts, saved, runs>>
  BY DEF RequestPause, RequestCancel, Cancel, Asked
<1>2. state' \in GraphState
  BY MarkedType DEF RequestPause, RequestCancel, Cancel, RInv, TypeOK, Reason, Cause
<1>3. /\ control' \in [pause : BOOLEAN, cancel : BOOLEAN] /\ status' \in GraphStatus
      /\ status' \in {status, "CANCELLED"}
  BY DEF RequestPause, RequestCancel, Cancel, RInv, TypeOK, GraphStatus
<1>4. env' \in [review_mode : ReviewModes, requests : 0 .. MaxRequests, crashes : 0 .. MaxCrashes,
                replays : 0 .. MaxReplays]
  BY <1>1, RuntimeAssumption DEF RInv, TypeOK, RuntimeAssumption
<1>5. TypeOK'
  BY <1>1, <1>2, <1>3, <1>4 DEF RInv, TypeOK
<1> QED
  BY <1>1, <1>3, <1>5 DEF RInv, Quiet, Results, OneBatch, Bounded, SavedQuiet, Flight, NoResult

LEMMA CrashRInv == RInv /\ Crash => RInv'
<1> SUFFICES ASSUME RInv, Crash PROVE RInv'
  OBVIOUS
<1>1. /\ env.crashes < MaxCrashes /\ env' = [env EXCEPT !.crashes = @ + 1] /\ pc' = "down"
      /\ UNCHANGED <<sched, state, status, control, result, grouped, counts, saved, runs>>
  BY DEF Crash
<1>2. env' \in [review_mode : ReviewModes, requests : 0 .. MaxRequests, crashes : 0 .. MaxCrashes,
                replays : 0 .. MaxReplays]
  BY <1>1, RuntimeAssumption DEF RInv, TypeOK, RuntimeAssumption
<1>3. TypeOK'
  BY <1>1, <1>2 DEF RInv, TypeOK
<1> QED
  BY <1>1, <1>3 DEF RInv, Quiet, Results, OneBatch, Bounded, SavedQuiet, Flight

LEMMA RecoverRInv == RInv /\ Recover => RInv'
<1> SUFFICES ASSUME RInv, Recover PROVE RInv'
  OBVIOUS
<1>1. /\ saved # NULL /\ sched' = saved.sched /\ state' = saved.state /\ control' = saved.control
      /\ status' = "PAUSED" /\ pc' = "recovered" /\ result' = NoResult /\ grouped' = FALSE
      /\ counts' = Zero /\ UNCHANGED <<saved, env, runs>>
  BY DEF Recover
<1>2. /\ sched' \in SchedulerState /\ state' \in GraphState
      /\ control' \in [pause : BOOLEAN, cancel : BOOLEAN]
      /\ Flight(sched') = {}
  BY <1>1 DEF RInv, TypeOK, SavedQuiet, Flight
<1>3. TypeOK'
  <2>1. Zero \in [iteration : 0 .. 2 * MaxIterations + 2, checkpoint : 0 .. CheckpointEvery - 1]
    BY RuntimeAssumption DEF Zero, RuntimeAssumption
  <2>2. NoResult \in [Node -> Outcome] /\ "PAUSED" \in GraphStatus
    BY DEF NoResult, Outcome, GraphStatus
  <2> QED
    BY <1>1, <1>2, <2>1, <2>2 DEF RInv, TypeOK
<1> QED
  BY <1>1, <1>2, <1>3 DEF RInv, Quiet, Results, OneBatch, Bounded, SavedQuiet, NoResult

\* A replay leaves the node alone in ready, and nothing running.
LEMMA ReplayFacts ==
  ASSUME RInv, NEW n \in Node, ReplayFrom(n)
  PROVE  /\ sched' \in SchedulerState /\ state' \in GraphState
         /\ sched'.ready = {n} /\ sched'.running = {} /\ n \notin sched'.completed
         /\ state'.retries = state.retries
<1> DEFINE reset   == Downstream(n)
           left    == sched.completed \ reset
           rest    == sched.failed \ reset
           pending == [m \in Id |-> IF m \in reset THEN 0 ELSE sched.pending[m]]
<1>1. n \in reset
  BY DEF Downstream
<1>2. sched \in SchedulerState /\ state \in GraphState
  BY DEF RInv, TypeOK
<1>3. /\ sched' = [sched EXCEPT !.completed = left, !.failed = rest, !.ready = {n},
                                !.running = {}, !.pending = pending]
      /\ state' = [state EXCEPT !.completed_nodes = @ \ reset, !.failed_nodes = @ \ reset,
                                !.termination_reason = NULL, !.cause = NULL,
                                !.current_node_id = n]
  BY <1>2 DEF ReplayFrom, ResetFromPhase, SchedulerState
<1>4. pending \in [Id -> Int]
  BY <1>2 DEF SchedulerState
<1> HIDE DEF pending, reset
<1>5. sched' \in SchedulerState
  BY <1>2, <1>3, <1>4 DEF SchedulerState, Id
<1>6. sched'.ready = {n} /\ sched'.running = {} /\ sched'.completed = left
  BY <1>2, <1>3 DEF SchedulerState
<1>7. state' \in GraphState /\ state'.retries = state.retries
  BY <1>2, <1>3 DEF GraphState, Reason, Cause
<1> QED
  BY <1>1, <1>5, <1>6, <1>7

LEMMA ReplayRInv ==
  ASSUME RInv, NEW n \in Node, ReplayFrom(n)
  PROVE  RInv'
<1>1. /\ pc \in {"stopped", "recovered"} /\ env.replays < MaxReplays
      /\ env' = [env EXCEPT !.replays = @ + 1] /\ pc' = "reset" /\ status' = "READY"
      /\ UNCHANGED <<control, result, grouped, counts, saved, runs>>
  BY DEF ReplayFrom, ResetFromPhase
<1>2. sched' \in SchedulerState /\ state' \in GraphState /\ Flight(sched') = {}
  BY ReplayFacts DEF Flight
<1>3. env' \in [review_mode : ReviewModes, requests : 0 .. MaxRequests, crashes : 0 .. MaxCrashes,
                replays : 0 .. MaxReplays]
  BY <1>1, RuntimeAssumption DEF RInv, TypeOK, RuntimeAssumption
<1>4. TypeOK'
  BY <1>1, <1>2, <1>3 DEF RInv, TypeOK, GraphStatus
<1> QED
  BY <1>1, <1>2, <1>4 DEF RInv, Quiet, Results, OneBatch, Bounded, SavedQuiet, NoResult

\* Every step of the main loop and of what surrounds it keeps RInv.
LEMMA NextRInv == RInv /\ [Next]_vars => RInv'
<1> SUFFICES ASSUME RInv, [Next]_vars PROVE RInv'
  OBVIOUS
<1>1. CASE MainLoop
  <2>1. CASE \E n \in Node : FinishNode(n) \/ SettlePaused(n) \/ Settle(n) \/ RouteRaises(n)
    BY <2>1, FinishRInv, SettlePausedRInv, SettleRInv, RaisesRInv
  <2> QED
    BY <1>1, <2>1, ExecuteRInv, LeaveRInv, MissingRInv, ScheduleRInv, TailRInv, FinalRInv
    DEF MainLoop
<1>2. CASE Environment
  BY <1>2, ResumeRInv, ResumeRaisesRInv, RequestRInv, CrashRInv, RecoverRInv, ReplayRInv
  DEF Environment
<1>3. CASE UNCHANGED vars
  <2>1. TypeOK' /\ Quiet' /\ Results'
    BY <1>3 DEF vars, RInv, TypeOK, Quiet, Results, Flight
  <2> QED
    BY <1>3, <2>1 DEF vars, RInv, OneBatch, Bounded, SavedQuiet, Flight
<1> QED
  BY <1>1, <1>2, <1>3 DEF Next

LEMMA RInvariant == Spec => []RInv
<1> QED
  BY InitRInv, NextRInv, PTL DEF Spec

\* Type correctness, with the bound of the loop's counter: the check against
\* 2 * max_iterations, made after a batch has been settled, is overrun by two
\* at most.
THEOREM RuntimeTypeCorrect == Spec => []TypeOK
<1>1. RInv => TypeOK
  BY DEF RInv
<1> QED
  BY <1>1, RInvariant, PTL

\* _save_checkpoint is called only when nothing is in flight, so a snapshot
\* that leaves running out loses no node, on any graph.
THEOREM CheckpointsAreQuiet == Spec => QuiescentSave
<1>1. RInv /\ [Next]_vars => (saved' # saved => sched.running \cap Node = {})
  <2> SUFFICES ASSUME RInv, [Next]_vars, saved' # saved PROVE Flight(sched) = {}
    BY DEF Flight
  <2>1. Tail \/ Final
    <3>1. CASE MainLoop
      <4>1. \A n \in Node : ~(SettlePaused(n) \/ Settle(n) \/ RouteRaises(n))
        BY DEF SettlePaused, Settle, RouteRaises
      <4>2. \A n \in Node : ~FinishNode(n)
        BY DEF FinishNode, JudgeOutput, GateFails, AskHuman, AskAdaptive, CountLoop, Work, Finish
      <4> QED
        BY <3>1, <4>1, <4>2 DEF MainLoop, Execute, StopTerminated, StopAtLimit, HonourCancel,
           HonourPause, NothingLeft, NothingEligible, DispatchMissing, Schedule
    <3>2. CASE Environment
      BY <3>2 DEF Environment, Resume, ResumeRaises, RequestPause, RequestCancel, Cancel, Asked,
                  Crash, Recover, ReplayFrom
    <3> QED
      BY <3>1, <3>2 DEF Next, vars
  <2>2. pc \in {"tail", "final"}
    BY <2>1 DEF Tail, Final
  <2> QED
    BY <2>2 DEF RInv, Quiet
<1>2. RInv /\ [Next]_vars => [saved' # saved => sched.running \cap Node = {}]_vars
  BY <1>1
<1> QED
  BY <1>2, RInvariant, PTL DEF Spec, QuiescentSave

\* Only Schedule hands nodes out, and it asks for the cancel flag first.
THEOREM CancelEndsDispatch == Spec => NoDispatchAfterCancel
<1>1. [Next]_vars => (control.cancel => runs' = runs)
  <2> SUFFICES ASSUME [Next]_vars, control.cancel PROVE runs' = runs
    OBVIOUS
  <2>1. CASE MainLoop
    <3>1. ASSUME NEW n \in Node, SettlePaused(n) \/ Settle(n) \/ RouteRaises(n)
          PROVE  runs' = runs
      BY <3>1 DEF SettlePaused, Settle, RouteRaises
    <3>2. ASSUME NEW n \in Node, FinishNode(n) PROVE runs' = runs
      BY <3>2 DEF FinishNode, JudgeOutput, GateFails, AskHuman, AskAdaptive, CountLoop, Work, Finish
    <3>3. ~Schedule
      BY DEF Schedule, Undisturbed
    <3> QED
      BY <2>1, <3>1, <3>2, <3>3 DEF MainLoop, Execute, StopTerminated, StopAtLimit, HonourCancel,
         HonourPause, NothingLeft, NothingEligible, DispatchMissing, Tail, Final
  <2>2. CASE Environment
    BY <2>2 DEF Environment, Resume, ResumeRaises, RequestPause, RequestCancel, Cancel, Asked,
                Crash, Recover, ReplayFrom
  <2>3. CASE UNCHANGED vars
    BY <2>3 DEF vars
  <2> QED
    BY <2>1, <2>2, <2>3 DEF Next
<1>2. [Next]_vars => [control.cancel => runs' = runs]_vars
  BY <1>1
<1> QED
  BY <1>2, PTL DEF Spec, NoDispatchAfterCancel

------------------------------------------------------------------------------
(* One place for every node, until a phase is skipped *)

LEMMA ScheduleApart == RInv /\ Schedule => (Apart(sched) => Apart(sched')) /\ state'.retries = state.retries
<1> SUFFICES ASSUME RInv, Schedule PROVE (Apart(sched) => Apart(sched')) /\ state'.retries = state.retries
  OBVIOUS
<1>1. PICK eligible \in Eligible : \E batch \in Batches(eligible) :
        /\ sched' = Dispatched(sched, batch)
        /\ \E last \in batch \ {END_NODE_ID} : state' = [state EXCEPT !.current_node_id = last]
  BY DEF Schedule
<1>2. PICK batch \in Batches(eligible) :
        /\ sched' = Dispatched(sched, batch)
        /\ \E last \in batch \ {END_NODE_ID} : state' = [state EXCEPT !.current_node_id = last]
  BY <1>1
<1>3. batch \subseteq sched.ready
  BY BatchFacts DEF Eligible
<1>4. sched \in SchedulerState /\ state \in GraphState
  BY DEF RInv, TypeOK
<1>5. /\ sched'.ready = sched.ready \ batch /\ sched'.running = sched.running \cup batch
      /\ sched'.completed = sched.completed
  BY <1>2, <1>4 DEF Dispatched, SchedulerState
<1>6. state'.retries = state.retries
  BY <1>2, <1>4 DEF GraphState
<1> QED
  BY <1>3, <1>5, <1>6 DEF Apart

LEMMA FinishRetries ==
  ASSUME RInv, NEW n \in Node, FinishNode(n)
  PROVE  state'.retries = state.retries /\ UNCHANGED <<sched, saved, env>>
<1>1. state \in GraphState
  BY DEF RInv, TypeOK
<1>2. ASSUME NEW outcome, NEW g \in GraphState, Finish(n, outcome, g)
      PROVE  state'.retries = g.retries /\ UNCHANGED <<sched, saved, env>>
  <2>1. state' = Recorded(g, n, outcome)
    BY <1>2 DEF Finish
  <2> QED BY <1>2, <2>1 DEF Recorded, GraphState, Finish
<1>3. ASSUME NEW verdict \in {"pass", "fail", state.quality_passed}
      PROVE  /\ [state EXCEPT !.quality_passed = verdict] \in GraphState
             /\ [state EXCEPT !.quality_passed = verdict].retries = state.retries
  BY <1>1 DEF GraphState
<1>4. CASE \E verdict \in {"pass", "fail"} : JudgeOutput(n, verdict)
  BY <1>2, <1>3, <1>4 DEF JudgeOutput
<1>5. CASE GateFails(n)
  BY <1>2, <1>3, <1>5 DEF GateFails
<1>6. CASE AskHuman(n) \/ AskAdaptive(n)
  <2> DEFINE g == Marked(state, "paused", "awaiting_user")
             h == [g EXCEPT !.pause_context = n]
  <2>1. g \in GraphState /\ g.retries = state.retries
    BY <1>1, MarkedType DEF Reason, Cause
  <2> HIDE DEF g
  <2>2. h \in GraphState /\ h.retries = state.retries
    BY <2>1 DEF GraphState
  <2>3. Finish(n, "paused", h) \/ Finish(n, "completed", h)
    BY <1>6 DEF AskHuman, AskAdaptive, g
  <2> HIDE DEF h
  <2> QED BY <1>2, <2>2, <2>3
<1>7. CASE CountLoop(n)
  <2> DEFINE g == [state EXCEPT !.iteration_count = @ + 1]
  <2>1. g \in GraphState /\ g.retries = state.retries
    BY <1>1 DEF GraphState
  <2>2. Finish(n, "completed", g)
    BY <1>7 DEF CountLoop
  <2> HIDE DEF g
  <2> QED BY <1>2, <2>1, <2>2
<1>8. CASE Work(n)
  BY <1>1, <1>2, <1>8 DEF Work
<1> QED
  BY <1>4, <1>5, <1>6, <1>7, <1>8 DEF FinishNode

\* A step of the main loop or of its surroundings that is no recovery and no
\* execution from the start.
LEMMA StepApart ==
  ASSUME RInv, [Next]_vars, ~Execute, ~Recover
  PROVE  NoSkip(state') => NoSkip(state) /\ (Apart(sched) => Apart(sched'))
<1>1. sched \in SchedulerState /\ state \in GraphState
  BY DEF RInv, TypeOK
<1>2. ASSUME UNCHANGED sched, state'.retries = state.retries
      PROVE  NoSkip(state') => NoSkip(state) /\ (Apart(sched) => Apart(sched'))
  BY <1>2 DEF NoSkip
<1>3. CASE StopTerminated \/ StopAtLimit \/ HonourCancel \/ HonourPause \/ NothingLeft
           \/ NothingEligible \/ Tail \/ Final \/ ResumeRaises
           \/ RequestPause \/ RequestCancel \/ Cancel \/ Crash
  <2>1. UNCHANGED sched
    BY <1>3 DEF StopTerminated, StopAtLimit, HonourCancel, HonourPause, NothingLeft,
       NothingEligible, Tail, Final, ResumeRaises, RequestPause, RequestCancel, Cancel, Asked, Crash
  <2>2. \/ state' = state
        \/ \E reason \in Reason, cause \in Cause : state' = Marked(state, reason, cause)
    BY <1>3 DEF StopTerminated, StopAtLimit, HonourCancel, HonourPause, NothingLeft,
       NothingEligible, Tail, Final, ResumeRaises, RequestPause, RequestCancel, Cancel, Crash,
       Reopened, Reason, Cause
  <2>3. state'.retries = state.retries
    BY <2>2, <1>1, MarkedType
  <2> QED BY <1>2, <2>1, <2>3
<1>4. CASE DispatchMissing
  <2>1. sched' = Failed(Dispatched(sched, {END_NODE_ID}), END_NODE_ID) /\ UNCHANGED state
    BY <1>4 DEF DispatchMissing
  <2>2. /\ sched'.ready = sched.ready \ {END_NODE_ID}
        /\ sched'.running = sched.running \ {END_NODE_ID}
        /\ sched'.completed = sched.completed
    BY <1>1, <2>1, MissingFacts
  <2> QED BY <2>1, <2>2 DEF NoSkip, Apart
<1>5. CASE Schedule
  BY <1>5, ScheduleApart DEF NoSkip
<1>6. ASSUME NEW n \in Node, FinishNode(n)
      PROVE  NoSkip(state') => NoSkip(state) /\ (Apart(sched) => Apart(sched'))
  BY <1>2, <1>6, FinishRetries
<1>7. ASSUME NEW n \in Node, SettlePaused(n)
      PROVE  NoSkip(state') => NoSkip(state) /\ (Apart(sched) => Apart(sched'))
  BY <1>7, SettledFacts DEF SettlePaused, NoSkip
<1>8. ASSUME NEW n \in Node, RouteRaises(n)
      PROVE  NoSkip(state') => NoSkip(state) /\ (Apart(sched) => Apart(sched'))
  <2>1. state'.retries = state.retries
    BY <1>1, <1>8, MarkedType DEF RouteRaises, Reason, Cause
  <2>2. Apart(sched) => Apart(sched')
    BY <1>8, SettledFacts DEF RouteRaises
  <2> QED BY <2>1, <2>2 DEF NoSkip
<1>9. ASSUME NEW n \in Node, Settle(n)
      PROVE  NoSkip(state') => NoSkip(state) /\ (Apart(sched) => Apart(sched'))
  <2> DEFINE s == Completed(sched, n, result[n] = "completed")
             a == [sched |-> s, state |-> state]
  <2>1. PICK holding : sched' = Routed(a, n, holding).sched /\ state' = Routed(a, n, holding).state
    BY <1>9 DEF Settle
  <2>2. s \in SchedulerState /\ (Apart(sched) => Apart(s))
    BY <1>9, SettledFacts DEF Settle
  <2> HIDE DEF s
  <2>3. a \in Pair /\ a.sched = s /\ a.state = state
    BY <1>1, <2>2 DEF Pair
  <2> HIDE DEF a
  <2>4. Keeps(a, Routed(a, n, holding))
    BY <2>3, RoutedKeeps
  <2> QED BY <2>1, <2>2, <2>3, <2>4 DEF Keeps
<1>10. CASE Resume
  BY <1>10, ResumeFacts
<1>11. ASSUME NEW n \in Node, ReplayFrom(n)
       PROVE  NoSkip(state') => NoSkip(state) /\ (Apart(sched) => Apart(sched'))
  BY <1>11, ReplayFacts DEF NoSkip, Apart
<1>12. CASE UNCHANGED vars
  BY <1>12 DEF vars, NoSkip
<1> QED
  BY <1>3, <1>4, <1>5, <1>6, <1>7, <1>8, <1>9, <1>10, <1>11, <1>12
  DEF Next, MainLoop, Environment

\* The mode is fixed when the run is made.
LEMMA ModeFixed == RInv /\ [Next]_vars => env'.review_mode = env.review_mode
<1> SUFFICES ASSUME RInv, [Next]_vars PROVE env'.review_mode = env.review_mode
  OBVIOUS
<1>1. CASE MainLoop
  <2>1. ASSUME NEW n \in Node, SettlePaused(n) \/ Settle(n) \/ RouteRaises(n)
        PROVE  env' = env
    BY <2>1 DEF SettlePaused, Settle, RouteRaises
  <2>2. ASSUME NEW n \in Node, FinishNode(n) PROVE env' = env
    BY <2>2, FinishRetries
  <2> QED
    BY <1>1, <2>1, <2>2 DEF MainLoop, Execute, StopTerminated, StopAtLimit, HonourCancel,
       HonourPause, NothingLeft, NothingEligible, DispatchMissing, Schedule, Tail, Final
<1>2. CASE Environment
  BY <1>2 DEF Environment, Resume, ResumeRaises, RequestPause, RequestCancel, Cancel, Asked,
              Crash, Recover, ReplayFrom, RInv, TypeOK
<1>3. CASE UNCHANGED vars
  BY <1>3 DEF vars
<1> QED
  BY <1>1, <1>2, <1>3 DEF Next

\* Checkpoints are written by the tail and the end of the loop only.
LEMMA SaversAre ==
  [Next]_vars => Tail \/ Final \/ saved' = saved
<1> SUFFICES ASSUME [Next]_vars, ~Tail, ~Final PROVE saved' = saved
  OBVIOUS
<1>1. CASE MainLoop
  <2>1. ASSUME NEW n \in Node, SettlePaused(n) \/ Settle(n) \/ RouteRaises(n)
        PROVE  saved' = saved
    BY <2>1 DEF SettlePaused, Settle, RouteRaises
  <2>2. ASSUME NEW n \in Node, FinishNode(n) PROVE saved' = saved
    BY <2>2 DEF FinishNode, JudgeOutput, GateFails, AskHuman, AskAdaptive, CountLoop, Work, Finish
  <2> QED
    BY <1>1, <2>1, <2>2 DEF MainLoop, Execute, StopTerminated, StopAtLimit, HonourCancel,
       HonourPause, NothingLeft, NothingEligible, DispatchMissing, Schedule
<1>2. CASE Environment
  BY <1>2 DEF Environment, Resume, ResumeRaises, RequestPause, RequestCancel, Cancel, Asked,
              Crash, Recover, ReplayFrom
<1>3. CASE UNCHANGED vars
  BY <1>3 DEF vars
<1> QED
  BY <1>1, <1>2, <1>3 DEF Next

\* The checkpoint holds what the scheduler held at some earlier point.
LEMMA SavedApart ==
  RInv /\ NInv /\ [Next]_vars =>
    (saved # NULL => (NoSkip(saved.state) => Apart(saved.sched)))'
<1> SUFFICES ASSUME RInv, NInv, [Next]_vars
             PROVE  saved' # NULL => (NoSkip(saved'.state) => Apart(saved'.sched))
  BY ModeFixed DEF NoSkip
<1>1. CASE saved' = saved
  BY <1>1 DEF NInv
<1>2. CASE saved' # saved
  <2>1. SaveCheckpoint(state)
    BY <1>2, SaversAre DEF Tail, Final
  <2>2. saved'.sched = Restored(sched) /\ saved'.state = state
    BY <1>2, <2>1 DEF SaveCheckpoint
  <2>3. /\ Restored(sched).ready = sched.ready /\ Restored(sched).completed = sched.completed
        /\ Restored(sched).running = {}
    BY DEF RInv, TypeOK, Restored, SchedulerState
  <2> QED
    BY <2>2, <2>3 DEF NInv, Apart
<1> QED
  BY <1>1, <1>2

LEMMA NextNInv == RInv /\ NInv /\ [Next]_vars => NInv'
<1> SUFFICES ASSUME RInv, NInv, [Next]_vars, NoSkip(state)' PROVE Apart(sched)'
  BY SavedApart DEF NInv
<1>1. NoSkip(state')
  BY ModeFixed DEF NoSkip
<1>2. CASE Execute
  BY <1>2, InitializeFacts DEF Execute, Apart
<1>3. CASE Recover
  BY <1>1, <1>3 DEF Recover, NInv
<1>4. CASE ~Execute /\ ~Recover
  BY <1>1, <1>4, StepApart DEF NInv
<1> QED
  BY <1>2, <1>3, <1>4

LEMMA NInvariant == Spec => [](NoSkip(state) => Apart(sched))
<1>1. RInv /\ NInv /\ [Next]_vars => (RInv /\ NInv)'
  BY NextRInv, NextNInv
<1>2. NInv => (NoSkip(state) => Apart(sched))
  BY DEF NInv
<1> QED
  BY InitRInv, <1>1, <1>2, PTL DEF Spec

\* On every graph, and through every pause, crash, recovery, cancel and replay,
\* a ready node neither runs nor has completed, as long as no phase has been
\* skipped.
THEOREM NotTwiceUntilSkip == Spec => [](NoSkip(state) => NotTwice)
<1>1. (NoSkip(state) => Apart(sched)) => (NoSkip(state) => NotTwice)
  BY DEF Apart, NotTwice
<1> QED
  BY <1>1, NInvariant, PTL

\* In review mode nothing is ever skipped.
THEOREM NotTwiceInReview == Spec => [](env.review_mode => NotTwice)
<1>1. (NoSkip(state) => NotTwice) => (env.review_mode => NotTwice)
  BY DEF NoSkip
<1> QED
  BY <1>1, NotTwiceUntilSkip, PTL

------------------------------------------------------------------------------
(* The retry budget *)

\* complete(n): n has ended, and some of its successors may be ready.
Ends(s, t, n, success) ==
  /\ t.running = s.running \ {n}
  /\ t.completed = IF success THEN s.completed \cup {n} ELSE s.completed
  /\ t.failed = IF success THEN s.failed ELSE s.failed \cup {n}
  /\ s.ready \subseteq t.ready /\ t.ready \ s.ready \subseteq Successors(n)

\* The agent a gate sends back to, and who leads to a node otherwise.
IsRetry(gate, agent) == HasEdge(gate, agent, "loop_back")
Leads(n, m) == m \in Successors(n) /\ ~HasEdge(n, m, "loop_back")
Follows(m)  == \E n \in Node : Leads(n, m)

LEMMA CompletedEnds ==
  ASSUME NEW s \in SchedulerState, NEW n \in Node, NEW success \in BOOLEAN
  PROVE  LET t == Completed(s, n, success)
         IN  /\ t \in SchedulerState /\ Ends(s, t, n, success)
             /\ \A m \in t.ready \ s.ready : Leads(n, m) /\ m \notin t.completed
             /\ (\A e \in Edges : e.edge_type # "error") => END_NODE_ID \notin t.ready \ s.ready
             /\ (\A e \in Edges : e.edge_type # "error") /\ ~success => t.ready = s.ready
<1> DEFINE t == Completed(s, n, success)
<1>1. t \in SchedulerState /\ t.running = s.running \ {n}
  BY CompletedFacts
<1>4. \A e \in EdgesFrom(n) : e.edge_type # "loop_back" => Leads(n, e.to_node)
  BY GraphAssumption DEF GraphAssumption, Leads, HasEdge, Successors, EdgesFrom
<1>2. CASE success
  <2> DEFINE released == {e.to_node : e \in {f \in EdgesFrom(n) :
                            f.edge_type \notin {"conditional", "loop_back"}}} \ {END_NODE_ID}
             pending == [m \in Id |-> IF m \in released THEN s.pending[m] - 1 ELSE s.pending[m]]
             freed   == {m \in released : pending[m] <= 0
                            /\ m \notin (s.completed \cup {n}) \cup (s.running \ {n})}
  <2>1. released \subseteq Successors(n) \ {END_NODE_ID} /\ \A m \in released : Leads(n, m)
    BY <1>4 DEF Successors
  <2>2. t = [s EXCEPT !.running = s.running \ {n}, !.completed = s.completed \cup {n},
                      !.pending = pending, !.ready = @ \cup freed]
    BY <1>2 DEF Completed, Succeeded
  <2>3. /\ freed \subseteq Successors(n) \ {END_NODE_ID}
        /\ \A m \in freed : Leads(n, m) /\ m \notin s.completed \cup {n}
    BY <2>1
  <2> HIDE DEF pending, freed, released, t
  <2>4. /\ t.completed = s.completed \cup {n} /\ t.failed = s.failed
        /\ t.ready = s.ready \cup freed
    BY <2>2 DEF SchedulerState
  <2> QED
    BY <1>1, <1>2, <2>3, <2>4 DEF Ends, t
<1>3. CASE ~success
  <2> DEFINE handlers == {e.to_node : e \in {f \in EdgesFrom(n) : f.edge_type = "error"}}
             lowered(m) == IF s.pending[m] > 1 THEN s.pending[m] - 1 ELSE 0
             pending == [m \in Id |-> IF m \in handlers THEN lowered(m) ELSE s.pending[m]]
             freed   == {m \in handlers : pending[m] <= 0 /\ m \notin s.completed}
  <2>1. handlers \subseteq Successors(n) /\ \A m \in handlers : Leads(n, m)
    BY <1>4 DEF Successors
  <2>2. (\A e \in Edges : e.edge_type # "error") => handlers = {}
    BY DEF EdgesFrom
  <2>3. t = [s EXCEPT !.running = @ \ {n}, !.failed = @ \cup {n}, !.pending = pending,
                      !.ready = @ \cup freed]
    BY <1>3 DEF Completed, Failed
  <2>4. freed \subseteq handlers /\ freed \cap s.completed = {}
    OBVIOUS
  <2> HIDE DEF pending, freed, handlers, t
  <2>5. /\ t.completed = s.completed /\ t.failed = s.failed \cup {n}
        /\ t.ready = s.ready \cup freed
    BY <2>3 DEF SchedulerState
  <2> QED
    BY <1>1, <1>3, <2>1, <2>2, <2>4, <2>5 DEF Ends, t
<1> QED
  BY <1>2, <1>3

\* Routing n, as far as the agent of one gate is concerned: it becomes ready
\* at the price of one of the retries of its gate, or by an ordinary edge if it
\* has not completed, and it leaves completed only to run again.
Grants(c, d, n, gate, agent) ==
  /\ d \in Pair
  /\ d.sched.running = c.sched.running
  /\ d.state.retries[gate] >= c.state.retries[gate]
  /\ c.sched.ready \subseteq d.sched.ready
  /\ agent \in d.sched.ready \ c.sched.ready =>
       \/ /\ n = gate /\ c.state.retries[gate] < MaxRetries
          /\ d.state.retries[gate] = c.state.retries[gate] + 1
       \/ Leads(n, agent) /\ agent \notin c.sched.completed
  /\ agent \in c.sched.completed =>
       \/ agent \in d.sched.completed
       \/ n = gate /\ agent \in d.sched.ready \cup d.sched.running

\* One gate to an agent, and no gate is the agent of another.
OneGate ==
  /\ \A g, h, x \in Node : IsRetry(g, x) /\ IsRetry(h, x) => g = h
  /\ \A g, x, y \in Node : IsRetry(g, x) => ~IsRetry(x, y)

LEMMA RequeuedGrants ==
  ASSUME OneGate, NEW c \in Pair, NEW n \in Node, NEW back \in Node, IsRetry(n, back),
         NEW gate \in Node, NEW agent \in Node, IsRetry(gate, agent)
  PROVE  Grants(c, Requeued(c, n, back), n, gate, agent)
<1> DEFINE attempt == c.state.retries[n] + 1
           counted == [c EXCEPT !.state.retries[n] = attempt]
<1>1. c.sched \in SchedulerState /\ c.state \in GraphState /\ c.state.retries \in [Node -> Nat]
  BY DEF Pair, GraphState
<1>2. counted = [sched |-> c.sched,
                 state |-> [c.state EXCEPT !.retries = [c.state.retries EXCEPT ![n] = attempt]]]
  BY DEF Pair, GraphState
<1>3. [c.state.retries EXCEPT ![n] = attempt] \in [Node -> Nat]
  BY <1>1
<1>4. counted.state \in GraphState
  BY <1>1, <1>2, <1>3 DEF GraphState
<1>5. counted \in Pair /\ counted.sched = c.sched
  BY <1>1, <1>2, <1>4 DEF Pair
<1>6. counted.state.retries = [c.state.retries EXCEPT ![n] = attempt]
  BY <1>1, <1>2 DEF GraphState
<1>7. /\ counted.state.retries[n] = attempt
      /\ counted.state.retries[gate] >= c.state.retries[gate]
  BY <1>1, <1>3, <1>6
<1>8. Requeued(c, n, back) \in Pair
  BY RequeuedKeeps DEF Keeps
<1>9. agent = back => n = gate
  BY DEF OneGate
<1>10. agent # n
  BY DEF OneGate
<1> HIDE DEF counted
<1>11. CASE attempt <= MaxRetries
  <2>1. Requeued(c, n, back) = RetryAgain(counted, n, back)
    BY <1>11 DEF Requeued, counted
  <2>2. c.state.retries[n] < MaxRetries
    BY <1>1, <1>11, RuntimeAssumption DEF RuntimeAssumption
  <2> DEFINE d == RetryAgain(counted, n, back)
  <2>3. Repeats(counted, d, n, back)
    BY <1>5, RetryAgainKeeps
  <2>4. Requeued(c, n, back) = d /\ d \in Pair
    BY <2>1, <1>8
  <2> HIDE DEF d
  <2>5. CASE agent = back
    <3>1. n = gate
      BY <2>5, <1>9
    <3> QED
      BY <2>2, <2>3, <2>4, <2>5, <3>1, <1>5, <1>7 DEF Grants, Repeats
  <2>6. CASE agent # back
    BY <2>3, <2>4, <2>6, <1>5, <1>7, <1>10 DEF Grants, Repeats
  <2> QED
    BY <2>5, <2>6
<1>12. CASE ~(attempt <= MaxRetries) /\ env.review_mode
  <2> DEFINE g == Marked(counted.state, "error", "retry_exhausted")
             d == [counted EXCEPT !.state = g]
  <2>1. Requeued(c, n, back) = d
    BY <1>12 DEF Requeued, counted
  <2>2. g.retries = counted.state.retries
    BY <1>4, MarkedType DEF Reason, Cause
  <2> HIDE DEF g
  <2>3. d.sched = c.sched /\ d.state = g
    BY <1>5 DEF Pair
  <2> QED
    BY <2>1, <2>2, <2>3, <1>7, <1>8 DEF Grants
<1>13. CASE ~(attempt <= MaxRetries) /\ ~env.review_mode
  <2>1. Requeued(c, n, back) = SkipPhase(counted, n, back)
    BY <1>13 DEF Requeued, counted
  <2>2. ASSUME NEW m \in Successors(n), m # back PROVE Leads(n, m)
    BY <2>2, RuntimeAssumption DEF Leads, IsRetry, HasEdge, EdgesFrom, RuntimeAssumption
  <2> DEFINE d == SkipPhase(counted, n, back)
  <2>3. Skips(counted, d, n, back)
    BY <1>5, SkipPhaseType
  <2>4. Requeued(c, n, back) = d /\ d \in Pair
    BY <2>1, <1>8
  <2> HIDE DEF d
  <2>5. agent \in d.sched.ready \ c.sched.ready => Leads(n, agent) /\ agent \notin c.sched.completed
    BY <2>2, <2>3, <1>5 DEF Skips
  <2> QED
    BY <2>3, <2>4, <2>5, <1>5, <1>7 DEF Grants, Skips
<1> QED
  BY <1>11, <1>12, <1>13

LEMMA RoutedGrants ==
  ASSUME OneGate, NEW c \in Pair, NEW n \in Node, NEW holding,
         NEW gate \in Node, NEW agent \in Node, IsRetry(gate, agent)
  PROVE  Grants(c, Routed(c, n, holding), n, gate, agent)
<1> DEFINE targets   == Resolved(n, c.state, holding)
           back      == {t \in targets : HasEdge(n, t, "loop_back")}
           defensive == targets = {} /\ Kind[n] = "quality_gate" /\ c.state.quality_passed # "fail"
           ahead     == IF defensive
                        THEN {t \in Successors(n) : ~HasEdge(n, t, "loop_back")}
                        ELSE targets \ back
           new       == ahead \ ({END_NODE_ID} \cup c.sched.completed \cup c.sched.running)
           forward   == [c EXCEPT !.sched.ready = @ \cup new]
           ended     == IF END_NODE_ID \in ahead
                        THEN [forward EXCEPT !.state = Marked(@, "completed", "reached_end")]
                        ELSE forward
           again     == CHOOSE t \in back : TRUE
<1>1. Routed(c, n, holding) = IF back = {} THEN ended ELSE Requeued(ended, n, again)
  BY Zenon DEF Routed, ScheduledNext
<1>2. targets \subseteq Successors(n) \ {END_NODE_ID}
  BY DEF Resolved, Successors
<1>3. \A m \in ahead : Leads(n, m)
  BY <1>2 DEF Leads
<1>4. new \subseteq Id \ (c.sched.completed \cup c.sched.running) /\ \A m \in new : Leads(n, m)
  BY <1>3, EdgeEnds DEF Leads
<1>5. back # {} => again \in Node /\ IsRetry(n, again)
  <2>1. back # {} => again \in back
    <3> HIDE DEF back
    <3> QED BY Zenon
  <2> QED BY <2>1, <1>2, EdgeEnds DEF IsRetry, Id
<1> HIDE DEF targets, back, again, ahead, new, forward
<1>6. /\ forward \in Pair /\ forward.state = c.state
      /\ forward.sched.running = c.sched.running
      /\ forward.sched.completed = c.sched.completed
      /\ forward.sched.ready = c.sched.ready \cup new
  BY <1>4, ReadyKeeps DEF Keeps, forward
<1>7. /\ ended \in Pair /\ ended.sched = forward.sched
      /\ ended.state.retries = c.state.retries
  <2> DEFINE g == Marked(forward.state, "completed", "reached_end")
  <2>1. g \in GraphState /\ g.retries = c.state.retries
    BY <1>6, MarkedType DEF Pair, Reason, Cause
  <2> HIDE DEF g
  <2>2. /\ [forward EXCEPT !.state = g].sched = forward.sched
        /\ [forward EXCEPT !.state = g].state = g
        /\ [forward EXCEPT !.state = g] \in Pair
    BY <1>6, <2>1 DEF Pair
  <2> QED BY <1>6, <2>1, <2>2 DEF g
<1> HIDE DEF ended
<1>8. CASE back = {}
  BY <1>1, <1>4, <1>6, <1>7, <1>8 DEF Grants, Pair, GraphState
<1>9. CASE back # {}
  <2>1. Grants(ended, Requeued(ended, n, again), n, gate, agent)
    BY <1>5, <1>7, <1>9, RequeuedGrants
  <2> QED
    BY <1>1, <1>4, <1>6, <1>7, <1>9, <2>1 DEF Grants
<1> QED
  BY <1>8, <1>9

\* The shape and the bounds under which the budget holds: one gate to an
\* agent, no gate an agent itself, an agent that others lead to never fails or asks
\* (a resume would route them again), and when the process may die every
\* checkpoint due is written.
Budgeted ==
  /\ OneGate
  /\ \A g, x \in Node : IsRetry(g, x) /\ Follows(x) => x \notin MayFail /\ Kind[x] # "human"
  /\ MaxReplays = 0
  /\ MaxCrashes > 0 => SaveMayFail = FALSE

Granted(g, gate) == IF g.retries[gate] < MaxRetries THEN g.retries[gate] ELSE MaxRetries

\* How often the agent was handed out, with the time it is ready for, is paid
\* for by the first execution, the retries granted and what was lost; and an
\* agent with others before it that has no place was never handed out.
Within(times, s, g, gate, agent, lost) ==
  /\ times + (IF agent \in s.ready THEN 1 ELSE 0) <= 1 + Granted(g, gate) + lost
  /\ Follows(agent) /\ agent \notin s.ready \cup s.running \cup s.completed => times <= lost

\* The agent is in the batch at hand, and this batch does not make it ready.
Spent(gate, agent) ==
  /\ agent \notin sched.ready /\ gate \notin sched.running
  /\ Follows(agent) => agent \in sched.running \cup sched.completed

\* What crashes have lost: an agent takes turns with its gate, so that it is in
\* every other batch at most.
LostTurns == env.crashes * LostRounds

\* The agent has been handed out h times since the checkpoint: in half of the
\* batches settled since then, and the one at hand.
HandedOut(h, gate, agent) ==
  h > 0 =>
    /\ pc \in {"loop", "executing", "settling", "tail", "final", "stopped"}
    /\ 2 * h <= CheckpointEvery + 1
    /\ pc = "loop" => /\ 2 * h <= counts.checkpoint + 1
                      /\ agent \in sched.ready => 2 * h <= counts.checkpoint
    /\ pc \in {"executing", "settling", "tail"} =>
         \/ 2 * h <= counts.checkpoint + 1
         \/ 2 * h <= counts.checkpoint + 2 /\ Spent(gate, agent)
    /\ pc = "stopped" => status # "PAUSED"

SavedWithin(gate, agent) ==
  \E h \in Nat : /\ Within(runs[agent], saved.sched, saved.state, gate, agent, LostTurns + h)
                /\ HandedOut(h, gate, agent)

\* Agents with others before them end by completing.
Succeeds(agent) == Follows(agent) => result[agent] \in {"none", "completed"}

BInv ==
  /\ pc # "reset"
  /\ pc = "created" => saved = NULL /\ \A n \in Node : runs[n] = 0
  /\ pc = "down" => MaxCrashes > 0
  /\ \A gate, agent \in Node : IsRetry(gate, agent) =>
       /\ Succeeds(agent)
       /\ Within(runs[agent], sched, state, gate, agent, LostTurns)
       /\ MaxCrashes > 0 /\ saved # NULL => SavedWithin(gate, agent)

\* Numbers the steps below count with.
LEMMA BudgetTypes ==
  ASSUME RInv
  PROVE  /\ sched \in SchedulerState /\ state \in GraphState
         /\ \A n \in Node : runs[n] \in Nat /\ state.retries[n] \in Nat
         /\ env.crashes \in Nat /\ LostTurns \in Nat
         /\ saved # NULL => /\ saved.sched \in SchedulerState /\ saved.state \in GraphState
                            /\ \A n \in Node : saved.state.retries[n] \in Nat
<1>1. env.crashes \in Nat /\ LostRounds \in Nat
  BY RuntimeAssumption DEF RInv, TypeOK, RuntimeAssumption, LostRounds
<1>2. \A k, l \in Nat : k * l \in Nat
  OBVIOUS
<1>3. LostTurns \in Nat
  BY <1>1, <1>2 DEF LostTurns
<1> QED
  BY <1>1, <1>3, RuntimeAssumption DEF RInv, TypeOK, GraphState, RuntimeAssumption

\* More may have been lost.
LEMMA WithinMore ==
  ASSUME NEW times \in Nat, NEW s, NEW g, NEW gate \in Node, NEW agent \in Node,
         g.retries[gate] \in Nat, NEW lost \in Nat, NEW more \in Nat, lost <= more,
         Within(times, s, g, gate, agent, lost)
  PROVE  Within(times, s, g, gate, agent, more)
BY RuntimeAssumption DEF Within, Granted, RuntimeAssumption

\* A crash adds the rounds that fit between two checkpoints.
LEMMA LostGrows ==
  ASSUME RInv
  PROVE  /\ LostTurns \in Nat /\ LostRounds \in Nat
         /\ env'.crashes = env.crashes => LostTurns' = LostTurns
         /\ env'.crashes = env.crashes + 1 => LostTurns' = LostTurns + LostRounds
         /\ \A h \in Nat : 2 * h <= CheckpointEvery + 1 => h <= LostRounds
<1>1. env.crashes \in Nat /\ CheckpointEvery \in Nat
  BY BudgetTypes, RuntimeAssumption DEF RuntimeAssumption
<1>2. LostRounds \in Nat /\ \A h \in Nat : 2 * h <= CheckpointEvery + 1 => h <= LostRounds
  BY <1>1 DEF LostRounds
<1>3. \A k \in Nat : (env.crashes + 1) * k = env.crashes * k + k /\ env.crashes * k \in Nat
  BY <1>1
<1> QED
  BY <1>1, <1>2, <1>3 DEF LostTurns, LostRounds

\* The end of a node makes an agent ready by an ordinary edge only, and only one
\* that was never handed out.
LEMMA EndsWithin ==
  ASSUME NEW s, NEW t, NEW g, NEW n \in Node, NEW success \in BOOLEAN,
         NEW gate \in Node, NEW agent \in Node,
         NEW times \in Nat, NEW lost \in Nat, g.retries[gate] \in Nat,
         Ends(s, t, n, success),
         \A m \in t.ready \ s.ready : Leads(n, m) /\ m \notin t.completed,
         Leads(n, agent) => agent \notin s.running \ {n},
         Follows(agent) /\ agent = n => success,
         Within(times, s, g, gate, agent, lost)
  PROVE  Within(times, t, g, gate, agent, lost)
<1>1. Granted(g, gate) \in Nat
  BY RuntimeAssumption DEF Granted, RuntimeAssumption
<1> HIDE DEF Granted
<1>2. Follows(agent) /\ agent \notin t.ready \cup t.running \cup t.completed
      => agent \notin s.ready \cup s.running \cup s.completed
  BY DEF Ends
<1>3. CASE agent \in t.ready \ s.ready
  <2>1. Follows(agent) /\ agent \notin t.completed /\ agent \notin s.running \ {n}
    BY <1>3 DEF Follows
  <2>2. agent \notin s.running \cup s.completed
    BY <2>1 DEF Ends
  <2>3. times <= lost
    BY <1>3, <2>1, <2>2 DEF Within
  <2> QED BY <1>1, <1>3, <2>3 DEF Within
<1>4. CASE agent \notin t.ready \ s.ready
  <2>1. agent \in t.ready <=> agent \in s.ready
    BY <1>4 DEF Ends
  <2> QED BY <1>2, <2>1 DEF Within
<1> QED
  BY <1>3, <1>4

\* Routing makes the agent ready at the price of a retry, or the first time.
LEMMA GrantsWithin ==
  ASSUME NEW c \in Pair, NEW d, NEW n \in Node, NEW gate \in Node, NEW agent \in Node,
         NEW times \in Nat, NEW lost \in Nat,
         Grants(c, d, n, gate, agent),
         Leads(n, agent) => agent \notin c.sched.running,
         Within(times, c.sched, c.state, gate, agent, lost)
  PROVE  Within(times, d.sched, d.state, gate, agent, lost)
<1>1. c.state.retries[gate] \in Nat /\ d.state.retries[gate] \in Nat
  BY DEF Grants, Pair, GraphState
<1>2. Granted(c.state, gate) \in Nat /\ Granted(d.state, gate) \in Nat
  BY <1>1, RuntimeAssumption DEF Granted, RuntimeAssumption
<1>3. Granted(d.state, gate) >= Granted(c.state, gate)
  BY <1>1, RuntimeAssumption DEF Granted, Grants, RuntimeAssumption
<1>4. Follows(agent) /\ agent \notin d.sched.ready \cup d.sched.running \cup d.sched.completed
      => agent \notin c.sched.ready \cup c.sched.running \cup c.sched.completed
  BY DEF Grants
<1>5. CASE agent \in d.sched.ready \ c.sched.ready
  <2>1. CASE n = gate /\ c.state.retries[gate] < MaxRetries
             /\ d.state.retries[gate] = c.state.retries[gate] + 1
    <3>1. Granted(d.state, gate) = Granted(c.state, gate) + 1
      BY <1>1, <2>1, RuntimeAssumption DEF Granted, RuntimeAssumption
    <3> HIDE DEF Granted
    <3> QED BY <1>2, <1>5, <3>1 DEF Within
  <2>2. CASE Leads(n, agent) /\ agent \notin c.sched.completed
    <3>1. times <= lost
      BY <1>5, <2>2 DEF Within, Follows
    <3> HIDE DEF Granted
    <3> QED BY <1>2, <1>5, <3>1 DEF Within
  <2> QED BY <1>5, <2>1, <2>2 DEF Grants
<1>6. CASE agent \notin d.sched.ready \ c.sched.ready
  <2>1. agent \in d.sched.ready <=> agent \in c.sched.ready
    BY <1>6 DEF Grants
  <2> HIDE DEF Granted
  <2> QED BY <1>2, <1>3, <1>4, <2>1 DEF Within
<1> QED
  BY <1>5, <1>6

\* Settling a result and routing it, or settling it alone.
LEMMA SettledWithin ==
  ASSUME RInv, BInv, NEW n \in Node, result[n] # "none",
         NEW gate \in Node, NEW agent \in Node, IsRetry(gate, agent)
  PROVE  LET s == Completed(sched, n, result[n] = "completed")
         IN  /\ s \in SchedulerState /\ s.running = sched.running \ {n}
             /\ n \in Flight(sched)
             /\ Leads(n, agent) => agent \notin s.running
             /\ Within(runs[agent], s, state, gate, agent, LostTurns)
             /\ Spent(gate, agent) =>
                  /\ agent \notin s.ready /\ n # gate
                  /\ Follows(agent) => agent \in s.running \cup s.completed
<1> DEFINE success == result[n] = "completed"
           s == Completed(sched, n, success)
<1>1. n \in Flight(sched) /\ sched \in SchedulerState /\ success \in BOOLEAN
  BY DEF RInv, Results, TypeOK
<1>2. /\ s \in SchedulerState /\ Ends(sched, s, n, success)
      /\ \A m \in s.ready \ sched.ready : Leads(n, m) /\ m \notin s.completed
  <2> HIDE DEF success
  <2> QED BY <1>1, CompletedEnds
<1>3. Leads(n, agent) => agent \notin sched.running \ {n}
  BY <1>1 DEF RInv, OneBatch, Leads, Flight
<1>4. Follows(agent) /\ agent = n => success
  BY DEF BInv, Succeeds
<1>5. Within(runs[agent], sched, state, gate, agent, LostTurns)
  BY DEF BInv
<1>6. Within(runs[agent], s, state, gate, agent, LostTurns)
  <2> HIDE DEF s, success
  <2> QED BY <1>1, <1>2, <1>3, <1>4, <1>5, BudgetTypes, EndsWithin
<1>7. ASSUME Spent(gate, agent)
      PROVE  /\ agent \notin s.ready /\ n # gate
             /\ Follows(agent) => agent \in s.running \cup s.completed
  <2>1. n # gate
    BY <1>1, <1>7 DEF Spent, Flight
  <2>2. Follows(agent) => agent \in s.running \cup s.completed
    <3> HIDE DEF s, success
    <3> QED BY <1>2, <1>4, <1>7 DEF Spent, Ends
  <2>3. agent \notin s.ready
    <3> SUFFICES ASSUME agent \in s.ready PROVE FALSE
      OBVIOUS
    <3>1. Leads(n, agent) /\ agent \notin s.completed
      BY <1>2, <1>7 DEF Spent
    <3>2. agent \in s.running
      BY <2>2, <3>1 DEF Follows
    <3> HIDE DEF s, success
    <3> QED BY <1>2, <1>3, <3>1, <3>2 DEF Ends
  <2> QED BY <2>1, <2>2, <2>3
<1> HIDE DEF s, success
<1>8. s.running = sched.running \ {n}
  BY <1>2 DEF Ends
<1> QED
  BY <1>1, <1>2, <1>3, <1>6, <1>7, <1>8 DEF s, success

LEMMA SettleWithin ==
  ASSUME Budgeted, RInv, BInv, NEW n \in Node, Settle(n),
         NEW gate \in Node, NEW agent \in Node, IsRetry(gate, agent)
  PROVE  /\ Within(runs[agent], sched', state', gate, agent, LostTurns)
         /\ Spent(gate, agent) => Spent(gate, agent)'
<1> DEFINE s == Completed(sched, n, result[n] = "completed")
           c == [sched |-> s, state |-> state]
<1>1. PICK holding : sched' = Routed(c, n, holding).sched /\ state' = Routed(c, n, holding).state
  BY DEF Settle
<1>2. /\ s \in SchedulerState /\ s.running = sched.running \ {n}
      /\ Leads(n, agent) => agent \notin s.running
      /\ Within(runs[agent], s, state, gate, agent, LostTurns)
      /\ Spent(gate, agent) =>
           /\ agent \notin s.ready /\ n # gate
           /\ Follows(agent) => agent \in s.running \cup s.completed
  BY SettledWithin DEF Settle
<1> HIDE DEF s
<1>3. c \in Pair /\ c.sched = s /\ c.state = state
  BY <1>2, BudgetTypes DEF Pair
<1> HIDE DEF c
<1> DEFINE d == Routed(c, n, holding)
<1>4. Grants(c, d, n, gate, agent)
  BY <1>3, RoutedGrants DEF Budgeted
<1> HIDE DEF d
<1>5. Within(runs[agent], d.sched, d.state, gate, agent, LostTurns)
  BY <1>2, <1>3, <1>4, BudgetTypes, GrantsWithin
<1>6. ASSUME Spent(gate, agent)
      PROVE  /\ agent \notin d.sched.ready /\ gate \notin d.sched.running
             /\ Follows(agent) => agent \in d.sched.running \cup d.sched.completed
  <2>1. agent \notin d.sched.ready
    BY <1>2, <1>3, <1>4, <1>6 DEF Grants, Follows
  <2> QED BY <1>2, <1>3, <1>4, <1>6, <2>1 DEF Grants, Spent
<1> QED
  BY <1>1, <1>5, <1>6 DEF d, Spent

LEMMA ResumeWithin ==
  ASSUME Budgeted, RInv, BInv, Resume,
         NEW gate \in Node, NEW agent \in Node, IsRetry(gate, agent)
  PROVE  Within(runs[agent], sched', state', gate, agent, LostTurns)
<1>1. Within(runs[agent], sched, state, gate, agent, LostTurns)
  BY DEF BInv
<1>2. Reopened \in GraphState /\ Reopened.retries = state.retries
  BY BudgetTypes, MarkedType DEF Reopened, Reason, Cause
<1>3. Within(runs[agent], sched, Reopened, gate, agent, LostTurns)
  BY <1>1, <1>2 DEF Within, Granted
<1>4. CASE PausedNode = NULL
  BY <1>3, <1>4 DEF Resume
<1>5. CASE PausedNode # NULL
  <2>1. PausedNode \in Node
    BY <1>5, BudgetTypes DEF PausedNode, GraphState
  <2> DEFINE c == [sched |-> sched, state |-> Reopened]
  <2>2. PICK holding : /\ sched' = Routed(c, PausedNode, holding).sched
                       /\ state' = Routed(c, PausedNode, holding).state
    BY <1>5 DEF Resume
  <2>3. c \in Pair /\ c.sched = sched /\ c.state = Reopened
    BY <1>2, BudgetTypes DEF Pair
  <2> HIDE DEF c
  <2> DEFINE d == Routed(c, PausedNode, holding)
  <2>4. Grants(c, d, PausedNode, gate, agent)
    BY <2>1, <2>3, RoutedGrants DEF Budgeted
  <2> HIDE DEF d
  <2>5. agent \notin c.sched.running
    BY <2>3 DEF RInv, Quiet, Flight, Resume
  <2>6. Within(runs[agent], d.sched, d.state, gate, agent, LostTurns)
    BY <1>3, <2>1, <2>3, <2>4, <2>5, BudgetTypes, GrantsWithin
  <2> QED BY <2>2, <2>6 DEF d
<1> QED
  BY <1>4, <1>5

\* Handing out a batch: whoever is in it was ready, and its gate is not in it.
LEMMA ScheduleWithin ==
  ASSUME Budgeted, RInv, BInv, Schedule,
         NEW gate \in Node, NEW agent \in Node, IsRetry(gate, agent)
  PROVE  /\ runs'[agent] \in Nat
         /\ Within(runs'[agent], sched', state', gate, agent, LostTurns)
         /\ agent \notin sched.ready => runs'[agent] = runs[agent] /\ agent \notin sched'.ready
         /\ runs'[agent] = runs[agent] \/ (runs'[agent] = runs[agent] + 1 /\ Spent(gate, agent)')
<1>1. PICK eligible \in Eligible : \E batch \in Batches(eligible) :
        /\ sched' = Dispatched(sched, batch)
        /\ runs' = [n \in Node |-> IF n \in batch THEN runs[n] + 1 ELSE runs[n]]
  BY DEF Schedule
<1>2. PICK batch \in Batches(eligible) :
        /\ sched' = Dispatched(sched, batch)
        /\ runs' = [n \in Node |-> IF n \in batch THEN runs[n] + 1 ELSE runs[n]]
  BY <1>1
<1>3. /\ batch \subseteq sched.ready
      /\ \A m, n \in batch : m # n => m \notin Successors(n)
  BY BatchFacts DEF Eligible
<1>4. /\ sched'.ready = sched.ready \ batch /\ sched'.running = sched.running \cup batch
      /\ sched'.completed = sched.completed
  BY <1>2, BudgetTypes DEF Dispatched, SchedulerState
<1>5. state'.retries = state.retries
  BY ScheduleApart
<1>6. runs'[agent] = IF agent \in batch THEN runs[agent] + 1 ELSE runs[agent]
  BY <1>2
<1>7. Granted(state', gate) = Granted(state, gate) /\ Granted(state, gate) \in Nat
  BY <1>5, BudgetTypes, RuntimeAssumption DEF Granted, RuntimeAssumption
<1>8. runs[agent] \in Nat /\ LostTurns \in Nat
  BY BudgetTypes
<1>9. Within(runs[agent], sched, state, gate, agent, LostTurns)
  BY DEF BInv
<1> HIDE DEF Granted
<1>10. Within(runs'[agent], sched', state', gate, agent, LostTurns)
  <2>1. CASE agent \in batch
    BY <1>3, <1>4, <1>6, <1>7, <1>8, <1>9, <2>1 DEF Within
  <2>2. CASE agent \notin batch
    BY <1>4, <1>6, <1>7, <1>8, <1>9, <2>2 DEF Within
  <2> QED BY <2>1, <2>2
<1>11. agent \in batch => Spent(gate, agent)'
  <2> SUFFICES ASSUME agent \in batch PROVE Spent(gate, agent)'
    OBVIOUS
  <2>1. agent \in Successors(gate) /\ agent # gate
    BY DEF IsRetry, HasEdge, Successors, Budgeted, OneGate
  <2>2. gate \notin batch
    BY <1>3, <2>1
  <2>3. gate \notin sched.running
    BY DEF RInv, Quiet, Flight, Schedule, Undisturbed, GoesOn
  <2> QED BY <1>4, <2>2, <2>3 DEF Spent
<1> QED
  BY <1>3, <1>4, <1>6, <1>8, <1>10, <1>11

\* Only a node that may fail or a human ends otherwise than by completing.
LEMMA FinishSucceeds ==
  ASSUME Budgeted, RInv, BInv, NEW n \in Node, FinishNode(n),
         NEW gate \in Node, NEW agent \in Node, IsRetry(gate, agent)
  PROVE  /\ Succeeds(agent)'
         /\ UNCHANGED <<sched, counts, saved, runs, env, status>> /\ state'.retries = state.retries
         /\ pc = "executing" /\ pc' \in {"executing", "settling"}
<1>1. /\ UNCHANGED <<sched, counts, saved, runs, env, status>>
      /\ pc = "executing" /\ pc' \in {"executing", "settling"}
  BY DEF FinishNode, JudgeOutput, GateFails, AskHuman, AskAdaptive, CountLoop, Work, Finish
<1>2. PICK outcome \in Outcome :
        /\ result' = [result EXCEPT ![n] = outcome]
        /\ outcome = "completed" \/ n \in MayFail \/ Kind[n] = "human"
  BY DEF FinishNode, JudgeOutput, GateFails, AskHuman, AskAdaptive, CountLoop, Work, Finish, Outcome
<1>3. Succeeds(agent)'
  <2> SUFFICES ASSUME Follows(agent) PROVE result'[agent] \in {"none", "completed"}
    BY DEF Succeeds
  <2>1. result \in [Node -> Outcome] /\ result[agent] \in {"none", "completed"}
    BY DEF RInv, TypeOK, BInv, Succeeds
  <2>2. agent = n => outcome = "completed"
    BY <1>2 DEF Budgeted
  <2> QED BY <1>2, <2>1, <2>2
<1> QED
  BY <1>1, <1>3, FinishRetries

\* The scheduler as it is now: each step keeps the agent within its budget.
LEMMA LiveWithin ==
  ASSUME Budgeted, RInv, BInv, [Next]_vars,
         NEW gate \in Node, NEW agent \in Node, IsRetry(gate, agent)
  PROVE  Succeeds(agent)' /\ Within(runs'[agent], sched', state', gate, agent, LostTurns')
<1>1. /\ Within(runs[agent], sched, state, gate, agent, LostTurns) /\ Succeeds(agent)
      /\ runs[agent] \in Nat /\ state.retries[gate] \in Nat
      /\ LostTurns \in Nat /\ (env'.crashes = env.crashes => LostTurns' = LostTurns)
      /\ sched \in SchedulerState /\ state \in GraphState
  BY BudgetTypes, LostGrows DEF BInv
<1>2. \A n \in Node : NoResult[n] = "none"
  BY DEF NoResult
<1>3. CASE StopTerminated \/ StopAtLimit \/ HonourCancel \/ HonourPause \/ NothingLeft
           \/ NothingEligible \/ Tail \/ Final \/ ResumeRaises
           \/ RequestPause \/ RequestCancel \/ Cancel
  <2>1. UNCHANGED <<sched, runs, result>> /\ env'.crashes = env.crashes
    BY <1>3 DEF StopTerminated, StopAtLimit, HonourCancel, HonourPause, NothingLeft, RInv, TypeOK,
       NothingEligible, Tail, Final, ResumeRaises, RequestPause, RequestCancel, Cancel, Asked
  <2>2. \/ state' = state
        \/ \E reason \in Reason, cause \in Cause : state' = Marked(state, reason, cause)
    BY <1>3 DEF StopTerminated, StopAtLimit, HonourCancel, HonourPause, NothingLeft,
       NothingEligible, Tail, Final, ResumeRaises, RequestPause, RequestCancel, Cancel,
       Reopened, Reason, Cause
  <2>3. state'.retries = state.retries
    BY <2>2, <1>1, MarkedType
  <2> QED BY <1>1, <2>1, <2>3 DEF Within, Granted, Succeeds
<1>4. CASE Crash
  <2>1. UNCHANGED <<sched, state, runs, result>> /\ env'.crashes = env.crashes + 1
    BY <1>4 DEF Crash, RInv, TypeOK
  <2>2. LostTurns' \in Nat /\ LostTurns <= LostTurns'
    BY <2>1, LostGrows
  <2> QED BY <1>1, <2>1, <2>2, WithinMore DEF Succeeds
<1>5. CASE Execute
  <2>1. /\ sched'.ready \subseteq Id /\ state' = InitialState /\ UNCHANGED <<runs, env, result>>
    BY <1>5, InitializeFacts DEF Execute, SchedulerState
  <2>2. runs[agent] = 0
    BY <1>5 DEF Execute, BInv
  <2>3. Granted(state', gate) = 0
    BY <2>1, RuntimeAssumption DEF Granted, InitialState, RuntimeAssumption
  <2> QED BY <1>1, <2>1, <2>2, <2>3 DEF Within, Succeeds
<1>6. CASE DispatchMissing
  <2>1. sched' = Failed(Dispatched(sched, {END_NODE_ID}), END_NODE_ID) /\ UNCHANGED <<state, runs, env, result>>
    BY <1>6 DEF DispatchMissing
  <2>2. /\ sched'.ready = sched.ready \ {END_NODE_ID}
        /\ sched'.running = sched.running \ {END_NODE_ID}
        /\ sched'.completed = sched.completed
    BY <1>1, <2>1, MissingFacts
  <2> QED BY <1>1, <2>1, <2>2, EdgeEnds DEF Within, Succeeds
<1>7. CASE Schedule
  <2>1. UNCHANGED <<env, result>>
    BY <1>7 DEF Schedule
  <2> QED BY <1>1, <1>7, <2>1, ScheduleWithin DEF Succeeds
<1>8. ASSUME NEW n \in Node, FinishNode(n)
      PROVE  Succeeds(agent)' /\ Within(runs'[agent], sched', state', gate, agent, LostTurns')
  BY <1>1, <1>8, FinishSucceeds DEF Within, Granted
<1>9. ASSUME NEW n \in Node, SettlePaused(n) \/ RouteRaises(n)
      PROVE  Succeeds(agent)' /\ Within(runs'[agent], sched', state', gate, agent, LostTurns')
  <2>1. /\ sched' = Completed(sched, n, result[n] = "completed") /\ result' = NoResult
        /\ result[n] # "none" /\ UNCHANGED <<runs, env>>
    BY <1>9 DEF SettlePaused, RouteRaises
  <2>2. state'.retries = state.retries
    BY <1>1, <1>9, MarkedType DEF SettlePaused, RouteRaises, Reason, Cause
  <2>3. Within(runs[agent], sched', state, gate, agent, LostTurns)
    BY <2>1, SettledWithin
  <2> QED BY <1>1, <1>2, <2>1, <2>2, <2>3 DEF Within, Granted, Succeeds
<1>10. ASSUME NEW n \in Node, Settle(n)
       PROVE  Succeeds(agent)' /\ Within(runs'[agent], sched', state', gate, agent, LostTurns')
  <2>1. UNCHANGED <<runs, env>> /\ result' = [result EXCEPT ![n] = "none"]
    BY <1>10 DEF Settle
  <2>2. Succeeds(agent)'
    BY <1>1, <2>1 DEF Succeeds, RInv, TypeOK
  <2> QED BY <1>1, <1>10, <2>1, <2>2, SettleWithin
<1>11. CASE Resume
  <2>1. UNCHANGED <<runs, env, result>>
    BY <1>11 DEF Resume
  <2> QED BY <1>1, <1>11, <2>1, ResumeWithin DEF Succeeds
<1>12. CASE Recover
  <2>1. /\ sched' = saved.sched /\ state' = saved.state /\ result' = NoResult
        /\ UNCHANGED <<runs, env>>
    BY <1>12 DEF Recover
  <2>2. SavedWithin(gate, agent) /\ \A k \in Nat : HandedOut(k, gate, agent) => k = 0
    BY <1>12 DEF Recover, BInv, HandedOut
  <2>3. Within(runs[agent], saved.sched, saved.state, gate, agent, LostTurns)
    BY <1>1, <2>2 DEF SavedWithin
  <2> QED BY <1>1, <1>2, <2>1, <2>3 DEF Succeeds
<1>13. \A n \in Node : ~ReplayFrom(n)
  BY DEF ReplayFrom, Budgeted, RInv, TypeOK
<1>14. CASE UNCHANGED vars
  BY <1>1, <1>14 DEF vars, Succeeds
<1> QED
  BY <1>3, <1>4, <1>5, <1>6, <1>7, <1>8, <1>9, <1>10, <1>11, <1>12, <1>13, <1>14
  DEF Next, MainLoop, Environment

\* A checkpoint that is written holds what is there.
LEMMA SavedIsThere ==
  ASSUME SaveMayFail = FALSE, RInv, SaveCheckpoint(state)
  PROVE  /\ saved' # NULL /\ saved'.state = state
         /\ saved'.sched.ready = sched.ready /\ saved'.sched.running = {}
         /\ saved'.sched.completed = sched.completed
<1>1. saved' = [sched |-> Restored(sched), state |-> state, control |-> control]
  BY DEF SaveCheckpoint
<1>2. /\ Restored(sched) \in SchedulerState /\ Restored(sched).completed = sched.completed
      /\ Restored(sched).ready = sched.ready /\ Restored(sched).running = {}
      /\ state \in GraphState /\ control \in [pause : BOOLEAN, cancel : BOOLEAN]
  BY DEF RInv, TypeOK, Restored, SchedulerState
<1>3. saved' \in [sched : SchedulerState, state : GraphState,
                 control : [pause : BOOLEAN, cancel : BOOLEAN]]
  BY <1>1, <1>2
<1> QED
  BY <1>1, <1>2, <1>3, NullAssumption DEF NullAssumption

\* What a crash would go back to: between two checkpoints an agent is in every
\* other batch at most.
LEMMA CheckpointWithin ==
  ASSUME Budgeted, RInv, BInv, [Next]_vars, MaxCrashes > 0, saved' # NULL,
         NEW gate \in Node, NEW agent \in Node, IsRetry(gate, agent)
  PROVE  SavedWithin(gate, agent)'
<1> DEFINE Kept(times, lost) == Within(times, saved.sched, saved.state, gate, agent, lost)
<1>0. /\ Within(runs[agent], sched, state, gate, agent, LostTurns)
      /\ runs[agent] \in Nat /\ LostTurns \in Nat
      /\ env'.crashes = env.crashes => LostTurns' = LostTurns
      /\ saved # NULL => saved.state.retries[gate] \in Nat
      /\ counts.checkpoint \in 0 .. CheckpointEvery - 1
      /\ CheckpointEvery \in Nat \ {0}
  BY BudgetTypes, LostGrows, RuntimeAssumption DEF BInv, RInv, TypeOK, RuntimeAssumption
<1>1. ASSUME SaveCheckpoint(state), pc \in {"tail", "final"}, UNCHANGED <<runs, env>>
      PROVE  SavedWithin(gate, agent)'
  <2>1. /\ saved'.state = state /\ saved'.sched.ready = sched.ready
        /\ saved'.sched.running = {} /\ saved'.sched.completed = sched.completed
    BY <1>1, SavedIsThere DEF Budgeted
  <2>2. agent \notin sched.running
    BY <1>1 DEF RInv, Quiet, Flight
  <2>3. Within(runs[agent], saved'.sched, saved'.state, gate, agent, LostTurns + 0)
    BY <1>0, <2>1, <2>2 DEF Within
  <2>4. HandedOut(0, gate, agent)'
    BY DEF HandedOut
  <2> QED BY <1>0, <1>1, <2>3, <2>4 DEF SavedWithin
<1>2. saved' = saved => \E h \in Nat : Kept(runs[agent], LostTurns + h) /\ HandedOut(h, gate, agent)
  BY DEF BInv, SavedWithin
<1>3. ASSUME UNCHANGED <<saved, runs>>, env'.crashes = env.crashes,
             \A h \in Nat : HandedOut(h, gate, agent) => HandedOut(h, gate, agent)'
      PROVE  SavedWithin(gate, agent)'
  BY <1>0, <1>2, <1>3 DEF SavedWithin
<1>4. CASE Tail
  <2>1. /\ pc = "tail" /\ pc' \in {"loop", "final"}
        /\ counts' = [counts EXCEPT !.checkpoint = (@ + 1) % CheckpointEvery]
        /\ IF counts'.checkpoint = 0 THEN SaveCheckpoint(state) ELSE saved' = saved
        /\ UNCHANGED <<sched, runs, env>>
    BY <1>4 DEF Tail
  <2>2. CASE counts'.checkpoint = 0
    BY <1>1, <2>1, <2>2
  <2>3. CASE counts'.checkpoint # 0
    <3>1. counts'.checkpoint = (counts.checkpoint + 1) % CheckpointEvery
      BY <2>1 DEF RInv, TypeOK
    <3>2. counts'.checkpoint = counts.checkpoint + 1
      <4>1. CASE counts.checkpoint + 1 = CheckpointEvery
        <5>1. CheckpointEvery % CheckpointEvery = 0
          BY <1>0
        <5> QED BY <2>3, <3>1, <4>1, <5>1
      <4>2. CASE counts.checkpoint + 1 < CheckpointEvery
        BY <1>0, <3>1, <4>2
      <4> QED BY <1>0, <4>1, <4>2
    <3>3. ASSUME NEW k \in Nat, HandedOut(k, gate, agent) PROVE HandedOut(k, gate, agent)'
      BY <1>0, <2>1, <3>2, <3>3 DEF HandedOut, Spent
    <3> QED BY <1>3, <2>1, <2>3, <3>3
  <2> QED BY <2>2, <2>3
<1>5. CASE Final
  BY <1>1, <1>5 DEF Final
<1>6. CASE Schedule
  <2>1. /\ UNCHANGED <<saved, env>> /\ pc = "loop" /\ pc' = "executing"
        /\ counts'.checkpoint = counts.checkpoint
    BY <1>6 DEF Schedule, Undisturbed, GoesOn, RInv, TypeOK
  <2>2. /\ agent \notin sched.ready => runs'[agent] = runs[agent] /\ agent \notin sched'.ready
        /\ runs'[agent] = runs[agent] \/ (runs'[agent] = runs[agent] + 1 /\ Spent(gate, agent)')
    BY <1>6, ScheduleWithin
  <2>3. CASE runs'[agent] = runs[agent]
    <3>1. ASSUME NEW k \in Nat, HandedOut(k, gate, agent) PROVE HandedOut(k, gate, agent)'
      BY <1>0, <2>1, <3>1 DEF HandedOut
    <3> QED BY <1>0, <1>2, <2>1, <2>3, <3>1 DEF SavedWithin
  <2>4. CASE runs'[agent] = runs[agent] + 1
    <3>1. agent \in sched.ready /\ Spent(gate, agent)'
      BY <1>0, <2>2, <2>4
    <3>2. PICK h \in Nat : Kept(runs[agent], LostTurns + h) /\ HandedOut(h, gate, agent)
      BY <1>2, <2>1
    <3>3. Kept(runs[agent] + 1, LostTurns + (h + 1))
      <4>1. Granted(saved.state, gate) \in Nat
        BY <1>0, <2>1, RuntimeAssumption DEF Granted, RuntimeAssumption
      <4> HIDE DEF Granted
      <4> QED BY <1>0, <3>2, <4>1 DEF Within
    <3>4. HandedOut(h + 1, gate, agent)'
      <4>1. 2 * h <= counts.checkpoint
        BY <1>0, <2>1, <3>1, <3>2 DEF HandedOut
      <4>2. /\ 2 * (h + 1) <= CheckpointEvery + 1
            /\ 2 * (h + 1) <= counts'.checkpoint + 2
        BY <1>0, <2>1, <4>1
      <4> QED BY <2>1, <3>1, <4>2 DEF HandedOut
    <3> QED BY <1>0, <2>1, <2>4, <3>3, <3>4 DEF SavedWithin
  <2> QED BY <2>2, <2>3, <2>4
<1>7. ASSUME NEW n \in Node, FinishNode(n) PROVE SavedWithin(gate, agent)'
  <2>1. ASSUME NEW k \in Nat, HandedOut(k, gate, agent) PROVE HandedOut(k, gate, agent)'
    BY <1>7, <2>1, FinishSucceeds DEF HandedOut, Spent
  <2> QED BY <1>3, <1>7, <2>1, FinishSucceeds
<1>8. ASSUME NEW n \in Node, Settle(n) PROVE SavedWithin(gate, agent)'
  <2>1. /\ UNCHANGED <<saved, runs, env, counts>> /\ pc = "settling" /\ pc' \in {"settling", "tail"}
    BY <1>8 DEF Settle
  <2>2. ASSUME NEW k \in Nat, HandedOut(k, gate, agent) PROVE HandedOut(k, gate, agent)'
    BY <1>8, <2>1, <2>2, SettleWithin DEF HandedOut
  <2> QED BY <1>3, <2>1, <2>2
<1>9. CASE \/ StopTerminated \/ StopAtLimit \/ HonourCancel \/ HonourPause \/ NothingLeft
           \/ NothingEligible \/ RequestPause \/ RequestCancel \/ Cancel
           \/ \E n \in Node : SettlePaused(n) \/ RouteRaises(n)
  <2>1. /\ UNCHANGED <<saved, runs, counts>> /\ env'.crashes = env.crashes
        /\ \/ pc' = pc /\ sched' = sched /\ status' \in {status, "CANCELLED"}
           \/ pc' = "final"
           \/ pc' = "stopped" /\ status' = "FAILED"
    BY <1>9 DEF StopTerminated, StopAtLimit, HonourCancel, HonourPause, NothingLeft, RInv, TypeOK,
       NothingEligible, RequestPause, RequestCancel, Cancel, Asked, SettlePaused, RouteRaises
  <2>2. ASSUME NEW k \in Nat, HandedOut(k, gate, agent) PROVE HandedOut(k, gate, agent)'
    BY <2>1, <2>2 DEF HandedOut, Spent
  <2> QED BY <1>3, <2>1, <2>2
<1>10. CASE Resume \/ ResumeRaises \/ Recover
  <2>1. UNCHANGED <<saved, runs, env>>
    BY <1>10 DEF Resume, ResumeRaises, Recover
  <2>2. ASSUME NEW k \in Nat, HandedOut(k, gate, agent) PROVE HandedOut(k, gate, agent)'
    BY <1>10, <2>2 DEF Resume, ResumeRaises, Recover, HandedOut
  <2> QED BY <1>3, <2>1, <2>2
<1>11. CASE DispatchMissing
  <2>1. /\ UNCHANGED <<saved, runs, env, pc, status>> /\ pc = "loop"
        /\ counts'.checkpoint = counts.checkpoint
        /\ sched' = Failed(Dispatched(sched, {END_NODE_ID}), END_NODE_ID)
    BY <1>11 DEF DispatchMissing, Undisturbed, GoesOn, RInv, TypeOK
  <2>2. sched'.ready \subseteq sched.ready
    BY <2>1, BudgetTypes, MissingFacts
  <2>3. ASSUME NEW k \in Nat, HandedOut(k, gate, agent) PROVE HandedOut(k, gate, agent)'
    BY <2>1, <2>2, <2>3 DEF HandedOut
  <2> QED BY <1>3, <2>1, <2>3
<1>12. CASE Crash
  <2>1. UNCHANGED <<saved, runs>> /\ env'.crashes = env.crashes + 1
    BY <1>12 DEF Crash, RInv, TypeOK
  <2>2. PICK h \in Nat : Kept(runs[agent], LostTurns + h) /\ HandedOut(h, gate, agent)
    BY <1>2, <2>1
  <2>3. h <= LostRounds /\ LostRounds \in Nat /\ LostTurns' = LostTurns + LostRounds
    BY <2>1, <2>2, LostGrows DEF HandedOut
  <2>4. LostTurns + h \in Nat /\ LostTurns' + 0 \in Nat /\ LostTurns + h <= LostTurns' + 0
    BY <1>0, <2>3
  <2>5. Kept(runs[agent], LostTurns' + 0)
    BY <1>0, <2>1, <2>2, <2>4, WithinMore
  <2>6. HandedOut(0, gate, agent)'
    BY DEF HandedOut
  <2> QED BY <2>1, <2>5, <2>6 DEF SavedWithin
<1>13. ~Execute
  BY DEF Execute, BInv
<1>14. \A n \in Node : ~ReplayFrom(n)
  BY DEF ReplayFrom, Budgeted, RInv, TypeOK
<1>15. CASE UNCHANGED vars
  <2>1. ASSUME NEW k \in Nat, HandedOut(k, gate, agent) PROVE HandedOut(k, gate, agent)'
    BY <1>15, <2>1 DEF vars, HandedOut, Spent
  <2> QED BY <1>3, <1>15, <2>1 DEF vars
<1> QED
  BY <1>4, <1>5, <1>6, <1>7, <1>8, <1>9, <1>10, <1>11, <1>12, <1>13, <1>14, <1>15
  DEF Next, MainLoop, Environment

LEMMA InitBInv == Budgeted /\ Init => BInv
<1> SUFFICES ASSUME Budgeted, Init PROVE BInv
  OBVIOUS
<1>1. /\ pc = "created" /\ saved = NULL /\ LostTurns \in Nat
      /\ \A n \in Node : runs[n] = 0 /\ result[n] = "none"
      /\ sched.ready = {} /\ \A n \in Node : state.retries[n] = 0
  BY InitRInv, LostGrows DEF Init, NoResult, InitialState
<1>2. \A gate \in Node : Granted(state, gate) \in Nat
  BY <1>1, RuntimeAssumption DEF Granted, RuntimeAssumption
<1> HIDE DEF Granted
<1> QED
  BY <1>1, <1>2 DEF BInv, Within, Succeeds

LEMMA NextBInv == Budgeted /\ RInv /\ BInv /\ [Next]_vars => BInv'
<1> SUFFICES ASSUME Budgeted, RInv, BInv, [Next]_vars PROVE BInv'
  OBVIOUS
<1>1. ASSUME NEW gate \in Node, NEW agent \in Node, IsRetry(gate, agent)
      PROVE  /\ Succeeds(agent)'
             /\ Within(runs'[agent], sched', state', gate, agent, LostTurns')
             /\ MaxCrashes > 0 /\ saved' # NULL => SavedWithin(gate, agent)'
  BY <1>1, LiveWithin, CheckpointWithin
<1>2. /\ pc' # "reset"
      /\ pc' = "created" => UNCHANGED <<pc, saved, runs>>
      /\ pc' = "down" => pc = "down" \/ MaxCrashes > 0
  <2>1. \A n \in Node : ~ReplayFrom(n)
    BY DEF ReplayFrom, Budgeted, RInv, TypeOK
  <2>2. CASE \E n \in Node : FinishNode(n)
    BY <2>2 DEF FinishNode, JudgeOutput, GateFails, AskHuman, AskAdaptive, CountLoop, Work, Finish
  <2>3. CASE \E n \in Node : SettlePaused(n) \/ Settle(n) \/ RouteRaises(n)
    BY <2>3 DEF SettlePaused, Settle, RouteRaises
  <2>4. CASE Crash
    BY <2>4, BudgetTypes, RuntimeAssumption DEF Crash, RuntimeAssumption
  <2>5. CASE Execute \/ StopTerminated \/ StopAtLimit \/ HonourCancel \/ HonourPause \/ NothingLeft
             \/ NothingEligible \/ DispatchMissing \/ Schedule \/ Tail \/ Final
             \/ Resume \/ ResumeRaises \/ Recover \/ RequestPause \/ RequestCancel \/ Cancel
    BY <2>5 DEF Execute, StopTerminated, StopAtLimit, HonourCancel, HonourPause, NothingLeft,
       NothingEligible, DispatchMissing, Schedule, Tail, Final, Resume, ResumeRaises, Recover,
       RequestPause, RequestCancel, Cancel, Asked, Undisturbed, GoesOn, BInv
  <2>6. CASE UNCHANGED vars
    BY <2>6 DEF vars, BInv
  <2> QED BY <2>1, <2>2, <2>3, <2>4, <2>5, <2>6 DEF Next, MainLoop, Environment
<1> QED
  BY <1>1, <1>2 DEF BInv

\* The agent of a gate runs once, once more for each retry its gate may grant,
\* and for each crash as often as it takes turns with its gate between two
\* checkpoints, whatever their distance.  On any graph with one gate to an agent,
\* through pauses, resumes, cancels, skips, crashes and recoveries.
THEOREM RetriesAreBounded ==
  ASSUME Budgeted
  PROVE  Spec => []RetryWithinBudget
<1>1. RInv /\ BInv => RetryWithinBudget
  <2> SUFFICES ASSUME RInv, BInv, NEW gate \in Node, NEW agent \in Node, IsRetry(gate, agent)
               PROVE  runs[agent] <= MaxRetries + 1 + LostTurns
    BY DEF RetryWithinBudget, IsRetry, LostTurns
  <2>1. Granted(state, gate) \in Nat /\ Granted(state, gate) <= MaxRetries
    BY BudgetTypes, RuntimeAssumption DEF Granted, RuntimeAssumption
  <2>2. Within(runs[agent], sched, state, gate, agent, LostTurns)
    BY DEF BInv
  <2> HIDE DEF Granted
  <2> QED BY <2>1, <2>2, LostGrows, BudgetTypes, RuntimeAssumption DEF Within, RuntimeAssumption
<1>2. Budgeted
  OBVIOUS
<1> QED
  BY <1>1, <1>2, RInvariant, InitBInv, NextBInv, PTL DEF Spec
------------------------------------------------------------------------------
(* No deadlock of retries *)

\* A gate with a retry follows its agent directly: it checks an output, the
\* agent alone leads to it and leads to no other node, and what follows the gate
\* has no other way in.  Other edges have no condition; those of a gate with a
\* retry may ask for a pass.  Every node is reached from the start.
Direct ==
  /\ \A e \in Edges :
       /\ e.edge_type # "default" /\ e.condition # "other"
       /\ IF e.edge_type = "loop_back" THEN e.condition = "not_passed"
          ELSE \/ e.condition = "none" \/ e.edge_type \in {"always", "parallel_join"}
               \/ /\ e.condition = "passed" /\ Judges(e.from_node)
                  /\ \E agent \in Node : IsRetry(e.from_node, agent)
  /\ \A gate, agent \in Node : IsRetry(gate, agent) =>
       /\ gate \notin Initialize(StartNodes).ready
       /\ \A n \in Node : Leads(n, gate) => n = agent
       /\ \A n \in Node : Leads(agent, n) => n = gate
       /\ \A n \in Node : Leads(gate, n) => \A e, f \in BlockingEdges(n) : e = f
  /\ \A S \in SUBSET Node :
       /\ Initialize(StartNodes).ready \subseteq S
       /\ \A n \in S, m \in Node : Leads(n, m) => m \in S
       => S = Node
  /\ Adaptive = {}

\* A node with one way in waits for one node at most.
Low(s) == \A m \in Node : (\A e, f \in BlockingEdges(m) : e = f) => s.pending[m] <= 1

\* Who starts has a place, and so has what a completed node leads to, but for
\* one.
Carried(s, but) ==
  /\ Initialize(StartNodes).ready \subseteq Placed(s)
  /\ \A n \in s.completed \cap Node : n # but =>
       \A m \in Node : Leads(n, m) => m \in Placed(s)

Whole(s) == s.failed # {} \/ Carried(s, NULL)

\* Review mode ends a run whose retries are used up.
GivenUp == /\ env.review_mode /\ status # "PAUSED"
           /\ pc # "stopped" => state.termination_reason # NULL

Going == pc \in {"loop", "executing", "settling", "tail"}

\* The named parts of the invariant: counters stay low; a gate that has run
\* has left a verdict; while the loop goes on the run is not paused; a single
\* node that ends with the run marked as paused is the one that asked; every
\* state and every checkpoint the loop may go on from is whole; and no
\* deadlock has been reported.
LowCounts == Low(sched) /\ (saved # NULL => Low(saved.sched))
Verdicts  == \A n \in Node : Judges(n) /\ result[n] = "completed" => state.quality_passed # "unset"
Awake     == Going => status # "PAUSED"
Asking    == pc \in {"executing", "settling"} /\ ~grouped /\ state.termination_reason = "paused"
               => \E n \in Node : result[n] = "paused"
Gathered  == Going \/ pc \in {"final", "stopped", "recovered"} => Whole(sched) \/ GivenUp
SavedWhole == saved # NULL => Whole(saved.sched) \/ env.review_mode
Spared    == env.review_mode => pc # "down"
NoCause   == state.cause # "deadlock" /\ (saved # NULL => saved.state.cause # "deadlock")

\* A run in review mode that has met a crash is not spoken of.
Sheltered == env.review_mode => env.crashes = 0

DInv == LowCounts /\ Verdicts /\ Awake /\ Asking /\ Gathered /\ SavedWhole /\ Spared /\ NoCause

LEMMA InitializeLow == Low(Initialize(StartNodes))
<1> SUFFICES ASSUME NEW m \in Node, \A e, f \in BlockingEdges(m) : e = f
             PROVE  Initialize(StartNodes).pending[m] <= 1
  BY DEF Low
<1>1. Cardinality(BlockingEdges(m)) \in {0, 1}
  <2>1. CASE BlockingEdges(m) = {}
    BY <2>1, FS_EmptySet
  <2>2. CASE BlockingEdges(m) # {}
    <3>1. PICK e : BlockingEdges(m) = {e}
      BY <2>2
    <3> QED BY <3>1, FS_Singleton
  <2> QED BY <2>1, <2>2
<1>2. m \in Id /\ m # END_NODE_ID
  BY EdgeEnds DEF Id
<1>3. Initialize(StartNodes).pending[m] \in {0, Cardinality(BlockingEdges(m))}
  BY <1>2 DEF Initialize, InitializedFrom
<1> QED
  BY <1>1, <1>3

\* Every counter is lowered, or set to zero from below.
LEMMA CompletedLow ==
  ASSUME NEW s \in SchedulerState, NEW n, NEW success \in BOOLEAN, Low(s)
  PROVE  Low(Completed(s, n, success))
<1> DEFINE t == Completed(s, n, success)
<1>1. CASE success
  <2> DEFINE released == {e.to_node : e \in {f \in EdgesFrom(n) :
                            f.edge_type \notin {"conditional", "loop_back"}}} \ {END_NODE_ID}
             pending == [m \in Id |-> IF m \in released THEN s.pending[m] - 1 ELSE s.pending[m]]
             freed   == {m \in released : pending[m] <= 0
                            /\ m \notin (s.completed \cup {n}) \cup (s.running \ {n})}
  <2>1. t = [s EXCEPT !.running = s.running \ {n}, !.completed = s.completed \cup {n},
                      !.pending = pending, !.ready = @ \cup freed]
    BY <1>1 DEF Completed, Succeeded
  <2>2. \A m \in Node : s.pending[m] <= 1 => pending[m] <= 1
    BY DEF SchedulerState, Id
  <2> HIDE DEF pending, freed, released, t
  <2>3. t.pending = pending
    BY <2>1 DEF SchedulerState
  <2> QED BY <2>2, <2>3 DEF Low, t
<1>2. CASE ~success
  <2> DEFINE handlers == {e.to_node : e \in {f \in EdgesFrom(n) : f.edge_type = "error"}}
             lowered(m) == IF s.pending[m] > 1 THEN s.pending[m] - 1 ELSE 0
             pending == [m \in Id |-> IF m \in handlers THEN lowered(m) ELSE s.pending[m]]
             freed   == {m \in handlers : pending[m] <= 0 /\ m \notin s.completed}
  <2>1. t = [s EXCEPT !.running = @ \ {n}, !.failed = @ \cup {n}, !.pending = pending,
                      !.ready = @ \cup freed]
    BY <1>2 DEF Completed, Failed
  <2>2. \A m \in Node : s.pending[m] <= 1 => pending[m] <= 1
    BY DEF SchedulerState, Id
  <2> HIDE DEF pending, freed, handlers, t
  <2>3. t.pending = pending
    BY <2>1 DEF SchedulerState
  <2> QED BY <2>2, <2>3 DEF Low, t
<1> QED
  BY <1>1, <1>2

\* A refused phase: its agent is ready again, or what follows the gate is, or
\* the run is given up.
LEMMA RequeuedCarries ==
  ASSUME Direct, NEW c \in Pair, NEW gate \in Node, NEW agent \in Node, IsRetry(gate, agent),
         Low(c.sched)
  PROVE  LET d == Requeued(c, gate, agent)
         IN  /\ Low(d.sched) /\ d.sched.failed = c.sched.failed
             /\ d.state.quality_passed = c.state.quality_passed
             /\ d.state.termination_reason \in {c.state.termination_reason, "error"}
             /\ d.state.cause \in {c.state.cause, "retry_exhausted"}
             /\ Carried(c.sched, gate) =>
                  \/ Carried(d.sched, NULL)
                  \/ env.review_mode /\ d.state.termination_reason = "error"
<1> DEFINE attempt == c.state.retries[gate] + 1
           counted == [c EXCEPT !.state.retries[gate] = attempt]
<1>1. c.sched \in SchedulerState /\ c.state \in GraphState /\ c.state.retries \in [Node -> Nat]
  BY DEF Pair, GraphState
<1>2. counted = [sched |-> c.sched,
                 state |-> [c.state EXCEPT !.retries = [c.state.retries EXCEPT ![gate] = attempt]]]
  BY DEF Pair, GraphState
<1>3. [c.state.retries EXCEPT ![gate] = attempt] \in [Node -> Nat]
  BY <1>1
<1>4. counted.state \in GraphState /\ SameMarks(c.state, counted.state)
  BY <1>1, <1>2, <1>3 DEF GraphState, SameMarks, SameNodes
<1>5. counted \in Pair /\ counted.sched = c.sched
  BY <1>1, <1>2, <1>4 DEF Pair
<1>6. /\ \A n \in Node : Leads(n, gate) => n = agent
      /\ \A n \in Node : Leads(agent, n) => n = gate
      /\ \A n \in Node : Leads(gate, n) => \A e, f \in BlockingEdges(n) : e = f
      /\ gate \notin Initialize(StartNodes).ready
  BY Zenon DEF Direct
<1> HIDE DEF counted
<1>7. CASE attempt <= MaxRetries
  <2> DEFINE d == RetryAgain(counted, gate, agent)
  <2>1. Requeued(c, gate, agent) = d
    BY <1>7 DEF Requeued, counted
  <2>2. Repeats(counted, d, gate, agent)
    BY <1>5, RetryAgainKeeps
  <2> HIDE DEF d
  <2>3. Low(d.sched)
    BY <2>2, <1>5 DEF Low, Repeats
  <2>4. ASSUME Carried(c.sched, gate) PROVE Carried(d.sched, NULL)
    <3>1. \A m \in Placed(c.sched) : m \in Placed(d.sched) \/ m = gate
      BY <2>2, <1>5 DEF Repeats, Placed, Done
    <3>2. agent \in Placed(d.sched)
      BY <2>2 DEF Repeats, Placed
    <3>3. ASSUME NEW n \in d.sched.completed \cap Node, NEW m \in Node, Leads(n, m)
          PROVE  m \in Placed(d.sched)
      <4>1. n \in c.sched.completed /\ n # agent /\ n # gate
        BY <3>3, <2>2, <1>5 DEF Repeats
      <4>2. m \in Placed(c.sched) /\ m # gate
        BY <4>1, <3>3, <2>4, <1>6 DEF Carried
      <4> QED BY <4>2, <3>1
    <3> QED BY <2>4, <3>1, <3>3, <1>6 DEF Carried
  <2> QED
    BY <2>1, <2>2, <2>3, <2>4, <1>4, <1>5 DEF Repeats, SameMarks
<1>8. CASE ~(attempt <= MaxRetries) /\ env.review_mode
  <2> DEFINE g == Marked(counted.state, "error", "retry_exhausted")
             d == [counted EXCEPT !.state = g]
  <2>1. Requeued(c, gate, agent) = d
    BY <1>8 DEF Requeued, counted
  <2>2. /\ g.termination_reason = "error" /\ g.quality_passed = counted.state.quality_passed
        /\ g.cause = "retry_exhausted"
    BY <1>4 DEF Marked, GraphState
  <2> HIDE DEF g
  <2>3. d.sched = c.sched /\ d.state = g
    BY <1>5 DEF Pair
  <2> QED
    BY <2>1, <2>2, <2>3, <1>4, <1>8 DEF SameMarks
<1>9. CASE ~(attempt <= MaxRetries) /\ ~env.review_mode
  <2> DEFINE d == SkipPhase(counted, gate, agent)
  <2>1. Requeued(c, gate, agent) = d
    BY <1>9 DEF Requeued, counted
  <2>2. Skips(counted, d, gate, agent)
    BY <1>5, SkipPhaseType
  <2> HIDE DEF d
  <2>3. Low(d.sched)
    <3> SUFFICES ASSUME NEW m \in Node, \A e, f \in BlockingEdges(m) : e = f
                 PROVE  d.sched.pending[m] <= 1
      BY DEF Low
    <3>1. m \in Id /\ c.sched.pending[m] <= 1
      BY DEF Low, Id
    <3> QED BY <3>1, <2>2, <1>5 DEF Skips
  <2>4. ASSUME Carried(c.sched, gate) PROVE Carried(d.sched, NULL)
    <3>1. Placed(c.sched) \subseteq Placed(d.sched)
      BY <2>2, <1>5 DEF Skips, Placed, Done
    <3>2. ASSUME NEW n \in d.sched.completed \cap Node, NEW m \in Node, Leads(n, m)
          PROVE  m \in Placed(d.sched)
      <4>1. CASE n = agent
        BY <4>1, <3>2, <1>6, <2>2 DEF Skips, Placed, Done
      <4>2. CASE n = gate
        <5>1. m \in Id /\ c.sched.pending[m] <= 1 /\ m \in Successors(gate)
          BY <4>2, <3>2, <1>6 DEF Low, Leads, Id
        <5>2. m \in d.sched.completed \/ m \in d.sched.ready
          BY <5>1, <2>2, <1>5 DEF Skips
        <5> QED BY <5>2 DEF Placed, Done
      <4>3. CASE n # agent /\ n # gate
        <5>1. n \in c.sched.completed
          BY <4>3, <3>2, <2>2, <1>5 DEF Skips
        <5> QED BY <5>1, <4>3, <3>1, <3>2, <2>4 DEF Carried
      <4> QED BY <4>1, <4>2, <4>3
    <3> QED BY <2>4, <3>1, <3>2 DEF Carried
  <2> QED
    BY <2>1, <2>2, <2>3, <2>4, <1>4, <1>5 DEF Skips, SameMarks
<1> QED
  BY <1>7, <1>8, <1>9

\* Routing a node: with a verdict, what it leads to has a place or the
\* phase is refused.
LEMMA RoutedCarries ==
  ASSUME Direct, NEW c \in Pair, NEW n \in Node, NEW holding, Low(c.sched)
  PROVE  LET d == Routed(c, n, holding)
         IN  /\ Low(d.sched) /\ d.sched.failed = c.sched.failed
             /\ d.state.quality_passed = c.state.quality_passed
             /\ d.state.termination_reason \in {c.state.termination_reason, "completed", "error"}
             /\ d.state.cause \in {c.state.cause, "reached_end", "retry_exhausted"}
             /\ /\ Carried(c.sched, n)
                /\ Carried(c.sched, NULL) \/ ~Judges(n) \/ c.state.quality_passed # "unset"
                => \/ Carried(d.sched, NULL)
                   \/ env.review_mode /\ d.state.termination_reason = "error"
<1> DEFINE targets   == Resolved(n, c.state, holding)
           back      == {t \in targets : HasEdge(n, t, "loop_back")}
           defensive == targets = {} /\ Kind[n] = "quality_gate" /\ c.state.quality_passed # "fail"
           ahead     == IF defensive
                        THEN {t \in Successors(n) : ~HasEdge(n, t, "loop_back")}
                        ELSE targets \ back
           ready     == c.sched.ready \cup (ahead \ ({END_NODE_ID} \cup c.sched.completed \cup c.sched.running))
           s         == [c.sched EXCEPT !.ready = ready]
           forward   == [c EXCEPT !.sched = s]
           g         == Marked(c.state, "completed", "reached_end")
           ended     == IF END_NODE_ID \in ahead
                        THEN [forward EXCEPT !.state = Marked(@, "completed", "reached_end")]
                        ELSE forward
           again     == CHOOSE t \in back : TRUE
<1>1. Routed(c, n, holding) = IF back = {} THEN ended ELSE Requeued(ended, n, again)
  BY Zenon DEF Routed, ScheduledNext
<1>2. targets \subseteq Successors(n) \ {END_NODE_ID}
  BY DEF Resolved, Successors
<1>3. back # {} => again \in Node /\ IsRetry(n, again)
  <2>1. back # {} => again \in back
    <3> HIDE DEF back
    <3> QED BY Zenon
  <2> QED BY <2>1, <1>2, EdgeEnds DEF IsRetry, Id
\* Without a refusal every edge to a node is taken.
<1>4. ASSUME back = {}, ~Judges(n) \/ c.state.quality_passed # "unset",
             NEW m \in Node, Leads(n, m)
      PROVE  m \in ahead
  <2>1. PICK e \in EdgesFrom(n) : e.to_node = m /\ e.edge_type # "loop_back"
    BY <1>4 DEF Leads, HasEdge, Successors
  <2>2. e \in Edges /\ e.from_node = n /\ m # END_NODE_ID /\ e.edge_type # "default"
    BY <2>1, EdgeEnds DEF EdgesFrom, Direct
  <2>3. CASE e.condition = "none" \/ e.edge_type \in {"always", "parallel_join"}
    BY <2>1, <2>2, <2>3, <1>4 DEF Resolved, Traversed
  <2>4. CASE e.condition = "passed" /\ Judges(n) /\ \E agent \in Node : IsRetry(n, agent)
    <3>1. PICK agent \in Node : IsRetry(n, agent)
      BY <2>4
    <3>2. PICK f \in EdgesFrom(n) : f.to_node = agent /\ f.edge_type = "loop_back"
      BY <3>1 DEF IsRetry, HasEdge
    <3>3. f.condition = "not_passed" /\ agent # END_NODE_ID
      BY <3>2, EdgeEnds DEF Direct, EdgesFrom
    <3>4. c.state.quality_passed = "fail" => agent \in back
      BY <3>2, <3>3 DEF Resolved, Traversed, HasEdge
    <3>5. c.state.quality_passed = "pass"
      BY <3>4, <2>4, <1>4 DEF Pair, GraphState
    <3>6. m \in targets
      BY <2>1, <2>2, <2>4, <3>5 DEF Resolved, Traversed
    <3> QED BY <3>6, <1>4
  <2> QED BY <2>2, <2>3, <2>4, <2>1 DEF Direct
<1>5. ahead \subseteq Successors(n)
  BY <1>2
<1>6. /\ c.sched \in SchedulerState /\ c.state \in GraphState
      /\ c = [sched |-> c.sched, state |-> c.state]
  BY DEF Pair
<1> HIDE DEF targets, back, ahead, again
<1>7. ready \subseteq Id
  BY <1>5, <1>6, EdgeEnds DEF SchedulerState
<1>8. /\ c.sched.ready \subseteq ready
      /\ \A m \in Node : m \in ahead => m \in ready \cup c.sched.completed \cup c.sched.running
  BY EdgeEnds
<1> HIDE DEF ready
<1>9. /\ s \in SchedulerState /\ s.ready = ready /\ s.running = c.sched.running
      /\ s.completed = c.sched.completed /\ s.failed = c.sched.failed
      /\ s.pending = c.sched.pending
  BY <1>6, <1>7 DEF SchedulerState
<1> HIDE DEF s
<1>10. forward = [sched |-> s, state |-> c.state]
  BY <1>6, PairUpdate
<1>11. /\ g \in GraphState /\ g.termination_reason = "completed" /\ g.cause = "reached_end"
       /\ g.quality_passed = c.state.quality_passed
  <2>1. g \in GraphState
    BY <1>6, MarkedType DEF Reason, Cause
  <2> QED BY <2>1, <1>6 DEF Marked, GraphState
<1>12. forward.state = c.state
  BY <1>10
<1> HIDE DEF forward
<1>13. [forward EXCEPT !.state = g] = [sched |-> s, state |-> g]
  <2> HIDE DEF g
  <2> QED BY <1>10, PairUpdate
<1>14. ended = IF END_NODE_ID \in ahead THEN [sched |-> s, state |-> g] ELSE [sched |-> s, state |-> c.state]
  BY <1>10, <1>12, <1>13
<1> HIDE DEF ended, g
<1>15. /\ ended \in Pair /\ ended.sched = s
       /\ ended.state.quality_passed = c.state.quality_passed
       /\ ended.state.termination_reason \in {c.state.termination_reason, "completed"}
       /\ ended.state.cause \in {c.state.cause, "reached_end"}
  BY <1>6, <1>9, <1>11, <1>14 DEF Pair
<1>16. Low(s)
  BY <1>9 DEF Low
<1>17. Placed(c.sched) \subseteq Placed(s)
  BY <1>8, <1>9 DEF Placed, Done
<1>18. Carried(c.sched, n) => Carried(s, n)
  BY <1>9, <1>17 DEF Carried
<1>19. CASE back = {}
  <2>1. Routed(c, n, holding) = ended
    BY <1>1, <1>19
  <2>2. ASSUME Carried(c.sched, NULL) PROVE Carried(s, NULL)
    BY <2>2, <1>9, <1>17 DEF Carried
  <2>3. ASSUME Carried(c.sched, n), ~Judges(n) \/ c.state.quality_passed # "unset"
        PROVE  Carried(s, NULL)
    <3>1. \A m \in Node : Leads(n, m) => m \in Placed(s)
      BY <2>3, <1>4, <1>8, <1>9, <1>19 DEF Placed, Done
    <3> QED BY <2>3, <3>1, <1>18 DEF Carried
  <2> QED BY <2>1, <2>2, <2>3, <1>9, <1>15, <1>16
<1>20. CASE back # {}
  <2> DEFINE d == Requeued(ended, n, again)
  <2>1. /\ Low(d.sched) /\ d.sched.failed = s.failed
        /\ d.state.quality_passed = ended.state.quality_passed
        /\ d.state.termination_reason \in {ended.state.termination_reason, "error"}
        /\ d.state.cause \in {ended.state.cause, "retry_exhausted"}
        /\ Carried(s, n) =>
             \/ Carried(d.sched, NULL)
             \/ env.review_mode /\ d.state.termination_reason = "error"
    BY <1>3, <1>15, <1>16, <1>20, RequeuedCarries
  <2>2. Routed(c, n, holding) = d
    BY <1>1, <1>20
  <2> HIDE DEF d
  <2> QED BY <2>1, <2>2, <1>9, <1>15, <1>18
<1> QED
  BY <1>19, <1>20

LEMMA NullIsNothing ==
  /\ NULL \notin Node
  /\ NULL \notin {"completed", "error", "paused", "cancelled", "max_iterations", "deadlock"}
BY RuntimeAssumption DEF RuntimeAssumption

LEMMA CarriedLess == ASSUME NEW s, NEW n, Carried(s, NULL) PROVE Carried(s, n)
<1>1. \A m \in s.completed \cap Node : m # NULL
  BY NullIsNothing
<1> QED
  BY <1>1 DEF Carried

\* Every condition of a direct graph is a verdict.
LEMMA NoOther == ASSUME Direct, NEW n PROVE OtherEdges(n) = {}
BY DEF Direct, OtherEdges, EdgesFrom

\* While the loop goes on, a run that is given up has its reason.
LEMMA GoesOnWhole == DInv /\ GoesOn => Whole(sched) /\ status # "PAUSED"
BY DEF DInv, GoesOn, Gathered, GivenUp, Going, Awake

LEMMA InitDInv == Init => DInv
<1> SUFFICES ASSUME Init PROVE DInv
  OBVIOUS
<1>1. /\ pc = "created" /\ saved = NULL /\ state.cause = NULL
      /\ \A n \in Node : result[n] = "none" /\ sched.pending[n] = 0
  BY DEF Init, NoResult, InitialState, Id
<1> QED
  BY <1>1, NullIsNothing DEF DInv, LowCounts, Low, Verdicts, Awake, Asking, Gathered, SavedWhole,
     Spared, NoCause, Going

LEMMA ExecuteDInv == RInv /\ DInv /\ Execute => DInv'
<1> SUFFICES ASSUME RInv, DInv, Execute PROVE DInv'
  OBVIOUS
<1>1. /\ sched' = Initialize(StartNodes) /\ state' = InitialState /\ status' = "RUNNING"
      /\ pc' = "loop" /\ result' = NoResult
      /\ UNCHANGED <<grouped, saved, env>>
  BY DEF Execute, RInv, Results
<1>2. Low(sched')
  BY <1>1, InitializeLow
<1>3. Whole(sched')
  BY <1>1, InitializeFacts DEF Whole, Carried, Placed
<1>4. state'.cause # "deadlock"
  BY <1>1, NullIsNothing DEF InitialState
<1> QED
  BY <1>1, <1>2, <1>3, <1>4 DEF DInv, LowCounts, Verdicts, Awake, Asking, Gathered, SavedWhole,
     Spared, NoCause, Going, NoResult

\* With nothing ready and nothing running, a whole run has done all its nodes.
LEMMA WholeIsDone ==
  ASSUME Direct, NEW s \in SchedulerState, s.ready = {}, s.running = {}, s.failed = {},
         Carried(s, NULL)
  PROVE  IsComplete(s)
<1>1. Placed(s) = s.completed
  BY DEF Placed, Done
<1> DEFINE S == s.completed \cap Node
<1>2. Initialize(StartNodes).ready \subseteq S
  BY <1>1, InitialReady DEF Carried
<1>3. \A n \in S, m \in Node : Leads(n, m) => m \in S
  BY <1>1, NullIsNothing DEF Carried
<1>4. S = Node
  <2> HIDE DEF S
  <2>1. S \in SUBSET Node
    BY DEF S
  <2> QED BY <1>2, <1>3, <2>1, Zenon DEF Direct
<1>5. IsFiniteSet(s.completed)
  <2>1. IsFiniteSet(Node \cup {END_NODE_ID})
    BY FS_AddElement, GraphAssumption DEF GraphAssumption
  <2> QED BY <2>1, FS_Subset DEF SchedulerState, Id
<1>6. /\ Cardinality(Node) \in Nat /\ Cardinality(s.completed) \in Nat
      /\ Cardinality(Node) <= Cardinality(s.completed)
  BY <1>4, <1>5, FS_Subset, FS_CardinalityType
<1>7. Cardinality(s.failed) = 0
  BY FS_EmptySet
<1> QED
  BY <1>6, <1>7 DEF IsComplete

\* The ways out of the loop keep the scheduler, and a pause is honoured only
\* while nothing has been given up.
LEMMA LeaveDInv ==
  Direct /\ RInv /\ DInv /\ (StopTerminated \/ StopAtLimit \/ HonourCancel \/ HonourPause
                   \/ NothingLeft \/ NothingEligible) => DInv'
<1> SUFFICES ASSUME Direct, RInv, DInv, StopTerminated \/ StopAtLimit \/ HonourCancel \/ HonourPause
                                \/ NothingLeft \/ NothingEligible
             PROVE  DInv'
  OBVIOUS
<1>1. /\ pc = "loop" /\ pc' = "final"
      /\ UNCHANGED <<sched, result, grouped, saved, env>>
  BY DEF StopTerminated, StopAtLimit, HonourCancel, HonourPause, NothingLeft, NothingEligible,
         GoesOn, Undisturbed
<1>2. sched \in SchedulerState /\ state \in GraphState
  BY DEF RInv, TypeOK
<1>3. Whole(sched') \/ GivenUp'
  <2>1. CASE StopTerminated
    BY <2>1, <1>1 DEF StopTerminated, DInv, Gathered, Going, GivenUp, Awake
  <2>2. CASE StopAtLimit
    BY <2>2, <1>1 DEF StopAtLimit, DInv, Gathered, Going, GivenUp
  <2>3. CASE HonourCancel \/ HonourPause \/ NothingLeft \/ NothingEligible
    BY <2>3, <1>1, GoesOnWhole DEF HonourCancel, HonourPause, NothingLeft, NothingEligible,
       Undisturbed
  <2> QED BY <2>1, <2>2, <2>3
<1>4. state'.quality_passed = state.quality_passed /\ state'.cause # "deadlock"
  <2>1. CASE NothingLeft
    <3>1. Whole(sched) /\ sched.ready = {} /\ sched.running = {}
      BY <2>1, GoesOnWhole DEF NothingLeft, Undisturbed
    <3>2. sched.failed # {} \/ IsComplete(sched)
      BY <3>1, <1>2, WholeIsDone DEF Whole
    <3> QED BY <3>2, <2>1, <1>2 DEF NothingLeft, Marked, GraphState
  <2>2. CASE StopTerminated \/ HonourPause \/ NothingEligible
    BY <2>2 DEF StopTerminated, HonourPause, NothingEligible, DInv, NoCause
  <2>3. CASE StopAtLimit \/ HonourCancel
    BY <2>3, <1>2 DEF StopAtLimit, HonourCancel, Marked, GraphState
  <2> QED BY <2>1, <2>2, <2>3
<1> QED
  BY <1>1, <1>3, <1>4 DEF DInv, LowCounts, Verdicts, Awake, Asking, Gathered, SavedWhole,
     Spared, NoCause, Going

LEMMA MissingDInv == RInv /\ DInv /\ DispatchMissing => DInv'
<1> SUFFICES ASSUME RInv, DInv, DispatchMissing PROVE DInv'
  OBVIOUS
<1> DEFINE s == Dispatched(sched, {END_NODE_ID})
<1>1. /\ sched' = Failed(s, END_NODE_ID) /\ pc = "loop" /\ GoesOn
      /\ UNCHANGED <<state, status, pc, result, grouped, saved, env>>
  BY DEF DispatchMissing, Undisturbed, GoesOn
<1>2. sched \in SchedulerState
  BY DEF RInv, TypeOK
<1>3. s \in SchedulerState /\ s.pending = sched.pending
  BY <1>2 DEF Dispatched, SchedulerState, Id
<1>4. Low(sched) /\ Low(s)
  BY <1>3 DEF DInv, LowCounts, Low
<1>5. Low(sched')
  <2> HIDE DEF s
  <2>1. Low(Completed(s, END_NODE_ID, FALSE))
    BY <1>3, <1>4, CompletedLow
  <2> QED BY <2>1, <1>1 DEF Completed
<1>6. Whole(sched')
  BY <1>1, <1>2, MissingFacts DEF Whole
<1> QED
  BY <1>1, <1>5, <1>6 DEF DInv, LowCounts, Verdicts, Awake, Asking, Gathered, SavedWhole,
     Spared, NoCause, Going

LEMMA ScheduleDInv == RInv /\ DInv /\ Schedule => DInv'
<1> SUFFICES ASSUME RInv, DInv, Schedule PROVE DInv'
  OBVIOUS
<1>1. PICK eligible \in Eligible : \E batch \in Batches(eligible) :
        /\ sched' = Dispatched(sched, batch)
        /\ \E last \in batch \ {END_NODE_ID} : state' = [state EXCEPT !.current_node_id = last]
  BY DEF Schedule
<1>2. PICK batch \in Batches(eligible) :
        /\ sched' = Dispatched(sched, batch)
        /\ \E last \in batch \ {END_NODE_ID} : state' = [state EXCEPT !.current_node_id = last]
  BY <1>1
<1>3. /\ pc' = "executing" /\ state.termination_reason = NULL
      /\ UNCHANGED <<status, result, saved, env>> /\ Whole(sched) /\ status # "PAUSED"
  BY GoesOnWhole DEF Schedule, Undisturbed, GoesOn
<1>4. sched \in SchedulerState /\ state \in GraphState /\ batch \subseteq sched.ready
  BY BatchFacts DEF RInv, TypeOK, Eligible
<1>5. /\ sched'.pending = sched.pending /\ sched'.completed = sched.completed
      /\ sched'.failed = sched.failed /\ Placed(sched') = Placed(sched)
  BY <1>2, <1>4 DEF Dispatched, SchedulerState, Placed, Done
<1>6. Low(sched') /\ Whole(sched')
  BY <1>3, <1>5 DEF DInv, LowCounts, Low, Whole, Carried
<1>7. /\ state'.termination_reason = NULL /\ state'.cause = state.cause
      /\ state'.quality_passed = state.quality_passed
  BY <1>2, <1>3, <1>4 DEF GraphState
<1> QED
  BY <1>3, <1>6, <1>7, NullIsNothing DEF DInv, LowCounts, Verdicts, Awake, Asking, Gathered,
     SavedWhole, Spared, NoCause, Going

\* A node that ends leaves the scheduler alone; a gate leaves its verdict.
LEMMA FinishDInv ==
  ASSUME Direct, RInv, DInv, NEW n \in Node, FinishNode(n)
  PROVE  DInv'
<1> DEFINE Ended(outcome, g) ==
             /\ Finish(n, outcome, g) /\ g \in GraphState
             /\ g.cause # "deadlock"
             /\ state.quality_passed # "unset" => g.quality_passed # "unset"
             /\ Judges(n) /\ outcome = "completed" => g.quality_passed # "unset"
             /\ \/ g.termination_reason = state.termination_reason
                \/ g.termination_reason = "paused" /\ outcome = "paused"
<1>1. state \in GraphState /\ state.cause # "deadlock" /\ result \in [Node -> Outcome]
  BY DEF RInv, TypeOK, DInv, NoCause
<1>2. \E outcome \in Outcome, g \in GraphState : Ended(outcome, g)
  <2>1. ASSUME NEW verdict \in {"pass", "fail"}, JudgeOutput(n, verdict)
        PROVE  Ended("completed", [state EXCEPT !.quality_passed = verdict])
    <3>1. Finish(n, "completed", [state EXCEPT !.quality_passed = verdict])
      BY <2>1 DEF JudgeOutput
    <3> QED BY <3>1, <1>1 DEF GraphState
  <2>2. ASSUME GateFails(n) PROVE \E g \in GraphState : Ended("failed", g)
    <3>1. PICK written \in {state.quality_passed, "pass", "fail"} :
            Finish(n, "failed", [state EXCEPT !.quality_passed = written])
      BY <2>2 DEF GateFails
    <3>2. Ended("failed", [state EXCEPT !.quality_passed = written])
      BY <3>1, <1>1 DEF GraphState
    <3> QED BY <3>2
  <2>3. ASSUME AskHuman(n)
        PROVE  Ended("paused", [Marked(state, "paused", "awaiting_user") EXCEPT !.pause_context = n])
    <3>1. [Marked(state, "paused", "awaiting_user") EXCEPT !.pause_context = n] \in GraphState
      BY <1>1 DEF Marked, GraphState, Reason, Cause
    <3> QED BY <2>3, <3>1, <1>1 DEF AskHuman, Marked, GraphState
  <2>4. ASSUME CountLoop(n)
        PROVE  Ended("completed", [state EXCEPT !.iteration_count = @ + 1])
    <3>1. ~Judges(n)
      BY <2>4 DEF CountLoop, Judges
    <3>2. Finish(n, "completed", [state EXCEPT !.iteration_count = @ + 1])
      BY <2>4 DEF CountLoop
    <3> QED BY <3>1, <3>2, <1>1 DEF GraphState
  <2>5. ASSUME Work(n) PROVE Ended("completed", state) \/ Ended("failed", state)
    BY <2>5, <1>1 DEF Work
  <2>6. {"completed", "failed", "paused"} \subseteq Outcome
    BY DEF Outcome
  <2> HIDE DEF Ended
  <2>7. \A outcome, g : Ended(outcome, g) => g \in GraphState
    BY DEF Ended
  <2> QED
    BY <1>1, <2>1, <2>2, <2>3, <2>4, <2>5, <2>6, <2>7 DEF FinishNode, AskAdaptive, Direct
<1>3. PICK outcome \in Outcome, g \in GraphState : Ended(outcome, g)
  BY <1>2
<1>4. /\ pc = "executing" /\ pc' \in {"executing", "settling"} /\ result[n] = "none"
      /\ result' = [result EXCEPT ![n] = outcome]
      /\ state'.quality_passed = g.quality_passed
      /\ state'.termination_reason = g.termination_reason /\ state'.cause = g.cause
      /\ UNCHANGED <<sched, status, grouped, saved, env>>
  BY <1>3 DEF Finish, Recorded, GraphState
<1>5. Verdicts'
  BY <1>1, <1>3, <1>4 DEF Verdicts, DInv
<1>6. Asking'
  BY <1>1, <1>3, <1>4 DEF Asking, DInv
<1>7. state.termination_reason # NULL => state'.termination_reason # NULL
  BY <1>3, <1>4, NullIsNothing
<1>8. (Whole(sched) \/ GivenUp)'
  BY <1>4, <1>7 DEF DInv, Gathered, Going, GivenUp
<1> QED
  BY <1>3, <1>4, <1>5, <1>6, <1>8 DEF DInv, LowCounts, Awake, Gathered, SavedWhole, Spared,
     NoCause, Going

\* The node that asked has not completed, and is among the failed.
LEMMA SettlePausedDInv ==
  ASSUME RInv, DInv, NEW n \in Node, SettlePaused(n)
  PROVE  DInv'
<1>1. /\ pc = "settling" /\ pc' = "final" /\ ~grouped /\ result[n] # "none"
      /\ result[n] = "paused" \/ state.termination_reason = "paused"
      /\ sched' = Completed(sched, n, result[n] = "completed")
      /\ result' = NoResult
      /\ UNCHANGED <<state, grouped, saved, env>>
  BY DEF SettlePaused, PausesRun
<1>2. result[n] = "paused"
  <2>1. \E m \in Node : result[m] = "paused"
    BY <1>1 DEF DInv, Asking
  <2>2. \A m \in Node : result[m] # "none" => m = n
    BY <1>1 DEF RInv, Results, OneBatch
  <2> QED BY <2>1, <2>2
<1>3. sched \in SchedulerState /\ Low(sched)
  BY DEF RInv, TypeOK, DInv, LowCounts
<1>4. sched' = Completed(sched, n, FALSE)
  BY <1>1, <1>2
<1>5. Low(sched')
  BY <1>3, <1>4, CompletedLow
<1>6. Ends(sched, sched', n, FALSE)
  BY <1>3, <1>4, CompletedEnds
<1>7. Whole(sched')
  BY <1>6 DEF Ends, Whole
<1> QED
  BY <1>1, <1>5, <1>7 DEF DInv, LowCounts, Verdicts, Awake, Asking, Gathered, SavedWhole,
     Spared, NoCause, Going, NoResult

\* A node is settled: it failed, or what it leads to has a place, or its phase
\* runs again, is skipped, or is given up.
LEMMA SettleDInv ==
  ASSUME Direct, RInv, DInv, NEW n \in Node, Settle(n)
  PROVE  DInv'
<1>1. PICK holding \in SUBSET OtherEdges(n) :
        LET c == Routed([sched |-> Completed(sched, n, result[n] = "completed"),
                         state |-> state], n, holding)
        IN  sched' = c.sched /\ state' = c.state
  BY DEF Settle
<1>2. /\ pc = "settling" /\ pc' \in {"settling", "tail"} /\ result[n] # "none"
      /\ result' = [result EXCEPT ![n] = "none"]
      /\ pc' = "settling" => result' # NoResult
      /\ UNCHANGED <<status, grouped, saved, env>>
  BY DEF Settle
<1> DEFINE success == result[n] = "completed"
           s == Completed(sched, n, success)
           a == [sched |-> s, state |-> state]
           d == Routed(a, n, holding)
<1>3. sched \in SchedulerState /\ Low(sched) /\ state \in GraphState /\ result \in [Node -> Outcome]
  BY DEF RInv, TypeOK, DInv, LowCounts
<1>4. s \in SchedulerState /\ Ends(sched, s, n, success) /\ Low(s)
  BY <1>3, CompletedEnds, CompletedLow
<1>5. sched' = d.sched /\ state' = d.state
  BY <1>1
<1> HIDE DEF s
<1>6. a \in Pair /\ a.sched = s /\ a.state = state
  BY <1>3, <1>4 DEF Pair
<1> HIDE DEF a
<1>7. /\ Low(d.sched) /\ d.sched.failed = s.failed
      /\ d.state.quality_passed = state.quality_passed
      /\ d.state.termination_reason \in {state.termination_reason, "completed", "error"}
      /\ d.state.cause \in {state.cause, "reached_end", "retry_exhausted"}
      /\ /\ Carried(s, n)
         /\ Carried(s, NULL) \/ ~Judges(n) \/ state.quality_passed # "unset"
         => \/ Carried(d.sched, NULL)
            \/ env.review_mode /\ d.state.termination_reason = "error"
  BY <1>4, <1>6, RoutedCarries
<1> HIDE DEF d
<1>8. state.termination_reason # NULL => state'.termination_reason # NULL
  BY <1>5, <1>7, NullIsNothing
<1>9. status # "PAUSED" /\ (Whole(sched) \/ GivenUp)
  BY <1>2 DEF DInv, Awake, Gathered, Going
<1>10. (Whole(sched) \/ GivenUp)'
  <2>1. CASE GivenUp
    BY <2>1, <1>2, <1>8 DEF GivenUp
  <2>2. CASE sched.failed # {} \/ ~success
    <3>1. s.failed # {}
      BY <2>2, <1>4 DEF Ends
    <3> QED BY <3>1, <1>5, <1>7 DEF Whole
  <2>3. CASE Carried(sched, NULL) /\ success
    <3>1. Placed(sched) \subseteq Placed(s) /\ s.completed = sched.completed \cup {n}
      BY <2>3, <1>4 DEF Ends, Placed, Done
    <3>2. Carried(s, n)
      BY <3>1, <2>3, NullIsNothing DEF Carried
    <3>3. Judges(n) => state.quality_passed # "unset"
      BY <2>3 DEF DInv, Verdicts
    <3>4. Carried(d.sched, NULL) \/ (env.review_mode /\ d.state.termination_reason = "error")
      BY <3>2, <3>3, <1>7
    <3> QED BY <3>4, <1>2, <1>5, <1>9, NullIsNothing DEF Whole, GivenUp
  <2> QED BY <2>1, <2>2, <2>3, <1>9 DEF Whole
<1>11. Asking'
  <2>1. ~(pc' = "settling" /\ ~grouped)
    <3> SUFFICES ASSUME ~grouped PROVE result' = NoResult
      BY <1>2
    <3>1. \A m \in Node : result[m] # "none" => m = n
      BY <1>2 DEF RInv, Results, OneBatch
    <3> QED BY <3>1, <1>2, <1>3 DEF NoResult
  <2> QED BY <2>1, <1>2 DEF Asking
<1>12. Verdicts'
  BY <1>2, <1>3, <1>5, <1>7 DEF Verdicts, DInv
<1> QED
  BY <1>2, <1>5, <1>7, <1>9, <1>10, <1>11, <1>12 DEF DInv, LowCounts, Awake, Gathered,
     SavedWhole, Spared, NoCause, Going

\* A checkpoint is whole if the run is.
LEMMA SaveWhole ==
  ASSUME RInv, DInv, pc \in {"tail", "final"}, SaveCheckpoint(state), UNCHANGED env
  PROVE  SavedWhole' /\ (saved' # NULL => Low(saved'.sched) /\ saved'.state.cause # "deadlock")
<1>1. CASE saved' = saved
  BY <1>1 DEF DInv, SavedWhole, LowCounts, NoCause
<1>2. CASE saved' = [sched |-> Restored(sched), state |-> state, control |-> control]
  <2>1. /\ Restored(sched).ready = sched.ready /\ Restored(sched).completed = sched.completed
        /\ Restored(sched).failed = sched.failed /\ Restored(sched).pending = sched.pending
    BY DEF RInv, TypeOK, Restored, SchedulerState
  <2>2. \A m \in Placed(sched) \cap Node : m \in Placed(Restored(sched))
    BY <2>1 DEF RInv, Quiet, Flight, Placed, Done
  <2>3. Whole(sched) => Whole(Restored(sched))
    BY <2>1, <2>2, InitialReady DEF Whole, Carried
  <2>4. Whole(sched) \/ env.review_mode
    BY DEF DInv, Gathered, Going, GivenUp
  <2>5. saved'.sched = Restored(sched) /\ saved'.state = state
    BY <1>2
  <2> QED BY <2>1, <2>3, <2>4, <2>5 DEF DInv, SavedWhole, LowCounts, Low, NoCause
<1> QED
  BY <1>1, <1>2 DEF SaveCheckpoint

LEMMA TailDInv == RInv /\ DInv /\ Tail => DInv'
<1> SUFFICES ASSUME RInv, DInv, Tail PROVE DInv'
  OBVIOUS
<1>1. /\ pc = "tail" /\ pc' \in {"loop", "final"}
      /\ UNCHANGED <<sched, status, result, grouped, env>>
      /\ SaveCheckpoint(state) \/ saved' = saved
  BY DEF Tail
<1>2. SavedWhole' /\ (saved' # NULL => Low(saved'.sched) /\ saved'.state.cause # "deadlock")
  BY <1>1, SaveWhole DEF DInv, SavedWhole, LowCounts, NoCause
<1>3. /\ state'.quality_passed = state.quality_passed /\ state'.cause # "deadlock"
      /\ state'.termination_reason \in {state.termination_reason, "error"}
  BY DEF Tail, Marked, RInv, TypeOK, GraphState, DInv, NoCause
<1>4. (Whole(sched) \/ GivenUp)'
  BY <1>1, <1>3, NullIsNothing DEF DInv, Gathered, Going, GivenUp
<1> QED
  BY <1>1, <1>2, <1>3, <1>4 DEF DInv, LowCounts, Verdicts, Awake, Asking, Gathered, Spared,
     NoCause, Going

LEMMA FinalDInv == RInv /\ DInv /\ Final => DInv'
<1> SUFFICES ASSUME RInv, DInv, Final PROVE DInv'
  OBVIOUS
<1>1. /\ pc = "final" /\ pc' = "stopped" /\ SaveCheckpoint(state)
      /\ status' = "PAUSED" => status = "PAUSED"
      /\ UNCHANGED <<sched, state, result, grouped, env>>
  BY DEF Final
<1>2. SavedWhole' /\ (saved' # NULL => Low(saved'.sched) /\ saved'.state.cause # "deadlock")
  BY <1>1, SaveWhole
<1>3. (Whole(sched) \/ GivenUp)'
  BY <1>1 DEF DInv, Gathered, GivenUp
<1> QED
  BY <1>1, <1>2, <1>3 DEF DInv, LowCounts, Verdicts, Awake, Asking, Gathered, Spared,
     NoCause, Going

\* resume() starts from a whole run: no run that is paused has been given up.
LEMMA ResumeDInv == Direct /\ RInv /\ DInv /\ Resume => DInv'
<1> SUFFICES ASSUME Direct, RInv, DInv, Resume PROVE DInv'
  OBVIOUS
<1>1. /\ pc \in {"stopped", "recovered"} /\ status = "PAUSED" /\ pc' = "loop"
      /\ status' = "RUNNING" /\ UNCHANGED <<result, grouped, saved, env>>
      /\ result = NoResult
  BY DEF Resume, RInv, Results
<1>2. sched \in SchedulerState /\ state \in GraphState /\ Low(sched) /\ Whole(sched)
  BY <1>1 DEF RInv, TypeOK, DInv, LowCounts, Gathered, GivenUp
<1>3. Reopened \in GraphState /\ Reopened.cause = NULL
  BY <1>2 DEF Reopened, Marked, GraphState, Reason, Cause
<1>4. Low(sched') /\ state'.cause # "deadlock" /\ (Whole(sched) \/ GivenUp)'
  <2>1. CASE PausedNode = NULL
    BY <2>1, <1>2, <1>3, NullIsNothing DEF Resume
  <2>2. CASE PausedNode # NULL
    <3> DEFINE a == [sched |-> sched, state |-> Reopened]
               d(holding) == Routed(a, PausedNode, holding)
    <3>1. PICK holding \in SUBSET OtherEdges(PausedNode) :
            sched' = d(holding).sched /\ state' = d(holding).state
      BY <2>2 DEF Resume
    <3>2. PausedNode \in Node
      BY <2>2, <1>2 DEF PausedNode, GraphState
    <3>3. a \in Pair /\ a.sched = sched /\ a.state = Reopened
      BY <1>2, <1>3 DEF Pair
    <3> HIDE DEF a
    <3>4. /\ Low(d(holding).sched) /\ d(holding).sched.failed = sched.failed
          /\ d(holding).state.cause \in {NULL, "reached_end", "retry_exhausted"}
          /\ Carried(sched, PausedNode) /\ Carried(sched, NULL)
             => \/ Carried(d(holding).sched, NULL)
                \/ env.review_mode /\ d(holding).state.termination_reason = "error"
      BY <1>2, <1>3, <3>2, <3>3, RoutedCarries
    <3> HIDE DEF d
    <3>5. CASE sched.failed # {}
      BY <3>1, <3>4, <3>5, NullIsNothing DEF Whole
    <3>6. CASE Carried(sched, NULL)
      <4>1. \/ Carried(sched', NULL)
            \/ env.review_mode /\ state'.termination_reason = "error"
        BY <3>1, <3>4, <3>6, CarriedLess
      <4> QED BY <4>1, <1>1, <3>1, <3>4, NullIsNothing DEF Whole, GivenUp
    <3> QED BY <3>5, <3>6, <1>2 DEF Whole
  <2> QED BY <2>1, <2>2
<1> QED
  BY <1>1, <1>4 DEF DInv, LowCounts, Verdicts, Awake, Asking, Gathered, SavedWhole, Spared,
     NoCause, Going, NoResult

\* A cancel from outside names its reason; the other requests only set flags.
LEMMA RequestDInv == RInv /\ DInv /\ (RequestPause \/ RequestCancel \/ Cancel) => DInv'
<1> SUFFICES ASSUME RInv, DInv, RequestPause \/ RequestCancel \/ Cancel PROVE DInv'
  OBVIOUS
<1>1. /\ UNCHANGED <<sched, pc, result, grouped, saved>>
      /\ env'.review_mode = env.review_mode
  BY DEF RequestPause, RequestCancel, Cancel, Asked, RInv, TypeOK
<1>2. CASE UNCHANGED <<state, status>>
  BY <1>1, <1>2 DEF DInv, LowCounts, Verdicts, Awake, Asking, Gathered, SavedWhole, Spared,
     NoCause, Going, GivenUp
<1>3. CASE Cancel
  <2>1. /\ status' = "CANCELLED" /\ state'.termination_reason = "cancelled"
        /\ state'.cause = "cancel" /\ state'.quality_passed = state.quality_passed
    BY <1>3 DEF Cancel, Marked, RInv, TypeOK, GraphState
  <2>2. (Whole(sched) \/ GivenUp)' \/ ~(Whole(sched) \/ GivenUp)
    BY <1>1, <2>1, NullIsNothing DEF GivenUp
  <2> QED
    BY <1>1, <2>1, <2>2 DEF DInv, LowCounts, Verdicts, Awake, Asking, Gathered, SavedWhole, Spared,
       NoCause, Going
<1> QED
  BY <1>2, <1>3 DEF RequestPause, RequestCancel

\* A crash goes back to a checkpoint that is whole, a replay starts afresh.
LEMMA RestartDInv ==
  ASSUME RInv, DInv, Sheltered', Crash \/ Recover \/ \E n \in Node : ReplayFrom(n)
  PROVE  DInv'
<1>1. CASE Crash
  <2>1. /\ pc' = "down" /\ env' = [env EXCEPT !.crashes = @ + 1]
        /\ UNCHANGED <<sched, state, status, result, grouped, saved>>
    BY <1>1 DEF Crash
  <2>2. env'.review_mode = env.review_mode /\ env'.crashes # 0
    BY <2>1 DEF RInv, TypeOK
  <2>3. ~env.review_mode
    BY <2>2 DEF Sheltered
  <2> QED
    BY <2>1, <2>2, <2>3 DEF DInv, LowCounts, Verdicts, Awake, Asking, Gathered, SavedWhole, Spared, NoCause,
       Going
<1>2. CASE Recover
  <2>1. /\ pc = "down" /\ pc' = "recovered" /\ saved # NULL /\ sched' = saved.sched
        /\ state' = saved.state /\ result' = NoResult /\ UNCHANGED <<saved, env>>
    BY <1>2 DEF Recover
  <2>2. Whole(saved.sched)
    BY <2>1 DEF DInv, Spared, SavedWhole
  <2> QED
    BY <2>1, <2>2 DEF DInv, LowCounts, Verdicts, Awake, Asking, Gathered, SavedWhole, Spared,
       NoCause, Going, NoResult
<1>3. CASE \E n \in Node : ReplayFrom(n)
  <2>1. PICK n \in Node : ReplayFrom(n)
    BY <1>3
  <2>2. /\ pc' = "reset" /\ env'.review_mode = env.review_mode /\ result = NoResult
        /\ UNCHANGED <<result, grouped, saved>>
    BY <2>1 DEF ReplayFrom, RInv, TypeOK, Results
  <2>3. state'.cause = NULL
    BY <2>1 DEF ReplayFrom, ResetFromPhase, RInv, TypeOK, GraphState
  <2>4. \A m \in Id : sched'.pending[m] \in {0, sched.pending[m]}
    <3> DEFINE p == [m \in Id |-> IF m \in Downstream(n) THEN 0 ELSE sched.pending[m]]
    <3>1. sched'.pending = p
      BY <2>1 DEF ReplayFrom, ResetFromPhase, RInv, TypeOK, SchedulerState
    <3> QED BY <3>1
  <2>5. Low(sched')
    BY <2>4 DEF DInv, LowCounts, Low, Id
  <2> QED
    BY <2>2, <2>3, <2>5, NullIsNothing DEF DInv, LowCounts, Verdicts, Awake, Asking, Gathered,
       SavedWhole, Spared, NoCause, Going, NoResult
<1> QED
  BY <1>1, <1>2, <1>3

LEMMA NextDInv ==
  ASSUME Direct, RInv, DInv, Sheltered', [Next]_vars
  PROVE  DInv'
<1>1. \A n \in Node : ~RouteRaises(n)
  BY NoOther DEF RouteRaises
<1>2. ~ResumeRaises
  BY NoOther DEF ResumeRaises
<1>3. CASE \E n \in Node : FinishNode(n) \/ SettlePaused(n) \/ Settle(n)
  BY <1>3, FinishDInv, SettlePausedDInv, SettleDInv
<1>4. CASE UNCHANGED vars
  BY <1>4 DEF vars, DInv, LowCounts, Verdicts, Awake, Asking, Gathered, SavedWhole, Spared,
     NoCause, Going, GivenUp
<1> QED
  BY <1>1, <1>2, <1>3, <1>4, ExecuteDInv, LeaveDInv, MissingDInv, ScheduleDInv, TailDInv,
     FinalDInv, ResumeDInv, RequestDInv, RestartDInv
  DEF Next, MainLoop, Environment

\* Crashes are counted and the mode is fixed.
LEMMA ShelterEnds == RInv /\ [Next]_vars /\ Sheltered' => Sheltered
<1> SUFFICES ASSUME RInv, [Next]_vars, env'.review_mode => env'.crashes = 0, env.review_mode
             PROVE  env.crashes = 0
  BY DEF Sheltered
<1>1. env'.review_mode = env.review_mode
  BY ModeFixed
<1>2. env'.crashes = env.crashes \/ env'.crashes = env.crashes + 1
  <2>1. ASSUME NEW n \in Node, FinishNode(n) PROVE env' = env
    BY <2>1, FinishRetries
  <2>2. CASE \E n \in Node : FinishNode(n) \/ SettlePaused(n) \/ Settle(n) \/ RouteRaises(n)
    BY <2>1, <2>2 DEF SettlePaused, Settle, RouteRaises
  <2>3. CASE Execute \/ StopTerminated \/ StopAtLimit \/ HonourCancel \/ HonourPause \/ NothingLeft
             \/ NothingEligible \/ DispatchMissing \/ Schedule \/ Tail \/ Final
    BY <2>3 DEF Execute, StopTerminated, StopAtLimit, HonourCancel, HonourPause, NothingLeft,
       NothingEligible, DispatchMissing, Schedule, Tail, Final
  <2>4. CASE Environment
    BY <2>4 DEF Environment, Resume, ResumeRaises, RequestPause, RequestCancel, Cancel, Asked,
       Crash, Recover, ReplayFrom, RInv, TypeOK
  <2>5. CASE UNCHANGED vars
    BY <2>5 DEF vars
  <2> QED BY <2>2, <2>3, <2>4, <2>5 DEF Next, MainLoop
<1> QED
  BY <1>1, <1>2 DEF RInv, TypeOK

\* On a graph whose gates follow their agents directly, a refused output never
\* leaves a run with nothing to do: the agent runs again, the phase is skipped
\* and what follows the gate runs, or the run fails with its retries used up.
\* Through every pause, resume, cancel and replay, and through crashes; but
\* for a run in review mode that has met a crash, which may be recovered from
\* the checkpoint of its end, as a paused one, after it was given up.
THEOREM RetriesDoNotDeadlock ==
  ASSUME Direct
  PROVE  Spec => [](Sheltered => RetryNotDeadlock)
<1>1. (Sheltered => DInv) => (Sheltered => RetryNotDeadlock)
  BY DEF DInv, NoCause, RetryNotDeadlock
<1>2. Direct
  OBVIOUS
<1>3. RInv /\ (Sheltered => DInv) /\ [Next]_vars => (Sheltered => DInv)'
  <2> SUFFICES ASSUME RInv, Sheltered => DInv, [Next]_vars, Sheltered' PROVE DInv'
    OBVIOUS
  <2> QED BY <1>2, ShelterEnds, NextDInv
<1>4. Init => (Sheltered => DInv)
  BY InitDInv
<1> QED
  BY <1>1, <1>3, <1>4, RInvariant, PTL DEF Spec
==============================================================================
