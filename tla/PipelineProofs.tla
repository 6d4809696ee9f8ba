---------------------------- MODULE PipelineProofs ----------------------------
(***************************************************************************)
(* The graph runtime on trees and pipelines.                               *)
(*                                                                         *)
(* A template without retry edges is compiled to a tree, in which every    *)
(* node has one way in, often to a pipeline, one node after the other.  On *)
(* a tree no node runs twice and none runs before its predecessor has      *)
(* ended; on a pipeline a completed run has executed everything, a human   *)
(* node holds back what follows it, a crash loses a bounded number of      *)
(* nodes, and a run that nobody disturbs but by pauses and crashes ends    *)
(* completed or paused.  All is proved through any number of pauses,       *)
(* resumes, crashes and recoveries.  The limits are real: after a retry, a *)
(* replay or a failure a node runs again, and a join may run early.        *)
(*                                                                         *)
(* In a pipeline with gates, each directly behind its agent as in          *)
(* tests/test_quality_gate_retry.py, what a gate protects is first handed  *)
(* out after a pass or when the retries are used up, and the retries alone *)
(* end the loops; this also through replays, cancels and checkpoints that  *)
(* were not written.                                                       *)
(***************************************************************************)
EXTENDS RuntimeProofs

\* One way into every node, nothing is repeated, nothing fails.
Tree ==
  /\ \A e \in Edges : e.edge_type # "loop_back"
  /\ \A n \in Node : \A e, f \in EdgesTo(n) : e = f
  /\ MayFail = {} /\ MaxReplays = 0

\* One node after the other, from a single start; whoever leads to the end has
\* all others before it.
Pipeline ==
  /\ Tree
  /\ \A e \in Edges : e.edge_type # "error"
  /\ \A n \in Node : \A e, f \in EdgesFrom(n) : e = f
  /\ \A m, n \in Initialize(StartNodes).ready : m = n
  /\ \A S \in SUBSET Node :
       /\ \E n \in S : END_NODE_ID \in Successors(n)
       /\ \A n \in S : \A e \in EdgesTo(n) : e.from_node \in S \cup {START_NODE_ID}
       => S = Node

OnePlace(s) ==
  \A n \in Node : /\ n \in s.ready => n \notin s.running \cup Done(s)
                  /\ n \in s.running => n \notin Done(s)
                  /\ n \in s.completed => n \notin s.failed

\* What has a place has its predecessor behind it, and not beside it.
Ordered(s) ==
  \A n \in Placed(s) \cap Node : \A e \in EdgesTo(n) :
    e.from_node = START_NODE_ID \/ e.from_node \in Done(s)

\* The node a resume would route again has been handed out, and nothing it
\* leads to is listed as failed: only a human node that asked is, and whoever
\* asks becomes the node to resume at.
Resumable(s, g) ==
  /\ g.current_node_id # NULL => g.current_node_id \in s.running \cup Done(s)
  /\ g.pause_context # NULL => g.pause_context \in s.running \cup Done(s)
  /\ IF g.pause_context = NULL THEN s.failed \cap Node = {}
                               ELSE Successors(g.pause_context) \cap s.failed \cap Node = {}

Placement(s, g) == OnePlace(s) /\ Ordered(s) /\ Resumable(s, g)

Answers ==
  \A n \in Node :
    /\ result[n] # "failed"
    /\ result[n] = "paused" =>
         state.pause_context # NULL /\ n \notin Successors(state.pause_context)

\* A node was handed out once, if it has been handed out, and once more for
\* each crash that may have undone it.
Counted ==
  \A n \in Node :
    /\ n \in sched.running \cup Done(sched) => runs[n] <= env.crashes + 1
    /\ n \notin sched.running \cup Done(sched) => runs[n] <= env.crashes
    /\ pc = "down" => runs[n] <= env.crashes
    /\ pc = "created" => runs[n] = 0

TInv ==
  /\ pc # "reset"
  /\ Placement(sched, state)
  /\ saved # NULL => Placement(saved.sched, saved.state)
  /\ Answers
  /\ Counted

\* Where a pipeline may grow: the node in hand, or a node done whose successor
\* has no place yet.
Front(s) == {n \in Node : \/ n \in s.ready \cup s.running
                          \/ n \in Done(s) /\ ~(Successors(n) \cap Node \subseteq Placed(s))}

Single(s) == /\ \A m, n \in Front(s) : m = n
             /\ END_NODE_ID \notin Placed(s)

AllDone(s) == Node \subseteq Done(s)

PInv ==
  /\ ~grouped
  /\ \A n \in Node : Kind[n] = "human" => result[n] \in {"none", "paused"}
  /\ Single(sched)
  /\ saved # NULL => Single(saved.sched)
  /\ state.termination_reason = "completed" => AllDone(sched)
  /\ saved # NULL => (saved.state.termination_reason = "completed" => AllDone(saved.sched))
  /\ status = "COMPLETED" => AllDone(sched)

\* What the last checkpoint lacks.
Lost == sched.completed \ (IF saved = NULL THEN {} ELSE saved.sched.completed)

LInv ==
  /\ Cardinality(Lost) <= CheckpointEvery
  /\ pc \in {"loop", "executing", "settling"} => Cardinality(Lost) <= counts.checkpoint
  /\ pc \in {"tail", "final"} => Cardinality(Lost) <= counts.checkpoint + 1
  /\ pc = "recovered" \/ (pc = "stopped" /\ status = "PAUSED") => Lost = {}

------------------------------------------------------------------------------
(* What settling and routing do to the places on a tree *)

\* Routing n: more of its successors are ready, and none that run or are done.
Opens(s, t, n) ==
  /\ t.running = s.running /\ t.completed = s.completed /\ t.failed = s.failed
  /\ s.ready \subseteq t.ready
  /\ t.ready \ s.ready \subseteq Successors(n) \ (s.completed \cup s.running \cup {END_NODE_ID})

\* Without loop-backs _schedule_next opens successors, and may reach the end.
LEMMA RoutedOpens ==
  ASSUME Tree, NEW c \in Pair, NEW n \in Node, NEW holding
  PROVE  LET d == Routed(c, n, holding)
         IN  /\ d \in Pair /\ Opens(c.sched, d.sched, n)
             /\ \/ d.state = c.state
                \/ /\ d.state = Marked(c.state, "completed", "reached_end")
                   /\ END_NODE_ID \in Successors(n)
<1> DEFINE targets   == Resolved(n, c.state, holding)
           back      == {t \in targets : HasEdge(n, t, "loop_back")}
           defensive == targets = {} /\ Kind[n] = "quality_gate" /\ c.state.quality_passed # "fail"
           ahead     == IF defensive
                        THEN {t \in Successors(n) : ~HasEdge(n, t, "loop_back")}
                        ELSE targets \ back
           new       == ahead \ ({END_NODE_ID} \cup c.sched.completed \cup c.sched.running)
           ready     == c.sched.ready \cup new
           s         == [c.sched EXCEPT !.ready = ready]
           forward   == [c EXCEPT !.sched = s]
           g         == Marked(c.state, "completed", "reached_end")
           ended     == IF END_NODE_ID \in ahead
                        THEN [forward EXCEPT !.state = Marked(@, "completed", "reached_end")]
                        ELSE forward
           agent     == CHOOSE t \in back : TRUE
<1>1. Routed(c, n, holding) = IF back = {} THEN ended ELSE Requeued(ended, n, agent)
  BY Zenon DEF Routed, ScheduledNext
<1>2. back = {}
  BY DEF Tree, HasEdge, EdgesFrom
<1>3. targets \subseteq Successors(n)
  BY DEF Resolved, Successors
<1>4. ahead \subseteq Successors(n)
  BY <1>3
<1>5. /\ c.sched \in SchedulerState /\ c.state \in GraphState
      /\ c = [sched |-> c.sched, state |-> c.state]
  BY DEF Pair
<1> HIDE DEF targets, back, ahead
<1>6. ready \subseteq Id
  BY <1>4, <1>5, EdgeEnds DEF SchedulerState
<1>7. /\ s \in SchedulerState /\ s.ready = ready /\ s.running = c.sched.running
      /\ s.completed = c.sched.completed /\ s.failed = c.sched.failed
  <2> HIDE DEF ready
  <2> QED BY <1>5, <1>6 DEF SchedulerState
<1>8. Opens(c.sched, s, n)
  BY <1>4, <1>7 DEF Opens
<1> HIDE DEF s, ready, new
<1>9. forward = [sched |-> s, state |-> c.state]
  BY <1>5, PairUpdate
<1>10. forward.state = c.state
  BY <1>9
<1> HIDE DEF forward
<1>11. [forward EXCEPT !.state = g] = [sched |-> s, state |-> g]
  <2> HIDE DEF g
  <2> QED BY <1>9, PairUpdate
<1>12. g \in GraphState
  BY <1>5, MarkedType DEF Reason, Cause
<1>13. ended = IF END_NODE_ID \in ahead THEN [sched |-> s, state |-> g] ELSE [sched |-> s, state |-> c.state]
  BY <1>9, <1>10, <1>11
<1>14. Routed(c, n, holding) = ended
  BY <1>1, <1>2
<1> HIDE DEF ended, g
<1>15. CASE END_NODE_ID \in ahead
  BY <1>4, <1>5, <1>7, <1>8, <1>12, <1>13, <1>14, <1>15 DEF Pair, g
<1>16. CASE END_NODE_ID \notin ahead
  BY <1>5, <1>7, <1>8, <1>13, <1>14, <1>16 DEF Pair
<1> QED
  BY <1>15, <1>16

\* In a tree the successors of a node that still runs have no place, so its
\* end puts nothing into two places.
LEMMA EndsPlaces ==
  ASSUME Tree, NEW s \in SchedulerState, NEW t \in SchedulerState,
         NEW n \in Node, NEW success \in BOOLEAN,
         OnePlace(s), Ordered(s), n \in s.running, Ends(s, t, n, success)
  PROVE  /\ OnePlace(t) /\ Ordered(t)
         /\ Done(t) = Done(s) \cup {n}
         /\ Successors(n) \cap Placed(s) \cap Node = {}
<1>1. ASSUME NEW m \in Successors(n) \cap Node, m \in Placed(s) PROVE FALSE
  <2>1. PICK e \in EdgesTo(m) : e.from_node = n
    BY DEF Successors, EdgesFrom, EdgesTo
  <2>2. n \in Done(s)
    BY <1>1, <2>1, GraphAssumption DEF Ordered, GraphAssumption
  <2> QED BY <2>2 DEF OnePlace
<1>2. Done(t) = Done(s) \cup {n}
  BY DEF Ends, Done
<1>3. n \notin Successors(n) /\ n \notin s.ready
  BY <1>1 DEF Placed, OnePlace
<1>4. OnePlace(t)
  <2> SUFFICES ASSUME NEW m \in Node
               PROVE  /\ m \in t.ready => m \notin t.running \cup Done(t)
                      /\ m \in t.running => m \notin Done(t)
                      /\ m \in t.completed => m \notin t.failed
    BY DEF OnePlace
  <2>1. CASE m = n
    BY <2>1, <1>3 DEF OnePlace, Ends, Done
  <2>2. CASE m # n
    <3>1. m \in t.ready => m \in s.ready \/ m \notin Placed(s)
      BY <1>1 DEF Ends
    <3> QED BY <2>2, <3>1, <1>2 DEF OnePlace, Ends, Done, Placed
  <2> QED BY <2>1, <2>2
<1>5. Ordered(t)
  <2> SUFFICES ASSUME NEW m \in Placed(t) \cap Node, NEW e \in EdgesTo(m)
               PROVE  e.from_node = START_NODE_ID \/ e.from_node \in Done(t)
    BY DEF Ordered
  <2>1. CASE m \in Placed(s)
    BY <2>1, <1>2 DEF Ordered
  <2>2. CASE m \notin Placed(s)
    <3>1. m \in Successors(n)
      BY <2>2 DEF Placed, Done, Ends
    <3>2. PICK f \in EdgesTo(m) : f.from_node = n
      BY <3>1 DEF Successors, EdgesFrom, EdgesTo
    <3>3. e = f
      BY <3>2 DEF Tree
    <3> QED BY <3>2, <3>3, <1>2
  <2> QED BY <2>1, <2>2
<1> QED
  BY <1>1, <1>2, <1>4, <1>5

\* Opening the successors of a node that is done.
LEMMA OpensPlaces ==
  ASSUME Tree, NEW s \in SchedulerState, NEW t \in SchedulerState, NEW n \in Node,
         OnePlace(s), Ordered(s), n \in Done(s), Successors(n) \cap s.failed \cap Node = {},
         Opens(s, t, n)
  PROVE  OnePlace(t) /\ Ordered(t) /\ Done(t) = Done(s)
<1>1. Done(t) = Done(s)
  BY DEF Opens, Done
<1>2. OnePlace(t)
  BY <1>1 DEF OnePlace, Opens, Done
<1>3. Ordered(t)
  <2> SUFFICES ASSUME NEW m \in Placed(t) \cap Node, NEW e \in EdgesTo(m)
               PROVE  e.from_node = START_NODE_ID \/ e.from_node \in Done(t)
    BY DEF Ordered
  <2>1. CASE m \in Placed(s)
    BY <2>1, <1>1 DEF Ordered
  <2>2. CASE m \notin Placed(s)
    <3>1. m \in Successors(n)
      BY <2>2 DEF Placed, Done, Opens
    <3>2. PICK f \in EdgesTo(m) : f.from_node = n
      BY <3>1 DEF Successors, EdgesFrom, EdgesTo
    <3>3. e = f
      BY <3>2 DEF Tree
    <3> QED BY <3>2, <3>3, <1>1
  <2> QED BY <2>1, <2>2
<1> QED
  BY <1>1, <1>2, <1>3

------------------------------------------------------------------------------
(* The invariant of trees *)

\* Marking, counting and judging leave the two node ids alone.
LEMMA MarkedNodes ==
  ASSUME NEW g \in GraphState, NEW reason, NEW cause
  PROVE  SameNodes(g, Marked(g, reason, cause))
BY DEF SameNodes, Marked, GraphState

LEMMA SameNodesPlacement ==
  ASSUME NEW s, NEW g, NEW h, Placement(s, g), SameNodes(g, h)
  PROVE  Placement(s, h)
BY DEF Placement, Resumable, SameNodes

\* What initialize() makes ready has nothing before it but START.
LEMMA InitialOrdered ==
  ASSUME Tree, NEW n \in Initialize(StartNodes).ready, NEW e \in EdgesTo(n)
  PROVE  n \in Node /\ e.from_node = START_NODE_ID
<1> DEFINE indegree == [m \in Id |-> IF m = END_NODE_ID THEN 1 ELSE Cardinality(BlockingEdges(m))]
           isStartTarget(m) == \E f \in EdgesTo(m) : f.from_node = START_NODE_ID
           first == IF StartNodes # {}
                    THEN StartNodes \cap Node
                    ELSE {m \in Node : indegree[m] = 0 \/ isStartTarget(m)}
<1>1. Initialize(StartNodes).ready = first
  BY DEF Initialize, InitializedFrom
<1>2. n \in Node /\ n \in Id /\ n # END_NODE_ID
  BY <1>1, EdgeEnds DEF Id
<1>3. e \in BlockingEdges(n)
  BY DEF Tree, BlockingEdges, EdgesTo
<1>4. CASE n \in StartNodes
  BY <1>4 DEF StartNodes
<1>5. CASE isStartTarget(n)
  BY <1>2, <1>5 DEF Tree
<1>6. CASE indegree[n] = 0
  <2>1. BlockingEdges(n) \subseteq Edges
    BY DEF BlockingEdges, EdgesTo
  <2>2. IsFiniteSet(BlockingEdges(n)) /\ Cardinality(BlockingEdges(n)) = 0
    BY <2>1, <1>2, <1>6, FS_Subset, GraphAssumption DEF GraphAssumption
  <2>3. BlockingEdges(n) = {}
    BY <2>2, FS_EmptySet
  <2> QED BY <2>3, <1>3
<1> QED
  BY <1>1, <1>2, <1>4, <1>5, <1>6

LEMMA InitTInv == Init => TInv
<1> SUFFICES ASSUME Init PROVE TInv
  OBVIOUS
<1>1. /\ sched.ready = {} /\ sched.running = {} /\ sched.completed = {} /\ sched.failed = {}
      /\ state.current_node_id = NULL /\ state.pause_context = NULL
  BY DEF Init, InitialState
<1>2. Placement(sched, state)
  BY <1>1 DEF Placement, OnePlace, Ordered, Resumable, Placed, Done
<1>3. Answers /\ Counted
  <2>1. env.crashes = 0
    BY DEF Init
  <2> QED BY <1>1, <2>1 DEF Init, Answers, Counted, NoResult, Done
<1> QED
  BY <1>2, <1>3 DEF TInv, Init

LEMMA ExecuteTInv == Tree /\ RInv /\ TInv /\ Execute => TInv'
<1> SUFFICES ASSUME Tree, RInv, TInv, Execute PROVE TInv'
  OBVIOUS
<1>1. /\ pc = "created" /\ pc' = "loop" /\ sched' = Initialize(StartNodes) /\ state' = InitialState
      /\ UNCHANGED <<result, saved, env, runs>>
  BY DEF Execute, TInv
<1>2. sched'.running = {} /\ Done(sched') = {} /\ sched'.failed = {} /\ sched'.completed = {}
  BY <1>1, InitializeFacts DEF Done
<1>3. state'.current_node_id = NULL /\ state'.pause_context = NULL
  BY <1>1 DEF InitialState
<1>4. Ordered(sched')
  BY <1>1, <1>2, InitialOrdered DEF Ordered, Placed
<1>5. Placement(sched', state')
  BY <1>2, <1>3, <1>4 DEF Placement, OnePlace, Resumable
<1>6. result' = NoResult
  BY <1>1 DEF RInv, Results, NoResult
<1>7. Answers'
  BY <1>6 DEF Answers, NoResult
<1>8. Counted'
  <2>1. \A n \in Node : runs[n] = 0 /\ env.crashes \in Nat
    BY <1>1 DEF TInv, Counted, RInv, TypeOK
  <2> QED BY <1>1, <1>2, <2>1 DEF Counted
<1> QED
  BY <1>1, <1>5, <1>7, <1>8 DEF TInv

\* Steps that leave the scheduler, the results and the two node ids alone.
LEMMA StillTInv ==
  ASSUME RInv, TInv, UNCHANGED <<sched, result, saved, env, runs>>, SameNodes(state, state'),
         pc # "down" => pc' # "down", pc' \notin {"created", "reset"}
  PROVE  TInv'
<1>1. Placement(sched', state')
  BY SameNodesPlacement DEF TInv
<1>2. Answers'
  BY DEF TInv, Answers, SameNodes
<1>3. Counted'
  BY DEF TInv, Counted
<1> QED
  BY <1>1, <1>2, <1>3 DEF TInv

LEMMA LeaveTInv ==
  RInv /\ TInv /\ (StopTerminated \/ StopAtLimit \/ HonourCancel \/ HonourPause \/ NothingLeft
                   \/ NothingEligible \/ ResumeRaises) => TInv'
<1> SUFFICES ASSUME RInv, TInv, StopTerminated \/ StopAtLimit \/ HonourCancel \/ HonourPause
                                \/ NothingLeft \/ NothingEligible \/ ResumeRaises
             PROVE  TInv'
  OBVIOUS
<1>1. /\ pc' \in {"final", "stopped"} /\ UNCHANGED <<sched, result, saved, env, runs>>
  BY DEF StopTerminated, StopAtLimit, HonourCancel, HonourPause, NothingLeft, NothingEligible,
         ResumeRaises
<1>2. state' = state \/ \E reason, cause : state' = Marked(state, reason, cause)
  BY DEF StopTerminated, StopAtLimit, HonourCancel, HonourPause, NothingLeft, NothingEligible,
         ResumeRaises, Reopened
<1>3. SameNodes(state, state')
  BY <1>2, MarkedNodes DEF RInv, TypeOK, SameNodes
<1> QED
  BY <1>1, <1>3, StillTInv

LEMMA RequestTInv == RInv /\ TInv /\ (RequestPause \/ RequestCancel \/ Cancel) => TInv'
<1> SUFFICES ASSUME RInv, TInv, RequestPause \/ RequestCancel \/ Cancel PROVE TInv'
  OBVIOUS
<1>1. /\ UNCHANGED <<sched, pc, result, saved, runs>> /\ env'.crashes = env.crashes
  BY DEF RequestPause, RequestCancel, Cancel, Asked, RInv, TypeOK
<1>2. state' = state \/ \E reason, cause : state' = Marked(state, reason, cause)
  BY DEF RequestPause, RequestCancel, Cancel
<1>3. SameNodes(state, state')
  BY <1>2, MarkedNodes DEF RInv, TypeOK, SameNodes
<1>4. Placement(sched', state')
  BY <1>1, <1>3, SameNodesPlacement DEF TInv
<1>5. Answers' /\ Counted'
  BY <1>1, <1>3 DEF TInv, Answers, Counted, SameNodes
<1> QED
  BY <1>1, <1>4, <1>5 DEF TInv

LEMMA CrashTInv == RInv /\ TInv /\ Crash => TInv'
<1> SUFFICES ASSUME RInv, TInv, Crash PROVE TInv'
  OBVIOUS
<1>1. /\ pc' = "down" /\ UNCHANGED <<sched, state, result, saved, runs>>
      /\ env'.crashes = env.crashes + 1 /\ env.crashes \in Nat
  BY DEF Crash, RInv, TypeOK
<1>2. \A n \in Node : runs[n] \in Nat
  BY DEF RInv, TypeOK
<1>3. Counted'
  BY <1>1, <1>2 DEF TInv, Counted
<1> QED
  BY <1>1, <1>3 DEF TInv, Answers

LEMMA RecoverTInv == RInv /\ TInv /\ Recover => TInv'
<1> SUFFICES ASSUME RInv, TInv, Recover PROVE TInv'
  OBVIOUS
<1>1. /\ pc = "down" /\ pc' = "recovered" /\ saved # NULL
      /\ sched' = saved.sched /\ state' = saved.state /\ result' = NoResult
      /\ UNCHANGED <<saved, env, runs>>
  BY DEF Recover
<1>2. Placement(sched', state')
  BY <1>1 DEF TInv
<1>3. Answers'
  BY <1>1 DEF Answers, NoResult
<1>4. Counted'
  <2>1. \A n \in Node : runs[n] <= env.crashes /\ runs[n] \in Nat /\ env.crashes \in Nat
    BY <1>1 DEF TInv, Counted, RInv, TypeOK
  <2> QED BY <1>1, <2>1 DEF Counted
<1> QED
  BY <1>1, <1>2, <1>3, <1>4 DEF TInv

LEMMA MissingTInv == RInv /\ TInv /\ DispatchMissing => TInv'
<1> SUFFICES ASSUME RInv, TInv, DispatchMissing PROVE TInv'
  OBVIOUS
<1>1. /\ sched' = Failed(Dispatched(sched, {END_NODE_ID}), END_NODE_ID)
      /\ UNCHANGED <<state, pc, result, saved, env, runs>>
  BY DEF DispatchMissing
<1>2. /\ sched'.ready = sched.ready \ {END_NODE_ID}
      /\ sched'.running = sched.running \ {END_NODE_ID}
      /\ sched'.completed = sched.completed
      /\ sched'.failed = sched.failed \cup {END_NODE_ID}
  BY <1>1, MissingFacts DEF RInv, TypeOK
<1>3. END_NODE_ID \notin Node
  BY EdgeEnds
<1>4. /\ \A n \in Node : n \in Done(sched') <=> n \in Done(sched)
      /\ \A n \in Node : n \in Placed(sched') <=> n \in Placed(sched)
  BY <1>2, <1>3 DEF Done, Placed
<1>5. OnePlace(sched')
  BY <1>2, <1>3, <1>4 DEF TInv, Placement, OnePlace
<1>6. Ordered(sched')
  <2>1. \A n \in Node : \A e \in EdgesTo(n) : e.from_node # START_NODE_ID => e.from_node \in Node
    BY GraphAssumption DEF GraphAssumption, EdgesTo, Edge
  <2> QED BY <2>1, <1>4 DEF TInv, Placement, Ordered
<1>7. Resumable(sched', state')
  <2>1. state.current_node_id \in Node \cup {NULL} /\ state.pause_context \in Node \cup {NULL}
    BY DEF RInv, TypeOK, GraphState
  <2> QED BY <2>1, <1>1, <1>2, <1>3, <1>4 DEF TInv, Placement, Resumable
<1>8. Counted'
  BY <1>1, <1>2, <1>3, <1>4 DEF TInv, Counted
<1> QED
  BY <1>1, <1>5, <1>6, <1>7, <1>8 DEF TInv, Placement, Answers

LEMMA ScheduleTInv == RInv /\ TInv /\ Schedule => TInv'
<1> SUFFICES ASSUME RInv, TInv, Schedule PROVE TInv'
  OBVIOUS
<1>1. PICK eligible \in Eligible : \E batch \in Batches(eligible) :
        /\ sched' = Dispatched(sched, batch)
        /\ runs' = [n \in Node |-> IF n \in batch THEN runs[n] + 1 ELSE runs[n]]
        /\ \E last \in batch \ {END_NODE_ID} : state' = [state EXCEPT !.current_node_id = last]
  BY DEF Schedule
<1>2. PICK batch \in Batches(eligible) :
        /\ sched' = Dispatched(sched, batch)
        /\ runs' = [n \in Node |-> IF n \in batch THEN runs[n] + 1 ELSE runs[n]]
        /\ \E last \in batch \ {END_NODE_ID} : state' = [state EXCEPT !.current_node_id = last]
  BY <1>1
<1>3. /\ pc = "loop" /\ pc' = "executing" /\ UNCHANGED <<result, saved, env>>
  BY DEF Schedule, Undisturbed, GoesOn
<1>4. batch \subseteq sched.ready
  BY BatchFacts DEF Eligible
<1>5. sched \in SchedulerState /\ state \in GraphState
  BY DEF RInv, TypeOK
<1>6. /\ sched'.ready = sched.ready \ batch /\ sched'.running = sched.running \cup batch
      /\ sched'.completed = sched.completed /\ sched'.failed = sched.failed
  BY <1>2, <1>5 DEF Dispatched, SchedulerState
<1>7. Done(sched') = Done(sched) /\ Placed(sched') = Placed(sched)
  BY <1>4, <1>6 DEF Done, Placed
<1>8. OnePlace(sched')
  BY <1>4, <1>6, <1>7 DEF TInv, Placement, OnePlace
<1>9. Ordered(sched')
  BY <1>7 DEF TInv, Placement, Ordered
<1>10. PICK last \in batch \ {END_NODE_ID} : state' = [state EXCEPT !.current_node_id = last]
  BY <1>2
<1>11. state'.current_node_id = last /\ state'.pause_context = state.pause_context
  BY <1>5, <1>10 DEF GraphState
<1>12. Resumable(sched', state')
  BY <1>6, <1>7, <1>11 DEF TInv, Placement, Resumable
<1>13. Answers'
  BY <1>3, <1>11 DEF TInv, Answers
<1>14. Counted'
  <2> SUFFICES ASSUME NEW n \in Node
               PROVE  /\ n \in sched'.running \cup Done(sched') => runs'[n] <= env.crashes + 1
                      /\ n \notin sched'.running \cup Done(sched') => runs'[n] <= env.crashes
    BY <1>3 DEF Counted
  <2>1. runs[n] \in Nat /\ env.crashes \in Nat
    BY DEF RInv, TypeOK
  <2>2. CASE n \in batch
    <3>1. n \notin sched.running \cup Done(sched)
      BY <2>2, <1>4 DEF TInv, Placement, OnePlace
    <3> QED BY <3>1, <2>1, <2>2, <1>2, <1>6 DEF TInv, Counted
  <2>3. CASE n \notin batch
    BY <2>1, <2>3, <1>2, <1>6, <1>7 DEF TInv, Counted
  <2> QED BY <2>2, <2>3
<1> QED
  BY <1>3, <1>8, <1>9, <1>12, <1>13, <1>14 DEF TInv, Placement

\* A node that ends without asking anybody.
LEMMA FinishTInv ==
  ASSUME RInv, TInv, NEW n \in Node, NEW outcome, NEW g \in GraphState,
         Finish(n, outcome, g), SameNodes(state, g), outcome \notin {"failed", "paused"}
  PROVE  TInv'
<1>1. /\ pc = "executing" /\ pc' \in {"executing", "settling"}
      /\ result' = [result EXCEPT ![n] = outcome] /\ state' = Recorded(g, n, outcome)
      /\ UNCHANGED <<sched, saved, env, runs>>
  BY DEF Finish
<1>2. SameNodes(state, state')
  BY <1>1 DEF Recorded, GraphState, SameNodes
<1>3. Placement(sched', state')
  BY <1>1, <1>2, SameNodesPlacement DEF TInv
<1>4. Answers'
  BY <1>1, <1>2 DEF TInv, Answers, SameNodes, RInv, TypeOK
<1>5. Counted'
  BY <1>1 DEF TInv, Counted
<1> QED
  BY <1>1, <1>3, <1>4, <1>5 DEF TInv

\* A human node, or an agent's router, that asks becomes the node to resume at.
\* It still runs, so what it leads to has no place.
LEMMA AskTInv ==
  ASSUME Tree, RInv, TInv, NEW n \in Node, AskHuman(n) \/ AskAdaptive(n)
  PROVE  TInv'
<1> DEFINE g == Marked(state, "paused", "awaiting_user")
           h == [g EXCEPT !.pause_context = n]
<1>1. g \in GraphState /\ SameNodes(state, g)
  BY MarkedType, MarkedNodes DEF RInv, TypeOK, Reason, Cause
<1> HIDE DEF g
<1>2. h \in GraphState /\ h.pause_context = n /\ h.current_node_id = state.current_node_id
  BY <1>1 DEF GraphState, SameNodes
<1>3. PICK outcome \in {"paused", "completed"} : Finish(n, outcome, h)
  BY DEF AskHuman, AskAdaptive, g
<1> HIDE DEF h
<1>4. /\ pc = "executing" /\ pc' \in {"executing", "settling"} /\ n \in sched.running
      /\ result' = [result EXCEPT ![n] = outcome] /\ state' = Recorded(h, n, outcome)
      /\ UNCHANGED <<sched, saved, env, runs>>
  BY <1>3 DEF Finish
<1>5. state'.pause_context = n /\ state'.current_node_id = state.current_node_id
  BY <1>2, <1>4 DEF Recorded, GraphState
<1>6. ASSUME NEW m \in Successors(n) \cap Node PROVE m \notin Placed(sched)
  <2>1. PICK e \in EdgesTo(m) : e.from_node = n
    BY DEF Successors, EdgesFrom, EdgesTo
  <2>2. n # START_NODE_ID /\ n \notin Done(sched)
    BY <1>4, GraphAssumption DEF GraphAssumption, TInv, Placement, OnePlace
  <2> QED BY <2>1, <2>2 DEF TInv, Placement, Ordered
<1>7. n # NULL
  BY RuntimeAssumption DEF RuntimeAssumption
<1>8. Resumable(sched', state')
  BY <1>4, <1>5, <1>6, <1>7 DEF TInv, Placement, Resumable, Placed, Done
<1>9. Answers'
  <2> SUFFICES ASSUME NEW m \in Node
               PROVE  /\ result'[m] # "failed"
                      /\ result'[m] = "paused" => n # NULL /\ m \notin Successors(n)
    BY <1>5 DEF Answers
  <2>1. m \in Successors(n) => m \notin sched.running
    BY <1>6 DEF Placed
  <2>2. m # n => result'[m] = result[m]
    BY <1>4 DEF RInv, TypeOK
  <2>3. result[m] # "none" => m \in sched.running
    BY DEF RInv, Results, Flight
  <2> QED BY <1>4, <1>7, <2>1, <2>2, <2>3 DEF TInv, Answers, RInv, TypeOK
<1>10. Counted'
  BY <1>4 DEF TInv, Counted
<1> QED
  BY <1>4, <1>8, <1>9, <1>10 DEF TInv, Placement

LEMMA FinishNodeTInv ==
  ASSUME Tree, RInv, TInv, NEW n \in Node, FinishNode(n)
  PROVE  TInv'
<1>1. state \in GraphState /\ n \notin MayFail
  BY DEF RInv, TypeOK, Tree
<1>2. CASE \E verdict \in {"pass", "fail"} : JudgeOutput(n, verdict)
  <2>1. PICK verdict \in {"pass", "fail"} : JudgeOutput(n, verdict)
    BY <1>2
  <2>2. /\ [state EXCEPT !.quality_passed = verdict] \in GraphState
        /\ SameNodes(state, [state EXCEPT !.quality_passed = verdict])
    BY <1>1 DEF GraphState, SameNodes
  <2>3. Finish(n, "completed", [state EXCEPT !.quality_passed = verdict])
    BY <2>1 DEF JudgeOutput
  <2> QED BY <2>2, <2>3, FinishTInv
<1>3. ~GateFails(n)
  BY <1>1 DEF GateFails
<1>4. CASE AskHuman(n) \/ AskAdaptive(n)
  BY <1>4, AskTInv
<1>5. CASE CountLoop(n)
  <2>1. /\ [state EXCEPT !.iteration_count = @ + 1] \in GraphState
        /\ SameNodes(state, [state EXCEPT !.iteration_count = @ + 1])
    BY <1>1 DEF GraphState, SameNodes
  <2>2. Finish(n, "completed", [state EXCEPT !.iteration_count = @ + 1])
    BY <1>5 DEF CountLoop
  <2> QED BY <2>1, <2>2, FinishTInv
<1>6. CASE Work(n)
  <2>1. Finish(n, "completed", state) /\ SameNodes(state, state)
    BY <1>1, <1>6 DEF Work, SameNodes
  <2> QED BY <1>1, <2>1, FinishTInv
<1> QED
  BY <1>2, <1>3, <1>4, <1>5, <1>6 DEF FinishNode

\* What complete() does with a result: a human node that asked is listed as
\* failed, under the answer it waits for.
LEMMA SettledPlaces ==
  ASSUME Tree, RInv, TInv, NEW n \in Node, result[n] # "none"
  PROVE  LET s == Completed(sched, n, result[n] = "completed")
         IN  /\ s \in SchedulerState
             /\ Placement(s, state)
             /\ s.running \cup Done(s) = sched.running \cup Done(sched)
             /\ n \in Done(s)
             /\ Successors(n) \cap s.failed \cap Node = {}
<1> DEFINE success == result[n] = "completed"
           s == Completed(sched, n, success)
<1>1. /\ n \in sched.running /\ sched \in SchedulerState /\ success \in BOOLEAN
      /\ ~success => result[n] = "paused"
  BY DEF RInv, Results, Flight, TypeOK, TInv, Answers, Outcome
<1>2. s \in SchedulerState /\ Ends(sched, s, n, success)
  BY <1>1, CompletedEnds
<1>3. OnePlace(sched) /\ Ordered(sched) /\ Resumable(sched, state)
  BY DEF TInv, Placement
<1> HIDE DEF s
<1>4. /\ OnePlace(s) /\ Ordered(s) /\ Done(s) = Done(sched) \cup {n}
      /\ Successors(n) \cap Placed(sched) \cap Node = {}
  BY <1>1, <1>2, <1>3, EndsPlaces
<1>5. s.running \cup Done(s) = sched.running \cup Done(sched)
  BY <1>1, <1>2, <1>4 DEF Ends
<1>6. Successors(n) \cap s.failed \cap Node = {}
  BY <1>1, <1>2, <1>4 DEF Ends, Placed, Done
<1>7. Resumable(s, state)
  <2>1. CASE success
    BY <2>1, <1>2, <1>3, <1>5 DEF Ends, Resumable
  <2>2. CASE ~success
    <3>1. state.pause_context # NULL /\ n \notin Successors(state.pause_context)
      BY <2>2, <1>1 DEF TInv, Answers
    <3> QED BY <2>2, <3>1, <1>2, <1>3, <1>5 DEF Ends, Resumable
  <2> QED BY <2>1, <2>2
<1> QED
  BY <1>2, <1>4, <1>5, <1>6, <1>7 DEF Placement, s

LEMMA SettlePausedTInv ==
  ASSUME Tree, RInv, TInv, NEW n \in Node, SettlePaused(n) \/ RouteRaises(n)
  PROVE  TInv'
<1>1. /\ pc = "settling" /\ pc' \in {"final", "stopped"} /\ result[n] # "none"
      /\ sched' = Completed(sched, n, result[n] = "completed")
      /\ state' = state \/ state' = Marked(state, "error", "exception")
      /\ result' = NoResult /\ UNCHANGED <<saved, env, runs>>
  BY DEF SettlePaused, RouteRaises
<1>2. SameNodes(state, state')
  BY <1>1, MarkedNodes DEF RInv, TypeOK, SameNodes
<1>3. Placement(sched', state) /\ sched'.running \cup Done(sched') = sched.running \cup Done(sched)
  BY <1>1, SettledPlaces
<1>4. Placement(sched', state')
  BY <1>2, <1>3, SameNodesPlacement
<1>5. Answers'
  BY <1>1 DEF Answers, NoResult
<1>6. Counted'
  BY <1>1, <1>3 DEF TInv, Counted
<1> QED
  BY <1>1, <1>4, <1>5, <1>6 DEF TInv

\* Routing a node that is done keeps the places.
LEMMA RoutedPlaces ==
  ASSUME Tree, NEW s \in SchedulerState, NEW g \in GraphState, NEW n \in Node, NEW holding,
         Placement(s, g), n \in Done(s), Successors(n) \cap s.failed \cap Node = {}
  PROVE  LET d == Routed([sched |-> s, state |-> g], n, holding)
         IN  /\ d \in Pair /\ SameNodes(g, d.state)
             /\ Placement(d.sched, d.state)
             /\ d.sched.running = s.running /\ Done(d.sched) = Done(s)
<1> DEFINE c == [sched |-> s, state |-> g]
           d == Routed(c, n, holding)
<1>1. c \in Pair /\ c.sched = s /\ c.state = g
  BY DEF Pair
<1> HIDE DEF c
<1>2. /\ d \in Pair /\ Opens(s, d.sched, n)
      /\ d.state = g \/ d.state = Marked(g, "completed", "reached_end")
  BY <1>1, RoutedOpens
<1> HIDE DEF d
<1>3. SameNodes(g, d.state)
  BY <1>2, MarkedNodes DEF SameNodes
<1>4. /\ OnePlace(d.sched) /\ Ordered(d.sched) /\ Done(d.sched) = Done(s)
  BY <1>2, OpensPlaces DEF Pair, Placement
<1>5. Resumable(d.sched, g)
  BY <1>2, <1>4 DEF Placement, Resumable, Opens
<1>6. Placement(d.sched, d.state)
  BY <1>3, <1>4, <1>5 DEF Placement, Resumable, SameNodes
<1> QED
  BY <1>2, <1>3, <1>4, <1>6 DEF Opens, c, d

LEMMA SettleTInv ==
  ASSUME Tree, RInv, TInv, NEW n \in Node, Settle(n)
  PROVE  TInv'
<1>1. PICK holding \in SUBSET OtherEdges(n) :
        LET c == Routed([sched |-> Completed(sched, n, result[n] = "completed"),
                         state |-> state], n, holding)
        IN  sched' = c.sched /\ state' = c.state
  BY DEF Settle
<1>2. /\ pc = "settling" /\ result[n] # "none" /\ pc' \in {"tail", "settling"}
      /\ result' = [result EXCEPT ![n] = "none"]
      /\ UNCHANGED <<saved, env, runs>>
  BY DEF Settle
<1> DEFINE s == Completed(sched, n, result[n] = "completed")
<1>3. /\ s \in SchedulerState /\ Placement(s, state) /\ n \in Done(s)
      /\ s.running \cup Done(s) = sched.running \cup Done(sched)
      /\ Successors(n) \cap s.failed \cap Node = {}
  BY <1>2, SettledPlaces
<1>4. LET d == Routed([sched |-> s, state |-> state], n, holding)
      IN  /\ SameNodes(state, d.state) /\ Placement(d.sched, d.state)
          /\ d.sched.running = s.running /\ Done(d.sched) = Done(s)
  <2> HIDE DEF s
  <2> QED BY <1>3, RoutedPlaces DEF RInv, TypeOK
<1>5. /\ SameNodes(state, state') /\ Placement(sched', state')
      /\ sched'.running \cup Done(sched') = sched.running \cup Done(sched)
  BY <1>1, <1>3, <1>4
<1>6. Answers'
  BY <1>2, <1>5 DEF RInv, TypeOK, TInv, Answers, SameNodes
<1>7. Counted'
  BY <1>2, <1>5 DEF TInv, Counted
<1> QED
  BY <1>2, <1>5, <1>6, <1>7 DEF TInv

\* A checkpoint of a quiet moment has the places of that moment.
LEMMA SavedPlacement ==
  ASSUME RInv, TInv, Flight(sched) = {}, SaveCheckpoint(state), saved' # NULL
  PROVE  Placement(saved'.sched, saved'.state)
<1>1. saved' = saved \/ saved' = [sched |-> Restored(sched), state |-> state, control |-> control]
  BY DEF SaveCheckpoint
<1>2. CASE saved' = saved
  BY <1>2 DEF TInv
<1>3. CASE saved'.sched = Restored(sched) /\ saved'.state = state
  <2> DEFINE s == Restored(sched)
  <2>1. /\ s.ready = sched.ready /\ s.running = {}
        /\ s.completed = sched.completed /\ s.failed = sched.failed
    BY DEF Restored, RInv, TypeOK, SchedulerState
  <2>2. \A n \in Node : n \notin sched.running
    BY DEF Flight
  <2>3. NULL \notin Node /\ state \in GraphState
    BY RuntimeAssumption DEF RuntimeAssumption, RInv, TypeOK
  <2> HIDE DEF s
  <2>4. OnePlace(s) /\ Ordered(s) /\ Resumable(s, state)
    BY <2>1, <2>2, <2>3 DEF TInv, Placement, OnePlace, Ordered, Resumable, Placed, Done, GraphState
  <2> QED BY <1>3, <2>4 DEF Placement, s
<1> QED
  BY <1>1, <1>2, <1>3

LEMMA TailTInv == RInv /\ TInv /\ (Tail \/ Final) => TInv'
<1> SUFFICES ASSUME RInv, TInv, Tail \/ Final PROVE TInv'
  OBVIOUS
<1>1. /\ pc \in {"tail", "final"} /\ pc' \in {"loop", "final", "stopped"}
      /\ UNCHANGED <<sched, result, env, runs>>
      /\ state' = state \/ state' = Marked(state, "error", "safety_limit")
      /\ SaveCheckpoint(state) \/ saved' = saved
  BY DEF Tail, Final
<1>2. Flight(sched) = {}
  BY <1>1 DEF RInv, Quiet
<1>3. SameNodes(state, state')
  BY <1>1, MarkedNodes DEF RInv, TypeOK, SameNodes
<1>4. Placement(sched', state')
  BY <1>1, <1>3, SameNodesPlacement DEF TInv
<1>5. saved' # NULL => Placement(saved'.sched, saved'.state)
  BY <1>1, <1>2, SavedPlacement DEF TInv
<1>6. Answers' /\ Counted'
  BY <1>1, <1>3 DEF TInv, Answers, Counted, SameNodes
<1> QED
  BY <1>1, <1>4, <1>5, <1>6 DEF TInv

LEMMA ResumeTInv == Tree /\ RInv /\ TInv /\ Resume => TInv'
<1> SUFFICES ASSUME Tree, RInv, TInv, Resume PROVE TInv'
  OBVIOUS
<1>1. /\ pc \in {"stopped", "recovered"} /\ status = "PAUSED" /\ pc' = "loop"
      /\ UNCHANGED <<result, saved, env, runs>>
  BY DEF Resume
<1>2. Flight(sched) = {}
  BY <1>1 DEF RInv, Quiet
<1>3. state \in GraphState /\ Reopened \in GraphState /\ SameNodes(state, Reopened)
  BY MarkedType, MarkedNodes DEF RInv, TypeOK, Reopened, Reason, Cause
<1>4. Placement(sched, Reopened)
  BY <1>3, SameNodesPlacement DEF TInv
<1>5. /\ SameNodes(state, state') /\ Placement(sched', state')
      /\ sched'.running = sched.running /\ Done(sched') = Done(sched)
  <2>1. CASE PausedNode = NULL
    BY <2>1, <1>3, <1>4 DEF Resume
  <2>2. CASE PausedNode # NULL
    <3>1. PausedNode \in Node
      BY <1>3, <2>2 DEF PausedNode, GraphState
    <3>2. PICK holding \in SUBSET OtherEdges(PausedNode) :
            LET c == Routed([sched |-> sched, state |-> Reopened], PausedNode, holding)
            IN  sched' = c.sched /\ state' = c.state
      BY <2>2 DEF Resume
    <3>3. PausedNode \in Done(sched)
      BY <3>1, <1>2, <2>2 DEF TInv, Placement, Resumable, PausedNode, Flight
    <3>4. Successors(PausedNode) \cap sched.failed \cap Node = {}
      BY DEF TInv, Placement, Resumable, PausedNode
    <3>5. sched \in SchedulerState
      BY DEF RInv, TypeOK
    <3> HIDE DEF PausedNode, Reopened
    <3>6. LET d == Routed([sched |-> sched, state |-> Reopened], PausedNode, holding)
          IN  /\ SameNodes(Reopened, d.state) /\ Placement(d.sched, d.state)
              /\ d.sched.running = sched.running /\ Done(d.sched) = Done(sched)
      BY <3>1, <3>3, <3>4, <3>5, <1>3, <1>4, RoutedPlaces
    <3> QED BY <3>2, <3>6, <1>3 DEF SameNodes
  <2> QED BY <2>1, <2>2
<1>6. Answers'
  BY <1>1, <1>5 DEF TInv, Answers, SameNodes
<1>7. Counted'
  BY <1>1, <1>5 DEF TInv, Counted
<1> QED
  BY <1>1, <1>5, <1>6, <1>7 DEF TInv

LEMMA NextTInv == Tree /\ RInv /\ TInv /\ [Next]_vars => TInv'
<1> SUFFICES ASSUME Tree, RInv, TInv, [Next]_vars PROVE TInv'
  OBVIOUS
<1>1. CASE MainLoop
  <2>1. CASE \E n \in Node : FinishNode(n) \/ SettlePaused(n) \/ Settle(n) \/ RouteRaises(n)
    BY <2>1, FinishNodeTInv, SettlePausedTInv, SettleTInv
  <2> QED
    BY <1>1, <2>1, ExecuteTInv, LeaveTInv, MissingTInv, ScheduleTInv, TailTInv DEF MainLoop
<1>2. CASE Environment
  <2>1. \A n \in Node : ~ReplayFrom(n)
    BY DEF ReplayFrom, Tree, RInv, TypeOK
  <2> QED
    BY <1>2, <2>1, ResumeTInv, LeaveTInv, RequestTInv, CrashTInv, RecoverTInv DEF Environment
<1>3. CASE UNCHANGED vars
  BY <1>3 DEF vars, TInv, Answers, Counted
<1> QED
  BY <1>1, <1>2, <1>3 DEF Next

LEMMA TInvariant ==
  ASSUME Tree
  PROVE  Spec => [](RInv /\ TInv)
<1>1. RInv /\ TInv /\ [Next]_vars => (RInv /\ TInv)'
  BY NextRInv, NextTInv
<1>2. Init => RInv /\ TInv
  BY InitRInv, InitTInv
<1> QED
  BY <1>1, <1>2, PTL DEF Spec

\* On a tree a node is handed out once, and once more at most for each crash
\* that sent the run back to a checkpoint: pauses, resumes that route the last
\* node again and human nodes that are listed as failed do not repeat it.
THEOREM OnceOnTrees ==
  ASSUME Tree
  PROVE  Spec => []RunsOnce
<1>1. RInv /\ TInv => RunsOnce
  <2> SUFFICES ASSUME RInv, TInv, NEW n \in Node PROVE runs[n] <= 1 + env.crashes
    BY DEF RunsOnce
  <2>1. runs[n] \in Nat /\ env.crashes \in Nat
    BY DEF RInv, TypeOK
  <2> QED BY <2>1 DEF TInv, Counted
<1> QED
  BY <1>1, TInvariant, PTL

\* On a tree a node is ready, under way or done only when what leads to it has
\* ended, also after a recovery and the second routing of a resume.
THEOREM CausesFirstOnTrees ==
  ASSUME Tree
  PROVE  Spec => []CausalOrder
<1>1. TInv => CausalOrder
  BY DEF TInv, Placement, Ordered, CausalOrder, Started, BlockingEdges, Placed, Done
<1> QED
  BY <1>1, TInvariant, PTL

------------------------------------------------------------------------------
(* The invariant of pipelines *)

\* A node of a pipeline has one way out.
LEMMA OneSuccessor ==
  ASSUME Pipeline, NEW n \in Node, NEW k \in Successors(n), NEW m \in Successors(n)
  PROVE  k = m
BY DEF Pipeline, Successors

LEMMA EndsSingle ==
  ASSUME Pipeline, NEW s \in SchedulerState, NEW t \in SchedulerState, NEW n \in Node,
         NEW success \in BOOLEAN, OnePlace(s), Single(s), n \in s.running,
         Ends(s, t, n, success), END_NODE_ID \notin t.ready \ s.ready
  PROVE  Single(t)
<1>1. n \in Front(s) /\ n \notin s.ready /\ n \notin Done(s)
  BY DEF Front, OnePlace
<1>2. \A m \in Node : m \notin s.ready /\ (m \in s.running => m = n)
  BY <1>1 DEF Single, Front
<1>3. Placed(s) \subseteq Placed(t)
  BY DEF Ends, Placed, Done
<1>4. ASSUME NEW m \in Front(t)
      PROVE  \/ m \in Successors(n) \cap t.ready
             \/ m = n /\ ~(Successors(n) \cap Node \subseteq Placed(t))
  <2>1. m \in Node
    BY DEF Front
  <2>2. CASE m \in t.ready \cup t.running
    BY <2>1, <2>2, <1>2 DEF Ends
  <2>3. CASE m \in Done(t) /\ ~(Successors(m) \cap Node \subseteq Placed(t))
    <3>1. m \in Done(s) => m \in Front(s)
      BY <2>1, <2>3, <1>3 DEF Front
    <3>2. m \in Done(s) \cup {n}
      BY <2>3 DEF Ends, Done
    <3> QED BY <2>3, <3>1, <3>2, <1>1 DEF Single
  <2> QED BY <2>2, <2>3 DEF Front
<1>5. ASSUME NEW m \in Front(t), NEW k \in Front(t) PROVE m = k
  <2>1. \A j \in Successors(n) \cap t.ready : Successors(n) \cap Node \subseteq Placed(t)
    BY OneSuccessor DEF Placed
  <2> QED BY <2>1, <1>4, OneSuccessor
<1>6. END_NODE_ID \notin Placed(t)
  BY EdgeEnds DEF Single, Placed, Done, Ends
<1> QED
  BY <1>5, <1>6 DEF Single

LEMMA OpensSingle ==
  ASSUME Pipeline, NEW s \in SchedulerState, NEW t \in SchedulerState, NEW n \in Node,
         OnePlace(s), Single(s), n \in Done(s), Successors(n) \cap s.failed \cap Node = {},
         Opens(s, t, n)
  PROVE  Single(t)
<1>1. Done(t) = Done(s) /\ Placed(s) \subseteq Placed(t)
  BY DEF Opens, Done, Placed
<1>2. END_NODE_ID \notin Placed(t)
  BY DEF Single, Placed, Done, Opens
<1>3. CASE t.ready \cap Node \subseteq s.ready
  <2>1. Front(t) \subseteq Front(s)
    BY <1>1, <1>3 DEF Front, Opens
  <2> QED BY <2>1, <1>2 DEF Single
<1>4. CASE ~(t.ready \cap Node \subseteq s.ready)
  <2>1. PICK new \in t.ready \cap Node : new \notin s.ready
    BY <1>4
  <2>2. new \in Successors(n) /\ new \notin Placed(s)
    BY <2>1 DEF Opens, Placed, Done
  <2>3. n \in Front(s) /\ n \notin s.ready \cup s.running
    BY <2>1, <2>2 DEF Front, OnePlace
  <2>4. \A m \in Node : m \notin s.ready \cup s.running
    BY <2>3 DEF Single, Front
  <2>5. Successors(n) \cap Node \subseteq Placed(t)
    BY <2>1, <2>2, OneSuccessor DEF Placed
  <2>6. ASSUME NEW m \in Front(t) PROVE m = new
    <3>1. m \in Node
      BY DEF Front
    <3>2. CASE m \in t.ready \cup t.running
      BY <3>1, <3>2, <2>2, <2>4, OneSuccessor DEF Opens
    <3>3. CASE m \in Done(t) /\ ~(Successors(m) \cap Node \subseteq Placed(t))
      <4>1. m \in Front(s)
        BY <3>1, <3>3, <1>1 DEF Front
      <4>2. m = n
        BY <4>1, <2>3 DEF Single
      <4> QED BY <4>2, <3>3, <2>5
    <3> QED BY <3>2, <3>3 DEF Front
  <2> QED BY <2>6, <1>2 DEF Single
<1> QED
  BY <1>3, <1>4

\* Whoever leads to the end has everything behind it.
LEMMA EndIsAll ==
  ASSUME Pipeline, NEW s \in SchedulerState, NEW n \in Node,
         Ordered(s), n \in Done(s), END_NODE_ID \in Successors(n)
  PROVE  AllDone(s)
<1> DEFINE S == Done(s) \cap Node
<1>1. \A m \in S : \A e \in EdgesTo(m) : e.from_node \in S \cup {START_NODE_ID}
  BY GraphAssumption DEF GraphAssumption, Ordered, Placed, EdgesTo, Edge
<1>2. S = Node
  BY <1>1 DEF Pipeline
<1> QED
  BY <1>2 DEF AllDone

\* is_complete adds two numbers.  They count everything, because no node is
\* in both sets and the end marker is in neither.
LEMMA CompleteIsAll ==
  ASSUME NEW s \in SchedulerState, OnePlace(s), END_NODE_ID \notin Placed(s), IsComplete(s)
  PROVE  AllDone(s)
<1>1. s.completed \subseteq Node /\ s.failed \subseteq Node /\ IsFiniteSet(Node)
  BY GraphAssumption DEF GraphAssumption, SchedulerState, Placed, Done, Id
<1>2. s.completed \cap s.failed = {}
  BY <1>1 DEF OnePlace
<1>3. /\ IsFiniteSet(s.completed) /\ IsFiniteSet(s.failed) /\ IsFiniteSet(Done(s))
      /\ Done(s) \subseteq Node /\ Cardinality(Done(s)) <= Cardinality(Node)
  BY <1>1, FS_Subset, Zenon DEF Done
<1>4. Cardinality(Done(s)) = Cardinality(s.completed) + Cardinality(s.failed) - Cardinality({})
  BY <1>2, <1>3, FS_Union DEF Done
<1>5. /\ Cardinality(Done(s)) \in Nat /\ Cardinality(Node) \in Nat
      /\ Cardinality(s.completed) \in Nat /\ Cardinality(s.failed) \in Nat
  BY <1>1, <1>3, FS_CardinalityType
<1>6. Cardinality(Done(s)) = Cardinality(Node)
  BY <1>3, <1>4, <1>5, FS_EmptySet DEF IsComplete
<1>7. Done(s) = Node
  BY <1>1, <1>3, <1>6, FS_Subset
<1> QED
  BY <1>7 DEF AllDone

LEMMA CompletedSingle ==
  ASSUME Pipeline, RInv, TInv, PInv, NEW n \in Node, result[n] # "none"
  PROVE  LET s == Completed(sched, n, result[n] = "completed")
         IN  /\ Single(s) /\ Done(sched) \subseteq Done(s)
             /\ s.ready \ sched.ready \subseteq Successors(n)
             /\ result[n] # "completed" => s.ready = sched.ready
             /\ s.completed \subseteq sched.completed \cup {n}
<1> DEFINE success == result[n] = "completed"
           s == Completed(sched, n, success)
<1>1. n \in sched.running /\ sched \in SchedulerState /\ success \in BOOLEAN
  BY DEF RInv, Results, Flight, TypeOK
<1>2. Tree /\ \A e \in Edges : e.edge_type # "error"
  BY DEF Pipeline
<1>3. /\ s \in SchedulerState /\ Ends(sched, s, n, success)
      /\ END_NODE_ID \notin s.ready \ sched.ready /\ (~success => s.ready = sched.ready)
  BY <1>1, <1>2, CompletedEnds
<1> HIDE DEF s
<1>4. Single(s)
  BY <1>1, <1>3, EndsSingle DEF PInv, TInv, Placement
<1>5. Done(sched) \subseteq Done(s) /\ s.completed \subseteq sched.completed \cup {n}
  BY <1>3 DEF Ends, Done
<1> QED
  BY <1>3, <1>4, <1>5 DEF Ends, s

LEMMA RoutedSingle ==
  ASSUME Pipeline, NEW s \in SchedulerState, NEW g \in GraphState, NEW n \in Node, NEW holding,
         Placement(s, g), Single(s), n \in Done(s), Successors(n) \cap s.failed \cap Node = {}
  PROVE  LET d == Routed([sched |-> s, state |-> g], n, holding)
         IN  /\ Single(d.sched) /\ Done(d.sched) = Done(s) /\ d.sched.completed = s.completed
             /\ d.sched.ready \ s.ready \subseteq Successors(n)
             /\ \/ d.state = g
                \/ d.state.termination_reason = "completed" /\ AllDone(d.sched)
<1> DEFINE c == [sched |-> s, state |-> g]
           d == Routed(c, n, holding)
<1>1. c \in Pair /\ c.sched = s /\ c.state = g /\ Tree
  BY DEF Pair, Pipeline
<1> HIDE DEF c
<1>2. /\ d \in Pair /\ Opens(s, d.sched, n)
      /\ \/ d.state = g
         \/ d.state = Marked(g, "completed", "reached_end") /\ END_NODE_ID \in Successors(n)
  BY <1>1, RoutedOpens
<1> HIDE DEF d
<1>3. d.sched \in SchedulerState /\ Done(d.sched) = Done(s) /\ d.sched.completed = s.completed
  BY <1>2 DEF Pair, Opens, Done
<1>4. Single(d.sched)
  BY <1>2, <1>3, OpensSingle DEF Placement
<1>5. END_NODE_ID \in Successors(n) => AllDone(d.sched)
  BY <1>3, EndIsAll DEF Placement, AllDone
<1>6. Marked(g, "completed", "reached_end").termination_reason = "completed"
  BY DEF Marked, GraphState
<1> QED
  BY <1>2, <1>3, <1>4, <1>5, <1>6 DEF Opens, c, d

\* What a step must show: it ends in a single front, forgets nobody who is
\* done, and reports a completion only when everything is done.
LEMMA StepPInv ==
  ASSUME PInv, ~grouped', Single(sched'), Done(sched) \subseteq Done(sched'),
         \A n \in Node : Kind[n] = "human" => result'[n] \in {"none", "paused"},
         state'.termination_reason = "completed" =>
           state.termination_reason = "completed" \/ AllDone(sched'),
         status' = "COMPLETED" =>
           status = "COMPLETED" \/ state.termination_reason = "completed",
         saved' # NULL => \/ saved' = saved
                          \/ /\ Single(saved'.sched)
                             /\ saved'.state = state /\ Done(saved'.sched) = Done(sched)
  PROVE  PInv'
<1>1. AllDone(sched) => AllDone(sched')
  BY DEF AllDone
<1>2. saved' # NULL =>
        /\ Single(saved'.sched)
        /\ saved'.state.termination_reason = "completed" => AllDone(saved'.sched)
  BY DEF PInv, AllDone
<1> QED
  BY <1>1, <1>2 DEF PInv

LEMMA InitPInv == Init => PInv
<1> SUFFICES ASSUME Init PROVE PInv
  OBVIOUS
<1>1. sched.ready = {} /\ sched.running = {} /\ Done(sched) = {}
  BY DEF Init, Done
<1>2. Single(sched)
  BY <1>1 DEF Single, Front, Placed
<1>3. state.termination_reason = NULL
  BY DEF Init, InitialState
<1>4. NULL # "completed"
  BY RuntimeAssumption DEF RuntimeAssumption
<1> QED
  BY <1>2, <1>3, <1>4 DEF PInv, Init, NoResult

LEMMA ExecutePInv == Pipeline /\ RInv /\ TInv /\ PInv /\ Execute => PInv'
<1> SUFFICES ASSUME Pipeline, RInv, TInv, PInv, Execute PROVE PInv'
  OBVIOUS
<1>1. /\ sched' = Initialize(StartNodes) /\ state' = InitialState /\ status' = "RUNNING"
      /\ UNCHANGED <<grouped, result, saved>>
  BY DEF Execute
<1>2. /\ sched'.running = {} /\ Done(sched') = {}
      /\ sched'.ready \subseteq Node /\ \A m, n \in sched'.ready : m = n
  <2>1. sched'.ready \subseteq Node
    BY <1>1, InitialReady
  <2> QED BY <1>1, <2>1, InitializeFacts DEF Done, Pipeline
<1>3. Single(sched')
  BY <1>2, EdgeEnds DEF Single, Front, Placed
<1>4. state'.termination_reason # "completed"
  BY <1>1, RuntimeAssumption DEF InitialState, RuntimeAssumption
<1> QED
  BY <1>1, <1>3, <1>4 DEF PInv

LEMMA LeavePInv ==
  ASSUME RInv, TInv, PInv,
         StopTerminated \/ StopAtLimit \/ HonourCancel \/ HonourPause \/ NothingLeft
           \/ NothingEligible \/ ResumeRaises \/ RequestPause \/ RequestCancel \/ Cancel \/ Crash
  PROVE  PInv'
<1>1. /\ UNCHANGED <<sched, result, grouped, saved>>
      /\ status' # status => status' # "COMPLETED"
  BY DEF StopTerminated, StopAtLimit, HonourCancel, HonourPause, NothingLeft, NothingEligible,
         ResumeRaises, RequestPause, RequestCancel, Cancel, Asked, Crash
<1>2. state \in GraphState
  BY DEF RInv, TypeOK
<1>3. \A reason, cause : Marked(state, reason, cause).termination_reason = reason
  BY <1>2 DEF Marked, GraphState
<1>4. CASE NothingLeft
  <2>1. IsComplete(sched) => AllDone(sched)
    BY CompleteIsAll DEF RInv, TypeOK, TInv, Placement, PInv, Single
  <2>2. state'.termination_reason = "completed" => AllDone(sched')
    BY <1>1, <1>3, <1>4, <2>1 DEF NothingLeft
  <2> QED BY <1>1, <2>2, StepPInv DEF PInv
<1>5. CASE ~NothingLeft
  <2>1. \/ state' = state
        \/ \E reason \in {NULL, "max_iterations", "error", "cancelled"} : \E cause :
             state' = Marked(state, reason, cause)
    BY <1>5 DEF StopTerminated, StopAtLimit, HonourCancel, HonourPause, NothingEligible,
                ResumeRaises, Reopened, RequestPause, RequestCancel, Cancel, Asked, Crash
  <2>2. state'.termination_reason = "completed" => state.termination_reason = "completed"
    BY <1>3, <2>1, RuntimeAssumption DEF RuntimeAssumption
  <2> QED BY <1>1, <2>2, StepPInv DEF PInv
<1> QED
  BY <1>4, <1>5

\* The end marker is never handed out.
LEMMA NoMissing == PInv => ~DispatchMissing
<1> SUFFICES ASSUME PInv, DispatchMissing PROVE FALSE
  OBVIOUS
<1>1. PICK eligible \in Eligible : {END_NODE_ID} \in Batches(eligible)
  BY DEF DispatchMissing
<1>2. END_NODE_ID \in sched.ready
  BY <1>1, BatchFacts DEF Eligible
<1> QED
  BY <1>2 DEF PInv, Single, Placed

LEMMA SchedulePInv == RInv /\ TInv /\ PInv /\ Schedule => PInv'
<1> SUFFICES ASSUME RInv, TInv, PInv, Schedule PROVE PInv'
  OBVIOUS
<1>1. PICK eligible \in Eligible : \E batch \in Batches(eligible) :
        /\ sched' = Dispatched(sched, batch)
        /\ grouped' = (Cardinality(batch) > 1)
        /\ \E last \in batch \ {END_NODE_ID} : state' = [state EXCEPT !.current_node_id = last]
  BY DEF Schedule
<1>2. PICK batch \in Batches(eligible) :
        /\ sched' = Dispatched(sched, batch)
        /\ grouped' = (Cardinality(batch) > 1)
        /\ \E last \in batch \ {END_NODE_ID} : state' = [state EXCEPT !.current_node_id = last]
  BY <1>1
<1>3. /\ status' = status /\ UNCHANGED <<result, saved>>
  BY DEF Schedule
<1>4. batch \subseteq sched.ready
  BY BatchFacts DEF Eligible
<1>5. sched \in SchedulerState /\ state \in GraphState
  BY DEF RInv, TypeOK
<1>6. /\ sched'.ready = sched.ready \ batch /\ sched'.running = sched.running \cup batch
      /\ sched'.completed = sched.completed /\ sched'.failed = sched.failed
  BY <1>2, <1>5 DEF Dispatched, SchedulerState
<1>7. Done(sched') = Done(sched) /\ Placed(sched') = Placed(sched)
  BY <1>4, <1>6 DEF Done, Placed
<1>8. Front(sched') = Front(sched)
  BY <1>4, <1>6, <1>7 DEF Front
<1>9. Single(sched')
  BY <1>7, <1>8 DEF PInv, Single
<1>10. \A m, n \in batch : m = n
  BY <1>4, <1>5 DEF PInv, Single, Front, Placed, SchedulerState, Id
<1>11. ~grouped'
  <2>1. PICK last : last \in batch
    BY <1>2
  <2>2. batch = {last}
    BY <1>10, <2>1
  <2>3. Cardinality(batch) = 1
    BY <2>2, FS_Singleton
  <2>4. (Cardinality(batch) > 1) = FALSE
    BY <2>3
  <2> QED BY <1>2, <2>4, Zenon
<1>12. state'.termination_reason = state.termination_reason
  BY <1>2, <1>5 DEF GraphState
<1> QED
  BY <1>3, <1>7, <1>9, <1>11, <1>12, StepPInv DEF PInv

LEMMA FinishPInv ==
  ASSUME RInv, TInv, PInv, NEW n \in Node, FinishNode(n)
  PROVE  PInv'
<1>1. state \in GraphState /\ result \in [Node -> Outcome]
  BY DEF RInv, TypeOK
<1>2. ASSUME NEW outcome, NEW g \in GraphState, Finish(n, outcome, g),
             Kind[n] = "human" => outcome = "paused",
             g.termination_reason = "completed" => state.termination_reason = "completed"
      PROVE  PInv'
  <2>1. /\ result' = [result EXCEPT ![n] = outcome] /\ state' = Recorded(g, n, outcome)
        /\ UNCHANGED <<sched, status, grouped, saved>>
    BY <1>2 DEF Finish
  <2>2. state'.termination_reason = g.termination_reason
    BY <2>1 DEF Recorded, GraphState
  <2>3. \A m \in Node : Kind[m] = "human" => result'[m] \in {"none", "paused"}
    BY <1>1, <1>2, <2>1 DEF PInv
  <2> QED BY <1>2, <2>1, <2>2, <2>3, StepPInv DEF PInv
<1>3. ASSUME NEW verdict \in {"pass", "fail", state.quality_passed}
      PROVE  /\ [state EXCEPT !.quality_passed = verdict] \in GraphState
             /\ [state EXCEPT !.quality_passed = verdict].termination_reason
                  = state.termination_reason
  BY <1>1 DEF GraphState
<1>4. CASE \E verdict \in {"pass", "fail"} : JudgeOutput(n, verdict)
  BY <1>2, <1>3, <1>4 DEF JudgeOutput, Judges
<1>5. CASE GateFails(n)
  BY <1>2, <1>3, <1>5 DEF GateFails, Judges
<1>6. CASE AskHuman(n) \/ AskAdaptive(n)
  <2> DEFINE g == Marked(state, "paused", "awaiting_user")
             h == [g EXCEPT !.pause_context = n]
  <2>1. g \in GraphState
    BY <1>1, MarkedType DEF Reason, Cause
  <2>2. g.termination_reason = "paused"
    BY <1>1 DEF Marked, GraphState
  <2> HIDE DEF g
  <2>3. h \in GraphState /\ h.termination_reason = "paused"
    BY <2>1, <2>2 DEF GraphState
  <2>4. \E outcome : Finish(n, outcome, h) /\ (Kind[n] = "human" => outcome = "paused")
    BY <1>6, RuntimeAssumption DEF AskHuman, AskAdaptive, RuntimeAssumption, g
  <2> HIDE DEF h
  <2> QED BY <1>2, <2>3, <2>4
<1>7. CASE CountLoop(n)
  <2> DEFINE g == [state EXCEPT !.iteration_count = @ + 1]
  <2>1. g \in GraphState /\ g.termination_reason = state.termination_reason
    BY <1>1 DEF GraphState
  <2>2. Finish(n, "completed", g) /\ Kind[n] # "human"
    BY <1>7 DEF CountLoop
  <2> HIDE DEF g
  <2> QED BY <1>2, <2>1, <2>2
<1>8. CASE Work(n)
  BY <1>1, <1>2, <1>8 DEF Work
<1> QED
  BY <1>4, <1>5, <1>6, <1>7, <1>8 DEF FinishNode

LEMMA SettlePausedPInv ==
  ASSUME Pipeline, RInv, TInv, PInv, NEW n \in Node, SettlePaused(n) \/ RouteRaises(n)
  PROVE  PInv'
<1>1. /\ result[n] # "none" /\ sched' = Completed(sched, n, result[n] = "completed")
      /\ state' = state \/ state' = Marked(state, "error", "exception")
      /\ status' # "COMPLETED" /\ result' = NoResult /\ UNCHANGED <<grouped, saved>>
  BY DEF SettlePaused, RouteRaises
<1>2. Single(sched') /\ Done(sched) \subseteq Done(sched')
  BY <1>1, CompletedSingle
<1>3. state'.termination_reason = "completed" => state.termination_reason = "completed"
  BY <1>1 DEF Marked, RInv, TypeOK, GraphState
<1> QED
  BY <1>1, <1>2, <1>3, StepPInv DEF PInv, NoResult

\* What settling one result does to a pipeline: what becomes ready follows the
\* node, which is no human, and the batch is over.
LEMMA SettleFacts ==
  ASSUME Pipeline, RInv, TInv, PInv, NEW n \in Node, Settle(n)
  PROVE  /\ Single(sched') /\ Done(sched) \subseteq Done(sched')
         /\ sched'.ready \ sched.ready \subseteq Successors(n)
         /\ sched'.completed \subseteq sched.completed \cup {n}
         /\ Kind[n] # "human" /\ pc' = "tail"
         /\ state' = state \/ (state'.termination_reason = "completed" /\ AllDone(sched'))
<1>1. PICK holding \in SUBSET OtherEdges(n) :
        LET c == Routed([sched |-> Completed(sched, n, result[n] = "completed"),
                         state |-> state], n, holding)
        IN  sched' = c.sched /\ state' = c.state
  BY DEF Settle
<1>2. /\ pc = "settling" /\ result[n] # "none" /\ ~PausesRun(n)
      /\ result' = [result EXCEPT ![n] = "none"]
      /\ pc' = IF result' = NoResult THEN "tail" ELSE "settling"
  BY DEF Settle, PInv
<1> DEFINE s == Completed(sched, n, result[n] = "completed")
<1>3. /\ s \in SchedulerState /\ Placement(s, state) /\ n \in Done(s)
      /\ Successors(n) \cap s.failed \cap Node = {}
  BY <1>2, SettledPlaces DEF Pipeline
<1>4. /\ Single(s) /\ Done(sched) \subseteq Done(s)
      /\ s.ready \ sched.ready \subseteq Successors(n)
      /\ s.completed \subseteq sched.completed \cup {n}
  BY <1>2, CompletedSingle
<1>5. LET d == Routed([sched |-> s, state |-> state], n, holding)
      IN  /\ Single(d.sched) /\ Done(d.sched) = Done(s) /\ d.sched.completed = s.completed
          /\ d.sched.ready \ s.ready \subseteq Successors(n)
          /\ \/ d.state = state
             \/ d.state.termination_reason = "completed" /\ AllDone(d.sched)
  <2> HIDE DEF s
  <2> QED BY <1>3, <1>4, RoutedSingle DEF RInv, TypeOK
<1>6. result' = NoResult
  <2>1. \A m \in Node : result'[m] = "none"
    BY <1>2 DEF RInv, TypeOK, Results, OneBatch, PInv
  <2>2. result' \in [Node -> Outcome]
    BY <1>2 DEF RInv, TypeOK, Outcome
  <2> QED BY <2>1, <2>2 DEF NoResult
<1>7. Kind[n] # "human"
  BY <1>2 DEF PausesRun, PInv
<1> HIDE DEF s
<1> QED
  BY <1>1, <1>2, <1>4, <1>5, <1>6, <1>7 DEF s

LEMMA SettlePInv ==
  ASSUME Pipeline, RInv, TInv, PInv, NEW n \in Node, Settle(n)
  PROVE  PInv'
<1>1. /\ result' = [result EXCEPT ![n] = "none"] /\ UNCHANGED <<status, grouped, saved>>
  BY DEF Settle
<1>2. \A m \in Node : Kind[m] = "human" => result'[m] \in {"none", "paused"}
  BY <1>1 DEF PInv, RInv, TypeOK
<1> QED
  BY <1>1, <1>2, SettleFacts, StepPInv DEF PInv

LEMMA RestoredSingle ==
  ASSUME RInv, Flight(sched) = {}, Single(sched)
  PROVE  Single(Restored(sched)) /\ Done(Restored(sched)) = Done(sched)
<1> DEFINE s == Restored(sched)
<1>1. /\ s.ready = sched.ready /\ s.running = {}
      /\ s.completed = sched.completed /\ s.failed = sched.failed
  BY DEF Restored, RInv, TypeOK, SchedulerState
<1> HIDE DEF s
<1>2. Done(s) = Done(sched) /\ \A m \in Node : m \in Placed(s) <=> m \in Placed(sched)
  BY <1>1 DEF Done, Placed, Flight
<1>3. Front(s) \subseteq Front(sched)
  BY <1>1, <1>2 DEF Front
<1>4. END_NODE_ID \notin Placed(s)
  BY <1>1, <1>2 DEF Single, Placed
<1> QED
  BY <1>2, <1>3, <1>4 DEF Single, s

LEMMA TailPInv == RInv /\ TInv /\ PInv /\ (Tail \/ Final) => PInv'
<1> SUFFICES ASSUME RInv, TInv, PInv, Tail \/ Final PROVE PInv'
  OBVIOUS
<1>1. /\ pc \in {"tail", "final"} /\ UNCHANGED <<sched, result, grouped>>
      /\ state' = state \/ state' = Marked(state, "error", "safety_limit")
      /\ SaveCheckpoint(state) \/ saved' = saved
      /\ status' = "COMPLETED" => status = "COMPLETED" \/ state.termination_reason = "completed"
  BY DEF Tail, Final
<1>2. Single(Restored(sched)) /\ Done(Restored(sched)) = Done(sched)
  BY <1>1, RestoredSingle DEF RInv, Quiet, PInv
<1>3. state'.termination_reason = "completed" => state.termination_reason = "completed"
  BY <1>1 DEF Marked, RInv, TypeOK, GraphState
<1>4. saved' # NULL => \/ saved' = saved
                       \/ /\ Single(saved'.sched)
                          /\ saved'.state = state /\ Done(saved'.sched) = Done(sched)
  BY <1>1, <1>2 DEF SaveCheckpoint
<1> QED
  BY <1>1, <1>3, <1>4, StepPInv DEF PInv

\* What a resume does to a pipeline.
LEMMA ResumeSingle ==
  ASSUME Pipeline, RInv, TInv, PInv, Resume
  PROVE  /\ Single(sched') /\ Done(sched) = Done(sched') /\ sched'.completed = sched.completed
         /\ state'.termination_reason = "completed" => AllDone(sched')
<1>1. /\ pc \in {"stopped", "recovered"} /\ status = "PAUSED"
      /\ sched \in SchedulerState /\ state \in GraphState
  BY DEF Resume, RInv, TypeOK
<1>2. Flight(sched) = {}
  BY <1>1 DEF RInv, Quiet
<1>3. /\ Reopened \in GraphState /\ SameNodes(state, Reopened)
      /\ Reopened.termination_reason = NULL
  <2>1. Reopened \in GraphState /\ SameNodes(state, Reopened)
    BY <1>1, MarkedType, MarkedNodes DEF Reopened, Reason, Cause
  <2>2. Reopened.termination_reason = NULL
    BY <1>1 DEF Reopened, Marked, GraphState
  <2> QED BY <2>1, <2>2
<1>4. Placement(sched, Reopened)
  BY <1>3, SameNodesPlacement DEF TInv
<1>5. NULL # "completed"
  BY RuntimeAssumption DEF RuntimeAssumption
<1>6. CASE PausedNode = NULL
  BY <1>3, <1>5, <1>6 DEF Resume, PInv
<1>7. CASE PausedNode # NULL
  <2>1. PausedNode \in Node
    BY <1>1, <1>7 DEF PausedNode, GraphState
  <2>2. PICK holding \in SUBSET OtherEdges(PausedNode) :
          LET c == Routed([sched |-> sched, state |-> Reopened], PausedNode, holding)
          IN  sched' = c.sched /\ state' = c.state
    BY <1>7 DEF Resume
  <2>3. PausedNode \in Done(sched)
    BY <2>1, <1>2, <1>7 DEF TInv, Placement, Resumable, PausedNode, Flight
  <2>4. Successors(PausedNode) \cap sched.failed \cap Node = {}
    BY DEF TInv, Placement, Resumable, PausedNode
  <2> HIDE DEF PausedNode, Reopened
  <2>5. LET d == Routed([sched |-> sched, state |-> Reopened], PausedNode, holding)
        IN  /\ Single(d.sched) /\ Done(d.sched) = Done(sched)
            /\ d.sched.completed = sched.completed
            /\ \/ d.state = Reopened
               \/ d.state.termination_reason = "completed" /\ AllDone(d.sched)
    BY <2>1, <2>3, <2>4, <1>1, <1>3, <1>4, RoutedSingle DEF PInv
  <2> QED BY <2>2, <2>5, <1>3, <1>5
<1> QED
  BY <1>6, <1>7

LEMMA ResumePInv == Pipeline /\ RInv /\ TInv /\ PInv /\ Resume => PInv'
<1> SUFFICES ASSUME Pipeline, RInv, TInv, PInv, Resume PROVE PInv'
  OBVIOUS
<1>1. status' = "RUNNING" /\ UNCHANGED <<result, grouped, saved>>
  BY DEF Resume
<1> QED
  BY <1>1, ResumeSingle, StepPInv DEF PInv

LEMMA RecoverPInv == RInv /\ PInv /\ Recover => PInv'
<1> SUFFICES ASSUME RInv, PInv, Recover PROVE PInv'
  OBVIOUS
<1>1. /\ saved # NULL /\ sched' = saved.sched /\ state' = saved.state /\ result' = NoResult
      /\ ~grouped' /\ status' = "PAUSED" /\ saved' = saved
  BY DEF Recover
<1> QED
  BY <1>1 DEF PInv, NoResult

LEMMA NextPInv == Pipeline /\ RInv /\ TInv /\ PInv /\ [Next]_vars => PInv'
<1> SUFFICES ASSUME Pipeline, RInv, TInv, PInv, [Next]_vars PROVE PInv'
  OBVIOUS
<1>1. CASE MainLoop
  <2>1. CASE \E n \in Node : FinishNode(n) \/ SettlePaused(n) \/ Settle(n) \/ RouteRaises(n)
    BY <2>1, FinishPInv, SettlePausedPInv, SettlePInv
  <2> QED
    BY <1>1, <2>1, ExecutePInv, LeavePInv, NoMissing, SchedulePInv, TailPInv DEF MainLoop
<1>2. CASE Environment
  <2>1. \A n \in Node : ~ReplayFrom(n)
    BY DEF ReplayFrom, Pipeline, Tree, RInv, TypeOK
  <2> QED
    BY <1>2, <2>1, ResumePInv, LeavePInv, RecoverPInv DEF Environment
<1>3. CASE UNCHANGED vars
  BY <1>3 DEF vars, PInv
<1> QED
  BY <1>1, <1>2, <1>3 DEF Next

LEMMA PInvariant ==
  ASSUME Pipeline
  PROVE  Spec => [](RInv /\ TInv /\ PInv)
<1>1. Tree
  BY DEF Pipeline
<1>2. RInv /\ TInv /\ PInv /\ [Next]_vars => (RInv /\ TInv /\ PInv)'
  BY <1>1, NextRInv, NextTInv, NextPInv
<1>3. Init => RInv /\ TInv /\ PInv
  BY InitRInv, InitTInv, InitPInv
<1> QED
  BY <1>2, <1>3, PTL DEF Spec

\* A pipeline that is reported as completed has executed all of its nodes,
\* whether the end was reached by routing (also by the second routing of a
\* resume) or by the counting of is_complete.
THEOREM PipelineCompletes ==
  ASSUME Pipeline
  PROVE  Spec => []CompletedMeansDone
<1>1. PInv => CompletedMeansDone
  BY DEF PInv, AllDone, Done, CompletedMeansDone
<1> QED
  BY <1>1, PInvariant, PTL

------------------------------------------------------------------------------
(* The human gate of a pipeline *)

\* A node that becomes ready in a step of the main loop follows a node that
\* was settled, and that node is no human.
LEMMA ReadiedAfter ==
  ASSUME Pipeline, RInv, TInv, PInv, MainLoop, NEW n \in Node,
         n \notin sched.ready, n \in sched'.ready
  PROVE  \/ \A e \in EdgesTo(n) : e.from_node = START_NODE_ID
         \/ \E m \in Node : Kind[m] # "human" /\ n \in Successors(m)
<1>1. CASE Execute
  BY <1>1, InitialOrdered DEF Execute, Pipeline
<1>2. ASSUME NEW m \in Node, Settle(m)
      PROVE  \E k \in Node : Kind[k] # "human" /\ n \in Successors(k)
  BY <1>2, SettleFacts
<1>3. ASSUME NEW m \in Node, SettlePaused(m) \/ RouteRaises(m)
      PROVE  \E k \in Node : Kind[k] # "human" /\ n \in Successors(k)
  <2>1. result[m] # "none" /\ sched' = Completed(sched, m, result[m] = "completed")
    BY <1>3 DEF SettlePaused, RouteRaises
  <2>2. result[m] = "completed" /\ n \in Successors(m)
    BY <2>1, CompletedSingle
  <2> QED BY <2>2 DEF PInv
<1>4. CASE Schedule
  BY <1>4 DEF Schedule, Dispatched, RInv, TypeOK, SchedulerState
<1>5. ASSUME sched' = sched PROVE FALSE
  BY <1>5
<1>6. \A m \in Node : FinishNode(m) => sched' = sched
  BY DEF FinishNode, JudgeOutput, GateFails, AskHuman, AskAdaptive, CountLoop, Work, Finish
<1> QED
  BY <1>1, <1>2, <1>3, <1>4, <1>5, <1>6, NoMissing
  DEF MainLoop, StopTerminated, StopAtLimit, HonourCancel, HonourPause, NothingLeft,
      NothingEligible, Tail, Final

\* On a pipeline nothing passes a human node but by a resume or a recovery:
\* not the settling of its own result, nor an exception of a condition.
THEOREM PipelineHumanGate ==
  ASSUME Pipeline
  PROVE  Spec => HumanGate
<1> DEFINE Step ==
      \A h, n \in Node :
        /\ Kind[h] = "human" /\ {e.from_node : e \in BlockingEdges(n)} = {h}
        /\ n \notin sched.ready /\ n \in sched'.ready
        => (status = "PAUSED" /\ status' = "RUNNING") \/ pc = "down"
<1>1. RInv /\ TInv /\ PInv /\ [Next]_vars => Step
  <2> SUFFICES ASSUME RInv, TInv, PInv, [Next]_vars, NEW h \in Node, NEW n \in Node,
                      Kind[h] = "human", {e.from_node : e \in BlockingEdges(n)} = {h},
                      n \notin sched.ready, n \in sched'.ready
               PROVE  (status = "PAUSED" /\ status' = "RUNNING") \/ pc = "down"
    OBVIOUS
  <2>1. CASE MainLoop
    <3>1. PICK e \in BlockingEdges(n) : e.from_node = h
      OBVIOUS
    <3>2. e \in EdgesTo(n) /\ h # START_NODE_ID
      BY GraphAssumption DEF GraphAssumption, BlockingEdges
    <3>3. ASSUME NEW m \in Node, n \in Successors(m) PROVE m = h
      <4>1. PICK f \in EdgesTo(n) : f.from_node = m
        BY <3>3 DEF Successors, EdgesFrom, EdgesTo
      <4> QED BY <3>1, <3>2, <4>1 DEF Pipeline, Tree
    <3> QED BY <2>1, <3>1, <3>2, <3>3, ReadiedAfter
  <2>2. CASE Environment
    BY <2>2 DEF Environment, Resume, ResumeRaises, RequestPause, RequestCancel, Cancel, Asked,
                Crash, Recover, ReplayFrom, Pipeline, Tree, RInv, TypeOK
  <2>3. CASE UNCHANGED vars
    BY <2>3 DEF vars
  <2> QED
    BY <2>1, <2>2, <2>3 DEF Next
<1>2. RInv /\ TInv /\ PInv /\ [Next]_vars => [Step]_vars
  BY <1>1
<1> QED
  BY <1>2, PInvariant, PTL DEF Spec, HumanGate

------------------------------------------------------------------------------
(* What a crash costs on a pipeline *)

LEMMA FiniteIds ==
  ASSUME NEW S \in SUBSET Id
  PROVE  IsFiniteSet(S) /\ Cardinality(S) \in Nat
<1>1. IsFiniteSet(Id)
  BY GraphAssumption, FS_AddElement DEF GraphAssumption, Id
<1> QED
  BY <1>1, FS_Subset, FS_CardinalityType

LEMMA LostFinite ==
  ASSUME RInv
  PROVE  Lost \subseteq Id /\ IsFiniteSet(Lost) /\ Cardinality(Lost) \in Nat
<1>1. Lost \subseteq Id
  BY DEF Lost, RInv, TypeOK, SchedulerState
<1> QED
  BY <1>1, FiniteIds

\* A step after which nothing is lost has only to say so.
LEMMA NothingLost ==
  ASSUME RInv, RInv', Lost' = {}
  PROVE  LInv'
<1>1. Cardinality(Lost') = 0
  BY FS_EmptySet
<1>2. counts'.checkpoint \in Nat /\ CheckpointEvery \in Nat
  BY RuntimeAssumption DEF RuntimeAssumption, RInv, TypeOK
<1> QED
  BY <1>1, <1>2 DEF LInv

\* A step that settles a node loses it, and no other.
LEMMA OneMoreLost ==
  ASSUME RInv, LInv, pc = "settling", NEW n \in Node,
         sched'.completed \subseteq sched.completed \cup {n}, UNCHANGED <<counts, saved>>,
         pc' \in {"tail", "final"} \/ (pc' = "stopped" /\ status' # "PAUSED")
  PROVE  LInv'
<1>1. Lost' \subseteq Lost \cup {n}
  BY DEF Lost
<1>2. IsFiniteSet(Lost) /\ Cardinality(Lost) \in Nat /\ IsFiniteSet(Lost \cup {n})
  BY LostFinite, FS_AddElement
<1>3. Cardinality(Lost \cup {n}) <= Cardinality(Lost) + 1 /\ Cardinality(Lost \cup {n}) \in Nat
  BY <1>2, FS_AddElement
<1>4. Cardinality(Lost') <= Cardinality(Lost \cup {n}) /\ Cardinality(Lost') \in Nat
  BY <1>1, <1>2, FS_Subset, FS_CardinalityType
<1>5. counts.checkpoint + 1 <= CheckpointEvery /\ counts.checkpoint \in Nat
  BY RuntimeAssumption DEF RuntimeAssumption, RInv, TypeOK
<1>6. Cardinality(Lost) <= counts.checkpoint
  BY DEF LInv
<1>7. Cardinality(Lost') <= counts.checkpoint + 1
  BY <1>2, <1>3, <1>4, <1>5, <1>6
<1> QED
  BY <1>4, <1>5, <1>7, RuntimeAssumption DEF LInv, RuntimeAssumption

\* Steps that complete nothing and save nothing.
LEMMA SameLost ==
  ASSUME RInv, LInv, sched'.completed = sched.completed, saved' = saved,
         counts'.checkpoint = counts.checkpoint,
         pc' \in {"loop", "executing", "settling"} => pc \in {"loop", "executing", "settling"},
         pc' \in {"tail", "final"} => pc \in {"loop", "tail", "final"},
         pc' = "recovered" => pc = "recovered",
         pc' = "stopped" /\ status' = "PAUSED" => pc = "stopped" /\ status = "PAUSED"
  PROVE  LInv'
<1>1. Lost' = Lost
  BY DEF Lost
<1>2. Cardinality(Lost) \in Nat /\ counts.checkpoint \in Nat
  BY LostFinite DEF RInv, TypeOK
<1> QED
  BY <1>1, <1>2 DEF LInv

LEMMA InitLInv == Init => LInv
<1> SUFFICES ASSUME Init PROVE LInv
  OBVIOUS
<1>1. Lost = {}
  BY DEF Init, Lost
<1> QED
  BY <1>1, FS_EmptySet, RuntimeAssumption DEF Init, LInv, RuntimeAssumption

\* Every CheckpointEvery-th batch is followed by a checkpoint, and so is the end.
LEMMA TailLInv ==
  ASSUME SaveMayFail = FALSE, RInv, RInv', LInv, Tail
  PROVE  LInv'
<1>1. /\ pc = "tail" /\ pc' \in {"loop", "final"} /\ sched' = sched
      /\ counts' = [counts EXCEPT !.checkpoint = (@ + 1) % CheckpointEvery]
      /\ IF counts'.checkpoint = 0 THEN SaveCheckpoint(state) ELSE saved' = saved
  BY DEF Tail
<1>2. CASE counts'.checkpoint = 0
  <2>1. Lost' = {}
    BY <1>1, <1>2, SavedIsThere DEF Lost
  <2> QED BY <2>1, NothingLost
<1>3. CASE counts'.checkpoint # 0
  <2>1. Lost' = Lost
    BY <1>1, <1>3 DEF Lost
  <2>2. counts.checkpoint \in 0 .. CheckpointEvery - 1 /\ CheckpointEvery \in Nat \ {0}
    BY RuntimeAssumption DEF RuntimeAssumption, RInv, TypeOK
  <2>3. counts'.checkpoint = (counts.checkpoint + 1) % CheckpointEvery
    BY <1>1 DEF RInv, TypeOK
  <2>4. counts.checkpoint + 1 # CheckpointEvery
    BY <2>2, <2>3, <1>3
  <2>5. counts'.checkpoint = counts.checkpoint + 1
    BY <2>2, <2>3, <2>4
  <2>6. Cardinality(Lost) \in Nat /\ Cardinality(Lost) <= counts'.checkpoint
    BY <1>1, <2>5, LostFinite DEF LInv
  <2> QED BY <1>1, <2>1, <2>2, <2>5, <2>6 DEF LInv
<1> QED
  BY <1>2, <1>3

LEMMA FinalLInv ==
  ASSUME SaveMayFail = FALSE, RInv, RInv', Final
  PROVE  LInv'
<1>1. Lost' = {}
  BY SavedIsThere DEF Final, Lost
<1> QED
  BY <1>1, NothingLost

LEMMA NextLInv ==
  ASSUME Pipeline, SaveMayFail = FALSE, RInv, RInv', TInv, PInv, LInv, [Next]_vars
  PROVE  LInv'
<1>1. CASE Execute
  <2>1. sched'.completed = {}
    BY <1>1, InitializeFacts DEF Execute
  <2> QED BY <2>1, NothingLost DEF Lost
<1>2. CASE Schedule
  <2>1. /\ sched'.completed = sched.completed /\ counts'.checkpoint = counts.checkpoint
    BY <1>2 DEF Schedule, Dispatched, RInv, TypeOK, SchedulerState
  <2> QED BY <1>2, <2>1, SameLost DEF Schedule, Undisturbed, GoesOn
<1>3. ASSUME NEW n \in Node, FinishNode(n) PROVE LInv'
  <2>1. /\ UNCHANGED <<sched, counts, saved>>
        /\ pc = "executing" /\ pc' \in {"executing", "settling"}
    BY <1>3 DEF FinishNode, JudgeOutput, GateFails, AskHuman, AskAdaptive, CountLoop, Work, Finish
  <2> QED BY <2>1, SameLost
<1>4. ASSUME NEW n \in Node, Settle(n) PROVE LInv'
  BY <1>4, SettleFacts, OneMoreLost DEF Settle
<1>5. ASSUME NEW n \in Node, SettlePaused(n) \/ RouteRaises(n) PROVE LInv'
  <2>1. /\ result[n] # "none" /\ sched' = Completed(sched, n, result[n] = "completed")
        /\ UNCHANGED <<counts, saved>> /\ pc = "settling"
        /\ pc' = "final" \/ (pc' = "stopped" /\ status' # "PAUSED")
    BY <1>5 DEF SettlePaused, RouteRaises
  <2>2. sched'.completed \subseteq sched.completed \cup {n}
    BY <2>1, CompletedSingle
  <2> QED BY <2>1, <2>2, OneMoreLost
<1>6. CASE StopTerminated \/ StopAtLimit \/ HonourCancel \/ HonourPause \/ NothingLeft
           \/ NothingEligible \/ ResumeRaises \/ RequestPause \/ RequestCancel \/ Cancel \/ Crash
  <2>1. /\ UNCHANGED <<sched, counts, saved>>
        /\ \/ pc' = pc /\ status' \in {status, "CANCELLED"}
           \/ pc = "loop" /\ pc' = "final"
           \/ pc' = "stopped" /\ status' = "RUNNING"
           \/ pc' = "down"
    BY <1>6 DEF StopTerminated, StopAtLimit, HonourCancel, HonourPause, NothingLeft, GoesOn,
                NothingEligible, Undisturbed, ResumeRaises, RequestPause, RequestCancel, Cancel,
                Asked, Crash
  <2> QED BY <2>1, SameLost
<1>7. CASE Resume
  <2>1. sched'.completed = sched.completed /\ saved' = saved
    BY <1>7, ResumeSingle DEF Resume
  <2>2. Lost = {}
    BY <1>7 DEF Resume, LInv
  <2> QED BY <2>1, <2>2, NothingLost DEF Lost
<1>8. CASE Recover
  <2>1. Lost' = {}
    BY <1>8 DEF Recover, Lost
  <2> QED BY <2>1, NothingLost
<1>9. CASE UNCHANGED vars
  BY <1>9, SameLost DEF vars
<1>10. \A n \in Node : ~ReplayFrom(n)
  BY DEF ReplayFrom, Pipeline, Tree, RInv, TypeOK
<1>11. CASE MainLoop
  BY <1>1, <1>2, <1>3, <1>4, <1>5, <1>6, <1>11, TailLInv, FinalLInv, NoMissing DEF MainLoop
<1>12. CASE Environment
  BY <1>6, <1>7, <1>8, <1>10, <1>12 DEF Environment
<1> QED
  BY <1>9, <1>11, <1>12 DEF Next

\* While checkpoints are written at all, a crash of a pipeline costs at most
\* CheckpointEvery nodes.
THEOREM PipelineLossBounded ==
  ASSUME Pipeline, SaveMayFail = FALSE
  PROVE  Spec => []LossBounded
<1>1. RInv /\ TInv /\ PInv /\ RInv' /\ LInv /\ [Next]_vars => LInv'
  BY NextLInv
<1>2. LInv => LossBounded
  BY DEF LInv, LossBounded, Lost
<1> QED
  BY <1>1, <1>2, InitLInv, PInvariant, PTL DEF Spec
------------------------------------------------------------------------------
(* How a pipeline ends *)

\* Nothing stands in the way of a pipeline: no condition on an edge, no
\* precondition, no loop counter, no request but to pause, a limit of rounds
\* that fits its length, and no node off the path from the start.
Unhindered ==
  /\ Pipeline
  /\ \A e \in Edges : e.condition = "none"
  /\ \A n \in Node : Kind[n] # "loop"
  /\ Guarded = {} /\ Requests \subseteq {"pause"}
  /\ Cardinality(Node) <= 2 * MaxIterations
  /\ \A S \in SUBSET Node :
       /\ Initialize(StartNodes).ready \subseteq S
       /\ \A n \in S : Successors(n) \cap Node \subseteq S
       => S = Node

\* Who starts has a place, and so has what follows a node that is done, except
\* after the node that asked, which a resume is to route again.
Followed(s, n)  == Successors(n) \cap Node \subseteq Placed(s)
HandedOn(s, asked) ==
  /\ Initialize(StartNodes).ready \subseteq Placed(s)
  /\ \A n \in Done(s) \cap Node : n # asked => Followed(s, n)

StartedNodes == (sched.running \cup Done(sched)) \cap Node

\* Why the loop may be where it is: it is left for a completion or a pause.
Reasons ==
  /\ pc \in {"loop", "tail"} => state.termination_reason \in {NULL, "completed"}
  /\ pc = "executing" => state.termination_reason = NULL
  /\ pc = "settling" =>
       \/ state.termination_reason = NULL
       \/ /\ state.termination_reason = "paused"
          /\ \A n \in Node : result[n] # "none" => state.pause_context = n
  /\ pc = "final" => state.termination_reason = "completed" \/ status = "PAUSED"
  /\ pc = "stopped" => status \in {"COMPLETED", "PAUSED"}
  /\ \A n \in Node : result[n] = "paused" => state.pause_context = n

\* Nobody cancels, no loop counts, and a round is a node that was started.
Calm ==
  /\ ~control.cancel /\ state.iteration_count = 0
  /\ saved # NULL => ~saved.control.cancel /\ saved.state.iteration_count = 0
  /\ counts.iteration <= Cardinality(StartedNodes)

Behind ==
  /\ pc # "created" => HandedOn(sched, state.pause_context)
  /\ pc \in {"loop", "executing", "settling", "tail"} => HandedOn(sched, NULL)
  /\ saved # NULL => HandedOn(saved.sched, saved.state.pause_context)

EInv == Reasons /\ Calm /\ Behind

\* Without conditions routing gives what follows a node its place.
LEMMA RoutedFollows ==
  ASSUME Unhindered, NEW c \in Pair, NEW n \in Node, NEW holding
  PROVE  Followed(Routed(c, n, holding).sched, n)
<1> SUFFICES ASSUME NEW m \in Successors(n) \cap Node
             PROVE  m \in Placed(Routed(c, n, holding).sched)
  BY DEF Followed
<1> DEFINE targets   == Resolved(n, c.state, holding)
           back      == {t \in targets : HasEdge(n, t, "loop_back")}
           defensive == targets = {} /\ Kind[n] = "quality_gate" /\ c.state.quality_passed # "fail"
           ahead     == IF defensive
                        THEN {t \in Successors(n) : ~HasEdge(n, t, "loop_back")}
                        ELSE targets \ back
           ready     == c.sched.ready \cup (ahead \ ({END_NODE_ID} \cup c.sched.completed \cup c.sched.running))
           s         == [c.sched EXCEPT !.ready = ready]
           forward   == [c EXCEPT !.sched = s]
           g         == Marked(c.state, "completed", "reached_end")
           ended     == IF END_NODE_ID \in ahead
                        THEN [forward EXCEPT !.state = Marked(@, "completed", "reached_end")]
                        ELSE forward
           agent     == CHOOSE t \in back : TRUE
<1>1. Routed(c, n, holding) = IF back = {} THEN ended ELSE Requeued(ended, n, agent)
  BY Zenon DEF Routed, ScheduledNext
<1>2. m # END_NODE_ID
  BY EdgeEnds
<1>3. PICK e \in EdgesFrom(n) : e.to_node = m
  BY DEF Successors
<1>4. e.condition = "none" /\ \A f \in EdgesFrom(n) : f = e
  BY <1>3 DEF Unhindered, Pipeline, EdgesFrom
<1>5. m \in targets
  BY <1>2, <1>3, <1>4 DEF Resolved, Traversed
<1>6. back = {}
  BY DEF Unhindered, Pipeline, Tree, HasEdge, EdgesFrom
<1>7. m \in ahead
  BY <1>5, <1>6
<1>8. c.sched \in SchedulerState /\ c = [sched |-> c.sched, state |-> c.state]
  BY DEF Pair
<1> HIDE DEF targets, back, ahead
<1>9. m \in ready \cup c.sched.completed \cup c.sched.running
  BY <1>2, <1>7
<1> HIDE DEF ready
<1>10. s.ready = ready /\ s.running = c.sched.running /\ s.completed = c.sched.completed
  BY <1>8 DEF SchedulerState
<1> HIDE DEF s
<1>11. forward = [sched |-> s, state |-> c.state]
  BY <1>8, PairUpdate
<1> HIDE DEF forward
<1>12. [forward EXCEPT !.state = Marked(@, "completed", "reached_end")].sched = s /\ forward.sched = s
  BY <1>11
<1>13. ended.sched = s
  BY <1>12
<1> HIDE DEF ended
<1> QED
  BY <1>1, <1>6, <1>9, <1>10, <1>13 DEF Placed, Done

\* Nodes that are ended or made ready close the gaps, and make none but their
\* own.
LEMMA HandedOnGrows ==
  ASSUME NEW s, NEW t, NEW asked, HandedOn(s, asked), Placed(s) \subseteq Placed(t),
         \A n \in Done(t) \cap Node : n \in Done(s) \/ n = asked \/ Followed(t, n)
  PROVE  HandedOn(t, asked)
BY DEF HandedOn, Followed

LEMMA HandedOnWeakens ==
  ASSUME NEW s, NEW asked, HandedOn(s, NULL)
  PROVE  HandedOn(s, asked)
BY RuntimeAssumption DEF RuntimeAssumption, HandedOn

LEMMA InitEInv == Unhindered /\ Init => EInv
<1> SUFFICES ASSUME Unhindered, Init PROVE EInv
  OBVIOUS
<1>1. /\ pc = "created" /\ result = NoResult /\ saved = NULL /\ ~control.cancel
      /\ state.iteration_count = 0 /\ counts.iteration = 0
      /\ sched.running = {} /\ Done(sched) = {}
  BY DEF Init, InitialState, Zero, Done
<1>2. Cardinality(StartedNodes) = 0
  BY <1>1, FS_EmptySet DEF StartedNodes
<1> QED
  BY <1>1, <1>2 DEF EInv, Reasons, Calm, Behind, NoResult

LEMMA ExecuteEInv ==
  ASSUME Unhindered, RInv, TInv, EInv, Execute
  PROVE  EInv'
<1>1. /\ pc = "created" /\ pc' = "loop" /\ sched' = Initialize(StartNodes)
      /\ state'.iteration_count = 0 /\ state'.termination_reason = NULL
      /\ counts'.iteration = 0 /\ UNCHANGED <<control, result, saved>>
  BY DEF Execute, TInv, InitialState, Zero
<1>2. Done(sched') = {}
  BY <1>1, InitializeFacts DEF Done
<1>3. HandedOn(sched', NULL) /\ HandedOn(sched', state'.pause_context)
  BY <1>1, <1>2 DEF HandedOn, Placed
<1>4. result = NoResult
  BY <1>1 DEF RInv, Results
<1>5. Cardinality(StartedNodes') \in Nat
  BY NodesFinite DEF StartedNodes
<1> QED
  BY <1>1, <1>3, <1>4, <1>5 DEF EInv, Reasons, Calm, Behind, NoResult

\* Whatever leaves the loop leaves it for a completion or a pause: the limit
\* is not reached, nobody cancels, and with nothing left all nodes are done.
LEMMA LeaveEInv ==
  ASSUME Unhindered, RInv, TInv, PInv, EInv,
         StopTerminated \/ StopAtLimit \/ HonourCancel \/ HonourPause \/ NothingLeft
           \/ NothingEligible
  PROVE  EInv'
<1>1. /\ pc = "loop" /\ pc' = "final" /\ UNCHANGED <<sched, result, counts, saved>>
      /\ HandedOn(sched, NULL)
  BY DEF StopTerminated, StopAtLimit, HonourCancel, HonourPause, NothingLeft, NothingEligible,
         GoesOn, Undisturbed, EInv, Behind
<1>2. Flight(sched) = {} /\ END_NODE_ID \notin Placed(sched) /\ state \in GraphState
  BY <1>1 DEF RInv, Quiet, TypeOK, PInv, Single
<1>3. sched.running = {}
  BY <1>2 DEF Flight, Placed, RInv, TypeOK, SchedulerState, Id
<1>4. ~StopAtLimit /\ ~HonourCancel
  BY RuntimeAssumption DEF RuntimeAssumption, StopAtLimit, HonourCancel, EInv, Calm
<1>5. ~NothingEligible
  BY <1>3 DEF NothingEligible, Eligible, Unhindered
<1>6. NothingLeft => state' = Marked(state, "completed", "all_done")
  <2> SUFFICES ASSUME NothingLeft PROVE IsComplete(sched)
    BY DEF NothingLeft
  <2>1. sched.ready = {} /\ sched.running = {}
    BY DEF NothingLeft
  <2> DEFINE S == Done(sched) \cap Node
  <2>2. Initialize(StartNodes).ready \subseteq S
    BY <1>1, <2>1, InitialReady DEF HandedOn, Placed
  <2>3. \A n \in S : Successors(n) \cap Node \subseteq S
    BY <1>1, <2>1, RuntimeAssumption DEF RuntimeAssumption, HandedOn, Followed, Placed
  <2>4. Node \subseteq Done(sched)
    <3>1. S \in SUBSET Node
      OBVIOUS
    <3> HIDE DEF S
    <3>2. S = Node
      BY <2>2, <2>3, <3>1 DEF Unhindered
    <3> QED BY <3>2 DEF S
  <2>5. /\ sched.completed \subseteq Id /\ sched.failed \subseteq Id
        /\ IsFiniteSet(Done(sched)) /\ IsFiniteSet(sched.completed) /\ IsFiniteSet(sched.failed)
    BY FiniteIds DEF RInv, TypeOK, SchedulerState, Done
  <2>6. Cardinality(Node) <= Cardinality(Done(sched))
    BY <2>4, <2>5, FS_Subset
  <2>7. Cardinality(Done(sched)) = Cardinality(sched.completed) + Cardinality(sched.failed)
                                   - Cardinality(sched.completed \cap sched.failed)
    BY <2>5, FS_Union DEF Done
  <2>8. /\ Cardinality(sched.completed \cap sched.failed) \in Nat
        /\ Cardinality(sched.completed) \in Nat /\ Cardinality(sched.failed) \in Nat
        /\ Cardinality(Node) \in Nat
    BY <2>5, GraphAssumption, FS_Subset, FS_CardinalityType DEF GraphAssumption
  <2> QED BY <2>1, <2>6, <2>7, <2>8 DEF IsComplete
<1>7. /\ state'.iteration_count = state.iteration_count
      /\ state'.pause_context = state.pause_context
      /\ control'.cancel = control.cancel
      /\ state'.termination_reason = "completed" \/ status' = "PAUSED"
  <2>1. CASE StopTerminated
    BY <2>1, <1>1 DEF StopTerminated, EInv, Reasons
  <2>2. CASE HonourPause
    BY <2>2 DEF HonourPause, RInv, TypeOK
  <2>3. CASE NothingLeft
    BY <2>3, <1>2, <1>6 DEF NothingLeft, Marked, GraphState
  <2> QED BY <2>1, <2>2, <2>3, <1>4, <1>5
<1>8. HandedOn(sched', state'.pause_context)
  BY <1>1, HandedOnWeakens
<1>9. StartedNodes' = StartedNodes
  BY <1>1 DEF StartedNodes, Done
<1> QED
  BY <1>1, <1>7, <1>8, <1>9 DEF EInv, Reasons, Calm, Behind

LEMMA ScheduleEInv ==
  ASSUME Unhindered, RInv, TInv, PInv, EInv, Schedule
  PROVE  EInv'
<1>1. PICK eligible \in Eligible : \E batch \in Batches(eligible) :
        /\ sched' = Dispatched(sched, batch)
        /\ \E last \in batch \ {END_NODE_ID} : state' = [state EXCEPT !.current_node_id = last]
  BY DEF Schedule
<1>2. PICK batch \in Batches(eligible) :
        /\ sched' = Dispatched(sched, batch)
        /\ \E last \in batch \ {END_NODE_ID} : state' = [state EXCEPT !.current_node_id = last]
  BY <1>1
<1>3. PICK last \in batch \ {END_NODE_ID} : state' = [state EXCEPT !.current_node_id = last]
  BY <1>2
<1>4. /\ pc = "loop" /\ pc' = "executing" /\ state.termination_reason = NULL
      /\ counts' = [counts EXCEPT !.iteration = @ + 1] /\ UNCHANGED <<control, result, saved>>
  BY DEF Schedule, Undisturbed, GoesOn
<1>5. batch \subseteq sched.ready /\ sched \in SchedulerState /\ state \in GraphState
  BY BatchFacts DEF Eligible, RInv, TypeOK
<1>6. /\ sched'.ready = sched.ready \ batch /\ sched'.running = sched.running \cup batch
      /\ sched'.completed = sched.completed /\ sched'.failed = sched.failed
  BY <1>2, <1>5 DEF Dispatched, SchedulerState
<1>7. Done(sched') = Done(sched) /\ Placed(sched') = Placed(sched)
  BY <1>5, <1>6 DEF Done, Placed
<1>8. /\ state'.termination_reason = NULL /\ state'.iteration_count = state.iteration_count
      /\ state'.pause_context = state.pause_context
  BY <1>3, <1>4, <1>5 DEF GraphState
<1>9. HandedOn(sched', NULL) /\ HandedOn(sched', state'.pause_context)
  BY <1>4, <1>7, HandedOnWeakens DEF EInv, Behind, HandedOn, Followed
<1>10. last \in Node /\ last \notin StartedNodes
  BY <1>3, <1>5 DEF TInv, Placement, OnePlace, StartedNodes, SchedulerState, Id
<1>11. StartedNodes \cup {last} \subseteq StartedNodes'
  BY <1>3, <1>6, <1>7, <1>10 DEF StartedNodes
<1>12. /\ IsFiniteSet(StartedNodes) /\ Cardinality(StartedNodes) \in Nat
       /\ IsFiniteSet(StartedNodes') /\ Cardinality(StartedNodes') \in Nat
  BY NodesFinite DEF StartedNodes
<1>13. Cardinality(StartedNodes \cup {last}) = Cardinality(StartedNodes) + 1
  BY <1>10, <1>12, FS_AddElement
<1>14. Cardinality(StartedNodes \cup {last}) <= Cardinality(StartedNodes')
  BY <1>11, <1>12, FS_Subset
<1>15. counts'.iteration = counts.iteration + 1 /\ counts.iteration \in Nat
  BY <1>4 DEF RInv, TypeOK
<1>16. counts'.iteration <= Cardinality(StartedNodes')
  BY <1>12, <1>13, <1>14, <1>15 DEF EInv, Calm
<1> QED
  BY <1>4, <1>8, <1>9, <1>16 DEF EInv, Reasons, Calm, Behind

\* The node in hand is the only one: with its end the batch is settled.
LEMMA FinishEInv ==
  ASSUME Unhindered, RInv, TInv, PInv, EInv, NEW n \in Node, FinishNode(n)
  PROVE  EInv'
<1>1. /\ pc = "executing" /\ n \in Flight(sched) /\ result[n] = "none"
      /\ UNCHANGED <<sched, status, control, counts, saved>>
      /\ pc' = IF \E m \in (sched.running \cap Node) \ {n} : result[m] = "none"
               THEN "executing" ELSE "settling"
  BY DEF FinishNode, JudgeOutput, GateFails, AskHuman, AskAdaptive, CountLoop, Work, Finish, Flight
<1>2. \A m \in Flight(sched) : m = n
  BY <1>1 DEF RInv, OneBatch, PInv
<1>3. pc' = "settling" /\ \A m \in Node : m # n => result[m] = "none"
  BY <1>1, <1>2 DEF Flight, RInv, Results
<1>4. /\ state \in GraphState /\ result \in [Node -> Outcome]
      /\ state.termination_reason = NULL /\ HandedOn(sched, NULL)
  BY <1>1 DEF RInv, TypeOK, EInv, Reasons, Behind
<1>5. /\ state'.iteration_count = state.iteration_count
      /\ \/ result'[n] = "completed" /\ state'.termination_reason = NULL
         \/ /\ result'[n] \in {"paused", "completed"}
            /\ state'.termination_reason = "paused" /\ state'.pause_context = n
      /\ result' = [result EXCEPT ![n] = result'[n]]
  <2>1. n \notin MayFail /\ Kind[n] # "loop"
    BY DEF Unhindered, Pipeline, Tree
  <2>2. CASE \E verdict \in {"pass", "fail"} : JudgeOutput(n, verdict)
    <3>1. PICK verdict \in {"pass", "fail"} : JudgeOutput(n, verdict)
      BY <2>2
    <3>2. /\ result' = [result EXCEPT ![n] = "completed"]
          /\ state' = Recorded([state EXCEPT !.quality_passed = verdict], n, "completed")
      BY <3>1 DEF JudgeOutput, Finish
    <3> QED BY <3>2, <1>4 DEF Recorded, GraphState
  <2>3. CASE AskHuman(n) \/ AskAdaptive(n)
    <3>1. PICK outcome \in {"paused", "completed"} :
            /\ result' = [result EXCEPT ![n] = outcome]
            /\ state' = Recorded([Marked(state, "paused", "awaiting_user") EXCEPT !.pause_context = n],
                                 n, outcome)
      BY <2>3 DEF AskHuman, AskAdaptive, Finish
    <3> QED BY <3>1, <1>4 DEF Recorded, Marked, GraphState
  <2>4. CASE Work(n)
    <3>1. result' = [result EXCEPT ![n] = "completed"] /\ state' = Recorded(state, n, "completed")
      BY <2>1, <2>4 DEF Work, Finish
    <3> QED BY <3>1, <1>4 DEF Recorded, GraphState
  <2> QED BY <2>1, <2>2, <2>3, <2>4 DEF FinishNode, GateFails, CountLoop
<1>6. \A m \in Node : m # n => result'[m] = "none"
  BY <1>3, <1>4, <1>5
<1>7. HandedOn(sched', NULL) /\ HandedOn(sched', state'.pause_context)
  BY <1>1, <1>4, HandedOnWeakens
<1>8. StartedNodes' = StartedNodes
  BY <1>1 DEF StartedNodes, Done
<1>9. Reasons'
  BY <1>3, <1>5, <1>6 DEF Reasons
<1>10. Calm'
  BY <1>1, <1>5, <1>8 DEF EInv, Calm
<1>11. Behind'
  BY <1>1, <1>7 DEF EInv, Behind
<1> QED
  BY <1>9, <1>10, <1>11 DEF EInv

\* What complete() does with the node in hand: it is done, and nothing else
\* becomes so.
LEMMA CompletedHandsOn ==
  ASSUME Unhindered, RInv, TInv, PInv, NEW n \in Node, result[n] # "none"
  PROVE  LET s == Completed(sched, n, result[n] = "completed")
         IN  /\ s \in SchedulerState /\ n \in Done(s)
             /\ Done(s) = Done(sched) \cup {n} /\ Placed(sched) \subseteq Placed(s)
             /\ s.running \cup Done(s) = sched.running \cup Done(sched)
<1> DEFINE success == result[n] = "completed"
           s == Completed(sched, n, success)
<1>1. n \in sched.running /\ sched \in SchedulerState /\ success \in BOOLEAN
  BY DEF RInv, Results, Flight, TypeOK
<1>2. s \in SchedulerState /\ Ends(sched, s, n, success)
  BY <1>1, CompletedEnds
<1> HIDE DEF s
<1>3. OnePlace(sched) /\ Ordered(sched) /\ Tree
  BY DEF TInv, Placement, Unhindered, Pipeline
<1>4. Done(s) = Done(sched) \cup {n}
  BY <1>1, <1>2, <1>3, EndsPlaces, Zenon
<1>5. Placed(sched) \subseteq Placed(s) /\ s.running \cup Done(s) = sched.running \cup Done(sched)
  BY <1>1, <1>2, <1>4 DEF Ends, Placed
<1> QED
  BY <1>2, <1>4, <1>5 DEF s

LEMMA SettlePausedEInv ==
  ASSUME Unhindered, RInv, TInv, PInv, EInv, NEW n \in Node, SettlePaused(n)
  PROVE  EInv'
<1>1. /\ pc = "settling" /\ pc' = "final" /\ status' = "PAUSED" /\ result[n] # "none"
      /\ sched' = Completed(sched, n, result[n] = "completed")
      /\ result' = NoResult /\ UNCHANGED <<state, control, counts, saved>>
  BY DEF SettlePaused
<1>2. state.pause_context = n
  BY <1>1, RuntimeAssumption DEF RuntimeAssumption, SettlePaused, PausesRun, EInv, Reasons
<1>3. /\ Done(sched') = Done(sched) \cup {n} /\ Placed(sched) \subseteq Placed(sched')
      /\ sched'.running \cup Done(sched') = sched.running \cup Done(sched)
  BY <1>1, CompletedHandsOn
<1>4. HandedOn(sched, n)
  BY <1>1, HandedOnWeakens DEF EInv, Behind
<1>5. HandedOn(sched', n)
  BY <1>3, <1>4, HandedOnGrows
<1>6. StartedNodes' = StartedNodes
  BY <1>3 DEF StartedNodes
<1> QED
  BY <1>1, <1>2, <1>5, <1>6 DEF EInv, Reasons, Calm, Behind, NoResult

\* Routing on a pipeline, as a settle and a resume do it.
LEMMA RoutedHandsOn ==
  ASSUME Unhindered, NEW s \in SchedulerState, NEW g \in GraphState, NEW n \in Node, NEW holding
  PROVE  LET d == Routed([sched |-> s, state |-> g], n, holding)
         IN  /\ Done(d.sched) = Done(s) /\ Placed(s) \subseteq Placed(d.sched)
             /\ d.sched.running = s.running /\ Followed(d.sched, n)
             /\ d.state.iteration_count = g.iteration_count
             /\ d.state.pause_context = g.pause_context
             /\ d.state.termination_reason \in {g.termination_reason, "completed"}
<1> DEFINE c == [sched |-> s, state |-> g]
           d == Routed(c, n, holding)
<1>1. c \in Pair /\ c.sched = s /\ c.state = g /\ Tree
  BY DEF Pair, Unhindered, Pipeline
<1> HIDE DEF c
<1>2. /\ Opens(s, d.sched, n) /\ Followed(d.sched, n)
      /\ d.state = g \/ d.state = Marked(g, "completed", "reached_end")
  BY <1>1, RoutedOpens, RoutedFollows
<1> HIDE DEF d
<1>3. Done(d.sched) = Done(s) /\ Placed(s) \subseteq Placed(d.sched)
  BY <1>2 DEF Opens, Done, Placed
<1>4. /\ d.state.iteration_count = g.iteration_count
      /\ d.state.pause_context = g.pause_context
      /\ d.state.termination_reason \in {g.termination_reason, "completed"}
  BY <1>2 DEF Marked, GraphState
<1> QED
  BY <1>2, <1>3, <1>4 DEF Opens, c, d

LEMMA SettleEInv ==
  ASSUME Unhindered, RInv, TInv, PInv, EInv, NEW n \in Node, Settle(n)
  PROVE  EInv'
<1>1. PICK holding \in SUBSET OtherEdges(n) :
        LET c == Routed([sched |-> Completed(sched, n, result[n] = "completed"),
                         state |-> state], n, holding)
        IN  sched' = c.sched /\ state' = c.state
  BY DEF Settle
<1>2. /\ pc = "settling" /\ result[n] # "none" /\ ~PausesRun(n)
      /\ result' = [result EXCEPT ![n] = "none"] /\ UNCHANGED <<status, control, counts, saved>>
  BY DEF Settle, PInv
<1>3. pc' = "tail"
  BY SettleFacts DEF Unhindered
<1> DEFINE s == Completed(sched, n, result[n] = "completed")
<1>4. /\ s \in SchedulerState /\ Done(s) = Done(sched) \cup {n}
      /\ Placed(sched) \subseteq Placed(s)
      /\ s.running \cup Done(s) = sched.running \cup Done(sched)
  BY <1>2, CompletedHandsOn
<1>5. LET d == Routed([sched |-> s, state |-> state], n, holding)
      IN  /\ Done(d.sched) = Done(s) /\ Placed(s) \subseteq Placed(d.sched)
          /\ d.sched.running = s.running /\ Followed(d.sched, n)
          /\ d.state.iteration_count = state.iteration_count
          /\ d.state.pause_context = state.pause_context
          /\ d.state.termination_reason \in {state.termination_reason, "completed"}
  <2> HIDE DEF s
  <2> QED BY <1>4, RoutedHandsOn DEF RInv, TypeOK
<1>6. /\ Done(sched') = Done(sched) \cup {n} /\ Placed(sched) \subseteq Placed(sched')
      /\ sched'.running \cup Done(sched') = sched.running \cup Done(sched)
      /\ Followed(sched', n)
      /\ state'.iteration_count = state.iteration_count
      /\ state'.pause_context = state.pause_context
      /\ state'.termination_reason \in {state.termination_reason, "completed"}
  <2> HIDE DEF s
  <2> QED BY <1>1, <1>4, <1>5 DEF s
<1>7. HandedOn(sched', NULL)
  BY <1>2, <1>6, HandedOnGrows DEF EInv, Behind
<1>8. HandedOn(sched', state'.pause_context)
  BY <1>7, HandedOnWeakens
<1>9. state.termination_reason = NULL
  BY <1>2 DEF PausesRun, EInv, Reasons
<1>10. \A m \in Node : result'[m] = "paused" => result[m] = "paused"
  BY <1>2 DEF RInv, TypeOK
<1>11. StartedNodes' = StartedNodes
  BY <1>6 DEF StartedNodes
<1> QED
  BY <1>2, <1>3, <1>6, <1>7, <1>8, <1>9, <1>10, <1>11 DEF EInv, Reasons, Calm, Behind

\* The limit of rounds lies beyond the end of the pipeline.
LEMMA TailEInv ==
  ASSUME Unhindered, RInv, TInv, PInv, EInv, Tail \/ Final
  PROVE  EInv'
<1>1. /\ pc \in {"tail", "final"} /\ UNCHANGED <<sched, control, result>>
      /\ counts'.iteration = counts.iteration
      /\ SaveCheckpoint(state) \/ saved' = saved
  BY DEF Tail, Final, RInv, TypeOK
<1>2. counts.iteration <= Cardinality(Node) /\ counts.iteration \in Nat
  <2>1. /\ Cardinality(StartedNodes) \in Nat /\ Cardinality(Node) \in Nat
        /\ Cardinality(StartedNodes) <= Cardinality(Node)
    BY NodesFinite DEF StartedNodes
  <2> QED BY <2>1 DEF EInv, Calm, RInv, TypeOK
<1>3. ~(counts.iteration > 2 * MaxIterations)
  <2>1. Cardinality(Node) \in Nat /\ Cardinality(Node) <= 2 * MaxIterations /\ MaxIterations \in Nat
    BY NodesFinite, RuntimeAssumption DEF Unhindered, RuntimeAssumption
  <2> QED BY <2>1, <1>2
<1>4. /\ state' = state
      /\ \/ pc = "tail" /\ pc' = "loop"
         \/ pc = "final" /\ pc' = "stopped" /\ status' \in {"COMPLETED", "PAUSED"}
  BY <1>3 DEF Tail, Final, EInv, Reasons
<1>5. HandedOn(sched, state.pause_context) /\ Flight(sched) = {}
  BY <1>1 DEF EInv, Behind, RInv, Quiet
<1>6. saved' # NULL =>
        /\ HandedOn(saved'.sched, saved'.state.pause_context)
        /\ ~saved'.control.cancel /\ saved'.state.iteration_count = 0
  <2>1. saved' = saved \/ saved' = [sched |-> Restored(sched), state |-> state, control |-> control]
    BY <1>1 DEF SaveCheckpoint
  <2>2. CASE saved' = saved
    BY <2>2 DEF EInv, Behind, Calm
  <2>3. CASE saved' = [sched |-> Restored(sched), state |-> state, control |-> control]
    <3> DEFINE s == Restored(sched)
    <3>1. /\ s.ready = sched.ready /\ s.running = {}
          /\ s.completed = sched.completed /\ s.failed = sched.failed
      BY DEF Restored, RInv, TypeOK, SchedulerState
    <3> HIDE DEF s
    <3>2. Done(s) = Done(sched) /\ \A n \in Node : n \in Placed(s) <=> n \in Placed(sched)
      BY <3>1, <1>5 DEF Done, Placed, Flight
    <3>3. HandedOn(s, state.pause_context)
      BY <3>2, <1>5, InitialReady DEF HandedOn, Followed
    <3> QED BY <2>3, <3>3 DEF EInv, Calm, s
  <2> QED BY <2>1, <2>2, <2>3
<1>7. StartedNodes' = StartedNodes
  BY <1>1 DEF StartedNodes, Done
<1> QED
  BY <1>1, <1>4, <1>5, <1>6, <1>7 DEF EInv, Reasons, Calm, Behind

\* A resume routes the human node whose successor is waited for.
LEMMA ResumeEInv ==
  ASSUME Unhindered, RInv, TInv, PInv, EInv, Resume
  PROVE  EInv'
<1>1. /\ pc \in {"stopped", "recovered"} /\ pc' = "loop" /\ counts'.iteration = 0
      /\ UNCHANGED <<control, result, saved>>
  BY DEF Resume, Zero
<1>2. /\ sched \in SchedulerState /\ state \in GraphState /\ Reopened \in GraphState
      /\ Reopened.iteration_count = state.iteration_count
      /\ Reopened.pause_context = state.pause_context /\ Reopened.termination_reason = NULL
  <2>1. sched \in SchedulerState /\ state \in GraphState
    BY DEF RInv, TypeOK
  <2>2. Reopened \in GraphState
    BY <2>1, MarkedType DEF Reopened, Reason, Cause
  <2> QED BY <2>1, <2>2 DEF Reopened, Marked, GraphState
<1>3. HandedOn(sched, state.pause_context)
  BY <1>1 DEF EInv, Behind
<1>4. result = NoResult
  BY <1>1 DEF RInv, Results
<1>5. /\ HandedOn(sched', NULL) /\ state'.iteration_count = state.iteration_count
      /\ state'.termination_reason \in {NULL, "completed"}
  <2>1. CASE PausedNode = NULL
    <3>1. state' = Reopened /\ sched' = sched /\ state.pause_context = NULL
      BY <2>1, RuntimeAssumption DEF RuntimeAssumption, Resume, PausedNode
    <3> QED BY <3>1, <1>2, <1>3
  <2>2. CASE PausedNode # NULL
    <3>1. PausedNode \in Node /\ state.pause_context \in {NULL, PausedNode}
      BY <1>2, <2>2 DEF PausedNode, GraphState
    <3>2. PICK holding \in SUBSET OtherEdges(PausedNode) :
            LET c == Routed([sched |-> sched, state |-> Reopened], PausedNode, holding)
            IN  sched' = c.sched /\ state' = c.state
      BY <2>2 DEF Resume
    <3> HIDE DEF PausedNode, Reopened
    <3>3. /\ Done(sched') = Done(sched) /\ Placed(sched) \subseteq Placed(sched')
          /\ Followed(sched', PausedNode)
          /\ state'.iteration_count = state.iteration_count
          /\ state'.termination_reason \in {NULL, "completed"}
      BY <1>2, <3>1, <3>2, RoutedHandsOn
    <3>4. HandedOn(sched', NULL)
      BY <1>3, <3>1, <3>3 DEF HandedOn, Followed
    <3> QED BY <3>3, <3>4
  <2> QED BY <2>1, <2>2
<1>6. HandedOn(sched', state'.pause_context)
  BY <1>5, HandedOnWeakens
<1>7. Cardinality(StartedNodes') \in Nat
  BY NodesFinite DEF StartedNodes
<1> QED
  BY <1>1, <1>4, <1>5, <1>6, <1>7 DEF EInv, Reasons, Calm, Behind, NoResult

LEMMA EnvironmentEInv ==
  ASSUME Unhindered, RInv, TInv, EInv, RequestPause \/ Crash \/ Recover
  PROVE  EInv'
<1>1. CASE RequestPause
  <2>1. /\ UNCHANGED <<sched, state, status, pc, result, counts, saved>>
        /\ control'.cancel = control.cancel
    BY <1>1 DEF RequestPause, Asked, RInv, TypeOK
  <2>2. StartedNodes' = StartedNodes
    BY <2>1 DEF StartedNodes, Done
  <2> QED BY <2>1, <2>2 DEF EInv, Reasons, Calm, Behind
<1>2. CASE Crash
  <2>1. /\ pc # "created" /\ pc' = "down"
        /\ UNCHANGED <<sched, state, status, control, result, counts, saved>>
    BY <1>2 DEF Crash
  <2>2. StartedNodes' = StartedNodes
    BY <2>1 DEF StartedNodes, Done
  <2> QED BY <2>1, <2>2 DEF EInv, Reasons, Calm, Behind
<1>3. CASE Recover
  <2>1. /\ saved # NULL /\ sched' = saved.sched /\ state' = saved.state
        /\ control' = saved.control /\ pc' = "recovered" /\ result' = NoResult
        /\ counts'.iteration = 0 /\ saved' = saved
    BY <1>3 DEF Recover, Zero
  <2>2. Cardinality(StartedNodes') \in Nat
    BY NodesFinite DEF StartedNodes
  <2> QED BY <2>1, <2>2 DEF EInv, Reasons, Calm, Behind, NoResult
<1> QED
  BY <1>1, <1>2, <1>3

LEMMA NextEInv ==
  ASSUME Unhindered, RInv, TInv, PInv, EInv, [Next]_vars
  PROVE  EInv'
<1>1. \A n : OtherEdges(n) = {}
  BY DEF Unhindered, OtherEdges, EdgesFrom
<1>2. ~ResumeRaises /\ ~RequestCancel /\ ~Cancel /\ \A n \in Node : ~RouteRaises(n)
  BY <1>1 DEF Unhindered, ResumeRaises, RequestCancel, Cancel, Asked, RouteRaises
<1>3. \A n \in Node : ~ReplayFrom(n)
  BY DEF ReplayFrom, Unhindered, Pipeline, Tree, RInv, TypeOK
<1>4. CASE MainLoop
  <2>1. CASE \E n \in Node : FinishNode(n) \/ SettlePaused(n) \/ Settle(n) \/ RouteRaises(n)
    BY <2>1, <1>2, FinishEInv, SettlePausedEInv, SettleEInv
  <2> QED
    BY <1>4, <2>1, ExecuteEInv, LeaveEInv, NoMissing, ScheduleEInv, TailEInv DEF MainLoop
<1>5. CASE Environment
  BY <1>2, <1>3, <1>5, ResumeEInv, EnvironmentEInv DEF Environment
<1>6. CASE UNCHANGED vars
  BY <1>6 DEF vars, EInv, Reasons, Calm, Behind, StartedNodes, Done
<1> QED
  BY <1>4, <1>5, <1>6 DEF Next

\* A pipeline that nobody cancels and in which nothing fails ends as completed
\* or waits as paused, through any number of pauses, crashes and recoveries:
\* it is not taken for deadlocked, and no limit stops it.
THEOREM PipelineEndsWell ==
  ASSUME Unhindered
  PROVE  Spec => []EndsWell
<1>1. Pipeline
  BY DEF Unhindered
<1>2. RInv /\ TInv /\ PInv /\ EInv /\ [Next]_vars => EInv'
  BY NextEInv
<1>3. Init => EInv
  BY InitEInv
<1>4. EInv => EndsWell
  BY DEF EInv, Reasons, EndsWell
<1> QED
  BY <1>1, <1>2, <1>3, <1>4, PInvariant, PTL DEF Spec

------------------------------------------------------------------------------
(* Pipelines with gates *)

\* One node after the other, from a single start, with gates that send back to
\* the agent before them.  Such a gate is behind its agent and nothing else, it
\* lets on only by an edge that asks for a pass, and what it protects checks
\* nothing itself.  Agents with a gate ask nobody and check nothing; nodes fail
\* only at the start.  The run is not in mode "adaptive".
Regulates(n) == \E agent \in Node : IsRetry(n, agent)

Gated ==
  /\ \A e \in Edges :
       /\ e.edge_type \notin {"default", "error"}
       /\ IF e.edge_type = "loop_back"
          THEN e.condition = "not_passed" /\ Judges(e.from_node)
          ELSE IF Regulates(e.from_node)
          THEN e.edge_type = "conditional" /\ e.condition = "passed"
          ELSE e.condition = "none"
  /\ \A m, n, o \in Node : Leads(m, n) /\ Leads(m, o) => n = o
  /\ \A m, n \in Initialize(StartNodes).ready : m = n
  /\ \A gate, agent \in Node : IsRetry(gate, agent) =>
       /\ ~Judges(agent) /\ Kind[agent] # "human"
       /\ gate \notin Initialize(StartNodes).ready
       /\ Leads(agent, gate) /\ \A n \in Node : Leads(n, gate) => n = agent
  /\ \A gate, n \in Node : Protects(gate, n) =>
       /\ ~Judges(n) /\ n \notin Initialize(StartNodes).ready
       /\ \A m \in Node : Leads(m, n) => m = gate
  /\ \A n \in MayFail : ~Judges(n) /\ ~Follows(n)
  /\ Adaptive = {}

\* The nodes about to run for a good reason; one that is ready or runs although
\* its phase has been skipped is not.
Live(s) == ((s.ready \cup s.running) \cap Node) \ s.completed

\* Who is ready or runs again after it was skipped is an agent with its gate.
Worn(s) == \A a \in (s.ready \cup s.running) \cap s.completed \cap Node :
             \E gate \in Node : IsRetry(gate, a) /\ gate \in s.completed

\* All that p leads to has completed.
Past(s, p) == \A m \in Node : Leads(p, m) => m \in s.completed

Refused(g) == g.quality_passed = "fail"
Used(g, gate) == g.retries[gate] > MaxRetries

\* Why t may be ready when p is what ran last: p leads to it, and does not hold
\* it back; p has refused it and a retry is left; or p lies behind.
Due(s, g, p, t, review) ==
  \/ Leads(p, t) /\ (Regulates(p) => ~Refused(g) \/ Used(g, p))
  \/ IsRetry(p, t) /\ Refused(g) /\ (~Used(g, p) \/ review)
  \/ ~Regulates(p) /\ Past(s, p)

\* The node a resume would route.
Point(g) == IF g.pause_context # NULL THEN g.pause_context ELSE g.current_node_id

Near(s, g, p, review) ==
  /\ \A t \in Live(s) : Due(s, g, p, t, review) \/ (t = p /\ t \in s.running)
  /\ \A t \in Live(s) \cap s.running :
       g.pause_context = NULL => (t = p \/ (~Regulates(p) /\ Past(s, p)))
  /\ Regulates(p) /\ p \notin s.running => g.quality_passed # "unset"

\* Who runs, has completed or is the point has been handed out before, and so
\* has the agent of a gate that is on.
Ran(s, g, times) ==
  /\ \A n \in Node :
       /\ n \in s.running \cup s.completed \cup {g.current_node_id, g.pause_context} => times[n] >= 1
       /\ n \in s.running \cap s.completed => times[n] >= 2
  /\ \A gate, agent \in Node : IsRetry(gate, agent) =>
       (gate \in s.ready \cup s.running \cup s.completed \cup {g.current_node_id}
        => times[agent] >= 1)
  /\ g.pause_context # NULL => Kind[g.pause_context] = "human"

Open(g, gate) == g.quality_passed = "pass" \/ Used(g, gate)

\* What is ready for the first time is let on.
Allowed(s, g, times) ==
  \A gate, n \in Node : Protects(gate, n) /\ n \in s.ready /\ times[n] = 0 => Open(g, gate)

Fit(s, g, times, review) ==
  /\ s.ready \cap s.running \cap Node = {}
  /\ \A m, n \in Live(s) : m = n
  /\ Worn(s) /\ Ran(s, g, times) /\ Allowed(s, g, times)
  /\ Point(g) # NULL => Near(s, g, Point(g), review)

\* How nodes end: what others lead to does not fail, who asked is the point,
\* and a gate that has run has left a verdict.
Endings ==
  \A n \in Node :
    /\ result[n] = "failed" => ~Follows(n) /\ ~Judges(n)
    /\ result[n] = "paused" => state.pause_context = n
    /\ Judges(n) /\ result[n] = "completed" => state.quality_passed # "unset"

OnGuard ==
  /\ pc \notin {"reset", "down"} => Fit(sched, state, runs, env.review_mode)
  /\ Endings
  /\ GateHolds

GInv ==
  /\ OnGuard
  /\ saved # NULL => Fit(saved.sched, saved.state, runs, env.review_mode)

------------------------------------------------------------------------------
(* What routing does to a pipeline with gates *)

\* Who sends back judges, and to one agent; that agent leads to its gate alone.
LEMMA GatesAndAgents ==
  ASSUME Gated, NEW gate \in Node, NEW agent \in Node, IsRetry(gate, agent)
  PROVE  /\ Judges(gate) /\ ~Judges(agent) /\ Kind[agent] # "human" /\ ~Regulates(agent)
         /\ Leads(agent, gate) /\ gate # agent
         /\ \A n \in Node : Leads(n, gate) => n = agent
         /\ \A n \in Node : Leads(agent, n) => n = gate
         /\ \A n \in Node : IsRetry(gate, n) => n = agent
         /\ \A n \in Node : IsRetry(n, agent) => n = gate
<1>1. \A g, a \in Node : IsRetry(g, a) => Judges(g) /\ ~Judges(a) /\ Kind[a] # "human" /\ Leads(a, g)
  BY DEF Gated, IsRetry, HasEdge, EdgesFrom
<1>2. \A n \in Node : Leads(n, gate) => n = agent
  BY DEF Gated
<1>3. \A m, n, o \in Node : Leads(m, n) /\ Leads(m, o) => n = o
  BY DEF Gated
<1>4. \A n \in Node : IsRetry(gate, n) => n = agent
  BY RuntimeAssumption DEF IsRetry, HasEdge, EdgesFrom, RuntimeAssumption
<1> QED
  BY <1>1, <1>2, <1>3, <1>4 DEF Regulates

LEMMA GatesJudge == ASSUME Gated, NEW n \in Node, Regulates(n) PROVE Judges(n) /\ Kind[n] # "human"
BY GatesAndAgents DEF Regulates, Judges

\* What a gate protects comes after it alone, and after a gate that sends back.
LEMMA ProtectedComeAfter ==
  ASSUME Gated, NEW gate \in Node, NEW n \in Node, Protects(gate, n)
  PROVE  /\ Regulates(gate) /\ ~Judges(n) /\ \A m \in Node : Leads(m, n) => m = gate
         /\ n \notin Initialize(StartNodes).ready
<1>1. PICK e \in Edges : e.from_node = gate /\ e.to_node = n /\ e.condition = "passed"
  BY DEF Protects, EdgesFrom
<1> QED
  BY <1>1 DEF Gated

LEMMA GatedChoices == ASSUME Gated, NEW n PROVE OtherEdges(n) = {}
BY DEF Gated, OtherEdges, EdgesFrom

LEMMA OneAfter == ASSUME Gated, NEW m \in Node, NEW n \in Node, NEW o \in Node, Leads(m, n), Leads(m, o)
                  PROVE  n = o
BY DEF Gated

SameGates(g, h) == /\ h.quality_passed = g.quality_passed
                   /\ h.retries = g.retries
                   /\ SameNodes(g, h)

\* Routing n without a refusal: what it leads to may be ready.
Forward(c, d, n) ==
  /\ Regulates(n) => ~Refused(c.state)
  /\ SameGates(c.state, d.state)
  /\ d.sched.running = c.sched.running /\ d.sched.completed = c.sched.completed
  /\ c.sched.ready \subseteq d.sched.ready
  /\ \A m \in (d.sched.ready \ c.sched.ready) \cap Node :
       Leads(n, m) /\ m \notin c.sched.completed \cup c.sched.running

\* A refusal is counted; the agent runs again, or the run is given up, or the
\* phase is skipped.
Again(s, t, gate, agent) ==
  /\ t.completed = s.completed \ {agent, gate}
  /\ t.ready \subseteq s.ready \cup {agent}
Skipped(s, t, gate, agent) ==
  /\ t.completed = s.completed \cup {gate, agent}
  /\ t.ready \subseteq s.ready \cup (Successors(gate) \ t.completed)

Backward(c, d, gate, agent) ==
  /\ Refused(c.state)
  /\ d.state.quality_passed = c.state.quality_passed /\ SameNodes(c.state, d.state)
  /\ d.state.retries = [c.state.retries EXCEPT ![gate] = @ + 1]
  /\ d.sched.running = c.sched.running
  /\ \/ ~Used(d.state, gate) /\ Again(c.sched, d.sched, gate, agent)
     \/ Used(d.state, gate) /\ env.review_mode /\ d.sched = c.sched
     \/ Used(d.state, gate) /\ ~env.review_mode /\ Skipped(c.sched, d.sched, gate, agent)

LEMMA RequeuedMoves ==
  ASSUME NEW c \in Pair, NEW gate \in Node, NEW agent \in Node, Refused(c.state)
  PROVE  Backward(c, Requeued(c, gate, agent), gate, agent)
<1> DEFINE attempt == c.state.retries[gate] + 1
           counted == [c EXCEPT !.state.retries[gate] = attempt]
           retries == [c.state.retries EXCEPT ![gate] = attempt]
<1>1. c.sched \in SchedulerState /\ c.state \in GraphState /\ c.state.retries \in [Node -> Nat]
  BY DEF Pair, GraphState
<1>2. counted = [sched |-> c.sched, state |-> [c.state EXCEPT !.retries = retries]]
  BY DEF Pair, GraphState
<1>3. retries \in [Node -> Nat] /\ retries[gate] = attempt
  BY <1>1
<1>4. /\ counted.state \in GraphState /\ SameMarks(c.state, counted.state)
      /\ counted.state.retries = retries
  BY <1>1, <1>2, <1>3 DEF GraphState, SameMarks, SameNodes
<1>5. counted \in Pair /\ counted.sched = c.sched
  BY <1>1, <1>2, <1>4 DEF Pair
<1>6. attempt \in Nat /\ MaxRetries \in Nat
  BY <1>1, RuntimeAssumption DEF RuntimeAssumption
<1> HIDE DEF counted
<1>7. CASE attempt <= MaxRetries
  <2> DEFINE d == RetryAgain(counted, gate, agent)
  <2>1. Requeued(c, gate, agent) = d
    BY <1>7 DEF Requeued, counted
  <2>2. Repeats(counted, d, gate, agent)
    BY <1>5, RetryAgainKeeps
  <2> HIDE DEF d
  <2>3. ~Used(d.state, gate)
    BY <2>2, <1>3, <1>4, <1>6, <1>7 DEF Repeats, Used
  <2> QED
    BY <2>1, <2>2, <2>3, <1>4, <1>5 DEF Repeats, SameMarks, SameNodes, Backward, Again
<1>8. CASE ~(attempt <= MaxRetries) /\ env.review_mode
  <2> DEFINE g == Marked(counted.state, "error", "retry_exhausted")
             d == [counted EXCEPT !.state = g]
  <2>1. Requeued(c, gate, agent) = d
    BY <1>8 DEF Requeued, counted
  <2>2. /\ g.quality_passed = counted.state.quality_passed
        /\ g.retries = counted.state.retries /\ SameNodes(counted.state, g)
    BY <1>4 DEF Marked, GraphState, SameNodes
  <2> HIDE DEF g
  <2>3. d.sched = c.sched /\ d.state = g
    BY <1>5 DEF Pair
  <2> HIDE DEF d
  <2>4. Used(d.state, gate)
    BY <2>2, <2>3, <1>3, <1>4, <1>6, <1>8 DEF Used
  <2> QED
    BY <2>1, <2>2, <2>3, <2>4, <1>4, <1>8 DEF SameMarks, SameNodes, Backward
<1>9. CASE ~(attempt <= MaxRetries) /\ ~env.review_mode
  <2> DEFINE d == SkipPhase(counted, gate, agent)
  <2>1. Requeued(c, gate, agent) = d
    BY <1>9 DEF Requeued, counted
  <2>2. Skips(counted, d, gate, agent)
    BY <1>5, SkipPhaseType
  <2> HIDE DEF d
  <2>3. Used(d.state, gate)
    BY <2>2, <1>3, <1>4, <1>6, <1>9 DEF Skips, Used
  <2> QED
    BY <2>1, <2>2, <2>3, <1>4, <1>5, <1>9 DEF Skips, SameMarks, SameNodes, Backward, Skipped
<1> QED
  BY <1>7, <1>8, <1>9

LEMMA RoutedMoves ==
  ASSUME Gated, NEW c \in Pair, NEW n \in Node, NEW holding \in SUBSET OtherEdges(n)
  PROVE  LET d == Routed(c, n, holding)
         IN  Forward(c, d, n) \/ \E agent \in Node : IsRetry(n, agent) /\ Backward(c, d, n, agent)
<1> DEFINE targets   == Resolved(n, c.state, holding)
           back      == {t \in targets : HasEdge(n, t, "loop_back")}
           defensive == targets = {} /\ Kind[n] = "quality_gate" /\ c.state.quality_passed # "fail"
           ahead     == IF defensive
                        THEN {t \in Successors(n) : ~HasEdge(n, t, "loop_back")}
                        ELSE targets \ back
           new       == ahead \ ({END_NODE_ID} \cup c.sched.completed \cup c.sched.running)
           forward   == [c EXCEPT !.sched.ready = @ \cup new]
           ended     == IF END_NODE_ID \in ahead
                        THEN [forward EXCEPT !.state = Marked(@, "completed", "reached_end")]
                        ELSE forward
           agent     == CHOOSE t \in back : TRUE
           d         == Routed(c, n, holding)
<1>1. d = IF back = {} THEN ended ELSE Requeued(ended, n, agent)
  BY Zenon DEF Routed, ScheduledNext
<1>2. targets \subseteq Successors(n) \ {END_NODE_ID}
  BY DEF Resolved, Successors
<1>3. back # {} => agent \in Node /\ IsRetry(n, agent)
  <2>1. back # {} => agent \in back
    <3> HIDE DEF back
    <3> QED BY Zenon
  <2> QED BY <2>1, <1>2, EdgeEnds DEF IsRetry, Id
<1>4. holding = {}
  BY GatedChoices
\* Only a refusal sends back, and then nothing else is asked for.
<1>5. /\ back # {} => c.state.quality_passed = "fail"
      /\ Regulates(n) /\ c.state.quality_passed = "fail" => back # {} /\ targets = back
  <2>1. ASSUME NEW e \in EdgesFrom(n), e.edge_type = "loop_back"
        PROVE  Traversed(e, c.state, holding) <=> c.state.quality_passed = "fail"
    BY <2>1, <1>4 DEF Traversed, Gated, EdgesFrom
  <2>2. ASSUME NEW e \in EdgesFrom(n), e.edge_type # "loop_back", Regulates(n),
               c.state.quality_passed = "fail"
        PROVE  ~Traversed(e, c.state, holding) /\ e.edge_type # "default"
    BY <2>2, <1>4 DEF Traversed, Gated, EdgesFrom
  <2>3. ASSUME back # {} PROVE c.state.quality_passed = "fail"
    <3>1. PICK t \in targets : HasEdge(n, t, "loop_back")
      BY <2>3
    <3>2. PICK e \in EdgesFrom(n) : e.to_node = t /\ e.edge_type = "loop_back"
      BY <3>1 DEF HasEdge
    <3>3. \A f \in EdgesFrom(n) : f.to_node = t => f = e
      BY <3>2, GraphAssumption DEF GraphAssumption, EdgesFrom
    <3>4. Traversed(e, c.state, holding)
      BY <3>1, <3>2, <3>3 DEF Resolved
    <3> QED BY <2>1, <3>2, <3>4
  <2>4. ASSUME Regulates(n), c.state.quality_passed = "fail" PROVE back # {} /\ targets = back
    <3>1. PICK e \in EdgesFrom(n) : e.edge_type = "loop_back" /\ e.to_node \in Node
      BY <2>4 DEF Regulates, IsRetry, HasEdge
    <3>2. e.to_node # END_NODE_ID /\ Traversed(e, c.state, holding)
      BY <3>1, <2>1, <2>4, EdgeEnds
    <3>3. e.to_node \in targets
      BY <3>1, <3>2 DEF Resolved
    <3>4. ASSUME NEW t \in targets PROVE HasEdge(n, t, "loop_back")
      <4>1. PICK f \in EdgesFrom(n) : /\ f.to_node = t
                                      /\ f.edge_type = "default" \/ Traversed(f, c.state, holding)
        BY <3>4 DEF Resolved
      <4>2. f.edge_type = "loop_back"
        BY <4>1, <2>2, <2>4
      <4> QED BY <4>1, <4>2 DEF HasEdge
    <3> QED BY <3>1, <3>3, <3>4 DEF HasEdge
  <2> QED BY <2>3, <2>4
<1>6. \A m \in ahead \cap Node : Leads(n, m)
  BY <1>2 DEF Leads
<1>7. new \subseteq Id \ (c.sched.completed \cup c.sched.running)
  BY <1>2, EdgeEnds
<1> HIDE DEF targets, back, agent, ahead, new, forward
<1>8. /\ forward \in Pair /\ forward.state = c.state
      /\ forward.sched.running = c.sched.running
      /\ forward.sched.completed = c.sched.completed
      /\ forward.sched.ready = c.sched.ready \cup new
  BY <1>7, ReadyKeeps DEF Keeps, forward
<1>9. ended \in Pair /\ ended.sched = forward.sched /\ SameGates(c.state, ended.state)
  <2> DEFINE g == Marked(forward.state, "completed", "reached_end")
  <2>1. g \in GraphState
    BY <1>8, MarkedType DEF Pair, Reason, Cause
  <2>2. SameGates(forward.state, g)
    BY <1>8 DEF SameGates, SameNodes, Marked, Pair, GraphState
  <2> HIDE DEF g
  <2>3. /\ [forward EXCEPT !.state = g].sched = forward.sched
        /\ [forward EXCEPT !.state = g].state = g
        /\ [forward EXCEPT !.state = g] \in Pair
    BY <1>8, <2>1 DEF Pair
  <2> QED BY <1>8, <2>2, <2>3 DEF g, SameGates, SameNodes
<1> HIDE DEF ended, d
<1>10. CASE back = {}
  <2>1. Regulates(n) => ~Refused(c.state)
    BY <1>5, <1>10 DEF Refused
  <2>2. \A m \in (d.sched.ready \ c.sched.ready) \cap Node :
          Leads(n, m) /\ m \notin c.sched.completed \cup c.sched.running
    BY <1>1, <1>6, <1>8, <1>9, <1>10 DEF new
  <2> QED BY <2>1, <2>2, <1>1, <1>8, <1>9, <1>10 DEF Forward, d
<1>11. CASE back # {}
  <2>1. Refused(c.state) /\ Regulates(n)
    BY <1>3, <1>5, <1>11 DEF Refused, Regulates
  <2>2. new = {}
    BY <2>1, <1>5, <1>11 DEF new, ahead, Refused
  <2>3. Backward(ended, Requeued(ended, n, agent), n, agent)
    BY <2>1, <1>3, <1>9, <1>11, RequeuedMoves DEF SameGates, Refused
  <2>4. d = Requeued(ended, n, agent)
    BY <1>1, <1>11
  <2>5. /\ ended.sched.ready = c.sched.ready /\ ended.sched.running = c.sched.running
        /\ ended.sched.completed = c.sched.completed
    BY <2>2, <1>8, <1>9
  <2>6. ended.sched = c.sched
    BY <2>2, <1>8, <1>9 DEF forward, Pair, SchedulerState
  <2>7. Backward(c, d, n, agent)
    BY <2>1, <2>3, <2>4, <2>5, <2>6, <1>9 DEF Backward, SameGates, SameNodes
  <2> QED BY <2>7, <1>3, <1>11 DEF d
<1> QED
  BY <1>10, <1>11

\* Node n is about to be routed, or a resume routes it again: it is the point,
\* or the point lies behind; nothing that is live runs, and what is ready is so
\* because of n.
Turn(s, g, n, times, review) ==
  /\ s.ready \cap s.running \cap Node = {}
  /\ n \notin s.running /\ Live(s) \cap s.running = {}
  /\ \A m, t \in Live(s) : m = t
  /\ Worn(s) /\ Ran(s, g, times) /\ Allowed(s, g, times)
  /\ times[n] >= 1
  /\ \A agent \in Node : IsRetry(n, agent) => times[agent] >= 1 /\ agent \notin s.running
  /\ Regulates(n) => g.quality_passed # "unset"
  /\ \A t \in Live(s) : Due(s, g, n, t, review)
  /\ \/ Point(g) \in {NULL, n}
     \/ /\ ~Regulates(Point(g)) /\ Past(s, Point(g))
        /\ Regulates(n) => ~Leads(Point(g), n)

LEMMA TurnFits ==
  ASSUME NEW s, NEW g, NEW n \in Node, NEW times, NEW review, Turn(s, g, n, times, review)
  PROVE  Fit(s, g, times, review)
<1>1. Point(g) # NULL => Near(s, g, Point(g), review)
  <2>1. CASE Point(g) = n
    BY <2>1 DEF Turn, Near
  <2>2. CASE ~Regulates(Point(g)) /\ Past(s, Point(g))
    BY <2>2 DEF Turn, Near, Due
  <2> QED BY <2>1, <2>2 DEF Turn
<1> QED
  BY <1>1 DEF Turn, Fit

\* The same state by what Fit asks of it.
LEMMA SamePoint ==
  ASSUME NEW g, NEW h, SameGates(g, h)
  PROVE  /\ Point(h) = Point(g) /\ Refused(h) = Refused(g)
         /\ \A n : Used(h, n) = Used(g, n) /\ Open(h, n) = Open(g, n)
         /\ h.quality_passed = g.quality_passed
         /\ h.current_node_id = g.current_node_id /\ h.pause_context = g.pause_context
BY DEF SameGates, SameNodes, Point, Refused, Used, Open

LEMMA ForwardFits ==
  ASSUME Gated, NEW c \in Pair, NEW d, NEW n \in Node, NEW times, NEW review,
         Turn(c.sched, c.state, n, times, review), Forward(c, d, n)
  PROVE  Fit(d.sched, d.state, times, review)
<1> DEFINE s == c.sched
           t == d.sched
           g == c.state
           h == d.state
           new == (t.ready \ s.ready) \cap Node
<1>1. /\ t.running = s.running /\ t.completed = s.completed /\ s.ready \subseteq t.ready
      /\ \A m \in new : Leads(n, m) /\ m \notin s.completed \cup s.running
      /\ Regulates(n) => ~Refused(g)
  BY DEF Forward
<1>2. /\ Point(h) = Point(g) /\ Refused(h) = Refused(g)
      /\ \A m : Used(h, m) = Used(g, m) /\ Open(h, m) = Open(g, m)
      /\ h.quality_passed = g.quality_passed
      /\ h.current_node_id = g.current_node_id /\ h.pause_context = g.pause_context
  BY SamePoint DEF Forward
<1>3. g.quality_passed \in {"unset", "pass", "fail"}
  BY DEF Pair, GraphState
<1> HIDE DEF s, t, g, h
<1>4. Turn(s, g, n, times, review)
  BY DEF s, g
<1>5. Live(t) = Live(s) \cup new
  BY <1>1 DEF Live
<1>6. Live(s) \cap s.running = {} /\ new \cap s.running = {}
  BY <1>1, <1>4 DEF Turn
<1>7. \A m \in Live(t) : Due(t, h, n, m, review)
  <2>1. \A m \in Live(s) : Due(t, h, n, m, review)
    BY <1>1, <1>2, <1>4 DEF Turn, Due, Past
  <2>2. \A m \in new : Due(t, h, n, m, review)
    BY <1>1, <1>2 DEF Due
  <2> QED BY <1>5, <2>1, <2>2
<1>8. \A l, m \in Live(t) : l = m
  <2>1. ASSUME NEW m \in new, NEW l \in Live(t) PROVE l = m
    <3>1. Leads(n, m) /\ m \notin s.completed /\ l \in Node
      BY <2>1, <1>1, <1>5 DEF Live
    <3>2. Leads(n, l)
      <4>1. Due(t, h, n, l, review)
        BY <1>7
      <4>2. ~(IsRetry(n, l) /\ Refused(h))
        BY <1>1, <1>2, <3>1 DEF Regulates
      <4>3. ~Past(t, n)
        BY <1>1, <3>1, <2>1 DEF Past
      <4> QED BY <4>1, <4>2, <4>3 DEF Due
    <3> QED BY <3>1, <3>2, <2>1, OneAfter
  <2>2. \A l, m \in Live(s) : l = m
    BY <1>4 DEF Turn
  <2> HIDE DEF new
  <2> QED BY <1>5, <2>1, <2>2, Zenon
<1>9. Worn(t)
  BY <1>1, <1>4 DEF Turn, Worn
<1>10. Ran(t, h, times)
  <2>1. ASSUME NEW gate \in Node, NEW agent \in Node, IsRetry(gate, agent), gate \in new
        PROVE  times[agent] >= 1
    <3>1. n = agent
      BY <2>1, <1>1, GatesAndAgents
    <3> QED BY <3>1, <1>4 DEF Turn
  <2>2. Ran(s, g, times)
    BY <1>4 DEF Turn
  <2>3. ASSUME NEW gate \in Node, NEW agent \in Node, IsRetry(gate, agent),
               gate \in t.ready \cup t.running \cup t.completed \cup {h.current_node_id}
        PROVE  times[agent] >= 1
    BY <2>1, <2>2, <2>3, <1>1, <1>2 DEF Ran
  <2> QED BY <2>2, <2>3, <1>1, <1>2 DEF Ran
<1>11. Allowed(t, h, times)
  <2>1. ASSUME NEW gate \in Node, NEW m \in new, Protects(gate, m) PROVE Open(h, gate)
    <3>1. gate = n /\ Regulates(n)
      BY <2>1, <1>1, ProtectedComeAfter
    <3>2. g.quality_passed = "pass"
      BY <3>1, <1>1, <1>3, <1>4 DEF Turn, Refused
    <3> QED BY <3>2, <1>2 DEF Open
  <2> QED BY <2>1, <1>1, <1>2, <1>4 DEF Turn, Allowed
<1>12. Point(h) # NULL => Near(t, h, Point(h), review)
  <2>1. Live(t) \cap t.running = {}
    BY <1>1, <1>5, <1>6
  <2>2. CASE Point(g) = n
    BY <2>1, <2>2, <1>1, <1>2, <1>4, <1>7 DEF Turn, Near
  <2>3. CASE ~Regulates(Point(g)) /\ Past(s, Point(g))
    BY <2>1, <2>3, <1>1, <1>2 DEF Near, Due, Past
  <2> QED BY <2>2, <2>3, <1>2, <1>4 DEF Turn
<1>13. t.ready \cap t.running \cap Node = {}
  BY <1>1, <1>4 DEF Turn
<1> QED
  BY <1>8, <1>9, <1>10, <1>11, <1>12, <1>13 DEF Fit, t, h

\* A gate that is routed is not ready and does not run.
LEMMA GateIsOut ==
  ASSUME Gated, NEW s, NEW g, NEW n \in Node, NEW times, NEW review, Turn(s, g, n, times, review),
         Regulates(n)
  PROVE  n \notin s.ready \cup s.running
<1>1. PICK agent \in Node : IsRetry(n, agent)
  BY DEF Regulates
<1>2. ~Leads(n, n) /\ ~IsRetry(n, n)
  BY <1>1, GatesAndAgents
<1>3. n \notin Live(s)
  BY <1>2 DEF Turn, Due
<1>4. n \notin s.ready \cap s.completed
  <2>1. ASSUME NEW gate \in Node, IsRetry(gate, n) PROVE FALSE
    BY <2>1, GatesAndAgents
  <2> QED BY <2>1 DEF Turn, Worn
<1> QED
  BY <1>3, <1>4 DEF Turn, Live

LEMMA BackwardFits ==
  ASSUME Gated, NEW c \in Pair, NEW d, NEW n \in Node, NEW agent \in Node, IsRetry(n, agent),
         NEW times, Turn(c.sched, c.state, n, times, env.review_mode), Backward(c, d, n, agent)
  PROVE  Fit(d.sched, d.state, times, env.review_mode)
<1> DEFINE s == c.sched
           t == d.sched
           g == c.state
           h == d.state
           review == env.review_mode
<1>1. /\ Judges(n) /\ ~Judges(agent) /\ ~Regulates(agent) /\ n # agent /\ Regulates(n)
      /\ Leads(agent, n)
      /\ \A m \in Node : Leads(m, n) => m = agent
      /\ \A m \in Node : IsRetry(n, m) => m = agent
      /\ \A m \in Node : IsRetry(m, agent) => m = n
      /\ \A m \in Node : ~IsRetry(m, n)
  BY GatesAndAgents DEF Regulates
<1>2. /\ Refused(g) /\ Refused(h) /\ Point(h) = Point(g) /\ h.quality_passed = g.quality_passed
      /\ h.current_node_id = g.current_node_id /\ h.pause_context = g.pause_context
      /\ t.running = s.running
  BY DEF Backward, SameNodes, Point, Refused
<1>3. \A m \in Node : Used(g, m) => Used(h, m)
  <2>1. c.state.retries \in [Node -> Nat] /\ MaxRetries \in Nat
    BY RuntimeAssumption DEF Pair, GraphState, RuntimeAssumption
  <2> QED BY <2>1 DEF Backward, Used
<1>4. \/ ~Used(h, n) /\ Again(s, t, n, agent)
      \/ Used(h, n) /\ review /\ t = s
      \/ Used(h, n) /\ ~review /\ Skipped(s, t, n, agent)
  BY DEF Backward
<1> HIDE DEF s, t, g, h, review
<1>5. Turn(s, g, n, times, review)
  BY DEF s, g, review
<1>6. n \notin s.ready \cup s.running /\ agent \notin s.running
  BY <1>1, <1>5, GateIsOut DEF Turn
<1>7. \A gate \in Node : Open(g, gate) => Open(h, gate)
  BY <1>2, <1>3 DEF Open
<1>8. /\ \A m \in Live(s) : /\ m \notin s.running
                            /\ \/ Leads(n, m) /\ Used(g, n)
                               \/ m = agent /\ (~Used(g, n) \/ review)
      /\ \A l, m \in Live(s) : l = m
      /\ Worn(s) /\ Ran(s, g, times) /\ Allowed(s, g, times)
      /\ times[n] >= 1 /\ times[agent] >= 1
      /\ s.ready \cap s.running \cap Node = {}
  <2>1. \A m \in Live(s) : m \in Node
    BY DEF Live
  <2> QED BY <2>1, <1>1, <1>2, <1>5 DEF Turn, Due
<1>9. \/ Point(g) \in {NULL, n}
      \/ ~Regulates(Point(g)) /\ Past(s, Point(g)) /\ ~Leads(Point(g), n)
  BY <1>1, <1>5 DEF Turn
\* The agent runs again.
<1>10. CASE ~Used(h, n) /\ Again(s, t, n, agent)
  <2>1. t.completed = s.completed \ {agent, n} /\ t.ready \subseteq s.ready \cup {agent}
    BY <1>10 DEF Again
  <2>2. ~Used(g, n)
    BY <1>3, <1>10
  <2>3. \A m \in Live(t) : m = agent
    <3> SUFFICES ASSUME NEW m \in Live(t), m # agent PROVE FALSE
      OBVIOUS
    <3>1. m \in s.ready \cup s.running /\ m \in Node /\ m \notin t.completed
      BY <2>1, <1>2 DEF Live
    <3>2. m # n
      BY <3>1, <1>6
    <3>3. m \in Live(s)
      BY <3>1, <3>2, <2>1 DEF Live
    <3> QED BY <3>3, <2>2, <1>8
  <2>4. Live(t) \cap t.running = {}
    BY <2>3, <1>2, <1>6
  <2>5. Worn(t)
    <3> SUFFICES ASSUME NEW a \in (t.ready \cup t.running) \cap t.completed \cap Node
                 PROVE  \E gate \in Node : IsRetry(gate, a) /\ gate \in t.completed
      BY DEF Worn
    <3>1. a # agent /\ a \in (s.ready \cup s.running) \cap s.completed
      BY <2>1, <1>2
    <3>2. PICK gate \in Node : IsRetry(gate, a) /\ gate \in s.completed
      BY <3>1, <1>8 DEF Worn
    <3>3. gate # n
      BY <3>1, <3>2, <1>1
    <3>4. gate # agent
      BY <3>2, <1>1 DEF Regulates
    <3> QED BY <3>2, <3>3, <3>4, <2>1
  <2>6. Ran(t, h, times)
    <3>1. ASSUME NEW gate \in Node, NEW x \in Node, IsRetry(gate, x),
                 gate \in t.ready \cup t.running \cup t.completed \cup {h.current_node_id}
          PROVE  times[x] >= 1
      <4>1. gate # agent
        BY <3>1, <1>1 DEF Regulates
      <4> QED BY <4>1, <3>1, <2>1, <1>2, <1>8 DEF Ran
    <3> QED BY <3>1, <2>1, <1>2, <1>8 DEF Ran
  <2>7. Allowed(t, h, times)
    <3> SUFFICES ASSUME NEW gate \in Node, NEW m \in Node, Protects(gate, m), m \in t.ready,
                        times[m] = 0
                 PROVE  Open(h, gate)
      BY DEF Allowed
    <3>1. m # agent
      BY <1>8
    <3> QED BY <3>1, <2>1, <1>7, <1>8 DEF Allowed
  <2>8. Point(h) # NULL => Near(t, h, Point(h), review)
    <3>1. CASE Point(g) = n
      BY <3>1, <2>3, <2>4, <1>2, <1>10 DEF Near, Due, Refused
    <3>2. CASE ~Regulates(Point(g)) /\ Past(s, Point(g)) /\ ~Leads(Point(g), n)
      <4>1. CASE Leads(Point(g), agent)
        BY <4>1, <3>2, <2>3, <2>4, <1>2 DEF Near, Due
      <4>2. CASE ~Leads(Point(g), agent)
        <5>1. Past(t, Point(g))
          BY <4>2, <3>2, <2>1 DEF Past
        <5> QED BY <5>1, <3>2, <2>4, <1>2 DEF Near, Due
      <4> QED BY <4>1, <4>2
    <3> QED BY <3>1, <3>2, <1>2, <1>9
  <2>9. t.ready \cap t.running \cap Node = {}
    BY <2>1, <1>2, <1>6, <1>8
  <2> QED
    BY <2>3, <2>5, <2>6, <2>7, <2>8, <2>9 DEF Fit, t, h, review
\* The run is given up.
<1>11. CASE Used(h, n) /\ review /\ t = s
  <2>1. Ran(t, h, times) /\ Allowed(t, h, times)
    BY <1>2, <1>7, <1>8, <1>11 DEF Ran, Allowed
  <2>2. Point(h) # NULL => Near(t, h, Point(h), review)
    <3>1. CASE Point(g) = n
      BY <3>1, <1>1, <1>2, <1>8, <1>11 DEF Near, Due, Refused
    <3>2. CASE ~Regulates(Point(g)) /\ Past(s, Point(g))
      BY <3>2, <1>2, <1>8, <1>11 DEF Near, Due
    <3> QED BY <3>1, <3>2, <1>2, <1>9
  <2> QED
    BY <2>1, <2>2, <1>8, <1>11 DEF Fit, t, h, review
\* The phase is skipped.
<1>12. CASE Used(h, n) /\ ~review /\ Skipped(s, t, n, agent)
  <2>1. /\ t.completed = s.completed \cup {n, agent}
        /\ t.ready \subseteq s.ready \cup (Successors(n) \ t.completed)
    BY <1>12 DEF Skipped
  <2>2. \A m \in Node : m \in Successors(n) \ t.completed => Leads(n, m)
    BY <2>1, <1>1 DEF Leads, IsRetry
  <2>3. \A m \in Live(t) : Leads(n, m) /\ m \in Node
    <3> SUFFICES ASSUME NEW m \in Live(t) PROVE Leads(n, m) /\ m \in Node
      OBVIOUS
    <3>1. m \in Node /\ m # agent /\ (m \in Live(s) \/ m \in Successors(n) \ t.completed)
      BY <2>1, <1>2 DEF Live
    <3> QED BY <3>1, <2>2, <1>8
  <2>4. \A l, m \in Live(t) : l = m
    BY <2>3, OneAfter
  <2>5. Live(t) \cap t.running = {}
    <3> SUFFICES ASSUME NEW m \in Live(t), m \in s.running PROVE FALSE
      BY <1>2
    <3>1. m \in Live(s)
      BY <2>1 DEF Live
    <3> QED BY <3>1, <1>8
  <2>6. Worn(t)
    <3> SUFFICES ASSUME NEW a \in (t.ready \cup t.running) \cap t.completed \cap Node
                 PROVE  \E gate \in Node : IsRetry(gate, a) /\ gate \in t.completed
      BY DEF Worn
    <3>1. a \in s.ready \cup s.running /\ a # n
      BY <2>1, <1>2, <1>6
    <3>2. CASE a = agent
      BY <3>2, <2>1
    <3>3. CASE a # agent
      BY <3>1, <3>3, <2>1, <1>8 DEF Worn
    <3> QED BY <3>2, <3>3
  <2>7. Ran(t, h, times)
    <3>1. ASSUME NEW gate \in Node, NEW x \in Node, IsRetry(gate, x),
                 gate \in t.ready \cup t.running \cup t.completed \cup {h.current_node_id}
          PROVE  times[x] >= 1
      <4>1. gate # agent
        BY <3>1, <1>1 DEF Regulates
      <4>2. CASE gate = n
        BY <4>2, <3>1, <1>1, <1>8
      <4>3. CASE gate \in Successors(n) \ t.completed
        <5>1. Leads(n, gate)
          BY <4>3, <2>2
        <5>2. n = x /\ ~Judges(x)
          BY <5>1, <3>1, GatesAndAgents
        <5> QED BY <5>2, <1>1
      <4> QED BY <4>1, <4>2, <4>3, <3>1, <2>1, <1>2, <1>8 DEF Ran
    <3> QED BY <3>1, <2>1, <1>2, <1>6, <1>8 DEF Ran
  <2>8. Allowed(t, h, times)
    <3> SUFFICES ASSUME NEW gate \in Node, NEW m \in Node, Protects(gate, m), m \in t.ready,
                        times[m] = 0
                 PROVE  Open(h, gate)
      BY DEF Allowed
    <3>1. CASE m \in s.ready
      BY <3>1, <1>7, <1>8 DEF Allowed
    <3>2. CASE m \in Successors(n) \ t.completed
      <4>1. gate = n
        BY <3>2, <2>2, ProtectedComeAfter
      <4> QED BY <4>1, <1>12 DEF Open
    <3> QED BY <3>1, <3>2, <2>1
  <2>9. Point(h) # NULL => Near(t, h, Point(h), review)
    <3>1. CASE Point(g) = n
      BY <3>1, <2>3, <2>5, <1>2, <1>12 DEF Near, Due, Refused
    <3>2. CASE ~Regulates(Point(g)) /\ Past(s, Point(g))
      <4>1. Past(t, Point(g))
        BY <3>2, <2>1 DEF Past
      <4> QED BY <4>1, <3>2, <2>5, <1>2 DEF Near, Due
    <3> QED BY <3>1, <3>2, <1>2, <1>9
  <2>10. t.ready \cap t.running \cap Node = {}
    <3>1. ASSUME NEW m \in Node, m \in t.ready, m \in s.running PROVE FALSE
      <4>1. m \in s.ready \/ m \notin t.completed
        BY <3>1, <2>1
      <4>2. m \in s.ready \/ m \in Live(t)
        BY <4>1, <3>1 DEF Live
      <4> QED BY <4>2, <3>1, <2>5, <1>2, <1>8
    <3> QED BY <3>1, <1>2
  <2> QED
    BY <2>4, <2>6, <2>7, <2>8, <2>9, <2>10 DEF Fit, t, h, review
<1> QED
  BY <1>4, <1>10, <1>11, <1>12

LEMMA TurnRoutes ==
  ASSUME Gated, NEW c \in Pair, NEW n \in Node, NEW holding \in SUBSET OtherEdges(n), NEW times,
         Turn(c.sched, c.state, n, times, env.review_mode)
  PROVE  LET d == Routed(c, n, holding) IN Fit(d.sched, d.state, times, env.review_mode)
<1> DEFINE d == Routed(c, n, holding)
<1>1. Forward(c, d, n) \/ \E agent \in Node : IsRetry(n, agent) /\ Backward(c, d, n, agent)
  BY RoutedMoves
<1> HIDE DEF d
<1>2. Fit(d.sched, d.state, times, env.review_mode)
  BY <1>1, ForwardFits, BackwardFits
<1> QED
  BY <1>2 DEF d

------------------------------------------------------------------------------
(* The invariant of pipelines with gates *)

LEMMA GateTypes ==
  ASSUME RInv
  PROVE  /\ sched \in SchedulerState /\ state \in GraphState
         /\ result \in [Node -> Outcome] /\ runs \in [Node -> Nat]
         /\ NULL \notin Node /\ Point(state) \in Node \cup {NULL}
         /\ saved # NULL => saved.sched \in SchedulerState /\ saved.state \in GraphState
BY RuntimeAssumption DEF RInv, TypeOK, GraphState, Point, RuntimeAssumption

LEMMA MarkedGates == ASSUME NEW g \in GraphState, NEW reason, NEW cause
                     PROVE  SameGates(g, Marked(g, reason, cause))
BY DEF SameGates, SameNodes, Marked, GraphState

\* What else the two records say does not matter.
LEMMA SameFits ==
  ASSUME NEW s, NEW t, NEW g \in GraphState, NEW h, NEW times, NEW review,
         Fit(s, g, times, review), SameGates(g, h),
         t.ready \cap Node = s.ready \cap Node, t.running \cap Node = s.running \cap Node,
         t.completed = s.completed
  PROVE  Fit(t, h, times, review)
<1>1. /\ Point(h) = Point(g) /\ Refused(h) = Refused(g)
      /\ \A n : Used(h, n) = Used(g, n) /\ Open(h, n) = Open(g, n)
      /\ h.quality_passed = g.quality_passed
      /\ h.current_node_id = g.current_node_id /\ h.pause_context = g.pause_context
  BY SamePoint
<1>2. Live(t) = Live(s) /\ Live(s) \subseteq Node
  BY DEF Live
<1>3. Worn(t) /\ Ran(t, h, times) /\ Allowed(t, h, times)
  <2>1. Worn(t)
    BY DEF Fit, Worn
  <2>2. Ran(t, h, times)
    BY <1>1 DEF Fit, Ran
  <2>3. Allowed(t, h, times)
    BY <1>1 DEF Fit, Allowed
  <2> QED BY <2>1, <2>2, <2>3
<1>4. ASSUME Point(h) # NULL PROVE Near(t, h, Point(h), review)
  <2>1. Near(s, g, Point(g), review)
    BY <1>1, <1>4 DEF Fit
  <2>2. \A n : Due(t, h, Point(g), n, review) = Due(s, g, Point(g), n, review)
    BY <1>1 DEF Due, Past
  <2>3. Past(t, Point(g)) = Past(s, Point(g))
    BY DEF Past
  <2>4. Regulates(Point(g)) /\ Point(g) \notin t.running => h.quality_passed # "unset"
    <3>1. Point(g) \in Node
      BY <1>1, <1>4 DEF Point, GraphState
    <3> QED BY <3>1, <2>1, <1>1 DEF Near
  <2>5. \A n \in Live(t) : n \in t.running <=> n \in s.running
    BY <1>2
  <2> QED BY <1>1, <1>2, <2>1, <2>2, <2>3, <2>4, <2>5 DEF Near
<1>5. t.ready \cap t.running \cap Node = {}
  BY DEF Fit
<1> QED
  BY <1>2, <1>3, <1>4, <1>5 DEF Fit

\* Handing out more only helps.
LEMMA MoreFits ==
  ASSUME NEW s, NEW g, NEW times \in [Node -> Nat], NEW more \in [Node -> Nat], NEW review,
         \A n \in Node : more[n] >= times[n],
         Fit(s, g, times, review)
  PROVE  Fit(s, g, more, review)
<1>1. \A n \in Node : /\ times[n] >= 1 => more[n] >= 1
                      /\ times[n] >= 2 => more[n] >= 2
                      /\ more[n] = 0 => times[n] = 0
  OBVIOUS
<1>2. Ran(s, g, more)
  BY <1>1 DEF Fit, Ran
<1>3. Allowed(s, g, more)
  BY <1>1 DEF Fit, Allowed
<1> QED
  BY <1>2, <1>3 DEF Fit

\* A gate releases nothing by having completed: it is routed.
LEMMA GatesRelease ==
  ASSUME Gated, NEW s \in SchedulerState, NEW n \in Node, Regulates(n)
  PROVE  Completed(s, n, TRUE).ready = s.ready
<1> DEFINE released == {e.to_node : e \in {f \in EdgesFrom(n) :
                          f.edge_type \notin {"conditional", "loop_back"}}} \ {END_NODE_ID}
           pending == [m \in Id |-> IF m \in released THEN s.pending[m] - 1 ELSE s.pending[m]]
           freed   == {m \in released : pending[m] <= 0
                          /\ m \notin (s.completed \cup {n}) \cup (s.running \ {n})}
<1>1. freed = {}
  BY DEF Gated, EdgesFrom
<1>2. Completed(s, n, TRUE) =
        [s EXCEPT !.running = s.running \ {n}, !.completed = s.completed \cup {n},
                  !.pending = pending, !.ready = @ \cup freed]
  BY DEF Completed, Succeeded
<1> HIDE DEF pending, freed, released
<1> QED
  BY <1>1, <1>2 DEF SchedulerState

\* What settling a node does to the places.
Settled(n) == Completed(sched, n, result[n] = "completed")

LEMMA SettledMoves ==
  ASSUME Gated, RInv, NEW n \in Node, result[n] # "none"
  PROVE  /\ Settled(n) \in SchedulerState /\ n \in sched.running
         /\ Settled(n).running = sched.running \ {n}
         /\ Settled(n).completed = IF result[n] = "completed" THEN sched.completed \cup {n}
                                                              ELSE sched.completed
         /\ sched.ready \subseteq Settled(n).ready
         /\ \A m \in Settled(n).ready \ sched.ready :
              /\ Leads(n, m) /\ m \notin Settled(n).completed
              /\ m \in Node => m \notin Settled(n).running
         /\ Regulates(n) \/ result[n] # "completed" => Settled(n).ready = sched.ready
<1> DEFINE success == result[n] = "completed"
           t == Completed(sched, n, success)
<1>1. n \in Flight(sched) /\ sched \in SchedulerState /\ success \in BOOLEAN
  BY DEF RInv, Results, TypeOK
<1>2. \A e \in Edges : e.edge_type # "error"
  BY DEF Gated
<1>3. /\ t \in SchedulerState /\ Ends(sched, t, n, success)
      /\ \A m \in t.ready \ sched.ready : Leads(n, m) /\ m \notin t.completed
      /\ ~success => t.ready = sched.ready
  <2> HIDE DEF success
  <2> QED BY <1>1, <1>2, CompletedEnds
<1>4. \A m \in sched.running \cap Node : m # n => ~Leads(n, m)
  BY <1>1 DEF RInv, OneBatch, Flight, Leads
<1>5. Regulates(n) /\ success => t.ready = sched.ready
  BY <1>1, GatesRelease
<1>6. Settled(n) = t
  BY DEF Settled
<1> HIDE DEF t
<1> QED
  BY <1>1, <1>3, <1>4, <1>5, <1>6 DEF Ends, Flight

\* A node with a reason to run is about to be routed.
LEMMA SettledTurns ==
  ASSUME Gated, RInv, GInv, pc = "settling", NEW n \in Node, result[n] # "none",
         n \notin sched.completed
  PROVE  Turn(Settled(n), state, n, runs, env.review_mode)
<1> DEFINE s == sched
           t == Settled(n)
           g == state
           p == Point(state)
           new == (t.ready \ s.ready) \cap Node
<1>1. /\ n \in s.running /\ t.running = s.running \ {n}
      /\ s.completed \subseteq t.completed /\ t.completed \subseteq s.completed \cup {n}
      /\ result[n] = "completed" => n \in t.completed
      /\ s.ready \subseteq t.ready
      /\ \A m \in new : Leads(n, m) /\ m \notin t.completed /\ m \notin t.running
      /\ Regulates(n) \/ result[n] # "completed" => new = {}
  <2>1. /\ n \in s.running /\ t.running = s.running \ {n}
        /\ t.completed = IF result[n] = "completed" THEN s.completed \cup {n} ELSE s.completed
        /\ s.ready \subseteq t.ready
        /\ \A m \in t.ready \ s.ready : /\ Leads(n, m) /\ m \notin t.completed
                                        /\ m \in Node => m \notin t.running
        /\ Regulates(n) \/ result[n] # "completed" => t.ready = s.ready
    BY SettledMoves
  <2> QED BY <2>1
<1>2. Fit(s, g, runs, env.review_mode)
  BY DEF GInv, OnGuard
<1>3. /\ result[n] = "failed" => ~Follows(n) /\ ~Judges(n)
      /\ result[n] = "paused" => g.pause_context = n
      /\ Judges(n) /\ result[n] = "completed" => g.quality_passed # "unset"
      /\ result[n] \in {"completed", "failed", "paused"}
      /\ NULL \notin Node /\ g.pause_context \in Node \cup {NULL}
  BY GateTypes DEF GInv, OnGuard, Endings, Outcome, GraphState
<1>4. g.pause_context # NULL => Kind[g.pause_context] = "human" /\ p = g.pause_context
  BY <1>2 DEF Fit, Ran, Point
<1> HIDE DEF s, t, g
<1>5. n \in Live(s) /\ n \notin s.ready
  BY <1>1, <1>2, GateTypes DEF Live, Fit, s
<1>6. /\ \A l, m \in Live(s) : l = m
      /\ Worn(s) /\ Ran(s, g, runs) /\ Allowed(s, g, runs)
      /\ s.ready \cap s.running \cap Node = {}
      /\ p # NULL => Near(s, g, p, env.review_mode)
  BY <1>2 DEF Fit, g
<1>7. Live(t) \subseteq new
  <2>1. ASSUME NEW m \in Live(t) PROVE m \in new
    <3>1. m \in Node /\ m \notin s.completed /\ (m \in t.ready \/ m \in s.running \ {n})
      BY <1>1 DEF Live
    <3>2. m \in s.ready \cup s.running => m = n
      BY <3>1, <1>5, <1>6 DEF Live
    <3> QED BY <3>1, <3>2, <1>5
  <2> QED BY <2>1
<1>8. \A l, m \in Live(t) : l = m
  BY <1>1, <1>7, OneAfter
<1>9. t.ready \cap t.running \cap Node = {} /\ Live(t) \cap t.running = {}
  BY <1>1, <1>6, <1>7
<1>10. n \notin t.running
  BY <1>1
<1>11. Worn(t)
  <2> SUFFICES ASSUME NEW a \in (t.ready \cup t.running) \cap t.completed \cap Node
               PROVE  \E gate \in Node : IsRetry(gate, a) /\ gate \in t.completed
    BY DEF Worn
  <2>1. a \in s.ready \cup s.running /\ a # n
    BY <1>1, <1>5
  <2> QED BY <2>1, <1>1, <1>6 DEF Worn
<1>12. Ran(t, g, runs)
  <2>1. ASSUME NEW gate \in Node, NEW agent \in Node, IsRetry(gate, agent), gate \in new
        PROVE  runs[agent] >= 1
    <3>1. n = agent
      BY <2>1, <1>1, GatesAndAgents
    <3> QED BY <3>1, <1>1, <1>6 DEF Ran
  <2>2. ASSUME NEW gate \in Node, NEW agent \in Node, IsRetry(gate, agent),
               gate \in t.ready \cup t.running \cup t.completed \cup {g.current_node_id}
        PROVE  runs[agent] >= 1
    BY <2>1, <2>2, <1>1, <1>6 DEF Ran
  <2>3. ASSUME NEW m \in Node
        PROVE  /\ m \in t.running \cup t.completed \cup {g.current_node_id, g.pause_context} => runs[m] >= 1
               /\ m \in t.running \cap t.completed => runs[m] >= 2
    BY <1>1, <1>6 DEF Ran
  <2> QED BY <2>2, <2>3, <1>6 DEF Ran
<1>13. Allowed(t, g, runs)
  <2>1. ASSUME NEW gate \in Node, NEW m \in new, Protects(gate, m) PROVE FALSE
    BY <2>1, <1>1, ProtectedComeAfter
  <2> QED BY <2>1, <1>6 DEF Allowed
<1>14. runs[n] >= 1
  BY <1>1, <1>6 DEF Ran
<1>15. ASSUME NEW agent \in Node, IsRetry(n, agent)
       PROVE  runs[agent] >= 1 /\ agent \notin t.running
  <2>1. runs[agent] >= 1
    BY <1>1, <1>6, <1>15 DEF Ran
  <2>2. agent # n /\ \A m \in Node : IsRetry(m, agent) => m = n
    BY <1>15, GatesAndAgents
  <2>3. agent \notin s.running
    <3> SUFFICES ASSUME agent \in s.running PROVE FALSE
      OBVIOUS
    <3>1. agent \in s.completed
      BY <2>2, <1>5, <1>6 DEF Live
    <3> QED BY <3>1, <2>2, <1>5, <1>6 DEF Worn, Live
  <2> QED BY <2>1, <2>3, <1>1
<1>16. Regulates(n) => g.quality_passed # "unset"
  BY <1>3, <1>4, GatesJudge
<1>17. \A m \in Live(t) : Due(t, g, n, m, env.review_mode)
  BY <1>1, <1>7 DEF Due
<1>18. \/ p \in {NULL, n}
       \/ /\ ~Regulates(p) /\ Past(t, p)
          /\ Regulates(n) => ~Leads(p, n)
  <2>1. ASSUME ~Regulates(p), Past(s, p) PROVE Past(t, p) /\ ~Leads(p, n)
    BY <2>1, <1>1, <1>5 DEF Past, Live
  <2>2. CASE g.pause_context = NULL
    <3>1. p # NULL => p = n \/ (~Regulates(p) /\ Past(s, p))
      BY <2>2, <1>1, <1>5, <1>6 DEF Near
    <3> QED BY <3>1, <2>1
  <2>3. CASE g.pause_context # NULL
    <3>1. p \in Node /\ Kind[p] = "human" /\ p # NULL
      BY <2>3, <1>3, <1>4
    <3>2. ~Regulates(p) /\ \A m \in Node : ~IsRetry(p, m)
      BY <3>1, GatesJudge DEF Regulates
    <3>3. Leads(p, n) \/ Past(s, p) \/ n = p
      BY <3>1, <3>2, <1>5, <1>6 DEF Near, Due
    <3>4. CASE Leads(p, n) /\ n # p
      <4>1. result[n] = "completed"
        BY <3>1, <3>4, <1>3, <1>4, <2>3 DEF Follows
      <4>2. Past(t, p)
        BY <3>1, <3>4, <4>1, <1>1, OneAfter DEF Past
      <4>3. ~Regulates(n)
        BY <3>1, <3>4, GatesAndAgents DEF Regulates
      <4> QED BY <3>2, <4>2, <4>3
    <3> QED BY <3>2, <3>3, <3>4, <2>1
  <2> QED BY <2>2, <2>3
<1> QED
  BY <1>8, <1>9, <1>10, <1>11, <1>12, <1>13, <1>14, <1>15, <1>16, <1>17, <1>18 DEF Turn, t, g

\* One that runs although its phase was skipped changes nothing by its end.
LEMMA StaleSettles ==
  ASSUME Gated, RInv, GInv, pc = "settling", NEW n \in Node, result[n] # "none",
         n \in sched.completed
  PROVE  /\ Fit(Settled(n), state, runs, env.review_mode)
         /\ ~Regulates(n) /\ \A m \in Node : Leads(n, m) => m \in Settled(n).completed
<1> DEFINE s == sched
           t == Settled(n)
           g == state
<1>1. /\ n \in s.running /\ t.running = s.running \ {n} /\ t.completed = s.completed
      /\ s.ready \subseteq t.ready
      /\ \A m \in t.ready \ s.ready : Leads(n, m) /\ m \notin t.completed
  <2>1. n \in s.running /\ t.running = s.running \ {n} /\ s.ready \subseteq t.ready
    BY SettledMoves
  <2>2. t.completed = IF result[n] = "completed" THEN s.completed \cup {n} ELSE s.completed
    BY SettledMoves
  <2>3. \A m \in t.ready \ s.ready : Leads(n, m) /\ m \notin t.completed
    BY SettledMoves
  <2> QED BY <2>1, <2>2, <2>3
<1>2. Fit(s, g, runs, env.review_mode)
  BY DEF GInv, OnGuard
<1>3. g \in GraphState /\ Point(g) \in Node \cup {NULL}
  BY GateTypes
<1> HIDE DEF s, t, g
<1>4. PICK gate \in Node : IsRetry(gate, n) /\ gate \in s.completed
  BY <1>1, <1>2 DEF Fit, Worn, s
<1>5. ~Regulates(n) /\ \A m \in Node : Leads(n, m) => m \in t.completed
  BY <1>1, <1>4, GatesAndAgents
<1>6. t.ready \cap Node = s.ready \cap Node
  BY <1>1, <1>5
<1>7. Live(t) = Live(s) /\ n \notin Live(s)
  BY <1>1, <1>6 DEF Live, s
<1>8. Worn(t) /\ Ran(t, g, runs) /\ Allowed(t, g, runs)
  <2>1. Worn(t)
    BY <1>1, <1>2, <1>6 DEF Fit, Worn
  <2>2. Ran(t, g, runs)
    BY <1>1, <1>2, <1>6 DEF Fit, Ran
  <2>3. Allowed(t, g, runs)
    BY <1>1, <1>2, <1>6 DEF Fit, Allowed
  <2> QED BY <2>1, <2>2, <2>3
<1>9. ASSUME Point(g) # NULL PROVE Near(t, g, Point(g), env.review_mode)
  <2>1. Near(s, g, Point(g), env.review_mode)
    BY <1>2, <1>9 DEF Fit
  <2>2. Past(t, Point(g)) = Past(s, Point(g))
    BY <1>1 DEF Past
  <2>3. \A m : Due(t, g, Point(g), m, env.review_mode) = Due(s, g, Point(g), m, env.review_mode)
    BY <2>2 DEF Due
  <2>4. Regulates(Point(g)) /\ Point(g) \notin t.running => Point(g) \notin s.running
    BY <1>1, <1>5
  <2> QED BY <1>1, <1>7, <2>1, <2>2, <2>3, <2>4 DEF Near
<1>10. t.ready \cap t.running \cap Node = {}
  BY <1>1, <1>2, <1>6 DEF Fit
<1> QED
  BY <1>2, <1>5, <1>7, <1>8, <1>9, <1>10 DEF Fit, t, g

\* A step that leaves the nodes where they are, and what Fit asks of the state.
LEMMA SameOnGuard ==
  ASSUME RInv, GInv, SameGates(state, state'), UNCHANGED runs, env'.review_mode = env.review_mode,
         result' \in {result, NoResult},
         sched'.ready \cap Node = sched.ready \cap Node,
         sched'.running \cap Node = sched.running \cap Node, sched'.completed = sched.completed,
         pc' \notin {"reset", "down"} => pc \notin {"reset", "down"}
  PROVE  OnGuard'
<1>1. pc' \notin {"reset", "down"} => Fit(sched', state', runs', env'.review_mode)
  BY GateTypes, SameFits DEF GInv, OnGuard
<1>2. Endings'
  BY DEF GInv, OnGuard, Endings, SameGates, SameNodes, NoResult
<1>3. GateHolds'
  BY DEF GInv, OnGuard, GateHolds, SameGates
<1> QED
  BY <1>1, <1>2, <1>3 DEF OnGuard

LEMMA SameState == SameGates(state, state)
BY DEF SameGates, SameNodes

LEMMA InitGInv == ASSUME Gated, Init PROVE GInv
<1>1. /\ sched.ready = {} /\ sched.running = {} /\ sched.completed = {} /\ saved = NULL
      /\ state.current_node_id = NULL /\ state.pause_context = NULL
      /\ \A n \in Node : result[n] = "none"
  BY DEF Init, InitialState, NoResult
<1>2. NULL \notin Node
  BY RuntimeAssumption DEF RuntimeAssumption
<1>3. Fit(sched, state, runs, env.review_mode)
  BY <1>1, <1>2 DEF Fit, Live, Worn, Ran, Allowed, Point
<1>4. Endings /\ GateHolds
  BY <1>1 DEF Endings, GateHolds
<1> QED
  BY <1>1, <1>3, <1>4 DEF GInv, OnGuard

LEMMA ExecuteOnGuard == ASSUME Gated, RInv, GInv, Execute PROVE OnGuard'
<1>1. /\ sched' = Initialize(StartNodes) /\ state' = InitialState /\ result' = result
      /\ pc \in {"created", "reset"}
  BY DEF Execute
<1>2. /\ sched'.running = {} /\ sched'.completed = {}
      /\ state'.current_node_id = NULL /\ state'.pause_context = NULL
  BY <1>1, InitializeFacts DEF InitialState
<1>3. NULL \notin Node
  BY GateTypes
<1>4. /\ \A m, n \in sched'.ready : m = n
      /\ \A gate, agent \in Node : IsRetry(gate, agent) => gate \notin sched'.ready
      /\ \A gate, n \in Node : Protects(gate, n) => n \notin sched'.ready
  BY <1>1 DEF Gated
<1>5. Fit(sched', state', runs', env'.review_mode)
  BY <1>2, <1>3, <1>4 DEF Fit, Live, Worn, Ran, Allowed, Point
<1>6. \A n \in Node : result'[n] = "none"
  BY <1>1 DEF RInv, Results, NoResult
<1>7. Endings' /\ GateHolds'
  BY <1>2, <1>6 DEF Endings, GateHolds
<1> QED
  BY <1>5, <1>7 DEF OnGuard

\* Nothing that routes, runs or ends a node.
LEMMA IdleOnGuard ==
  ASSUME RInv, GInv,
         \/ StopTerminated \/ StopAtLimit \/ HonourCancel \/ HonourPause \/ NothingLeft
         \/ NothingEligible \/ DispatchMissing \/ Tail \/ Final
         \/ RequestPause \/ RequestCancel \/ Cancel \/ Crash \/ UNCHANGED vars
  PROVE  OnGuard'
<1>1. sched \in SchedulerState /\ state \in GraphState
  BY GateTypes
<1>2. \/ state' = state
      \/ \E reason \in Reason, cause \in Cause : state' = Marked(state, reason, cause)
  BY DEF StopTerminated, StopAtLimit, HonourCancel, HonourPause, NothingLeft, NothingEligible,
     DispatchMissing, Tail, Final, RequestPause, RequestCancel, Cancel, Crash, vars, Reason, Cause
<1>3. SameGates(state, state')
  BY <1>1, <1>2, MarkedGates, SameState
<1>4. /\ UNCHANGED <<runs, result>> /\ env'.review_mode = env.review_mode
      /\ pc' \notin {"reset", "down"} => pc \notin {"reset", "down"}
  BY DEF StopTerminated, StopAtLimit, HonourCancel, HonourPause, NothingLeft, NothingEligible,
     DispatchMissing, Tail, Final, RequestPause, RequestCancel, Cancel, Asked, Crash, vars, RInv,
     TypeOK, Undisturbed, GoesOn
<1>5. /\ sched'.ready \cap Node = sched.ready \cap Node
      /\ sched'.running \cap Node = sched.running \cap Node /\ sched'.completed = sched.completed
  <2>1. CASE DispatchMissing
    BY <2>1, <1>1, MissingFacts, EdgeEnds DEF DispatchMissing
  <2>2. CASE ~DispatchMissing
    <3>1. sched' = sched
      BY <2>2 DEF StopTerminated, StopAtLimit, HonourCancel, HonourPause, NothingLeft,
         NothingEligible, Tail, Final, RequestPause, RequestCancel, Cancel, Asked, Crash, vars
    <3> QED BY <3>1
  <2> QED BY <2>1, <2>2
<1> QED
  BY <1>3, <1>4, <1>5, SameOnGuard

\* What is handed out was ready, and the first time it was let on.
LEMMA ScheduleOnGuard == ASSUME Gated, RInv, GInv, Schedule PROVE OnGuard'
<1>1. PICK eligible \in Eligible : \E batch \in Batches(eligible) :
        /\ sched' = Dispatched(sched, batch)
        /\ runs' = [n \in Node |-> IF n \in batch THEN runs[n] + 1 ELSE runs[n]]
        /\ \E last \in batch \ {END_NODE_ID} : state' = [state EXCEPT !.current_node_id = last]
  BY DEF Schedule
<1>2. PICK batch \in Batches(eligible) :
        /\ sched' = Dispatched(sched, batch)
        /\ runs' = [n \in Node |-> IF n \in batch THEN runs[n] + 1 ELSE runs[n]]
        /\ \E last \in batch \ {END_NODE_ID} : state' = [state EXCEPT !.current_node_id = last]
  BY <1>1
<1>3. PICK last \in batch \ {END_NODE_ID} : state' = [state EXCEPT !.current_node_id = last]
  BY <1>2
<1>4. batch \subseteq sched.ready
  BY <1>1, <1>2, BatchFacts DEF Eligible
<1>5. /\ sched \in SchedulerState /\ state \in GraphState /\ runs \in [Node -> Nat]
      /\ NULL \notin Node /\ sched.running \cap Node = {} /\ pc = "loop"
      /\ env' = env /\ result' = result
  BY GateTypes DEF RInv, Quiet, Flight, Schedule, Undisturbed, GoesOn
<1>6. /\ sched'.ready = sched.ready \ batch /\ sched'.running = sched.running \cup batch
      /\ sched'.completed = sched.completed
  BY <1>2, <1>5 DEF Dispatched, SchedulerState
<1>7. /\ last \in Node /\ last \in batch
      /\ state'.current_node_id = last /\ state'.pause_context = state.pause_context
      /\ state'.quality_passed = state.quality_passed /\ state'.retries = state.retries
  BY <1>3, <1>4, <1>5 DEF SchedulerState, Id, GraphState
<1>8. \A n \in Node : /\ runs'[n] = IF n \in batch THEN runs[n] + 1 ELSE runs[n]
                      /\ runs[n] \in Nat
  BY <1>2, <1>5
<1>9. Fit(sched, state, runs, env.review_mode)
  BY <1>5 DEF GInv, OnGuard
<1>10. Live(sched') = Live(sched)
  BY <1>4, <1>6 DEF Live
<1>11. /\ sched'.ready \cap sched'.running \cap Node = {}
       /\ \A m, n \in Live(sched') : m = n
       /\ Worn(sched')
  BY <1>4, <1>5, <1>6, <1>9, <1>10 DEF Fit, Worn
<1>12. Ran(sched', state', runs')
  <2>1. ASSUME NEW n \in Node
        PROVE  /\ n \in sched'.running \cup sched'.completed
                        \cup {state'.current_node_id, state'.pause_context} => runs'[n] >= 1
               /\ n \in sched'.running \cap sched'.completed => runs'[n] >= 2
    BY <1>5, <1>6, <1>7, <1>8, <1>9 DEF Fit, Ran
  <2>2. ASSUME NEW gate \in Node, NEW agent \in Node, IsRetry(gate, agent),
               gate \in sched'.ready \cup sched'.running \cup sched'.completed
                        \cup {state'.current_node_id}
        PROVE  runs'[agent] >= 1
    BY <2>2, <1>4, <1>5, <1>6, <1>7, <1>8, <1>9 DEF Fit, Ran
  <2> QED BY <2>1, <2>2, <1>7, <1>9 DEF Fit, Ran
<1>13. Allowed(sched', state', runs')
  BY <1>6, <1>7, <1>8, <1>9 DEF Fit, Allowed, Open, Used
<1>14. ASSUME Point(state') # NULL
       PROVE  Near(sched', state', Point(state'), env'.review_mode)
  <2>1. CASE state.pause_context # NULL
    <3> DEFINE p == state.pause_context
    <3>1. Point(state') = p /\ Point(state) = p /\ p \in Node
      BY <2>1, <1>5, <1>7 DEF Point, GraphState
    <3>2. ~Regulates(p)
      BY <2>1, <3>1, <1>9, GatesJudge DEF Fit, Ran
    <3>3. \A t \in Live(sched) : Due(sched, state, p, t, env.review_mode)
      BY <2>1, <3>1, <1>5, <1>9 DEF Fit, Near, Live
    <3>4. \A t \in Live(sched') : Due(sched', state', p, t, env'.review_mode)
      BY <3>3, <1>5, <1>6, <1>7, <1>10 DEF Due, Past, Refused, Used
    <3> QED BY <2>1, <3>1, <3>2, <3>4, <1>7 DEF Near
  <2>2. CASE state.pause_context = NULL
    <3>1. Point(state') = last
      BY <2>2, <1>7 DEF Point
    <3>2. last \notin Live(sched) => ~Regulates(last) /\ Past(sched', last)
      <4> SUFFICES ASSUME last \notin Live(sched)
                   PROVE  ~Regulates(last) /\ Past(sched', last)
        OBVIOUS
      <4>1. last \in sched.completed
        BY <1>4, <1>7 DEF Live
      <4>2. PICK gate \in Node : IsRetry(gate, last) /\ gate \in sched.completed
        BY <4>1, <1>4, <1>7, <1>9 DEF Fit, Worn
      <4> QED BY <4>2, <1>6, <1>7, GatesAndAgents DEF Past
    <3>3. \A t \in Live(sched') : t = last \/ (~Regulates(last) /\ Past(sched', last))
      BY <3>2, <1>10, <1>11
    <3> QED BY <3>1, <3>3, <1>6, <1>7 DEF Near, Due
  <2> QED BY <2>1, <2>2
<1>15. Fit(sched', state', runs', env'.review_mode)
  BY <1>11, <1>12, <1>13, <1>14 DEF Fit
<1>16. Endings'
  BY <1>5, <1>7 DEF GInv, OnGuard, Endings
<1>17. GateHolds'
  <2> SUFFICES ASSUME NEW gate \in Node, NEW n \in Node, Protects(gate, n),
                      n \in sched'.running, runs'[n] = 1
               PROVE  state'.quality_passed = "pass" \/ state'.retries[gate] > MaxRetries
    BY DEF GateHolds
  <2>1. n \in batch /\ runs[n] = 0
    BY <1>5, <1>6, <1>8
  <2>2. Open(state, gate)
    BY <2>1, <1>4, <1>9 DEF Fit, Allowed
  <2> QED BY <2>2, <1>7 DEF Open, Used
<1> QED
  BY <1>15, <1>16, <1>17 DEF OnGuard

LEMMA RecordedGates ==
  ASSUME NEW g \in GraphState, NEW n \in Node, NEW outcome
  PROVE  SameGates(g, Recorded(g, n, outcome))
BY DEF SameGates, SameNodes, Recorded, GraphState

\* A node that runs for a good reason is the only one; who runs without one is
\* an agent.
LEMMA RunningOnes ==
  ASSUME Gated, RInv, GInv, pc = "executing", NEW n \in Flight(sched)
  PROVE  /\ n \in Node /\ Fit(sched, state, runs, env.review_mode)
         /\ n \notin Live(sched) => ~Judges(n) /\ Kind[n] # "human"
         /\ n \in Live(sched) => Live(sched) = {n}
         /\ runs[n] >= 1 /\ (n \notin Live(sched) => runs[n] >= 2)
<1>1. n \in sched.running /\ n \in Node
  BY DEF Flight
<1>2. Fit(sched, state, runs, env.review_mode)
  BY DEF GInv, OnGuard
<1>3. n \notin Live(sched) => n \in sched.completed
  BY <1>1 DEF Live
<1>4. n \in sched.completed => \E gate \in Node : IsRetry(gate, n)
  BY <1>1, <1>2 DEF Fit, Worn
<1>5. runs[n] >= 1 /\ (n \in sched.completed => runs[n] >= 2)
  BY <1>1, <1>2 DEF Fit, Ran
<1>6. n \in Live(sched) => Live(sched) = {n}
  BY <1>2 DEF Fit
<1> QED
  BY <1>1, <1>2, <1>3, <1>4, <1>5, <1>6, GatesAndAgents

\* A node that checks nothing and asks nobody.
LEMMA WorkOnGuard ==
  ASSUME RInv, GInv, NEW n \in Node, NEW outcome \in {"completed", "failed"},
         NEW g \in GraphState, SameGates(state, g), Finish(n, outcome, g),
         ~Judges(n), outcome = "failed" => ~Follows(n)
  PROVE  OnGuard'
<1>1. /\ state' = Recorded(g, n, outcome) /\ result' = [result EXCEPT ![n] = outcome]
      /\ UNCHANGED <<sched, runs, env>> /\ pc = "executing"
  BY DEF Finish
<1>2. SameGates(state, state')
  BY <1>1, RecordedGates DEF SameGates, SameNodes
<1>3. Fit(sched', state', runs', env'.review_mode)
  BY <1>1, <1>2, GateTypes, SameFits DEF GInv, OnGuard
<1>4. Endings'
  <2> SUFFICES ASSUME NEW m \in Node
               PROVE  /\ result'[m] = "failed" => ~Follows(m) /\ ~Judges(m)
                      /\ result'[m] = "paused" => state'.pause_context = m
                      /\ Judges(m) /\ result'[m] = "completed" => state'.quality_passed # "unset"
    BY DEF Endings
  <2>1. CASE m = n
    BY <2>1, <1>1, GateTypes
  <2>2. CASE m # n
    <3>1. result'[m] = result[m]
      BY <2>2, <1>1, GateTypes
    <3> QED BY <3>1, <1>2 DEF GInv, OnGuard, Endings, SameGates, SameNodes
  <2> QED BY <2>1, <2>2
<1>5. GateHolds'
  BY <1>1, <1>2 DEF GInv, OnGuard, GateHolds, SameGates
<1> QED
  BY <1>3, <1>4, <1>5 DEF OnGuard

\* The verdict is the gate's own: nothing else that is live runs or waits.
LEMMA JudgeOnGuard ==
  ASSUME Gated, RInv, GInv, NEW n \in Node, NEW verdict \in {"pass", "fail"},
         JudgeOutput(n, verdict)
  PROVE  OnGuard'
<1> DEFINE g == [state EXCEPT !.quality_passed = verdict]
<1>1. /\ Judges(n) /\ state' = Recorded(g, n, "completed") /\ n \in Flight(sched)
      /\ result' = [result EXCEPT ![n] = "completed"]
      /\ UNCHANGED <<sched, runs, env>> /\ pc = "executing"
  BY DEF JudgeOutput, Finish, Flight
<1>2. state \in GraphState /\ runs \in [Node -> Nat] /\ result \in [Node -> Outcome] /\ NULL \notin Node
  BY GateTypes
<1>3. g \in GraphState /\ g.quality_passed = verdict /\ g.retries = state.retries /\ SameNodes(state, g)
  BY <1>2 DEF GraphState, SameNodes
<1> HIDE DEF g
<1>4. /\ state'.quality_passed = verdict /\ verdict # "unset" /\ state'.retries = state.retries
      /\ SameNodes(state, state') /\ Point(state') = Point(state)
  BY <1>1, <1>3, RecordedGates DEF SameGates, SameNodes, Point
<1>5. Live(sched) = {n} /\ Fit(sched, state, runs, env.review_mode) /\ n \in sched.running
  BY <1>1, RunningOnes DEF Flight
<1>6. Ran(sched, state', runs)
  BY <1>4, <1>5 DEF Fit, Ran, SameNodes
<1>7. Allowed(sched, state', runs)
  <2> SUFFICES ASSUME NEW gate \in Node, NEW m \in Node, Protects(gate, m), m \in sched.ready,
                      runs[m] = 0
               PROVE  FALSE
    BY DEF Allowed
  <2>1. m \notin sched.completed
    BY <1>2, <1>5 DEF Fit, Ran
  <2>2. m = n
    BY <2>1, <1>5 DEF Live
  <2> QED BY <2>2, <1>1, ProtectedComeAfter
<1>8. ASSUME Point(state') # NULL
      PROVE  Near(sched, state', Point(state'), env.review_mode)
  <2> DEFINE p == Point(state)
  <2>1. p \in Node /\ Near(sched, state, p, env.review_mode)
    BY <1>4, <1>5, <1>8, GateTypes DEF Fit
  <2>2. p = n \/ (~Regulates(p) /\ (Past(sched, p) \/ Leads(p, n)))
    <3>1. CASE state.pause_context = NULL
      BY <3>1, <2>1, <1>5 DEF Near
    <3>2. CASE state.pause_context # NULL
      <4>1. ~Regulates(p)
        BY <3>2, <2>1, <1>5, GatesJudge DEF Fit, Ran, Point
      <4>2. Due(sched, state, p, n, env.review_mode) \/ n = p
        BY <2>1, <1>5 DEF Near
      <4> QED BY <4>1, <4>2 DEF Due, Regulates
    <3> QED BY <3>1, <3>2
  <2>3. state.pause_context = NULL => p = n \/ (~Regulates(p) /\ Past(sched, p))
    BY <2>1, <1>5 DEF Near
  <2> HIDE DEF p
  <2>4. Point(state') = p /\ state'.pause_context = state.pause_context
    BY <1>4 DEF p, SameNodes
  <2> QED BY <2>2, <2>3, <2>4, <1>4, <1>5 DEF Near, Due
<1>9. Fit(sched', state', runs', env'.review_mode)
  BY <1>1, <1>5, <1>6, <1>7, <1>8 DEF Fit
<1>10. Endings'
  <2> SUFFICES ASSUME NEW m \in Node
               PROVE  /\ result'[m] = "failed" => ~Follows(m) /\ ~Judges(m)
                      /\ result'[m] = "paused" => state'.pause_context = m
                      /\ Judges(m) /\ result'[m] = "completed" => state'.quality_passed # "unset"
    BY DEF Endings
  <2>1. CASE m = n
    BY <2>1, <1>1, <1>2, <1>4
  <2>2. CASE m # n
    <3>1. result'[m] = result[m]
      BY <2>2, <1>1, <1>2
    <3> QED BY <3>1, <1>4 DEF GInv, OnGuard, Endings, SameNodes
  <2> QED BY <2>1, <2>2
<1>11. GateHolds'
  <2> SUFFICES ASSUME NEW gate \in Node, NEW m \in Node, Protects(gate, m), m \in sched.running,
                      runs[m] = 1
               PROVE  FALSE
    BY <1>1 DEF GateHolds
  <2>1. m \in Live(sched)
    BY <1>1, RunningOnes DEF Flight
  <2>2. m = n
    BY <2>1, <1>5
  <2> QED BY <2>2, <1>1, ProtectedComeAfter
<1> QED
  BY <1>9, <1>10, <1>11 DEF OnGuard

\* Who asks becomes the point, and nothing else is live.
LEMMA AskOnGuard ==
  ASSUME Gated, RInv, GInv, NEW n \in Node, AskHuman(n)
  PROVE  OnGuard'
<1> DEFINE g == Marked(state, "paused", "awaiting_user")
           h == [g EXCEPT !.pause_context = n]
<1>1. /\ Kind[n] = "human" /\ state' = Recorded(h, n, "paused") /\ n \in Flight(sched)
      /\ result' = [result EXCEPT ![n] = "paused"]
      /\ UNCHANGED <<sched, runs, env>> /\ pc = "executing"
  BY DEF AskHuman, Finish, Flight
<1>2. state \in GraphState /\ result \in [Node -> Outcome] /\ NULL \notin Node
  BY GateTypes
<1>3. g \in GraphState /\ SameGates(state, g)
  BY <1>2, MarkedType, MarkedGates DEF Reason, Cause
<1> HIDE DEF g
<1>4. /\ h \in GraphState /\ h.pause_context = n /\ h.current_node_id = g.current_node_id
      /\ h.retries = g.retries /\ h.quality_passed = g.quality_passed
  BY <1>3 DEF GraphState
<1> HIDE DEF h
<1>5. /\ state'.pause_context = n /\ state'.current_node_id = state.current_node_id
      /\ state'.retries = state.retries /\ state'.quality_passed = state.quality_passed
      /\ Point(state') = n
  BY <1>1, <1>2, <1>3, <1>4, RecordedGates DEF SameGates, SameNodes, Point
<1>6. /\ Live(sched) = {n} /\ Fit(sched, state, runs, env.review_mode) /\ n \in sched.running
      /\ runs[n] >= 1
  BY <1>1, RunningOnes DEF Flight
<1>7. Ran(sched, state', runs)
  BY <1>1, <1>5, <1>6 DEF Fit, Ran
<1>8. Allowed(sched, state', runs)
  BY <1>5, <1>6 DEF Fit, Allowed, Open, Used
<1>9. Near(sched, state', n, env.review_mode)
  BY <1>2, <1>5, <1>6 DEF Near
<1>10. Fit(sched', state', runs', env'.review_mode)
  BY <1>1, <1>5, <1>6, <1>7, <1>8, <1>9 DEF Fit
<1>11. Endings'
  <2> SUFFICES ASSUME NEW m \in Node
               PROVE  /\ result'[m] = "failed" => ~Follows(m) /\ ~Judges(m)
                      /\ result'[m] = "paused" => state'.pause_context = m
                      /\ Judges(m) /\ result'[m] = "completed" => state'.quality_passed # "unset"
    BY DEF Endings
  <2>1. CASE m = n
    BY <2>1, <1>1, <1>2, <1>5
  <2>2. CASE m # n
    <3>1. result'[m] = result[m]
      BY <2>2, <1>1, <1>2
    <3>2. result[m] # "paused"
      <4> SUFFICES ASSUME result[m] = "paused" PROVE FALSE
        OBVIOUS
      <4>1. state.pause_context = m /\ m \in Flight(sched)
        BY DEF GInv, OnGuard, Endings, RInv, Results
      <4>2. Kind[m] = "human"
        BY <4>1, <1>2, <1>6 DEF Fit, Ran
      <4>3. m \in Live(sched)
        BY <4>1, <4>2, <1>1, RunningOnes
      <4> QED BY <4>3, <2>2, <1>6
    <3> QED BY <3>1, <3>2, <1>5 DEF GInv, OnGuard, Endings
  <2> QED BY <2>1, <2>2
<1>12. GateHolds'
  BY <1>1, <1>5 DEF GInv, OnGuard, GateHolds
<1> QED
  BY <1>10, <1>11, <1>12 DEF OnGuard

LEMMA FinishOnGuard ==
  ASSUME Gated, RInv, GInv, NEW n \in Node, FinishNode(n)
  PROVE  OnGuard'
<1>1. state \in GraphState
  BY GateTypes
<1>2. ~GateFails(n) /\ ~AskAdaptive(n) /\ (n \in MayFail => ~Follows(n))
  BY DEF GateFails, AskAdaptive, Gated
<1>3. ASSUME CountLoop(n) PROVE OnGuard'
  <2> DEFINE g == [state EXCEPT !.iteration_count = @ + 1]
  <2>1. g \in GraphState /\ SameGates(state, g)
    BY <1>1 DEF GraphState, SameGates, SameNodes
  <2>2. Finish(n, "completed", g) /\ ~Judges(n)
    BY <1>3 DEF CountLoop, Judges
  <2> HIDE DEF g
  <2> QED BY <2>1, <2>2, WorkOnGuard
<1>4. ASSUME Work(n) PROVE OnGuard'
  BY <1>1, <1>2, <1>4, WorkOnGuard, SameState DEF Work
<1> QED
  BY <1>2, <1>3, <1>4, JudgeOnGuard, AskOnGuard DEF FinishNode

LEMMA SettlePausedOnGuard ==
  ASSUME Gated, RInv, GInv, NEW n \in Node, SettlePaused(n)
  PROVE  OnGuard'
<1>1. /\ pc = "settling" /\ pc' = "final" /\ result[n] # "none" /\ result' = NoResult
      /\ sched' = Settled(n) /\ UNCHANGED <<state, runs, env>>
  BY DEF SettlePaused, Settled
<1>2. Fit(sched', state', runs', env'.review_mode)
  BY <1>1, SettledTurns, TurnFits, StaleSettles
<1>3. Endings'
  BY <1>1 DEF Endings, NoResult
<1>4. GateHolds'
  <2>1. sched'.running \subseteq sched.running
    BY <1>1, SettledMoves
  <2> QED BY <2>1, <1>1 DEF GInv, OnGuard, GateHolds
<1> QED
  BY <1>2, <1>3, <1>4 DEF OnGuard

\* Routing leaves the verdict and the point alone, and counts no retry back.
LEMMA RoutedOpen ==
  ASSUME Gated, NEW c \in Pair, NEW n \in Node, NEW holding \in SUBSET OtherEdges(n)
  PROVE  LET d == Routed(c, n, holding)
         IN  /\ d.state.quality_passed = c.state.quality_passed /\ SameNodes(c.state, d.state)
             /\ d.sched.running = c.sched.running
             /\ \A gate \in Node : Open(c.state, gate) => Open(d.state, gate)
<1> DEFINE d == Routed(c, n, holding)
<1>1. Forward(c, d, n) \/ \E agent \in Node : IsRetry(n, agent) /\ Backward(c, d, n, agent)
  BY RoutedMoves
<1> HIDE DEF d
<1>2. c.state.retries \in [Node -> Nat] /\ MaxRetries \in Nat
  BY RuntimeAssumption DEF Pair, GraphState, RuntimeAssumption
<1>3. CASE Forward(c, d, n)
  BY <1>3 DEF Forward, SameGates, Open, Used, d
<1>4. CASE \E agent \in Node : IsRetry(n, agent) /\ Backward(c, d, n, agent)
  <2>1. /\ d.state.quality_passed = c.state.quality_passed /\ SameNodes(c.state, d.state)
        /\ d.state.retries = [c.state.retries EXCEPT ![n] = @ + 1]
        /\ d.sched.running = c.sched.running
    BY <1>4 DEF Backward
  <2>2. \A gate \in Node : d.state.retries[gate] >= c.state.retries[gate]
    BY <2>1, <1>2
  <2>3. \A gate \in Node : Open(c.state, gate) => Open(d.state, gate)
    <3> SUFFICES ASSUME NEW gate \in Node, Open(c.state, gate) PROVE Open(d.state, gate)
      OBVIOUS
    <3>1. d.state.retries[gate] \in Nat /\ c.state.retries[gate] \in Nat
      BY <2>1, <1>2
    <3> QED BY <3>1, <2>1, <2>2, <1>2 DEF Open, Used
  <2> QED BY <2>1, <2>3 DEF d
<1> QED
  BY <1>1, <1>3, <1>4

LEMMA SettleOnGuard ==
  ASSUME Gated, RInv, GInv, NEW n \in Node, Settle(n)
  PROVE  OnGuard'
<1> DEFINE c == [sched |-> Settled(n), state |-> state]
<1>1. PICK holding \in SUBSET OtherEdges(n) :
        /\ sched' = Routed(c, n, holding).sched /\ state' = Routed(c, n, holding).state
  BY DEF Settle, Settled
<1>2. /\ pc = "settling" /\ pc' \in {"settling", "tail"} /\ result[n] # "none"
      /\ result' = [result EXCEPT ![n] = "none"] /\ UNCHANGED <<runs, env>>
  BY DEF Settle
<1>3. c \in Pair /\ c.sched = Settled(n) /\ c.state = state /\ result \in [Node -> Outcome]
  BY <1>2, SettledMoves, GateTypes DEF Pair
<1>4. Settled(n).running \subseteq sched.running
  BY <1>2, SettledMoves
<1> HIDE DEF c
<1> DEFINE d == Routed(c, n, holding)
<1>5. /\ d.state.quality_passed = state.quality_passed /\ SameNodes(state, d.state)
      /\ d.sched.running \subseteq sched.running
      /\ \A gate \in Node : Open(state, gate) => Open(d.state, gate)
  BY <1>3, <1>4, RoutedOpen
<1>6. Fit(d.sched, d.state, runs, env.review_mode)
  <2>1. CASE n \notin sched.completed
    <3>1. Turn(c.sched, c.state, n, runs, env.review_mode)
      BY <2>1, <1>2, <1>3, SettledTurns
    <3> QED BY <3>1, <1>3, TurnRoutes
  <2>2. CASE n \in sched.completed
    <3>1. /\ Fit(c.sched, c.state, runs, env.review_mode) /\ ~Regulates(n)
          /\ \A m \in Node : Leads(n, m) => m \in c.sched.completed
      BY <2>2, <1>2, <1>3, StaleSettles
    <3>2. Forward(c, d, n) \/ \E agent \in Node : IsRetry(n, agent) /\ Backward(c, d, n, agent)
      BY <1>3, RoutedMoves
    <3> HIDE DEF d
    <3>3. /\ SameGates(c.state, d.state) /\ d.sched.running = c.sched.running
          /\ d.sched.completed = c.sched.completed
          /\ d.sched.ready \cap Node = c.sched.ready \cap Node
      BY <3>1, <3>2 DEF Forward, Regulates
    <3> QED BY <3>1, <3>3, <1>3, GateTypes, SameFits
  <2> QED BY <2>1, <2>2
<1>7. sched' = d.sched /\ state' = d.state
  BY <1>1
<1> HIDE DEF d
<1>8. Endings'
  <2> SUFFICES ASSUME NEW m \in Node
               PROVE  /\ result'[m] = "failed" => ~Follows(m) /\ ~Judges(m)
                      /\ result'[m] = "paused" => state'.pause_context = m
                      /\ Judges(m) /\ result'[m] = "completed" => state'.quality_passed # "unset"
    BY DEF Endings
  <2>1. result'[m] \in {result[m], "none"}
    BY <1>2, <1>3
  <2> QED BY <2>1, <1>5, <1>7 DEF GInv, OnGuard, Endings, SameNodes
<1>9. GateHolds'
  BY <1>2, <1>5, <1>7 DEF GInv, OnGuard, GateHolds, Open, Used
<1> QED
  BY <1>2, <1>6, <1>7, <1>8, <1>9 DEF OnGuard

\* A resume routes the point again, as if it had just ended.
LEMMA ResumeOnGuard ==
  ASSUME Gated, RInv, GInv, Resume
  PROVE  OnGuard'
<1> DEFINE p == PausedNode
           c == [sched |-> sched, state |-> Reopened]
<1>1. /\ pc \in {"stopped", "recovered"} /\ status = "PAUSED" /\ pc' = "loop"
      /\ UNCHANGED <<result, runs, env>>
  BY DEF Resume
<1>2. /\ sched \in SchedulerState /\ state \in GraphState /\ NULL \notin Node
      /\ p = Point(state) /\ p \in Node \cup {NULL} /\ sched.running \cap Node = {}
  BY <1>1, GateTypes DEF PausedNode, Point, RInv, Quiet, Flight
<1>3. Reopened \in GraphState /\ SameGates(state, Reopened)
  BY <1>2, MarkedType, MarkedGates DEF Reopened, Reason, Cause
<1>4. Fit(sched, Reopened, runs, env.review_mode) /\ Point(Reopened) = p
  BY <1>1, <1>2, <1>3, SameFits, SamePoint DEF GInv, OnGuard
<1>5. c \in Pair /\ c.sched = sched /\ c.state = Reopened
  BY <1>2, <1>3 DEF Pair
<1> HIDE DEF c, p
<1>6. p # NULL => Turn(sched, Reopened, p, runs, env.review_mode)
  <2> SUFFICES ASSUME p # NULL PROVE Turn(sched, Reopened, p, runs, env.review_mode)
    OBVIOUS
  <2>1. p \in Node /\ p \notin sched.running /\ Near(sched, Reopened, p, env.review_mode)
    BY <1>2, <1>4 DEF Fit
  <2>2. Live(sched) \cap sched.running = {} /\ Live(sched) \subseteq Node
    BY <1>2 DEF Live
  <2>3. runs[p] >= 1
    BY <2>1, <1>4 DEF Fit, Ran, Point
  <2>4. \A agent \in Node : IsRetry(p, agent) => runs[agent] >= 1 /\ agent \notin sched.running
    <3> SUFFICES ASSUME NEW agent \in Node, IsRetry(p, agent)
                 PROVE  runs[agent] >= 1 /\ agent \notin sched.running
      OBVIOUS
    <3>1. Kind[p] # "human"
      BY <2>1, GatesJudge DEF Regulates
    <3>2. p = Reopened.current_node_id
      BY <3>1, <1>4 DEF Fit, Ran, Point
    <3> QED BY <2>1, <3>2, <1>2, <1>4 DEF Fit, Ran
  <2>5. \A t \in Live(sched) : Due(sched, Reopened, p, t, env.review_mode)
    BY <2>1, <2>2 DEF Near
  <2>6. Regulates(p) => Reopened.quality_passed # "unset"
    BY <2>1 DEF Near
  <2> QED BY <2>1, <2>2, <2>3, <2>4, <2>5, <2>6, <1>4 DEF Fit, Turn
<1>7. /\ Fit(sched', state', runs, env.review_mode) /\ sched'.running \cap Node = {}
      /\ SameNodes(state, state') /\ state'.quality_passed = state.quality_passed
  <2>1. CASE p = NULL
    BY <2>1, <1>2, <1>3, <1>4 DEF Resume, p, SameGates
  <2>2. CASE p # NULL
    <3>1. PICK holding \in SUBSET OtherEdges(p) :
            /\ sched' = Routed(c, p, holding).sched /\ state' = Routed(c, p, holding).state
      BY <2>2 DEF Resume, p, c
    <3>2. p \in Node
      BY <2>2, <1>2
    <3>3. Fit(sched', state', runs, env.review_mode)
      BY <2>2, <3>1, <3>2, <1>5, <1>6, TurnRoutes
    <3>4. /\ sched'.running = sched.running /\ SameNodes(Reopened, state')
          /\ state'.quality_passed = Reopened.quality_passed
      BY <3>1, <3>2, <1>5, RoutedOpen
    <3> QED BY <3>3, <3>4, <1>2, <1>3 DEF SameGates, SameNodes
  <2> QED BY <2>1, <2>2
<1>8. Endings'
  BY <1>1, <1>7 DEF GInv, OnGuard, Endings, SameNodes
<1>9. GateHolds'
  BY <1>7 DEF GateHolds
<1> QED
  BY <1>1, <1>7, <1>8, <1>9 DEF OnGuard

\* Back to the last checkpoint, and back to a node for a replay.
LEMMA RestartOnGuard ==
  ASSUME RInv, GInv, Recover \/ \E n \in Node : ReplayFrom(n)
  PROVE  OnGuard'
<1>1. CASE Recover
  <2>1. /\ saved # NULL /\ sched' = saved.sched /\ state' = saved.state /\ result' = NoResult
        /\ UNCHANGED <<runs, env>> /\ saved.sched.running = {}
    BY <1>1 DEF Recover, RInv, SavedQuiet
  <2>2. Fit(sched', state', runs', env'.review_mode)
    BY <2>1 DEF GInv
  <2>3. Endings' /\ GateHolds'
    BY <2>1 DEF Endings, NoResult, GateHolds
  <2> QED BY <2>2, <2>3 DEF OnGuard
<1>2. CASE \E n \in Node : ReplayFrom(n)
  <2>1. pc' = "reset" /\ result' = NoResult /\ sched'.running = {}
    BY <1>2, ReplayFacts DEF ReplayFrom, RInv, Results
  <2>2. Endings' /\ GateHolds'
    BY <2>1 DEF Endings, NoResult, GateHolds
  <2> QED BY <2>1, <2>2 DEF OnGuard
<1> QED
  BY <1>1, <1>2

LEMMA RunsGrow ==
  ASSUME RInv, [Next]_vars
  PROVE  runs' \in [Node -> Nat] /\ \A n \in Node : runs'[n] >= runs[n]
<1>1. runs \in [Node -> Nat] /\ runs' \in [Node -> Nat]
  BY NextRInv DEF RInv, TypeOK
<1>2. CASE Schedule
  <2>1. runs' = runs \/ \E batch : runs' = [n \in Node |-> IF n \in batch THEN runs[n] + 1 ELSE runs[n]]
    BY <1>2 DEF Schedule
  <2> QED BY <1>1, <2>1
<1>3. CASE ~Schedule
  <2>1. ASSUME NEW n \in Node, SettlePaused(n) \/ Settle(n) \/ RouteRaises(n)
        PROVE  runs' = runs
    BY <2>1 DEF SettlePaused, Settle, RouteRaises
  <2>2. ASSUME NEW n \in Node, FinishNode(n) PROVE runs' = runs
    BY <2>2 DEF FinishNode, JudgeOutput, GateFails, AskHuman, AskAdaptive, CountLoop, Work, Finish
  <2>3. runs' = runs
    BY <1>3, <2>1, <2>2 DEF Next, MainLoop, Environment, Execute, StopTerminated, StopAtLimit,
       HonourCancel, HonourPause, NothingLeft, NothingEligible, DispatchMissing, Tail, Final,
       Resume, ResumeRaises, RequestPause, RequestCancel, Cancel, Asked, Crash, Recover,
       ReplayFrom, vars
  <2> QED BY <1>1, <2>3
<1> QED
  BY <1>2, <1>3

\* A checkpoint is written when nothing runs, and what has run has run.
LEMMA SavedFits ==
  ASSUME RInv, GInv, [Next]_vars, saved' # NULL
  PROVE  Fit(saved'.sched, saved'.state, runs', env'.review_mode)
<1>1. runs \in [Node -> Nat] /\ runs' \in [Node -> Nat] /\ \A n \in Node : runs'[n] >= runs[n]
  BY RunsGrow, GateTypes
<1>2. env'.review_mode = env.review_mode
  BY ModeFixed
<1>3. CASE saved' = saved
  BY <1>1, <1>2, <1>3, MoreFits DEF GInv
<1>4. CASE saved' # saved
  <2>1. SaveCheckpoint(state) /\ pc \in {"tail", "final"}
    BY <1>4, SaversAre DEF Tail, Final
  <2>2. saved'.sched = Restored(sched) /\ saved'.state = state
    BY <1>4, <2>1 DEF SaveCheckpoint
  <2>3. /\ Restored(sched).ready = sched.ready /\ Restored(sched).completed = sched.completed
        /\ Restored(sched).running = {} /\ sched.running \cap Node = {}
    BY <2>1 DEF RInv, TypeOK, Restored, SchedulerState, Quiet, Flight
  <2>4. Fit(sched, state, runs, env.review_mode)
    BY <2>1 DEF GInv, OnGuard
  <2>5. Fit(Restored(sched), state, runs, env.review_mode)
    BY <2>3, <2>4, GateTypes, SameState, SameFits
  <2> QED BY <1>1, <1>2, <2>2, <2>5, MoreFits
<1> QED
  BY <1>3, <1>4

LEMMA NextGInv ==
  ASSUME Gated, RInv, GInv, [Next]_vars
  PROVE  GInv'
<1>1. ~ResumeRaises /\ \A n \in Node : ~RouteRaises(n)
  BY GatedChoices DEF ResumeRaises, RouteRaises
<1>2. OnGuard'
  <2>1. CASE MainLoop
    <3>1. CASE \E n \in Node : FinishNode(n) \/ SettlePaused(n) \/ Settle(n) \/ RouteRaises(n)
      BY <3>1, <1>1, FinishOnGuard, SettlePausedOnGuard, SettleOnGuard
    <3> QED BY <2>1, <3>1, ExecuteOnGuard, IdleOnGuard, ScheduleOnGuard DEF MainLoop
  <2>2. CASE Environment
    BY <2>2, <1>1, ResumeOnGuard, IdleOnGuard, RestartOnGuard DEF Environment
  <2> QED BY <2>1, <2>2, IdleOnGuard DEF Next
<1> QED
  BY <1>2, SavedFits DEF GInv

\* What a gate protects is handed out for the first time after a pass, or when
\* the retries of the gate are used up: the verdict, which all nodes share, is
\* the gate's own.  On any pipeline with gates, through retries, skips, pauses,
\* cancels, crashes, failed checkpoints, recoveries, resumes and replays.
THEOREM GatesHold ==
  ASSUME Gated
  PROVE  Spec => []GateHolds
<1>1. GInv => GateHolds
  BY DEF GInv, OnGuard
<1>2. Init => GInv
  BY InitGInv
<1>3. RInv /\ GInv /\ [Next]_vars => GInv'
  BY NextGInv
<1> QED
  BY <1>1, <1>2, <1>3, RInvariant, PTL DEF Spec

------------------------------------------------------------------------------
(* The limit of the main loop on pipelines with gates *)

\* The rounds a gate and its agent have been granted besides the first.
Rounds(g, n) ==
  IF Regulates(n) THEN Granted(g, n)
  ELSE IF \E gate \in Node : IsRetry(gate, n)
       THEN Granted(g, CHOOSE gate \in Node : IsRetry(gate, n))
       ELSE 0

\* The nodes that have had their turn of the current round.  A human who was
\* asked is not counted: the run stops, and its resume starts a new count.
Out(s) == ((s.running \cup s.completed \cup {n \in s.failed : ~Follows(n)}) \ s.ready) \cap Node

\* Every turn that has been had or was waived is a pair of node and round.
Had(s, g, n) == Rounds(g, n) + (IF n \in Out(s) THEN 1 ELSE 0)
Tally(s, g)  == {x \in Node \X (1 .. MaxRetries + 1) : x[2] <= Had(s, g, x[1])}

Repeated(n) == Regulates(n) \/ \E gate \in Node : IsRetry(gate, n)
Budget      == {x \in Node \X (1 .. MaxRetries + 1) : x[2] = 1 \/ Repeated(x[1])}

\* The limit fits the turns the gates allow.  Loop nodes, which have a limit of
\* their own, are left out, and so are gates that a skip lets reach the end.
Sized ==
  /\ Gated
  /\ \A n \in Node : Kind[n] # "loop" /\ (Regulates(n) => END_NODE_ID \notin Successors(n))
  /\ Cardinality(Budget) <= 2 * MaxIterations

\* The end marker is not ready, no loop is counted, and no limit was met.
Regular(s, g) ==
  /\ END_NODE_ID \notin s.ready
  /\ g.iteration_count = 0
  /\ g.cause \notin {"safety_limit", "max_iterations"}

\* While the loop may go on, each of its rounds has had a turn of its own.
Limited ==
  /\ counts.iteration <= 2 * MaxIterations
  /\ Going /\ state.termination_reason = NULL => counts.iteration <= Cardinality(Tally(sched, state))
  /\ Regular(sched, state)
  /\ \A n \in Node : result[n] = "paused" => state.termination_reason # NULL

CInv == Limited /\ (saved # NULL => Regular(saved.sched, saved.state))

\* Both have the rounds of the gate, and no other node is repeated.
LEMMA RoundsOf ==
  ASSUME Gated, NEW gate \in Node, NEW agent \in Node, IsRetry(gate, agent), NEW g
  PROVE  /\ Rounds(g, gate) = Granted(g, gate) /\ Rounds(g, agent) = Granted(g, gate)
         /\ \A n \in Node : IsRetry(n, agent) => n = gate
<1>1. Regulates(gate) /\ ~Regulates(agent) /\ \A n \in Node : IsRetry(n, agent) => n = gate
  BY GatesAndAgents DEF Regulates
<1>2. (CHOOSE n \in Node : IsRetry(n, agent)) = gate
  BY <1>1
<1> QED
  BY <1>1, <1>2 DEF Rounds

LEMMA RoundsBound ==
  ASSUME Gated, NEW g \in GraphState, NEW n \in Node
  PROVE  /\ Rounds(g, n) \in 0 .. MaxRetries
         /\ Rounds(g, n) > 0 => Repeated(n)
<1>1. MaxRetries \in Nat /\ g.retries \in [Node -> Nat]
  BY RuntimeAssumption DEF RuntimeAssumption, GraphState
<1>2. \A gate \in Node : Granted(g, gate) \in 0 .. MaxRetries
  BY <1>1 DEF Granted
<1>3. CASE Repeated(n)
  <2>1. PICK gate \in Node, agent \in Node : IsRetry(gate, agent) /\ n \in {gate, agent}
    BY <1>3 DEF Repeated, Regulates
  <2>2. Rounds(g, n) = Granted(g, gate)
    BY <2>1, RoundsOf
  <2> QED BY <1>2, <1>3, <2>2
<1>4. CASE ~Repeated(n)
  <2>1. Rounds(g, n) = 0
    BY <1>4 DEF Rounds, Repeated
  <2> QED BY <1>1, <2>1
<1> QED
  BY <1>3, <1>4

LEMMA SameRounds ==
  ASSUME NEW g, NEW h, h.retries = g.retries, NEW n
  PROVE  Rounds(h, n) = Rounds(g, n)
BY DEF Rounds, Granted

LEMMA HadBound ==
  ASSUME Gated, NEW s, NEW g \in GraphState, NEW n \in Node
  PROVE  /\ Had(s, g, n) \in 0 .. MaxRetries + 1
         /\ Had(s, g, n) > 1 => Repeated(n)
<1>1. Rounds(g, n) \in 0 .. MaxRetries /\ (Rounds(g, n) > 0 => Repeated(n)) /\ MaxRetries \in Nat
  BY RoundsBound, RuntimeAssumption DEF RuntimeAssumption
<1> HIDE DEF Rounds
<1> QED
  BY <1>1 DEF Had

LEMMA TallyFits ==
  ASSUME Gated, NEW s, NEW g \in GraphState
  PROVE  /\ Tally(s, g) \subseteq Budget /\ IsFiniteSet(Budget) /\ IsFiniteSet(Tally(s, g))
         /\ Cardinality(Tally(s, g)) \in Nat /\ Cardinality(Budget) \in Nat
         /\ Cardinality(Tally(s, g)) <= Cardinality(Budget)
<1>1. MaxRetries + 1 \in Int /\ 1 \in Int
  BY RuntimeAssumption DEF RuntimeAssumption
<1>2. IsFiniteSet(Node \X (1 .. MaxRetries + 1))
  BY <1>1, NodesFinite, FS_Interval, FS_Product
<1>3. Budget \subseteq Node \X (1 .. MaxRetries + 1)
  BY DEF Budget
<1>4. IsFiniteSet(Budget)
  BY <1>2, <1>3, FS_Subset
<1>5. Tally(s, g) \subseteq Budget
  <2> SUFFICES ASSUME NEW x \in Tally(s, g) PROVE x \in Budget
    OBVIOUS
  <2>1. x \in Node \X (1 .. MaxRetries + 1) /\ x[2] <= Had(s, g, x[1])
    BY DEF Tally
  <2>2. x[1] \in Node /\ x[2] \in 1 .. MaxRetries + 1
    BY <2>1
  <2>3. Had(s, g, x[1]) \in 0 .. MaxRetries + 1 /\ (Had(s, g, x[1]) > 1 => Repeated(x[1]))
    BY <2>2, HadBound
  <2>4. x[2] = 1 \/ Repeated(x[1])
    BY <1>1, <2>1, <2>2, <2>3
  <2> QED BY <2>1, <2>4 DEF Budget
<1> QED
  BY <1>4, <1>5, FS_Subset, FS_CardinalityType

\* The tally grows with the turns of each node, and by one with one more turn.
LEMMA TallyGrows ==
  ASSUME Gated, NEW s, NEW g \in GraphState, NEW t, NEW h \in GraphState,
         \A n \in Node : Had(s, g, n) <= Had(t, h, n)
  PROVE  /\ Tally(s, g) \subseteq Tally(t, h)
         /\ Cardinality(Tally(s, g)) <= Cardinality(Tally(t, h))
<1>1. MaxRetries \in Nat
  BY RuntimeAssumption DEF RuntimeAssumption
<1>2. \A n \in Node : Had(s, g, n) \in 0 .. MaxRetries + 1 /\ Had(t, h, n) \in 0 .. MaxRetries + 1
  BY HadBound
<1>3. Tally(s, g) \subseteq Tally(t, h)
  <2> SUFFICES ASSUME NEW x \in Tally(s, g) PROVE x \in Tally(t, h)
    OBVIOUS
  <2>1. /\ x \in Node \X (1 .. MaxRetries + 1) /\ x[2] <= Had(s, g, x[1])
        /\ x[1] \in Node /\ x[2] \in 1 .. MaxRetries + 1
    BY DEF Tally
  <2>2. x[2] <= Had(t, h, x[1])
    BY <1>1, <1>2, <2>1
  <2> QED BY <2>1, <2>2 DEF Tally
<1> QED
  BY <1>3, TallyFits, FS_Subset

LEMMA TallyCounts ==
  ASSUME Gated, NEW s, NEW g \in GraphState, NEW t, NEW h \in GraphState,
         \A n \in Node : Had(s, g, n) <= Had(t, h, n),
         NEW n \in Node, Had(s, g, n) < Had(t, h, n)
  PROVE  Cardinality(Tally(s, g)) + 1 <= Cardinality(Tally(t, h))
<1> DEFINE x == <<n, Had(t, h, n)>>
<1>1. MaxRetries \in Nat /\ Had(s, g, n) \in 0 .. MaxRetries + 1 /\ Had(t, h, n) \in 0 .. MaxRetries + 1
  BY HadBound, RuntimeAssumption DEF RuntimeAssumption
<1>2. Had(t, h, n) \in 1 .. MaxRetries + 1 /\ ~(Had(t, h, n) <= Had(s, g, n))
  BY <1>1
<1>3. x \in Tally(t, h)
  BY <1>2 DEF Tally
<1>4. x \notin Tally(s, g)
  BY <1>2 DEF Tally
<1> HIDE DEF x
<1>5. /\ IsFiniteSet(Tally(s, g)) /\ Cardinality(Tally(s, g)) \in Nat
      /\ IsFiniteSet(Tally(t, h)) /\ Cardinality(Tally(t, h)) \in Nat
  BY TallyFits
<1>6. Cardinality(Tally(s, g) \cup {x}) = Cardinality(Tally(s, g)) + 1
  BY <1>4, <1>5, FS_AddElement
<1>7. Tally(s, g) \cup {x} \subseteq Tally(t, h)
  BY <1>3, TallyGrows
<1> QED
  BY <1>5, <1>6, <1>7, FS_Subset

\* Nobody loses a turn while no round is lost.
LEMMA HadMore ==
  ASSUME Gated, NEW s, NEW g \in GraphState, NEW t, NEW h \in GraphState, NEW n \in Node,
         Rounds(g, n) <= Rounds(h, n), n \in Out(s) => n \in Out(t)
  PROVE  Had(s, g, n) <= Had(t, h, n)
<1>1. Rounds(g, n) \in 0 .. MaxRetries /\ Rounds(h, n) \in 0 .. MaxRetries /\ MaxRetries \in Nat
  BY RoundsBound, RuntimeAssumption DEF RuntimeAssumption
<1> QED
  BY <1>1 DEF Had

\* A round more makes up for a turn that is to be had again.
LEMMA HadAgain ==
  ASSUME Gated, NEW s, NEW g \in GraphState, NEW t, NEW h \in GraphState, NEW n \in Node,
         Rounds(g, n) < Rounds(h, n)
  PROVE  Had(s, g, n) <= Had(t, h, n)
<1>1. Rounds(g, n) \in 0 .. MaxRetries /\ Rounds(h, n) \in 0 .. MaxRetries /\ MaxRetries \in Nat
  BY RoundsBound, RuntimeAssumption DEF RuntimeAssumption
<1> QED
  BY <1>1 DEF Had

\* Routing fails nobody, counts no loop, and reaches no limit.
Unmarked(c, d) ==
  /\ d.sched.failed = c.sched.failed
  /\ d.state.iteration_count = c.state.iteration_count
  /\ d.state.termination_reason \in {c.state.termination_reason, "completed", "error"}
  /\ d.state.cause \in {c.state.cause, "reached_end", "retry_exhausted"}

LEMMA RequeuedMarks ==
  ASSUME NEW c \in Pair, NEW gate \in Node, NEW agent \in Node
  PROVE  LET d == Requeued(c, gate, agent)
         IN  /\ Unmarked(c, d)
             /\ END_NODE_ID \in d.sched.ready \ c.sched.ready => END_NODE_ID \in Successors(gate)
<1> DEFINE attempt == c.state.retries[gate] + 1
           counted == [c EXCEPT !.state.retries[gate] = attempt]
           d       == Requeued(c, gate, agent)
<1>1. /\ c.sched \in SchedulerState /\ c.state \in GraphState /\ c.state.retries \in [Node -> Nat]
      /\ c = [sched |-> c.sched, state |-> c.state] /\ END_NODE_ID # agent
  BY EdgeEnds DEF Pair, GraphState
<1>2. counted = [sched |-> c.sched,
                 state |-> [c.state EXCEPT !.retries = [c.state.retries EXCEPT ![gate] = attempt]]]
  BY <1>1 DEF GraphState
<1>3. [c.state.retries EXCEPT ![gate] = attempt] \in [Node -> Nat]
  BY <1>1
<1>4. /\ counted \in Pair /\ counted.sched = c.sched
      /\ counted.state.iteration_count = c.state.iteration_count
      /\ counted.state.termination_reason = c.state.termination_reason
      /\ counted.state.cause = c.state.cause
  BY <1>1, <1>2, <1>3 DEF Pair, GraphState
<1> HIDE DEF counted
<1>5. CASE attempt <= MaxRetries
  <2> DEFINE r == RetryAgain(counted, gate, agent)
  <2>1. d = r
    BY <1>5 DEF Requeued, counted
  <2>2. Repeats(counted, r, gate, agent)
    BY <1>4, RetryAgainKeeps
  <2>3. r.state.iteration_count = counted.state.iteration_count
    BY <1>4 DEF RetryAgain, Pair, GraphState
  <2> HIDE DEF r, d
  <2> QED BY <2>1, <2>2, <2>3, <1>1, <1>4 DEF Unmarked, Repeats, SameMarks, d
<1>6. CASE ~(attempt <= MaxRetries) /\ env.review_mode
  <2> DEFINE g == Marked(counted.state, "error", "retry_exhausted")
             r == [counted EXCEPT !.state = g]
  <2>1. d = r
    BY <1>6 DEF Requeued, counted
  <2>2. g.iteration_count = counted.state.iteration_count /\ g.termination_reason = "error"
        /\ g.cause = "retry_exhausted"
    BY <1>4 DEF Marked, Pair, GraphState
  <2> HIDE DEF g
  <2>3. r.sched = c.sched /\ r.state = g
    BY <1>4 DEF Pair
  <2> HIDE DEF r, d
  <2> QED BY <2>1, <2>2, <2>3, <1>4 DEF Unmarked, d
<1>7. CASE ~(attempt <= MaxRetries) /\ ~env.review_mode
  <2> DEFINE r == SkipPhase(counted, gate, agent)
  <2>1. d = r
    BY <1>7 DEF Requeued, counted
  <2>2. Skips(counted, r, gate, agent)
    BY <1>4, SkipPhaseType
  <2>3. r.state.iteration_count = counted.state.iteration_count
    BY <1>4 DEF SkipPhase, Pair, GraphState
  <2> HIDE DEF r, d
  <2> QED BY <2>1, <2>2, <2>3, <1>1, <1>4 DEF Unmarked, Skips, SameMarks, d
<1> QED
  BY <1>5, <1>6, <1>7

LEMMA RoutedMarks ==
  ASSUME NEW c \in Pair, NEW n \in Node, NEW holding
  PROVE  LET d == Routed(c, n, holding)
         IN  /\ d \in Pair /\ Unmarked(c, d)
             /\ END_NODE_ID \in d.sched.ready \ c.sched.ready =>
                  END_NODE_ID \in Successors(n) /\ Regulates(n)
<1> DEFINE targets   == Resolved(n, c.state, holding)
           back      == {t \in targets : HasEdge(n, t, "loop_back")}
           defensive == targets = {} /\ Kind[n] = "quality_gate" /\ c.state.quality_passed # "fail"
           ahead     == IF defensive
                        THEN {t \in Successors(n) : ~HasEdge(n, t, "loop_back")}
                        ELSE targets \ back
           ready     == c.sched.ready \cup (ahead \ ({END_NODE_ID} \cup c.sched.completed \cup c.sched.running))
           s         == [c.sched EXCEPT !.ready = ready]
           forward   == [c EXCEPT !.sched = s]
           g         == Marked(c.state, "completed", "reached_end")
           ended     == IF END_NODE_ID \in ahead
                        THEN [forward EXCEPT !.state = Marked(@, "completed", "reached_end")]
                        ELSE forward
           agent     == CHOOSE t \in back : TRUE
           d         == Routed(c, n, holding)
<1>1. d = IF back = {} THEN ended ELSE Requeued(ended, n, agent)
  BY Zenon DEF Routed, ScheduledNext
<1>2. targets \subseteq Successors(n) \ {END_NODE_ID}
  BY DEF Resolved, Successors
<1>3. back # {} => agent \in Node /\ IsRetry(n, agent)
  <2>1. back # {} => agent \in back
    <3> HIDE DEF back
    <3> QED BY Zenon
  <2> QED BY <2>1, <1>2, EdgeEnds DEF IsRetry, Id
<1>4. /\ c.sched \in SchedulerState /\ c.state \in GraphState
      /\ c = [sched |-> c.sched, state |-> c.state]
  BY DEF Pair
<1>5. ready \subseteq Id /\ (END_NODE_ID \in ready => END_NODE_ID \in c.sched.ready)
  BY <1>2, <1>4, EdgeEnds DEF SchedulerState
<1> HIDE DEF targets, back, ahead, agent, ready
<1>6. s \in SchedulerState /\ s.ready = ready /\ s.failed = c.sched.failed
  BY <1>4, <1>5 DEF SchedulerState
<1> HIDE DEF s
<1>7. forward = [sched |-> s, state |-> c.state] /\ forward.state = c.state
  BY <1>4, PairUpdate
<1>8. /\ g \in GraphState /\ g.termination_reason = "completed" /\ g.cause = "reached_end"
      /\ g.iteration_count = c.state.iteration_count
  <2>1. g \in GraphState
    BY <1>4, MarkedType DEF Reason, Cause
  <2> QED BY <2>1, <1>4 DEF Marked, GraphState
<1> HIDE DEF forward
<1>9. [forward EXCEPT !.state = g] = [sched |-> s, state |-> g]
  <2> HIDE DEF g
  <2> QED BY <1>7, PairUpdate
<1>10. ended = IF END_NODE_ID \in ahead THEN [sched |-> s, state |-> g] ELSE [sched |-> s, state |-> c.state]
  BY <1>7, <1>9
<1> HIDE DEF ended, g, d
<1>11. ended \in Pair /\ ended.sched = s /\ Unmarked(c, ended)
  BY <1>4, <1>6, <1>8, <1>10 DEF Pair, Unmarked
<1>12. CASE back = {}
  BY <1>1, <1>5, <1>6, <1>11, <1>12 DEF d
<1>13. CASE back # {}
  <2> DEFINE r == Requeued(ended, n, agent)
  <2>1. /\ Unmarked(ended, r) /\ r \in Pair
        /\ END_NODE_ID \in r.sched.ready \ ended.sched.ready => END_NODE_ID \in Successors(n)
    BY <1>3, <1>11, <1>13, RequeuedMarks, RequeuedKeeps DEF Keeps
  <2>2. d = r
    BY <1>1, <1>13
  <2>3. Regulates(n)
    BY <1>3, <1>13 DEF Regulates
  <2> HIDE DEF r
  <2> QED BY <2>1, <2>2, <2>3, <1>5, <1>6, <1>11 DEF Unmarked, d
<1> QED
  BY <1>12, <1>13

\* Routing takes nobody's turn, unless it grants another round for it.
LEMMA RoutedTally ==
  ASSUME Gated, NEW c \in Pair, NEW n \in Node, NEW holding \in SUBSET OtherEdges(n),
         ~Regulates(n) \/ Live(c.sched) \cap c.sched.running = {}
  PROVE  LET d == Routed(c, n, holding)
         IN  Cardinality(Tally(c.sched, c.state)) <= Cardinality(Tally(d.sched, d.state))
<1> DEFINE d == Routed(c, n, holding)
<1>1. /\ c.sched \in SchedulerState /\ c.state \in GraphState
      /\ d \in Pair /\ d.state \in GraphState /\ d.sched.failed = c.sched.failed
  BY RoutedMarks DEF Pair, Unmarked
<1>2. /\ c.state.retries \in [Node -> Nat] /\ MaxRetries \in Nat
      /\ \A x \in Node : Rounds(c.state, x) \in 0 .. MaxRetries /\ Rounds(d.state, x) \in 0 .. MaxRetries
  BY <1>1, RoundsBound, RuntimeAssumption DEF RuntimeAssumption, GraphState
<1>3. \/ Forward(c, d, n)
      \/ \E agent \in Node : IsRetry(n, agent) /\ Backward(c, d, n, agent)
  BY RoutedMoves
<1> HIDE DEF d
<1>4. \A m \in Node : Had(c.sched, c.state, m) <= Had(d.sched, d.state, m)
  <2> SUFFICES ASSUME NEW m \in Node PROVE Had(c.sched, c.state, m) <= Had(d.sched, d.state, m)
    OBVIOUS
  <2>1. CASE Forward(c, d, n)
    <3>1. Rounds(d.state, m) = Rounds(c.state, m)
      BY <2>1, SameRounds DEF Forward, SameGates
    <3>2. m \in d.sched.ready \ c.sched.ready =>
            /\ Follows(m) /\ m \notin c.sched.completed \cup c.sched.running
      BY <2>1 DEF Forward, Follows
    <3>3. m \in Out(c.sched) => m \in Out(d.sched)
      BY <2>1, <3>2, <1>1 DEF Forward, Out
    <3> QED BY <3>1, <3>3, <1>1, <1>2, HadMore
  <2>2. CASE \E agent \in Node : IsRetry(n, agent) /\ Backward(c, d, n, agent)
    <3>1. PICK agent \in Node : IsRetry(n, agent) /\ Backward(c, d, n, agent)
      BY <2>2
    <3>2. /\ d.state.retries = [c.state.retries EXCEPT ![n] = @ + 1]
          /\ d.sched.running = c.sched.running
      BY <3>1 DEF Backward
    <3>3. \A gate \in Node : d.state.retries[gate] >= c.state.retries[gate]
      BY <3>2, <1>2
    <3>4. \A gate \in Node : Granted(c.state, gate) <= Granted(d.state, gate)
      <4> SUFFICES ASSUME NEW gate \in Node PROVE Granted(c.state, gate) <= Granted(d.state, gate)
        OBVIOUS
      <4>1. d.state.retries[gate] \in Nat /\ c.state.retries[gate] \in Nat
        BY <3>2, <1>2
      <4> QED BY <4>1, <3>3, <1>2 DEF Granted
    <3>5. Rounds(c.state, m) <= Rounds(d.state, m)
      <4>1. CASE Repeated(m)
        <5>1. PICK gate \in Node, a \in Node : IsRetry(gate, a) /\ m \in {gate, a}
          BY <4>1 DEF Repeated, Regulates
        <5>2. Rounds(c.state, m) = Granted(c.state, gate) /\ Rounds(d.state, m) = Granted(d.state, gate)
          BY <5>1, RoundsOf
        <5> QED BY <5>2, <3>4
      <4>2. CASE ~Repeated(m)
        BY <4>2 DEF Repeated, Rounds
      <4> QED BY <4>1, <4>2
    <3>6. CASE ~Used(d.state, n) /\ Again(c.sched, d.sched, n, agent)
      <4>1. CASE m \in {n, agent}
        <5>1. Rounds(c.state, m) = Granted(c.state, n) /\ Rounds(d.state, m) = Granted(d.state, n)
          BY <4>1, <3>1, RoundsOf
        <5>2. d.state.retries[n] = c.state.retries[n] + 1 /\ c.state.retries[n] \in Nat
          BY <3>2, <1>2
        <5>3. Granted(c.state, n) < Granted(d.state, n)
          BY <5>2, <3>6, <1>2 DEF Granted, Used
        <5> QED BY <5>1, <5>3, <1>1, HadAgain
      <4>2. CASE m \notin {n, agent}
        <5>1. m \in Out(c.sched) => m \in Out(d.sched)
          BY <4>2, <3>2, <3>6, <1>1 DEF Again, Out
        <5> QED BY <5>1, <3>5, <1>1, HadMore
      <4> QED BY <4>1, <4>2
    <3>7. CASE d.sched = c.sched
      BY <3>5, <3>7, <1>1, HadMore
    <3>8. CASE Skipped(c.sched, d.sched, n, agent)
      <4>1. ASSUME m \in d.sched.ready \ c.sched.ready
            PROVE  Follows(m) /\ m \notin c.sched.completed \cup c.sched.running
        <5>1. m \in Successors(n) /\ m \notin c.sched.completed \cup {n, agent}
          BY <4>1, <3>8 DEF Skipped
        <5>2. ~IsRetry(n, m)
          BY <5>1, <3>1, GatesAndAgents
        <5>3. Leads(n, m)
          BY <5>1, <5>2 DEF Leads, IsRetry
        <5>4. m \notin c.sched.running
          <6>1. Live(c.sched) \cap c.sched.running = {}
            BY <3>1 DEF Regulates
          <6> QED BY <6>1, <5>1 DEF Live
        <5> QED BY <5>1, <5>3, <5>4 DEF Follows
      <4>2. m \in Out(c.sched) => m \in Out(d.sched)
        BY <4>1, <3>2, <3>8, <1>1 DEF Skipped, Out
      <4> QED BY <4>2, <3>5, <1>1, HadMore
    <3> QED BY <3>1, <3>6, <3>7, <3>8 DEF Backward
  <2> QED BY <2>1, <2>2, <1>3
<1>5. Cardinality(Tally(c.sched, c.state)) <= Cardinality(Tally(d.sched, d.state))
  BY <1>1, <1>4, TallyGrows
<1> QED
  BY <1>5 DEF d

------------------------------------------------------------------------------
(* The invariant of the limit *)

LEMMA CountTypes ==
  ASSUME RInv
  PROVE  /\ counts.iteration \in Nat /\ MaxIterations \in Nat \ {0}
         /\ sched \in SchedulerState /\ state \in GraphState /\ result \in [Node -> Outcome]
         /\ state.iteration_count \in Nat
BY RuntimeAssumption DEF RInv, TypeOK, RuntimeAssumption, GraphState

\* A step that leaves the scheduler alone, and all the tally is about.
LEMMA SameLimited ==
  ASSUME RInv, CInv, sched' = sched, counts'.iteration = counts.iteration,
         state'.retries = state.retries, state'.iteration_count = state.iteration_count,
         state'.cause \notin {"safety_limit", "max_iterations"},
         Going' => Going,
         state.termination_reason # NULL => state'.termination_reason # NULL,
         \A n \in Node : result'[n] = "paused" =>
           result[n] = "paused" \/ state'.termination_reason # NULL
  PROVE  Limited'
<1>1. \A n \in Node : Had(sched, state', n) = Had(sched, state, n)
  BY SameRounds DEF Had
<1>2. Tally(sched, state') = Tally(sched, state)
  BY <1>1 DEF Tally
<1> QED
  BY <1>2 DEF CInv, Limited, Regular

LEMMA InitCInv == ASSUME Init PROVE CInv
<1>1. MaxIterations \in Nat \ {0} /\ NULL \notin {"safety_limit", "max_iterations"}
  BY RuntimeAssumption DEF RuntimeAssumption
<1>2. /\ sched.ready = {} /\ saved = NULL /\ counts = Zero /\ pc = "created"
      /\ state = InitialState /\ \A n \in Node : result[n] = "none"
  BY DEF Init, NoResult
<1>3. NULL # "safety_limit"
  BY <1>1
<1>4. state.cause = NULL /\ state.iteration_count = 0
  BY <1>2 DEF InitialState
<1> QED
  BY <1>1, <1>2, <1>4 DEF CInv, Limited, Regular, Going, Zero

\* The loop begins, and counts from zero.
LEMMA StartLimited ==
  ASSUME Sized, RInv, CInv, counts'.iteration = 0, sched' \in SchedulerState, state' \in GraphState,
         Regular(sched', state'), \A n \in Node : result'[n] # "paused"
  PROVE  Limited'
<1>1. MaxIterations \in Nat \ {0}
  BY CountTypes
<1>2. Cardinality(Tally(sched', state')) \in Nat
  BY TallyFits DEF Sized
<1> QED
  BY <1>1, <1>2 DEF Limited

LEMMA ExecuteLimited == ASSUME Sized, RInv, CInv, Execute PROVE Limited'
<1>1. /\ sched' = Initialize(StartNodes) /\ state' = InitialState /\ result' = result
      /\ pc \in {"created", "reset"} /\ counts'.iteration = 0
  BY DEF Execute, Zero
<1>2. sched' \in SchedulerState /\ END_NODE_ID \notin sched'.ready
  BY <1>1, InitializeFacts
<1>3. state' \in GraphState
  <2>1. RInv'
    BY ExecuteRInv
  <2> QED BY <2>1, CountTypes DEF RInv, TypeOK
<1>4. Regular(sched', state')
  BY <1>1, <1>2, RuntimeAssumption DEF Regular, InitialState, RuntimeAssumption
<1>5. \A n \in Node : result'[n] # "paused"
  BY <1>1 DEF RInv, Results, NoResult
<1> QED
  BY <1>1, <1>2, <1>3, <1>4, <1>5, StartLimited

\* Neither limit is met, and the end marker is not handed out.
LEMMA NoLimit ==
  ASSUME RInv, CInv
  PROVE  /\ ~StopAtLimit /\ ~DispatchMissing
         /\ Tail => state' = state
<1>1. ~StopAtLimit
  BY CountTypes DEF StopAtLimit, CInv, Limited, Regular
<1>2. ~DispatchMissing
  <2> SUFFICES ASSUME NEW eligible \in Eligible \ {{}}, {END_NODE_ID} \in Batches(eligible)
               PROVE  FALSE
    BY DEF DispatchMissing
  <2>1. END_NODE_ID \in eligible
    BY BatchFacts
  <2> QED BY <2>1 DEF Eligible, CInv, Limited, Regular
<1>3. Tail => state' = state
  BY CountTypes DEF Tail, CInv, Limited
<1> QED
  BY <1>1, <1>2, <1>3

LEMMA IdleLimited ==
  ASSUME RInv, CInv,
         \/ StopTerminated \/ StopAtLimit \/ HonourCancel \/ HonourPause \/ NothingLeft
         \/ NothingEligible \/ DispatchMissing \/ Tail \/ Final
         \/ RequestPause \/ RequestCancel \/ Cancel \/ Crash \/ UNCHANGED vars
  PROVE  Limited'
<1>1. state \in GraphState /\ ~StopAtLimit /\ ~DispatchMissing /\ (Tail => state' = state)
  BY CountTypes, NoLimit
<1>2. \/ state' = state
      \/ \E reason \in {"error", "completed", "cancelled"},
            cause \in {"user_cancel", "all_done", "failed_nodes", "deadlock", "cancel"} :
              state' = Marked(state, reason, cause)
  BY <1>1 DEF StopTerminated, HonourCancel, HonourPause, NothingLeft, NothingEligible, Final,
     RequestPause, RequestCancel, Cancel, Crash, vars
<1>3. /\ state'.retries = state.retries /\ state'.iteration_count = state.iteration_count
      /\ state'.cause \notin {"safety_limit", "max_iterations"}
      /\ state.termination_reason # NULL => state'.termination_reason # NULL
  <2>1. CASE state' = state
    BY <2>1 DEF CInv, Limited, Regular
  <2>2. CASE state' # state
    <3>1. PICK reason \in {"error", "completed", "cancelled"},
               cause \in {"user_cancel", "all_done", "failed_nodes", "deadlock", "cancel"} :
                 state' = Marked(state, reason, cause)
      BY <1>2, <2>2
    <3>2. /\ state'.retries = state.retries /\ state'.iteration_count = state.iteration_count
          /\ state'.cause = cause /\ state'.termination_reason = reason
      BY <3>1, <1>1 DEF Marked, GraphState
    <3> QED BY <3>2, NullIsNothing
  <2> QED BY <2>1, <2>2
<1>4. /\ sched' = sched /\ counts'.iteration = counts.iteration /\ result' = result
      /\ Going' => Going
  BY <1>1 DEF StopTerminated, HonourCancel, HonourPause, NothingLeft, NothingEligible, Tail, Final,
     RequestPause, RequestCancel, Cancel, Asked, Crash, vars, Going, RInv, TypeOK
<1> QED
  BY <1>3, <1>4, SameLimited

\* What is handed out was ready and has its turn now.
LEMMA ScheduleLimited == ASSUME Sized, RInv, CInv, Schedule PROVE Limited'
<1>1. PICK eligible \in Eligible \ {{}} : \E batch \in Batches(eligible) :
        /\ batch # {END_NODE_ID}
        /\ sched' = Dispatched(sched, batch)
        /\ \E last \in batch \ {END_NODE_ID} : state' = [state EXCEPT !.current_node_id = last]
  BY DEF Schedule
<1>2. PICK batch \in Batches(eligible) :
        /\ sched' = Dispatched(sched, batch)
        /\ \E last \in batch \ {END_NODE_ID} : state' = [state EXCEPT !.current_node_id = last]
  BY <1>1
<1>3. PICK last \in batch \ {END_NODE_ID} : state' = [state EXCEPT !.current_node_id = last]
  BY <1>2
<1>4. /\ pc = "loop" /\ state.termination_reason = NULL
      /\ counts' = [counts EXCEPT !.iteration = @ + 1] /\ result' = result
  BY DEF Schedule, Undisturbed, GoesOn
<1>5. /\ batch \subseteq sched.ready /\ sched \in SchedulerState /\ state \in GraphState
      /\ END_NODE_ID \notin sched.ready
  BY <1>2, BatchFacts, CountTypes DEF Eligible, CInv, Limited, Regular
<1>6. batch \subseteq Node
  BY <1>5 DEF SchedulerState, Id
<1>7. /\ sched'.ready = sched.ready \ batch /\ sched'.running = sched.running \cup batch
      /\ sched'.completed = sched.completed /\ sched'.failed = sched.failed
  BY <1>2, <1>5 DEF Dispatched, SchedulerState
<1>8. /\ state' \in GraphState /\ state'.retries = state.retries
      /\ state'.iteration_count = state.iteration_count /\ state'.cause = state.cause
      /\ state'.termination_reason = state.termination_reason
  BY <1>3, <1>5, <1>6 DEF GraphState
<1>9. \A n \in Node : Had(sched, state, n) <= Had(sched', state', n)
  <2> SUFFICES ASSUME NEW n \in Node PROVE Had(sched, state, n) <= Had(sched', state', n)
    OBVIOUS
  <2>1. n \in Out(sched) => n \in Out(sched')
    BY <1>7 DEF Out
  <2>2. Rounds(state', n) = Rounds(state, n) /\ Rounds(state, n) \in 0 .. MaxRetries
    BY <1>5, <1>8, SameRounds, RoundsBound DEF Sized
  <2>3. Rounds(state, n) <= Rounds(state', n)
    <3> HIDE DEF Rounds
    <3> QED BY <2>2, RuntimeAssumption DEF RuntimeAssumption
  <2>4. Gated
    BY DEF Sized
  <2> HIDE DEF Rounds, Out, Had
  <2> QED BY <2>1, <2>3, <2>4, <1>5, <1>8, HadMore
<1>10. Had(sched, state, last) < Had(sched', state', last)
  <2>1. last \in Out(sched') /\ last \notin Out(sched)
    BY <1>5, <1>6, <1>7 DEF Out
  <2>2. Rounds(state', last) = Rounds(state, last) /\ Rounds(state, last) \in 0 .. MaxRetries
    BY <1>5, <1>6, <1>8, SameRounds, RoundsBound DEF Sized
  <2> HIDE DEF Rounds, Out
  <2> QED BY <2>1, <2>2, RuntimeAssumption DEF Had, RuntimeAssumption
<1>11. Cardinality(Tally(sched, state)) + 1 <= Cardinality(Tally(sched', state'))
  BY <1>5, <1>6, <1>8, <1>9, <1>10, TallyCounts DEF Sized
<1>12. /\ Cardinality(Tally(sched, state)) \in Nat /\ Cardinality(Tally(sched', state')) \in Nat
       /\ Cardinality(Budget) \in Nat /\ Cardinality(Tally(sched', state')) <= Cardinality(Budget)
       /\ Cardinality(Budget) <= 2 * MaxIterations
  BY <1>5, <1>8, TallyFits DEF Sized
<1>13. counts'.iteration = counts.iteration + 1 /\ counts.iteration <= Cardinality(Tally(sched, state))
  BY <1>4 DEF RInv, TypeOK, CInv, Limited, Going
<1>14. counts'.iteration <= Cardinality(Tally(sched', state')) /\ counts'.iteration <= 2 * MaxIterations
  BY <1>11, <1>12, <1>13, CountTypes
<1>15. Regular(sched', state')
  BY <1>7, <1>8 DEF CInv, Limited, Regular
<1> QED
  BY <1>4, <1>8, <1>14, <1>15 DEF CInv, Limited

\* A node that ends changes no turn; who asks marks the run as paused.
LEMMA FinishLimited ==
  ASSUME Sized, RInv, CInv, NEW n \in Node, FinishNode(n)
  PROVE  Limited'
<1>1. state \in GraphState /\ result \in [Node -> Outcome]
  BY CountTypes
<1> DEFINE Fits(outcome, g) ==
             /\ Finish(n, outcome, g) /\ g \in GraphState /\ g.retries = state.retries
             /\ g.iteration_count = state.iteration_count
             /\ g.cause \in {state.cause, "awaiting_user"}
             /\ g.termination_reason \in {state.termination_reason, "paused"}
             /\ outcome = "paused" => g.termination_reason = "paused"
<1>2. \E outcome \in Outcome, g \in GraphState : Fits(outcome, g)
  <2>1. ASSUME NEW verdict \in {"unset", "pass", "fail"}, NEW outcome \in {"completed", "failed"},
               Finish(n, outcome, [state EXCEPT !.quality_passed = verdict])
        PROVE  \E o \in Outcome, g \in GraphState : Fits(o, g)
    <3> DEFINE g == [state EXCEPT !.quality_passed = verdict]
    <3>1. /\ g \in GraphState /\ g.retries = state.retries
          /\ g.iteration_count = state.iteration_count /\ g.cause = state.cause
          /\ g.termination_reason = state.termination_reason
      BY <1>1 DEF GraphState
    <3> HIDE DEF g
    <3>2. Fits(outcome, g)
      BY <2>1, <3>1 DEF g
    <3> HIDE DEF Fits
    <3> QED BY <3>1, <3>2 DEF Outcome
  <2>2. CASE \E verdict \in {"pass", "fail"} : JudgeOutput(n, verdict)
    BY <2>1, <2>2 DEF JudgeOutput
  <2>3. CASE GateFails(n)
    <3>1. PICK written \in {state.quality_passed, "pass", "fail"} :
            Finish(n, "failed", [state EXCEPT !.quality_passed = written])
      BY <2>3 DEF GateFails
    <3>2. written \in {"unset", "pass", "fail"}
      BY <1>1 DEF GraphState
    <3> QED BY <2>1, <3>1, <3>2
  <2>4. CASE AskHuman(n) \/ AskAdaptive(n)
    <3> DEFINE h == Marked(state, "paused", "awaiting_user")
               g == [h EXCEPT !.pause_context = n]
    <3>1. /\ h \in GraphState /\ h.retries = state.retries
          /\ h.iteration_count = state.iteration_count /\ h.cause = "awaiting_user"
          /\ h.termination_reason = "paused"
      <4>1. h \in GraphState
        BY <1>1, MarkedType DEF Reason, Cause
      <4> QED BY <4>1, <1>1 DEF Marked, GraphState
    <3> HIDE DEF h
    <3>2. /\ g \in GraphState /\ g.retries = h.retries
          /\ g.iteration_count = h.iteration_count /\ g.cause = h.cause
          /\ g.termination_reason = h.termination_reason
      BY <3>1 DEF GraphState
    <3>3. PICK outcome \in {"paused", "completed"} : Finish(n, outcome, g)
      BY <2>4 DEF AskHuman, AskAdaptive, g, h
    <3> HIDE DEF g
    <3>4. Fits(outcome, g)
      BY <3>1, <3>2, <3>3
    <3> HIDE DEF Fits
    <3> QED BY <3>2, <3>4 DEF Outcome
  <2>5. CASE CountLoop(n)
    BY <2>5 DEF CountLoop, Sized
  <2>6. CASE Work(n)
    <3>1. PICK outcome \in {"completed", "failed"} : Finish(n, outcome, state)
      BY <2>6 DEF Work
    <3>2. Fits(outcome, state)
      BY <3>1, <1>1
    <3> HIDE DEF Fits
    <3> QED BY <3>2, <1>1 DEF Outcome
  <2> QED BY <2>2, <2>3, <2>4, <2>5, <2>6 DEF FinishNode
<1>3. PICK outcome \in Outcome, g \in GraphState : Fits(outcome, g)
  BY <1>2
<1>4. /\ pc = "executing" /\ pc' \in {"executing", "settling"} /\ UNCHANGED <<sched, counts>>
      /\ result' = [result EXCEPT ![n] = outcome] /\ state' = Recorded(g, n, outcome)
  BY <1>3 DEF Finish
<1>5. /\ state'.retries = state.retries /\ state'.iteration_count = state.iteration_count
      /\ state'.cause = g.cause /\ state'.termination_reason = g.termination_reason
  BY <1>3, <1>4 DEF Recorded, GraphState
<1>6. /\ state'.cause \notin {"safety_limit", "max_iterations"}
      /\ state.termination_reason # NULL => state'.termination_reason # NULL
  BY <1>3, <1>5, NullIsNothing DEF CInv, Limited, Regular
<1>7. \A m \in Node : result'[m] = "paused" =>
        result[m] = "paused" \/ state'.termination_reason # NULL
  <2> SUFFICES ASSUME NEW m \in Node, result'[m] = "paused", result[m] # "paused"
               PROVE  state'.termination_reason # NULL
    OBVIOUS
  <2>1. outcome = "paused"
    BY <1>1, <1>4
  <2> QED BY <2>1, <1>3, <1>5, NullIsNothing
<1> QED
  BY <1>4, <1>5, <1>6, <1>7, SameLimited DEF Going

\* A node that did not ask keeps its turn when it is settled.
LEMMA SettledTally ==
  ASSUME Gated, RInv, GInv, NEW n \in Node, result[n] \notin {"none", "paused"}
  PROVE  Cardinality(Tally(sched, state)) <= Cardinality(Tally(Settled(n), state))
<1> DEFINE t == Settled(n)
           success == result[n] = "completed"
<1>1. sched \in SchedulerState /\ state \in GraphState /\ result[n] \in {"completed", "failed"}
  BY CountTypes DEF Outcome
<1>2. /\ t.running = sched.running \ {n}
      /\ t.completed = IF success THEN sched.completed \cup {n} ELSE sched.completed
      /\ \A m \in t.ready \ sched.ready :
           /\ Leads(n, m) /\ m \notin t.completed
           /\ m \in Node => m \notin t.running
      /\ ~success => t.ready = sched.ready
  BY <1>1, SettledMoves
<1>3. t.failed = IF success THEN sched.failed ELSE sched.failed \cup {n}
  <2>1. Ends(sched, t, n, success)
    BY <1>1, CompletedEnds DEF Settled
  <2> QED BY <2>1 DEF Ends
<1>4. ~success => ~Follows(n)
  BY <1>1 DEF GInv, OnGuard, Endings
<1> HIDE DEF t, success
<1>5. ASSUME NEW m \in Node PROVE Had(sched, state, m) <= Had(t, state, m)
  <2>1. m \in t.ready \ sched.ready =>
          Follows(m) /\ m \notin sched.completed /\ (m \in sched.running => m = n /\ success)
    BY <1>2 DEF Follows, success
  <2>2. m \in t.ready \ sched.ready => m \notin sched.running
    BY <2>1, <1>2
  <2>3. m \in Out(sched) => m \in Out(t)
    BY <2>1, <2>2, <1>2, <1>3, <1>4 DEF Out
  <2>4. Rounds(state, m) <= Rounds(state, m)
    <3>1. Rounds(state, m) \in 0 .. MaxRetries /\ MaxRetries \in Nat
      BY <1>1, RoundsBound, RuntimeAssumption DEF RuntimeAssumption
    <3> HIDE DEF Rounds
    <3> QED BY <3>1
  <2> HIDE DEF Rounds, Out, Had
  <2> QED BY <2>3, <2>4, <1>1, HadMore
<1> QED
  BY <1>1, <1>5, TallyGrows DEF t

LEMMA SettledReady ==
  ASSUME Gated, RInv, CInv, NEW n \in Node, result[n] # "none"
  PROVE  Settled(n) \in SchedulerState /\ END_NODE_ID \notin Settled(n).ready
<1>1. \A e \in Edges : e.edge_type # "error"
  BY DEF Gated
<1>2. (result[n] = "completed") \in BOOLEAN /\ sched \in SchedulerState
  BY CountTypes
<1>3. Settled(n) \in SchedulerState /\ END_NODE_ID \notin Settled(n).ready \ sched.ready
  BY <1>1, <1>2, CompletedEnds DEF Settled
<1> QED
  BY <1>3 DEF CInv, Limited, Regular

LEMMA SettlePausedLimited ==
  ASSUME Sized, RInv, CInv, NEW n \in Node, SettlePaused(n)
  PROVE  Limited'
<1>1. /\ pc' = "final" /\ result[n] # "none" /\ result' = NoResult
      /\ sched' = Settled(n) /\ UNCHANGED <<state, counts>>
  BY DEF SettlePaused, Settled
<1>2. END_NODE_ID \notin sched'.ready
  BY <1>1, SettledReady DEF Sized
<1> QED
  BY <1>1, <1>2 DEF CInv, Limited, Regular, Going, NoResult

\* Routing on a sized graph keeps what is regular.
LEMMA RoutedRegular ==
  ASSUME Sized, NEW c \in Pair, NEW n \in Node, NEW holding, Regular(c.sched, c.state)
  PROVE  LET d == Routed(c, n, holding)
         IN  /\ Regular(d.sched, d.state) /\ d \in Pair
             /\ c.state.termination_reason # NULL => d.state.termination_reason # NULL
<1> DEFINE d == Routed(c, n, holding)
<1>1. /\ d \in Pair /\ Unmarked(c, d)
      /\ END_NODE_ID \in d.sched.ready \ c.sched.ready =>
           END_NODE_ID \in Successors(n) /\ Regulates(n)
  BY RoutedMarks
<1> HIDE DEF d
<1>2. END_NODE_ID \notin d.sched.ready
  BY <1>1 DEF Sized, Regular
<1>3. Regular(d.sched, d.state)
  BY <1>1, <1>2 DEF Regular, Unmarked
<1> QED
  BY <1>1, <1>3, NullIsNothing DEF Unmarked, d

LEMMA SettleLimited ==
  ASSUME Sized, RInv, GInv, CInv, NEW n \in Node, Settle(n)
  PROVE  Limited'
<1> DEFINE c == [sched |-> Settled(n), state |-> state]
<1>1. PICK holding \in SUBSET OtherEdges(n) :
        /\ sched' = Routed(c, n, holding).sched /\ state' = Routed(c, n, holding).state
  BY DEF Settle, Settled
<1>2. /\ pc = "settling" /\ pc' \in {"settling", "tail"} /\ result[n] # "none"
      /\ result' = [result EXCEPT ![n] = "none"] /\ UNCHANGED counts
  BY DEF Settle
<1>3. Gated
  BY DEF Sized
<1>4. /\ c \in Pair /\ c.sched = Settled(n) /\ c.state = state
      /\ state \in GraphState /\ result \in [Node -> Outcome] /\ counts.iteration \in Nat
      /\ Regular(c.sched, c.state)
  BY <1>2, <1>3, SettledReady, CountTypes DEF Pair, CInv, Limited, Regular
<1> HIDE DEF c
<1> DEFINE d == Routed(c, n, holding)
<1>5. /\ Regular(d.sched, d.state) /\ d \in Pair
      /\ state.termination_reason # NULL => d.state.termination_reason # NULL
  BY <1>4, RoutedRegular
<1>6. sched' = d.sched /\ state' = d.state
  BY <1>1
<1>7. ASSUME state'.termination_reason = NULL
      PROVE  counts'.iteration <= Cardinality(Tally(sched', state'))
  <2>1. state.termination_reason = NULL /\ result[n] \notin {"none", "paused"}
    BY <1>2, <1>5, <1>6, <1>7 DEF CInv, Limited
  <2>2. counts.iteration <= Cardinality(Tally(sched, state))
    BY <2>1, <1>2 DEF CInv, Limited, Going
  <2>3. Cardinality(Tally(sched, state)) <= Cardinality(Tally(c.sched, c.state))
    BY <2>1, <1>3, <1>4, SettledTally
  <2>4. ~Regulates(n) \/ Live(c.sched) \cap c.sched.running = {}
    <3>1. CASE n \notin sched.completed
      <4>1. Turn(Settled(n), state, n, runs, env.review_mode)
        BY <3>1, <1>2, <1>3, SettledTurns
      <4> QED BY <4>1, <1>4 DEF Turn
    <3>2. CASE n \in sched.completed
      BY <3>2, <1>2, <1>3, StaleSettles
    <3> QED BY <3>1, <3>2
  <2>5. Cardinality(Tally(c.sched, c.state)) <= Cardinality(Tally(d.sched, d.state))
    BY <2>4, <1>3, <1>4, RoutedTally
  <2>6. /\ Cardinality(Tally(sched, state)) \in Nat
        /\ Cardinality(Tally(c.sched, c.state)) \in Nat
        /\ Cardinality(Tally(d.sched, d.state)) \in Nat
    BY <1>3, <1>4, <1>5, TallyFits DEF Pair
  <2> HIDE DEF d, Tally
  <2> QED BY <2>2, <2>3, <2>5, <2>6, <1>2, <1>4, <1>6
<1> HIDE DEF d
<1>8. \A m \in Node : result'[m] = "paused" => state'.termination_reason # NULL
  BY <1>2, <1>4, <1>5, <1>6 DEF CInv, Limited
<1> QED
  BY <1>2, <1>5, <1>6, <1>7, <1>8 DEF CInv, Limited

\* A resume starts a new count, and so do a recovery and a replay.
LEMMA ResumeLimited == ASSUME Sized, RInv, CInv, Resume PROVE Limited'
<1>1. pc \in {"stopped", "recovered"} /\ result' = result /\ counts'.iteration = 0
  BY DEF Resume, Zero
<1>2. /\ sched \in SchedulerState /\ state \in GraphState
      /\ Reopened \in GraphState /\ Reopened.iteration_count = state.iteration_count
      /\ Reopened.cause = NULL
  <2>1. sched \in SchedulerState /\ state \in GraphState
    BY CountTypes
  <2>2. Reopened \in GraphState
    BY <2>1, MarkedType DEF Reopened, Reason, Cause
  <2> QED BY <2>1, <2>2 DEF Reopened, Marked, GraphState
<1>3. Regular(sched, Reopened)
  BY <1>2, RuntimeAssumption DEF CInv, Limited, Regular, RuntimeAssumption
<1>4. Regular(sched', state')
  <2>1. CASE PausedNode = NULL
    BY <2>1, <1>3 DEF Resume
  <2>2. CASE PausedNode # NULL
    <3> DEFINE c == [sched |-> sched, state |-> Reopened]
    <3>1. PICK holding \in SUBSET OtherEdges(PausedNode) :
            sched' = Routed(c, PausedNode, holding).sched /\ state' = Routed(c, PausedNode, holding).state
      BY <2>2 DEF Resume
    <3>2. PausedNode \in Node
      BY <2>2, <1>2 DEF PausedNode, GraphState
    <3>3. c \in Pair /\ Regular(c.sched, c.state)
      BY <1>2, <1>3 DEF Pair
    <3> HIDE DEF c
    <3> QED BY <3>1, <3>2, <3>3, RoutedRegular
  <2> QED BY <2>1, <2>2
<1>5. sched' \in SchedulerState /\ state' \in GraphState
  BY ResumeFacts
<1>6. \A n \in Node : result'[n] # "paused"
  BY <1>1 DEF RInv, Results, NoResult
<1> QED
  BY <1>1, <1>4, <1>5, <1>6, StartLimited

LEMMA RestartLimited ==
  ASSUME Sized, RInv, CInv, Recover \/ \E n \in Node : ReplayFrom(n)
  PROVE  Limited'
<1>1. CASE Recover
  <2>1. /\ saved # NULL /\ sched' = saved.sched /\ state' = saved.state /\ result' = NoResult
        /\ counts'.iteration = 0 /\ pc' = "recovered"
    BY <1>1 DEF Recover, Zero
  <2> QED BY <2>1, CountTypes DEF CInv, Limited, Going, NoResult
<1>2. CASE \E n \in Node : ReplayFrom(n)
  <2>1. PICK n \in Node : ReplayFrom(n)
    BY <1>2
  <2>2. /\ pc \in {"stopped", "recovered"} /\ pc' = "reset" /\ result' = result
        /\ counts' = counts /\ sched'.ready = {n}
    BY <2>1, ReplayFacts DEF ReplayFrom
  <2>3. state'.iteration_count = state.iteration_count /\ state'.cause = NULL
    BY <2>1, CountTypes DEF ReplayFrom, ResetFromPhase, GraphState
  <2>4. Regular(sched', state')
    BY <2>2, <2>3, EdgeEnds, RuntimeAssumption DEF CInv, Limited, Regular, RuntimeAssumption
  <2>5. \A m \in Node : result'[m] # "paused"
    BY <2>2 DEF RInv, Results, NoResult
  <2> QED BY <2>2, <2>4, <2>5 DEF CInv, Limited, Going
<1> QED
  BY <1>1, <1>2

LEMMA NextCInv ==
  ASSUME Sized, RInv, GInv, CInv, [Next]_vars
  PROVE  CInv'
<1>1. ~ResumeRaises /\ \A n \in Node : ~RouteRaises(n)
  BY GatedChoices DEF ResumeRaises, RouteRaises, Sized
<1>2. Limited'
  <2>1. CASE MainLoop
    <3>1. CASE \E n \in Node : FinishNode(n) \/ SettlePaused(n) \/ Settle(n) \/ RouteRaises(n)
      BY <3>1, <1>1, FinishLimited, SettlePausedLimited, SettleLimited
    <3> QED BY <2>1, <3>1, ExecuteLimited, IdleLimited, ScheduleLimited DEF MainLoop
  <2>2. CASE Environment
    BY <2>2, <1>1, ResumeLimited, IdleLimited, RestartLimited DEF Environment
  <2> QED BY <2>1, <2>2, IdleLimited DEF Next
\* A checkpoint is what the run is.
<1>3. ASSUME saved' # NULL PROVE Regular(saved'.sched, saved'.state)
  <2>1. CASE saved' = saved
    BY <2>1, <1>3 DEF CInv
  <2>2. CASE saved' # saved
    <3>1. SaveCheckpoint(state)
      BY <2>2, SaversAre DEF Tail, Final
    <3>2. saved'.sched = Restored(sched) /\ saved'.state = state
      BY <2>2, <3>1 DEF SaveCheckpoint
    <3>3. Restored(sched).ready = sched.ready
      BY CountTypes DEF Restored, SchedulerState
    <3> QED BY <3>2, <3>3 DEF CInv, Limited, Regular
  <2> QED BY <2>1, <2>2
<1> QED
  BY <1>2, <1>3 DEF CInv

\* The retries alone end the loops of a pipeline with gates: neither limit is
\* ever what stops a run, if the limit of the main loop has room for one turn
\* of every node and one more of each gate and its agent for every retry.
\* Through skips, pauses, cancels, crashes, failed checkpoints, recoveries,
\* resumes and replays.
THEOREM RetriesStayInLimit ==
  ASSUME Sized
  PROVE  Spec => []NeverHitsSafetyLimit
<1>1. CInv => NeverHitsSafetyLimit
  BY DEF CInv, Limited, Regular, NeverHitsSafetyLimit
<1>2. Gated
  BY DEF Sized
<1>3. Init => GInv /\ CInv
  BY <1>2, InitGInv, InitCInv
<1>4. RInv /\ GInv /\ CInv /\ [Next]_vars => GInv' /\ CInv'
  BY <1>2, NextGInv, NextCInv
<1> QED
  BY <1>1, <1>3, <1>4, RInvariant, PTL DEF Spec
==============================================================================
