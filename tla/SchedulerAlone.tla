--------------------------- MODULE SchedulerAlone ---------------------------
(***************************************************************************)
(* The scheduler driven by itself: next() hands out a batch, and every     *)
(* node of a batch is later completed, as a success or as a failure.       *)
(* Nothing else touches the sets.  This is the contract the in-degree      *)
(* bookkeeping was written for; GraphRuntime adds the router, which also   *)
(* writes the ready set.                                                   *)
(***************************************************************************)
EXTENDS GraphScheduler

VARIABLE sched

\* No in-degree ever goes below zero: no edge is counted twice.
TypeOK ==
  /\ sched \in SchedulerState
  /\ \A n \in Node : sched.pending[n] \in Nat

Init == sched = Initialize(StartNodes)

\* One call of next().  Preconditions (approved artifacts, finished units,
\* quality records) may hold any of the ready nodes back at any call.
Next_Dispatch ==
  \E eligible \in SUBSET sched.ready :
    /\ eligible # {}
    /\ \E batch \in Batches(eligible) : sched' = Dispatched(sched, batch)

\* The end marker is no node: the main loop completes it as a failure.
Next_Complete(n, success) ==
  /\ n \in sched.running
  /\ n = END_NODE_ID => ~success
  /\ sched' = Completed(sched, n, success)

Next == \/ Next_Dispatch
        \/ \E n \in Id, success \in BOOLEAN : Next_Complete(n, success)

\* Every executed node ends (its execution is bounded by a timeout or its
\* own tool limits) and the main loop calls next() again as long as there is
\* something to hand out.
Fairness == /\ WF_sched(Next_Dispatch)
            /\ \A n \in Id : WF_sched(\E success \in BOOLEAN : Next_Complete(n, success))

Spec == Init /\ [][Next]_sched
FairSpec == Spec /\ Fairness

------------------------------------------------------------------------------
(***************************************************************************)
(* An edge is through when its source has completed or, for an error edge, *)
(* ended either way.  Conditional edges are left to the router.            *)
(***************************************************************************)
Through(s, e) ==
  \/ e.from_node = START_NODE_ID
  \/ e.edge_type # "conditional" /\ e.from_node \in s.completed
  \/ e.edge_type = "error" /\ e.from_node \in s.failed

\* A node is ready, running or ended only when everything before it is
\* through: the join the in-degree count of initialize() and complete() is
\* there to enforce.
JoinSafe ==
  \A n \in (sched.ready \cup sched.running \cup sched.completed \cup sched.failed) \cap Node :
    \A e \in BlockingEdges(n) : Through(sched, e)

\* No node is in two of the places at once, so none is handed out twice and
\* none counts twice in is_complete.
Disjoint ==
  \A n \in Node :
    /\ ~(n \in sched.ready /\ n \in sched.running)
    /\ n \in sched.ready \cup sched.running => n \notin sched.completed \cup sched.failed
    /\ ~(n \in sched.completed /\ n \in sched.failed)

\* The refinement mapping to DagExecution: what has left ready is started.
Dag == INSTANCE DagExecution WITH
         started   <- (sched.running \cup sched.completed \cup sched.failed) \cap Node,
         succeeded <- sched.completed \cap Node,
         broken    <- sched.failed \cap Node

\* The scheduler implements the execution of a dependency graph.
ImplementsDag == Dag!DagSpec

\* A node none of whose incoming edges is still open is executed eventually,
\* whatever the order in which its predecessors end: no decrement of
\* complete() is lost.
ReleasedNodesRun ==
  \A n \in Node :
    (n \notin StartNodes /\ \A e \in BlockingEdges(n) : Through(sched, e))
      ~> (n \in sched.completed \cup sched.failed)
==============================================================================
