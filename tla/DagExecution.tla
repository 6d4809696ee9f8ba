---------------------------- MODULE DagExecution ----------------------------
(***************************************************************************)
(* What a scheduler of a dependency graph promises: a node is started at   *)
(* most once, and only when every edge that holds it back is through.      *)
(* How the scheduler finds out is left open; the in-degree counters of     *)
(* SchedulerAlone are one way.                                             *)
(***************************************************************************)
EXTENDS WorkflowGraph

VARIABLES
  started,    \* nodes handed out so far
  succeeded,  \* those that ended well
  broken      \* those that failed

dagVars == <<started, succeeded, broken>>

IsThrough(e) ==
  \/ e.from_node = START_NODE_ID
  \/ e.edge_type # "conditional" /\ e.from_node \in succeeded
  \/ e.edge_type = "error" /\ e.from_node \in broken

DagInit == started = {} /\ succeeded = {} /\ broken = {}

Start ==
  \E batch \in SUBSET (Node \ started) :
    /\ \A n \in batch : \A e \in BlockingEdges(n) : IsThrough(e)
    /\ started' = started \cup batch
    /\ UNCHANGED <<succeeded, broken>>

End(n) ==
  /\ n \in started \ (succeeded \cup broken)
  /\ \/ succeeded' = succeeded \cup {n} /\ UNCHANGED broken
     \/ broken' = broken \cup {n} /\ UNCHANGED succeeded
  /\ UNCHANGED started

DagNext == Start \/ \E n \in Node : End(n)

DagSpec == DagInit /\ [][DagNext]_dagVars
==============================================================================
