---------------------------- MODULE WorkflowGraph ----------------------------
(***************************************************************************)
(* A workflow graph as the builder leaves it (core/graph/types.py and      *)
(* core/graph/builder.py): nodes of several kinds and typed edges between  *)
(* them, from an implicit start and to an implicit end.  The graph never   *)
(* changes during a run, so it is a constant of every module above.        *)
(*                                                                         *)
(* The condition of an edge is reduced to what a run can tell apart:       *)
(*   "none"        no condition                                            *)
(*   "passed"      values.get('quality_passed', False)                     *)
(*   "not_passed"  not values.get('quality_passed', True)                  *)
(*   "other"       any other expression; its value is not determined here  *)
(***************************************************************************)
EXTENDS Naturals, FiniteSets

CONSTANTS
  Node,           \* ids of the nodes of the graph
  Kind,           \* [Node -> NodeKind]
  Edges,          \* set of edge records
  START_NODE_ID,  \* the implicit start, never a node
  END_NODE_ID     \* the implicit end, never a node

\* "checked" is a checkpoint node with a quality_check_target; functions,
\* subgraphs and event emitters act on a run like agents.
NodeKind == {"agent", "router", "fork", "merge", "loop", "human",
             "checkpoint", "checked", "quality_gate"}

EdgeType == {"always", "conditional", "default", "parallel_join",
             "loop_back", "error"}

Condition == {"none", "passed", "not_passed", "other"}

Edge == [from_node : Node \cup {START_NODE_ID},
         to_node   : Node \cup {END_NODE_ID},
         edge_type : EdgeType,
         condition : Condition]

\* get_edges_from, get_edges_to, get_successors
EdgesFrom(n) == {e \in Edges : e.from_node = n}
EdgesTo(n)   == {e \in Edges : e.to_node = n}
Successors(n) == {e.to_node : e \in EdgesFrom(n)}

\* get_edge(n, t).edge_type = type, for the one edge there is from n to t
HasEdge(n, t, type) == \E e \in EdgesFrom(n) : e.to_node = t /\ e.edge_type = type

\* The edges that hold a node back until their source is through: every
\* incoming edge except the loop-backs.
BlockingEdges(n) == {e \in EdgesTo(n) : e.edge_type # "loop_back"}

\* get_start_nodes: no incoming edge at all, or a single one, from START.
StartNodes ==
  {n \in Node : \/ EdgesTo(n) = {}
                \/ \E e \in Edges : EdgesTo(n) = {e} /\ e.from_node = START_NODE_ID}

(***************************************************************************)
(* What the builder guarantees: the ends of every edge exist, two nodes    *)
(* are joined by at most one edge, and an edge from START is the only edge *)
(* into its target (build() adds one only to a node without any).          *)
(***************************************************************************)
ASSUME GraphAssumption ==
  /\ IsFiniteSet(Node)
  /\ START_NODE_ID \notin Node /\ END_NODE_ID \notin Node
  /\ START_NODE_ID # END_NODE_ID
  /\ Kind \in [Node -> NodeKind]
  /\ Edges \subseteq Edge /\ IsFiniteSet(Edges)
  /\ \A e, f \in Edges :
       e.from_node = f.from_node /\ e.to_node = f.to_node => e = f
  /\ \A e, f \in Edges :
       e.to_node = f.to_node /\ e.from_node = START_NODE_ID => e = f
==============================================================================
