------------------------------ MODULE MCGraphs ------------------------------
(***************************************************************************)
(* Small graphs the runs use, each in the shape some builder of the        *)
(* project leaves, with the START and END edges of GraphBuilder.build().   *)
(***************************************************************************)
EXTENDS Naturals

Link(from, to, type, cond) ==
  [from_node |-> from, to_node |-> to, edge_type |-> type, condition |-> cond]
Always(from, to) == Link(from, to, "always", "none")
Join(from, to)   == Link(from, to, "parallel_join", "none")
Retry(gate, to)  == Link(gate, to, "loop_back", "not_passed")
IfPassed(gate, to) == Link(gate, to, "conditional", "passed")

KindOf(nodes, f) == [n \in nodes |-> IF n \in DOMAIN f THEN f[n] ELSE "agent"]

\* A fork into two branches of unequal length that join again, with an error
\* handler on one branch, an error edge to the end and a loop-back from the
\* join to the first node.
DiamondNode == {"fork", "b", "c", "c2", "merge", "handler"}
DiamondKind == KindOf(DiamondNode, [fork |-> "fork", merge |-> "merge"])
DiamondEdges ==
  {Always("fork", "b"), Always("fork", "c"), Always("c", "c2"),
   Join("b", "merge"), Join("c2", "merge"),
   Link("c", "handler", "error", "none"),
   Link("merge", "fork", "loop_back", "other"),
   Always("merge", "END"), Link("handler", "END", "error", "none")}

\* The mini pipeline of tests/test_quality_gate_retry.py, twice in a row: an
\* agent, its gate with a retry edge, and the next agent behind a conditional
\* edge.
GateNode == {"a", "gate_a", "b", "gate_b", "c"}
GateKind == KindOf(GateNode, [gate_a |-> "quality_gate", gate_b |-> "quality_gate"])
GateEdges ==
  {Always("a", "gate_a"), Retry("gate_a", "a"), IfPassed("gate_a", "b"),
   Always("b", "gate_b"), Retry("gate_b", "b"), IfPassed("gate_b", "c"),
   Always("c", "END")}

\* One retry phase as the template compiler builds it: the checkpoint node
\* stands between the agent and its gate.
PhaseNode == {"agent", "ckpt", "gate"}
PhaseKind == KindOf(PhaseNode, [ckpt |-> "checkpoint", gate |-> "quality_gate"])
PhaseEdges ==
  {Always("agent", "ckpt"), Always("ckpt", "gate"), Retry("gate", "agent")}

\* A compiled pipeline of two phases: a human review after the first, a plain
\* quality check after the second, whose exit edge is unconditional.
ReviewNode == {"a1", "ckpt1", "review1", "a2", "check2"}
ReviewKind == KindOf(ReviewNode, [ckpt1 |-> "checkpoint", review1 |-> "human",
                                  check2 |-> "quality_gate"])
ReviewEdges ==
  {Link("START", "a1", "always", "none"), Always("a1", "ckpt1"),
   Always("ckpt1", "review1"), Always("review1", "a2"),
   Always("a2", "check2"), Always("check2", "END")}

\* Branches of unequal length into a join.
SkewNode == {"a", "b", "c", "merge"}
SkewKind == KindOf(SkewNode, [merge |-> "merge"])
SkewEdges ==
  {Link("START", "a", "always", "none"), Link("START", "c", "always", "none"),
   Always("a", "b"), Join("b", "merge"), Join("c", "merge"), Always("merge", "END")}

\* A router that may enter a loop directly or by way of a checkpoint that checks
\* an output, the loop node and the agent that always feeds back to it, and an
\* error edge to the end.
LoopNode == {"p", "q", "loop", "body", "last"}
LoopKind == KindOf(LoopNode, [p |-> "router", q |-> "checked", loop |-> "loop"])
LoopEdges ==
  {Link("START", "p", "always", "none"),
   Link("p", "loop", "conditional", "other"), Link("p", "q", "default", "none"),
   Always("q", "loop"), Always("loop", "body"),
   Link("body", "loop", "loop_back", "none"),
   Always("body", "last"), Link("last", "END", "error", "none")}
==============================================================================
