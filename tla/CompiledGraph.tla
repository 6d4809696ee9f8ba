---------------------------- MODULE CompiledGraph ----------------------------
(***************************************************************************)
(* What TemplateCompiler, GraphBuilder and GraphValidator do with a list   *)
(* of phases (core/run/template_compiler.py, core/graph/builder.py,        *)
(* core/graph/validators.py), as operators.  A phase is a record           *)
(*   [id, deps, control]                                                   *)
(* where deps are the ids its metadata lists (of phases that may not       *)
(* exist) and control is what stands behind its agent: "check" a quality   *)
(* gate that only judges, "retry" one that loops back, "human" a review or *)
(* a decision.  A node is a pair <<phase or "", kind>>, a graph a record   *)
(* [nodes, edges] with edges <<from, type, to>>.                           *)
(***************************************************************************)
EXTENDS Naturals, Sequences, FiniteSets

Control == {"check", "retry", "human"}

START == <<"", "start">>
END   == <<"", "end">>

AgentNode(p) == <<p, "agent">>
Ckpt(p)   == <<p, "checkpoint">>
Exit(s)   == <<s.id, s.control>>
Fork      == <<"", "fork">>
Merge     == <<"", "merge">>
Loop      == <<"", "loop">>
Review    == <<"", "review_final">>
Decision  == <<"", "decision">>

Ids(specs)   == {specs[i].id : i \in DOMAIN specs}
Exits(specs) == {Exit(specs[i]) : i \in DOMAIN specs}

\* GraphBuilder.edge, conditional_edge and loop_back; edges of other types are
\* written as they are.
Always(a, b) == <<a, "always", b>>
When(a, b)   == <<a, "conditional", b>>
Back(a, b)   == <<a, "loop_back", b>>

(***************************************************************************)
(* GraphBuilder                                                            *)
(***************************************************************************)

\* _find_start_nodes, _find_end_nodes: no edge in, no edge out.
Sources(nodes, edges) == {n \in nodes : \A e \in edges : e[3] # n}
Sinks(nodes, edges)   == {n \in nodes : \A e \in edges : e[1] # n}

\* build(): START is joined to the nodes without an incoming edge and the
\* nodes without an outgoing one to END; a loop-back counts as either.
Built(nodes, edges) ==
  [nodes |-> nodes,
   edges |-> edges \cup {Always(START, n) : n \in Sources(nodes, edges)}
                   \cup {Always(n, END) : n \in Sinks(nodes, edges)}]

(***************************************************************************)
(* TemplateCompiler                                                        *)
(***************************************************************************)

\* _build_phase_subgraph: agent -> checkpoint -> exit, and the gate of a
\* phase that retries loops back to its agent.
PhaseNodes(specs) ==
  UNION {{AgentNode(specs[i].id), Ckpt(specs[i].id), Exit(specs[i])} : i \in DOMAIN specs}

PhaseEdges(specs) ==
  UNION {{Always(AgentNode(specs[i].id), Ckpt(specs[i].id)),
          Always(Ckpt(specs[i].id), Exit(specs[i]))}
         \cup (IF specs[i].control = "retry"
               THEN {Back(Exit(specs[i]), AgentNode(specs[i].id))} ELSE {})
         : i \in DOMAIN specs}

\* _compile_pipeline: a chain, in the order of the list.
Pipeline(specs, review) ==
  LET n     == Len(specs)
      step(s, t) == IF s.control = "retry" THEN When(Exit(s), AgentNode(t.id))
                                           ELSE Always(Exit(s), AgentNode(t.id))
      chain == {step(specs[i], specs[i + 1]) : i \in 1 .. n - 1}
  IN  Built(PhaseNodes(specs) \cup (IF review THEN {Review} ELSE {}),
            PhaseEdges(specs) \cup chain
              \cup (IF review THEN {Always(Exit(specs[n]), Review)} ELSE {}))

\* _compile_parallel: every phase between one fork and one merge.
Parallel(specs) ==
  Built(PhaseNodes(specs) \cup {Fork, Merge},
        PhaseEdges(specs)
          \cup {Always(Fork, AgentNode(p)) : p \in Ids(specs)}
          \cup {<<x, "parallel_join", Merge>> : x \in Exits(specs)})

\* _compile_dag: an edge for every dependency on a phase of the list, a fork
\* over several roots and a merge over several leaves.
Dag(specs, review) ==
  LET phases == {specs[i] : i \in DOMAIN specs}
      dep(s) == s.deps \cap Ids(specs)
      next   == {<<s, t>> \in phases \X phases : s.id \in dep(t)}
      roots  == {s \in phases : dep(s) = {}}
      leaves == {s \in phases : \A t \in phases : <<s, t>> \notin next}
      forked == Cardinality(roots) > 1
      merged == Cardinality(leaves) > 1
  IN  Built(PhaseNodes(specs) \cup (IF forked THEN {Fork} ELSE {})
                              \cup (IF merged THEN {Merge} ELSE {}),
            PhaseEdges(specs)
              \cup {Always(Exit(x[1]), AgentNode(x[2].id)) : x \in next}
              \cup (IF forked THEN {Always(Fork, AgentNode(s.id)) : s \in roots} ELSE {})
              \cup (IF merged THEN {<<Exit(s), "parallel_join", Merge>> : s \in leaves}
                              ELSE {}))

\* _compile_roundtable: agents and judging gates in turn behind a loop node,
\* one decision at the end; the phases' own controls are left out.
RoundTable(specs) ==
  LET n       == Len(specs)
      gate(i) == IF i = 0 THEN Loop ELSE <<specs[i].id, "check">>
  IN  Built({Loop, Decision} \cup {AgentNode(p) : p \in Ids(specs)} \cup {gate(i) : i \in 1 .. n},
            UNION {{Always(gate(i - 1), AgentNode(specs[i].id)),
                    Always(AgentNode(specs[i].id), gate(i))} : i \in 1 .. n}
              \cup {Always(gate(n), Decision)})

\* _infer_topology_from_specs: the first phase of the list is not looked at.
IsChain(specs) ==
  \/ \A i \in 2 .. Len(specs) : specs[i].deps = {specs[i - 1].id}
  \/ \A i \in 2 .. Len(specs) : specs[i].deps = {}

\* compile() after the cache.
Compiled(specs, mode, review, strategy) ==
  CASE strategy = "roundtable" -> RoundTable(specs)
    [] strategy # "roundtable" /\ mode = "parallel" -> Parallel(specs)
    [] strategy # "roundtable" /\ mode # "parallel" ->
         IF IsChain(specs) THEN Pipeline(specs, review) ELSE Dag(specs, review)

(***************************************************************************)
(* How a graph runs, as far as the order of its nodes goes: Scheduler of   *)
(* core/graph/runtime.py (GraphScheduler has all of it).                   *)
(***************************************************************************)

\* get_start_nodes, and initialize() when there are none.
FirstNodes(g) ==
  LET in(n)    == {e \in g.edges : e[3] = n}
      start    == {n \in g.nodes : in(n) = {} \/ in(n) = {Always(START, n)}}
      unblocked == {n \in g.nodes : \A e \in in(n) : e[2] = "loop_back"}
  IN  IF start # {} THEN start ELSE unblocked

\* The nodes a run without failures hands out at last, were node x never to
\* be finished: those whose incoming edges, the loop-backs apart, all come
\* from nodes handed out and finished.
Released(g, x) ==
  LET blocking(n) == {e[1] : e \in {f \in g.edges : f[3] = n /\ f[2] # "loop_back"}}
      grow(R) == {n \in g.nodes : blocking(n) # {} /\ blocking(n) \subseteq R \ {x}}
      R[k \in 0 .. Cardinality(g.nodes)] ==
        IF k = 0 THEN FirstNodes(g) ELSE LET r == R[k - 1] IN r \cup grow(r)
  IN  R[Cardinality(g.nodes)]

\* The agent of phase p runs, and it runs only behind node x.
Runs(g, p)       == AgentNode(p) \in Released(g, START)
WaitsFor(g, p, x) == AgentNode(p) \notin Released(g, x)

(***************************************************************************)
(* GraphValidator: what it finds in a graph of these nodes.  (The checks   *)
(* of missing agent ids, routes and the like cannot fail in a graph that   *)
(* the compiler built.)                                                    *)
(***************************************************************************)

\* _bfs_reachable, along the edges
Reachable(g, from) ==
  LET R[k \in 0 .. Cardinality(g.nodes) + 1] ==
        IF k = 0 THEN from
        ELSE LET r == R[k - 1] IN r \cup {e[3] : e \in {f \in g.edges : f[1] \in r}}
  IN  R[Cardinality(g.nodes) + 1]

\* _detect_cycle, as the nodes that are left when those from which every path
\* ends are taken away; loop-backs are edges like the others.
OnEndlessPath(g) ==
  LET R[k \in 0 .. Cardinality(g.nodes)] ==
        IF k = 0 THEN g.nodes
        ELSE LET r == R[k - 1] IN {n \in r : \E e \in g.edges : e[1] = n /\ e[3] \in r}
  IN  R[Cardinality(g.nodes)]

\* _check_connectivity: a graph without nodes, nodes that START does not reach
\* and nodes that do not reach END.
EmptyGraph(g)           == g.nodes = {}
UnreachableFromStart(g) == g.nodes \ Reachable(g, {START})
CannotReachEnd(g)       == {n \in g.nodes : END \notin Reachable(g, {n})}

IsolatedNodes(g) == {n \in g.nodes : \A e \in g.edges : n \notin {e[1], e[3]}}

\* _check_edge_completeness: the ends of every edge exist.
InvalidEdges(g) ==
  {e \in g.edges : {e[1], e[3]} \ (g.nodes \cup {START, END}) # {}}

\* _check_loop_safety: a loop-back wants a loop node as its target, for the
\* retries of a node are never configured and its condition does not count;
\* without loop-backs there must be no cycle.
UnprotectedLoops(g) == {e \in g.edges : e[2] = "loop_back" /\ e[3][2] # "loop"}
ImplicitCycle(g) ==
  (\A e \in g.edges : e[2] # "loop_back") /\ OnEndlessPath(g) # {}

\* _check_termination
NoPathToEnd(g) == END \notin Reachable(g, {START})

\* validate(): the errors that a graph of these nodes can have.
Errors(g) ==
  {k \in {"EMPTY_GRAPH", "INVALID_EDGE", "NO_PATH_TO_END"} :
     \/ k = "EMPTY_GRAPH" /\ EmptyGraph(g)
     \/ k = "INVALID_EDGE" /\ InvalidEdges(g) # {}
     \/ k = "NO_PATH_TO_END" /\ NoPathToEnd(g)}
==============================================================================
