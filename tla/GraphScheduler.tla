--------------------------- MODULE GraphScheduler ---------------------------
(***************************************************************************)
(* The Scheduler of core/graph/runtime.py.  Its five fields are one record *)
(* and each of its methods is an operator from record to record, so that   *)
(* the runtime (GraphRuntime) can apply several of them in one step.       *)
(* SchedulerAlone drives these methods without a router.                   *)
(***************************************************************************)
EXTENDS WorkflowGraph, Integers

\* next() and complete() may meet the end marker as if it were a node: some
\* callers put it into ready.  pending.get(END_NODE_ID, 1) reads as 1.
Id == Node \cup {END_NODE_ID}

SchedulerState == [ready     : SUBSET Id,
                   running   : SUBSET Id,
                   completed : SUBSET Id,
                   failed    : SUBSET Id,
                   pending   : [Id -> Int]]

\* initialize(initial_nodes): in-degrees without the loop-backs; the ready
\* set is the nodes asked for or, when none is asked for, those of in-degree
\* zero and the targets of START.
InitializedFrom(initial, indegree) ==
  LET isStartTarget(n) == \E e \in EdgesTo(n) : e.from_node = START_NODE_ID
      first == IF initial # {}
               THEN initial \cap Node
               ELSE {n \in Node : indegree[n] = 0 \/ isStartTarget(n)}
  IN  [ready     |-> first,
       running   |-> {},
       completed |-> {},
       failed    |-> {},
       pending   |-> [n \in Id |-> IF n \in first THEN 0 ELSE indegree[n]]]

MutInitialize(initial) ==
  InitializedFrom(initial,
    [n \in Id |-> IF n = END_NODE_ID THEN 1
                  ELSE Cardinality({e \in BlockingEdges(n) : e.edge_type # "error"})])

Initialize(initial) ==
  InitializedFrom(initial,
    [n \in Id |-> IF n = END_NODE_ID THEN 1 ELSE Cardinality(BlockingEdges(n))])

\* _find_parallel_group_from: the candidates no other candidate is a direct
\* predecessor or successor of.
Independent(cands) ==
  {n \in cands : \A m \in cands \ {n} : n \notin Successors(m) /\ m \notin Successors(n)}

\* The batches next() may hand out: the parallel group when it has at least
\* two nodes, otherwise the first candidate of a set, that is any of them.
Batches(cands) ==
  IF Cardinality(Independent(cands)) > 1
  THEN {Independent(cands)}
  ELSE {{n} : n \in cands}

\* next(): the batch leaves ready for running.
Dispatched(s, batch) ==
  [s EXCEPT !.ready = @ \ batch, !.running = @ \cup batch]

\* complete(n, True): the targets of the edges that are settled at schedule
\* time lose one unit of in-degree, and are ready when none is left.
MutSucceededUncounted(s, n) ==
  LET released == {e.to_node : e \in {f \in EdgesFrom(n) :
                     f.edge_type \notin {"conditional", "loop_back"}}} \ {END_NODE_ID}
      running   == s.running \ {n}
      completed == s.completed \cup {n}
  IN  [s EXCEPT !.running = running, !.completed = completed,
                !.ready = @ \cup (released \ (completed \cup running))]

MutSucceededKeepsRunning(s, n) == [MutSucceededUncounted(s, n) EXCEPT !.running = s.running]

MutSucceededSkipsJoin(s, n) ==
  LET released == {e.to_node : e \in {f \in EdgesFrom(n) :
                     f.edge_type \notin {"conditional", "loop_back", "parallel_join"}}}
                  \ {END_NODE_ID}
      running   == s.running \ {n}
      completed == s.completed \cup {n}
      pending   == [m \in Id |-> IF m \in released THEN s.pending[m] - 1 ELSE s.pending[m]]
  IN  [s EXCEPT !.running = running, !.completed = completed, !.pending = pending,
                !.ready = @ \cup {m \in released : pending[m] <= 0
                                                    /\ m \notin completed \cup running}]

Succeeded(s, n) ==
  LET released == {e.to_node : e \in {f \in EdgesFrom(n) :
                     f.edge_type \notin {"conditional", "loop_back"}}} \ {END_NODE_ID}
      running   == s.running \ {n}
      completed == s.completed \cup {n}
      pending   == [m \in Id |-> IF m \in released THEN s.pending[m] - 1 ELSE s.pending[m]]
  IN  [s EXCEPT !.running = running, !.completed = completed, !.pending = pending,
                !.ready = @ \cup {m \in released : pending[m] <= 0
                                                    /\ m \notin completed \cup running}]

\* complete(n, False): only the error edges release anything.
MutFailedReleasesAll(s, n) ==
  LET handlers == Successors(n)
      pending  == [m \in Id |-> IF m \in handlers /\ s.pending[m] > 0
                                THEN s.pending[m] - 1 ELSE s.pending[m]]
  IN  [s EXCEPT !.running = @ \ {n}, !.failed = @ \cup {n}, !.pending = pending,
                !.ready = @ \cup {m \in handlers : pending[m] <= 0 /\ m \notin s.completed}]

Failed(s, n) ==
  LET handlers == {e.to_node : e \in {f \in EdgesFrom(n) : f.edge_type = "error"}}
      lowered(m) == IF s.pending[m] > 1 THEN s.pending[m] - 1 ELSE 0
      pending == [m \in Id |-> IF m \in handlers THEN lowered(m) ELSE s.pending[m]]
  IN  [s EXCEPT !.running = @ \ {n}, !.failed = @ \cup {n}, !.pending = pending,
                !.ready = @ \cup {m \in handlers : pending[m] <= 0 /\ m \notin s.completed}]

Completed(s, n, success) == IF success THEN Succeeded(s, n) ELSE Failed(s, n)

\* is_complete and is_deadlocked count the nodes, they do not name them.
IsComplete(s) ==
  /\ Cardinality(s.completed) + Cardinality(s.failed) >= Cardinality(Node)
  /\ s.running = {} /\ s.ready = {}

IsDeadlocked(s) ==
  s.running = {} /\ s.ready = {} /\ ~IsComplete(s)

\* snapshot() leaves running out and restore_from_snapshot() empties it.
MutRestored(s) == [s EXCEPT !.running = {}, !.completed = {}]

Restored(s) == [s EXCEPT !.running = {}]
==============================================================================
