------------------------ MODULE SchedulerAloneProofs ------------------------
(***************************************************************************)
(* Type correctness, join safety and disjointness of the scheduler, and    *)
(* its refinement of DagExecution, for every graph that satisfies          *)
(* GraphAssumption.  The argument rests on one fact about the counters:    *)
(* pending[n] is the number of incoming edges of n that are still open.    *)
(***************************************************************************)
EXTENDS SchedulerAlone, FiniteSetTheorems, TLAPS

\* The edges that still hold n back.
Open(s, n) == {e \in BlockingEdges(n) : ~Through(s, e)}

\* The counter of a node is the number of its open edges.
CountsOpen == \A n \in Node : sched.pending[n] = Cardinality(Open(sched, n))

IInv == TypeOK /\ Disjoint /\ JoinSafe /\ CountsOpen

------------------------------------------------------------------------------
(* Finite sets of edges *)

\* Sets of edges are finite, and a node without open edges counts zero.
LEMMA OpenFinite ==
  ASSUME NEW s, NEW n
  PROVE  /\ IsFiniteSet(BlockingEdges(n))
         /\ IsFiniteSet(Open(s, n))
         /\ Cardinality(Open(s, n)) \in Nat
         /\ Cardinality(Open(s, n)) = 0 <=> Open(s, n) = {}
<1>1. BlockingEdges(n) \subseteq Edges
  BY DEF BlockingEdges, EdgesTo
<1>2. Open(s, n) \subseteq Edges
  BY <1>1 DEF Open
<1>3. IsFiniteSet(BlockingEdges(n)) /\ IsFiniteSet(Open(s, n))
  BY <1>1, <1>2, FS_Subset, GraphAssumption DEF GraphAssumption
<1> QED
  BY <1>3, FS_CardinalityType, FS_EmptySet

\* Closing one open edge lowers the count by one.
LEMMA CloseOne ==
  ASSUME NEW s, NEW n, NEW e \in Open(s, n)
  PROVE  /\ Cardinality(Open(s, n) \ {e}) = Cardinality(Open(s, n)) - 1
         /\ Cardinality(Open(s, n)) > 0
<1>1. IsFiniteSet(Open(s, n)) /\ Cardinality(Open(s, n)) \in Nat
  BY OpenFinite
<1>2. Cardinality(Open(s, n) \ {e}) = Cardinality(Open(s, n)) - 1
  BY <1>1, FS_RemoveElement
<1>3. Open(s, n) # {}
  OBVIOUS
<1> QED
  BY <1>1, <1>2, <1>3, OpenFinite

------------------------------------------------------------------------------
(* The initial state *)

\* A start node has nothing before it but START, and any other node has no
\* edge from START.
LEMMA StartNodesOpen ==
  ASSUME NEW n \in Node, NEW s
  PROVE  /\ n \in StartNodes => Open(s, n) = {}
         /\ (\E e \in EdgesTo(n) : e.from_node = START_NODE_ID) => Open(s, n) = {}
         /\ (\E e \in EdgesTo(n) : e.from_node = START_NODE_ID) => n \in StartNodes
<1>1. ASSUME NEW e \in EdgesTo(n), e.from_node = START_NODE_ID
      PROVE  EdgesTo(n) = {e} /\ e \in Edges
  BY <1>1, GraphAssumption DEF GraphAssumption, EdgesTo
<1> QED
  BY <1>1 DEF StartNodes, Open, BlockingEdges, Through, EdgesTo

\* initialize() establishes the invariant: what it makes ready has nothing
\* before it, and elsewhere nothing is through yet.
LEMMA InitIInv == Init => IInv
<1> SUFFICES ASSUME Init PROVE IInv
  OBVIOUS
<1> DEFINE indegree == [n \in Id |-> IF n = END_NODE_ID THEN 1 ELSE Cardinality(BlockingEdges(n))]
           isStartTarget(n) == \E e \in EdgesTo(n) : e.from_node = START_NODE_ID
           first == IF StartNodes # {}
                    THEN StartNodes \cap Node
                    ELSE {n \in Node : indegree[n] = 0 \/ isStartTarget(n)}
<1>1. sched = [ready |-> first, running |-> {}, completed |-> {}, failed |-> {},
               pending |-> [n \in Id |-> IF n \in first THEN 0 ELSE indegree[n]]]
  BY DEF Init, Initialize, InitializedFrom
<1>2. first \subseteq Node
  OBVIOUS
<1>3. \A n \in Node : n \in Id /\ n # END_NODE_ID
  BY GraphAssumption DEF GraphAssumption, Id
<1>4. \A n \in Id : indegree[n] \in Nat
  BY OpenFinite, FS_CardinalityType
<1>5. \A n \in first : Open(sched, n) = {}
  <2>1. ASSUME NEW n \in Node, indegree[n] = 0 PROVE Open(sched, n) = {}
    <3>1. Cardinality(BlockingEdges(n)) = 0
      BY <2>1, <1>3
    <3>2. BlockingEdges(n) = {}
      BY <3>1, OpenFinite, FS_EmptySet
    <3> QED
      BY <3>2 DEF Open
  <2> QED
    BY <2>1, StartNodesOpen
<1>6. \A n \in Node \ first : Open(sched, n) = BlockingEdges(n)
  <2> SUFFICES ASSUME NEW n \in Node \ first, NEW e \in BlockingEdges(n)
               PROVE  ~Through(sched, e)
    BY DEF Open
  <2>1. e \in EdgesTo(n)
    BY DEF BlockingEdges
  <2>2. e.from_node # START_NODE_ID
    BY <2>1, StartNodesOpen
  <2> QED
    BY <2>2, <1>1 DEF Through
<1>7. TypeOK
  <2>1. sched.pending \in [Id -> Int]
    BY <1>1, <1>4
  <2>2. sched \in SchedulerState
    BY <1>1, <1>2, <2>1 DEF SchedulerState, Id
  <2> QED
    BY <1>1, <1>3, <1>4, <2>2 DEF TypeOK
<1>8. Disjoint
  BY <1>1 DEF Disjoint
<1>9. JoinSafe
  BY <1>1, <1>5 DEF JoinSafe, Open
<1>10. CountsOpen
  <2> SUFFICES ASSUME NEW n \in Node PROVE sched.pending[n] = Cardinality(Open(sched, n))
    BY DEF CountsOpen
  <2>1. CASE n \in first
    BY <2>1, <1>1, <1>3, <1>5, FS_EmptySet
  <2>2. CASE n \notin first
    BY <2>2, <1>1, <1>3, <1>6
  <2> QED
    BY <2>1, <2>2
<1> QED
  BY <1>7, <1>8, <1>9, <1>10 DEF IInv
------------------------------------------------------------------------------
(* next() *)

\* A batch is taken from the candidates.
LEMMA BatchesSubset ==
  ASSUME NEW cands, NEW batch \in Batches(cands)
  PROVE  batch \subseteq cands
BY DEF Batches, Independent

\* Handing out a batch disturbs no counter and opens no edge.
LEMMA DispatchIInv == IInv /\ Next_Dispatch => IInv'
<1> SUFFICES ASSUME IInv, Next_Dispatch PROVE IInv'
  OBVIOUS
<1>1. PICK batch \in SUBSET sched.ready : sched' = Dispatched(sched, batch)
  BY BatchesSubset DEF Next_Dispatch
<1>2. sched \in SchedulerState
  BY DEF IInv, TypeOK
<1>3. /\ sched'.ready = sched.ready \ batch
      /\ sched'.running = sched.running \cup batch
      /\ sched'.completed = sched.completed
      /\ sched'.failed = sched.failed
      /\ sched'.pending = sched.pending
      /\ sched' \in SchedulerState
  BY <1>1, <1>2 DEF SchedulerState, Dispatched
<1>4. \A e : Through(sched', e) <=> Through(sched, e)
  BY <1>3 DEF Through
<1>5. TypeOK'
  BY <1>3 DEF IInv, TypeOK
<1>6. Disjoint'
  BY <1>3 DEF IInv, Disjoint
<1>7. JoinSafe'
  BY <1>3, <1>4 DEF IInv, JoinSafe
<1>8. CountsOpen'
  <2>1. \A n : Open(sched', n) = Open(sched, n)
    BY <1>4 DEF Open
  <2> QED
    BY <2>1, <1>3 DEF IInv, CountsOpen
<1> QED
  BY <1>5, <1>6, <1>7, <1>8 DEF IInv

------------------------------------------------------------------------------
(* complete() *)

\* An edge out of a running node holds its target back: the target has not
\* been reached yet, and the edge is the only one between the two.
LEMMA RunningHoldsBack ==
  ASSUME IInv, NEW n \in sched.running, NEW e \in EdgesFrom(n),
         e.edge_type # "loop_back", e.to_node \in Node
  PROVE  /\ n \in Node
         /\ e \in Open(sched, e.to_node)
         /\ e.to_node \notin sched.ready \cup sched.running \cup sched.completed \cup sched.failed
         /\ \A f \in EdgesFrom(n) : f.to_node = e.to_node => f = e
<1>1. e \in Edges /\ e.from_node = n
  BY DEF EdgesFrom
<1>2. n \in Node
  BY <1>1, GraphAssumption DEF GraphAssumption, Edge, IInv, TypeOK, SchedulerState, Id
<1>3. n \notin sched.completed /\ n \notin sched.failed /\ n # START_NODE_ID
  BY <1>2, GraphAssumption DEF GraphAssumption, IInv, Disjoint
<1>4. e \in BlockingEdges(e.to_node) /\ ~Through(sched, e)
  BY <1>1, <1>3 DEF BlockingEdges, EdgesTo, Through
<1>5. e.to_node \notin sched.ready \cup sched.running \cup sched.completed \cup sched.failed
  BY <1>4 DEF IInv, JoinSafe
<1>6. \A f \in EdgesFrom(n) : f.to_node = e.to_node => f = e
  BY <1>1, GraphAssumption DEF GraphAssumption, EdgesFrom
<1> QED
  BY <1>2, <1>4, <1>5, <1>6 DEF Open

\* When n ends and lets the edges C through, their targets lose one open edge
\* each and every other node none.
LEMMA EndingCloses ==
  ASSUME IInv, NEW n \in sched.running, NEW t, NEW C \in SUBSET EdgesFrom(n),
         \A e \in C : e.edge_type # "loop_back",
         \A e \in Edges : e.edge_type # "loop_back"
                          => (Through(t, e) <=> Through(sched, e) \/ e \in C),
         NEW m \in Node
  PROVE  /\ \A e \in C : e.to_node = m => Open(t, m) = Open(sched, m) \ {e}
         /\ (\A e \in C : e.to_node # m) => Open(t, m) = Open(sched, m)
<1>1. \A e \in BlockingEdges(m) : e \in Edges /\ e.to_node = m /\ e.edge_type # "loop_back"
  BY DEF BlockingEdges, EdgesTo
<1>2. \A e : e \in Open(t, m) <=> e \in Open(sched, m) /\ e \notin C
  BY <1>1 DEF Open
<1>3. \A e \in Open(sched, m) : e.to_node = m
  BY <1>1 DEF Open
<1>4. ASSUME NEW e \in C, e.to_node = m PROVE \A f \in C : f.to_node = m => f = e
  BY <1>4, RunningHoldsBack
<1> QED
  BY <1>2, <1>3, <1>4

\* What both outcomes of complete() have in common: n leaves running for
\* completed or failed, the edges C get through and their targets lose one
\* unit of in-degree, and of the targets exactly those with none left are
\* made ready.
LEMMA EndingIInv ==
  ASSUME IInv, NEW n \in sched.running, sched' \in SchedulerState,
         NEW C \in SUBSET EdgesFrom(n),
         \A e \in C : e.edge_type # "loop_back",
         \A e \in Edges : e.edge_type # "loop_back"
                          => (Through(sched', e) <=> Through(sched, e) \/ e \in C),
         \/ sched'.completed = sched.completed \cup {n} /\ sched'.failed = sched.failed
         \/ sched'.failed = sched.failed \cup {n} /\ sched'.completed = sched.completed,
         sched'.running = sched.running \ {n},
         \A m \in Node : sched'.pending[m] = IF \E e \in C : e.to_node = m
                                             THEN sched.pending[m] - 1 ELSE sched.pending[m],
         sched.ready \subseteq sched'.ready,
         \A m \in Node \cap (sched'.ready \ sched.ready) :
            (\E e \in C : e.to_node = m) /\ sched'.pending[m] <= 0
  PROVE  IInv'
<1>1. /\ sched \in SchedulerState
      /\ \A m \in Node : sched.pending[m] \in Nat
      /\ \A m \in Node : sched.pending[m] = Cardinality(Open(sched, m))
  BY DEF IInv, TypeOK, CountsOpen
<1>2. ASSUME NEW m \in Node, NEW e \in C, e.to_node = m
      PROVE  /\ Open(sched', m) = Open(sched, m) \ {e}
             /\ sched'.pending[m] = Cardinality(Open(sched', m))
             /\ sched'.pending[m] \in Nat
             /\ m \notin sched.ready \cup sched.running \cup sched.completed \cup sched.failed
             /\ m # n
  <2>1. Open(sched', m) = Open(sched, m) \ {e}
    BY <1>2, EndingCloses
  <2>2. e \in Open(sched, m)
        /\ m \notin sched.ready \cup sched.running \cup sched.completed \cup sched.failed
    BY <1>2, RunningHoldsBack
  <2>3. sched'.pending[m] = sched.pending[m] - 1
    BY <1>2
  <2>4. /\ Cardinality(Open(sched, m) \ {e}) = Cardinality(Open(sched, m)) - 1
        /\ Cardinality(Open(sched, m)) > 0
    BY <2>2, CloseOne
  <2>5. sched.pending[m] = Cardinality(Open(sched, m)) /\ sched.pending[m] \in Nat
    BY <1>1
  <2> QED
    BY <2>1, <2>2, <2>3, <2>4, <2>5
<1>3. ASSUME NEW m \in Node, \A e \in C : e.to_node # m
      PROVE  /\ Open(sched', m) = Open(sched, m)
             /\ sched'.pending[m] = Cardinality(Open(sched', m))
             /\ sched'.pending[m] \in Nat
             /\ m \in sched'.ready <=> m \in sched.ready
  <2>1. Open(sched', m) = Open(sched, m)
    BY <1>3, EndingCloses
  <2>2. sched'.pending[m] = sched.pending[m]
    BY <1>3
  <2> QED
    BY <2>1, <2>2, <1>1, <1>3
<1>4. TypeOK'
  BY <1>2, <1>3 DEF TypeOK
<1>5. CountsOpen'
  BY <1>2, <1>3 DEF CountsOpen
<1>6. Disjoint'
  <2> SUFFICES ASSUME NEW m \in Node
      PROVE  /\ ~(m \in sched'.ready /\ m \in sched'.running)
             /\ m \in sched'.ready \cup sched'.running => m \notin sched'.completed \cup sched'.failed
             /\ ~(m \in sched'.completed /\ m \in sched'.failed)
    BY DEF Disjoint
  <2>1. /\ ~(m \in sched.ready /\ m \in sched.running)
        /\ m \in sched.ready \cup sched.running => m \notin sched.completed \cup sched.failed
        /\ ~(m \in sched.completed /\ m \in sched.failed)
    BY DEF IInv, Disjoint
  <2>2. CASE \E e \in C : e.to_node = m
    BY <2>1, <2>2, <1>2
  <2>3. CASE \A e \in C : e.to_node # m
    BY <2>1, <2>3, <1>3
  <2> QED
    BY <2>2, <2>3
<1>7. JoinSafe'
  <2> SUFFICES ASSUME NEW m \in Node,
                      m \in sched'.ready \cup sched'.running \cup sched'.completed \cup sched'.failed
               PROVE  Open(sched', m) = {}
    BY DEF JoinSafe, Open
  <2>1. CASE m \in sched.ready \cup sched.running \cup sched.completed \cup sched.failed
    <3>1. Open(sched, m) = {}
      BY <2>1 DEF IInv, JoinSafe, Open
    <3>2. \A e \in C : e.to_node # m
      BY <2>1, <1>2
    <3> QED
      BY <3>1, <3>2, <1>3
  <2>2. CASE m \notin sched.ready \cup sched.running \cup sched.completed \cup sched.failed
    <3>1. m \in sched'.ready \ sched.ready
      BY <2>2
    <3>2. PICK e \in C : e.to_node = m
      BY <3>1
    <3>3. sched'.pending[m] <= 0
      BY <3>1
    <3>4. Cardinality(Open(sched', m)) = 0
      BY <3>2, <3>3, <1>2
    <3> QED
      BY <3>4, OpenFinite
  <2> QED
    BY <2>1, <2>2
<1> QED
  BY <1>4, <1>5, <1>6, <1>7 DEF IInv

\* Success lets every edge through but the conditional ones.
LEMMA SucceededIInv ==
  ASSUME IInv, NEW n \in sched.running, n # END_NODE_ID, sched' = Succeeded(sched, n)
  PROVE  IInv'
<1> DEFINE C == {f \in EdgesFrom(n) : f.edge_type \notin {"conditional", "loop_back"}}
           released == {e.to_node : e \in C} \ {END_NODE_ID}
           pending == [m \in Id |-> IF m \in released THEN sched.pending[m] - 1
                                                      ELSE sched.pending[m]]
           new == {m \in released : pending[m] <= 0
                                    /\ m \notin (sched.completed \cup {n}) \cup (sched.running \ {n})}
<1>1. sched \in SchedulerState /\ n \in Node /\ END_NODE_ID \notin Node
  BY GraphAssumption DEF GraphAssumption, IInv, TypeOK, SchedulerState, Id
<1>2. released \subseteq Node /\ new \subseteq released
  BY GraphAssumption DEF GraphAssumption, EdgesFrom, Edge
<1>3. pending \in [Id -> Int]
  BY <1>1 DEF SchedulerState
<1>4. sched' = [sched EXCEPT !.running = sched.running \ {n},
                             !.completed = sched.completed \cup {n},
                             !.pending = pending,
                             !.ready = sched.ready \cup new]
  BY DEF Succeeded
<1>5. \A m \in Node : m \in released <=> \E e \in C : e.to_node = m
  BY <1>1
<1>6. \A m \in Node : pending[m] = IF m \in released THEN sched.pending[m] - 1
                                                     ELSE sched.pending[m]
  BY DEF Id
<1>7. \A m \in new : pending[m] <= 0
  OBVIOUS
<1> HIDE DEF new, pending, released
<1>8. /\ sched'.ready = sched.ready \cup new
      /\ sched'.running = sched.running \ {n}
      /\ sched'.completed = sched.completed \cup {n}
      /\ sched'.failed = sched.failed
      /\ sched'.pending = pending
      /\ sched' \in SchedulerState
  <2>1. /\ sched.running \ {n} \in SUBSET Id /\ sched.completed \cup {n} \in SUBSET Id
        /\ sched.ready \cup new \in SUBSET Id
    BY <1>1, <1>2 DEF SchedulerState, Id
  <2> QED BY <1>1, <1>3, <1>4, <2>1 DEF SchedulerState
<1>9. \A e \in Edges : e.edge_type # "loop_back"
                       => (Through(sched', e) <=> Through(sched, e) \/ e \in C)
  BY <1>8 DEF Through, EdgesFrom
<1>10. C \in SUBSET EdgesFrom(n) /\ \A e \in C : e.edge_type # "loop_back"
  OBVIOUS
<1> HIDE DEF C
<1> QED
  BY <1>2, <1>5, <1>6, <1>7, <1>8, <1>9, <1>10, EndingIInv

\* Failure lets only the error edges through.  The counter of a handler is
\* not zero before, so the lower bound the code puts on it is never reached.
LEMMA FailedIInv ==
  ASSUME IInv, NEW n \in sched.running, n # END_NODE_ID, sched' = Failed(sched, n)
  PROVE  IInv'
<1> DEFINE C == {f \in EdgesFrom(n) : f.edge_type = "error"}
           handlers == {e.to_node : e \in C}
           lowered(m) == IF sched.pending[m] > 1 THEN sched.pending[m] - 1 ELSE 0
           pending == [m \in Id |-> IF m \in handlers THEN lowered(m) ELSE sched.pending[m]]
           new == {m \in handlers : pending[m] <= 0 /\ m \notin sched.completed}
<1>1. sched \in SchedulerState /\ n \in Node /\ \A m \in Node : sched.pending[m] \in Nat
  BY DEF IInv, TypeOK, SchedulerState, Id
<1>2. handlers \subseteq Id /\ new \subseteq handlers
  BY GraphAssumption DEF GraphAssumption, EdgesFrom, Edge, Id
<1>3. pending \in [Id -> Int]
  BY <1>1 DEF SchedulerState
<1>4. sched' = [sched EXCEPT !.running = sched.running \ {n},
                             !.failed = sched.failed \cup {n},
                             !.pending = pending,
                             !.ready = sched.ready \cup new]
  BY DEF Failed
<1>5. \A m \in Node : m \in handlers <=> \E e \in C : e.to_node = m
  OBVIOUS
<1>6. ASSUME NEW m \in Node
      PROVE  pending[m] = IF m \in handlers THEN sched.pending[m] - 1 ELSE sched.pending[m]
  <2>1. CASE m \in handlers
    <3>1. PICK e \in C : e.to_node = m
      BY <2>1
    <3>2. e \in Open(sched, m)
      BY <3>1, RunningHoldsBack
    <3>3. sched.pending[m] > 0
      BY <3>2, CloseOne DEF IInv, CountsOpen
    <3> QED
      BY <3>3, <2>1, <1>1 DEF Id
  <2>2. CASE m \notin handlers
    BY <2>2 DEF Id
  <2> QED
    BY <2>1, <2>2
<1>7. \A m \in new : pending[m] <= 0
  OBVIOUS
<1> HIDE DEF new, pending, handlers
<1>8. /\ sched'.ready = sched.ready \cup new
      /\ sched'.running = sched.running \ {n}
      /\ sched'.completed = sched.completed
      /\ sched'.failed = sched.failed \cup {n}
      /\ sched'.pending = pending
      /\ sched' \in SchedulerState
  <2>1. /\ sched.running \ {n} \in SUBSET Id /\ sched.failed \cup {n} \in SUBSET Id
        /\ sched.ready \cup new \in SUBSET Id
    BY <1>1, <1>2 DEF SchedulerState, Id
  <2> QED BY <1>1, <1>3, <1>4, <2>1 DEF SchedulerState
<1>9. \A e \in Edges : e.edge_type # "loop_back"
                       => (Through(sched', e) <=> Through(sched, e) \/ e \in C)
  BY <1>8 DEF Through, EdgesFrom
<1>10. C \in SUBSET EdgesFrom(n) /\ \A e \in C : e.edge_type # "loop_back"
  OBVIOUS
<1> HIDE DEF C
<1> QED
  BY <1>2, <1>5, <1>6, <1>7, <1>8, <1>9, <1>10, EndingIInv

\* The end marker has no edge out of it, so its failure releases nothing.
LEMMA EndFailedIInv ==
  ASSUME IInv, END_NODE_ID \in sched.running, sched' = Failed(sched, END_NODE_ID)
  PROVE  IInv'
<1>1. EdgesFrom(END_NODE_ID) = {}
  BY GraphAssumption DEF GraphAssumption, EdgesFrom, Edge
<1>2. sched \in SchedulerState /\ END_NODE_ID \notin Node /\ \A m \in Node : m \in Id
  BY GraphAssumption DEF GraphAssumption, IInv, TypeOK, Id
<1>3. sched' = [sched EXCEPT !.running = sched.running \ {END_NODE_ID},
                             !.failed = sched.failed \cup {END_NODE_ID},
                             !.pending = [m \in Id |-> sched.pending[m]],
                             !.ready = sched.ready]
  BY <1>1 DEF Failed
<1>4. /\ sched'.ready = sched.ready
      /\ sched'.running = sched.running \ {END_NODE_ID}
      /\ sched'.completed = sched.completed
      /\ sched'.failed = sched.failed \cup {END_NODE_ID}
      /\ sched'.pending = sched.pending
      /\ sched' \in SchedulerState
  BY <1>2, <1>3 DEF SchedulerState, Id
<1>5. \A e \in Edges : Through(sched', e) <=> Through(sched, e)
  BY <1>1, <1>4 DEF Through, EdgesFrom
<1>6. \A m \in Node : /\ \A e \in BlockingEdges(m) : e \in Edges
                      /\ Open(sched', m) = Open(sched, m)
  BY <1>5 DEF Open, BlockingEdges, EdgesTo
<1>7. TypeOK'
  BY <1>4 DEF IInv, TypeOK
<1>8. Disjoint'
  BY <1>2, <1>4 DEF IInv, Disjoint
<1>9. JoinSafe'
  BY <1>2, <1>4, <1>5, <1>6 DEF IInv, JoinSafe
<1>10. CountsOpen'
  BY <1>4, <1>6 DEF IInv, CountsOpen
<1> QED
  BY <1>7, <1>8, <1>9, <1>10 DEF IInv

------------------------------------------------------------------------------
(* The theorems *)

\* Every call of next() and complete() preserves the invariant.
LEMMA NextIInv == IInv /\ [Next]_sched => IInv'
<1> SUFFICES ASSUME IInv, [Next]_sched PROVE IInv'
  OBVIOUS
<1>1. CASE Next_Dispatch
  BY <1>1, DispatchIInv
<1>2. ASSUME NEW n \in Id, NEW success \in BOOLEAN, Next_Complete(n, success)
      PROVE  IInv'
  <2>1. n \in sched.running /\ sched' = IF success THEN Succeeded(sched, n) ELSE Failed(sched, n)
    BY <1>2 DEF Next_Complete, Completed
  <2>2. CASE n = END_NODE_ID
    BY <2>1, <2>2, <1>2, EndFailedIInv DEF Next_Complete
  <2>3. CASE n # END_NODE_ID /\ success
    BY <2>1, <2>3, SucceededIInv
  <2>4. CASE n # END_NODE_ID /\ ~success
    BY <2>1, <2>4, FailedIInv
  <2> QED
    BY <2>2, <2>3, <2>4
<1>3. CASE UNCHANGED sched
  BY <1>3 DEF IInv, TypeOK, Disjoint, JoinSafe, CountsOpen, Open, Through
<1> QED
  BY <1>1, <1>2, <1>3 DEF Next

\* The strengthened invariant holds throughout: the counter of every node is
\* the number of its incoming edges that are still open.
THEOREM Invariance == Spec => []IInv
<1>1. Init => IInv
  BY InitIInv
<1>2. IInv /\ [Next]_sched => IInv'
  BY NextIInv
<1> QED
  BY <1>1, <1>2, PTL DEF Spec

\* No in-degree counter of a node ever goes below zero, in any graph: no edge
\* is counted twice by initialize() and complete().
THEOREM TypeCorrect == Spec => []TypeOK
<1>1. IInv => TypeOK
  BY DEF IInv
<1> QED
  BY <1>1, Invariance, PTL

\* In any graph no node is ready, running or ended before every edge into it
\* is through: the in-degree counters of complete() do enforce the join.
THEOREM JoinSafety == Spec => []JoinSafe
<1>1. IInv => JoinSafe
  BY DEF IInv
<1> QED
  BY <1>1, Invariance, PTL

\* In any graph the sets of the scheduler do not overlap on a node, so none is
\* handed out twice and is_complete counts each once.
THEOREM Disjointness == Spec => []Disjoint
<1>1. IInv => Disjoint
  BY DEF IInv
<1> QED
  BY <1>1, Invariance, PTL

\* In any graph the scheduler implements DagExecution: each of its steps
\* starts a batch all of whose edges are through, ends one started node, or
\* changes nothing the abstract execution sees.
THEOREM Refinement == Spec => ImplementsDag
<1>1. Init => Dag!DagInit
  <2> SUFFICES ASSUME Init PROVE Dag!DagInit
    OBVIOUS
  <2>1. sched.running = {} /\ sched.completed = {} /\ sched.failed = {}
    BY DEF Init, Initialize, InitializedFrom
  <2> QED
    BY <2>1 DEF Dag!DagInit
<1>2. IInv /\ [Next]_sched => [Dag!DagNext]_(Dag!dagVars)
  <2> SUFFICES ASSUME IInv, [Next]_sched PROVE [Dag!DagNext]_(Dag!dagVars)
    OBVIOUS
  <2>1. sched \in SchedulerState
    BY DEF IInv, TypeOK
  <2>2. CASE Next_Dispatch
    <3>1. PICK batch \in SUBSET sched.ready : sched' = Dispatched(sched, batch)
      BY <2>2, BatchesSubset DEF Next_Dispatch
    <3>2. /\ sched'.running = sched.running \cup batch
          /\ sched'.completed = sched.completed
          /\ sched'.failed = sched.failed
      BY <2>1, <3>1 DEF SchedulerState, Dispatched
    <3> DEFINE taken == batch \cap Node
               started == (sched.running \cup sched.completed \cup sched.failed) \cap Node
    <3>3. taken \in SUBSET (Node \ started)
      BY DEF IInv, Disjoint
    <3>4. ASSUME NEW n \in taken, NEW e \in Dag!BlockingEdges(n) PROVE Dag!IsThrough(e)
      <4>1. e \in BlockingEdges(n) /\ e \in Edges
        BY DEF Dag!BlockingEdges, Dag!EdgesTo, BlockingEdges, EdgesTo
      <4>2. Through(sched, e)
        BY <4>1 DEF IInv, JoinSafe
      <4>3. e.from_node \in Node \cup {START_NODE_ID}
        BY <4>1, GraphAssumption DEF GraphAssumption, Edge
      <4> QED
        BY <4>2, <4>3 DEF Through, Dag!IsThrough
    <3>5. ((sched'.running \cup sched'.completed \cup sched'.failed) \cap Node) = started \cup taken
      BY <3>2
    <3> QED
      BY <3>2, <3>3, <3>4, <3>5 DEF Dag!DagNext, Dag!Start
  <2>3. ASSUME NEW n \in Id, NEW success \in BOOLEAN, Next_Complete(n, success)
        PROVE  [Dag!DagNext]_(Dag!dagVars)
    <3>1. /\ n \in sched.running
          /\ n = END_NODE_ID => ~success
          /\ sched'.running = sched.running \ {n}
          /\ IF success
             THEN sched'.completed = sched.completed \cup {n} /\ sched'.failed = sched.failed
             ELSE sched'.completed = sched.completed /\ sched'.failed = sched.failed \cup {n}
      BY <2>1, <2>3 DEF Next_Complete, Completed, Succeeded, Failed, SchedulerState
    <3>2. CASE n \in Node
      <4>1. n \notin sched.completed \cup sched.failed
        BY <3>1, <3>2 DEF IInv, Disjoint
      <4>2. Dag!End(n)
        BY <3>1, <3>2, <4>1 DEF Dag!End
      <4> QED
        BY <3>2, <4>2 DEF Dag!DagNext
    <3>3. CASE n \notin Node
      <4>1. n = END_NODE_ID
        BY <3>3 DEF Id
      <4> QED
        BY <3>1, <3>3, <4>1 DEF Dag!dagVars
    <3> QED
      BY <3>2, <3>3
  <2>4. CASE UNCHANGED sched
    BY <2>4 DEF Dag!dagVars
  <2> QED
    BY <2>2, <2>3, <2>4 DEF Next
<1> QED
  BY <1>1, <1>2, Invariance, PTL DEF Spec, ImplementsDag, Dag!DagSpec
==============================================================================
