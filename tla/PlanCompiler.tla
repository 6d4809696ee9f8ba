----------------------------- MODULE PlanCompiler -----------------------------
(***************************************************************************)
(* From an answer of the planning model to the graph that runs.  The       *)
(* answer becomes tasks with dependencies (core/orchestration/decomposer), *)
(* is put in layers, validated, criticised and refined (plan_validator,    *)
(* plan_critic, plan_refiner, planner.plan_agent_order), turned into phase *)
(* specs (core/run/phase_spec, plan_spec) and compiled, behind a cache     *)
(* (core/run/template_compiler).  There are three ways to the compiler:    *)
(*   "auto"      a run without a plan: specs in the order of the layers    *)
(*   "saved"     a stored plan: specs in the order of the model's list     *)
(*   "template"  the phases of a template, with a mode of its own          *)
(* The graphs and the operators on them are in CompiledGraph.              *)
(***************************************************************************)
EXTENDS CompiledGraph

CONSTANTS
  List,      \* ids of the tasks, in the order the model lists them
  MaxTasks,  \* max_sub_tasks: the tasks kept
  NULL

Task == {List[i] : i \in DOMAIN List}

VARIABLES
  stage,    \* "idle", "drafted", "ready" or "compiled"
  plan,     \* [tasks, deps, control]: the decomposition; tasks is a sequence
  layers,   \* execution_order: a sequence of sets of tasks
  refined,  \* a refinement replaced the tasks
  request,  \* [source, specs, mode, review, strategy]: what compile() gets
  cache,    \* _COMPILE_CACHE: key -> graph
  graph     \* the compiled graph

vars == <<stage, plan, layers, refined, request, cache, graph>>

Init ==
  /\ stage = "idle"
  /\ plan = NULL /\ layers = <<>> /\ refined = FALSE
  /\ request = NULL /\ cache = <<>> /\ graph = NULL

TaskSet(p) == {p.tasks[i] : i \in DOMAIN p.tasks}

(***************************************************************************)
(* Decomposition                                                           *)
(***************************************************************************)

\* _topological_sort: each layer holds the tasks whose dependencies are all
\* in earlier ones; when there is none, everything left is one layer.
Ready(p, done) == {t \in TaskSet(p) \ done : p.deps[t] \subseteq done}

Layers(p) ==
  LET n == Len(p.tasks)
      done[i \in 0 .. n] ==
        IF i = 0 THEN {}
        ELSE LET d == done[i - 1]
             IN  IF Ready(p, d) = {} THEN TaskSet(p) ELSE d \cup Ready(p, d)
      last == CHOOSE i \in 0 .. n : done[i] = TaskSet(p) /\ \A j \in 0 .. i - 1 : done[j] # TaskSet(p)
  IN  [i \in 1 .. last |-> done[i] \ done[i - 1]]

\* infer_collaboration_strategy: reviewing tasks and the last one retry.  (Of
\* the others only the first is tried as a reviewing one.)
Inferred(tasks, reviewing) ==
  [t \in {tasks[i] : i \in DOMAIN tasks} |->
     IF t \in reviewing \/ t = tasks[Len(tasks)] THEN "retry" ELSE "check"]

\* decompose: dependencies are resolved among all the tasks of the answer and
\* then the list is cut, so a kept task may depend on one that is not.
Decompose ==
  /\ stage = "idle"
  /\ \E n \in 1 .. Len(List) :
       LET tasks == SubSeq(List, 1, IF n < MaxTasks THEN n ELSE MaxTasks)
           kept  == {tasks[i] : i \in DOMAIN tasks}
       IN  \E deps \in [kept -> SUBSET {List[i] : i \in 1 .. n}], reviewing \in {{}, {List[1]}} :
             plan' = [tasks |-> tasks, deps |-> deps, control |-> Inferred(tasks, reviewing)]
  /\ layers' = Layers(plan')
  /\ stage' = "drafted"
  /\ UNCHANGED <<refined, request, cache, graph>>

(***************************************************************************)
(* Validation and refinement                                               *)
(***************************************************************************)

\* _has_cycle, by Kahn's algorithm: the tasks it takes off are all of them
\* or not.
MutAcyclic(p) == \A t \in TaskSet(p) : \A d \in p.deps[t] : t \notin p.deps[d]

Acyclic(p) ==
  LET n == Len(p.tasks)
      off[i \in 0 .. n] ==
        IF i = 0 THEN {} ELSE LET o == off[i - 1] IN o \cup Ready(p, o)
  IN  off[n] = TaskSet(p)

\* validate_plan(candidate): dependencies on other tasks of the plan only, no
\* cycle, and layers that hold the tasks of the plan.
Valid(p, ls) ==
  /\ \A t \in TaskSet(p) : p.deps[t] \subseteq TaskSet(p) \ {t}
  /\ Acyclic(p)
  /\ UNION {ls[i] : i \in DOMAIN ls} = TaskSet(p)

\* critique_plan found something and refine_plan answered: the new tasks are
\* taken, with the layers of the old ones, if that is a valid plan.
Refine ==
  /\ stage = "drafted" /\ ~refined
  /\ Valid(plan, layers)
  /\ \E n \in 1 .. Len(plan.tasks) :
       LET tasks == SubSeq(plan.tasks, 1, n)
           kept  == {tasks[i] : i \in DOMAIN tasks}
       IN  \E deps \in [kept -> SUBSET kept], control \in {plan.control, [t \in Task |-> "human"]} :
             LET new == [tasks |-> tasks, deps |-> deps, control |-> [t \in kept |-> control[t]]]
             IN  /\ plan' = IF Valid(new, layers) THEN new ELSE plan
                 /\ refined' = Valid(new, layers)
  /\ UNCHANGED <<stage, layers, request, cache, graph>>

(***************************************************************************)
(* Specs                                                                   *)
(***************************************************************************)

Spec1(p, t) == [id |-> t, deps |-> p.deps[t], control |-> p.control[t]]

MutFlatOrders(ls, tasks) == {s \in [1 .. Cardinality(tasks) -> tasks] : \A t \in tasks : \E i \in DOMAIN s : s[i] = t}

\* The orders PhaseSpec.from_plan may put the tasks in: layer by layer, in
\* any order within a layer (each is listed from a set).
FlatOrders(ls, tasks) ==
  {s \in [1 .. Cardinality(tasks) -> tasks] :
     \A i, j \in DOMAIN s : i < j =>
       /\ s[i] # s[j]
       /\ \E a, b \in DOMAIN ls : a <= b /\ s[i] \in ls[a] /\ s[j] \in ls[b]}

\* resolve_run_plan with auto_plan, and from_request: an invalid plan is used
\* like a valid one.
AutoPlan ==
  /\ stage = "drafted"
  /\ \E order \in FlatOrders(layers, TaskSet(plan)), review \in BOOLEAN,
        strategy \in {"", "roundtable"} :
       request' = [source   |-> "auto",
                   specs    |-> [i \in DOMAIN order |-> Spec1(plan, order[i])],
                   mode     |-> "sequential", review |-> review, strategy |-> strategy]
  /\ stage' = "ready"
  /\ UNCHANGED <<plan, layers, refined, cache, graph>>

\* _infer_mode_from_layers
InferredMode ==
  IF \A i \in DOMAIN layers : Cardinality(layers[i]) = 1 THEN "sequential"
  ELSE IF Len(layers) = 1 THEN "parallel" ELSE "dag"

\* plan_agent_order_stream offers the tasks in the order of the list, with
\* that mode; the plan is stored and compile_from_plan takes it from there.
SavedPlan ==
  /\ stage = "drafted"
  /\ \E review \in BOOLEAN :
       request' = [source   |-> "saved",
                   specs    |-> [i \in DOMAIN plan.tasks |-> Spec1(plan, plan.tasks[i])],
                   mode     |-> InferredMode, review |-> review, strategy |-> ""]
  /\ stage' = "ready"
  /\ UNCHANGED <<plan, layers, refined, cache, graph>>

\* parse_phases_from_template: phases written by hand, here a chain, and the
\* pattern of the template as the mode.
Template ==
  /\ stage = "idle"
  /\ \E n \in 1 .. MaxTasks, control \in [1 .. MaxTasks -> Control],
        mode \in {"sequential", "parallel"}, review \in BOOLEAN :
       request' = [source   |-> "template",
                   specs    |-> [i \in 1 .. n |->
                                   [id |-> List[i], control |-> control[i],
                                    deps |-> IF i = 1 THEN {} ELSE {List[i - 1]}]],
                   mode     |-> mode, review |-> review, strategy |-> ""]
  /\ stage' = "ready"
  /\ UNCHANGED <<plan, layers, refined, cache, graph>>

(***************************************************************************)
(* Compilation                                                             *)
(***************************************************************************)

\* _make_cache_key: the mode is always "auto"
Key(r) == <<r.source, r.specs, r.review, r.strategy>>

Compile ==
  /\ stage = "ready"
  /\ graph' = IF Key(request) \in DOMAIN cache
              THEN cache[Key(request)]
              ELSE Compiled(request.specs, request.mode, request.review, request.strategy)
  /\ cache' = [k \in DOMAIN cache \cup {Key(request)} |->
                 IF k = Key(request) THEN graph' ELSE cache[k]]
  /\ stage' = "compiled"
  /\ UNCHANGED <<plan, layers, refined, request>>

\* The next request for the same phases; one for others finds no entry.  A
\* template can be stored with another pattern and the same phases.
AskAgain ==
  /\ stage = "compiled" /\ request.source = "template"
  /\ \E mode \in {"sequential", "parallel"}, review \in BOOLEAN :
       request' = [request EXCEPT !.mode = mode, !.review = review]
  /\ stage' = "ready"
  /\ UNCHANGED <<plan, layers, refined, cache, graph>>

Next ==
  \/ Decompose \/ Refine \/ AutoPlan \/ SavedPlan \/ Template
  \/ Compile \/ AskAgain

Spec == Init /\ [][Next]_vars
-------------------------------------------------------------------------------

FromPlan == stage = "compiled" /\ request.source # "template"

\* A plan the validator accepts is a plan that runs: whichever way it takes
\* to the compiler, refined or not, every one of its agents is handed out in
\* a run without failures, and GraphValidator would find no node without edges,
\* no edge to nowhere and no cycle but those of loop-backs.
\* The validator of plans, the sorter, the inference of the topology and the
\* scheduler's idea of a start node have to agree for that.
ValidPlanRuns ==
  FromPlan /\ Valid(plan, layers) =>
    /\ \A t \in TaskSet(plan) : Runs(graph, t)
    /\ IsolatedNodes(graph) = {} /\ InvalidEdges(graph) = {} /\ ~ImplicitCycle(graph)

\* A run without a saved plan keeps the order that was planned: in the graph
\* of a valid plan no agent runs before the agents it depends on are through
\* with what stands behind them.  The chain that stands for a list of phases
\* ignores what its first phase depends on, so this rests on the layers.
PlannedOrderKept ==
  FromPlan /\ request.source = "auto" /\ ~refined /\ Valid(plan, layers) =>
    \A t \in TaskSet(plan) : \A d \in plan.deps[t] :
      request.strategy = "" => WaitsFor(graph, t, <<d, plan.control[d]>>)

\* (Not so.) The same of every way to the compiler, as the compiler's own comments have
\* it: the topology follows from the dependencies.
DependenciesKept ==
  FromPlan /\ request.strategy = "" /\ Valid(plan, layers) =>
    \A t \in TaskSet(plan) : \A d \in plan.deps[t] :
      WaitsFor(graph, t, <<d, plan.control[d]>>)

\* (Not so.) What GraphValidator is said to ensure of every graph that is built.
Validated == stage = "compiled" => Errors(graph) = {}

\* (Not so.) The same of what it only warns of: nodes that hang at either end,
\* loops that no count protects.
WithoutWarnings ==
  stage = "compiled" =>
    /\ UnreachableFromStart(graph) = {} /\ CannotReachEnd(graph) = {}
    /\ UnprotectedLoops(graph) = {}

\* (Not so.) A cached graph is the graph the request asks for.
CacheFits ==
  stage = "compiled" =>
    graph = Compiled(request.specs, request.mode, request.review, request.strategy)
===============================================================================
