------------------------------- MODULE LongForm -------------------------------
(***************************************************************************)
(* A work written in many units ("chapters").  A skeleton of the units is  *)
(* planned (core/skeleton/planner), the writing phase is replaced by one   *)
(* phase per unit (core/skeleton/integration), and after every phase the   *)
(* curator updates what later units are told: the current unit, a window   *)
(* of summaries and the continuity threads                                 *)
(* (core/run/collaboration_hooks, core/memory/curator).  The curator works *)
(* on a copy of the run context and waits for a summary before the copy is *)
(* written back.                                                           *)
(***************************************************************************)
EXTENDS Naturals, Sequences, FiniteSets, SequencesExt

CONSTANTS
  TotalUnits,  \* total_units of the request
  Threads,     \* continuity threads of the skeleton
  ResolveAt,   \* thread -> the unit it should be resolved at
  Window,      \* LayeredMemory.WINDOW_SIZE
  Plans,       \* the lists of phases the skeleton may be laid over
  Ingested,    \* [unit, window]: where the ingestor may put the run
  MaxRetries,  \* times a gate sends a phase back (max_iterations)
  MaxSentBack, \* bound: times the gates of the run do
  Unset

\* (The planner makes a skeleton of at least one unit; units, and with them the
\* ends of threads, are counted from 1.)
ASSUME WritingAssumption ==
  /\ TotalUnits \in Nat \ {0} /\ Window \in Nat \ {0}
  /\ ResolveAt \in [Threads -> Nat \ {0}]
  /\ MaxRetries \in Nat /\ MaxSentBack \in Nat
  /\ Unset \notin Nat
  /\ Ingested \subseteq [unit : Nat \ {0}, window : Seq(Nat)]
  /\ \A g \in Ingested : Len(g.window) <= Window

VARIABLES
  mode,     \* "pipeline", "dag" or "parallel"; Unset until the skeleton is there
  specs,    \* the phases as they were planned, before the expansion
  tracked,  \* layered memory and threads are kept (runner; not natural_runner)
  phases,   \* the phases to run, in the order of the list
  state,    \* phase -> "waiting", "writing", "curating", "written", "done"
  tries,    \* phase -> times sent back
  brief,    \* phase -> the unit whose brief it was last written with
  snap,     \* phase -> the curator's copy of the context
  ctx,      \* RunContext: [unit, window, threads]
  given     \* what ctx was when the run began

writingVars == <<mode, specs, tracked, phases, state, tries, brief, snap, ctx, given>>

\* Ids of phases.  Those of units are "unit_<n>"; no planned phase has such an id.
PlanId      == [1 .. 1 -> STRING]
WritePhase  == <<"write">>
NoPhase     == <<"">>
UnitId(n)   == <<"unit", n>>

UnitPhase(i, unit, deps) == [id |-> i, unit |-> unit, deps |-> deps]

\* A planned phase: unit is Unset for what is no chapter.  WritePhase is the
\* first one that is recognised as the writing, if any is.
ASSUME PlansAssumption ==
  \A plan \in Plans :
    /\ plan \in Seq([id : PlanId, unit : {Unset}, deps : SUBSET PlanId])
    /\ \A i, j \in DOMAIN plan : plan[i].id = plan[j].id => i = j
    /\ \A i \in DOMAIN plan : plan[i].id # NoPhase

\* _infer_topology_from_specs, unless the run is parallel: a list in which each
\* phase names the one before it, or none names any, is run one by one.
Linear(ps) == \A i \in 2 .. Len(ps) : ps[i].deps = {ps[i - 1].id}
Loose(ps)  == \A i \in 2 .. Len(ps) : ps[i].deps = {}

Topology(ps) == IF Linear(ps) \/ Loose(ps) THEN "pipeline" ELSE "dag"

\* _pass1_global, then _pass2_arc_detail for each arc: the model says which arcs
\* there are and which units an arc has, within its range or not; a unit listed
\* again is updated, and an arc whose call fails adds none.
Outlines == SUBSET (1 .. TotalUnits + 1)

\* _fallback_skeleton, where pass 1 fails or there is no time left
Fallback == 1 .. TotalUnits

\* _clamp_units_to_total: a unit over total_units is cut off, a missing unit
\* stays missing.
Clamped(listed) == listed \cap 1 .. TotalUnits

MutChapterDeps(order, i, inherited) == inherited

\* Unit 1 takes over the dependencies of the writing phase, every other unit
\* depends on the one before it in the list; the first of a list without unit
\* 1 depends on "", which is no phase.
ChapterDeps(order, i, inherited) ==
  CASE order[i] = 1 -> inherited
    [] order[i] # 1 /\ i = 1 -> {NoPhase}
    [] OTHER -> {UnitId(order[i - 1])}

\* The units in order.
InOrder(units) ==
  CHOOSE s \in [1 .. Cardinality(units) -> units] : \A i, j \in DOMAIN s : i < j => s[i] < s[j]

\* expand_phases_with_skeleton: the chapters take the place of the writing, and
\* what depended on it depends on the last of them.  The old graph is kept if
\* no writing is recognised or the number of phases does not change.
Expand(plan, units) ==
  LET w == CHOOSE i \in DOMAIN plan : plan[i].id = WritePhase
      n == Cardinality(units)
      order == InOrder(units)
      chapter(i) ==
        UnitPhase(UnitId(order[i]), order[i], ChapterDeps(order, i, plan[w].deps))
      moved(p) ==
        [p EXCEPT !.deps = {IF d = WritePhase THEN UnitId(order[n]) ELSE d : d \in @}]
  IN  IF n <= 1 \/ \A i \in DOMAIN plan : plan[i].id # WritePhase
      THEN plan
      ELSE [i \in 1 .. Len(plan) + n - 1 |->
              CASE i < w -> plan[i]
                [] w <= i /\ i < w + n -> chapter(i - w + 1)
                [] OTHER -> moved(plan[i - n + 1])]

Ids == {phases[i].id : i \in DOMAIN phases}
PhaseOf(p) == CHOOSE x \in {phases[i] : i \in DOMAIN phases} : x.id = p

\* The phases a phase has an edge from, by the pattern that is compiled; a name
\* that is no phase is passed over.  (The preconditions
\* expand_phases_with_skeleton puts on the specs reach no node: the scheduler
\* looks for them in node.metadata, the compiler leaves them in
\* node.metadata["phase_spec"].)
Behind(p) ==
  CASE mode = "pipeline" -> {phases[i - 1].id : i \in {j \in 2 .. Len(phases) : phases[j].id = p}}
    [] mode = "dag" -> PhaseOf(p).deps \cap Ids
    [] OTHER -> {}

\* What the router releases: it does not ask whether other edges into the phase
\* are still to come.
Due(p) ==
  /\ state[p] = "waiting"
  /\ Behind(p) = {} \/ \E q \in Behind(p) : state[q] = "done"

Active(p) == state[p] \in {"writing", "curating"}

\* The run before anything is ingested.
Blank == [unit |-> 1, window |-> <<>>, threads |-> [t \in Threads |-> "planned"]]

WritingInit ==
  /\ mode = Unset /\ specs = <<>> /\ phases = <<>>
  /\ tracked \in BOOLEAN
  /\ state = <<>> /\ tries = <<>> /\ brief = <<>> /\ snap = <<>>
  /\ ctx = Blank /\ given = Blank

\* plan_skeleton_if_needed, the expansion, and the context of the run.
PlanSkeleton ==
  /\ mode = Unset
  /\ \E plan \in Plans, listed \in Outlines \cup {Fallback} :
       /\ specs' = plan
       /\ phases' = Expand(plan, Clamped(listed))
  /\ mode' \in {"parallel", Topology(phases')}
  /\ LET ids == {phases'[i].id : i \in DOMAIN phases'}
     IN  /\ state' = [p \in ids |-> "waiting"]
         /\ tries' = [p \in ids |-> 0]
         /\ brief' = [p \in ids |-> Unset]
         /\ snap'  = [p \in ids |-> Unset]
  /\ UNCHANGED <<tracked, ctx, given>>

\* Text to continue or to rewrite, as the ingestor has prepared it: the run is
\* put at a unit of the user's choice, with the last of the summaries of what
\* there is, if any, and the threads the analysis found, in whatever state.
Ingest ==
  /\ mode # Unset /\ \A p \in Ids : state[p] = "waiting"
  /\ ctx = Blank /\ tracked
  /\ \E g \in Ingested,
        old \in [Threads -> {"planned", "introduced", "referenced", "resolved", "overdue"}] :
       ctx' = [unit |-> g.unit, window |-> g.window, threads |-> old]
  /\ given' = ctx'
  /\ UNCHANGED <<mode, specs, tracked, phases, state, tries, brief, snap>>

\* A batch is dispatched when the one before has ended.
DispatchPhases ==
  /\ mode # Unset /\ \A p \in Ids : ~Active(p)
  /\ LET B == {p \in Ids : Due(p)}
     IN  /\ B # {}
         /\ state' = [p \in Ids |-> IF p \in B THEN "writing" ELSE state[p]]
         /\ brief' = [p \in Ids |-> IF p \in B THEN ctx.unit ELSE brief[p]]
  /\ UNCHANGED <<mode, specs, tracked, phases, tries, snap, ctx, given>>

\* A node that failed (skip_outputs): no hook, but the router is asked for its
\* successors, and its gate is run like any other.
Fail(p) ==
  /\ state[p] = "writing"
  /\ state' = [state EXCEPT ![p] = "written"]
  /\ UNCHANGED <<mode, specs, tracked, phases, tries, brief, snap, ctx, given>>

\* on_phase_complete: the curator is given ctx.model_dump() and current_unit.
Curate(p) ==
  /\ state[p] = "writing"
  /\ state' = [state EXCEPT ![p] = "curating"]
  /\ snap' = [snap EXCEPT ![p] = ctx]
  /\ UNCHANGED <<mode, specs, tracked, phases, tries, brief, ctx, given>>

\* update_from_declaration, then check_overdue.
Declared(status, said) ==
  CASE said = "resolved" -> "resolved"
    [] said = "introduced" /\ status = "planned" -> "introduced"
    [] said = "referenced" /\ status \in {"planned", "introduced"} -> "referenced"
    [] OTHER -> status

Overdue(t, unit, status) ==
  IF unit > ResolveAt[t] /\ status # "resolved" THEN "overdue" ELSE status

\* push_to_L2.
Trimmed(w) == IF Len(w) > Window THEN SubSeq(w, Len(w) - Window + 1, Len(w)) ELSE w

Push(window, unit) == Trimmed(Append(window, unit))

\* process_unit_completion on the copy.
Completed(c, said) ==
  [ unit    |-> c.unit + 1,
    window  |-> IF tracked THEN Push(c.window, c.unit) ELSE c.window,
    threads |-> IF tracked
                THEN [t \in Threads |-> Overdue(t, c.unit, Declared(c.threads[t], said[t]))]
                ELSE c.threads ]

MutWriteBack(p) ==
  \E said \in [Threads -> {"nothing", "introduced", "referenced", "resolved"}] :
    ctx' = [Completed(snap[p], said) EXCEPT !.unit = ctx.unit + 1]

\* The fields of the copy replace those of the context.
WriteBack(p) ==
  \E said \in [Threads -> {"nothing", "introduced", "referenced", "resolved"}] :
    ctx' = Completed(snap[p], said)

CurateEnds(p) ==
  /\ state' = [state EXCEPT ![p] = "written"]
  /\ snap' = [snap EXCEPT ![p] = Unset]

Curated(p) ==
  /\ state[p] = "curating"
  /\ WriteBack(p)
  /\ CurateEnds(p)
  /\ UNCHANGED <<mode, specs, tracked, phases, tries, brief, given>>

\* An exception in the curator is logged; nothing is written back.
CuratorFails(p) ==
  /\ state[p] = "curating"
  /\ CurateEnds(p)
  /\ UNCHANGED <<mode, specs, tracked, phases, tries, brief, ctx, given>>

SentBack == FoldFunction(+, 0, tries)

\* The quality gate behind a phase, or the review in its place.  A refused phase
\* is written again while its loop has iterations left.  (A gate may run beside
\* another phase's agent; what comes of it shows when the batch has ended.)
GateEnds(p) ==
  /\ state[p] = "written" /\ \A q \in Ids : ~Active(q)
  /\ \/ /\ state' = [state EXCEPT ![p] = "done"]
        /\ UNCHANGED tries
     \/ /\ tries[p] < MaxRetries /\ SentBack < MaxSentBack
        /\ state' = [state EXCEPT ![p] = "waiting"]
        /\ tries' = [tries EXCEPT ![p] = @ + 1]
  /\ UNCHANGED <<mode, specs, tracked, phases, brief, snap, ctx, given>>

WritingNext ==
  \/ PlanSkeleton
  \/ Ingest
  \/ DispatchPhases
  \/ \E p \in DOMAIN state :
       \/ Fail(p)
       \/ Curate(p)
       \/ Curated(p)
       \/ CuratorFails(p)
       \/ GateEnds(p)

WritingSpec == WritingInit /\ [][WritingNext]_writingVars

(***************************************************************************)
(* Properties                                                              *)
(***************************************************************************)

\* The window of a run that has come from the unit it was put at to this one.
WindowAt(unit) ==
  Trimmed(given.window \o [i \in 1 .. (unit - given.unit) |-> given.unit + i - 1])

\* The three fields the curator keeps tell one story at every moment, whatever
\* was ingested and whatever curators overlap, fail or run again for a refused
\* phase: the window goes on from what was given with every unit since, without
\* a gap or a repetition; a thread becomes overdue only when its unit is
\* passed, and once a unit was curated no thread whose unit is passed is
\* anything but overdue or resolved.
MemoryMovesTogether ==
  tracked =>
    /\ ctx.window = WindowAt(ctx.unit)
    /\ \A t \in Threads :
         /\ ctx.threads[t] = "overdue" =>
              given.threads[t] = "overdue" \/ ResolveAt[t] < ctx.unit - 1
         /\ ctx.unit > given.unit /\ ResolveAt[t] < ctx.unit - 1 =>
              ctx.threads[t] \in {"overdue", "resolved"}

HasFirst(ps) == \E i \in DOMAIN ps : ps[i].unit = 1

\* Where phases run one by one, nothing the curator noted is undone: a thread
\* that was resolved stays resolved and the run does not return to an earlier
\* unit.  They do if the list is compiled to a pipeline; and a list that was
\* planned as a chain is one, expanded or not, unless the skeleton lacks its
\* first unit.  Otherwise phases of a batch overlap, and the last copy written
\* back wins.
ResolvedStays ==
  [][ (mode = "pipeline" \/ (mode = "dag" /\ Linear(specs) /\ HasFirst(phases))) =>
        /\ ctx'.unit >= ctx.unit
        /\ \A t \in Threads : ctx.threads[t] = "resolved" => ctx'.threads[t] = "resolved" ]_writingVars

\* Each chapter is written with the brief of its own unit (natural_runner:
\* every writer gets "L1 本章 unit_spec" from the context builder).  It does
\* not hold: every phase moves current_unit, a design phase before the first
\* chapter as much as a chapter that is written again.
ChapterGetsOwnBrief ==
  \A p \in DOMAIN brief : brief[p] # Unset /\ PhaseOf(p).unit # Unset => brief[p] = PhaseOf(p).unit
=============================================================================
