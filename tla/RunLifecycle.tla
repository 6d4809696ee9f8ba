----------------------------- MODULE RunLifecycle -----------------------------
(***************************************************************************)
(* The life of one project's runs in one process: launches, runs started   *)
(* from natural language, answers to decisions that resume a paused graph, *)
(* and the reconciliation of runs a crash left behind.  They meet in the   *)
(* project's row, in the registry of graphs and in the run lock, and each  *)
(* await lets the others in.                                               *)
(***************************************************************************)
EXTENDS Naturals

CONSTANTS
  Launch,      \* coroutines of launch_workflow
  Natural,     \* coroutines of start_natural_run and its background task
  Answer,      \* coroutines of resolve_decision_and_resume and its task
  MaxCrashes,  \* bound: crashes of the process
  NULL

ASSUME LifecycleAssumption ==
  /\ MaxCrashes \in Nat
  /\ Launch \cap Natural = {} /\ Launch \cap Answer = {} /\ Natural \cap Answer = {}
  /\ {NULL, "reconciler"} \cap (Launch \cup Natural \cup Answer) = {}

VARIABLES
  status,      \* projects.status
  recover,     \* recover_pending in projects.config
  checkpoint,  \* the run whose checkpoint is stored, if any
  decision,    \* the last decision card: its number and whether it is open
  executing,   \* _executing holds the project
  running,     \* _running: the graph registered, named by who made it
  runtime,     \* status of the runtime of each graph
  stale,       \* the lock row of a crashed process is not yet stale
  pc,          \* where each coroutine is
  local,       \* what each coroutine remembers
  crashes

vars == <<status, recover, checkpoint, decision, executing, running, runtime,
          stale, pc, local, crashes>>

Task  == Launch \cup Natural \cup Answer
Graph == Task                     \* the coroutine that made it
Run   == Launch \cup Natural       \* a run is named by who began it
Reconciler == "reconciler"

Status  == {"idle", "running", "paused", "completed", "partial", "failed"}
Outcome == {"completed", "partial", "failed", "paused"}
Over    == {"waiting", "done", "broken", "gone"}

\* The project status it has read, the decision card it answers, the graph it
\* resumes and the run that graph is of, and how its execution ended.
Local   == [read : Status, answers : Nat, uses : Graph \cup {NULL}, run : Run \cup {NULL},
            outcome : Outcome]
Nothing == [read |-> "idle", answers |-> 0, uses |-> NULL, run |-> NULL, outcome |-> "failed"]

TypeOK ==
  /\ status \in Status /\ recover \in BOOLEAN
  /\ checkpoint \in Run \cup {NULL}
  /\ decision \in [id : Nat, open : BOOLEAN]
  /\ executing \in BOOLEAN
  /\ running \in Run \cup {NULL}
  /\ runtime \in [Graph -> {"new", "running", "paused", "ended"}]
  /\ stale \in BOOLEAN
  /\ pc \in [Task \cup {Reconciler} -> Over \cup
       {"check", "lock", "delete", "config", "rewrite", "begin", "clear", "register",
        "execute", "timeout", "final", "except", "mark", "remark", "fail",
        "resolve", "ensure", "resume", "background"}]
  /\ local \in [Task -> Local]
  /\ crashes \in 0 .. MaxCrashes

\* A project at rest, to which the coroutines of cast are still to come
AtRest(cast) ==
  /\ status = "idle" /\ recover = FALSE
  /\ checkpoint = NULL /\ decision = [id |-> 0, open |-> FALSE]
  /\ executing = FALSE /\ running = NULL
  /\ runtime = [g \in Graph |-> "new"]
  /\ stale = FALSE
  /\ pc = [t \in Task \cup {Reconciler} |->
             IF t \in cast \cup {Reconciler} THEN "waiting" ELSE "gone"]
  /\ local = [t \in Task |-> Nothing]
  /\ crashes = 0

Init == AtRest(Task)

Goto(t, where) == pc' = [pc EXCEPT ![t] = where]
\* It goes on, or ends, without what it remembered.
Leave(t, how)  == Goto(t, how) /\ local' = [local EXCEPT ![t] = Nothing]
At(t, where)   == pc[t] = where

\* is_execution_alive
MutAlive == running # NULL

Alive == executing \/ running # NULL

Row      == <<status, recover, checkpoint, decision>>
Registry == <<executing, running>>
Rest     == <<stale, crashes>>

SetStatus(s) == status' = s /\ UNCHANGED <<recover, checkpoint, decision>>

------------------------------------------------------------------------------
(* launch_workflow and execute_workflow *)

\* resolve_project
Resolve(t) ==
  /\ At(t, "waiting")
  /\ local' = [local EXCEPT ![t].read = status]
  /\ Goto(t, "check")
  /\ UNCHANGED <<Row, Registry, runtime, Rest>>

\* A project that is alive in this process is refused; otherwise it is marked.
Check(t) ==
  /\ At(t, "check")
  /\ IF Alive
     THEN Leave(t, "mark") /\ UNCHANGED executing
     ELSE Goto(t, "lock") /\ executing' = TRUE /\ UNCHANGED local
  /\ UNCHANGED <<Row, running, runtime, Rest>>

\* The finally clause of execute_workflow, and the except of launch_workflow
RaiseOut(t) == Goto(t, "mark") /\ executing' = FALSE

\* Where a coroutine goes on in the lock, and where an exception takes it.
Locked(t) ==
  IF t \in Launch THEN "delete" ELSE IF t \in Natural THEN "execute" ELSE "resume"
Raised(t) ==
  IF t \in Launch THEN "except" ELSE IF t \in Natural THEN "background" ELSE "fail"

\* run_lock: in one process it only fails on the row of a crashed one.
Lock(t) ==
  /\ At(t, "lock")
  /\ \/ ~stale /\ Goto(t, Locked(t)) /\ UNCHANGED executing
     \/ stale /\ t \in Launch /\ RaiseOut(t)
     \/ stale /\ t \notin Launch /\ Goto(t, Raised(t)) /\ UNCHANGED executing
  /\ UNCHANGED <<Row, running, runtime, local, Rest>>

\* Without an LLM the run fails at once.
Unavailable(t) ==
  /\ At(t, "delete")
  /\ SetStatus("failed")
  /\ executing' = FALSE
  /\ Leave(t, "done")
  /\ UNCHANGED <<running, runtime, Rest>>

\* delete_checkpoint unless the project was paused when it was read
Delete(t) ==
  /\ At(t, "delete")
  /\ checkpoint' = IF local[t].read = "paused" THEN checkpoint ELSE NULL
  /\ Goto(t, "config")
  /\ UNCHANGED <<status, recover, decision, Registry, runtime, local, Rest>>

\* ProjectManager.update reads the row and writes all of it back.
ReadRow(t) ==
  /\ pc[t] \in {"config", "mark"}
  /\ local' = [local EXCEPT ![t].read = status]
  /\ Goto(t, IF At(t, "config") THEN "rewrite" ELSE "remark")
  /\ UNCHANGED <<Row, Registry, runtime, Rest>>

WriteConfig(t) ==
  /\ At(t, "rewrite")
  /\ SetStatus(local[t].read)
  /\ Leave(t, "begin")
  /\ UNCHANGED <<Registry, runtime, Rest>>

BeginRun(t) ==
  /\ At(t, "begin")
  /\ SetStatus("running")
  /\ Goto(t, IF t \in Launch THEN "clear" ELSE "lock")
  /\ UNCHANGED <<Registry, runtime, local, Rest>>

ClearRecover(t) ==
  /\ At(t, "clear")
  /\ recover' = FALSE
  /\ Goto(t, "register")
  /\ UNCHANGED <<status, checkpoint, decision, Registry, runtime, local, Rest>>

\* No graph is registered when the plan or its compilation raises; a missing
\* template does so before the try, where the except clause has no part in it.
CompileFails(t) ==
  /\ t \in Launch
  /\ \/ Goto(t, "except") /\ UNCHANGED executing
     \/ RaiseOut(t)
  /\ UNCHANGED running

Register(t) ==
  /\ At(t, "register")
  /\ \/ /\ running' = t /\ UNCHANGED executing
        /\ Goto(t, IF t \in Launch THEN "execute" ELSE "begin")
     \/ CompileFails(t)
  /\ UNCHANGED <<Row, runtime, local, Rest>>

------------------------------------------------------------------------------
(* CollaborationGraph.execute and resume *)

Mine(t)  == IF t \in Answer THEN local[t].uses ELSE t
RunOf(t) == IF t \in Answer THEN local[t].run ELSE t

Start(t) ==
  /\ At(t, "execute") /\ runtime[t] = "new"
  /\ runtime' = [runtime EXCEPT ![t] = "running"]
  /\ UNCHANGED <<Row, Registry, pc, local, Rest>>

\* The run ends or pauses: its last checkpoint is saved before it returns.
End(t) ==
  /\ At(t, "execute") /\ runtime[Mine(t)] = "running"
  /\ \E how \in Outcome :
       /\ local' = [local EXCEPT ![t].outcome = how]
       /\ runtime' = [runtime EXCEPT ![Mine(t)] = IF how = "paused" THEN "paused" ELSE "ended"]
       /\ checkpoint' = RunOf(t)
       /\ decision' = IF how = "paused" THEN [id |-> decision.id + 1, open |-> TRUE] ELSE decision
       /\ running' = IF t \in Launch /\ how # "paused" THEN NULL ELSE running
  /\ Goto(t, "final")
  /\ UNCHANGED <<status, recover, executing, Rest>>

\* wait_for(collab.execute(), timeout)
Timeout(t) ==
  /\ t \in Launch /\ At(t, "execute") /\ runtime[t] = "running"
  /\ runtime' = [runtime EXCEPT ![t] = "ended"]
  /\ Goto(t, "timeout")
  /\ UNCHANGED <<Row, Registry, local, Rest>>

AfterTimeout(t) ==
  /\ At(t, "timeout")
  /\ SetStatus("failed")
  /\ running' = NULL /\ executing' = FALSE
  /\ Leave(t, "done")
  /\ UNCHANGED <<runtime, Rest>>

\* An exception on the way: a launch fails the project, a background task
\* also clears both registers, an answer fails the project.
Raise(t) ==
  /\ At(t, "execute")
  /\ runtime' = [runtime EXCEPT ![Mine(t)] = "ended"]
  /\ Leave(t, Raised(t))
  /\ UNCHANGED <<Row, Registry, Rest>>

\* update_status(project, status), and what follows it at once
Finish(t) ==
  /\ At(t, "final")
  /\ SetStatus(local[t].outcome)
  /\ executing' = (executing /\ t \notin Launch)
  /\ running' = IF t \in Natural \/ (t \in Answer /\ local[t].outcome # "paused") THEN NULL ELSE running
  /\ Leave(t, "done")
  /\ UNCHANGED <<runtime, Rest>>

\* The except clause of _execute_workflow_body leaves the graph registered.
Except(t) ==
  /\ At(t, "except")
  /\ SetStatus("failed")
  /\ RaiseOut(t)
  /\ UNCHANGED <<running, runtime, local, Rest>>

\* mark_recover_pending, then update_status
MarkRecover(t) ==
  /\ At(t, "remark")
  /\ status' = local[t].read /\ recover' = TRUE
  /\ Leave(t, "fail")
  /\ UNCHANGED <<checkpoint, decision, Registry, runtime, Rest>>

Fail(t) ==
  /\ At(t, "fail")
  /\ SetStatus("failed")
  /\ Leave(t, "done")
  /\ UNCHANGED <<Registry, runtime, Rest>>

------------------------------------------------------------------------------
(* start_natural_run asks nobody; its background task *)

StartNatural(t) ==
  /\ At(t, "waiting")
  /\ Goto(t, "register")
  /\ UNCHANGED <<Row, Registry, runtime, local, Rest>>

\* background_safe_execute clears the register and the mark, whoever set them.
BackgroundFails(t) ==
  /\ At(t, "background")
  /\ SetStatus("failed")
  /\ executing' = FALSE /\ running' = NULL
  /\ Leave(t, "broken")
  /\ UNCHANGED <<runtime, Rest>>

------------------------------------------------------------------------------
(* resolve_decision_and_resume *)

\* The card must not be resolved, as the SELECT saw it.
ReadDecision(t) ==
  /\ At(t, "waiting") /\ decision.id > 0
  /\ IF decision.open
     THEN Goto(t, "resolve") /\ local' = [local EXCEPT ![t].answers = decision.id]
     ELSE Leave(t, "done")
  /\ UNCHANGED <<Row, Registry, runtime, Rest>>

ResolveDecision(t) ==
  /\ At(t, "resolve")
  /\ decision' = [decision EXCEPT !.open = @ /\ decision.id # local[t].answers]
  /\ Leave(t, "ensure")
  /\ UNCHANGED <<status, recover, checkpoint, Registry, runtime, Rest>>

\* ensure_collaboration_graph: the registered graph, or a copy made from the
\* checkpoint, which is PAUSED and not registered
Ensure(t) ==
  /\ At(t, "ensure")
  /\ \/ /\ running # NULL
        /\ local' = [local EXCEPT ![t].uses = running, ![t].run = running]
        /\ Goto(t, "lock") /\ UNCHANGED runtime
     \/ /\ running = NULL /\ checkpoint # NULL
        /\ local' = [local EXCEPT ![t].uses = t, ![t].run = checkpoint]
        /\ runtime' = [runtime EXCEPT ![t] = "paused"]
        /\ Goto(t, "lock")
     \/ /\ running = NULL /\ checkpoint = NULL
        /\ Leave(t, "fail") /\ UNCHANGED runtime
  /\ UNCHANGED <<Row, Registry, Rest>>

MutResume(t) ==
  /\ At(t, "resume")
  /\ runtime' = [runtime EXCEPT ![local[t].uses] = "running"] /\ Goto(t, "execute")
  /\ UNCHANGED <<Row, Registry, local, Rest>>

\* CollaborationGraph.resume raises unless the runtime is PAUSED.
Resume(t) ==
  /\ At(t, "resume")
  /\ IF runtime[local[t].uses] = "paused"
     THEN /\ runtime' = [runtime EXCEPT ![local[t].uses] = "running"]
          /\ Goto(t, "execute") /\ UNCHANGED local
     ELSE Leave(t, "fail") /\ UNCHANGED runtime
  /\ UNCHANGED <<Row, Registry, Rest>>

------------------------------------------------------------------------------
(* Orphans and crashes *)

\* reconcile_orphaned_run: the row is read, and others may run until it is there.
ReadStatus ==
  /\ At(Reconciler, "waiting") /\ status = "running"
  /\ Goto(Reconciler, "check")
  /\ UNCHANGED <<Row, Registry, runtime, local, Rest>>

\* detect_orphaned_run, then ProjectManager.update
MutDetectOrphan ==
  /\ At(Reconciler, "check")
  /\ Goto(Reconciler, IF Alive \/ recover THEN "waiting" ELSE "fail")
  /\ UNCHANGED <<Row, Registry, runtime, local, Rest>>

DetectOrphan ==
  /\ At(Reconciler, "check")
  /\ Goto(Reconciler, IF Alive THEN "waiting" ELSE "fail")
  /\ UNCHANGED <<Row, Registry, runtime, local, Rest>>

Reconcile ==
  /\ At(Reconciler, "fail")
  /\ status' = "failed" /\ recover' = TRUE
  /\ Goto(Reconciler, "waiting")
  /\ UNCHANGED <<checkpoint, decision, Registry, runtime, local, Rest>>

\* Everything in memory is lost; the row of a lock that was held stays.
HoldsLock(t) ==
  pc[t] \in {"delete", "config", "rewrite", "begin", "clear", "register",
             "execute", "timeout", "except", "resume"} /\ (t \notin Natural \/ At(t, "execute"))

Crash ==
  /\ crashes < MaxCrashes
  /\ crashes' = crashes + 1
  /\ executing' = FALSE /\ running' = NULL
  /\ stale' = (stale \/ \E t \in Task : HoldsLock(t))
  /\ pc' = [t \in Task \cup {Reconciler} |-> IF At(t, "waiting") \/ t = Reconciler THEN "waiting" ELSE "gone"]
  /\ local' = [t \in Task |-> Nothing]
  /\ runtime' = [g \in Graph |-> IF At(g, "waiting") THEN runtime[g] ELSE "ended"]
  /\ UNCHANGED Row

LockExpires ==
  /\ stale /\ stale' = FALSE
  /\ UNCHANGED <<Row, Registry, runtime, pc, local, crashes>>

------------------------------------------------------------------------------
LaunchStep(t) ==
  \/ Resolve(t) \/ Check(t) \/ Lock(t) \/ Unavailable(t) \/ Delete(t)
  \/ ReadRow(t) \/ WriteConfig(t) \/ BeginRun(t) \/ ClearRecover(t) \/ Register(t)
  \/ Start(t) \/ End(t) \/ Timeout(t) \/ AfterTimeout(t) \/ Raise(t) \/ Finish(t)
  \/ Except(t) \/ MarkRecover(t) \/ Fail(t)

NaturalStep(t) ==
  \/ StartNatural(t) \/ Register(t) \/ BeginRun(t) \/ Lock(t) \/ Start(t) \/ End(t)
  \/ Raise(t) \/ BackgroundFails(t) \/ Finish(t)

AnswerStep(t) ==
  \/ ReadDecision(t) \/ ResolveDecision(t) \/ Ensure(t) \/ Lock(t) \/ Resume(t)
  \/ End(t) \/ Raise(t) \/ Finish(t) \/ Fail(t)

Next ==
  \/ \E t \in Launch : LaunchStep(t)
  \/ \E t \in Natural : NaturalStep(t)
  \/ \E t \in Answer : AnswerStep(t)
  \/ ReadStatus \/ DetectOrphan \/ Reconcile \/ Crash \/ LockExpires

\* Coroutines that have begun go on, and orphans are looked for: at startup
\* and whenever a project is shown.
Fairness ==
  /\ \A t \in Launch : WF_vars(~At(t, "waiting") /\ LaunchStep(t))
  /\ \A t \in Natural : WF_vars(~At(t, "waiting") /\ NaturalStep(t))
  /\ \A t \in Answer : WF_vars(~At(t, "waiting") /\ AnswerStep(t))
  /\ WF_vars(ReadStatus) /\ WF_vars(DetectOrphan) /\ WF_vars(Reconcile)

Spec == Init /\ [][Next]_vars
FairSpec == Spec /\ Fairness

------------------------------------------------------------------------------
\* Between its mark and its end a launch is in the body of execute_workflow.
InBody(t) == t \in Launch /\ pc[t] \in {"lock", "delete", "config", "rewrite", "begin",
                "clear", "register", "execute", "timeout", "final", "except"}

\* Two launches of a project never run in one process at once, however their
\* awaits interleave: the check and the mark are one step.  (A background
\* task that fails drops the mark of a launch.)
OneLaunch ==
  \A t, u \in Launch :
    InBody(t) /\ InBody(u) => t = u \/ \E n \in Natural : At(n, "broken")

\* A run is executed by one coroutine at a time, as when two answers to one
\* decision have both got past the check: only the first finds the graph PAUSED.
\* The exception is a run the registry has lost, to a crash, its end or a natural
\* run: each answer then makes a copy of its own from the checkpoint.
Copies(t) == t \in Answer /\ local[t].uses = t

OneRunner ==
  \A t, u \in Task :
    At(t, "execute") /\ At(u, "execute") /\ RunOf(t) = RunOf(u)
      => t = u \/ (running # RunOf(t) /\ (Copies(t) \/ Copies(u)))

\* A decision is answered once: no two answers go on with one run at once.
ActedOnce ==
  \A t, u \in Answer :
    At(t, "execute") /\ At(u, "execute") /\ RunOf(t) = RunOf(u) => t = u

\* A project does not stay "running" when nobody runs it.
RunningEnds == status = "running" ~> status # "running"
==============================================================================
