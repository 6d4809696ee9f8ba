-------------------------- MODULE RunLifecycleProofs --------------------------
(***************************************************************************)
(* For any number of launches, natural runs, answers and crashes: the two  *)
(* exclusions of a project's life in one process.  At most one launch is   *)
(* in the body of execute_workflow, and at most one coroutine executes a   *)
(* run, unless the registry has lost it.                                   *)
(***************************************************************************)
EXTENDS RunLifecycle, TLAPS

Place == Over \cup
  {"check", "lock", "delete", "config", "rewrite", "begin", "clear", "register",
   "execute", "timeout", "final", "except", "mark", "remark", "fail",
   "resolve", "ensure", "resume", "background"}

PlacesTyped == pc \in [Task \cup {Reconciler} -> Place]
LocalsTyped == local \in [Task -> Local]

Typed ==
  /\ PlacesTyped /\ LocalsTyped
  /\ runtime \in [Graph -> {"new", "running", "paused", "ended"}]
  /\ running \in Run \cup {NULL} /\ checkpoint \in Run \cup {NULL}
  /\ status \in Status /\ decision \in [id : Nat, open : BOOLEAN]

LEMMA Places ==
  /\ {"final", "except", "timeout", "done", "broken", "mark", "remark", "fail", "rewrite", "begin",
      "clear", "register", "execute", "waiting", "check", "lock", "config", "resolve", "ensure", "gone"}
       \subseteq Place
  /\ \A t \in Task : Locked(t) \in Place /\ Raised(t) \in Place
<1>1. \A t \in Task : Locked(t) \in {"delete", "execute", "resume"} /\ Raised(t) \in {"except", "background", "fail"}
  BY DEF Locked, Raised
<1>2. {"delete", "execute", "resume", "except", "background", "fail"} \subseteq Place
  BY DEF Place
<1> QED
  BY <1>1, <1>2 DEF Place, Over

\* A coroutine that goes on, and one that forgets what it remembered.
LEMMA Goes ==
  ASSUME PlacesTyped, NEW t \in Task \cup {Reconciler}, NEW where \in Place, Goto(t, where)
  PROVE  PlacesTyped'
BY DEF Goto, PlacesTyped

LEMMA NothingTyped == Nothing \in Local
BY DEF Nothing, Local, Status, Outcome

LEMMA Leaves ==
  ASSUME PlacesTyped, LocalsTyped, NEW t \in Task, NEW how \in Place, Leave(t, how)
  PROVE  PlacesTyped' /\ LocalsTyped'
BY NothingTyped, Goes DEF Leave, LocalsTyped

LEMMA Remembers ==
  ASSUME Typed, NEW t \in Task
  PROVE  /\ [local EXCEPT ![t].read = status] \in [Task -> Local]
         /\ [local EXCEPT ![t].answers = decision.id] \in [Task -> Local]
         /\ \A g \in Graph \cup {NULL}, r \in Run \cup {NULL} :
              [local EXCEPT ![t].uses = g, ![t].run = r] \in [Task -> Local]
         /\ \A o \in Outcome : [local EXCEPT ![t].outcome = o] \in [Task -> Local]
<1>1. local[t] \in Local /\ local \in [Task -> Local]
  BY DEF Typed, LocalsTyped
<1>2. \A g \in Graph \cup {NULL}, r \in Run \cup {NULL} :
        [[local[t] EXCEPT !.uses = g] EXCEPT !.run = r] \in Local
  BY <1>1 DEF Local
<1>3. \A g \in Graph \cup {NULL}, r \in Run \cup {NULL} :
        [local EXCEPT ![t].uses = g, ![t].run = r] =
        [local EXCEPT ![t] = [[local[t] EXCEPT !.uses = g] EXCEPT !.run = r]]
  BY <1>1
<1>4. /\ [local EXCEPT ![t].read = status] \in [Task -> Local]
      /\ [local EXCEPT ![t].answers = decision.id] \in [Task -> Local]
      /\ \A o \in Outcome : [local EXCEPT ![t].outcome = o] \in [Task -> Local]
  BY <1>1 DEF Typed, Local
<1>5. \A g \in Graph \cup {NULL}, r \in Run \cup {NULL} :
        [local EXCEPT ![t].uses = g, ![t].run = r] \in [Task -> Local]
  BY <1>1, <1>2, <1>3
<1> QED
  BY <1>4, <1>5

LEMMA Read ==
  Typed => \A t \in Task : /\ local[t].read \in Status /\ local[t].outcome \in Status
                           /\ RunOf(t) \in Run \cup {NULL}
BY DEF Typed, LocalsTyped, Local, Outcome, Status, RunOf, Run, Task

LEMMA TypedInductive == Typed /\ [Next]_vars => Typed'
<1> SUFFICES ASSUME Typed, [Next]_vars PROVE Typed'
  OBVIOUS
<1> USE Places, Goes, Leaves
<1>a. PlacesTyped /\ LocalsTyped /\ (\A t \in Launch \cup Natural \cup Answer : t \in Task)
  BY DEF Typed, Task
<1>b. /\ {"running", "failed"} \subseteq Status
      /\ runtime \in [Graph -> {"new", "running", "paused", "ended"}]
      /\ running \in Run \cup {NULL} /\ checkpoint \in Run \cup {NULL}
      /\ status \in Status /\ decision \in [id : Nat, open : BOOLEAN]
  BY DEF Typed, Status
<1>1. ASSUME NEW t \in Launch, Resolve(t) PROVE Typed'
  BY <1>a, <1>b, <1>1, Remembers DEF Typed, Resolve, LocalsTyped, Row, Registry
<1>2. ASSUME NEW t \in Launch, Check(t) PROVE Typed'
  BY <1>a, <1>b, <1>2 DEF Typed, Check, LocalsTyped, Row
<1>3. ASSUME NEW t \in Task, Lock(t) PROVE Typed'
  BY <1>a, <1>b, <1>3 DEF Typed, Lock, RaiseOut, LocalsTyped, Row
<1>4. ASSUME NEW t \in Launch, Unavailable(t) PROVE Typed'
  BY <1>a, <1>b, <1>4 DEF Typed, Unavailable, SetStatus
<1>5. ASSUME NEW t \in Launch, Delete(t) PROVE Typed'
  BY <1>a, <1>b, <1>5 DEF Typed, Delete, LocalsTyped, Registry
<1>6. ASSUME NEW t \in Launch, ReadRow(t) PROVE Typed'
  BY <1>a, <1>b, <1>6, Remembers DEF Typed, ReadRow, LocalsTyped, Row, Registry
<1>7. ASSUME NEW t \in Launch, WriteConfig(t) PROVE Typed'
  BY <1>a, <1>b, <1>7, Read DEF Typed, WriteConfig, SetStatus, Registry
<1>8. ASSUME NEW t \in Task, BeginRun(t) PROVE Typed'
  BY <1>a, <1>b, <1>8 DEF Typed, BeginRun, SetStatus, Registry, LocalsTyped
<1>9. ASSUME NEW t \in Launch, ClearRecover(t) PROVE Typed'
  BY <1>a, <1>b, <1>9 DEF Typed, ClearRecover, LocalsTyped, Registry
<1>10. ASSUME NEW t \in Launch \cup Natural, Register(t) PROVE Typed'
  <2>1. t \in Task
    BY DEF Task
  <2>2. PlacesTyped' /\ LocalsTyped'
    BY <1>a, <1>10, <2>1 DEF Register, CompileFails, RaiseOut, LocalsTyped
  <2> QED
    BY <1>b, <1>10, <2>2 DEF Typed, Register, CompileFails, Row, Run
<1>11. ASSUME NEW t \in Launch \cup Natural, Start(t) PROVE Typed'
  BY <1>a, <1>b, <1>11 DEF Typed, Start, Row, Registry, PlacesTyped, LocalsTyped
<1>12. ASSUME NEW t \in Launch, Timeout(t) PROVE Typed'
  BY <1>a, <1>b, <1>12 DEF Typed, Timeout, Row, Registry, LocalsTyped
<1>13. ASSUME NEW t \in Launch, AfterTimeout(t) PROVE Typed'
  BY <1>a, <1>b, <1>13 DEF Typed, AfterTimeout, SetStatus
<1>14. ASSUME NEW t \in Task, Raise(t) PROVE Typed'
  BY <1>a, <1>b, <1>14 DEF Typed, Raise, Row, Registry
<1>15. ASSUME NEW t \in Task, Finish(t) PROVE Typed'
  BY <1>a, <1>b, <1>15, Read DEF Typed, Finish, SetStatus
<1>16. ASSUME NEW t \in Launch, Except(t) PROVE Typed'
  BY <1>a, <1>b, <1>16 DEF Typed, Except, RaiseOut, SetStatus, LocalsTyped
<1>17. ASSUME NEW t \in Launch, MarkRecover(t) PROVE Typed'
  BY <1>a, <1>b, <1>17, Read DEF Typed, MarkRecover, Registry
<1>18. ASSUME NEW t \in Task, Fail(t) PROVE Typed'
  BY <1>a, <1>b, <1>18 DEF Typed, Fail, SetStatus, Registry
<1>19. ASSUME NEW t \in Natural, StartNatural(t) PROVE Typed'
  BY <1>a, <1>b, <1>19 DEF Typed, StartNatural, Row, Registry, LocalsTyped
<1>20. ASSUME NEW t \in Natural, BackgroundFails(t) PROVE Typed'
  BY <1>a, <1>b, <1>20 DEF Typed, BackgroundFails, SetStatus
<1>21. ASSUME NEW t \in Answer, ReadDecision(t) PROVE Typed'
  BY <1>a, <1>b, <1>21, Remembers DEF Typed, ReadDecision, Row, Registry, LocalsTyped
<1>22. ASSUME NEW t \in Answer, ResolveDecision(t) PROVE Typed'
  BY <1>a, <1>b, <1>22 DEF Typed, ResolveDecision, Registry
<1>23. ASSUME NEW t \in Answer, Resume(t) PROVE Typed'
  BY <1>a, <1>b, <1>23 DEF Typed, Resume, Row, Registry, LocalsTyped
<1>24. ASSUME NEW t \in Task, End(t) PROVE Typed'
  <2>1. PICK how \in Outcome :
          /\ local' = [local EXCEPT ![t].outcome = how]
          /\ runtime' = [runtime EXCEPT ![Mine(t)] = IF how = "paused" THEN "paused" ELSE "ended"]
          /\ decision' = IF how = "paused" THEN [id |-> decision.id + 1, open |-> TRUE] ELSE decision
          /\ running' = IF t \in Launch /\ how # "paused" THEN NULL ELSE running
          /\ checkpoint' = RunOf(t)
    BY <1>24 DEF End
  <2>2. LocalsTyped'
    BY <2>1, Remembers DEF LocalsTyped
  <2>3. PlacesTyped' /\ status' \in Status
    BY <1>a, <1>b, <1>24 DEF End
  <2>4. decision' \in [id : Nat, open : BOOLEAN]
    BY <1>b, <2>1
  <2> QED
    BY <1>b, <2>1, <2>2, <2>3, <2>4, Read DEF Typed
<1>25. ASSUME NEW t \in Answer, Ensure(t) PROVE Typed'
  <2>1. t \in Task /\ t \in Graph /\ running \in Graph \cup {NULL}
    BY <1>b DEF Graph, Task, Run
  <2>2. CASE Leave(t, "fail") /\ UNCHANGED runtime
    BY <1>a, <1>b, <1>25, <2>1, <2>2 DEF Ensure, Typed, Row, Registry
  <2>3. ASSUME NEW g \in Graph \cup {NULL}, NEW r \in Run \cup {NULL},
               local' = [local EXCEPT ![t].uses = g, ![t].run = r], Goto(t, "lock")
        PROVE  PlacesTyped' /\ LocalsTyped'
    BY <1>a, <2>1, <2>3, Remembers DEF LocalsTyped
  <2>4. CASE /\ local' = [local EXCEPT ![t].uses = running, ![t].run = running]
             /\ Goto(t, "lock") /\ UNCHANGED runtime
    BY <1>b, <1>25, <2>1, <2>3, <2>4 DEF Ensure, Typed, Row, Registry
  <2>5. CASE /\ local' = [local EXCEPT ![t].uses = t, ![t].run = checkpoint]
             /\ runtime' = [runtime EXCEPT ![t] = "paused"]
             /\ Goto(t, "lock")
    BY <1>b, <1>25, <2>1, <2>3, <2>5 DEF Ensure, Typed, Row, Registry
  <2> QED
    BY <1>25, <2>2, <2>4, <2>5 DEF Ensure
<1>26. ASSUME ReadStatus \/ DetectOrphan \/ Reconcile \/ LockExpires PROVE Typed'
  BY <1>a, <1>b, <1>26 DEF ReadStatus, DetectOrphan, Reconcile, LockExpires, Typed, Row, Registry, PlacesTyped, LocalsTyped
<1>27. ASSUME Crash PROVE Typed'
  BY <1>a, <1>b, <1>27, NothingTyped DEF Crash, Typed, Row, PlacesTyped, LocalsTyped
<1>28. ASSUME UNCHANGED vars PROVE Typed'
  BY <1>28 DEF vars, Typed, PlacesTyped, LocalsTyped
<1> QED
  BY <1>a, <1>1, <1>2, <1>3, <1>4, <1>5, <1>6, <1>7, <1>8, <1>9, <1>10, <1>11, <1>12, <1>13, <1>14, <1>15, <1>16, <1>17, <1>18, <1>19, <1>20, <1>21, <1>22, <1>23, <1>24, <1>25, <1>26, <1>27, <1>28
     DEF Next, LaunchStep, NaturalStep, AnswerStep

------------------------------------------------------------------------------
(* One launch *)

SomeBroken == \E n \in Natural : At(n, "broken")

\* The mark belongs to the launch in the body; a broken background task stays
\* broken until a crash ends everything.
Marked == SomeBroken \/ \A t \in Launch : InBody(t) => executing

LEMMA LaunchInductive ==
  Typed /\ Marked /\ OneLaunch /\ [Next]_vars => Marked' /\ OneLaunch'
<1> SUFFICES ASSUME Typed, Marked, OneLaunch, [Next]_vars PROVE Marked' /\ OneLaunch'
  OBVIOUS
<1> USE LifecycleAssumption DEF Typed, PlacesTyped, Task, At, InBody, SomeBroken, Marked, OneLaunch, Reconciler
<1>1. ASSUME NEW t \in Launch, Check(t) PROVE Marked' /\ OneLaunch'
  BY <1>1 DEF Check, Alive, Leave, Goto
<1>2. ASSUME NEW t \in Launch,
             Resolve(t) \/ Lock(t) \/ Unavailable(t) \/ Delete(t)
      PROVE  Marked' /\ OneLaunch'
  BY <1>2 DEF Resolve, Lock, RaiseOut, Locked, Raised, Unavailable, Delete, Goto, Leave, Registry
<1>3. ASSUME NEW t \in Launch,
             ReadRow(t) \/ WriteConfig(t) \/ BeginRun(t) \/ ClearRecover(t) \/ Register(t)
      PROVE  Marked' /\ OneLaunch'
  BY <1>3 DEF ReadRow, WriteConfig, BeginRun, ClearRecover, Register, CompileFails, RaiseOut, Goto, Leave, Registry
<1>4. ASSUME NEW t \in Launch, Start(t) \/ End(t) \/ Timeout(t) \/ AfterTimeout(t) \/ Raise(t)
      PROVE  Marked' /\ OneLaunch'
  BY <1>4 DEF Start, End, Timeout, AfterTimeout, Raise, Raised, Goto, Leave, Registry
<1>5. ASSUME NEW t \in Launch, Finish(t) \/ Except(t) \/ MarkRecover(t) \/ Fail(t)
      PROVE  Marked' /\ OneLaunch'
  BY <1>5 DEF Finish, Except, RaiseOut, MarkRecover, Fail, Goto, Leave, Registry
<1>6. ASSUME NEW t \in Natural, NaturalStep(t) PROVE Marked' /\ OneLaunch'
  <2>1. ~At(t, "broken") /\ \A u \in Task : u # t => pc'[u] = pc[u]
    <3>1. CASE StartNatural(t) \/ Register(t) \/ BeginRun(t)
      BY <3>1 DEF StartNatural, Register, CompileFails, BeginRun, Goto
    <3>2. CASE Lock(t) \/ Start(t) \/ End(t)
      BY <3>2 DEF Lock, Start, End, Goto
    <3>3. CASE Raise(t) \/ BackgroundFails(t) \/ Finish(t)
      BY <3>3 DEF Raise, BackgroundFails, Finish, Goto, Leave
    <3> QED
      BY <1>6, <3>1, <3>2, <3>3 DEF NaturalStep
  <2>2. (executing => executing') \/ pc'[t] = "broken"
    <3>1. CASE StartNatural(t) \/ Register(t) \/ BeginRun(t)
      BY <3>1 DEF StartNatural, Register, CompileFails, BeginRun, Registry
    <3>2. CASE Lock(t) \/ Start(t) \/ End(t)
      BY <3>2 DEF Lock, Start, End, Registry
    <3>3. CASE Raise(t) \/ BackgroundFails(t) \/ Finish(t)
      BY <3>3 DEF Raise, BackgroundFails, Finish, Goto, Leave, Registry
    <3> QED
      BY <1>6, <3>1, <3>2, <3>3 DEF NaturalStep
  <2> QED
    BY <2>1, <2>2
<1>7. ASSUME NEW t \in Answer, AnswerStep(t) PROVE Marked' /\ OneLaunch'
  <2>1. \A u \in Task : u # t => pc'[u] = pc[u]
    <3>1. CASE ReadDecision(t) \/ ResolveDecision(t) \/ Ensure(t)
      BY <3>1 DEF ReadDecision, ResolveDecision, Ensure, Goto, Leave
    <3>2. CASE Lock(t) \/ Resume(t) \/ End(t)
      BY <3>2 DEF Lock, Resume, End, Goto, Leave
    <3>3. CASE Raise(t) \/ Finish(t) \/ Fail(t)
      BY <3>3 DEF Raise, Finish, Fail, Goto, Leave
    <3> QED
      BY <1>7, <3>1, <3>2, <3>3 DEF AnswerStep
  <2>2. executing => executing'
    <3>1. CASE ReadDecision(t) \/ ResolveDecision(t) \/ Ensure(t)
      BY <3>1 DEF ReadDecision, ResolveDecision, Ensure, Registry
    <3>2. CASE Lock(t) \/ Resume(t) \/ End(t)
      BY <3>2 DEF Lock, Resume, End, Registry
    <3>3. CASE Raise(t) \/ Finish(t) \/ Fail(t)
      BY <3>3 DEF Raise, Finish, Fail, Registry
    <3> QED
      BY <1>7, <3>1, <3>2, <3>3 DEF AnswerStep
  <2> QED
    BY <2>1, <2>2
<1>8. ASSUME ReadStatus \/ DetectOrphan \/ Reconcile \/ LockExpires \/ UNCHANGED vars PROVE Marked' /\ OneLaunch'
  BY <1>8 DEF ReadStatus, DetectOrphan, Reconcile, LockExpires, vars, Goto, Registry
<1>9. ASSUME Crash PROVE Marked' /\ OneLaunch'
  BY <1>9 DEF Crash
<1> QED
  BY <1>1, <1>2, <1>3, <1>4, <1>5, <1>6, <1>7, <1>8, <1>9 DEF Next, LaunchStep

------------------------------------------------------------------------------
(* One runner *)

\* Launches and natural runs that have not come to the execution of their graph
Before == {"waiting", "check", "lock", "delete", "config", "rewrite", "begin", "clear", "register"}

NotStarted == \A t \in Launch \cup Natural : pc[t] \in Before => runtime[t] = "new"

\* An answer uses a registered graph or its own copy, which it has when it
\* comes to resume it.  A copy is of a run that has been executed and that the
\* registry has lost: it registers no more.
Usable ==
  \A t \in Answer :
    /\ local[t].uses \in Run \cup {t, NULL}
    /\ pc[t] \in {"lock", "resume"} => local[t].uses # NULL
    /\ ~Copies(t) => local[t].run = local[t].uses
    /\ Copies(t) => local[t].run \in Run /\ pc[local[t].run] \notin Before /\ running # local[t].run

Stored == checkpoint # NULL => pc[checkpoint] \notin Before

OneGraph ==
  \A t, u \in Task : At(t, "execute") /\ At(u, "execute") /\ Mine(t) = Mine(u) => t = u

\* The graph of whoever executes is not PAUSED, which is what resume() asks.
Executed ==
  \A t \in Task : At(t, "execute") =>
    IF t \in Answer THEN local[t].uses # NULL /\ runtime[local[t].uses] = "running"
                    ELSE runtime[t] \in {"new", "running"}

RunInv == NotStarted /\ Usable /\ Stored /\ Executed /\ OneGraph

LEMMA RunnerInductive == Typed /\ RunInv /\ [Next]_vars => RunInv'
<1> SUFFICES ASSUME Typed, RunInv, [Next]_vars PROVE RunInv'
  OBVIOUS
<1> USE LifecycleAssumption DEF Typed, PlacesTyped, LocalsTyped, Task, Graph, At, Reconciler,
        RunInv, NotStarted, Before, Usable, Copies, Stored, Executed, OneGraph, Mine, Run, Local,
        Row, Registry, SetStatus
<1>1. ASSUME NEW t \in Launch, Resolve(t) \/ Check(t) PROVE RunInv'
  BY <1>1 DEF Resolve, Check, Goto, Leave, Nothing
<1>2. ASSUME NEW t \in Launch, Unavailable(t) \/ Delete(t) \/ ReadRow(t) \/ WriteConfig(t)
      PROVE  RunInv'
  <2>1. CASE Unavailable(t) \/ WriteConfig(t)
    BY <2>1 DEF Unavailable, WriteConfig, Goto, Leave, Nothing
  <2>2. CASE Delete(t)
    BY <2>2 DEF Delete, Goto
  <2>3. CASE ReadRow(t)
    BY <2>3 DEF ReadRow, Goto
  <2> QED
    BY <1>2, <2>1, <2>2, <2>3
<1>3. ASSUME NEW t \in Task, Lock(t) PROVE RunInv'
  BY <1>3 DEF Lock, RaiseOut, Locked, Raised, Goto
<1>4. ASSUME NEW t \in Launch \cup Natural, BeginRun(t) \/ Register(t) PROVE RunInv'
  BY <1>4 DEF BeginRun, Register, CompileFails, RaiseOut, Goto
<1>5. ASSUME NEW t \in Launch, ClearRecover(t) PROVE RunInv'
  BY <1>5 DEF ClearRecover, Goto
<1>6. ASSUME NEW t \in Launch \cup Natural, Start(t) PROVE RunInv'
  BY <1>6 DEF Start
<1>7. ASSUME NEW t \in Task, End(t) PROVE RunInv'
  <2>1. /\ pc[t] = "execute" /\ pc' = [pc EXCEPT ![t] = "final"]
        /\ running' \in {running, NULL} /\ checkpoint' = RunOf(t)
        /\ runtime' = [runtime EXCEPT ![Mine(t)] = runtime'[Mine(t)]]
        /\ runtime[Mine(t)] = "running"
        /\ \E o \in Outcome : local' = [local EXCEPT ![t].outcome = o]
    BY <1>7 DEF End, Goto
  <2>2. \A u \in Task : local'[u].uses = local[u].uses /\ local'[u].run = local[u].run
    BY <2>1
  <2>3. NotStarted' /\ Usable'
    BY <2>1, <2>2
  <2>4. Stored'
    BY <2>1 DEF RunOf
  <2>5. Executed' /\ OneGraph'
    BY <2>1, <2>2
  <2> QED
    BY <2>3, <2>4, <2>5
<1>8. ASSUME NEW t \in Launch, Timeout(t) \/ AfterTimeout(t) PROVE RunInv'
  BY <1>8 DEF Timeout, AfterTimeout, Goto, Leave, Nothing
<1>9. ASSUME NEW t \in Task, Raise(t) PROVE RunInv'
  BY <1>9 DEF Raise, Raised, Goto, Leave, Nothing
<1>10. ASSUME NEW t \in Task, Finish(t) \/ Fail(t) PROVE RunInv'
  BY <1>10 DEF Finish, Fail, Goto, Leave, Nothing
<1>11. ASSUME NEW t \in Launch, Except(t) \/ MarkRecover(t) PROVE RunInv'
  BY <1>11 DEF Except, RaiseOut, MarkRecover, Goto, Leave, Nothing
<1>12. ASSUME NEW t \in Natural, StartNatural(t) \/ BackgroundFails(t) PROVE RunInv'
  BY <1>12 DEF StartNatural, BackgroundFails, Goto, Leave, Nothing
<1>13. ASSUME NEW t \in Answer, ReadDecision(t) \/ ResolveDecision(t) PROVE RunInv'
  BY <1>13 DEF ReadDecision, ResolveDecision, Goto, Leave, Nothing
<1>14. ASSUME NEW t \in Answer, Ensure(t) PROVE RunInv'
  <2>a. t \in Task /\ pc' = [pc EXCEPT ![t] = pc'[t]] /\ pc'[t] \in {"lock", "fail"} /\ UNCHANGED <<Row, Registry>>
    BY <1>14 DEF Ensure, Goto, Leave
  <2>1. CASE Leave(t, "fail") /\ UNCHANGED runtime
    BY <1>14, <2>1 DEF Ensure, Goto, Leave, Nothing
  <2>2. CASE /\ running # NULL
             /\ local' = [local EXCEPT ![t].uses = running, ![t].run = running]
             /\ UNCHANGED runtime
    <3>1. /\ local'[t].uses = running /\ local'[t].run = running /\ running \in Run /\ running # t
          /\ \A u \in Task : u # t => local'[u] = local[u]
      BY <2>2, <2>a
    <3> HIDE <2>2
    <3>2. Usable'
      BY <2>a, <3>1
    <3> QED
      BY <2>2, <2>a, <3>1, <3>2
  <2>3. CASE /\ running = NULL /\ checkpoint # NULL
             /\ local' = [local EXCEPT ![t].uses = t, ![t].run = checkpoint]
             /\ runtime' = [runtime EXCEPT ![t] = "paused"]
    <3>1. /\ local'[t].uses = t /\ local'[t].run = checkpoint /\ checkpoint \in Run
          /\ \A u \in Task : u # t => local'[u] = local[u] /\ runtime'[u] = runtime[u]
      BY <2>3, <2>a
    <3>2. Usable'
      BY <2>3, <2>a, <3>1
    <3>3. \A u \in Task : At(u, "execute") => Mine(u) # t
      BY <1>14 DEF Ensure
    <3>4. NotStarted' /\ Stored' /\ OneGraph'
      BY <2>3, <2>a, <3>1
    <3>5. Executed'
      BY <2>3, <2>a, <3>1, <3>3
    <3> QED
      BY <3>2, <3>4, <3>5
  <2> QED
    BY <1>14, <2>1, <2>2, <2>3 DEF Ensure
<1>15. ASSUME NEW t \in Answer, Resume(t) PROVE RunInv'
  <2>1. CASE Leave(t, "fail") /\ UNCHANGED runtime
    BY <1>15, <2>1 DEF Resume, Leave, Goto, Nothing
  <2>2. CASE /\ runtime[local[t].uses] = "paused"
             /\ runtime' = [runtime EXCEPT ![local[t].uses] = "running"]
             /\ Goto(t, "execute") /\ UNCHANGED local
    <3> DEFINE g == local[t].uses
    <3>1. \A u \in Task : At(u, "execute") => Mine(u) # g
      BY <2>2
    <3>2. g \in Graph
      BY <1>15 DEF Resume
    <3>3. \A u \in Launch \cup Natural : u = g => pc[u] \notin Before
      BY <2>2
    <3>a. UNCHANGED <<Row, Registry>> /\ \A u \in Task : u # t => pc'[u] = pc[u]
      BY <1>15, <2>2 DEF Resume, Goto
    <3>b. pc'[t] = "execute" /\ \A u \in Task : u # g => runtime'[u] = runtime[u]
      BY <2>2 DEF Goto
    <3>4. NotStarted' /\ Usable' /\ Stored'
      <4>1. NotStarted'
        BY <3>a, <3>b, <3>3
      <4>2. Usable'
        BY <2>2, <3>a, <3>b
      <4>3. Stored'
        BY <3>a, <3>b
      <4> QED
        BY <4>1, <4>2, <4>3
    <3>5. OneGraph'
      BY <2>2, <3>1 DEF Goto
    <3>6. Executed'
      BY <2>2, <3>1, <3>2 DEF Goto
    <3> QED
      BY <3>4, <3>5, <3>6
  <2> QED
    BY <1>15, <2>1, <2>2 DEF Resume
<1>16. ASSUME ReadStatus \/ DetectOrphan \/ Reconcile \/ LockExpires PROVE RunInv'
  BY <1>16 DEF ReadStatus, DetectOrphan, Reconcile, LockExpires, Goto
<1>17. ASSUME Crash PROVE RunInv'
  BY <1>17 DEF Crash, Nothing
<1>18. ASSUME UNCHANGED vars PROVE RunInv'
  BY <1>18 DEF vars
<1> QED
  BY <1>1, <1>2, <1>3, <1>4, <1>5, <1>6, <1>7, <1>8, <1>9, <1>10, <1>11, <1>12, <1>13, <1>14,
     <1>15, <1>16, <1>17, <1>18 DEF Next, LaunchStep, NaturalStep, AnswerStep

------------------------------------------------------------------------------
(* The other types *)

FlagsTyped ==
  /\ recover \in BOOLEAN
  /\ executing \in BOOLEAN /\ stale \in BOOLEAN /\ crashes \in 0 .. MaxCrashes

LEMMA FlagsInductive == FlagsTyped /\ [Next]_vars => FlagsTyped'
<1> SUFFICES ASSUME FlagsTyped, [Next]_vars PROVE FlagsTyped'
  OBVIOUS
<1> USE LifecycleAssumption DEF FlagsTyped, Row, Registry, Rest, SetStatus
<1>1. ASSUME NEW t \in Launch, LaunchStep(t) PROVE FlagsTyped'
  <2>1. CASE Resolve(t) \/ Check(t) \/ Lock(t) \/ Unavailable(t) \/ Delete(t) \/ ReadRow(t)
    BY <2>1 DEF Resolve, Check, Lock, RaiseOut, Unavailable, Delete, ReadRow
  <2>2. CASE WriteConfig(t) \/ BeginRun(t) \/ ClearRecover(t) \/ Register(t) \/ Start(t) \/ End(t)
    BY <2>2 DEF WriteConfig, BeginRun, ClearRecover, Register, CompileFails, RaiseOut, Start, End
  <2>3. CASE Timeout(t) \/ AfterTimeout(t) \/ Raise(t) \/ Finish(t)
    BY <2>3 DEF Timeout, AfterTimeout, Raise, Finish
  <2>4. CASE Except(t) \/ MarkRecover(t) \/ Fail(t)
    BY <2>4 DEF Except, RaiseOut, MarkRecover, Fail
  <2> QED
    BY <1>1, <2>1, <2>2, <2>3, <2>4 DEF LaunchStep
<1>2. ASSUME NEW t \in Natural, NaturalStep(t) PROVE FlagsTyped'
  <2>1. CASE StartNatural(t) \/ Register(t) \/ BeginRun(t) \/ Lock(t) \/ Start(t)
    BY <2>1 DEF StartNatural, Register, CompileFails, BeginRun, Lock, RaiseOut, Start
  <2>2. CASE End(t) \/ Raise(t) \/ BackgroundFails(t) \/ Finish(t)
    BY <2>2 DEF End, Raise, BackgroundFails, Finish
  <2> QED
    BY <1>2, <2>1, <2>2 DEF NaturalStep
<1>3. ASSUME NEW t \in Answer, AnswerStep(t) PROVE FlagsTyped'
  <2>1. CASE ReadDecision(t) \/ ResolveDecision(t) \/ Ensure(t) \/ Lock(t) \/ Resume(t)
    BY <2>1 DEF ReadDecision, ResolveDecision, Ensure, Lock, RaiseOut, Resume
  <2>2. CASE End(t) \/ Raise(t) \/ Finish(t) \/ Fail(t)
    BY <2>2 DEF End, Raise, Finish, Fail
  <2> QED
    BY <1>3, <2>1, <2>2 DEF AnswerStep
<1>4. ASSUME ReadStatus \/ DetectOrphan \/ Reconcile \/ LockExpires \/ UNCHANGED vars PROVE FlagsTyped'
  BY <1>4 DEF ReadStatus, DetectOrphan, Reconcile, LockExpires, vars
<1>5. ASSUME Crash PROVE FlagsTyped'
  <2>1. recover' = recover /\ executing' = FALSE /\ crashes' \in 0 .. MaxCrashes
    BY <1>5 DEF Crash
  <2>2. stale' = (stale \/ \E t \in Task : HoldsLock(t))
    BY <1>5 DEF Crash
  <2>3. stale' \in BOOLEAN
    BY <2>2
  <2> QED
    BY <2>1, <2>3
<1> QED
  BY <1>1, <1>2, <1>3, <1>4, <1>5 DEF Next

------------------------------------------------------------------------------
IInv == Typed /\ FlagsTyped /\ Marked /\ OneLaunch /\ RunInv

LEMMA Invariance == Spec => []IInv
<1>1. Init => IInv
  <2> SUFFICES ASSUME Init PROVE IInv
    OBVIOUS
  <2>1. Typed
    <3>1. PlacesTyped
      BY DEF Init, AtRest, PlacesTyped, Place, Over
    <3> QED
      BY <3>1, NothingTyped DEF Init, AtRest, Typed, LocalsTyped, Status
  <2>2. FlagsTyped
    <3>1. recover = FALSE /\ executing = FALSE /\ stale = FALSE /\ crashes = 0
      BY DEF Init, AtRest
    <3>2. 0 \in 0 .. MaxCrashes
      BY LifecycleAssumption
    <3> QED
      BY <3>1, <3>2 DEF FlagsTyped
  <2>3. Marked /\ OneLaunch
    BY DEF Init, AtRest, Marked, OneLaunch, InBody, Task
  <2>4. RunInv
    BY LifecycleAssumption
       DEF Init, AtRest, RunInv, NotStarted, Usable, Copies, Stored, Executed, OneGraph, At, Nothing, Task, Graph
  <2> QED
    BY <2>1, <2>2, <2>3, <2>4 DEF IInv
<1>2. IInv /\ [Next]_vars => IInv'
  BY TypedInductive, FlagsInductive, LaunchInductive, RunnerInductive DEF IInv
<1> QED
  BY <1>1, <1>2, PTL DEF Spec

\* The state of the lifecycle has the declared types.
THEOREM TypeCorrect == Spec => []TypeOK
<1>1. IInv => TypeOK
  BY DEF IInv, Typed, FlagsTyped, PlacesTyped, LocalsTyped, TypeOK, Place, Graph, Task
<1> QED
  BY <1>1, Invariance, PTL

\* However many launches of a project come together, whatever waits and fails
\* between their awaits, at most one is in the body of execute_workflow, unless
\* a background task that failed has dropped the mark.
THEOREM LaunchExclusion == Spec => []OneLaunch
<1>1. IInv => OneLaunch
  BY DEF IInv
<1> QED
  BY <1>1, Invariance, PTL

\* However many answers, launches and natural runs meet, crashes included, a run
\* is executed by one coroutine at a time, unless the registry has lost it and
\* one of them works on a copy of the checkpoint.
THEOREM RunnerExclusion == Spec => []OneRunner
<1>1. IInv => OneRunner
  <2> SUFFICES ASSUME IInv, NEW t \in Task, NEW u \in Task,
                      At(t, "execute"), At(u, "execute"), RunOf(t) = RunOf(u)
               PROVE  t = u \/ (running # RunOf(t) /\ (Copies(t) \/ Copies(u)))
    BY DEF OneRunner
  <2>1. CASE Copies(t) \/ Copies(u)
    BY <2>1 DEF IInv, RunInv, Usable, Copies, RunOf
  <2>2. CASE ~Copies(t) /\ ~Copies(u)
    <3>1. Mine(t) = RunOf(t) /\ Mine(u) = RunOf(u)
      BY <2>2 DEF IInv, RunInv, Usable, Mine, RunOf
    <3> QED
      BY <3>1 DEF IInv, RunInv, OneGraph
  <2> QED
    BY <2>1, <2>2
<1> QED
  BY <1>1, Invariance, PTL
==============================================================================
