------------------------------- MODULE RunLock -------------------------------
(***************************************************************************)
(* The run lock of core/run/run_lock.py for one project: several processes *)
(* (instances) share a database table with one row per locked project.     *)
(* The owner refreshes the row; a row that has been silent for long enough *)
(* may be taken over.  Each SQL statement with its commit is one step.     *)
(*                                                                         *)
(* Time is counted in ticks and only differences are kept: the age of the  *)
(* heartbeat in the row, and for each task how long ago it read the clock. *)
(* MaxBeatDelay and MaxElapsed say how late a beat or a database call may  *)
(* be; the code bounds neither.                                            *)
(***************************************************************************)
EXTENDS Integers, FiniteSets

CONSTANTS
  Instance,            \* INSTANCE_IDs; a process that restarts gets a new one
  Task,                \* coroutines that run workflows
  InstanceOf,          \* [Task -> Instance]
  HEARTBEAT_INTERVAL,
  STALE_AFTER,
  MaxBeatDelay,        \* longest time between two beats of a live process
  MaxElapsed,          \* longest duration of an acquire or of a release
  Mortal,              \* instances that may die
  Failing,             \* statements that may raise, by the pc they belong to
  NULL

Statement == {"beat", "insert", "select", "reinsert", "takeover", "confirm", "release"}

ASSUME LockAssumption ==
  /\ InstanceOf \in [Task -> Instance]
  /\ HEARTBEAT_INTERVAL \in Nat \ {0} /\ STALE_AFTER \in Nat \ {0}
  /\ MaxBeatDelay \in Nat /\ MaxBeatDelay >= HEARTBEAT_INTERVAL
  /\ MaxElapsed \in Nat
  /\ Mortal \subseteq Instance
  /\ Failing \subseteq Statement
  /\ NULL \notin Instance /\ NULL \notin [owner : Instance, age : Int]

VARIABLES
  row,        \* the row of the project: owner and age of heartbeat_at
  up,         \* which instances are alive
  beating,    \* instances whose heartbeat task runs
  sinceBeat,  \* time since the heartbeat task started or last woke up
  pc,         \* where each task is
  elapsed,    \* time since the task read `now`, or began its release
  seen        \* the stale owner a task has read

vars == <<row, up, beating, sinceBeat, pc, elapsed, seen>>

\* Beyond this age nothing depends on it any more.
MaxAge == STALE_AFTER + MaxElapsed

Acquiring == {"insert", "select", "reinsert", "takeover", "confirm"}

TypeOK ==
  /\ row \in [owner : Instance, age : 0 .. MaxAge] \cup {NULL}
  /\ up \subseteq Instance
  /\ beating \subseteq Instance
  /\ sinceBeat \in [Instance -> 0 .. MaxBeatDelay]
  /\ pc \in [Task -> {"idle", "active", "release", "dead"} \cup Acquiring]
  /\ elapsed \in [Task -> 0 .. MaxElapsed]
  /\ seen \in [Task -> Instance \cup {NULL}]

Init ==
  /\ row = NULL
  /\ up = Instance
  /\ beating = {}
  /\ sinceBeat = [i \in Instance |-> 0]
  /\ pc = [t \in Task |-> "idle"]
  /\ elapsed = [t \in Task |-> 0]
  /\ seen = [t \in Task |-> NULL]

Goto(t, where) == pc' = [pc EXCEPT ![t] = where]

\* What the statements write and ask: the owner is always this instance, and
\* heartbeat_at is the `now` the task read when it began.
MutOwnRow(t) == [owner |-> InstanceOf[t], age |-> elapsed[t] - HEARTBEAT_INTERVAL]

OwnRow(t) == [owner |-> InstanceOf[t], age |-> elapsed[t]]
OwnedBy(i) == row # NULL /\ row.owner = i

------------------------------------------------------------------------------
(* The heartbeat *)

StartHeartbeat(i) ==
  /\ beating' = beating \cup {i}
  /\ sinceBeat' = [sinceBeat EXCEPT ![i] = 0]

\* The UPDATE asks for the owner; whether a row was hit is not looked at.
MutBeat(i) ==
  /\ i \in beating /\ sinceBeat[i] >= HEARTBEAT_INTERVAL
  /\ sinceBeat' = [sinceBeat EXCEPT ![i] = 0]
  /\ UNCHANGED <<row, up, beating, pc, elapsed, seen>>

Beat(i) ==
  /\ i \in beating /\ sinceBeat[i] >= HEARTBEAT_INTERVAL
  /\ sinceBeat' = [sinceBeat EXCEPT ![i] = 0]
  /\ row' = IF OwnedBy(i) THEN [row EXCEPT !.age = 0] ELSE row
  /\ UNCHANGED <<up, beating, pc, elapsed, seen>>

\* An exception ends the heartbeat task; the workflow goes on.
BeatDies(i) ==
  /\ "beat" \in Failing /\ i \in beating
  /\ beating' = beating \ {i}
  /\ UNCHANGED <<row, up, sinceBeat, pc, elapsed, seen>>

------------------------------------------------------------------------------
(* acquire_run_lock *)

\* now = time.time()
Begin(t) ==
  /\ pc[t] = "idle"
  /\ Goto(t, "insert")
  /\ elapsed' = [elapsed EXCEPT ![t] = 0]
  /\ UNCHANGED <<row, up, beating, sinceBeat, seen>>

\* INSERT succeeds when there is no row
Inserted(t) ==
  /\ row = NULL
  /\ row' = OwnRow(t)
  /\ StartHeartbeat(InstanceOf[t])
  /\ Goto(t, "active")
  /\ UNCHANGED <<up, elapsed, seen>>

\* Any exception is taken for a primary-key conflict.
Conflict(t, next) ==
  /\ row # NULL \/ pc[t] \in Failing
  /\ Goto(t, next)
  /\ UNCHANGED <<row, up, beating, sinceBeat, elapsed, seen>>

Insert(t) == pc[t] = "insert" /\ (Inserted(t) \/ Conflict(t, "select"))

\* The holder released between the two statements: one more try.
Reinsert(t) == pc[t] = "reinsert" /\ (Inserted(t) \/ Conflict(t, "idle"))

\* now - heartbeat_at < STALE_AFTER, both as the task knows them
Alive(t) == row.age - elapsed[t] < STALE_AFTER

MutSelect(t) ==
  /\ pc[t] = "select"
  /\ Goto(t, IF row = NULL THEN "reinsert"
             ELSE IF row.owner = InstanceOf[t] THEN "active"
             ELSE "idle")
  /\ UNCHANGED <<row, up, beating, sinceBeat, elapsed, seen>>

\* SELECT: gone, one's own (re-entry, no heartbeat is started), alive or stale
Select(t) ==
  /\ pc[t] = "select"
  /\ \/ /\ row = NULL
        /\ Goto(t, "reinsert") /\ UNCHANGED seen
     \/ /\ OwnedBy(InstanceOf[t])
        /\ Goto(t, "active") /\ UNCHANGED seen
     \/ /\ row # NULL /\ ~OwnedBy(InstanceOf[t])
        /\ IF Alive(t)
           THEN Goto(t, "idle") /\ UNCHANGED seen
           ELSE Goto(t, "takeover") /\ seen' = [seen EXCEPT ![t] = row.owner]
  /\ UNCHANGED <<row, up, beating, sinceBeat, elapsed>>

\* UPDATE ... WHERE owner = the owner read: the age is not asked again
MutTakeover(t) ==
  /\ pc[t] = "takeover"
  /\ row' = IF row # NULL THEN OwnRow(t) ELSE row
  /\ Goto(t, "confirm")
  /\ UNCHANGED <<up, beating, sinceBeat, elapsed, seen>>

Takeover(t) ==
  /\ pc[t] = "takeover"
  /\ row' = IF OwnedBy(seen[t]) THEN OwnRow(t) ELSE row
  /\ Goto(t, "confirm")
  /\ UNCHANGED <<up, beating, sinceBeat, elapsed, seen>>

\* SELECT owner: did the UPDATE hit?
Confirm(t) ==
  /\ pc[t] = "confirm"
  /\ seen' = [seen EXCEPT ![t] = NULL]
  /\ IF OwnedBy(InstanceOf[t])
     THEN Goto(t, "active") /\ StartHeartbeat(InstanceOf[t])
     ELSE Goto(t, "idle") /\ UNCHANGED <<beating, sinceBeat>>
  /\ UNCHANGED <<row, up, elapsed>>

\* An exception anywhere else leaves acquire_run_lock; what was written stays.
Raise(t) ==
  /\ pc[t] \in {"select", "takeover", "confirm"} \cap Failing
  /\ Goto(t, "idle")
  /\ seen' = [seen EXCEPT ![t] = NULL]
  /\ UNCHANGED <<row, up, beating, sinceBeat, elapsed>>

------------------------------------------------------------------------------
(* release_run_lock, at the end of the run_lock block *)

StopHeartbeat(t) ==
  /\ pc[t] = "active"
  /\ beating' = beating \ {InstanceOf[t]}
  /\ Goto(t, "release")
  /\ elapsed' = [elapsed EXCEPT ![t] = 0]
  /\ UNCHANGED <<row, up, sinceBeat, seen>>

\* DELETE ... WHERE owner = this instance
Delete(t) ==
  /\ pc[t] = "release"
  /\ \/ row' = IF OwnedBy(InstanceOf[t]) THEN NULL ELSE row
     \/ "release" \in Failing /\ row' = row
  /\ Goto(t, "idle")
  /\ UNCHANGED <<up, beating, sinceBeat, elapsed, seen>>

------------------------------------------------------------------------------
(* Crash and time *)

Crash(i) ==
  /\ i \in up \cap Mortal
  /\ up' = up \ {i}
  /\ beating' = beating \ {i}
  /\ pc' = [t \in Task |-> IF InstanceOf[t] = i THEN "dead" ELSE pc[t]]
  /\ UNCHANGED <<row, sinceBeat, elapsed, seen>>

\* A tick passes unless it would make a beat or a database call later than
\* MaxBeatDelay or MaxElapsed allow.
Waiting(t) == pc[t] \in Acquiring \cup {"release"}

Tick ==
  /\ \A i \in beating : sinceBeat[i] < MaxBeatDelay
  /\ \A t \in Task : Waiting(t) => elapsed[t] < MaxElapsed
  /\ sinceBeat' = [i \in Instance |-> IF i \in beating THEN sinceBeat[i] + 1 ELSE sinceBeat[i]]
  /\ elapsed' = [t \in Task |-> IF Waiting(t) THEN elapsed[t] + 1 ELSE elapsed[t]]
  /\ row' = IF row # NULL /\ row.age < MaxAge THEN [row EXCEPT !.age = @ + 1] ELSE row
  /\ UNCHANGED <<up, beating, pc, seen>>

------------------------------------------------------------------------------
Step(t) ==
  \/ Insert(t) \/ Select(t) \/ Reinsert(t) \/ Takeover(t) \/ Confirm(t)
  \/ StopHeartbeat(t) \/ Delete(t)

Next ==
  \/ \E t \in Task : Begin(t) \/ Step(t) \/ Raise(t)
  \/ \E i \in Instance : Beat(i) \/ BeatDies(i) \/ Crash(i)
  \/ Tick

\* Time passes, beats are sent and statements return; workflows end, and
\* somebody keeps asking for the project.
Fairness ==
  /\ WF_vars(Tick)
  /\ \A i \in Instance : WF_vars(Beat(i))
  /\ \A t \in Task : WF_vars(Begin(t)) /\ WF_vars(Step(t))

Spec == Init /\ [][Next]_vars
FairSpec == Spec /\ Fairness

------------------------------------------------------------------------------
\* Workflows of one project never run in two live processes at once.
MutualExclusion ==
  \A t, u \in Task :
    pc[t] = "active" /\ pc[u] = "active" => InstanceOf[t] = InstanceOf[u]

\* A process that runs a workflow under the lock is not displaced: from
\* acquire to release the row keeps naming it.
NeverDisplaced ==
  [][\A t \in Task :
       pc[t] = "active" /\ pc'[t] = "active" /\ OwnedBy(InstanceOf[t])
         => row' # NULL /\ row'.owner = InstanceOf[t]]_vars

\* A row nobody keeps alive does not lock the project for ever, whether its
\* owner died, lost its heartbeat or failed to delete it, as long as another
\* process keeps asking.
Silent(i) ==
  /\ OwnedBy(i) /\ i \notin beating
  /\ \E t \in Task : InstanceOf[t] # i /\ InstanceOf[t] \in up

SilentRowReplaced == \A i \in Instance : Silent(i) ~> ~Silent(i)
==============================================================================
