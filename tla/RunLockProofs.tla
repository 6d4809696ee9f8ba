---------------------------- MODULE RunLockProofs ----------------------------
(***************************************************************************)
(* Type correctness of the run lock for all constants, and mutual          *)
(* exclusion for any number of processes when the timing the code leaves   *)
(* open is good enough and no statement fails at the wrong place.          *)
(***************************************************************************)
EXTENDS RunLock, TLAPS

\* One workflow of the project per process; heartbeats, the confirming SELECT
\* and the DELETE do not fail; and a row can only look stale if its owner has
\* died: the longest silence of a live owner is one late beat, on top of the
\* time its own acquire took before and its release takes after.
ExclusionAssumption ==
  /\ \A t, u \in Task : InstanceOf[t] = InstanceOf[u] => t = u
  /\ Failing \cap {"beat", "confirm", "release"} = {}
  /\ MaxBeatDelay + 2 * MaxElapsed < STALE_AFTER

\* Running under the lock is having the row and a heartbeat.
RunsWithRow ==
  \A t \in Task : pc[t] = "active" => OwnedBy(InstanceOf[t]) /\ InstanceOf[t] \in beating

\* The row names a task only from its INSERT or UPDATE to its DELETE.
RowIsHeld ==
  \A t \in Task : OwnedBy(InstanceOf[t]) => pc[t] \in {"confirm", "active", "release", "dead"}

\* How silent the row of a live task can be.
RowIsFresh ==
  \A t \in Task : OwnedBy(InstanceOf[t]) =>
    /\ pc[t] = "confirm" => row.age <= elapsed[t]
    /\ pc[t] = "active"  => row.age <= sinceBeat[InstanceOf[t]] + MaxElapsed
    /\ pc[t] = "release" => row.age <= MaxBeatDelay + MaxElapsed + elapsed[t]

\* Whoever is about to be displaced has died.
VictimIsDead ==
  \A t, u \in Task : pc[t] = "takeover" /\ InstanceOf[u] = seen[t] => pc[u] = "dead"

IInv == TypeOK /\ RunsWithRow /\ RowIsHeld /\ RowIsFresh /\ VictimIsDead

------------------------------------------------------------------------------
\* The type invariant is inductive on its own.
LEMMA TypeInductive == TypeOK /\ [Next]_vars => TypeOK'
<1> SUFFICES ASSUME TypeOK, [Next]_vars PROVE TypeOK'
  OBVIOUS
<1> USE LockAssumption DEF LockAssumption, TypeOK, Acquiring, MaxAge, Goto
<1>1. ASSUME NEW t \in Task, Begin(t) PROVE TypeOK'
  BY <1>1 DEF Begin
<1>2. ASSUME NEW t \in Task, Insert(t) \/ Reinsert(t) PROVE TypeOK'
  BY <1>2 DEF Insert, Reinsert, Inserted, Conflict, OwnRow, StartHeartbeat
<1>3. ASSUME NEW t \in Task, Select(t) PROVE TypeOK'
  <2>1. row # NULL => row.owner \in Instance
    OBVIOUS
  <2> QED
    BY <2>1, <1>3 DEF Select, OwnedBy
<1>4. ASSUME NEW t \in Task, Takeover(t) PROVE TypeOK'
  BY <1>4 DEF Takeover, OwnRow
<1>5. ASSUME NEW t \in Task, Confirm(t) PROVE TypeOK'
  BY <1>5 DEF Confirm, StartHeartbeat
<1>6. ASSUME NEW t \in Task, StopHeartbeat(t) PROVE TypeOK'
  BY <1>6 DEF StopHeartbeat
<1>7. ASSUME NEW t \in Task, Delete(t) PROVE TypeOK'
  BY <1>7 DEF Delete
<1>8. ASSUME NEW t \in Task, Raise(t) PROVE TypeOK'
  BY <1>8 DEF Raise
<1>9. ASSUME NEW i \in Instance, Beat(i) PROVE TypeOK'
  BY <1>9 DEF Beat, OwnedBy
<1>10. ASSUME NEW i \in Instance, BeatDies(i) PROVE TypeOK'
  BY <1>10 DEF BeatDies
<1>11. ASSUME NEW i \in Instance, Crash(i) PROVE TypeOK'
  BY <1>11 DEF Crash
<1>12. ASSUME Tick PROVE TypeOK'
  <2>1. row' \in [owner : Instance, age : 0 .. MaxAge] \cup {NULL}
    BY <1>12 DEF Tick
  <2>2. sinceBeat' \in [Instance -> 0 .. MaxBeatDelay]
    BY <1>12 DEF Tick
  <2>3. elapsed' \in [Task -> 0 .. MaxElapsed]
    BY <1>12 DEF Tick
  <2> QED
    BY <2>1, <2>2, <2>3, <1>12 DEF Tick
<1>13. CASE UNCHANGED vars
  BY <1>13 DEF vars
<1> QED
  BY <1>1, <1>2, <1>3, <1>4, <1>5, <1>6, <1>7, <1>8, <1>9, <1>10, <1>11, <1>12, <1>13
     DEF Next, Step

\* The initial values are in their ranges.
LEMMA TypeInit == Init => TypeOK
BY LockAssumption DEF LockAssumption, Init, TypeOK, MaxAge

\* Whatever the number of processes and the timing, the ages and counters of
\* the lock stay in their ranges.
THEOREM TypeCorrect == Spec => []TypeOK
BY TypeInit, TypeInductive, PTL DEF Spec

------------------------------------------------------------------------------
(* Mutual exclusion *)

Held == RunsWithRow /\ RowIsHeld /\ RowIsFresh /\ VictimIsDead

\* A row that looks stale, even to a task that read the clock a while ago,
\* belongs to a dead process.
LEMMA StaleIsDead ==
  ASSUME ExclusionAssumption, IInv, NEW t \in Task, NEW u \in Task,
         OwnedBy(InstanceOf[u]), ~Alive(t)
  PROVE  pc[u] = "dead"
<1>1. /\ row.age \in 0 .. MaxAge
      /\ elapsed[t] \in 0 .. MaxElapsed /\ elapsed[u] \in 0 .. MaxElapsed
      /\ sinceBeat[InstanceOf[u]] \in 0 .. MaxBeatDelay
  BY LockAssumption DEF LockAssumption, IInv, TypeOK, OwnedBy
<1>2. MaxAge \in Nat /\ MaxElapsed \in Nat /\ MaxBeatDelay \in Nat /\ STALE_AFTER \in Nat
  BY LockAssumption DEF LockAssumption, MaxAge
<1>3. row.age >= STALE_AFTER
  BY <1>1, <1>2 DEF Alive
<1>4. pc[u] \notin {"confirm", "active", "release"}
  BY <1>1, <1>2, <1>3 DEF IInv, RowIsFresh, ExclusionAssumption
<1> QED
  BY <1>4 DEF IInv, RowIsHeld

\* A task that writes its own row while no other task runs.
LEMMA OwnRowType ==
  ASSUME TypeOK, NEW t \in Task
  PROVE  OwnRow(t) # NULL /\ OwnRow(t).owner = InstanceOf[t] /\ OwnRow(t).age = elapsed[t]
BY LockAssumption DEF LockAssumption, OwnRow, TypeOK

\* INSERT succeeds: there was no row, so nobody runs.
LEMMA InsertedHeld ==
  ASSUME ExclusionAssumption, IInv, NEW t \in Task, Inserted(t), pc[t] \in {"insert", "reinsert"}
  PROVE  Held'
<1> USE LockAssumption DEF LockAssumption, IInv, TypeOK
<1>1. /\ row' # NULL /\ row'.owner = InstanceOf[t] /\ row'.age = elapsed[t]
      /\ pc' = [pc EXCEPT ![t] = "active"]
      /\ beating' = beating \cup {InstanceOf[t]}
      /\ sinceBeat' = [sinceBeat EXCEPT ![InstanceOf[t]] = 0]
      /\ seen' = seen /\ elapsed' = elapsed
      /\ row = NULL
  BY OwnRowType DEF Inserted, StartHeartbeat, Goto
<1>2. \A u \in Task : u # t => pc[u] # "active" /\ InstanceOf[u] # InstanceOf[t] /\ pc'[u] = pc[u]
  BY <1>1 DEF RunsWithRow, OwnedBy, ExclusionAssumption
<1>3. pc'[t] = "active" /\ sinceBeat'[InstanceOf[t]] = 0 /\ elapsed[t] <= MaxElapsed
  BY <1>1
<1>4. RunsWithRow' /\ RowIsHeld'
  BY <1>1, <1>2, <1>3 DEF RunsWithRow, RowIsHeld, OwnedBy
<1>5. RowIsFresh'
  BY <1>1, <1>2, <1>3 DEF RowIsFresh, OwnedBy
<1>6. VictimIsDead'
  BY <1>1, <1>2, <1>3 DEF VictimIsDead
<1> QED
  BY <1>4, <1>5, <1>6 DEF Held

\* Steps of a task that only moves on inside acquire, or gives up, without
\* having the row.
LEMMA MovesHeld ==
  ASSUME ExclusionAssumption, IInv, NEW t \in Task, NEW where,
         pc' = [pc EXCEPT ![t] = where],
         where \in {"idle", "insert", "select", "reinsert", "confirm"},
         pc[t] \in {"idle", "insert", "select", "reinsert", "takeover", "confirm"},
         ~OwnedBy(InstanceOf[t]),
         row' = row, beating' = beating, sinceBeat' = sinceBeat,
         \A u \in Task : u # t => seen'[u] = seen[u] /\ elapsed'[u] = elapsed[u]
  PROVE  Held'
<1> USE LockAssumption DEF LockAssumption, IInv, TypeOK
<1>1. \A u \in Task : pc'[u] = IF u = t THEN where ELSE pc[u]
  OBVIOUS
<1>2. RunsWithRow' /\ RowIsHeld'
  BY <1>1 DEF RunsWithRow, RowIsHeld, OwnedBy
<1>3. RowIsFresh'
  BY <1>1 DEF RowIsFresh, OwnedBy
<1>4. VictimIsDead'
  BY <1>1 DEF VictimIsDead
<1> QED
  BY <1>2, <1>3, <1>4 DEF Held

\* SELECT: a task never finds its own row, and a stale row is a dead owner's.
LEMMA SelectHeld ==
  ASSUME ExclusionAssumption, IInv, NEW t \in Task, Select(t)
  PROVE  Held'
<1>1. pc[t] = "select" /\ ~OwnedBy(InstanceOf[t])
  BY DEF Select, IInv, RowIsHeld
<1>2. CASE row = NULL
  BY <1>1, <1>2, MovesHeld DEF Select, Goto, OwnedBy
<1>3. CASE row # NULL /\ Alive(t)
  BY <1>1, <1>3, MovesHeld DEF Select, Goto, OwnedBy
<1>4. CASE row # NULL /\ ~Alive(t)
  <2> USE LockAssumption DEF LockAssumption, IInv, TypeOK
  <2>1. /\ pc' = [pc EXCEPT ![t] = "takeover"]
        /\ seen' = [seen EXCEPT ![t] = row.owner]
        /\ UNCHANGED <<row, up, beating, sinceBeat, elapsed>>
    BY <1>1, <1>4 DEF Select, Goto
  <2>2. \A u \in Task : pc'[u] = IF u = t THEN "takeover" ELSE pc[u]
    BY <2>1
  <2>3. \A u \in Task : InstanceOf[u] = row.owner => pc[u] = "dead"
    BY <1>4, StaleIsDead DEF OwnedBy
  <2>4. RunsWithRow' /\ RowIsHeld'
    BY <1>1, <2>1, <2>2 DEF RunsWithRow, RowIsHeld, OwnedBy
  <2>5. RowIsFresh'
    BY <1>1, <2>1, <2>2 DEF RowIsFresh, OwnedBy
  <2>6. VictimIsDead'
    <3>1. \A u \in Task : seen'[u] = IF u = t THEN row.owner ELSE seen[u]
      BY <2>1
    <3> QED
      BY <1>1, <2>2, <2>3, <3>1 DEF VictimIsDead
  <2> QED
    BY <2>4, <2>5, <2>6 DEF Held
<1> QED
  BY <1>2, <1>3, <1>4

\* UPDATE: only a dead owner is displaced, so nobody runs when it hits.
LEMMA TakeoverHeld ==
  ASSUME ExclusionAssumption, IInv, NEW t \in Task, Takeover(t)
  PROVE  Held'
<1>1. /\ pc[t] = "takeover" /\ pc' = [pc EXCEPT ![t] = "confirm"]
      /\ UNCHANGED <<up, beating, sinceBeat, elapsed, seen>>
  BY DEF Takeover, Goto
<1>2. ~OwnedBy(InstanceOf[t])
  BY <1>1 DEF IInv, RowIsHeld
<1>3. CASE ~OwnedBy(seen[t])
  BY <1>1, <1>2, <1>3, MovesHeld DEF Takeover
<1>4. CASE OwnedBy(seen[t])
  <2> USE LockAssumption DEF LockAssumption, IInv, TypeOK
  <2>1. row' # NULL /\ row'.owner = InstanceOf[t] /\ row'.age = elapsed[t]
    BY <1>4, OwnRowType DEF Takeover
  <2>2. \A u \in Task : /\ pc'[u] = IF u = t THEN "confirm" ELSE pc[u]
                        /\ u # t => InstanceOf[u] # InstanceOf[t]
    BY <1>1 DEF ExclusionAssumption
  <2>3. \A u \in Task : pc[u] # "active"
    BY <1>1, <1>4 DEF RunsWithRow, VictimIsDead, OwnedBy
  <2>4. RunsWithRow' /\ RowIsHeld'
    BY <2>1, <2>2, <2>3 DEF RunsWithRow, RowIsHeld, OwnedBy
  <2>5. RowIsFresh'
    BY <1>1, <2>1, <2>2 DEF RowIsFresh, OwnedBy
  <2>6. VictimIsDead'
    BY <1>1, <2>2 DEF VictimIsDead
  <2> QED
    BY <2>4, <2>5, <2>6 DEF Held
<1> QED
  BY <1>3, <1>4

\* The confirming SELECT: with the row comes the heartbeat.
LEMMA ConfirmHeld ==
  ASSUME ExclusionAssumption, IInv, NEW t \in Task, Confirm(t)
  PROVE  Held'
<1>1. CASE ~OwnedBy(InstanceOf[t])
  <2>1. \A u \in Task : u # t => seen'[u] = seen[u]
    BY DEF Confirm, IInv, TypeOK
  <2> QED
    BY <1>1, <2>1, MovesHeld DEF Confirm, Goto
<1>2. CASE OwnedBy(InstanceOf[t])
  <2> USE LockAssumption DEF LockAssumption, IInv, TypeOK
  <2>1. /\ pc[t] = "confirm" /\ pc' = [pc EXCEPT ![t] = "active"]
        /\ seen' = [seen EXCEPT ![t] = NULL]
        /\ beating' = beating \cup {InstanceOf[t]}
        /\ sinceBeat' = [sinceBeat EXCEPT ![InstanceOf[t]] = 0]
        /\ UNCHANGED <<row, up, elapsed>>
    BY <1>2 DEF Confirm, Goto, StartHeartbeat
  <2>2. \A u \in Task : /\ pc'[u] = IF u = t THEN "active" ELSE pc[u]
                        /\ u # t => InstanceOf[u] # InstanceOf[t] /\ seen'[u] = seen[u]
    BY <2>1 DEF ExclusionAssumption
  <2>3. row.age <= elapsed[t] /\ elapsed[t] <= MaxElapsed /\ sinceBeat'[InstanceOf[t]] = 0
        /\ row.age \in Int /\ elapsed[t] \in Int
    BY <1>2, <2>1 DEF RowIsFresh, OwnedBy
  <2>4. RunsWithRow' /\ RowIsHeld'
    BY <1>2, <2>1, <2>2 DEF RunsWithRow, RowIsHeld, OwnedBy
  <2>5. RowIsFresh'
    BY <1>2, <2>1, <2>2, <2>3 DEF RowIsFresh, OwnedBy
  <2>6. VictimIsDead'
    BY <2>1, <2>2 DEF VictimIsDead
  <2> QED
    BY <2>4, <2>5, <2>6 DEF Held
<1> QED
  BY <1>1, <1>2

\* Release stops the heartbeat first, then deletes its own row only.
LEMMA ReleaseHeld ==
  ASSUME ExclusionAssumption, IInv, NEW t \in Task, StopHeartbeat(t) \/ Delete(t)
  PROVE  Held'
<1> USE LockAssumption DEF LockAssumption, IInv, TypeOK
<1>1. CASE StopHeartbeat(t)
  <2>1. /\ pc[t] = "active" /\ pc' = [pc EXCEPT ![t] = "release"]
        /\ beating' = beating \ {InstanceOf[t]}
        /\ elapsed' = [elapsed EXCEPT ![t] = 0]
        /\ UNCHANGED <<row, up, sinceBeat, seen>>
    BY <1>1 DEF StopHeartbeat, Goto
  <2>2. \A u \in Task : /\ pc'[u] = IF u = t THEN "release" ELSE pc[u]
                        /\ elapsed'[u] = IF u = t THEN 0 ELSE elapsed[u]
                        /\ u # t => InstanceOf[u] # InstanceOf[t]
    BY <2>1 DEF ExclusionAssumption
  <2>3. RunsWithRow' /\ RowIsHeld'
    BY <2>1, <2>2 DEF RunsWithRow, RowIsHeld, OwnedBy
  <2>4. RowIsFresh'
    <3>1. OwnedBy(InstanceOf[t]) => row.age <= MaxBeatDelay + MaxElapsed + 0
      BY <2>1 DEF RowIsFresh, OwnedBy
    <3> QED
      BY <2>1, <2>2, <3>1 DEF RowIsFresh, OwnedBy
  <2>5. VictimIsDead'
    BY <2>1, <2>2 DEF VictimIsDead
  <2> QED
    BY <2>3, <2>4, <2>5 DEF Held
<1>2. CASE Delete(t)
  <2>1. /\ pc[t] = "release" /\ pc' = [pc EXCEPT ![t] = "idle"]
        /\ row' = IF OwnedBy(InstanceOf[t]) THEN NULL ELSE row
        /\ UNCHANGED <<up, beating, sinceBeat, elapsed, seen>>
    BY <1>2 DEF Delete, Goto, ExclusionAssumption
  <2>2. \A u \in Task : /\ pc'[u] = IF u = t THEN "idle" ELSE pc[u]
                        /\ u # t => InstanceOf[u] # InstanceOf[t]
    BY <2>1 DEF ExclusionAssumption
  <2>3. RunsWithRow' /\ RowIsHeld'
    BY <2>1, <2>2 DEF RunsWithRow, RowIsHeld, OwnedBy
  <2>4. RowIsFresh'
    BY <2>1, <2>2 DEF RowIsFresh, OwnedBy
  <2>5. VictimIsDead'
    BY <2>1, <2>2 DEF VictimIsDead
  <2> QED
    BY <2>3, <2>4, <2>5 DEF Held
<1> QED
  BY <1>1, <1>2

\* A beat makes the row young, a crash kills, time ages everything alike.
LEMMA SurroundingsHeld ==
  ASSUME ExclusionAssumption, IInv,
         Tick \/ \E i \in Instance : Beat(i) \/ Crash(i)
  PROVE  Held'
<1> USE LockAssumption DEF LockAssumption, IInv, TypeOK
<1>1. ASSUME NEW i \in Instance, Beat(i) PROVE Held'
  <2>1. /\ sinceBeat' = [sinceBeat EXCEPT ![i] = 0]
        /\ UNCHANGED <<up, beating, pc, elapsed, seen>>
        /\ row' = IF OwnedBy(i) THEN [row EXCEPT !.age = 0] ELSE row
    BY <1>1 DEF Beat
  <2>2. \A j : OwnedBy(j)' => OwnedBy(j) /\ (IF j = i THEN row'.age = 0 ELSE row' = row)
    BY <2>1 DEF OwnedBy
  <2>3. \A j : OwnedBy(j) => OwnedBy(j)'
    BY <2>1 DEF OwnedBy
  <2>4. RunsWithRow' /\ RowIsHeld' /\ VictimIsDead'
    BY <2>1, <2>2, <2>3 DEF RunsWithRow, RowIsHeld, VictimIsDead
  <2>5. RowIsFresh'
    <3> SUFFICES ASSUME NEW u \in Task, OwnedBy(InstanceOf[u])'
        PROVE  /\ pc[u] = "confirm" => row'.age <= elapsed[u]
               /\ pc[u] = "active"  => row'.age <= sinceBeat'[InstanceOf[u]] + MaxElapsed
               /\ pc[u] = "release" => row'.age <= MaxBeatDelay + MaxElapsed + elapsed[u]
      BY <2>1 DEF RowIsFresh
    <3>1. CASE InstanceOf[u] = i
      BY <2>1, <2>2, <3>1
    <3>2. CASE InstanceOf[u] # i
      BY <2>1, <2>2, <3>2 DEF RowIsFresh
    <3> QED
      BY <3>1, <3>2
  <2> QED
    BY <2>4, <2>5 DEF Held
<1>2. ASSUME NEW i \in Instance, Crash(i) PROVE Held'
  <2>1. /\ \A u \in Task : pc'[u] = IF InstanceOf[u] = i THEN "dead" ELSE pc[u]
        /\ beating' = beating \ {i}
        /\ UNCHANGED <<row, sinceBeat, elapsed, seen>>
    BY <1>2 DEF Crash
  <2>2. RunsWithRow' /\ RowIsHeld' /\ VictimIsDead'
    BY <2>1 DEF RunsWithRow, RowIsHeld, VictimIsDead, OwnedBy
  <2>3. RowIsFresh'
    BY <2>1 DEF RowIsFresh, OwnedBy
  <2> QED
    BY <2>2, <2>3 DEF Held
<1>3. ASSUME Tick PROVE Held'
  <2>1. /\ UNCHANGED <<up, beating, pc, seen>>
        /\ \A i \in beating : sinceBeat'[i] = sinceBeat[i] + 1
        /\ \A u \in Task : pc[u] \in {"confirm", "release"} => elapsed'[u] = elapsed[u] + 1
        /\ row = NULL => row' = NULL
        /\ row # NULL => row'.owner = row.owner /\ row'.age <= row.age + 1 /\ row'.age \in Int
    BY <1>3 DEF Tick, Waiting, Acquiring
  <2>2. row # NULL => row' # NULL
    BY <1>3 DEF Tick
  <2>3. RunsWithRow' /\ RowIsHeld' /\ VictimIsDead'
    BY <2>1, <2>2 DEF RunsWithRow, RowIsHeld, VictimIsDead, OwnedBy
  <2>4. RowIsFresh'
    <3> SUFFICES ASSUME NEW u \in Task, OwnedBy(InstanceOf[u])'
        PROVE  /\ pc[u] = "confirm" => row'.age <= elapsed'[u]
               /\ pc[u] = "active"  => row'.age <= sinceBeat'[InstanceOf[u]] + MaxElapsed
               /\ pc[u] = "release" => row'.age <= MaxBeatDelay + MaxElapsed + elapsed'[u]
      BY <2>1 DEF RowIsFresh
    <3>1. row # NULL /\ OwnedBy(InstanceOf[u])
      BY <2>1 DEF OwnedBy
    <3>2. row.age \in Int /\ row'.age \in Int /\ row'.age <= row.age + 1
      BY <2>1, <3>1
    <3>3. CASE pc[u] = "confirm"
      BY <2>1, <3>1, <3>2, <3>3 DEF RowIsFresh
    <3>4. CASE pc[u] = "active"
      BY <2>1, <3>1, <3>2, <3>4 DEF RowIsFresh, RunsWithRow
    <3>5. CASE pc[u] = "release"
      BY <2>1, <3>1, <3>2, <3>5 DEF RowIsFresh
    <3> QED
      BY <3>3, <3>4, <3>5
  <2> QED
    BY <2>3, <2>4 DEF Held
<1> QED
  BY <1>1, <1>2, <1>3

\* Every step preserves the strengthened invariant.
LEMMA NextIInv ==
  ASSUME ExclusionAssumption, IInv, [Next]_vars
  PROVE  IInv'
<1>1. TypeOK'
  BY TypeInductive DEF IInv
<1>2. ASSUME NEW t \in Task, Begin(t) PROVE Held'
  <2>1. ~OwnedBy(InstanceOf[t]) /\ \A u \in Task : u # t => elapsed'[u] = elapsed[u]
    BY <1>2 DEF Begin, IInv, RowIsHeld, TypeOK
  <2> QED
    BY <1>2, <2>1, MovesHeld DEF Begin, Goto
<1>3. ASSUME NEW t \in Task, Insert(t) \/ Reinsert(t) PROVE Held'
  <2>1. pc[t] \in {"insert", "reinsert"} /\ ~OwnedBy(InstanceOf[t])
    BY <1>3 DEF Insert, Reinsert, IInv, RowIsHeld
  <2>2. CASE Inserted(t)
    BY <2>1, <2>2, InsertedHeld
  <2>3. CASE Conflict(t, "select") \/ Conflict(t, "idle")
    BY <2>1, <2>3, MovesHeld DEF Conflict, Goto
  <2> QED
    BY <1>3, <2>2, <2>3 DEF Insert, Reinsert
<1>4. ASSUME NEW t \in Task, Raise(t) PROVE Held'
  <2>1. pc[t] \in {"select", "takeover"} /\ ~OwnedBy(InstanceOf[t])
    BY <1>4 DEF Raise, ExclusionAssumption, IInv, RowIsHeld
  <2>2. \A u \in Task : u # t => seen'[u] = seen[u]
    BY <1>4 DEF Raise, IInv, TypeOK
  <2> QED
    BY <1>4, <2>1, <2>2, MovesHeld DEF Raise, Goto
<1>5. ASSUME NEW i \in Instance, BeatDies(i) PROVE Held'
  BY <1>5 DEF BeatDies, ExclusionAssumption
<1>6. ASSUME UNCHANGED vars PROVE Held'
  BY <1>6 DEF vars, IInv, Held, RunsWithRow, RowIsHeld, RowIsFresh, VictimIsDead, OwnedBy
<1>7. ASSUME NEW t \in Task, Step(t) PROVE Held'
  BY <1>3, <1>7, SelectHeld, TakeoverHeld, ConfirmHeld, ReleaseHeld DEF Step
<1>8. ASSUME NEW i \in Instance, Beat(i) \/ Crash(i) PROVE Held'
  BY <1>8, SurroundingsHeld
<1>9. ASSUME Tick PROVE Held'
  BY <1>9, SurroundingsHeld
<1>10. Held'
  BY <1>2, <1>4, <1>5, <1>6, <1>7, <1>8, <1>9 DEF Next
<1> QED
  BY <1>1, <1>10 DEF IInv, Held

\* Nobody runs at first.
LEMMA InitIInv == Init => IInv
BY TypeInit DEF IInv, Init, RunsWithRow, RowIsHeld, RowIsFresh, VictimIsDead, OwnedBy

\* Under ExclusionAssumption, for any number of processes, workflows of one
\* project never run in two live processes at once.
THEOREM Exclusion == ExclusionAssumption => (Spec => []MutualExclusion)
<1> SUFFICES ASSUME ExclusionAssumption PROVE Spec => []MutualExclusion
  OBVIOUS
<1>1. Init => IInv
  BY InitIInv
<1>2. IInv /\ [Next]_vars => IInv'
  BY NextIInv
<1>3. IInv => MutualExclusion
  BY DEF IInv, RunsWithRow, MutualExclusion, OwnedBy
<1> QED
  BY <1>1, <1>2, <1>3, PTL DEF Spec

\* Under the same assumption the owner of the row is not displaced while its
\* workflow runs.
THEOREM Undisplaced == ExclusionAssumption => (Spec => NeverDisplaced)
<1> SUFFICES ASSUME ExclusionAssumption PROVE Spec => NeverDisplaced
  OBVIOUS
<1> DEFINE A == \A t \in Task :
                  pc[t] = "active" /\ pc'[t] = "active" /\ OwnedBy(InstanceOf[t])
                    => row' # NULL /\ row'.owner = InstanceOf[t]
<1>1. Init => IInv
  BY InitIInv
<1>2. IInv /\ [Next]_vars => IInv'
  BY NextIInv
<1>3. IInv' => A
  BY DEF IInv, RunsWithRow, OwnedBy
<1>4. IInv /\ IInv' /\ [Next]_vars => [A]_vars
  BY <1>3
<1> HIDE DEF A
<1>5. Spec => [][A]_vars
  BY <1>1, <1>2, <1>4, PTL DEF Spec
<1> QED
  BY <1>5 DEF A, NeverDisplaced
==============================================================================
