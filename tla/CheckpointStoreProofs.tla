------------------------- MODULE CheckpointStoreProofs -------------------------
(***************************************************************************)
(* For any number of requests, deletes, foreign writes and failures: type  *)
(* correctness of the checkpoint store, and that its slot implements the   *)
(* register of CheckpointRegister and its migration loses nothing.         *)
(***************************************************************************)
EXTENDS CheckpointStore, TLAPS

\* What Load and Start hand to local is a save's local state.
LEMMA Constants ==
  /\ Fresh \in Document /\ Cleared \in Slot /\ Old \in Slot
  /\ {"delete", "foreign"} \subseteq Writer \cup Other
  /\ Old.doc \in Document
BY DEF Fresh, Document, Cleared, Slot, Old, Other

LEMMA NoSaveTyped == NoSave \in Local
BY CheckpointAssumption DEF NoSave, Local, Fresh, Document, Slot, Cleared

LEMMA LoadedTyped ==
  ASSUME TypeOK, NEW d \in Document, NEW v \in Nat \cup {NULL}
  PROVE  Loaded(d, v) \in Local
BY NoSaveTyped DEF TypeOK, Loaded, Unlegacy, Local, Document, Slot

\* A legacy document written back, or a fresh one taken over, or neither.
LEMMA LoadKeepsTypes ==
  ASSUME TypeOK, NEW w \in Writer, NEW d \in Document, Load(w, d)
  PROVE  /\ pc' \in [Writer \cup Other -> {"idle", "patch"} \cup Saving]
         /\ local' \in [Writer -> Local]
         /\ UNCHANGED <<slot, disk, open>>
<1>1. slot.version \in Nat
  BY DEF TypeOK, Slot
<1>2. CASE d.legacy /\ Start(w, Loaded(d, slot.version))
  BY <1>1, <1>2, LoadedTyped DEF TypeOK, Start, Goto, Load, Saving
<1>3. CASE ~d.legacy /\ w \in Request /\ Goto(w, "patch") /\ local' = [local EXCEPT ![w].doc = d]
  BY <1>3 DEF TypeOK, Goto, Load, Local
<1>4. CASE ~d.legacy /\ w = Run /\ Leave(w)
  BY <1>4, NoSaveTyped DEF TypeOK, Leave, Goto, Load
<1> QED
  BY <1>2, <1>3, <1>4 DEF Load

\* Each statement of a save keeps the types.
LEMMA SaveKeepsTypes ==
  ASSUME TypeOK, NEW w \in Writer, SaveStep(w)
  PROVE  TypeOK'
<1> USE DEF TypeOK, Goto, Leave, Stay, Commit, Rollback, Saving
<1>1. CASE Select(w)
  BY <1>1 DEF Select, Local, Slot
<1>2. CASE Begin(w)
  BY <1>2 DEF Begin
<1>3. CASE pc[w] = "update" /\ Hit(w)
  <2>1. Written(w) \in Slot
    BY DEF Written, Slot, Local
  <2> QED
    BY <1>3, <2>1 DEF Hit
<1>4. CASE pc[w] = "update" /\ (Miss(w) \/ UpdateFails(w))
  BY <1>4 DEF Miss, UpdateFails
<1>5. CASE CommitUpdate(w)
  BY <1>5 DEF CommitUpdate
<1>6. CASE Conflict(w)
  <2>1. CASE local[w].again /\ Goto(w, "select") /\ local' = [local EXCEPT ![w].again = FALSE]
    <3>1. [local[w] EXCEPT !.again = FALSE] \in Local
      BY DEF Local
    <3>2. local' = [local EXCEPT ![w] = [local[w] EXCEPT !.again = FALSE]]
      BY <2>1
    <3> QED
      BY <1>6, <2>1, <3>1, <3>2 DEF Conflict
  <2>2. CASE ~local[w].again
    BY <1>6, <2>2, NoSaveTyped DEF Conflict
  <2> QED
    BY <1>6, <2>1, <2>2 DEF Conflict
<1>7. CASE Insert(w) \/ Close(w)
  BY <1>7, NoSaveTyped DEF Insert, Close, Return
<1> QED
  BY <1>1, <1>2, <1>3, <1>4, <1>5, <1>6, <1>7 DEF SaveStep, Update

LEMMA TypeInductive == TypeOK /\ [Next]_vars => TypeOK'
<1> SUFFICES ASSUME TypeOK, [Next]_vars PROVE TypeOK'
  OBVIOUS
<1> USE CheckpointAssumption
<1>1. ASSUME NEW w \in Writer, SaveStep(w) PROVE TypeOK'
  BY <1>1, SaveKeepsTypes
<1>2. ASSUME NEW w \in Writer, Ask(w) PROVE TypeOK'
  <2>1. PICK d \in {slot.doc} \ {NULL} : Load(w, d)
    BY <1>2 DEF Ask
  <2>2. d \in Document
    BY <2>1 DEF TypeOK, Slot
  <2> QED
    BY <1>2, <2>1, <2>2, LoadKeepsTypes DEF Ask, TypeOK
<1>3. ASSUME NEW w \in Writer, Patch(w) PROVE TypeOK'
  <2> DEFINE save == [NoSave EXCEPT !.doc = [local[w].doc EXCEPT !.decided = TRUE]]
  <2>1. save \in Local
    BY NoSaveTyped DEF TypeOK, Local, Document
  <2>2. CASE Start(w, save)
    <3> HIDE DEF save
    <3> QED
      BY <1>3, <2>1, <2>2 DEF Patch, TypeOK, Start, Goto, Saving
  <2>3. CASE Leave(w)
    BY <1>3, <2>3, NoSaveTyped DEF Patch, TypeOK, Leave, Goto
  <2> QED
    BY <1>3, <2>2, <2>3 DEF Patch
<1>4. ASSUME Advance PROVE TypeOK'
  <2>1. live' \in Document
    BY <1>4 DEF Advance, TypeOK, Document
  <2>2. [NoSave EXCEPT !.doc = live', !.again = TRUE] \in Local
    BY <2>1, NoSaveTyped DEF Local
  <2> QED
    BY <1>4, <2>1, <2>2 DEF Advance, TypeOK, Start, Goto, Saving, Writer
<1>5. ASSUME Resume PROVE TypeOK'
  <2>1. PICK d \in {slot.doc} \ {NULL} : Load(Run, d) /\ live' = Unlegacy(d)
    BY <1>5 DEF Resume
  <2>2. d \in Document /\ Run \in Writer
    BY <2>1 DEF TypeOK, Slot, Writer
  <2>3. live' \in Document
    BY <2>1, <2>2 DEF Unlegacy, Document
  <2> QED
    BY <1>5, <2>1, <2>2, <2>3, LoadKeepsTypes DEF Resume, TypeOK
<1>6. ASSUME Delete \/ CloseDelete \/ Unload PROVE TypeOK'
  <2>1. [count EXCEPT !.deletes = @ + 1] \in [requests : Nat, deletes : Nat, crashes : Nat]
    BY DEF TypeOK
  <2>2. CASE Delete
    BY <2>1, <2>2, Constants DEF Delete, TypeOK, Goto, Saving
  <2>3. CASE CloseDelete
    BY <2>3, Constants DEF CloseDelete, TypeOK, Goto, Commit
  <2>4. CASE Unload
    BY <2>4 DEF Unload, TypeOK
  <2> QED
    BY <1>6, <2>2, <2>3, <2>4
<1>7. ASSUME ForeignWrite \/ ForeignCommit PROVE TypeOK'
  BY <1>7, Constants DEF ForeignWrite, ForeignCommit, TypeOK, Goto, Commit, Stay, Saving
<1>8. ASSUME Crash PROVE TypeOK'
  <2>1. count' \in [requests : Nat, deletes : Nat, crashes : Nat]
    BY <1>8 DEF Crash, TypeOK
  <2>2. local' \in [Writer -> Local]
    BY <1>8, NoSaveTyped DEF Crash
  <2>3. pc' \in [Writer \cup Other -> {"idle", "patch"} \cup Saving]
    BY <1>8 DEF Crash
  <2> QED
    BY <1>8, <2>1, <2>2, <2>3 DEF Crash, TypeOK, Rollback
<1>9. ASSUME UNCHANGED vars PROVE TypeOK'
  BY <1>9 DEF vars, TypeOK
<1> QED
  BY <1>1, <1>2, <1>3, <1>4, <1>5, <1>6, <1>7, <1>8, <1>9 DEF Next

\* The state of the store has the declared types.
THEOREM TypeCorrect == Spec => []TypeOK
<1>1. ASSUME Init PROVE TypeOK
  <2>1. count \in [requests : Nat, deletes : Nat, crashes : Nat]
    BY <1>1 DEF Init
  <2>2. local \in [Writer -> Local]
    BY <1>1, NoSaveTyped DEF Init
  <2>3. pc \in [Writer \cup Other -> {"idle", "patch"} \cup Saving]
    BY <1>1 DEF Init
  <2> QED
    BY <1>1, <2>1, <2>2, <2>3, Constants DEF Init, TypeOK
<1> QED
  BY <1>1, TypeInductive, PTL DEF Spec

------------------------------------------------------------------------------
\* Every step of the store is a step of the register, or none: only a save
\* whose UPDATE hits, a delete, a rollback and a crash write the slot, and
\* only a commit writes the safe copy.
LEMMA StepRefines == TypeOK /\ [Next]_vars => [Register!Next]_<<slot, disk>>
<1> SUFFICES ASSUME TypeOK, [Next]_vars PROVE [Register!Next]_<<slot, disk>>
  OBVIOUS
<1> USE DEF Register!Next, Register!Put, Register!Clear, Register!Keep, Register!Undo
<1>1. ASSUME NEW w \in Writer, SaveStep(w) PROVE [Register!Next]_<<slot, disk>>
  <2>1. CASE pc[w] = "update" /\ Hit(w)
    <3>1. slot'.version = slot.version + 1 /\ slot'.doc \in Document /\ disk' = disk
      BY <2>1 DEF Hit, Written, TypeOK, Local
    <3> QED
      BY <3>1
  <2>2. CASE pc[w] = "update" /\ (Miss(w) \/ UpdateFails(w))
    BY <2>2 DEF Miss, UpdateFails, Rollback
  <2>3. CASE CommitUpdate(w) \/ Close(w)
    BY <2>3 DEF CommitUpdate, Close, Commit
  <2>4. CASE Select(w) \/ Begin(w) \/ Conflict(w) \/ Insert(w)
    BY <2>4 DEF Select, Begin, Conflict, Insert
  <2> QED
    BY <1>1, <2>1, <2>2, <2>3, <2>4 DEF SaveStep, Update
<1>2. ASSUME NEW w \in Writer, Ask(w) \/ Patch(w) PROVE [Register!Next]_<<slot, disk>>
  BY <1>2 DEF Ask, Patch, Load
<1>3. ASSUME Advance \/ Resume \/ Unload \/ ForeignWrite PROVE [Register!Next]_<<slot, disk>>
  BY <1>3 DEF Advance, Resume, Unload, ForeignWrite, Load
<1>4. ASSUME Delete PROVE [Register!Next]_<<slot, disk>>
  BY <1>4 DEF Delete, Cleared, Register!Cleared
<1>5. ASSUME CloseDelete \/ ForeignCommit PROVE [Register!Next]_<<slot, disk>>
  BY <1>5 DEF CloseDelete, ForeignCommit, Commit
<1>6. ASSUME Crash PROVE [Register!Next]_<<slot, disk>>
  BY <1>6 DEF Crash, Rollback
<1> QED
  BY <1>1, <1>2, <1>3, <1>4, <1>5, <1>6 DEF Next, vars

\* The checkpoint slot is a register whatever interleaves, fails or crashes.
THEOREM SlotIsRegister == Spec => ImplementsRegister
<1>1. ASSUME Init PROVE Register!Init
  <2>1. \A s \in Slot : s.version \in Nat /\ s.doc \in Document \cup {NULL}
    BY DEF Slot
  <2> QED
    BY <1>1, <2>1, Constants DEF Init, Register!Init
<1> QED
  BY <1>1, StepRefines, TypeCorrect, PTL DEF Spec, ImplementsRegister, Register!Spec


------------------------------------------------------------------------------
(* Writing back a migrated document undoes no newer save.  A version alone *)
(* does not tell two documents apart: a rollback takes a version back, and *)
(* it may be given to another document.  What makes it inductive: only the *)
(* document from before the upgrade has the old form, the slot never goes  *)
(* back to it but with its saved copy (OnlyOld), and from its load on slot *)
(* and copy hold it or a later version until a delete (Since).             *)

OldOrNew(s) == s = Old \/ (s.doc # NULL => ~s.doc.legacy)
OldOrLater(s) == s = Old \/ s.version >= 2

OnlyOld ==
  /\ OldOrNew(slot) /\ OldOrNew(disk) /\ (slot = Old => disk = Old)
  /\ \A w \in Writer : ~local[w].doc.legacy
  /\ live # NULL => ~live.legacy

Since(w) ==
  local[w].from # Cleared =>
    /\ local[w].from = Old /\ local[w].expected = 1
    /\ local[w].deletes <= count.deletes
    /\ local[w].deletes = count.deletes => OldOrLater(slot) /\ OldOrLater(disk)
    /\ pc[w] \in {"begin", "update"} => local[w].current = 1

MigrationInv == TypeOK /\ OnlyOld /\ \A w \in Writer : Since(w)

\* A writer whose save is not touched: it stays where it is, or goes from BEGIN to
\* UPDATE or out of the save; slot and copy do not fall behind the old document.
LEMMA SinceKept ==
  ASSUME TypeOK, TypeOK', NEW w \in Writer, Since(w), local'[w] = local[w],
         pc'[w] \in {"begin", "update"} => pc[w] \in {"begin", "update"},
         count'.deletes >= count.deletes,
         count'.deletes = count.deletes /\ OldOrLater(slot) /\ OldOrLater(disk)
           => OldOrLater(slot') /\ OldOrLater(disk')
  PROVE  Since(w)'
<1>1. local[w].deletes \in Nat /\ count.deletes \in Nat /\ count'.deletes \in Nat
  BY DEF TypeOK, Local
<1>2. CASE local[w].from = Cleared
  BY <1>2 DEF Since
<1>3. CASE local[w].from # Cleared
  <2>1. /\ local[w].from = Old /\ local[w].expected = 1
        /\ local[w].deletes <= count.deletes
        /\ local[w].deletes = count.deletes => OldOrLater(slot) /\ OldOrLater(disk)
        /\ pc[w] \in {"begin", "update"} => local[w].current = 1
    BY <1>3 DEF Since
  <2>2. local[w].deletes = count'.deletes =>
          count'.deletes = count.deletes /\ OldOrLater(slot') /\ OldOrLater(disk')
    BY <1>1, <2>1
  <2>3. local[w].deletes <= count'.deletes
    BY <1>1, <2>1
  <2> QED BY <2>1, <2>2, <2>3 DEF Since, OldOrLater
<1> QED BY <1>2, <1>3

\* The documents of NoSave and of what was not loaded from the old slot.
LEMMA NoSaveIsNew ==
  /\ ~NoSave.doc.legacy /\ NoSave.from = Cleared
  /\ ~Fresh.legacy /\ Cleared # Old /\ OldOrNew(Cleared)
BY DEF NoSave, Fresh, Cleared, Old, OldOrNew

\* A step of one writer that leaves slot and copy alone.
LEMMA WriterMoves ==
  ASSUME MigrationInv, TypeOK', NEW w \in Writer, NEW l \in Local,
         local' = [local EXCEPT ![w] = l], ~l.doc.legacy,
         \A u \in Writer \ {w} : pc'[u] = pc[u],
         slot' = slot, disk' = disk \/ disk' = slot, count'.deletes = count.deletes,
         live' # NULL => ~live'.legacy,
         Since(w)'
  PROVE  MigrationInv'
<1>1. \A u \in Writer : OldOrLater(slot) /\ OldOrLater(disk) => OldOrLater(slot') /\ OldOrLater(disk')
  OBVIOUS
<1>2. local'[w] = l /\ \A u \in Writer \ {w} : local'[u] = local[u]
  BY DEF MigrationInv, TypeOK
<1>3. count.deletes \in Nat
  BY DEF MigrationInv, TypeOK
<1>4. ASSUME NEW u \in Writer \ {w} PROVE Since(u)'
  <2>1. Since(u) /\ local'[u] = local[u] /\ pc'[u] = pc[u] /\ count'.deletes >= count.deletes
    BY <1>2, <1>3 DEF MigrationInv
  <2> QED BY <1>1, <2>1, SinceKept DEF MigrationInv
<1>5. OnlyOld'
  BY <1>2 DEF MigrationInv, OnlyOld, OldOrNew
<1> QED BY <1>4, <1>5 DEF MigrationInv

\* A step that leaves the saves alone, except that a writer may go on in its own.
LEMMA SlotMoves ==
  ASSUME MigrationInv, TypeOK', local' = local,
         \A u \in Writer : pc'[u] \in {"begin", "update"} => pc[u] \in {"begin", "update"},
         OldOrNew(slot)', OldOrNew(disk)', (slot = Old => disk = Old)',
         live' # NULL => ~live'.legacy,
         count'.deletes >= count.deletes,
         count'.deletes = count.deletes /\ OldOrLater(slot) /\ OldOrLater(disk)
           => OldOrLater(slot') /\ OldOrLater(disk')
  PROVE  MigrationInv'
<1>1. ASSUME NEW u \in Writer PROVE Since(u)'
  <2>1. Since(u) /\ local'[u] = local[u]
    BY DEF MigrationInv
  <2> QED BY <2>1, SinceKept DEF MigrationInv
<1>2. OnlyOld'
  BY DEF MigrationInv, OnlyOld
<1> QED BY <1>1, <1>2 DEF MigrationInv


LEMMA SaveKeepsMigration ==
  ASSUME MigrationInv, NEW w \in Writer, SaveStep(w), TypeOK'
  PROVE  MigrationInv'
<1>0. /\ TypeOK /\ Since(w) /\ OnlyOld /\ local[w] \in Local /\ slot.version \in Nat
      /\ w \in Writer \cup Other /\ count.deletes \in Nat
  BY DEF MigrationInv, TypeOK, Slot
<1>n. NULL \notin Nat
  BY CheckpointAssumption DEF CheckpointAssumption
<1>1. CASE Select(w)
  <2> DEFINE l == [local[w] EXCEPT !.current = slot.version]
  <2>1. l \in Local /\ ~l.doc.legacy /\ local' = [local EXCEPT ![w] = l]
    BY <1>0, <1>1 DEF Select, Local, OnlyOld
  <2>2. /\ l.from = local[w].from /\ l.expected = local[w].expected /\ l.deletes = local[w].deletes
        /\ l.current = slot.version
    BY <1>0 DEF Local
  <2>3. local'[w] = l
    BY <2>1, <1>0 DEF TypeOK
  <2> HIDE DEF l
  <2>4. /\ pc' = [pc EXCEPT ![w] = IF local[w].expected \in {NULL, slot.version} THEN "begin" ELSE "conflict"]
        /\ slot' = slot /\ disk' = disk /\ count' = count /\ live' = live
    BY <1>1 DEF Select, Goto
  <2>5. pc'[w] = (IF local[w].expected \in {NULL, slot.version} THEN "begin" ELSE "conflict")
    BY <2>4, <1>0 DEF TypeOK
  <2>6. Since(w)'
    <3> SUFFICES ASSUME l.from # Cleared PROVE Since(w)'
      BY <2>3 DEF Since
    <3>1. pc'[w] \in {"begin", "update"} => slot.version = 1
      BY <2>2, <2>5, <1>0, <1>n DEF Since
    <3> QED BY <3>1, <2>2, <2>3, <2>4, <1>0 DEF Since, OldOrLater
  <2>7. \A u \in Writer \ {w} : pc'[u] = pc[u]
    BY <2>4, <1>0 DEF TypeOK
  <2>8. live' # NULL => ~live'.legacy
    BY <2>4, <1>0 DEF OnlyOld
  <2> QED BY <2>1, <2>4, <2>6, <2>7, <2>8, WriterMoves
<1>2. CASE Begin(w)
  <2>1. /\ slot' = slot /\ disk' = disk /\ local' = local /\ count' = count /\ live' = live
        /\ \A u \in Writer : pc'[u] \in {"begin", "update"} => pc[u] \in {"begin", "update"}
    BY <1>0, <1>2 DEF Begin, Goto, Stay, TypeOK
  <2> QED BY <2>1, <1>0, SlotMoves DEF OnlyOld, OldOrNew, OldOrLater
<1>3. CASE pc[w] = "update" /\ Hit(w)
  <2>1. /\ slot.version = local[w].current /\ slot' = Written(w) /\ disk' = disk
        /\ local' = local /\ count' = count /\ live' = live
        /\ \A u \in Writer : pc'[u] \in {"begin", "update"} => pc[u] \in {"begin", "update"}
    BY <1>0, <1>3 DEF Hit, Goto, Stay, TypeOK
  <2>2. slot'.version = slot.version + 1 /\ slot'.doc = local[w].doc /\ ~slot'.doc.legacy
    BY <2>1, <1>0 DEF Written, OnlyOld
  <2>3. slot' # Old /\ OldOrNew(slot')
    BY <2>2 DEF Old, OldOrNew
  <2>4. OldOrLater(slot) => OldOrLater(slot')
    BY <2>2, <1>0 DEF OldOrLater, Old
  <2> QED BY <2>1, <2>3, <2>4, <1>0, SlotMoves DEF OnlyOld, OldOrNew
<1>4. CASE pc[w] = "update" /\ Miss(w)
  <2>1. /\ slot' = slot /\ disk' = disk /\ local' = local /\ count' = count /\ live' = live
        /\ \A u \in Writer : pc'[u] \in {"begin", "update"} => pc[u] \in {"begin", "update"}
    BY <1>0, <1>4 DEF Miss, Goto, Stay, TypeOK
  <2> QED BY <2>1, <1>0, SlotMoves DEF OnlyOld, OldOrNew, OldOrLater
<1>5. CASE pc[w] = "update" /\ UpdateFails(w)
  <2>1. /\ slot' = disk /\ disk' = disk /\ local' = local /\ count' = count /\ live' = live
        /\ \A u \in Writer : pc'[u] \in {"begin", "update"} => pc[u] \in {"begin", "update"}
    BY <1>0, <1>5 DEF UpdateFails, Rollback, Goto, Stay, TypeOK
  <2> QED BY <2>1, <1>0, SlotMoves DEF OnlyOld, OldOrNew, OldOrLater
<1>6. CASE CommitUpdate(w)
  <2>1. /\ slot' = slot /\ disk' = slot /\ local' = local /\ count' = count /\ live' = live
        /\ \A u \in Writer : pc'[u] \in {"begin", "update"} => pc[u] \in {"begin", "update"}
    BY <1>0, <1>6 DEF CommitUpdate, Commit, Goto, Stay, TypeOK
  <2> QED BY <2>1, <1>0, SlotMoves DEF OnlyOld, OldOrNew, OldOrLater
<1>r. ASSUME Return(w) \/ Leave(w), slot' = slot, disk' = disk \/ disk' = slot, count' = count, live' = live
      PROVE  MigrationInv'
  <2>1. CASE local' = local /\ Goto(w, "patch")
    <3>1. \A u \in Writer : pc'[u] \in {"begin", "update"} => pc[u] \in {"begin", "update"}
      BY <2>1, <1>0 DEF Goto, TypeOK
    <3> QED BY <2>1, <3>1, <1>r, <1>0, SlotMoves DEF OnlyOld, OldOrNew, OldOrLater
  <2>2. CASE Leave(w)
    <3>1. /\ local' = [local EXCEPT ![w] = NoSave] /\ local'[w] = NoSave
          /\ \A u \in Writer \ {w} : pc'[u] = pc[u]
      BY <2>2, <1>0 DEF Leave, Goto, TypeOK
    <3>2. Since(w)'
      BY <3>1, NoSaveIsNew DEF Since
    <3>3. live' # NULL => ~live'.legacy
      BY <1>r, <1>0 DEF OnlyOld
    <3> QED BY <3>1, <3>2, <3>3, <1>r, NoSaveTyped, NoSaveIsNew, WriterMoves
  <2> QED BY <2>1, <2>2, <1>r DEF Return
<1>7. CASE Conflict(w)
  <2>1. slot' = slot /\ disk' = disk /\ count' = count /\ live' = live
    BY <1>7 DEF Conflict
  <2>2. CASE local[w].again /\ Goto(w, "select") /\ local' = [local EXCEPT ![w].again = FALSE]
    <3> DEFINE l == [local[w] EXCEPT !.again = FALSE]
    <3>1. l \in Local /\ ~l.doc.legacy /\ local' = [local EXCEPT ![w] = l]
      BY <2>2, <1>0 DEF Local, OnlyOld
    <3>2. l.from = local[w].from /\ l.expected = local[w].expected /\ l.deletes = local[w].deletes
      BY <1>0 DEF Local
    <3>3. local'[w] = l
      BY <3>1, <1>0 DEF TypeOK
    <3> HIDE DEF l
    <3>4. pc'[w] = "select" /\ \A u \in Writer \ {w} : pc'[u] = pc[u]
      BY <2>2, <1>0 DEF Goto, TypeOK
    <3>5. Since(w)'
      BY <3>2, <3>3, <3>4, <2>1, <1>0 DEF Since, OldOrLater
    <3>6. live' # NULL => ~live'.legacy
      BY <2>1, <1>0 DEF OnlyOld
    <3> QED BY <3>1, <3>4, <3>5, <3>6, <2>1, WriterMoves
  <2>3. CASE ~local[w].again
    BY <1>7, <2>1, <2>3, <1>r DEF Conflict, Return
  <2> QED BY <1>7, <2>2, <2>3 DEF Conflict
<1>8. CASE Insert(w)
  <2>1. slot' = slot /\ disk' = disk /\ count' = count /\ live' = live
    BY <1>8 DEF Insert
  <2>2. CASE local' = local /\ Goto(w, "close")
    <3>1. \A u \in Writer : pc'[u] \in {"begin", "update"} => pc[u] \in {"begin", "update"}
      BY <2>2, <1>0 DEF Goto, TypeOK
    <3> QED BY <2>1, <2>2, <3>1, <1>0, SlotMoves DEF OnlyOld, OldOrNew, OldOrLater
  <2> QED BY <1>8, <2>1, <2>2, <1>r DEF Insert
<1>9. CASE Close(w)
  BY <1>9, <1>r DEF Close, Commit
<1> QED
  BY <1>1, <1>2, <1>3, <1>4, <1>5, <1>6, <1>7, <1>8, <1>9 DEF SaveStep, Update

\* A load finds the old document only where nothing has replaced it.
LEMMA LoadKeepsMigration ==
  ASSUME MigrationInv, NEW w \in Writer, NEW d \in Document, slot.doc = d, Load(w, d), TypeOK',
         count'.deletes = count.deletes, live' # NULL => ~live'.legacy
  PROVE  MigrationInv'
<1>0. /\ TypeOK /\ Since(w) /\ OnlyOld /\ local[w] \in Local /\ slot \in Slot /\ slot.version \in Nat
      /\ w \in Writer \cup Other /\ count.deletes \in Nat /\ d # NULL
  BY CheckpointAssumption DEF MigrationInv, TypeOK, Slot, CheckpointAssumption
<1>1. slot' = slot /\ disk' = disk
  BY DEF Load
<1>2. CASE d.legacy /\ Start(w, Loaded(d, slot.version))
  <2> DEFINE l == Loaded(d, slot.version)
  <2>1. slot = Old /\ disk = Old /\ slot.version = 1
    BY <1>0, <1>2 DEF OnlyOld, OldOrNew, Old
  <2>2. l \in Local
    BY <1>0, LoadedTyped
  <2>3. l.from = slot /\ l.expected = slot.version /\ l.deletes = count.deletes /\ ~l.doc.legacy
    BY <1>0 DEF Loaded, NoSave, Unlegacy, Document
  <2>4. pc' = [pc EXCEPT ![w] = "select"] /\ local' = [local EXCEPT ![w] = l]
    BY <1>2 DEF Start, Goto
  <2> HIDE DEF l
  <2>5. pc'[w] = "select" /\ local'[w] = l /\ \A u \in Writer \ {w} : pc'[u] = pc[u]
    BY <2>4, <1>0 DEF TypeOK
  <2>6. Since(w)'
    BY <2>1, <2>3, <2>5, <1>0, <1>1 DEF Since, OldOrLater
  <2> QED BY <2>2, <2>3, <2>4, <2>5, <2>6, <1>1, WriterMoves
<1>3. CASE ~d.legacy /\ Goto(w, "patch") /\ local' = [local EXCEPT ![w].doc = d]
  <2> DEFINE l == [local[w] EXCEPT !.doc = d]
  <2>1. l \in Local /\ ~l.doc.legacy /\ local' = [local EXCEPT ![w] = l]
    BY <1>0, <1>3 DEF Local
  <2>2. l.from = local[w].from /\ l.expected = local[w].expected /\ l.deletes = local[w].deletes
    BY <1>0 DEF Local
  <2>3. local'[w] = l
    BY <2>1, <1>0 DEF TypeOK
  <2> HIDE DEF l
  <2>4. pc'[w] = "patch" /\ \A u \in Writer \ {w} : pc'[u] = pc[u]
    BY <1>0, <1>3 DEF Goto, TypeOK
  <2>5. Since(w)'
    BY <2>2, <2>3, <2>4, <1>0, <1>1 DEF Since, OldOrLater
  <2> QED BY <2>1, <2>4, <2>5, <1>1, WriterMoves
<1>4. CASE Leave(w)
  <2>1. /\ local' = [local EXCEPT ![w] = NoSave] /\ local'[w] = NoSave
        /\ \A u \in Writer \ {w} : pc'[u] = pc[u]
    BY <1>0, <1>4 DEF Leave, Goto, TypeOK
  <2>2. Since(w)'
    BY <2>1, NoSaveIsNew DEF Since
  <2> QED BY <2>1, <2>2, <1>1, NoSaveTyped, NoSaveIsNew, WriterMoves
<1> QED
  BY <1>2, <1>3, <1>4 DEF Load

LEMMA MigrationStep ==
  ASSUME MigrationInv, [Next]_vars
  PROVE  MigrationInv'
<1>0. /\ TypeOK /\ TypeOK' /\ OnlyOld /\ slot \in Slot /\ count.deletes \in Nat
      /\ {"delete", "foreign"} \cap Writer = {} /\ Run \in Writer
  BY TypeInductive, CheckpointAssumption DEF MigrationInv, TypeOK, Other, Writer, CheckpointAssumption
<1>1. ASSUME NEW w \in Writer, SaveStep(w) PROVE MigrationInv'
  BY <1>0, <1>1, SaveKeepsMigration
<1>2. ASSUME NEW w \in Writer, Ask(w) PROVE MigrationInv'
  <2>1. PICK d \in {slot.doc} \ {NULL} : Load(w, d)
    BY <1>2 DEF Ask
  <2>2. d \in Document /\ slot.doc = d
    BY <2>1, <1>0 DEF Slot
  <2>3. count'.deletes = count.deletes /\ live' = live
    BY <1>2, <1>0 DEF Ask, TypeOK
  <2> QED BY <1>0, <2>1, <2>2, <2>3, LoadKeepsMigration DEF OnlyOld
<1>3. ASSUME NEW w \in Writer, Patch(w) PROVE MigrationInv'
  <2> DEFINE save == [NoSave EXCEPT !.doc = [local[w].doc EXCEPT !.decided = TRUE]]
  <2>1. slot' = slot /\ disk' = disk /\ count' = count /\ live' = live
    BY <1>3 DEF Patch
  <2>2. ASSUME NEW l \in {save, NoSave}, NEW where,
               pc' = [pc EXCEPT ![w] = where], local' = [local EXCEPT ![w] = l]
        PROVE  MigrationInv'
    <3>1. save \in Local /\ ~save.doc.legacy /\ save.from = Cleared
      BY <1>0, NoSaveTyped, NoSaveIsNew DEF TypeOK, Local, Document, OnlyOld, NoSave
    <3> HIDE DEF save
    <3>2. l \in Local /\ ~l.doc.legacy /\ l.from = Cleared
      BY <3>1, NoSaveTyped, NoSaveIsNew
    <3>3. local'[w] = l /\ \A u \in Writer \ {w} : pc'[u] = pc[u]
      BY <2>2, <1>0 DEF TypeOK
    <3>4. Since(w)'
      BY <3>2, <3>3 DEF Since
    <3>5. live' # NULL => ~live'.legacy
      BY <2>1, <1>0 DEF OnlyOld
    <3> QED BY <1>0, <2>1, <2>2, <3>2, <3>3, <3>4, <3>5, WriterMoves
  <2> QED BY <1>3, <2>2 DEF Patch, Start, Leave, Goto
<1>4. ASSUME Advance PROVE MigrationInv'
  <2> DEFINE save == [NoSave EXCEPT !.doc = live', !.again = TRUE]
  <2>1. /\ slot' = slot /\ disk' = disk /\ count' = count /\ live # NULL /\ live \in Document
        /\ live' = [live EXCEPT !.work = @ + 1]
        /\ pc' = [pc EXCEPT ![Run] = "select"] /\ local' = [local EXCEPT ![Run] = save]
    BY <1>0, <1>4 DEF Advance, Start, Goto, TypeOK
  <2>2. live' \in Document /\ ~live'.legacy
    BY <2>1, <1>0 DEF OnlyOld, Document
  <2>3. save \in Local /\ ~save.doc.legacy /\ save.from = Cleared
    BY <2>2, NoSaveTyped, NoSaveIsNew DEF Local, NoSave
  <2> HIDE DEF save
  <2>4. local'[Run] = save /\ \A u \in Writer \ {Run} : pc'[u] = pc[u]
    BY <2>1, <1>0 DEF TypeOK
  <2>5. Since(Run)'
    BY <2>3, <2>4 DEF Since
  <2> QED BY <1>0, <2>1, <2>2, <2>3, <2>4, <2>5, WriterMoves
<1>5. ASSUME Resume PROVE MigrationInv'
  <2>1. PICK d \in {slot.doc} \ {NULL} : Load(Run, d) /\ live' = Unlegacy(d)
    BY <1>5 DEF Resume
  <2>2. d \in Document /\ slot.doc = d
    BY <2>1, <1>0 DEF Slot
  <2>3. count' = count /\ ~live'.legacy
    BY <1>5, <2>1, <2>2 DEF Resume, Unlegacy, Document
  <2> QED BY <1>0, <2>1, <2>2, <2>3, LoadKeepsMigration
<1>6. ASSUME Delete PROVE MigrationInv'
  <2>1. /\ slot' = Cleared /\ disk' = disk /\ local' = local /\ live' = live
        /\ count'.deletes = count.deletes + 1 /\ \A u \in Writer : pc'[u] = pc[u]
    BY <1>0, <1>6 DEF Delete, Goto, TypeOK
  <2>2. count'.deletes >= count.deletes /\ count'.deletes # count.deletes
    BY <2>1, <1>0
  <2> QED BY <1>0, <2>1, <2>2, NoSaveIsNew, SlotMoves DEF OnlyOld, OldOrNew
<1>7. ASSUME CloseDelete \/ ForeignCommit PROVE MigrationInv'
  <2>1. /\ slot' = slot /\ disk' = slot /\ local' = local /\ count' = count
        /\ \A u \in Writer : pc'[u] = pc[u]
    BY <1>0, <1>7 DEF CloseDelete, ForeignCommit, Commit, Goto, Stay, TypeOK
  <2>2. live' # NULL => ~live'.legacy
    BY <1>0, <1>7, NoSaveIsNew DEF CloseDelete, ForeignCommit, Stay, OnlyOld
  <2> QED BY <1>0, <2>1, <2>2, SlotMoves DEF OnlyOld, OldOrNew, OldOrLater
<1>8. ASSUME Unload \/ ForeignWrite \/ UNCHANGED vars PROVE MigrationInv'
  <2>1. /\ slot' = slot /\ disk' = disk /\ local' = local /\ count' = count /\ live' \in {NULL, live}
        /\ \A u \in Writer : pc'[u] = pc[u]
    BY <1>0, <1>8 DEF Unload, ForeignWrite, Goto, Stay, TypeOK, vars
  <2> QED BY <1>0, <2>1, SlotMoves DEF OnlyOld, OldOrNew, OldOrLater
<1>9. ASSUME Crash PROVE MigrationInv'
  <2>1. /\ slot' = disk /\ disk' = disk /\ live' = NULL
        /\ \A u \in Writer : local'[u] = NoSave
    BY <1>9 DEF Crash, Rollback
  <2>2. OnlyOld'
    BY <2>1, <1>0, NoSaveIsNew DEF OnlyOld, OldOrNew
  <2>3. \A u \in Writer : Since(u)'
    BY <2>1, NoSaveIsNew DEF Since
  <2> QED BY <1>0, <2>2, <2>3 DEF MigrationInv
<1> QED
  BY <1>1, <1>2, <1>3, <1>4, <1>5, <1>6, <1>7, <1>8, <1>9 DEF Next

\* For any number of requests, with foreign commits, failing statements, rollbacks
\* and crashes: the write-back of a migrated document (load_run_context) replaces
\* the very document it was made from.
THEOREM WriteBackLosesNothing == Spec => MigrationLossless
<1> DEFINE Hits == \A w \in Writer :
              /\ pc[w] = "update" /\ pc'[w] = "commit" /\ slot.version = local[w].current
              /\ local[w].from # Cleared /\ local[w].deletes = count.deletes
              => slot = local[w].from
<1>1. ASSUME Init PROVE MigrationInv
  <2>1. /\ \A w \in Writer : local[w] = NoSave
        /\ slot \in {Cleared, Old} /\ disk = slot /\ live = NULL
    BY <1>1 DEF Init
  <2>2. OnlyOld
    BY <2>1, NoSaveIsNew DEF OnlyOld, OldOrNew
  <2>3. \A w \in Writer : Since(w)
    BY <2>1, NoSaveIsNew DEF Since
  <2>4. TypeOK
    <3>1. count \in [requests : Nat, deletes : Nat, crashes : Nat]
      BY <1>1 DEF Init
    <3>2. local \in [Writer -> Local] /\ pc \in [Writer \cup Other -> {"idle", "patch"} \cup Saving]
      BY <1>1, NoSaveTyped DEF Init
    <3> QED BY <1>1, <3>1, <3>2, Constants DEF Init, TypeOK
  <2> QED BY <2>2, <2>3, <2>4 DEF MigrationInv
<1>2. ASSUME MigrationInv PROVE Hits
  <2> SUFFICES ASSUME NEW w \in Writer, pc[w] = "update", slot.version = local[w].current,
                      local[w].from # Cleared, local[w].deletes = count.deletes
               PROVE  slot = local[w].from
    OBVIOUS
  <2>1. local[w].from = Old /\ OldOrLater(slot) /\ local[w].current = 1
    BY <1>2 DEF MigrationInv, Since
  <2> QED BY <2>1 DEF OldOrLater
<1> HIDE DEF Hits
<1>3. Spec => [][Hits]_vars
  BY <1>1, <1>2, MigrationStep, PTL DEF Spec
<1> QED
  BY <1>3 DEF Hits, MigrationLossless
==============================================================================
