--------------------------- MODULE CheckpointStore ---------------------------
(***************************************************************************)
(* The checkpoint slot and the checkpoint history of one project, written  *)
(* by the coroutines of one process: the run that saves its RunContext,    *)
(* requests that load the stored context, migrate it if it has the old     *)
(* form and patch a decision id into it, and the launch that deletes it.   *)
(*                                                                         *)
(* All coroutines share one SQLite connection and so its transaction: a    *)
(* statement that writes opens one if none is open, every statement sees   *)
(* what was written before it, and anybody's commit or rollback ends it    *)
(* for all.  Each statement is one step.                                   *)
(***************************************************************************)
EXTENDS Naturals, Sequences, FiniteSets

CONSTANTS
  Run,          \* the coroutine that runs the workflow (the run lock admits one)
  Request,      \* coroutines of requests for the pending decision
  MaxWork,      \* bound: progress the run makes, one save for each
  MaxRequests,  \* bound: requests in all
  MaxDeletes,   \* bound: launches that delete the checkpoint
  MaxCrashes,   \* bound: crashes of the process
  Foreign,      \* TRUE: other tables are written on the connection, too
  Failing,      \* statements that may raise: a subset of {"update", "insert"}
  NULL

Writer == {Run} \cup Request
Other  == {"delete", "foreign"}

\* What of a document matters: how much of the run it holds, whether the
\* decision id is in it, and whether it has the old form.
Document == [work : Nat, decided : BOOLEAN, legacy : BOOLEAN]

ASSUME CheckpointAssumption ==
  /\ Run \notin Request /\ Writer \cap Other = {}
  /\ MaxWork \in Nat /\ MaxRequests \in Nat /\ MaxDeletes \in Nat /\ MaxCrashes \in Nat
  /\ Foreign \in BOOLEAN
  /\ Failing \subseteq {"update", "insert"}
  /\ NULL \notin Document \cup Nat

VARIABLES
  slot,      \* checkpoint_version and checkpoint_state, as statements see them
  disk,      \* the slot as of the last commit
  open,      \* a transaction is open on the connection
  pc,        \* where each coroutine is
  local,     \* the local variables of each writer's save
  live,      \* the RunContext of the run in memory, NULL without a run
  count      \* requests, deletes and crashes so far

vars == <<slot, disk, open, pc, local, live, count>>

Cleared == [version |-> 0, doc |-> NULL]
Fresh   == [work |-> 0, decided |-> FALSE, legacy |-> FALSE]

Saving == {"select", "begin", "update", "commit", "missed", "conflict", "insert", "close"}

Slot == [version : Nat, doc : Document \cup {NULL}]

\* The document a writer saves, its expected_version (NULL if it gives none),
\* the version its SELECT returned, whether it may try again, and the slot and
\* the deletes as of its load.
Local == [doc : Document, expected : Nat \cup {NULL}, current : Nat,
          again : BOOLEAN, from : Slot, deletes : Nat]
NoSave == [doc |-> Fresh, expected |-> NULL, current |-> 0,
           again |-> FALSE, from |-> Cleared, deletes |-> 0]

TypeOK ==
  /\ slot \in Slot /\ disk \in Slot
  /\ open \in BOOLEAN
  /\ pc \in [Writer \cup Other -> {"idle", "patch"} \cup Saving]
  /\ local \in [Writer -> Local]
  /\ live \in Document \cup {NULL}
  /\ count \in [requests : Nat, deletes : Nat, crashes : Nat]

\* The slot may hold a document of the old form from before an upgrade.
Old == [version |-> 1, doc |-> [work |-> 0, decided |-> FALSE, legacy |-> TRUE]]

Init ==
  /\ slot \in {Cleared, Old}
  /\ disk = slot
  /\ open = FALSE
  /\ pc = [w \in Writer \cup Other |-> "idle"]
  /\ local = [w \in Writer |-> NoSave]
  /\ live = NULL
  /\ count = [requests |-> 0, deletes |-> 0, crashes |-> 0]

Goto(w, where) == pc' = [pc EXCEPT ![w] = where]
Leave(w) == Goto(w, "idle") /\ local' = [local EXCEPT ![w] = NoSave]
Stay == UNCHANGED <<local, live, count>>

\* commit() and rollback() of the connection, whoever calls them
Commit   == disk' = slot /\ open' = FALSE
Rollback == slot' = disk /\ open' = FALSE

------------------------------------------------------------------------------
(* save_checkpoint, from its SELECT on *)

\* save_run_context(ctx, expected_version): the document is fixed here.
Start(w, save) == Goto(w, "select") /\ local' = [local EXCEPT ![w] = save]

MutSelect(w) ==
  /\ pc[w] = "select"
  /\ local' = [local EXCEPT ![w].current = slot.version]
  /\ Goto(w, "begin")
  /\ UNCHANGED <<slot, disk, open, live, count>>

Select(w) ==
  /\ pc[w] = "select"
  /\ local' = [local EXCEPT ![w].current = slot.version]
  /\ Goto(w, IF local[w].expected \in {NULL, slot.version} THEN "begin" ELSE "conflict")
  /\ UNCHANGED <<slot, disk, open, live, count>>

\* BEGIN raises inside anybody's transaction; the exception is logged and the
\* version returned as if it had been written.
Begin(w) ==
  /\ pc[w] = "begin"
  /\ Goto(w, IF open THEN "insert" ELSE "update")
  /\ open' = TRUE
  /\ UNCHANGED <<slot, disk>> /\ Stay

\* What an UPDATE that hits leaves.
Written(w) == [version |-> local[w].current + 1, doc |-> local[w].doc]

MutHit(w) ==
  /\ slot' = Written(w)
  /\ open' = TRUE
  /\ Goto(w, "commit")
  /\ UNCHANGED disk /\ Stay

\* UPDATE ... WHERE checkpoint_version = the version read
Hit(w) ==
  /\ slot.version = local[w].current
  /\ slot' = Written(w)
  /\ open' = TRUE
  /\ Goto(w, "commit")
  /\ UNCHANGED disk /\ Stay

Miss(w) ==
  /\ slot.version # local[w].current
  /\ open' = TRUE
  /\ Goto(w, "missed")
  /\ UNCHANGED <<slot, disk>> /\ Stay

UpdateFails(w) ==
  /\ "update" \in Failing
  /\ Rollback
  /\ Goto(w, "insert")
  /\ UNCHANGED disk /\ Stay

Update(w) == pc[w] = "update" /\ (Hit(w) \/ Miss(w) \/ UpdateFails(w))

\* commit, and whether the UPDATE had hit a row
CommitUpdate(w) ==
  /\ pc[w] \in {"commit", "missed"}
  /\ Commit
  /\ Goto(w, IF pc[w] = "commit" THEN "insert" ELSE "conflict")
  /\ UNCHANGED slot /\ Stay

\* Where a request goes on after the write-back of its load
LoadsFor(w) == w \in Request /\ local[w].expected # NULL

\* CheckpointConflictError: the run tries once more with the same context;
\* load_run_context goes on without having migrated; a patch is given up.
Conflict(w) ==
  /\ pc[w] = "conflict"
  /\ \/ /\ local[w].again
        /\ Goto(w, "select")
        /\ local' = [local EXCEPT ![w].again = FALSE]
     \/ ~local[w].again /\ LoadsFor(w) /\ Goto(w, "patch") /\ UNCHANGED local
     \/ ~local[w].again /\ ~LoadsFor(w) /\ Leave(w)
  /\ UNCHANGED <<slot, disk, open, live, count>>

------------------------------------------------------------------------------
(* _append_checkpoint_history: a failure is logged only.  The history itself *)
(* is not kept here.                                                         *)

Return(w) ==
  \/ LoadsFor(w) /\ Goto(w, "patch") /\ UNCHANGED local
  \/ ~LoadsFor(w) /\ Leave(w)

\* The INSERT opens a transaction, which stays open while old rows are looked
\* for and deleted.
Insert(w) ==
  /\ pc[w] = "insert"
  /\ \/ open' = TRUE /\ Goto(w, "close") /\ UNCHANGED local
     \/ "insert" \in Failing /\ Return(w) /\ UNCHANGED open
  /\ UNCHANGED <<slot, disk, live, count>>

Close(w) ==
  /\ pc[w] = "close"
  /\ Commit
  /\ Return(w)
  /\ UNCHANGED <<slot, live, count>>

SaveStep(w) ==
  \/ Select(w) \/ Begin(w) \/ Update(w) \/ CommitUpdate(w) \/ Conflict(w)
  \/ Insert(w) \/ Close(w)

------------------------------------------------------------------------------
(* Who saves *)

Unlegacy(d) == [d EXCEPT !.legacy = FALSE]

\* What a load of document d hands on, before it is saved under `version`.
Loaded(d, version) ==
  [NoSave EXCEPT !.doc = Unlegacy(d), !.expected = version,
                 !.from = slot, !.deletes = count.deletes]

\* load_run_context: a document of the old form is written back, expecting
\* the version it was read under.
Load(w, d) ==
  /\ slot.doc = d
  /\ \/ d.legacy /\ Start(w, Loaded(d, slot.version))
     \/ ~d.legacy /\ w \in Request /\ Goto(w, "patch") /\ local' = [local EXCEPT ![w].doc = d]
     \/ ~d.legacy /\ w = Run /\ Leave(w)
  /\ UNCHANGED <<slot, disk, open>>

\* A request for the pending decision
Ask(w) ==
  /\ w \in Request /\ pc[w] = "idle" /\ count.requests < MaxRequests
  /\ \E d \in {slot.doc} \ {NULL} : Load(w, d)
  /\ count' = [count EXCEPT !.requests = @ + 1]
  /\ UNCHANGED live

\* _patch_run_context_decision_id saves what it loaded without an expected
\* version; a request that only shows the decision ends here.
Patch(w) ==
  /\ pc[w] = "patch"
  /\ \/ Start(w, [NoSave EXCEPT !.doc = [local[w].doc EXCEPT !.decided = TRUE]])
     \/ Leave(w)
  /\ UNCHANGED <<slot, disk, open, live, count>>

RunIsIdle == pc[Run] = "idle" /\ pc["delete"] = "idle"

\* The run makes progress and saves it; it waits for the save.
Advance ==
  /\ RunIsIdle /\ live # NULL /\ live.work < MaxWork
  /\ live' = [live EXCEPT !.work = @ + 1]
  /\ Start(Run, [NoSave EXCEPT !.doc = live', !.again = TRUE])
  /\ UNCHANGED <<slot, disk, open, count>>

\* CollaborationGraph.from_checkpoint
Resume ==
  /\ RunIsIdle /\ live = NULL
  /\ \E d \in {slot.doc} \ {NULL} : Load(Run, d) /\ live' = Unlegacy(d)
  /\ UNCHANGED count

\* A new launch of a project that is not paused: delete_checkpoint
Delete ==
  /\ RunIsIdle /\ live = NULL /\ count.deletes < MaxDeletes
  /\ slot' = Cleared /\ open' = TRUE
  /\ Goto("delete", "close")
  /\ count' = [count EXCEPT !.deletes = @ + 1]
  /\ UNCHANGED <<disk, local, live>>

CloseDelete ==
  /\ pc["delete"] = "close"
  /\ Commit
  /\ Goto("delete", "idle")
  /\ live' = Fresh
  /\ UNCHANGED <<slot, local, count>>

\* The run ends or pauses, and its graph leaves the registry.
Unload ==
  /\ RunIsIdle /\ live # NULL
  /\ live' = NULL
  /\ UNCHANGED <<slot, disk, open, pc, local, count>>

\* A statement and its commit on another table
ForeignWrite ==
  /\ Foreign /\ pc["foreign"] = "idle"
  /\ open' = TRUE
  /\ Goto("foreign", "close")
  /\ UNCHANGED <<slot, disk>> /\ Stay

ForeignCommit ==
  /\ pc["foreign"] = "close"
  /\ Commit
  /\ Goto("foreign", "idle")
  /\ UNCHANGED slot /\ Stay

Crash ==
  /\ count.crashes < MaxCrashes
  /\ Rollback
  /\ pc' = [w \in Writer \cup Other |-> "idle"]
  /\ local' = [w \in Writer |-> NoSave]
  /\ live' = NULL
  /\ count' = [count EXCEPT !.crashes = @ + 1]
  /\ UNCHANGED disk

Next ==
  \/ \E w \in Writer : SaveStep(w) \/ Ask(w) \/ Patch(w)
  \/ Advance \/ Resume \/ Delete \/ CloseDelete \/ Unload
  \/ ForeignWrite \/ ForeignCommit \/ Crash

Spec == Init /\ [][Next]_vars

------------------------------------------------------------------------------
Register == INSTANCE CheckpointRegister WITH safe <- disk, NoDocument <- NULL

\* Whatever the interleaving of saves, retries, foreign commits, failures and
\* crashes, the slot behaves as a register: a save that hits replaces the
\* whole document and steps the version by one, and nothing else writes it.
ImplementsRegister == Register!Spec

\* Writing back a migrated document never undoes what the run has saved since
\* it was loaded.  (A delete in between starts the versions anew, which
\* expected_version cannot see.)
MigrationLossless ==
  [][\A w \in Writer :
       /\ pc[w] = "update" /\ pc'[w] = "commit" /\ slot.version = local[w].current
       /\ local[w].from # Cleared /\ local[w].deletes = count.deletes
       => slot = local[w].from]_vars

\* A save that goes on as saved, with a history row for its version, has been
\* stored: "Raises: CheckpointConflictError" (agent/state_manager.py:210)
\* says that a failed concurrent write is reported.
SavedIsStored ==
  \A w \in Writer :
    pc[w] = "insert" /\ count.deletes = 0 => slot.version > local[w].current
==============================================================================
