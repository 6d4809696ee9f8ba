------------------------------ MODULE Migrations ------------------------------
(***************************************************************************)
(* The start of a process on an SQLite database: init_db runs the base     *)
(* schema, then _run_migrations the numbered scripts that are not yet      *)
(* recorded (core/storage/database.py; db/schema.sql, db/migrations).      *)
(* executescript commits each statement by itself, so a process that       *)
(* crashes, a statement that fails and another process that starts meet    *)
(* the middle of a script.  The columns and indexes are names; of the rows *)
(* only those that script 026 moves are kept.                              *)
(***************************************************************************)
EXTENDS Naturals, Sequences

CONSTANTS
  Starter,      \* the processes
  Script,       \* the files in the order of their names
  Statements,   \* file -> its statements, [op, name], op being one of ensure, add,
                \* make, copy, drop and rename
  Conditional,  \* the files that run only on the old asset_versions
  Baseline      \* table -> the names schema.sql makes when the table is not there

\* One script moves rows, a conditional one (026), and it copies before it drops.
MovesRows(st) == st.op \in {"copy", "drop", "rename"}

ASSUME ScriptAssumption ==
  /\ Script \in Seq(STRING)
  /\ \A k, l \in 1..Len(Script) :
       \A i \in 1..Len(Statements[Script[k]]), j \in 1..Len(Statements[Script[l]]) :
         MovesRows(Statements[Script[k]][i]) /\ MovesRows(Statements[Script[l]][j])
           => Script[k] = Script[l] /\ Script[k] \in Conditional
  /\ \A k \in 1..Len(Script) : \A d \in 1..Len(Statements[Script[k]]) :
       Statements[Script[k]][d].op = "drop"
         => \E c \in 1..d - 1 : /\ Statements[Script[k]][c].op = "copy"
                               /\ \A i \in c..d : Statements[Script[k]][i].op # "rename"

VARIABLES
  tables,    \* the tables that are there
  disk,      \* the columns and indexes that are there
  assets,    \* asset_versions: none, old or new
  copy,      \* asset_versions_new is there
  holders,   \* the tables that hold the rows of the old asset_versions
  recorded,  \* schema_version
  starting,  \* process -> off, schema, scripts or on
  applied,   \* process -> what it read of schema_version
  script,    \* process -> the file it is at
  stmt,      \* process -> the statement it is at, 0 before the first
  together   \* two processes have been in one conditional script at once

migrationVars ==
  <<tables, disk, assets, copy, holders, recorded, starting, applied, script, stmt, together>>

\* An empty file, or a database of before the migrations with some of the tables.
MigrationsInit ==
  /\ \/ tables = {} /\ assets = "none" /\ holders = {}
     \/ tables \in SUBSET DOMAIN Baseline /\ assets = "old" /\ holders = {"assets"}
  /\ disk = {} /\ copy = FALSE /\ recorded = {}
  /\ starting = [p \in Starter |-> "off"] /\ applied = [p \in Starter |-> {}]
  /\ script = [p \in Starter |-> 1] /\ stmt = [p \in Starter |-> 0]
  /\ together = FALSE

\* init_db: schema.sql, CREATE TABLE IF NOT EXISTS.  A table that is there
\* keeps the columns it has.
Schema(p) ==
  /\ starting[p] = "off" /\ starting' = [starting EXCEPT ![p] = "schema"]
  /\ tables' = tables \cup DOMAIN Baseline
  /\ disk' = disk \cup UNION {Baseline[t] : t \in DOMAIN Baseline \ tables}
  /\ assets' = IF assets = "none" THEN "new" ELSE assets
  /\ UNCHANGED <<copy, holders, recorded, applied, script, stmt, together>>

\* _get_applied_versions, once for the whole start
ReadVersions(p) ==
  /\ starting[p] = "schema" /\ starting' = [starting EXCEPT ![p] = "scripts"]
  /\ applied' = [applied EXCEPT ![p] = recorded]
  /\ script' = [script EXCEPT ![p] = 1] /\ stmt' = [stmt EXCEPT ![p] = 0]
  /\ UNCHANGED <<tables, disk, assets, copy, holders, recorded, together>>

Name(p) == Script[script[p]]
Working(p) == starting[p] = "scripts" /\ script[p] <= Len(Script)
Statement(p) == Statements[Name(p)][stmt[p]]
InStatement(p) == Working(p) /\ stmt[p] \in 1..Len(Statements[Name(p)])

NextFile(p) ==
  /\ script' = [script EXCEPT ![p] = @ + 1] /\ stmt' = [stmt EXCEPT ![p] = 0]
  /\ UNCHANGED <<tables, disk, assets, copy, holders, starting, applied, together>>

Skipped(p) == Name(p) \in Conditional /\ assets # "old"

\* What is recorded is passed over; a conditional script whose old column is
\* gone is recorded without running.
Skip(p) ==
  /\ Working(p) /\ stmt[p] = 0 /\ NextFile(p)
  /\ \/ Name(p) \in applied[p] /\ UNCHANGED recorded
     \/ Name(p) \notin applied[p] /\ Skipped(p) /\ recorded' = recorded \cup {Name(p)}

Begin(p) ==
  /\ Working(p) /\ stmt[p] = 0 /\ Name(p) \notin applied[p] /\ ~Skipped(p)
  /\ stmt' = [stmt EXCEPT ![p] = 1]
  /\ together' = (together \/ (/\ Name(p) \in Conditional
                               /\ \E q \in Starter \ {p} :
                                    InStatement(q) /\ Name(q) = Name(p)))
  /\ UNCHANGED <<tables, disk, assets, copy, holders, recorded, starting, applied, script>>

\* One statement of executescript, committed by itself.  "ensure" stands for
\* what can be run any number of times: CREATE ... IF NOT EXISTS and UPDATE.
Ensure(st) ==
  /\ st.op = "ensure" /\ disk' = disk \cup {st.name}
  /\ UNCHANGED <<assets, copy, holders>>

AddColumn(st) ==
  /\ st.op = "add" /\ st.name \notin disk /\ disk' = disk \cup {st.name}
  /\ UNCHANGED <<assets, copy, holders>>

\* Script 026: CREATE TABLE IF NOT EXISTS asset_versions_new, then INSERT OR
\* IGNORE from the old columns, DROP and RENAME
MakeCopy(st) ==
  /\ st.op = "make" /\ copy' = TRUE
  /\ UNCHANGED <<disk, assets, holders>>

CopyRows(st) ==
  /\ st.op = "copy" /\ copy /\ assets = "old"
  /\ holders' = IF "assets" \in holders THEN holders \cup {"copy"} ELSE holders
  /\ UNCHANGED <<disk, assets, copy>>

DropTable(st) ==
  /\ st.op = "drop" /\ assets # "none" /\ assets' = "none" /\ holders' = holders \ {"assets"}
  /\ UNCHANGED <<disk, copy>>

RenameTable(st) ==
  /\ st.op = "rename" /\ copy /\ assets = "none"
  /\ assets' = "new" /\ copy' = FALSE
  /\ holders' = IF "copy" \in holders THEN {"assets"} ELSE {}
  /\ UNCHANGED disk

RunStatement(p) ==
  /\ InStatement(p)
  /\ LET st == Statement(p)
     IN  \/ Ensure(st) \/ AddColumn(st) \/ MakeCopy(st) \/ CopyRows(st) \/ DropTable(st)
         \/ RenameTable(st)
  /\ stmt' = [stmt EXCEPT ![p] = @ + 1]
  /\ UNCHANGED <<tables, recorded, starting, applied, script, together>>

\* "duplicate column": the script counts as applied, the rest of it is not run.
DuplicateColumn(p) ==
  /\ InStatement(p) /\ Statement(p).op = "add" /\ Statement(p).name \in disk
  /\ recorded' = recorded \cup {Name(p)} /\ NextFile(p)

\* Any other error, a busy database among them: the next file is tried, and
\* this one at the next start.
MutStatementFails(p) ==
  /\ InStatement(p) /\ stmt' = [stmt EXCEPT ![p] = @ + 1]
  /\ UNCHANGED <<tables, disk, assets, copy, holders, recorded, starting, applied, script,
                 together>>

StatementFails(p) ==
  /\ Working(p) /\ stmt[p] > 0
  /\ NextFile(p) /\ UNCHANGED recorded

\* The version is inserted when executescript has returned.
MutRecord(p) ==
  /\ Working(p) /\ stmt[p] >= Len(Statements[Name(p)])
  /\ recorded' = recorded \cup {Name(p)} /\ NextFile(p)

Record(p) ==
  /\ Working(p) /\ stmt[p] > Len(Statements[Name(p)])
  /\ recorded' = recorded \cup {Name(p)} /\ NextFile(p)

Started(p) ==
  /\ starting[p] = "scripts" /\ script[p] > Len(Script) /\ starting' = [starting EXCEPT ![p] = "on"]
  /\ UNCHANGED <<tables, disk, assets, copy, holders, recorded, applied, script, stmt, together>>

\* The process dies, or is stopped and started again.
Dies(p) ==
  /\ starting[p] # "off" /\ starting' = [starting EXCEPT ![p] = "off"]
  /\ stmt' = [stmt EXCEPT ![p] = 0]
  /\ UNCHANGED <<tables, disk, assets, copy, holders, recorded, applied, script, together>>

Step(p) ==
  \/ Schema(p) \/ ReadVersions(p) \/ Skip(p) \/ Begin(p) \/ RunStatement(p)
  \/ DuplicateColumn(p) \/ StatementFails(p) \/ Record(p) \/ Started(p) \/ Dies(p)

MigrationsNext == \E p \in Starter : Step(p)

MigrationsSpec == MigrationsInit /\ [][MigrationsNext]_migrationVars
-------------------------------------------------------------------------------
Makes(st) == st.op \in {"ensure", "add"}

Done(s) ==
  \A i \in 1..Len(Statements[s]) :
    Makes(Statements[s][i]) => Statements[s][i].name \in disk

\* The scripts in which at most the last statement can be a duplicate.
Simple(s) ==
  /\ s \notin Conditional
  /\ Statements[s] \in Seq([op : {"ensure", "add"}, name : STRING]) \ {<<>>}
  /\ \A i \in 1..Len(Statements[s]) - 1 : Statements[s][i].op = "ensure"

\* Whatever crashes, fails or runs at the same time: a script that is recorded
\* has made all it makes, if it adds one column at most and that at its end.
SimpleScriptsDone == \A s \in recorded : Simple(s) => Done(s)

\* The rows of the old asset_versions are in one of the two tables after every
\* step, unless two processes have been in the script that moves them at once.
RowsKept == [][holders # {} /\ ~together' => holders' # {}]_migrationVars

\* (Not so.) A script counts as applied when its columns are there: "the baseline already
\* has the column, or an earlier migration added it", database.py:338.
RecordedIsDone == \A s \in recorded : s \notin Conditional => Done(s)

\* (Not so.) Once script 026 is recorded, the rows it says it migrates are in
\* asset_versions.
RowsMoved == Conditional \subseteq recorded => holders \in {{}, {"assets"}}
===============================================================================
