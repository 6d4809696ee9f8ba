------------------------------- MODULE Artifacts -------------------------------
(***************************************************************************)
(* The files a run leaves in the project's output directory, and the rule  *)
(* that a node without one fails: ToolRegistry._file_write, the runtime's  *)
(* _persist_agent_output and its check, ProjectArtifactService, and the    *)
(* versions ArtifactVersioning keeps.  A row of the table artifacts names  *)
(* an agent and a run.  The row of the file_write tool bears the run it    *)
(* was written in; the rows the platform adds bear none (Unmarked), and    *)
(* the check of a run counts its own rows and the unmarked ones.           *)
(***************************************************************************)
EXTENDS Naturals, FiniteSets

CONSTANTS
  Stage,     \* the phases; <phase>.md is the file the runtime writes for one
  WriterOf,  \* phase -> its agent
  Expected,  \* phase -> the files its definition names (artifact_files)
  MaxRedo,   \* bound of the gate's loop
  MaxRuns,   \* bound of the runs of the project
  NoFile

File == Stage \cup UNION {Expected[p] : p \in Stage}

\* What a file holds, by who wrote it: the agent's tool, the runtime (its last
\* message) or the hook (the body of that message).
FileContent == {"tool", "runtime", "body"}

\* The run_id of a row that bears none: NULL or ''.
Unmarked == 0

ASSUME ArtifactsAssumption ==
  MaxRedo \in Nat /\ MaxRuns \in Nat \ {0} /\ NoFile \notin FileContent

VARIABLES
  at,     \* "idle", "working", "answered", "stored", "completed", "closed", "failed"
  said,   \* phases whose agent's last message has a text in it
  file,   \* file -> its content or NoFile
  rows,   \* <<agent, run>>: the rows of the table artifacts
  wrote,  \* <<agent, run>>: a file was really written that such a row is for
  runNo,  \* the run the project is in
  kept,   \* file -> the contents among its versions
  redone  \* how often phases were sent back

artifactsVars == <<at, said, file, rows, wrote, runNo, kept, redone>>

ArtifactsInit ==
  /\ at = [p \in Stage |-> "idle"] /\ said = {}
  /\ file = [f \in File |-> NoFile]
  /\ rows = {} /\ wrote = {} /\ runNo = 1
  /\ kept = [f \in File |-> {}]
  /\ redone = 0

\* A file is written in the agent's name.  Its row is added afterwards, and a
\* failure to add it is logged only.
AddRow(row) ==
  /\ rows' \in {rows, rows \cup {row}}
  /\ wrote' = wrote \cup {row}

Write(p) ==
  /\ at[p] = "idle"
  /\ at' = [at EXCEPT ![p] = "working"]
  /\ UNCHANGED <<said, file, rows, wrote, runNo, kept, redone>>

\* _file_write, to any path of the project: no version is kept.
FileWrite(p, f) ==
  /\ at[p] = "working"
  /\ file' = [file EXCEPT ![f] = "tool"]
  /\ AddRow(<<WriterOf[p], runNo>>)
  /\ UNCHANGED <<at, said, runNo, kept, redone>>

Reply(p) ==
  /\ at[p] = "working"
  /\ at' = [at EXCEPT ![p] = "answered"]
  /\ said' \in {said \cup {p}, said \ {p}}
  /\ UNCHANGED <<file, rows, wrote, runNo, kept, redone>>

\* _persist_agent_output: an empty message is skipped; a failure to write is
\* recorded and swallowed.  Its INSERT names no run_id.
PersistOutput(p) ==
  /\ at[p] = "answered"
  /\ \/ UNCHANGED <<file, rows, wrote>>
     \/ /\ p \in said
        /\ file' = [file EXCEPT ![p] = "runtime"]
        /\ AddRow(<<WriterOf[p], Unmarked>>)
  /\ at' = [at EXCEPT ![p] = "stored"]
  /\ UNCHANGED <<said, runNo, kept, redone>>

\* Without the filter on run_id, rows of earlier runs count.
MutHasArtifact(p, runs, answers) ==
  \/ \E f \in Expected[p] : file[f] # NoFile
  \/ answers /\ \E r \in 0..MaxRuns : <<WriterOf[p], r>> \in rows

\* has_phase_artifact: an expected file, whoever wrote it and in whichever run,
\* or a row of the agent out of these runs; a query that fails finds none.
HasArtifact(p, runs, answers) ==
  \/ \E f \in Expected[p] : file[f] # NoFile
  \/ answers /\ \E r \in runs : <<WriterOf[p], r>> \in rows

\* The check of _execute_agent passes its run: anything but PRESENT fails the node.
CheckOutput(p) ==
  /\ at[p] = "stored"
  /\ \E answers \in BOOLEAN :
       at' = [at EXCEPT ![p] = IF HasArtifact(p, {Unmarked, runNo}, answers)
                               THEN "completed" ELSE "failed"]
  /\ UNCHANGED <<said, file, rows, wrote, runNo, kept, redone>>

\* save_version_before_write, then write_text: no await in between.
VersionedWrite(f, content) ==
  /\ kept' = [kept EXCEPT ![f] = IF file[f] = NoFile THEN @ ELSE @ \cup {file[f]}]
  /\ file' = [file EXCEPT ![f] = content]

\* on_phase_complete's materialize_phase_output: the message's body, if it is
\* clean, becomes the first expected file, or <phase>.md.  It names no run, here
\* or in the row it adds, so the rows of every run count.
Materialize(p) ==
  /\ at[p] = "completed"
  /\ at' = [at EXCEPT ![p] = "closed"]
  /\ \/ UNCHANGED <<file, rows, wrote, kept>>
     \/ /\ p \in said
        /\ \E answers \in BOOLEAN : ~HasArtifact(p, Unmarked..MaxRuns, answers)
        /\ \E f \in IF Expected[p] = {} THEN {p} ELSE Expected[p] :
             VersionedWrite(f, "body")
        /\ AddRow(<<WriterOf[p], Unmarked>>)
  /\ UNCHANGED <<said, runNo, redone>>

\* The phase's gate sends it back, or its run goes on from a checkpoint.
Redo(p) ==
  /\ at[p] \in {"closed", "failed"} /\ redone < MaxRedo
  /\ redone' = redone + 1
  /\ at' = [at EXCEPT ![p] = "idle"]
  /\ UNCHANGED <<said, file, rows, wrote, runNo, kept>>

\* The project is run again, whatever the last run has come to: files and rows
\* stay, the run_id is a new one.
NewRun ==
  /\ runNo < MaxRuns
  /\ runNo' = runNo + 1
  /\ at' = [p \in Stage |-> "idle"] /\ said' = {}
  /\ UNCHANGED <<file, rows, wrote, kept, redone>>

ArtifactsNext ==
  \/ \E p \in Stage :
       \/ Write(p) \/ Reply(p) \/ PersistOutput(p) \/ CheckOutput(p) \/ Materialize(p) \/ Redo(p)
       \/ \E f \in File : FileWrite(p, f)
  \/ NewRun

ArtifactsSpec == ArtifactsInit /\ [][ArtifactsNext]_artifactsVars
-------------------------------------------------------------------------------

\* No agent gets a phase accepted with nothing on disk: for a phase completed in
\* this run there is an expected file, or its agent wrote a file with its tool in
\* this very run, or the platform stored one of the agent's messages.  Rows are
\* trusted without a look at the files, and those of earlier runs are still in the
\* table, so this rests on no row being added without a file, in the right
\* run's name, and on the check's filter.
NothingFromNothing ==
  \A p \in Stage : at[p] \in {"completed", "closed"} =>
    \/ \E f \in Expected[p] : file[f] # NoFile
    \/ {<<WriterOf[p], Unmarked>>, <<WriterOf[p], runNo>>} \cap wrote # {}

\* "本阶段是否已有落盘产物" (has_phase_artifact); "宁可显式 FAILED，也不要 run
\* 看起来 COMPLETED 但产出残缺" (_execute_agent): a completed phase has a file of
\* its own.  It does not hold: a row from another phase of the agent will do.
OwnFile ==
  \A p \in Stage : at[p] \in {"completed", "closed"} =>
    \E f \in {p} \cup Expected[p] : file[f] # NoFile

\* "如果 agent 自己已经通过 file_write 写了同 phase 文件，跳过"
\* (_persist_agent_output): what the agent wrote to its phase's file is not
\* written over by its last message.  It does not hold: nothing looks.
DeliverableKept ==
  [][\A p \in Stage : file[p] = "tool" => file'[p] # "runtime"]_artifactsVars
===============================================================================
