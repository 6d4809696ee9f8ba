------------------------------- MODULE Approvals -------------------------------
(***************************************************************************)
(* Tool calls that wait for a human: PermissionGate, the approval branch   *)
(* of ToolExecutor.execute and core/gateway/pending_tools.  The dictionary *)
(* _pending is the truth while the process lives; the table                *)
(* pending_tool_approvals follows it through background tasks (write       *)
(* behind), each of which may fail, and refills it at start-up.  The tasks *)
(* go to the one SQLite connection in the order they were made, except     *)
(* those that wait while it is being made again (_get_sqlite_conn).        *)
(***************************************************************************)
EXTENDS Naturals, Sequences, FiniteSets, SequencesExt

CONSTANTS
  Call,      \* tool_call_id: a new uuid for every call
  Mode,      \* call -> "allow", "ask" or "deny" (PermissionGate.resolve_mode)
  MaxCrash   \* bound of the crashes

ASSUME ApprovalsAssumption == Mode \in [Call -> {"allow", "ask", "deny"}] /\ MaxCrash \in Nat

VARIABLES
  up,        \* the process has started and loaded the table
  made,     \* calls an agent has made
  pending,   \* _pending
  table,     \* pending_tool_approvals
  writes,    \* the tasks of _schedule that have not ended: [op, call]
  ran,       \* call -> how often the tool was executed
  lost,      \* calls whose removal never reached the table
  amid,      \* calls a task of which has waited for the connection
  crashes

approvalsVars == <<up, made, pending, table, writes, ran, lost, amid, crashes>>

ApprovalsInit ==
  /\ up = TRUE /\ made = {} /\ pending = {} /\ table = {} /\ writes = <<>>
  /\ ran = [c \in Call |-> 0] /\ lost = {} /\ amid = {} /\ crashes = 0

PendingWrite(op, c) == [op |-> op, call |-> c]

\* _register_pending_approval, register_pending
RegisterPending(c) ==
  /\ pending' = pending \cup {c}
  /\ writes' = Append(writes, PendingWrite("register", c))

\* ToolExecutor.execute: a call that is allowed runs, one that has to ask is
\* registered and answered with the reason, one that is denied is only answered.
Execute(c) ==
  /\ up /\ c \notin made
  /\ made' = made \cup {c}
  /\ ran' = [ran EXCEPT ![c] = IF Mode[c] = "allow" THEN @ + 1 ELSE @]
  /\ IF Mode[c] = "ask"
     THEN RegisterPending(c)
     ELSE UNCHANGED <<pending, writes>>
  /\ UNCHANGED <<up, table, lost, amid, crashes>>

\* pop_pending by whoever answers: None, and nothing to do, for a call that is
\* not pending.  An approved call runs with bypass_permission.
Resolve(c) ==
  /\ up /\ c \in pending
  /\ pending' = pending \ {c}
  /\ writes' = Append(writes, PendingWrite("remove", c))
  /\ \E approved \in BOOLEAN : ran' = [ran EXCEPT ![c] = IF approved THEN @ + 1 ELSE @]
  /\ UNCHANGED <<up, made, table, lost, amid, crashes>>

\* The connection is found dead, or is not there yet: a task that waits for it
\* may be passed by one that comes when _db is set (before the pragmas are).
Reconnect ==
  /\ up /\ writes # <<>>
  /\ amid' = amid \cup {writes[i].call : i \in DOMAIN writes}
  /\ UNCHANGED <<up, made, pending, table, writes, ran, lost, crashes>>

MutTurns == 1..Len(writes)

\* The tasks that may reach the connection next
Turns ==
  {i \in DOMAIN writes : writes[i].call \in amid \/ \A j \in 1..(i - 1) : writes[j].call \in amid}

\* _persist_register, _persist_remove: a failure is logged.
WriteBehind ==
  /\ up
  /\ \E i \in Turns, stored \in BOOLEAN :
       LET c == writes[i].call
       IN  /\ table' = IF ~stored THEN table
                       ELSE IF writes[i].op = "register" THEN table \cup {c} ELSE table \ {c}
           /\ lost' = IF ~stored /\ writes[i].op = "remove" THEN lost \cup {c} ELSE lost
           /\ writes' = RemoveAt(writes, i)
  /\ UNCHANGED <<up, made, pending, ran, amid, crashes>>

Crash ==
  /\ up /\ crashes < MaxCrash
  /\ up' = FALSE /\ crashes' = crashes + 1
  /\ pending' = {} /\ writes' = <<>>
  /\ lost' = lost \cup {c \in Call : PendingWrite("remove", c) \in ToSet(writes)}
  /\ UNCHANGED <<made, table, ran, amid>>

\* load_pending_from_db; a failure starts the process without them.
Start ==
  /\ ~up
  /\ up' = TRUE
  /\ pending' \in {table, {}}
  /\ UNCHANGED <<made, table, writes, ran, lost, amid, crashes>>

ApprovalsNext ==
  \/ \E c \in Call : Execute(c) \/ Resolve(c)
  \/ Reconnect \/ WriteBehind \/ Crash \/ Start

ApprovalsSpec == ApprovalsInit /\ [][ApprovalsNext]_approvalsVars
-------------------------------------------------------------------------------

\* A tool call is executed once, and one that was refused never: only when the
\* task that takes an answered call out of the table failed or died with the
\* process, or when the call's tasks met a connection that was being made again,
\* can it come back and run again.  This rests on the order of the tasks: a
\* removal that overtakes its registration leaves the row.
RunsOnceUnlessLost ==
  \A c \in Call : (ran[c] > 1 => c \in lost \cup amid) /\ (Mode[c] = "deny" => ran[c] = 0)
===============================================================================
