----------------------------- MODULE MCScheduler -----------------------------
(* The scheduler alone on the forked graph of MCGraphs. *)
EXTENDS SchedulerAlone, MCGraphs
==============================================================================
