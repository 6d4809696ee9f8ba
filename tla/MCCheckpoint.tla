----------------------------- MODULE MCCheckpoint -----------------------------
(* The checkpoint store with one run and two requests. *)
EXTENDS CheckpointStore
==============================================================================
