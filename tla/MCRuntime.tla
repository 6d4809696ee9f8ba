------------------------------ MODULE MCRuntime ------------------------------
(* The graph runtime on the graphs of MCGraphs; each .cfg names its graph. *)
EXTENDS RuntimeProperties, MCGraphs
==============================================================================
