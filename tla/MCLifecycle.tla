----------------------------- MODULE MCLifecycle -----------------------------
(***************************************************************************)
(* The life of a project with a few coroutines of each kind, of which one  *)
(* of Casts comes together in a behaviour.                                 *)
(***************************************************************************)
EXTENDS RunLifecycle

CONSTANT Casts

CastInit == \E cast \in Casts : AtRest(cast)
CastSpec == CastInit /\ [][Next]_vars /\ Fairness
==============================================================================
