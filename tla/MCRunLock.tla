------------------------------ MODULE MCRunLock ------------------------------
(* Three processes with one workflow each, or two of which one has two. *)
EXTENDS RunLock

OneEach == [t \in {"i1", "i2", "i3"} |-> t]
OneOfTwo == [t \in {"i1", "i2"} |-> t]
TwoInOne == [t \in {"t1", "t2", "t3"} |-> IF t = "t3" THEN "i2" ELSE "i1"]
==============================================================================
