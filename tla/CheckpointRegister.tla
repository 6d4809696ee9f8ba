-------------------------- MODULE CheckpointRegister --------------------------
(***************************************************************************)
(* What the checkpoint slot of a project promises: a register replaced as  *)
(* a whole, each time under the next version, or cleared, and a safe copy  *)
(* that a rollback or a crash returns to.                                  *)
(***************************************************************************)
EXTENDS Naturals

CONSTANTS Document, NoDocument

VARIABLES slot, safe

Cleared == [version |-> 0, doc |-> NoDocument]

Init == slot.version \in Nat /\ slot.doc \in Document \cup {NoDocument} /\ safe = slot

Put   == /\ slot'.version = slot.version + 1 /\ slot'.doc \in Document
         /\ UNCHANGED safe
Clear == slot' = Cleared /\ UNCHANGED safe
Keep  == safe' = slot /\ UNCHANGED slot
Undo  == slot' = safe /\ UNCHANGED safe

Next == Put \/ Clear \/ Keep \/ Undo
Spec == Init /\ [][Next]_<<slot, safe>>
==============================================================================
