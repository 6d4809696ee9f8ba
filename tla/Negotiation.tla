------------------------------ MODULE Negotiation ------------------------------
(***************************************************************************)
(* What agents agree on while they work, and whether it is checked.  An    *)
(* agent acknowledges the hand-overs meant for it, may question the agent  *)
(* before it (core/run/shared_thread) and may ask another one in passing   *)
(* (BaseAgent._ask_peer).  What the answers promise goes to a ledger of    *)
(* constraints (core/run/negotiation) that is put in the prompts, and the  *)
(* quality gate of a phase judges the phase's output by it                 *)
(* (GraphRuntime._execute_quality_gate), one model call per constraint.    *)
(* A phase that a human reviews or decides about has no gate.              *)
(* current_phase_id is one field for all branches of a run.                *)
(***************************************************************************)
EXTENDS Naturals, FiniteSets

CONSTANTS
  Phase,
  Before,      \* phase -> the phases it comes after
  Talks,       \* phases with dialogue_policy "shared_thread"
  Text,        \* what can be agreed on
  Gated,       \* phases compiled with a quality gate, the others have a human
  Reviewable,  \* phases whose gate sends them back
  MaxTries,    \* bound of the gate's loop
  NULL

VARIABLES
  batch,    \* the phases that were dispatched together
  pc,       \* "waiting", "entered", "discussed", "running", "asking", "ran",
            \* "judging", "released"
  current,  \* RunContext.current_phase_id
  asked,    \* phase -> the phase its question in passing is recorded under
  thread,   \* the phases that have handed over (entries of collaboration_thread)
  ledger,   \* text -> [phase, status] or NULL
  heard,    \* phase -> the constraints in the prompt of its last execution
  targets,  \* phase -> the constraints its gate has still to judge
  skipped,  \* phases whose gate went on without judging all (an exception)
  sentBack     \* phase -> times sent back

negotiationVars == <<batch, pc, current, asked, thread, ledger, heard, targets, skipped, sentBack>>

NegotiationInit ==
  /\ batch = {} /\ pc = [p \in Phase |-> "waiting"]
  /\ current = NULL /\ asked = [p \in Phase |-> NULL]
  /\ thread = {}
  /\ ledger = [k \in Text |-> NULL]
  /\ heard = [p \in Phase |-> {}] /\ targets = [p \in Phase |-> {}]
  /\ skipped = {} /\ sentBack = [p \in Phase |-> 0]

Dispatch ==
  /\ batch = {}
  /\ batch' = {p \in Phase : pc[p] = "waiting" /\ \A q \in Before[p] : pc[q] = "released"}
  /\ batch' # {}
  /\ UNCHANGED <<pc, current, asked, thread, ledger, heard, targets, skipped, sentBack>>

(***************************************************************************)
(* Entering a phase                                                        *)
(***************************************************************************)

MutTakePhase(p) == current' = IF current = NULL THEN p ELSE current

TakePhase(p) == current' = p

\* _execute_agent up to its first await.  (on_phase_enter acknowledges what was
\* handed over in the thread, again when the phase runs again; nothing reads
\* the acknowledgements.)
Enter(p) ==
  /\ p \in batch /\ pc[p] = "waiting"
  /\ TakePhase(p)
  /\ pc' = [pc EXCEPT ![p] = "entered"]
  /\ UNCHANGED <<batch, asked, thread, ledger, heard, targets, skipped, sentBack>>

\* add_constraints: a text that is in the ledger, whatever its state, is not
\* added again.
WithConstraints(texts, phase) ==
  [k \in Text |-> IF k \in texts /\ ledger[k] = NULL
                  THEN [phase |-> phase, status |-> "confirmed"] ELSE ledger[k]]

\* run_shared_thread_dialogue: it is recorded under the phase's own id, and
\* needs a hand-over.  The constraints are extracted when the rounds are over.
Discuss(p) ==
  /\ pc[p] = "entered" /\ p \in Talks /\ thread \ {p} # {}
  /\ \E texts \in SUBSET Text : ledger' = WithConstraints(texts, p)
  /\ pc' = [pc EXCEPT ![p] = "discussed"]
  /\ UNCHANGED <<batch, current, asked, thread, heard, targets, skipped, sentBack>>

\* confirmed_constraints: a violated constraint is left out
Listed == {k \in Text : ledger[k] # NULL /\ ledger[k].status \in {"confirmed", "satisfied"}}

\* format_for_prompt
Prompt(p) ==
  /\ pc[p] = IF p \in Talks /\ thread \ {p} # {} THEN "discussed" ELSE "entered"
  /\ heard' = [heard EXCEPT ![p] = Listed]
  /\ pc' = [pc EXCEPT ![p] = "running"]
  /\ UNCHANGED <<batch, current, asked, thread, ledger, targets, skipped, sentBack>>

(***************************************************************************)
(* While it runs                                                           *)
(***************************************************************************)

\* _ask_peer reads current_phase_id when it starts; there must be somebody
\* with an output.
AskPeer(p) ==
  /\ pc[p] = "running" /\ thread \ {p} # {}
  /\ asked' = [asked EXCEPT ![p] = current]
  /\ pc' = [pc EXCEPT ![p] = "asking"]
  /\ UNCHANGED <<batch, current, thread, ledger, heard, targets, skipped, sentBack>>

\* The answer's promises are recorded; a peer that fails or is late leaves an
\* open question, which no gate judges.
PeerAnswers(p) ==
  /\ pc[p] = "asking"
  /\ \E texts \in SUBSET Text : ledger' = WithConstraints(texts, asked[p])
  /\ asked' = [asked EXCEPT ![p] = NULL]
  /\ pc' = [pc EXCEPT ![p] = "running"]
  /\ UNCHANGED <<batch, current, thread, heard, targets, skipped, sentBack>>

\* on_phase_complete hands over.  A failed agent hands nothing over, but the
\* router goes on to its gate all the same.
Finish(p) ==
  /\ pc[p] = "running"
  /\ pc' = [pc EXCEPT ![p] = "ran"]
  /\ thread' \in {thread, thread \cup {p}}
  /\ UNCHANGED <<batch, current, asked, ledger, heard, targets, skipped, sentBack>>

(***************************************************************************)
(* The gate                                                                *)
(***************************************************************************)

\* The batch has ended: its checkpoints, gates and human nodes are next.
BatchOver(p) ==
  pc[p] = "ran" /\ \A q \in batch : pc[q] \notin {"waiting", "entered", "discussed", "running", "asking"}

\* evaluate_constraints_async: the constraints of the phase, whatever their
\* state.  (The agents of an entry are compared with a node's id and match
\* only where both are the same; here they are not.)
StartGate(p) ==
  /\ BatchOver(p) /\ p \in Gated
  /\ targets' = [targets EXCEPT ![p] = {k \in Text : ledger[k] # NULL /\ ledger[k].phase = p}]
  /\ pc' = [pc EXCEPT ![p] = "judging"]
  /\ UNCHANGED <<batch, current, asked, thread, ledger, heard, skipped, sentBack>>

\* One model call: an unclear or failed answer counts as not covered.
Judge(p) ==
  /\ pc[p] = "judging"
  /\ \E k \in targets[p], covered \in BOOLEAN :
       /\ ledger' = [ledger EXCEPT ![k].status = IF covered THEN "satisfied" ELSE "violated"]
       /\ targets' = [targets EXCEPT ![p] = @ \ {k}]
  /\ UNCHANGED <<batch, pc, current, asked, thread, heard, skipped, sentBack>>

\* An exception is recorded as a degradation; the gate decides without the rest.
JudgingFails(p) ==
  /\ pc[p] = "judging" /\ targets[p] # {}
  /\ targets' = [targets EXCEPT ![p] = {}]
  /\ skipped' = skipped \cup {p}
  /\ UNCHANGED <<batch, pc, current, asked, thread, ledger, heard, sentBack>>

\* The verdict.  What is not covered is a violation of severity "warning",
\* and only severity "error" fails a gate: the rules of the domain decide.
\* A gate that cannot send its phase back lets it through.
Verdict(p) ==
  /\ pc[p] = "judging" /\ targets[p] = {}
  /\ \E rulesHold \in BOOLEAN :
       IF ~rulesHold /\ p \in Reviewable /\ sentBack[p] < MaxTries
       THEN /\ pc' = [pc EXCEPT ![p] = "waiting"]
            /\ sentBack' = [sentBack EXCEPT ![p] = @ + 1]
            /\ skipped' = skipped \ {p}
       ELSE /\ pc' = [pc EXCEPT ![p] = "released"]
            /\ UNCHANGED <<sentBack, skipped>>
  /\ batch' = batch \ {p}
  /\ UNCHANGED <<current, asked, thread, ledger, heard, targets>>

\* A human node takes the place of the gate where a phase is to be reviewed or
\* decided about: nobody asks the ledger.
Review(p) ==
  /\ BatchOver(p) /\ p \notin Gated
  /\ pc' = [pc EXCEPT ![p] = "released"]
  /\ batch' = batch \ {p}
  /\ UNCHANGED <<current, asked, thread, ledger, heard, targets, skipped, sentBack>>

NegotiationNext ==
  \/ Dispatch
  \/ \E p \in Phase :
       \/ Enter(p) \/ Discuss(p) \/ Prompt(p)
       \/ AskPeer(p) \/ PeerAnswers(p) \/ Finish(p)
       \/ StartGate(p) \/ Judge(p) \/ JudgingFails(p) \/ Verdict(p) \/ Review(p)

NegotiationSpec == NegotiationInit /\ [][NegotiationNext]_negotiationVars
-------------------------------------------------------------------------------

\* Nothing that was agreed slips past a gate: once a phase with a gate is
\* released, and no exception kept its gate from judging, every constraint
\* recorded under it has a verdict.  An agent's promise may be recorded under
\* the phase of another branch, so this rests on current_phase_id always naming
\* a phase whose gate or review is still to come.
NoneUnjudged ==
  \A k \in Text : ledger[k] # NULL =>
    LET p == ledger[k].phase
    IN  p = NULL \/ (p \in Gated /\ pc[p] = "released" /\ p \notin skipped
                      => ledger[k].status # "confirmed")

\* What is put before an agent as "必须满足，质量门禁将校验" (negotiation.py) has
\* been judged when its phase is through.  It does not hold of phases that a
\* human reviews or decides about: no gate comes.
EachIsJudged ==
  \A k \in Text : ledger[k] # NULL =>
    LET p == ledger[k].phase
    IN  p = NULL \/ (pc[p] = "released" /\ p \notin skipped => ledger[k].status # "confirmed")

\* A constraint its phase has not met is put before the agent when the phase is
\* written again ("已确认约束（必须满足，质量门禁将校验）", negotiation.py).  It
\* does not hold: the verdict "violated" takes it off the list.
UnmetIsListed ==
  \A p \in Phase, k \in Text :
    pc[p] \in {"running", "asking"} /\ ledger[k] # NULL /\ ledger[k].phase = p /\ ledger[k].status = "violated"
      => k \in heard[p]
===============================================================================
