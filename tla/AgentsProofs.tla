----------------------------- MODULE AgentsProofs -----------------------------
(***************************************************************************)
(* What the agents of a run do beside the graph, each part on its own and  *)
(* for every value of its constants: what was agreed has been judged       *)
(* (Negotiation), an agent gets an answer to every call it makes and asks  *)
(* at the depth of its stack (AgentExecution), replies hang on the         *)
(* question they answer (Conversation), and a work of many units remembers *)
(* one story (LongForm).                                                   *)
(***************************************************************************)
EXTENDS Negotiation, AgentExecution, Conversation, LongForm,
        FiniteSetTheorems, SequenceTheorems, WellFoundedInduction, TLAPS

------------------------------------------------------------------------------
(* Negotiation: what was agreed has been judged when its phase is through. *)
(* What makes it inductive: while anybody in the batch is at work,         *)
(* current_phase_id names a phase of the batch whose gate is to come       *)
(* (CurrentAhead), and so does the phase a question was asked under        *)
(* (AskedAhead); a gate that is judging has what is unjudged among its     *)
(* targets (ToJudge).                                                      *)

AtWork == {"entered", "discussed", "running", "asking"}
Ahead  == AtWork \cup {"ran"}

Constraint == [phase  : Phase \cup {NULL},
               status : {"confirmed", "satisfied", "violated"}]

NegotiationTyped ==
  /\ pc \in [Phase -> Ahead \cup {"waiting", "judging", "released"}]
  /\ asked \in [Phase -> Phase \cup {NULL}]
  /\ current \in Phase \cup {NULL}
  /\ ledger \in [Text -> Constraint \cup {NULL}]
  /\ targets \in [Phase -> SUBSET Text]

WorkersInBatch == \A p \in Phase : pc[p] \in AtWork => p \in batch

CurrentAhead == (\E p \in Phase : pc[p] \in AtWork) => current \in Phase /\ pc[current] \in Ahead

AskedAhead ==
  \A p \in Phase : pc[p] = "asking" => asked[p] \in Phase /\ pc[asked[p]] \in Ahead

ToJudge ==
  \A p \in Phase :
    /\ \A k \in targets[p] : ledger[k] \in Constraint
    /\ pc[p] = "judging" /\ p \notin skipped =>
         \A k \in Text : ledger[k] # NULL /\ ledger[k].phase = p
                         /\ ledger[k].status = "confirmed" => k \in targets[p]

NegotiationInv ==
  NegotiationTyped /\ WorkersInBatch /\ CurrentAhead /\ AskedAhead /\ ToJudge /\ NoneUnjudged

\* Constraints may be added under a phase whose gate is still to come.
LEMMA AddedAhead ==
  ASSUME NegotiationInv, NEW texts \in SUBSET Text, NEW q \in Phase, pc[q] \in Ahead,
         ledger' = WithConstraints(texts, q), targets' = targets, skipped' = skipped,
         pc' \in [Phase -> Ahead \cup {"waiting", "judging", "released"}],
         \A p \in Phase : pc'[p] \in {"judging", "released"} => pc'[p] = pc[p]
  PROVE  ledger' \in [Text -> Constraint \cup {NULL}] /\ ToJudge' /\ NoneUnjudged'
<1> USE DEF NegotiationInv, NegotiationTyped, Constraint
<1>1. /\ ledger' \in [Text -> Constraint \cup {NULL}]
      /\ \A k \in Text : ledger[k] # NULL => ledger'[k] = ledger[k]
      /\ \A k \in Text : ledger[k] = NULL /\ ledger'[k] # NULL => ledger'[k].phase = q
  BY DEF WithConstraints
<1>2. \A k \in Text : ledger'[k] # NULL => ledger'[k] = ledger[k] \/ ledger'[k].phase = q
  BY <1>1
<1>3. pc'[q] \notin {"judging", "released"}
  BY DEF Ahead, AtWork
<1>4. ToJudge'
  <2> SUFFICES ASSUME NEW p \in Phase
               PROVE  /\ \A k \in targets[p] : ledger'[k] \in Constraint
                      /\ pc'[p] = "judging" /\ p \notin skipped =>
                           \A k \in Text : ledger'[k] # NULL /\ ledger'[k].phase = p
                                           /\ ledger'[k].status = "confirmed" => k \in targets[p]
    BY DEF ToJudge
  <2>1. \A k \in targets[p] : ledger'[k] \in Constraint
    BY <1>1 DEF ToJudge, WithConstraints
  <2>2. pc'[p] = "judging" => p # q /\ pc[p] = "judging"
    BY <1>3
  <2> QED BY <1>2, <2>1, <2>2 DEF ToJudge
<1>5. NoneUnjudged'
  <2> SUFFICES ASSUME NEW k \in Text, ledger'[k] # NULL, ledger'[k].phase # NULL,
                      ledger'[k].phase \in Gated,
                      pc'[ledger'[k].phase] = "released", ledger'[k].phase \notin skipped
               PROVE  ledger'[k].status # "confirmed"
    BY DEF NoneUnjudged
  <2>1. ledger'[k].phase \in Phase
    BY <1>1
  <2>2. ledger'[k].phase # q /\ pc[ledger'[k].phase] = "released"
    BY <2>1, <1>3
  <2> QED BY <1>2, <2>2 DEF NoneUnjudged
<1> QED
  BY <1>1, <1>4, <1>5

\* Steps that leave the ledger and the targets alone and start or end no gate.
LEMMA LedgerStill ==
  ASSUME NegotiationInv, UNCHANGED <<ledger, targets, skipped>>,
         pc' \in [Phase -> Ahead \cup {"waiting", "judging", "released"}],
         \A p \in Phase : pc'[p] \in {"judging", "released"} => pc'[p] = pc[p]
  PROVE  ToJudge' /\ NoneUnjudged'
<1> USE DEF NegotiationInv, NegotiationTyped, Constraint
<1>1. ToJudge'
  BY DEF ToJudge
<1>2. NoneUnjudged'
  <2>1. \A k \in Text : ledger[k] # NULL => ledger[k].phase \in Phase \cup {NULL}
    OBVIOUS
  <2> QED BY <2>1 DEF NoneUnjudged
<1> QED
  BY <1>1, <1>2

LEMMA NextNegotiationInv == NegotiationInv /\ [NegotiationNext]_negotiationVars => NegotiationInv'
<1> SUFFICES ASSUME NegotiationInv, [NegotiationNext]_negotiationVars PROVE NegotiationInv'
  OBVIOUS
<1> USE DEF NegotiationTyped, AtWork, Ahead
<1>0. /\ NegotiationTyped /\ WorkersInBatch /\ CurrentAhead /\ AskedAhead
      /\ ToJudge /\ NoneUnjudged
  BY DEF NegotiationInv
<1>1. CASE Dispatch
  <2>1. /\ batch = {} /\ UNCHANGED <<pc, current, asked, ledger, targets, skipped>>
    BY <1>1 DEF Dispatch
  <2>2. ToJudge' /\ NoneUnjudged'
    BY <1>0, <2>1, LedgerStill
  <2> QED BY <1>0, <2>1, <2>2 DEF NegotiationInv, WorkersInBatch, CurrentAhead, AskedAhead
<1>2. ASSUME NEW p \in Phase, Enter(p) PROVE NegotiationInv'
  <2>1. /\ p \in batch /\ pc[p] = "waiting" /\ pc' = [pc EXCEPT ![p] = "entered"]
        /\ current' = p /\ UNCHANGED <<batch, asked, ledger, targets, skipped>>
    BY <1>2 DEF Enter, TakePhase
  <2>2. ToJudge' /\ NoneUnjudged'
    BY <1>0, <2>1, LedgerStill DEF NegotiationInv
  <2> QED BY <1>0, <2>1, <2>2 DEF NegotiationInv, WorkersInBatch, CurrentAhead, AskedAhead
<1>3. ASSUME NEW p \in Phase, Discuss(p) PROVE NegotiationInv'
  <2>1. /\ pc[p] = "entered" /\ pc' = [pc EXCEPT ![p] = "discussed"]
        /\ UNCHANGED <<batch, current, asked, targets, skipped>>
    BY <1>3 DEF Discuss
  <2>2. PICK texts \in SUBSET Text : ledger' = WithConstraints(texts, p)
    BY <1>3 DEF Discuss
  <2>3. ledger' \in [Text -> Constraint \cup {NULL}] /\ ToJudge' /\ NoneUnjudged'
    BY <1>0, <2>1, <2>2, AddedAhead DEF NegotiationInv
  <2> QED BY <1>0, <2>1, <2>3 DEF NegotiationInv, WorkersInBatch, CurrentAhead, AskedAhead
<1>4. ASSUME NEW p \in Phase, Prompt(p) PROVE NegotiationInv'
  <2>1. /\ pc[p] \in AtWork /\ pc' = [pc EXCEPT ![p] = "running"]
        /\ UNCHANGED <<batch, current, asked, ledger, targets, skipped>>
    BY <1>4 DEF Prompt
  <2>2. ToJudge' /\ NoneUnjudged'
    BY <1>0, <2>1, LedgerStill DEF NegotiationInv
  <2> QED BY <1>0, <2>1, <2>2 DEF NegotiationInv, WorkersInBatch, CurrentAhead, AskedAhead
<1>5. ASSUME NEW p \in Phase, AskPeer(p) PROVE NegotiationInv'
  <2>1. /\ pc[p] = "running" /\ pc' = [pc EXCEPT ![p] = "asking"]
        /\ asked' = [asked EXCEPT ![p] = current]
        /\ UNCHANGED <<batch, current, ledger, targets, skipped>>
    BY <1>5 DEF AskPeer
  <2>2. ToJudge' /\ NoneUnjudged'
    BY <1>0, <2>1, LedgerStill DEF NegotiationInv
  <2>3. current \in Phase /\ pc[current] \in Ahead
    BY <1>0, <2>1 DEF CurrentAhead
  <2> QED BY <1>0, <2>1, <2>2, <2>3 DEF NegotiationInv, WorkersInBatch, CurrentAhead, AskedAhead
<1>6. ASSUME NEW p \in Phase, PeerAnswers(p) PROVE NegotiationInv'
  <2>1. /\ pc[p] = "asking" /\ pc' = [pc EXCEPT ![p] = "running"]
        /\ asked' = [asked EXCEPT ![p] = NULL]
        /\ UNCHANGED <<batch, current, targets, skipped>>
    BY <1>6 DEF PeerAnswers
  <2>2. PICK texts \in SUBSET Text : ledger' = WithConstraints(texts, asked[p])
    BY <1>6 DEF PeerAnswers
  <2>3. asked[p] \in Phase /\ pc[asked[p]] \in Ahead
    BY <1>0, <2>1 DEF AskedAhead
  <2>4. ledger' \in [Text -> Constraint \cup {NULL}] /\ ToJudge' /\ NoneUnjudged'
    BY <1>0, <2>1, <2>2, <2>3, AddedAhead DEF NegotiationInv
  <2> QED BY <1>0, <2>1, <2>4 DEF NegotiationInv, WorkersInBatch, CurrentAhead, AskedAhead
<1>7. ASSUME NEW p \in Phase, Finish(p) PROVE NegotiationInv'
  <2>1. /\ pc[p] = "running" /\ pc' = [pc EXCEPT ![p] = "ran"]
        /\ UNCHANGED <<batch, current, asked, ledger, targets, skipped>>
    BY <1>7 DEF Finish
  <2>2. ToJudge' /\ NoneUnjudged'
    BY <1>0, <2>1, LedgerStill DEF NegotiationInv
  <2> QED BY <1>0, <2>1, <2>2 DEF NegotiationInv, WorkersInBatch, CurrentAhead, AskedAhead
<1>8. ASSUME NEW p \in Phase, StartGate(p) PROVE NegotiationInv'
  <2>1. /\ pc[p] = "ran" /\ pc' = [pc EXCEPT ![p] = "judging"]
        /\ targets' = [targets EXCEPT ![p] = {k \in Text : ledger[k] # NULL /\ ledger[k].phase = p}]
        /\ UNCHANGED <<batch, current, asked, ledger, skipped>>
    BY <1>8 DEF StartGate, BatchOver
  <2>2. \A q \in Phase : pc[q] \notin AtWork
    BY <1>0, <1>8 DEF StartGate, BatchOver, WorkersInBatch
  <2>3. ToJudge'
    BY <1>0, <2>1 DEF ToJudge
  <2>4. NoneUnjudged'
    <3>1. \A k \in Text : ledger[k] # NULL => ledger[k].phase \in Phase \cup {NULL}
      BY <1>0 DEF Constraint
    <3> QED BY <1>0, <2>1, <3>1 DEF NoneUnjudged
  <2> QED
    BY <1>0, <2>1, <2>2, <2>3, <2>4 DEF NegotiationInv, WorkersInBatch, CurrentAhead, AskedAhead
<1>9. ASSUME NEW p \in Phase, Judge(p) PROVE NegotiationInv'
  <2>1. PICK k \in targets[p] : \E covered \in BOOLEAN :
          /\ ledger' = [ledger EXCEPT ![k].status = IF covered THEN "satisfied" ELSE "violated"]
          /\ targets' = [targets EXCEPT ![p] = @ \ {k}]
    BY <1>9 DEF Judge
  <2>2. UNCHANGED <<batch, pc, current, asked, skipped>> /\ k \in Text /\ ledger[k] \in Constraint
    BY <1>0, <1>9, <2>1 DEF Judge, ToJudge
  <2>3. /\ ledger' \in [Text -> Constraint \cup {NULL}]
        /\ ledger'[k] \in Constraint /\ ledger'[k].status # "confirmed"
        /\ ledger'[k].phase = ledger[k].phase
        /\ \A j \in Text : j # k => ledger'[j] = ledger[j]
    BY <1>0, <2>1, <2>2 DEF Constraint
  <2>4. ToJudge'
    BY <1>0, <2>1, <2>2, <2>3 DEF ToJudge
  <2>5. NoneUnjudged'
    BY <1>0, <2>2, <2>3 DEF NoneUnjudged
  <2> QED
    BY <1>0, <2>1, <2>2, <2>3, <2>4, <2>5
    DEF NegotiationInv, WorkersInBatch, CurrentAhead, AskedAhead
<1>10. ASSUME NEW p \in Phase, JudgingFails(p) PROVE NegotiationInv'
  <2>1. /\ targets' = [targets EXCEPT ![p] = {}] /\ skipped' = skipped \cup {p}
        /\ UNCHANGED <<batch, pc, current, asked, ledger>>
    BY <1>10 DEF JudgingFails
  <2>2. ToJudge'
    BY <1>0, <2>1 DEF ToJudge
  <2>3. NoneUnjudged'
    BY <1>0, <2>1 DEF NoneUnjudged
  <2> QED
    BY <1>0, <2>1, <2>2, <2>3 DEF NegotiationInv, WorkersInBatch, CurrentAhead, AskedAhead
<1>11. ASSUME NEW p \in Phase, Verdict(p) PROVE NegotiationInv'
  <2>1. /\ pc[p] = "judging" /\ targets[p] = {} /\ batch' = batch \ {p}
        /\ \/ pc' = [pc EXCEPT ![p] = "waiting"] /\ skipped' = skipped \ {p}
           \/ pc' = [pc EXCEPT ![p] = "released"] /\ skipped' = skipped
        /\ UNCHANGED <<current, asked, ledger, targets>>
    BY <1>11 DEF Verdict
  <2>2. ToJudge'
    BY <1>0, <2>1 DEF ToJudge
  <2>3. \A k \in Text : ledger[k] # NULL => ledger[k].phase \in Phase \cup {NULL}
    BY <1>0 DEF Constraint
  <2>4. NoneUnjudged'
    <3> SUFFICES ASSUME NEW k \in Text, ledger[k] # NULL, ledger[k].phase # NULL,
                        ledger[k].phase \in Gated,
                        pc'[ledger[k].phase] = "released", ledger[k].phase \notin skipped'
                 PROVE  ledger[k].status # "confirmed"
      BY <2>1 DEF NoneUnjudged
    <3>1. CASE ledger[k].phase = p
      BY <1>0, <2>1, <3>1 DEF ToJudge
    <3>2. CASE ledger[k].phase # p
      BY <1>0, <2>1, <2>3, <3>2 DEF NoneUnjudged
    <3> QED BY <3>1, <3>2
  <2> QED
    BY <1>0, <2>1, <2>2, <2>4 DEF NegotiationInv, WorkersInBatch, CurrentAhead, AskedAhead
<1>12. ASSUME NEW p \in Phase, Review(p) PROVE NegotiationInv'
  <2>1. /\ pc[p] = "ran" /\ p \notin Gated /\ pc' = [pc EXCEPT ![p] = "released"]
        /\ batch' = batch \ {p} /\ UNCHANGED <<current, asked, ledger, targets, skipped>>
    BY <1>12 DEF Review, BatchOver
  <2>2. \A q \in Phase : pc[q] \notin AtWork
    BY <1>0, <1>12 DEF Review, BatchOver, WorkersInBatch
  <2>3. ToJudge'
    BY <1>0, <2>1 DEF ToJudge
  <2>4. NoneUnjudged'
    <3>1. \A k \in Text : ledger[k] # NULL => ledger[k].phase \in Phase \cup {NULL}
      BY <1>0 DEF Constraint
    <3> QED BY <1>0, <2>1, <3>1 DEF NoneUnjudged
  <2> QED
    BY <1>0, <2>1, <2>2, <2>3, <2>4 DEF NegotiationInv, WorkersInBatch, CurrentAhead, AskedAhead
<1>13. CASE UNCHANGED negotiationVars
  <2>1. UNCHANGED <<batch, pc, current, asked, ledger, targets, skipped>>
    BY <1>13 DEF negotiationVars
  <2>2. ToJudge' /\ NoneUnjudged'
    BY <1>0, <2>1, LedgerStill DEF NegotiationInv
  <2> QED BY <1>0, <2>1, <2>2 DEF NegotiationInv, WorkersInBatch, CurrentAhead, AskedAhead
<1> QED
  BY <1>1, <1>2, <1>3, <1>4, <1>5, <1>6, <1>7, <1>8, <1>9, <1>10, <1>11, <1>12, <1>13
  DEF NegotiationNext

\* Nothing that was agreed slips past the gate of the phase it is recorded
\* under, whichever branch's agent made the promise, for any phases with and
\* without gates and any order of the branches.
THEOREM AgreedIsJudged == NegotiationSpec => []NoneUnjudged
<1>1. NegotiationInit => NegotiationInv
  BY DEF NegotiationInit, NegotiationInv, NegotiationTyped, Ahead, AtWork, WorkersInBatch,
         CurrentAhead, AskedAhead, ToJudge, NoneUnjudged
<1>2. NegotiationInv => NoneUnjudged
  BY DEF NegotiationInv
<1> QED
  BY <1>1, <1>2, NextNegotiationInv, PTL DEF NegotiationSpec

------------------------------------------------------------------------------
(* Agents that ask each other.  A coroutine is a stack of executions, each  *)
(* but the innermost at the call it waits for; the messages that are still  *)
(* owed are those of the calls to do; a node outside its agent has no stack *)
(* at all.  With that, the depth follows the stacks.                        *)

Kinds == {"ask", "tool"}

Sound(f) ==
  /\ f \in Frame
  /\ f.iter \in 1 .. MaxIters[f.agent] /\ f.asks <= MaxAsk[f.agent]
  /\ f.at = "model" => f.open = 0
  /\ f.at = "wait" => f.todo # <<>>
  /\ f.open # 0 => f.open = Len(f.todo) /\ f.agent \in ToolUser

Coroutine(s) ==
  /\ s \in Seq(Frame)
  /\ \A i \in 1 .. Len(s) : Sound(s[i]) /\ (s[i].at = "wait" <=> i < Len(s))

\* How many peers a coroutine has at work.
Above(s) == IF s = <<>> THEN 0 ELSE Len(s) - 1

Stacks ==
  /\ stack \in [Worker -> Seq(Frame)]
  /\ \A w \in Worker : Coroutine(stack[w])
  /\ IsFiniteSet(PeerFrames) /\ DepthIsPeers

Nodes ==
  /\ node \in [Worker -> {"idle", "agent", "ok", "empty", "error",
                          "evaluate", "done", "paused", "failed"}]
  /\ \A w \in Worker : stack[w] # <<>> <=> node[w] = "agent"

Counters ==
  /\ attempt \in [Worker -> 0 .. EmptyRetries] /\ again \in [Worker -> BOOLEAN]
  /\ retries \in [Worker -> 0 .. NodeRetries] /\ total \in Nat
  /\ outputs \subseteq Agent

AgentsInv == Stacks /\ Nodes /\ Counters

\* The calls that are to do are a sequence.
LEMMA TodoIsSeq ==
  ASSUME NEW f \in Frame
  PROVE  f.todo \in Seq(Kinds) /\ Len(f.todo) \in 0 .. MaxReply
<1>1. PICK n \in 0 .. MaxReply : f.todo \in [1 .. n -> Kinds]
  BY DEF Frame, ToDo, Kinds
<1>2. n \in Nat
  BY <1>1, AgentsAssumption
<1> QED BY <1>1, <1>2

LEMMA SeqIsTodo ==
  ASSUME NEW s \in Seq(Kinds), Len(s) <= MaxReply
  PROVE  s \in ToDo
<1>1. s \in [1 .. Len(s) -> {"ask", "tool"}] /\ Len(s) \in Nat
  BY DEF Kinds
<1>2. Len(s) \in 0 .. MaxReply
  BY <1>1, AgentsAssumption
<1> QED BY <1>1, <1>2 DEF ToDo

\* One call through, one message less that is owed.
LEMMA CallDoneSound ==
  ASSUME NEW f, Sound(f), f.todo # <<>>, f.at \in {"calls", "wait"}, NEW did \in BOOLEAN
  PROVE  Sound(CallDone(f, did)) /\ CallDone(f, did).at = "calls"
<1> DEFINE g == CallDone(f, did)
<1>1. f.todo \in Seq(Kinds) /\ Len(f.todo) \in 0 .. MaxReply
  BY TodoIsSeq DEF Sound
<1>2. Tail(f.todo) \in Seq(Kinds) /\ Len(Tail(f.todo)) = Len(f.todo) - 1 /\ Len(f.todo) # 0
  BY <1>1, HeadTailProperties, EmptySeq
<1>3. Tail(f.todo) \in ToDo
  <2>1. Len(Tail(f.todo)) <= MaxReply
    BY <1>1, <1>2, AgentsAssumption
  <2> QED BY <1>2, <2>1, SeqIsTodo
<1>4. (IF f.open = 0 THEN 0 ELSE f.open - 1) \in 0 .. MaxReply
  BY AgentsAssumption DEF Sound, Frame
<1>5. g \in Frame
  BY <1>3, <1>4 DEF Sound, Frame, CallDone
<1>6. /\ g.agent = f.agent /\ g.iter = f.iter /\ g.asks = f.asks /\ g.at = "calls"
      /\ g.todo = Tail(f.todo) /\ g.open = IF f.open = 0 THEN 0 ELSE f.open - 1
  BY DEF Sound, Frame, CallDone
<1>7. g.open # 0 => g.open = Len(g.todo) /\ g.agent \in ToolUser
  BY <1>1, <1>2, <1>6, AgentsAssumption DEF Sound, Frame
<1> HIDE DEF g
<1>8. Sound(g)
  BY <1>5, <1>6, <1>7 DEF Sound
<1> QED BY <1>6, <1>8 DEF g

LEMMA FreshSound ==
  ASSUME NEW a \in Agent, NEW r \in {"first", "repeat", "marked"}
  PROVE  /\ Sound(Fresh(a, r)) /\ Fresh(a, r).at = "model"
         /\ Sound([Fresh(a, r) EXCEPT !.at = "review"])
<1>1. <<>> \in ToDo
  <2>1. <<>> \in Seq(Kinds) /\ Len(<<>>) <= MaxReply
    BY EmptySeq, AgentsAssumption
  <2> QED BY <2>1, SeqIsTodo
<1>2. MaxAsk[a] \in Nat /\ MaxIters[a] \in Nat \ {0}
  BY AgentsAssumption
<1>3. Fresh(a, r) \in Frame /\ [Fresh(a, r) EXCEPT !.at = "review"] \in Frame
  <2>1. 0 \in 0 .. MaxReply
    BY AgentsAssumption
  <2>2. Fresh(a, r) \in Frame
    BY <1>1, <1>2, <2>1 DEF Fresh, Frame
  <2>3. [Fresh(a, r) EXCEPT !.at = "review"] \in Frame
    BY <1>1, <1>2, <2>1 DEF Fresh, Frame
  <2> QED BY <2>2, <2>3
<1>4. 1 \in 1 .. MaxIters[a]
  BY <1>2
<1> QED BY <1>2, <1>3, <1>4 DEF Sound, Fresh

\* A sequence without its last element.
LEMMA FrontOf ==
  ASSUME NEW S, NEW s \in Seq(S), Len(s) >= 1
  PROVE  /\ Front(s) \in Seq(S) /\ Len(Front(s)) = Len(s) - 1
         /\ \A i \in 1 .. Len(s) - 1 : Front(s)[i] = s[i]
<1> DEFINE r == SubSeq(s, 1, Len(s) - 1)
<1>1. \A i \in 1 .. Len(s) - 1 : s[i] \in S
  BY ElementOfSeq
<1>2. /\ r \in Seq(S) /\ Len(r) = IF 1 <= Len(s) - 1 THEN (Len(s) - 1) - 1 + 1 ELSE 0
      /\ \A i \in 1 .. (Len(s) - 1) - 1 + 1 : r[i] = s[1 + i - 1]
  <2>1. 1 \in Int /\ Len(s) - 1 \in Int
    OBVIOUS
  <2> QED BY <2>1, <1>1, SubSeqProperties
<1>3. PICK n \in Nat : n = Len(s)
  OBVIOUS
<1> HIDE DEF r
<1>4. Len(r) = n - 1 /\ \A i \in 1 .. n - 1 : r[i] = s[i]
  BY <1>2, <1>3
<1> QED BY <1>2, <1>3, <1>4 DEF Front, r

\* The innermost frame of a coroutine, and another one in its place.
LEMMA TopFrame ==
  ASSUME NEW s, Coroutine(s), s # <<>>
  PROVE  /\ Len(s) \in Nat \ {0} /\ Last(s) = s[Len(s)] /\ Sound(Last(s)) /\ Last(s).at # "wait"
         /\ Last(s) \in Frame
         /\ Front(s) \in Seq(Frame) /\ Len(Front(s)) = Len(s) - 1
         /\ \A i \in 1 .. Len(s) - 1 : Front(s)[i] = s[i]
<1>1. s \in Seq(Frame) /\ Len(s) \in Nat \ {0}
  BY EmptySeq DEF Coroutine
<1>2. Sound(s[Len(s)]) /\ s[Len(s)].at # "wait"
  BY <1>1 DEF Coroutine
<1>3. s[Len(s)] \in Frame
  BY <1>2 DEF Sound
<1> QED BY <1>1, <1>2, <1>3, FrontOf DEF Last

LEMMA NewTop ==
  ASSUME NEW s, Coroutine(s), s # <<>>, NEW f, Sound(f), f.at # "wait"
  PROVE  Coroutine(Append(Front(s), f)) /\ Len(Append(Front(s), f)) = Len(s)
<1> DEFINE t == Append(Front(s), f)
<1>1. /\ Len(s) \in Nat \ {0} /\ Front(s) \in Seq(Frame) /\ Len(Front(s)) = Len(s) - 1
      /\ \A i \in 1 .. Len(s) - 1 : Front(s)[i] = s[i]
  BY TopFrame
<1>2. f \in Frame
  BY DEF Sound
<1>3. /\ t \in Seq(Frame) /\ Len(t) = Len(s) /\ t[Len(s)] = f
      /\ \A i \in 1 .. Len(s) - 1 : t[i] = s[i]
  BY <1>1, <1>2, AppendProperties
<1> HIDE DEF t
<1>4. ASSUME NEW i \in 1 .. Len(t) PROVE Sound(t[i]) /\ (t[i].at = "wait" <=> i < Len(t))
  <2>1. CASE i = Len(s)
    BY <1>3, <2>1
  <2>2. CASE i \in 1 .. Len(s) - 1
    BY <1>1, <1>3, <2>2 DEF Coroutine
  <2> QED BY <1>1, <1>3, <2>1, <2>2
<1> QED BY <1>3, <1>4 DEF Coroutine, t

\* An execution and one it waits for, in the place of the innermost.
LEMMA NewPeer ==
  ASSUME NEW s, Coroutine(s), s # <<>>, NEW f, Sound(f), f.at = "wait",
         NEW g, Sound(g), g.at # "wait"
  PROVE  /\ Coroutine(Append(Append(Front(s), f), g))
         /\ Len(Append(Append(Front(s), f), g)) = Len(s) + 1
<1> DEFINE t == Append(Front(s), f)
           u == Append(t, g)
<1>1. /\ Len(s) \in Nat \ {0} /\ Front(s) \in Seq(Frame) /\ Len(Front(s)) = Len(s) - 1
      /\ \A i \in 1 .. Len(s) - 1 : Front(s)[i] = s[i]
  BY TopFrame
<1>2. f \in Frame /\ g \in Frame
  BY DEF Sound
<1>3. /\ t \in Seq(Frame) /\ Len(t) = Len(s) /\ t[Len(s)] = f
      /\ \A i \in 1 .. Len(s) - 1 : t[i] = s[i]
  BY <1>1, <1>2, AppendProperties
<1> HIDE DEF t
<1>4. /\ u \in Seq(Frame) /\ Len(u) = Len(s) + 1 /\ u[Len(s) + 1] = g
      /\ \A i \in 1 .. Len(s) : u[i] = t[i]
  BY <1>2, <1>3, AppendProperties
<1> HIDE DEF u
<1>5. ASSUME NEW i \in 1 .. Len(u) PROVE Sound(u[i]) /\ (u[i].at = "wait" <=> i < Len(u))
  <2>1. CASE i = Len(s) + 1
    BY <1>1, <1>4, <2>1
  <2>2. CASE i = Len(s)
    BY <1>1, <1>3, <1>4, <2>2
  <2>3. CASE i \in 1 .. Len(s) - 1
    <3>1. u[i] = s[i]
      BY <1>1, <1>3, <1>4, <2>3
    <3>2. i \in 1 .. Len(s) /\ i < Len(s) /\ i < Len(u)
      BY <1>1, <1>4, <2>3
    <3> QED BY <3>1, <3>2 DEF Coroutine
  <2> QED BY <1>1, <1>4, <2>1, <2>2, <2>3
<1> QED BY <1>4, <1>5 DEF Coroutine, u, t

\* A coroutine without its frames from k on: the one below them goes on.
LEMMA Unwound ==
  ASSUME NEW s, Coroutine(s), NEW k \in 2 .. Len(s)
  PROVE  LET t == Append(SubSeq(s, 1, k - 2), CallDone(s[k - 1], TRUE))
         IN  Coroutine(t) /\ Len(t) = k - 1
<1> DEFINE r == SubSeq(s, 1, k - 2)
           f == CallDone(s[k - 1], TRUE)
           t == Append(r, f)
<1>1. s \in Seq(Frame) /\ Len(s) \in Nat
  BY DEF Coroutine
<1>2. \A i \in 1 .. k - 2 : s[i] \in Frame
  BY <1>1, ElementOfSeq
<1>3. /\ r \in Seq(Frame) /\ Len(r) = IF 1 <= k - 2 THEN (k - 2) - 1 + 1 ELSE 0
      /\ \A i \in 1 .. (k - 2) - 1 + 1 : r[i] = s[1 + i - 1]
  BY <1>1, <1>2, SubSeqProperties
<1> HIDE DEF r
<1>4. Len(r) = k - 2 /\ \A i \in 1 .. k - 2 : r[i] = s[i]
  BY <1>3
<1>5. k - 1 \in 1 .. Len(s) /\ k - 1 < Len(s)
  BY <1>1
<1>6. Sound(s[k - 1]) /\ s[k - 1].at = "wait"
  BY <1>5 DEF Coroutine
<1>7. s[k - 1].todo # <<>>
  BY <1>6 DEF Sound
<1>8. Sound(f) /\ f.at = "calls"
  BY <1>6, <1>7, CallDoneSound
<1> HIDE DEF f
<1>9. f \in Frame
  BY <1>8 DEF Sound
<1>10. /\ t \in Seq(Frame) /\ Len(t) = k - 1 /\ t[k - 1] = f
       /\ \A i \in 1 .. k - 2 : t[i] = r[i]
  BY <1>3, <1>4, <1>9, AppendProperties
<1> HIDE DEF t
<1>11. ASSUME NEW i \in 1 .. Len(t) PROVE Sound(t[i]) /\ (t[i].at = "wait" <=> i < Len(t))
  <2>1. CASE i = k - 1
    BY <1>8, <1>10, <2>1
  <2>2. CASE i \in 1 .. k - 2
    <3>1. t[i] = s[i] /\ i \in 1 .. Len(s) /\ i < Len(s) /\ i < Len(t)
      BY <1>1, <1>4, <1>10, <2>2
    <3> QED BY <3>1 DEF Coroutine
  <2> QED BY <1>10, <2>1, <2>2
<1> QED BY <1>10, <1>11 DEF Coroutine, t, r, f

\* A step of one coroutine that adds to the depth what it adds to the stack.
LEMMA StackStep ==
  ASSUME Stacks, NEW w \in Worker, NEW s, Coroutine(s),
         stack' = [stack EXCEPT ![w] = s],
         depth' = depth + Above(s) - Above(stack[w])
  PROVE  Stacks' /\ stack'[w] = s /\ \A v \in Worker \ {w} : stack'[v] = stack[v]
<1> DEFINE old == {w} \X (2 .. Len(stack[w]))
           new == {w} \X (2 .. Len(s))
<1>1. stack'[w] = s /\ \A v \in Worker \ {w} : stack'[v] = stack[v]
  BY DEF Stacks
<1>2. stack' \in [Worker -> Seq(Frame)] /\ \A v \in Worker : Coroutine(stack'[v])
  BY <1>1 DEF Stacks, Coroutine
<1>3. ASSUME NEW t, Coroutine(t)
      PROVE  /\ IsFiniteSet({w} \X (2 .. Len(t))) /\ Cardinality({w} \X (2 .. Len(t))) = Above(t)
             /\ Above(t) \in Nat
  <2>1. t \in Seq(Frame) /\ Len(t) \in Nat
    BY <1>3 DEF Coroutine
  <2>2. t # <<>> => Len(t) >= 1
    BY <2>1, EmptySeq
  <2>3. t = <<>> => Len(t) = 0
    BY EmptySeq
  <2>4. /\ IsFiniteSet(2 .. Len(t))
        /\ Cardinality(2 .. Len(t)) = IF 2 > Len(t) THEN 0 ELSE Len(t) - 2 + 1
    BY <2>1, FS_Interval
  <2>5. Cardinality(2 .. Len(t)) = Above(t) /\ Above(t) \in Nat
    BY <2>1, <2>2, <2>3, <2>4 DEF Above
  <2>6. IsFiniteSet({w}) /\ Cardinality({w}) = 1
    BY FS_Singleton
  <2>7. /\ IsFiniteSet({w} \X (2 .. Len(t)))
        /\ Cardinality({w} \X (2 .. Len(t))) = Cardinality({w}) * Cardinality(2 .. Len(t))
    BY <2>4, <2>6, FS_Product
  <2>8. 1 * Above(t) = Above(t)
    BY <2>5
  <2> QED BY <2>5, <2>6, <2>7, <2>8
<1>4. old \subseteq PeerFrames
  BY DEF PeerFrames
<1>5. PeerFrames' = (PeerFrames \ old) \cup new
  <2>1. PeerFrames' = UNION {{v} \X (2 .. Len(stack'[v])) : v \in Worker}
    BY DEF PeerFrames
  <2>2. ASSUME NEW x PROVE x \in PeerFrames' <=> x \in (PeerFrames \ old) \cup new
    BY <1>1, <2>1 DEF PeerFrames
  <2> QED BY <2>2
<1>6. (PeerFrames \ old) \cap new = {} /\ PeerFrames \cap old = old
  <2>1. ASSUME NEW x \in new, x \in PeerFrames PROVE x \in old
    BY <2>1 DEF PeerFrames
  <2> QED BY <1>4, <2>1
<1> HIDE DEF old, new
<1>7. /\ IsFiniteSet(old) /\ Cardinality(old) = Above(stack[w]) /\ Above(stack[w]) \in Nat
      /\ IsFiniteSet(new) /\ Cardinality(new) = Above(s) /\ Above(s) \in Nat
  BY <1>3 DEF Stacks, old, new
<1>8. /\ IsFiniteSet(PeerFrames) /\ depth = Cardinality(PeerFrames)
      /\ depth \in Nat
  BY FS_CardinalityType DEF Stacks, DepthIsPeers
<1>9. /\ IsFiniteSet(PeerFrames \ old)
      /\ Cardinality(PeerFrames \ old) = Cardinality(PeerFrames) - Above(stack[w])
  <2>1. /\ IsFiniteSet(PeerFrames \ old)
        /\ Cardinality(PeerFrames \ old) = Cardinality(PeerFrames) - Cardinality(PeerFrames \cap old)
    BY <1>8, FS_Difference
  <2> QED BY <1>6, <1>7, <2>1
<1>10. /\ IsFiniteSet(PeerFrames')
       /\ Cardinality(PeerFrames') = Cardinality(PeerFrames \ old) + Above(s) - Cardinality({})
  BY <1>5, <1>6, <1>7, <1>9, FS_Union
<1>11. depth' = Cardinality(PeerFrames')
  BY <1>7, <1>8, <1>9, <1>10, FS_EmptySet
<1> QED BY <1>1, <1>2, <1>10, <1>11 DEF Stacks, DepthIsPeers

\* A step inside the innermost execution.
LEMMA TopStep ==
  ASSUME AgentsInv, NEW w \in Worker, stack[w] # <<>>,
         NEW f, Sound(f), f.at # "wait", SetTop(w, f), UNCHANGED <<node, depth>>
  PROVE  Stacks' /\ Nodes'
<1> DEFINE s == Append(Front(stack[w]), f)
<1>1. Coroutine(stack[w])
  BY DEF AgentsInv, Stacks
<1>2. Coroutine(s) /\ Len(s) = Len(stack[w])
  BY <1>1, NewTop
<1>3. Len(s) \in Nat \ {0} /\ s # <<>>
  BY <1>1, <1>2, TopFrame, EmptySeq
<1>4. Above(s) = Above(stack[w]) /\ Above(s) \in Nat
  BY <1>2, <1>3 DEF Above
<1> HIDE DEF s
<1>5. depth \in Nat
  BY FS_CardinalityType DEF AgentsInv, Stacks, DepthIsPeers
<1>6. depth' = depth + Above(s) - Above(stack[w])
  BY <1>4, <1>5
<1>7. stack' = [stack EXCEPT ![w] = s]
  BY DEF SetTop, s
<1>8. Stacks
  BY DEF AgentsInv
<1>9. Stacks' /\ stack'[w] = s /\ \A v \in Worker \ {w} : stack'[v] = stack[v]
  BY <1>2, <1>6, <1>7, <1>8, StackStep
<1>10. \A v \in Worker : stack'[v] # <<>> <=> stack[v] # <<>>
  BY <1>3, <1>9
<1>11. Nodes'
  BY <1>10 DEF AgentsInv, Nodes
<1> QED BY <1>9, <1>11

\* A frame whose calls, rounds or questions change.
LEMMA TopSound ==
  ASSUME AgentsInv, NEW w \in Worker, stack[w] # <<>>
  PROVE  /\ Coroutine(stack[w]) /\ Sound(Top(w)) /\ Top(w) \in Frame /\ Top(w).at # "wait"
         /\ Top(w).agent \in Agent
         /\ Top(w).todo \in Seq(Kinds)
<1>1. Coroutine(stack[w])
  BY DEF AgentsInv, Stacks
<1>2. Sound(Top(w)) /\ Top(w) \in Frame /\ Top(w).at # "wait"
  BY <1>1, TopFrame DEF Top
<1>3. Top(w).agent \in Agent
  BY <1>2 DEF Frame
<1> QED BY <1>1, <1>2, <1>3, TodoIsSeq

\* A question paid for.
LEMMA SpendSound ==
  ASSUME NEW f, Sound(f), f.asks > 0
  PROVE  /\ Sound(Spend(f)) /\ Spend(f).at = f.at /\ Spend(f).todo = f.todo
         /\ f.todo # <<>> /\ f.at = "calls" => Sound([Spend(f) EXCEPT !.at = "wait"])
<1>1. f \in Frame /\ f.asks \in Nat /\ f.asks - 1 \in Nat
  BY DEF Sound, Frame
<1>2. MaxAsk[f.agent] \in Nat
  BY <1>1, AgentsAssumption DEF Frame
<1>3. Spend(f) \in Frame /\ [Spend(f) EXCEPT !.at = "wait"] \in Frame
  BY <1>1 DEF Spend, Frame
<1>4. /\ Spend(f).agent = f.agent /\ Spend(f).iter = f.iter /\ Spend(f).asks = f.asks - 1
      /\ Spend(f).at = f.at /\ Spend(f).todo = f.todo /\ Spend(f).open = f.open
  BY <1>1 DEF Spend, Frame
<1>5. LET g == [Spend(f) EXCEPT !.at = "wait"]
      IN  /\ g.agent = f.agent /\ g.iter = f.iter /\ g.asks = f.asks - 1
          /\ g.at = "wait" /\ g.todo = f.todo /\ g.open = f.open
  BY <1>1 DEF Spend, Frame
<1>6. f.asks - 1 <= MaxAsk[f.agent]
  BY <1>1, <1>2 DEF Sound
<1>7. Sound(Spend(f))
  BY <1>3, <1>4, <1>6 DEF Sound
<1>8. ASSUME f.todo # <<>>, f.at = "calls" PROVE Sound([Spend(f) EXCEPT !.at = "wait"])
  <2> DEFINE g == [Spend(f) EXCEPT !.at = "wait"]
  <2>1. /\ g.agent = f.agent /\ g.iter = f.iter /\ g.asks = f.asks - 1 /\ g \in Frame
        /\ g.at = "wait" /\ g.todo = f.todo /\ g.open = f.open
    BY <1>3, <1>5
  <2> HIDE DEF g
  <2>2. Sound(g)
    BY <1>6, <1>8, <2>1 DEF Sound
  <2> QED BY <2>2 DEF g
<1> QED BY <1>4, <1>7, <1>8

\* An execution that ends for the agent that asked, or for all from k on.
LEMMA UnwindStep ==
  ASSUME AgentsInv, NEW w \in Worker, NEW k \in 2 .. Len(stack[w]), Unwind(w, k), UNCHANGED node
  PROVE  Stacks' /\ Nodes'
<1> DEFINE s == Append(SubSeq(stack[w], 1, k - 2), CallDone(stack[w][k - 1], TRUE))
<1>1. Coroutine(stack[w])
  BY DEF AgentsInv, Stacks
<1>2. stack[w] \in Seq(Frame) /\ Len(stack[w]) \in Nat
  BY <1>1 DEF Coroutine
<1>3. Coroutine(s) /\ Len(s) = k - 1
  BY <1>1, Unwound
<1> HIDE DEF s
<1>4. stack[w] # <<>> /\ s # <<>>
  <2>1. Len(stack[w]) # 0 /\ Len(s) # 0
    BY <1>2, <1>3
  <2> QED BY <2>1, EmptySeq
<1>5. Above(s) = k - 2 /\ Above(stack[w]) = Len(stack[w]) - 1
  BY <1>3, <1>4 DEF Above
<1>6. depth \in Nat
  BY FS_CardinalityType DEF AgentsInv, Stacks, DepthIsPeers
<1>7. depth' = depth + Above(s) - Above(stack[w])
  BY <1>2, <1>5, <1>6 DEF Unwind
<1>8. stack' = [stack EXCEPT ![w] = s]
  BY DEF Unwind, AgentsInv, Stacks, s
<1>9. Stacks
  BY DEF AgentsInv
<1>10. Stacks' /\ stack'[w] = s /\ \A v \in Worker \ {w} : stack'[v] = stack[v]
  BY <1>3, <1>7, <1>8, <1>9, StackStep
<1>11. Nodes'
  <2>1. \A v \in Worker : stack'[v] # <<>> <=> stack[v] # <<>>
    BY <1>4, <1>10
  <2> QED BY <2>1 DEF AgentsInv, Nodes
<1> QED BY <1>10, <1>11

\* The whole coroutine ends, at a depth that was its own.
LEMMA EmptyStep ==
  ASSUME AgentsInv, NEW w \in Worker, stack[w] # <<>>,
         stack' = [stack EXCEPT ![w] = <<>>], depth' = depth - (Len(stack[w]) - 1),
         NEW where \in {"ok", "empty", "error", "failed"}, NodeIs(w, where)
  PROVE  Stacks' /\ Nodes'
<1>1. Coroutine(stack[w]) /\ Stacks
  BY DEF AgentsInv, Stacks
<1>2. Coroutine(<<>>)
  BY EmptySeq DEF Coroutine
<1>3. depth \in Nat /\ Len(stack[w]) \in Nat
  BY <1>1, FS_CardinalityType DEF AgentsInv, Stacks, DepthIsPeers
<1>4. depth' = depth + Above(<<>>) - Above(stack[w])
  BY <1>3 DEF Above
<1>5. Stacks' /\ stack'[w] = <<>> /\ \A v \in Worker \ {w} : stack'[v] = stack[v]
  BY <1>1, <1>2, <1>4, StackStep
<1>6. /\ node' \in [Worker -> {"idle", "agent", "ok", "empty", "error",
                               "evaluate", "done", "paused", "failed"}]
      /\ node'[w] = where /\ \A v \in Worker \ {w} : node'[v] = node[v]
  BY DEF NodeIs, AgentsInv, Nodes
<1>7. Nodes'
  BY <1>5, <1>6 DEF AgentsInv, Nodes
<1> QED BY <1>5, <1>7

LEMMA ReturnStep ==
  ASSUME AgentsInv, NEW w \in Worker, stack[w] # <<>>,
         NEW outcomes \in SUBSET {"ok", "empty", "error", "failed"}, ReturnResult(w, outcomes)
  PROVE  Stacks' /\ Nodes'
<1>1. Coroutine(stack[w])
  BY DEF AgentsInv, Stacks
<1>2. Len(stack[w]) \in Nat \ {0}
  BY <1>1, TopFrame
<1>3. CASE Len(stack[w]) > 1
  <2>1. Len(stack[w]) \in 2 .. Len(stack[w]) /\ Unwind(w, Len(stack[w])) /\ UNCHANGED node
    BY <1>2, <1>3 DEF ReturnResult
  <2> QED BY <2>1, UnwindStep
<1>4. CASE ~(Len(stack[w]) > 1)
  <2>1. PICK o \in outcomes : NodeIs(w, o)
    BY <1>4 DEF ReturnResult
  <2>2. stack' = [stack EXCEPT ![w] = <<>>] /\ depth' = depth
    BY <1>4 DEF ReturnResult
  <2>3. depth \in Nat
    BY FS_CardinalityType DEF AgentsInv, Stacks, DepthIsPeers
  <2>4. depth' = depth - (Len(stack[w]) - 1)
    <3>1. \A n \in Nat \ {0} : ~(n > 1) => depth - (n - 1) = depth
      BY <2>3
    <3> QED BY <1>2, <1>4, <2>2, <3>1
  <2> QED BY <2>1, <2>2, <2>4, EmptyStep
<1> QED BY <1>3, <1>4

\* An execution of the node's own agent begins.
LEMMA StartStep ==
  ASSUME AgentsInv, NEW w \in Worker, stack[w] = <<>>, StartAgent(w), UNCHANGED depth
  PROVE  Stacks' /\ Nodes'
<1> DEFINE f == Fresh(w, IF again'[w] THEN "marked" ELSE "first")
           s == <<f>>
<1>1. Sound(f) /\ f.at = "model"
  <2>1. w \in Agent
    BY AgentsAssumption
  <2> QED BY <2>1, FreshSound
<1> HIDE DEF f
<1>2. f \in Frame
  BY <1>1 DEF Sound
<1>3. s \in Seq(Frame) /\ Len(s) = 1 /\ s[1] = f /\ s # <<>>
  BY <1>2
<1> HIDE DEF s
<1>4. Coroutine(s)
  BY <1>1, <1>3 DEF Coroutine
<1>5. depth \in Nat
  BY FS_CardinalityType DEF AgentsInv, Stacks, DepthIsPeers
<1>6. depth' = depth + Above(s) - Above(stack[w])
  BY <1>3, <1>5 DEF Above
<1>7. stack' = [stack EXCEPT ![w] = s] /\ Stacks
  BY DEF StartAgent, AgentsInv, s, f
<1>8. Stacks' /\ stack'[w] = s /\ \A v \in Worker \ {w} : stack'[v] = stack[v]
  BY <1>4, <1>6, <1>7, StackStep
<1>9. /\ node' \in [Worker -> {"idle", "agent", "ok", "empty", "error",
                               "evaluate", "done", "paused", "failed"}]
      /\ node'[w] = "agent" /\ \A v \in Worker \ {w} : node'[v] = node[v]
  BY DEF StartAgent, NodeIs, AgentsInv, Nodes
<1>10. Nodes'
  BY <1>3, <1>8, <1>9 DEF AgentsInv, Nodes
<1> QED BY <1>8, <1>10

\* Steps of the loop that leave node and counters alone.
LEMMA CallSteps ==
  ASSUME AgentsInv, NEW w \in Worker,
         \/ ReplyCalls(w) \/ UseTool(w) \/ NoTools(w) \/ AskOverBudget(w) \/ AskNobody(w)
         \/ AskRefused(w) \/ NextRound(w)
  PROVE  AgentsInv'
<1> DEFINE f == Top(w)
<1>1. stack[w] # <<>>
  BY DEF ReplyCalls, UseTool, NoTools, AskOverBudget, AskNobody, AskRefused, NextRound, Calls, TopAt
<1>2. /\ Coroutine(stack[w]) /\ Sound(f) /\ f \in Frame /\ f.at # "wait" /\ f.agent \in Agent
      /\ f.todo \in Seq(Kinds)
  BY <1>1, TopSound
<1>3. UNCHANGED <<node, depth>> /\ Counters'
  BY DEF ReplyCalls, UseTool, NoTools, AskOverBudget, AskNobody, AskRefused, NextRound,
         AgentsInv, Counters, router
<1>4. \E g : Sound(g) /\ g.at # "wait" /\ SetTop(w, g)
  <2>1. CASE ReplyCalls(w)
    <3> HIDE DEF f
    <3>1. PICK form \in Forms(f.agent) : \E n \in 1 .. IF form = "api" THEN MaxReply ELSE 1 :
            \E todo \in [1 .. n -> {"ask", "tool"}] :
              SetTop(w, [f EXCEPT !.at = "calls", !.todo = todo,
                           !.open = IF form = "api" THEN n ELSE 0, !.did = FALSE])
      BY <2>1 DEF ReplyCalls, f
    <3>2. PICK n \in 1 .. IF form = "api" THEN MaxReply ELSE 1 :
            \E todo \in [1 .. n -> {"ask", "tool"}] :
              SetTop(w, [f EXCEPT !.at = "calls", !.todo = todo,
                           !.open = IF form = "api" THEN n ELSE 0, !.did = FALSE])
      BY <3>1
    <3>3. PICK todo \in [1 .. n -> {"ask", "tool"}] :
              SetTop(w, [f EXCEPT !.at = "calls", !.todo = todo,
                           !.open = IF form = "api" THEN n ELSE 0, !.did = FALSE])
      BY <3>2
    <3>4. n \in Nat /\ n \in 0 .. MaxReply
      BY <3>2, AgentsAssumption
    <3>5. todo \in ToDo /\ Len(todo) = n
      BY <3>3, <3>4 DEF ToDo
    <3>6. (IF form = "api" THEN n ELSE 0) \in 0 .. MaxReply
      BY <3>4, AgentsAssumption
    <3>7. form = "api" => f.agent \in ToolUser
      BY <3>1 DEF Forms
    <3> DEFINE g == [f EXCEPT !.at = "calls", !.todo = todo,
                        !.open = IF form = "api" THEN n ELSE 0, !.did = FALSE]
    <3>8. g \in Frame
      BY <1>2, <3>5, <3>6 DEF Frame
    <3>9. /\ g.agent = f.agent /\ g.iter = f.iter /\ g.asks = f.asks /\ g.at = "calls"
          /\ g.todo = todo /\ g.open = IF form = "api" THEN n ELSE 0
      BY <1>2 DEF Frame
    <3> HIDE DEF g
    <3>10. g.open # 0 => g.open = Len(g.todo) /\ g.agent \in ToolUser
      BY <3>5, <3>7, <3>9
    <3>11. Sound(g)
      BY <1>2, <3>8, <3>9, <3>10 DEF Sound
    <3>12. SetTop(w, g)
      BY <3>3 DEF g
    <3> QED BY <3>9, <3>11, <3>12
  <2>2. CASE UseTool(w)
    <3>1. f.at = "calls" /\ f.todo # <<>>
      BY <2>2 DEF UseTool, Calls, TopAt
    <3>2. PICK returned \in BOOLEAN : SetTop(w, CallDone(f, returned))
      BY <2>2 DEF UseTool
    <3>3. Sound(CallDone(f, returned)) /\ CallDone(f, returned).at = "calls"
      BY <1>2, <3>1, CallDoneSound
    <3> QED BY <3>2, <3>3
  <2>3. CASE NoTools(w)
    <3> DEFINE g == [f EXCEPT !.todo = <<>>]
    <3> HIDE DEF f
    <3>1. f.at = "calls" /\ f.agent \notin ToolUser /\ SetTop(w, g)
      BY <2>3 DEF NoTools, Calls, TopAt, f
    <3>2. <<>> \in ToDo
      <4>1. <<>> \in Seq(Kinds) /\ Len(<<>>) <= MaxReply
        BY EmptySeq, AgentsAssumption
      <4> QED BY <4>1, SeqIsTodo
    <3>3. g \in Frame
      BY <1>2, <3>2 DEF Frame
    <3>4. /\ g.agent = f.agent /\ g.iter = f.iter /\ g.asks = f.asks /\ g.at = f.at
          /\ g.open = f.open
      BY <1>2 DEF Frame
    <3> HIDE DEF g
    <3>5. f.open = 0
      BY <1>2, <3>1 DEF Sound
    <3>6. Sound(g) /\ g.at # "wait"
      BY <1>2, <3>1, <3>3, <3>4, <3>5 DEF Sound
    <3> QED BY <3>1, <3>6
  <2>4. CASE AskOverBudget(w)
    <3>1. f.at = "calls" /\ f.todo # <<>> /\ SetTop(w, CallDone(f, FALSE))
      BY <2>4 DEF AskOverBudget, Calls, TopAt
    <3>2. Sound(CallDone(f, FALSE)) /\ CallDone(f, FALSE).at = "calls"
      BY <1>2, <3>1, CallDoneSound
    <3> QED BY <3>1, <3>2
  <2>5. CASE AskNobody(w) \/ AskRefused(w)
    <3>1. f.at = "calls" /\ f.todo # <<>> /\ f.asks > 0 /\ SetTop(w, CallDone(Spend(f), TRUE))
      BY <2>5 DEF AskNobody, AskRefused, Calls, TopAt
    <3>2. Sound(Spend(f)) /\ Spend(f).at = f.at /\ Spend(f).todo = f.todo
      BY <1>2, <3>1, SpendSound
    <3>3. Sound(CallDone(Spend(f), TRUE)) /\ CallDone(Spend(f), TRUE).at = "calls"
      BY <3>1, <3>2, CallDoneSound
    <3> QED BY <3>1, <3>3
  <2>6. CASE NextRound(w)
    <3> DEFINE g == [f EXCEPT !.at = "model", !.iter = @ + 1]
    <3> HIDE DEF f
    <3>1. /\ f.at = "calls" /\ f.todo = <<>> /\ f.iter < MaxIters[f.agent] /\ SetTop(w, g)
      BY <2>6 DEF NextRound, TopAt, f
    <3>2. /\ f.iter \in Nat /\ f.iter + 1 \in Nat /\ f.iter + 1 \in 1 .. MaxIters[f.agent]
          /\ f.open \in Nat
      BY <1>2, <3>1, AgentsAssumption DEF Frame
    <3>3. g \in Frame
      BY <1>2, <3>2 DEF Frame
    <3>4. /\ g.agent = f.agent /\ g.iter = f.iter + 1 /\ g.asks = f.asks /\ g.at = "model"
          /\ g.open = f.open
      BY <1>2 DEF Frame
    <3> HIDE DEF g
    <3>5. f.open = 0
      BY <1>2, <3>1, EmptySeq DEF Sound
    <3>6. Sound(g) /\ g.at # "wait"
      BY <1>2, <3>2, <3>3, <3>4, <3>5 DEF Sound
    <3> QED BY <3>1, <3>6
  <2> QED BY <2>1, <2>2, <2>3, <2>4, <2>5, <2>6
<1>5. Stacks' /\ Nodes'
  BY <1>1, <1>3, <1>4, TopStep
<1> QED BY <1>3, <1>5 DEF AgentsInv

\* A question that is asked: a frame more, and one deeper.
LEMMA AskStep ==
  ASSUME AgentsInv, NEW w \in Worker, Ask(w)
  PROVE  AgentsInv'
<1> DEFINE f == Top(w)
<1>1. stack[w] # <<>> /\ f.at = "calls" /\ f.todo # <<>> /\ f.asks > 0
  BY DEF Ask, Calls, TopAt
<1>2. Coroutine(stack[w]) /\ Sound(f) /\ f \in Frame /\ f.agent \in Agent
  BY <1>1, TopSound
<1>3. PICK p \in Peers(f.agent) : stack' = [stack EXCEPT ![w] =
         Append(Append(Front(@), [Spend(f) EXCEPT !.at = "wait"]), Fresh(p, "first"))]
  BY DEF Ask
<1>4. p \in Agent
  BY DEF AgentsInv, Counters, Peers
<1> DEFINE s == Append(Append(Front(stack[w]), [Spend(f) EXCEPT !.at = "wait"]), Fresh(p, "first"))
<1>5. Sound(Fresh(p, "first")) /\ Fresh(p, "first").at = "model"
  BY <1>4, FreshSound
<1>6. Sound([Spend(f) EXCEPT !.at = "wait"]) /\ [Spend(f) EXCEPT !.at = "wait"].at = "wait"
  <2>1. Spend(f) \in Frame
    BY <1>1, <1>2, SpendSound DEF Sound
  <2> QED BY <1>1, <1>2, <2>1, SpendSound DEF Frame
<1>7. Coroutine(s) /\ Len(s) = Len(stack[w]) + 1
  BY <1>1, <1>2, <1>5, <1>6, NewPeer
<1>8. Len(stack[w]) \in Nat \ {0}
  BY <1>1, <1>2, TopFrame
<1>9. stack' = [stack EXCEPT ![w] = s] /\ Stacks
  BY <1>3 DEF AgentsInv, Stacks
<1> HIDE DEF s, f
<1>10. s # <<>>
  <2>1. Len(s) # 0
    BY <1>7, <1>8
  <2> QED BY <2>1, EmptySeq
<1>11. depth \in Nat
  BY FS_CardinalityType DEF AgentsInv, Stacks, DepthIsPeers
<1>12. Above(s) = Len(stack[w]) /\ Above(stack[w]) = Len(stack[w]) - 1
  BY <1>1, <1>7, <1>8, <1>10 DEF Above
<1>13. depth' = depth + Above(s) - Above(stack[w])
  BY <1>8, <1>11, <1>12 DEF Ask
<1>14. Stacks' /\ stack'[w] = s /\ \A v \in Worker \ {w} : stack'[v] = stack[v]
  BY <1>7, <1>9, <1>13, StackStep
<1>15. Nodes'
  <2>1. \A v \in Worker : stack'[v] # <<>> <=> stack[v] # <<>>
    BY <1>1, <1>10, <1>14
  <2> QED BY <2>1 DEF Ask, AgentsInv, Nodes
<1>16. Counters'
  BY DEF Ask, AgentsInv, Counters, router
<1> QED BY <1>14, <1>15, <1>16 DEF AgentsInv

\* Steps at the end of the loop.
LEMMA LoopEnds ==
  ASSUME AgentsInv, NEW w \in Worker, ReplyText(w) \/ LastRound(w)
  PROVE  AgentsInv'
<1> DEFINE f == Top(w)
           g == [Fresh(f.agent, f.round) EXCEPT !.at = "review"]
<1>1. stack[w] # <<>>
  BY DEF ReplyText, LastRound, TopAt
<1>2. f \in Frame /\ f.agent \in Agent /\ f.round \in {"first", "repeat", "marked"}
  BY <1>1, TopSound DEF Frame
<1>3. SetTop(w, g) /\ outputs' = outputs \cup {f.agent} /\ UNCHANGED <<node, depth>>
  BY DEF ReplyText, LastRound, EndLoop
<1> HIDE DEF f
<1>4. Sound(g)
  BY <1>2, FreshSound
<1>5. g.at = "review"
  BY DEF Fresh
<1> HIDE DEF g
<1>6. Stacks' /\ Nodes'
  BY <1>1, <1>3, <1>4, <1>5, TopStep
<1>7. Counters'
  BY <1>2, <1>3 DEF ReplyText, LastRound, router, AgentsInv, Counters
<1> QED BY <1>6, <1>7 DEF AgentsInv

LEMMA ReviewRefusesStep ==
  ASSUME AgentsInv, NEW w \in Worker, ReviewRefuses(w)
  PROVE  AgentsInv'
<1>1. stack[w] # <<>> /\ SetTop(w, Fresh(Top(w).agent, "repeat")) /\ UNCHANGED <<node, depth>>
  BY DEF ReviewRefuses, TopAt
<1>2. Top(w).agent \in Agent
  BY <1>1, TopSound
<1>3. Sound(Fresh(Top(w).agent, "repeat")) /\ Fresh(Top(w).agent, "repeat").at = "model"
  BY <1>2, FreshSound
<1>4. Stacks' /\ Nodes'
  BY <1>1, <1>3, TopStep
<1>5. Counters'
  BY DEF ReviewRefuses, router, AgentsInv, Counters
<1> QED BY <1>4, <1>5 DEF AgentsInv

\* Every way an execution ends.
LEMMA ExecutionEnds ==
  ASSUME AgentsInv, NEW w \in Worker,
         ReplyError(w) \/ ReviewPasses(w) \/ Raise(w) \/ PeerTimeout(w) \/ AgentTimeout(w)
  PROVE  AgentsInv'
<1>1. Counters'
  BY DEF ReplyError, ReviewPasses, Raise, PeerTimeout, AgentTimeout, router, AgentsInv, Counters
<1>2. Stacks' /\ Nodes'
  <2>1. CASE ReplyError(w) \/ ReviewPasses(w) \/ Raise(w)
    <3>1. stack[w] # <<>>
      BY <2>1 DEF ReplyError, ReviewPasses, Raise, TopAt
    <3>2. PICK outcomes \in SUBSET {"ok", "empty", "error", "failed"} : ReturnResult(w, outcomes)
      <4>1. CASE ReplyError(w)
        BY <4>1 DEF ReplyError
      <4>2. CASE ReviewPasses(w)
        BY <4>2 DEF ReviewPasses
      <4>3. CASE Raise(w)
        <5> DEFINE o == IF Top(w).round = "repeat" THEN {"ok", "empty"} ELSE {"failed", "error"}
        <5>1. o \in SUBSET {"ok", "empty", "error", "failed"} /\ ReturnResult(w, o)
          BY <4>3 DEF Raise
        <5> QED BY <5>1
      <4> QED BY <2>1, <4>1, <4>2, <4>3
    <3> QED BY <3>1, <3>2, ReturnStep
  <2>2. CASE PeerTimeout(w)
    <3>1. PICK k \in 2 .. Len(stack[w]) : Unwind(w, k)
      BY <2>2 DEF PeerTimeout
    <3>2. UNCHANGED node
      BY <2>2 DEF PeerTimeout
    <3> QED BY <3>1, <3>2, UnwindStep
  <2>3. CASE AgentTimeout(w)
    BY <2>3, EmptyStep DEF AgentTimeout
  <2> QED BY <2>1, <2>2, <2>3
<1> QED BY <1>1, <1>2 DEF AgentsInv

\* The node around its agent.
LEMMA NodeSteps ==
  ASSUME AgentsInv, NEW w \in Worker, NodeStep(w)
  PROVE  AgentsInv'
<1>1. CASE ExecuteAgent(w) \/ RetryEmpty(w)
  <2>1. stack[w] = <<>>
    BY <1>1 DEF ExecuteAgent, RetryEmpty, AgentsInv, Nodes
  <2>2. StartAgent(w) /\ UNCHANGED depth
    BY <1>1 DEF ExecuteAgent, RetryEmpty
  <2>3. Stacks' /\ Nodes'
    BY <2>1, <2>2, StartStep
  <2>4. Counters'
    BY <1>1, AgentsAssumption DEF ExecuteAgent, RetryEmpty, router, AgentsInv, Counters
  <2> QED BY <2>3, <2>4 DEF AgentsInv
<1>2. CASE RecordResult(w) \/ GoOn(w) \/ Retry(w) \/ AskHuman(w)
  <2>1. UNCHANGED <<stack, depth>>
    BY <1>2 DEF RecordResult, GoOn, Retry, AskHuman
  <2>2. PICK where \in {"idle", "error", "evaluate", "done", "paused", "failed"} : NodeIs(w, where)
    BY <1>2 DEF RecordResult, GoOn, Retry, AskHuman
  <2>3. node[w] # "agent"
    BY <1>2 DEF RecordResult, GoOn, Retry, AskHuman
  <2>4. Stacks'
    BY <2>1 DEF AgentsInv, Stacks, PeerFrames, DepthIsPeers
  <2>5. Nodes'
    <3>1. /\ node' \in [Worker -> {"idle", "agent", "ok", "empty", "error",
                                   "evaluate", "done", "paused", "failed"}]
          /\ node'[w] # "agent" /\ \A v \in Worker \ {w} : node'[v] = node[v]
      BY <2>2 DEF NodeIs, AgentsInv, Nodes
    <3> QED BY <2>1, <2>3, <3>1 DEF AgentsInv, Nodes
  <2>6. Counters'
    <3>1. w \in Agent
      BY AgentsAssumption
    <3>2. CASE RecordResult(w)
      BY <3>1, <3>2 DEF RecordResult, router, AgentsInv, Counters
    <3>3. CASE GoOn(w) \/ Retry(w) \/ AskHuman(w)
      <4>1. /\ attempt' \in [Worker -> 0 .. EmptyRetries] /\ again' \in [Worker -> BOOLEAN]
        <5>1. 0 \in 0 .. EmptyRetries /\ Ended(w)
          BY <3>3, AgentsAssumption DEF GoOn, Retry, AskHuman
        <5> QED BY <5>1 DEF Ended, AgentsInv, Counters
      <4>2. retries' \in [Worker -> 0 .. NodeRetries] /\ total' \in Nat /\ outputs' = outputs
        BY <3>3, AgentsAssumption DEF GoOn, Retry, AskHuman, MayRetry, AgentsInv, Counters
      <4> QED BY <4>1, <4>2 DEF AgentsInv, Counters
    <3> QED BY <1>2, <3>2, <3>3
  <2> QED BY <2>4, <2>5, <2>6 DEF AgentsInv
<1> QED BY <1>1, <1>2 DEF NodeStep

LEMMA NextAgentsInv == AgentsInv /\ [AgentsNext]_agentsVars => AgentsInv'
<1> SUFFICES ASSUME AgentsInv, [AgentsNext]_agentsVars PROVE AgentsInv'
  OBVIOUS
<1>1. CASE UNCHANGED agentsVars
  BY <1>1 DEF agentsVars, router, AgentsInv, Stacks, Nodes, Counters, PeerFrames, DepthIsPeers
<1>2. CASE AgentsNext
  <2>1. PICK w \in Worker : NodeStep(w) \/ LoopStep(w) \/ PeerTimeout(w) \/ AgentTimeout(w)
    BY <1>2 DEF AgentsNext
  <2>2. CASE NodeStep(w)
    BY <2>2, NodeSteps
  <2>3. CASE LoopStep(w)
    BY <2>3, CallSteps, AskStep, LoopEnds, ReviewRefusesStep, ExecutionEnds DEF LoopStep
  <2> QED BY <2>1, <2>2, <2>3, ExecutionEnds
<1> QED BY <1>1, <1>2

LEMMA InitAgentsInv == AgentsInit => AgentsInv
<1> SUFFICES ASSUME AgentsInit PROVE AgentsInv
  OBVIOUS
<1>1. \A w \in Worker : stack[w] = <<>> /\ node[w] = "idle"
  BY DEF AgentsInit
<1>2. Coroutine(<<>>) /\ <<>> \in Seq(Frame) /\ Len(<<>>) = 0
  BY EmptySeq DEF Coroutine
<1>3. PeerFrames = {}
  BY <1>1, <1>2 DEF PeerFrames
<1>4. Stacks
  BY <1>1, <1>2, <1>3, FS_EmptySet DEF AgentsInit, Stacks, DepthIsPeers
<1>5. Nodes
  BY <1>1 DEF AgentsInit, Nodes
<1>6. Counters
  BY AgentsAssumption DEF AgentsInit, Counters
<1> QED BY <1>4, <1>5, <1>6 DEF AgentsInv

\* What an execution holds is of its type, at every depth of every stack.
THEOREM AgentsAreTyped == AgentsSpec => []AgentsTyped
<1>1. AgentsInv => AgentsTyped
  <2> SUFFICES ASSUME AgentsInv PROVE AgentsTyped
    OBVIOUS
  <2>1. ASSUME NEW w \in Worker, NEW i \in DOMAIN stack[w]
        PROVE  Sound(stack[w][i])
    <3>1. stack[w] \in Seq(Frame) /\ Coroutine(stack[w])
      BY DEF AgentsInv, Stacks, Coroutine
    <3>2. DOMAIN stack[w] = 1 .. Len(stack[w])
      BY <3>1
    <3> QED BY <3>1, <3>2 DEF Coroutine
  <2>2. depth \in Nat
    BY FS_CardinalityType DEF AgentsInv, Stacks, DepthIsPeers
  <2> QED BY <2>1, <2>2 DEF AgentsTyped, AgentsInv, Nodes, Counters, Sound
<1> QED BY <1>1, InitAgentsInv, NextAgentsInv, PTL DEF AgentsSpec

\* Whenever an agent's model is asked, every call of its replies so far has its
\* answer in the conversation, for any number of agents, rounds, questions and
\* retries, wherever timeouts and errors cut in.
THEOREM CallsGetAnswers == AgentsSpec => []CallsAnswered
<1>1. AgentsInv => CallsAnswered
  <2> SUFFICES ASSUME AgentsInv, NEW w \in Worker, NEW i \in DOMAIN stack[w]
               PROVE  stack[w][i].at = "model" => stack[w][i].open = 0
    BY DEF CallsAnswered
  <2>1. stack[w] \in Seq(Frame) /\ Coroutine(stack[w])
    BY DEF AgentsInv, Stacks, Coroutine
  <2>2. DOMAIN stack[w] = 1 .. Len(stack[w])
    BY <2>1
  <2> QED BY <2>1, <2>2 DEF Coroutine, Sound
<1> QED BY <1>1, InitAgentsInv, NextAgentsInv, PTL DEF AgentsSpec

\* The depth that the agents of a run share is the number of peers that are
\* answering: every way out of an execution, a timeout that unwinds several of
\* them included, gives back what it took.
THEOREM DepthCountsPeers == AgentsSpec => []DepthIsPeers
<1>1. AgentsInv => DepthIsPeers
  BY DEF AgentsInv, Stacks
<1> QED BY <1>1, InitAgentsInv, NextAgentsInv, PTL DEF AgentsSpec

------------------------------------------------------------------------------
(* Dialogues over one table.  Each phase holds the ids of its own rows, and *)
(* they are ids of its own rows however many others insert between.         *)

TablesTyped ==
  /\ DOMAIN says = Speaker /\ DOMAIN entries = Speaker /\ DOMAIN round = Speaker
  /\ DOMAIN partner = Speaker /\ DOMAIN question = Speaker
  /\ mine \in [Speaker -> Nat] /\ history \in [Speaker -> Seq(Nat)]

\* Row i is the question that phase p is at.
IsQuestion(i, p) ==
  /\ i \in DOMAIN messages
  /\ messages[i].kind = "question" /\ messages[i].phase = p
  /\ messages[i].entry = entries[p] /\ messages[i].round = round[p]
  /\ messages[i].by = p /\ messages[i].to = partner[p]

IsAnswer(i, j) == i \in DOMAIN messages /\ Answers(i, j) /\ messages[i].parent = j

Answered(p, j) == \E i \in Range(history[p]) : IsAnswer(i, j)

Replying == {"answer", "answering"}

Dialogue(p) ==
  /\ \A j \in Range(history[p]) : j \in DOMAIN messages
  /\ says[p] = "asking" => IsQuestion(mine[p], p)
  /\ says[p] \in Replying => IsQuestion(question[p], p)
  /\ says[p] = "answering" => IsAnswer(mine[p], question[p])
  /\ says[p] \notin {"idle", "failed"} =>
       \A j \in Range(history[p]) : messages[j].kind = "question" =>
         Answered(p, j) \/ (says[p] \in Replying /\ j = question[p])

Threaded ==
  \A i \in DOMAIN messages : messages[i].kind = "answer" =>
    messages[i].parent \in DOMAIN messages /\ Answers(i, messages[i].parent)

Undisturbed ==
  /\ \E S : messages \in Seq(S)
  /\ TablesTyped /\ Threaded
  /\ \A p \in Speaker : Dialogue(p)

ConversationInv == rollbacks \in Nat /\ (rollbacks = 0 => Undisturbed)

\* No row that is there changes.
RowsStay ==
  /\ DOMAIN messages \subseteq DOMAIN messages'
  /\ \A i \in DOMAIN messages : messages'[i] = messages[i]

\* A dialogue that takes no step is as it was.
LEMMA OtherDialogue ==
  ASSUME RowsStay, NEW q, Dialogue(q),
         says'[q] = says[q], entries'[q] = entries[q], round'[q] = round[q],
         partner'[q] = partner[q], mine'[q] = mine[q], question'[q] = question[q],
         history'[q] = history[q]
  PROVE  Dialogue(q)'
<1>1. ASSUME NEW i, IsQuestion(i, q) PROVE IsQuestion(i, q)'
  BY <1>1 DEF RowsStay, IsQuestion
<1>2. ASSUME NEW i, NEW j \in DOMAIN messages, IsAnswer(i, j) PROVE IsAnswer(i, j)'
  BY <1>2 DEF RowsStay, IsAnswer, Answers
<1>3. ASSUME NEW j \in DOMAIN messages, Answered(q, j) PROVE Answered(q, j)'
  BY <1>2, <1>3 DEF Answered
<1>4. \A j \in Range(history'[q]) : j \in DOMAIN messages'
  BY DEF Dialogue, RowsStay
<1>5. says'[q] = "asking" => IsQuestion(mine[q], q)'
  BY <1>1 DEF Dialogue
<1>6. says'[q] \in Replying => IsQuestion(question[q], q)'
  BY <1>1 DEF Dialogue
<1>7. says'[q] = "answering" => IsAnswer(mine[q], question[q])'
  BY <1>2 DEF Dialogue, Replying, IsQuestion
<1>8. says'[q] \notin {"idle", "failed"} =>
        \A j \in Range(history'[q]) : messages'[j].kind = "question" =>
          Answered(q, j)' \/ (says'[q] \in Replying /\ j = question'[q])
  <2> SUFFICES ASSUME says'[q] \notin {"idle", "failed"}, NEW j \in Range(history'[q]),
                      messages'[j].kind = "question"
               PROVE  Answered(q, j)' \/ (says'[q] \in Replying /\ j = question'[q])
    OBVIOUS
  <2>1. j \in DOMAIN messages /\ messages[j].kind = "question"
    BY DEF Dialogue, RowsStay
  <2>2. Answered(q, j) \/ (says[q] \in Replying /\ j = question[q])
    BY <2>1 DEF Dialogue
  <2> QED BY <1>3, <2>1, <2>2
<1>9. mine'[q] = mine[q] /\ question'[q] = question[q]
  OBVIOUS
<1> QED BY <1>4, <1>5, <1>6, <1>7, <1>8, <1>9 DEF Dialogue, IsQuestion, IsAnswer, Answers

\* A step of p alone that inserts no row and leaves p in order.
LEMMA OwnStep ==
  ASSUME Undisturbed, NEW p \in Speaker, UNCHANGED messages, TablesTyped', Dialogue(p)',
         \A q \in Speaker \ {p} :
           /\ says'[q] = says[q] /\ entries'[q] = entries[q] /\ round'[q] = round[q]
           /\ partner'[q] = partner[q] /\ mine'[q] = mine[q] /\ question'[q] = question[q]
           /\ history'[q] = history[q]
  PROVE  Undisturbed'
<1>1. RowsStay
  BY DEF RowsStay
<1>2. \A q \in Speaker \ {p} : Dialogue(q)'
  BY <1>1, OtherDialogue DEF Undisturbed
<1>3. Threaded'
  BY DEF Undisturbed, Threaded, Answers
<1>4. \E S : messages' \in Seq(S)
  BY DEF Undisturbed
<1> QED BY <1>2, <1>3, <1>4 DEF Undisturbed

LEMMA InsertStep ==
  ASSUME Undisturbed, NEW p \in Speaker, Insert(p)
  PROVE  Undisturbed'
<1> DEFINE m == Message(p)
<1>0. PICK n : n = Len(messages) + 1
  OBVIOUS
<1>1. PICK S : messages \in Seq(S)
  BY DEF Undisturbed
<1>2. messages \in Seq(S \cup {m}) /\ m \in S \cup {m}
  BY <1>1, SeqMonotonic
<1>3. /\ messages' = Append(messages, m)
      /\ messages' \in Seq(S \cup {m}) /\ Len(messages') = n /\ messages'[n] = m
      /\ \A i \in 1 .. Len(messages) : messages'[i] = messages[i]
      /\ Len(messages) \in Nat
  BY <1>0, <1>2, AppendProperties DEF Insert
<1>4. DOMAIN messages = 1 .. Len(messages) /\ DOMAIN messages' = 1 .. n
  BY <1>0, <1>2, <1>3, LenProperties
<1>5. RowsStay /\ n \in DOMAIN messages'
  BY <1>0, <1>3, <1>4 DEF RowsStay
<1>6. /\ mine' = [mine EXCEPT ![p] = n] /\ n \in Nat
      /\ UNCHANGED <<entries, round, partner, question, history>>
  BY <1>0, <1>3 DEF Insert
<1>7. CASE says[p] = "ask"
  <2>1. says' = [says EXCEPT ![p] = "asking"]
    BY <1>7 DEF Insert, Say
  <2>2. m = [kind |-> "question", phase |-> p, entry |-> entries[p], round |-> round[p],
             by |-> p, to |-> partner[p], parent |-> 0]
    BY <1>7 DEF Message
  <2> HIDE DEF m
  <2>3. TablesTyped'
    BY <1>6, <2>1 DEF Undisturbed, TablesTyped
  <2>4. says'[p] = "asking" /\ mine'[p] = n
    BY <1>6, <2>1 DEF Undisturbed, TablesTyped
  <2>5. IsQuestion(n, p)'
    BY <1>3, <1>5, <1>6, <2>2 DEF IsQuestion
  <2>6. Dialogue(p)'
    <3>1. \A j \in Range(history'[p]) : j \in DOMAIN messages /\ j \in DOMAIN messages'
      BY <1>5, <1>6 DEF Undisturbed, Dialogue, RowsStay
    <3>2. ASSUME NEW j \in Range(history'[p]), messages'[j].kind = "question" PROVE Answered(p, j)'
      <4>1. Answered(p, j)
        BY <1>5, <1>6, <1>7, <3>1, <3>2 DEF Undisturbed, Dialogue, Replying, RowsStay
      <4> QED BY <1>5, <1>6, <3>1, <4>1 DEF Answered, IsAnswer, Answers, RowsStay
    <3>3. IsQuestion(mine[p], p)'
      BY <2>4, <2>5 DEF IsQuestion
    <3> QED BY <2>4, <3>1, <3>2, <3>3 DEF Dialogue, Replying
  <2>7. \A q \in Speaker \ {p} : Dialogue(q)'
    <3> TAKE q \in Speaker \ {p}
    <3>1. says'[q] = says[q] /\ mine'[q] = mine[q]
      BY <1>6, <2>1 DEF Undisturbed, TablesTyped
    <3>2. Dialogue(q)
      BY DEF Undisturbed
    <3> QED BY <1>5, <1>6, <3>1, <3>2, OtherDialogue
  <2>8. Threaded'
    <3> SUFFICES ASSUME NEW i \in DOMAIN messages', messages'[i].kind = "answer"
                 PROVE  messages'[i].parent \in DOMAIN messages' /\ Answers(i, messages[i].parent)'
      BY DEF Threaded
    <3>1. i # n
      BY <1>3, <2>2
    <3>2. i \in DOMAIN messages
      BY <1>3, <1>4, <3>1, <1>0
    <3> QED BY <1>5, <3>2 DEF Undisturbed, Threaded, Answers, RowsStay
  <2> QED BY <1>3, <2>3, <2>6, <2>7, <2>8 DEF Undisturbed
<1>8. CASE says[p] = "answer"
  <2>1. says' = [says EXCEPT ![p] = "answering"]
    BY <1>8 DEF Insert, Say
  <2>2. m = [kind |-> "answer", phase |-> p, entry |-> entries[p], round |-> round[p],
             by |-> partner[p], to |-> p, parent |-> question[p]]
    BY <1>8 DEF Message
  <2> HIDE DEF m
  <2>3. TablesTyped'
    BY <1>6, <2>1 DEF Undisturbed, TablesTyped
  <2>4. says'[p] = "answering" /\ mine'[p] = n
    BY <1>6, <2>1 DEF Undisturbed, TablesTyped
  <2>5. IsQuestion(question[p], p)
    BY <1>8 DEF Undisturbed, Dialogue, Replying
  <2>6. IsQuestion(question[p], p)'
    BY <1>5, <1>6, <2>5 DEF IsQuestion, RowsStay
  <2>7. IsAnswer(n, question[p])'
    <3>1. /\ messages'[n].kind = "answer" /\ messages'[n].phase = p
          /\ messages'[n].entry = entries[p] /\ messages'[n].round = round[p]
          /\ messages'[n].by = partner[p] /\ messages'[n].to = p
          /\ messages'[n].parent = question[p]
      BY <1>3, <2>2
    <3>2. /\ messages'[question[p]].kind = "question" /\ messages'[question[p]].phase = p
          /\ messages'[question[p]].entry = entries[p] /\ messages'[question[p]].round = round[p]
          /\ messages'[question[p]].by = p /\ messages'[question[p]].to = partner[p]
      BY <1>6, <2>6 DEF IsQuestion
    <3> QED BY <1>5, <1>6, <3>1, <3>2 DEF IsAnswer, Answers
  <2>8. Dialogue(p)'
    <3>1. \A j \in Range(history'[p]) : j \in DOMAIN messages /\ j \in DOMAIN messages'
      BY <1>5, <1>6 DEF Undisturbed, Dialogue, RowsStay
    <3>2. ASSUME NEW j \in Range(history'[p]), messages'[j].kind = "question"
          PROVE  Answered(p, j)' \/ j = question'[p]
      <4>1. Answered(p, j) \/ j = question[p]
        BY <1>5, <1>6, <1>8, <3>1, <3>2 DEF Undisturbed, Dialogue, Replying, RowsStay
      <4> QED BY <1>5, <1>6, <3>1, <4>1 DEF Answered, IsAnswer, Answers, RowsStay
    <3>3. IsAnswer(mine[p], question[p])'
      BY <1>6, <2>4, <2>7 DEF IsAnswer, Answers
    <3> QED BY <2>4, <2>6, <3>1, <3>2, <3>3 DEF Dialogue, Replying
  <2>9. \A q \in Speaker \ {p} : Dialogue(q)'
    <3> TAKE q \in Speaker \ {p}
    <3>1. says'[q] = says[q] /\ mine'[q] = mine[q]
      BY <1>6, <2>1 DEF Undisturbed, TablesTyped
    <3>2. Dialogue(q)
      BY DEF Undisturbed
    <3> QED BY <1>5, <1>6, <3>1, <3>2, OtherDialogue
  <2>10. Threaded'
    <3> SUFFICES ASSUME NEW i \in DOMAIN messages', messages'[i].kind = "answer"
                 PROVE  messages'[i].parent \in DOMAIN messages' /\ Answers(i, messages[i].parent)'
      BY DEF Threaded
    <3>1. CASE i = n
      BY <1>6, <2>6, <2>7, <3>1 DEF IsAnswer, IsQuestion, Answers
    <3>2. CASE i # n
      <4>1. i \in DOMAIN messages
        BY <1>3, <1>4, <3>2, <1>0
      <4> QED BY <1>5, <4>1 DEF Undisturbed, Threaded, Answers, RowsStay
    <3> QED BY <3>1, <3>2
  <2> QED BY <1>3, <2>3, <2>8, <2>9, <2>10 DEF Undisturbed
<1> QED BY <1>7, <1>8 DEF Insert

\* What a bus has seen, with one more.
LEMMA Heard ==
  ASSUME NEW s \in Seq(Nat), NEW i \in Nat
  PROVE  Append(s, i) \in Seq(Nat) /\ Range(Append(s, i)) = Range(s) \cup {i}
<1> DEFINE r == Append(s, i)
<1>1. /\ r \in Seq(Nat) /\ Len(r) = Len(s) + 1 /\ r[Len(s) + 1] = i
      /\ \A k \in 1 .. Len(s) : r[k] = s[k]
  BY AppendProperties
<1>2. DOMAIN r = 1 .. Len(s) + 1 /\ DOMAIN s = 1 .. Len(s) /\ Len(s) \in Nat
  BY <1>1, LenProperties
<1> HIDE DEF r
<1>3. Range(r) = Range(s) \cup {i}
  BY <1>1, <1>2 DEF Range
<1> QED BY <1>1, <1>3 DEF r

LEMMA CommitStep ==
  ASSUME Undisturbed, NEW p \in Speaker, Commit(p)
  PROVE  Undisturbed'
<1> DEFINE h == Append(history[p], mine[p])
<1>1. h \in Seq(Nat) /\ Range(h) = Range(history[p]) \cup {mine[p]}
  BY Heard DEF Undisturbed, TablesTyped
<1>2. /\ history' = [history EXCEPT ![p] = h] /\ UNCHANGED <<entries, partner, mine, messages>>
  BY DEF Commit, OwnId, Undisturbed, TablesTyped
<1> HIDE DEF h
<1>3. history'[p] = h /\ history' \in [Speaker -> Seq(Nat)]
  BY <1>1, <1>2 DEF Undisturbed, TablesTyped
<1>4. Dialogue(p)
  BY DEF Undisturbed
<1>5. CASE says[p] = "asking"
  <2>1. /\ question' = [question EXCEPT ![p] = mine[p]] /\ says' = [says EXCEPT ![p] = "answer"]
        /\ UNCHANGED round
    BY <1>5 DEF Commit, Proceed, OwnId, Say
  <2>2. TablesTyped'
    BY <1>2, <1>3, <2>1 DEF Undisturbed, TablesTyped
  <2>3. question'[p] = mine[p] /\ says'[p] = "answer"
    BY <2>1 DEF Undisturbed, TablesTyped
  <2>4. IsQuestion(mine[p], p)
    BY <1>4, <1>5 DEF Dialogue
  <2>5. IsQuestion(question[p], p)'
    BY <1>2, <2>1, <2>3, <2>4 DEF IsQuestion
  <2>6. \A j \in Range(h) : j \in DOMAIN messages'
    BY <1>1, <1>2, <1>4, <2>4 DEF Dialogue, IsQuestion
  <2>7. ASSUME NEW j \in Range(h), messages'[j].kind = "question"
        PROVE  Answered(p, j)' \/ j = question'[p]
    <3>1. CASE j = mine[p]
      BY <2>3, <3>1
    <3>2. CASE j \in Range(history[p])
      <4>1. Answered(p, j)
        BY <1>2, <1>4, <1>5, <2>7, <3>2 DEF Dialogue, Replying
      <4> QED BY <1>1, <1>2, <1>3, <4>1 DEF Answered, IsAnswer, Answers
    <3> QED BY <1>1, <3>1, <3>2
  <2>8. Dialogue(p)'
    BY <1>3, <2>3, <2>5, <2>6, <2>7 DEF Dialogue, Replying
  <2>9. \A q \in Speaker \ {p} :
          /\ says'[q] = says[q] /\ entries'[q] = entries[q] /\ round'[q] = round[q]
          /\ partner'[q] = partner[q] /\ mine'[q] = mine[q] /\ question'[q] = question[q]
          /\ history'[q] = history[q]
    BY <1>2, <2>1 DEF Undisturbed, TablesTyped
  <2> QED BY <1>2, <2>2, <2>8, <2>9, OwnStep
<1>6. CASE says[p] = "answering"
  <2>1. /\ says' = [says EXCEPT ![p] = IF round[p] = MaxRounds[p] THEN "conclude" ELSE "ask"]
        /\ round' = [round EXCEPT ![p] = IF @ = MaxRounds[p] THEN @ ELSE @ + 1]
        /\ UNCHANGED question
    BY <1>6 DEF Commit, Proceed, Say
  <2>2. TablesTyped'
    BY <1>2, <1>3, <2>1 DEF Undisturbed, TablesTyped
  <2>3. says'[p] \in {"conclude", "ask"}
    BY <2>1 DEF Undisturbed, TablesTyped
  <2>4. IsAnswer(mine[p], question[p])
    BY <1>4, <1>6 DEF Dialogue
  <2>5. \A j \in Range(h) : j \in DOMAIN messages'
    BY <1>1, <1>2, <1>4, <2>4 DEF Dialogue, IsAnswer
  <2>6. ASSUME NEW j \in Range(h), messages'[j].kind = "question" PROVE Answered(p, j)'
    <3>1. j # mine[p]
      BY <1>2, <2>4, <2>6 DEF IsAnswer, Answers
    <3>2. Answered(p, j) \/ j = question[p]
      BY <1>1, <1>2, <1>4, <1>6, <2>6, <3>1 DEF Dialogue, Replying
    <3>3. \E i \in Range(h) : IsAnswer(i, j)
      BY <1>1, <2>4, <3>2 DEF Answered
    <3> QED BY <1>2, <1>3, <3>3 DEF Answered, IsAnswer, Answers
  <2>7. Dialogue(p)'
    BY <1>3, <2>3, <2>5, <2>6 DEF Dialogue, Replying
  <2>8. \A q \in Speaker \ {p} :
          /\ says'[q] = says[q] /\ entries'[q] = entries[q] /\ round'[q] = round[q]
          /\ partner'[q] = partner[q] /\ mine'[q] = mine[q] /\ question'[q] = question[q]
          /\ history'[q] = history[q]
    BY <1>2, <2>1 DEF Undisturbed, TablesTyped
  <2> QED BY <1>2, <2>2, <2>7, <2>8, OwnStep
<1> QED BY <1>5, <1>6 DEF Commit

\* Entering, failing, concluding, handing over and being sent back.
LEMMA PlainStep ==
  ASSUME Undisturbed, NEW p \in Speaker,
         EnterDialogue(p) \/ Break(p) \/ Conclude(p) \/ HandOver(p) \/ SendBack(p)
  PROVE  Undisturbed'
<1>1. UNCHANGED <<messages, mine, question>>
  BY DEF EnterDialogue, Break, Conclude, HandOver, SendBack
<1>2. Dialogue(p)
  BY DEF Undisturbed
<1>3. CASE EnterDialogue(p)
  <2>1. /\ says' = [says EXCEPT ![p] = "ask"] /\ entries' = [entries EXCEPT ![p] = @ + 1]
        /\ round' = [round EXCEPT ![p] = 1] /\ partner' = [partner EXCEPT ![p] = PendingHandoff(p)]
        /\ history' = [history EXCEPT ![p] = << >>]
    BY <1>3 DEF EnterDialogue, Say
  <2>2. TablesTyped'
    <3>1. << >> \in Seq(Nat)
      BY EmptySeq
    <3> QED BY <1>1, <2>1, <3>1 DEF Undisturbed, TablesTyped
  <2>3. says'[p] = "ask" /\ history'[p] = << >>
    BY <2>1 DEF Undisturbed, TablesTyped
  <2>4. Range(history'[p]) = {}
    BY <2>3, EmptySeq DEF Range
  <2>5. Dialogue(p)'
    BY <2>3, <2>4 DEF Dialogue, Replying
  <2>6. \A q \in Speaker \ {p} :
          /\ says'[q] = says[q] /\ entries'[q] = entries[q] /\ round'[q] = round[q]
          /\ partner'[q] = partner[q] /\ mine'[q] = mine[q] /\ question'[q] = question[q]
          /\ history'[q] = history[q]
    BY <1>1, <2>1 DEF Undisturbed, TablesTyped
  <2> QED BY <1>1, <2>2, <2>5, <2>6, OwnStep
<1>4. CASE Break(p) \/ Conclude(p) \/ HandOver(p) \/ SendBack(p)
  <2>1. PICK s \in {"failed", "work", "done", "idle"} :
          /\ says' = [says EXCEPT ![p] = s]
          /\ s \in {"work", "done"} => says[p] \in {"conclude", "work"}
    BY <1>4 DEF Break, Conclude, HandOver, SendBack, Say
  <2>2. UNCHANGED <<entries, round, partner, history>>
    BY <1>4 DEF Break, Conclude, HandOver, SendBack
  <2>3. TablesTyped'
    BY <1>1, <2>1, <2>2 DEF Undisturbed, TablesTyped
  <2>4. says'[p] = s
    BY <2>1 DEF Undisturbed, TablesTyped
  <2>5. Dialogue(p)'
    BY <1>1, <1>2, <2>1, <2>2, <2>4 DEF Dialogue, Replying, Answered, IsAnswer, Answers
  <2>6. \A q \in Speaker \ {p} :
          /\ says'[q] = says[q] /\ entries'[q] = entries[q] /\ round'[q] = round[q]
          /\ partner'[q] = partner[q] /\ mine'[q] = mine[q] /\ question'[q] = question[q]
          /\ history'[q] = history[q]
    BY <1>1, <2>1, <2>2 DEF Undisturbed, TablesTyped
  <2> QED BY <1>1, <2>3, <2>5, <2>6, OwnStep
<1> QED BY <1>3, <1>4

LEMMA NextConversationInv ==
  ConversationInv /\ [ConversationNext]_conversationVars => ConversationInv'
<1> SUFFICES ASSUME ConversationInv, [ConversationNext]_conversationVars PROVE ConversationInv'
  OBVIOUS
<1>1. CASE UNCHANGED conversationVars
  BY <1>1 DEF conversationVars, ConversationInv, Undisturbed, TablesTyped, Threaded, Dialogue,
              IsQuestion, IsAnswer, Answered, Answers
<1>2. CASE TalkRolledBack
  BY <1>2 DEF TalkRolledBack, ConversationInv
<1>3. CASE \E p \in Speaker : \/ EnterDialogue(p) \/ Insert(p) \/ Commit(p) \/ Break(p)
                             \/ Conclude(p) \/ HandOver(p) \/ SendBack(p)
  <2>1. PICK p \in Speaker : \/ EnterDialogue(p) \/ Insert(p) \/ Commit(p) \/ Break(p)
                           \/ Conclude(p) \/ HandOver(p) \/ SendBack(p)
    BY <1>3
  <2>2. rollbacks' = rollbacks
    BY <2>1 DEF EnterDialogue, Insert, Commit, Break, Conclude, HandOver, SendBack
  <2>3. ASSUME rollbacks = 0 PROVE Undisturbed'
    BY <2>1, <2>3, InsertStep, CommitStep, PlainStep DEF ConversationInv
  <2> QED BY <2>2, <2>3 DEF ConversationInv
<1> QED BY <1>1, <1>2, <1>3 DEF ConversationNext

LEMMA InitConversationInv == ConversationInit => ConversationInv
<1> SUFFICES ASSUME ConversationInit PROVE ConversationInv
  OBVIOUS
<1>1. messages = << >> /\ << >> \in Seq(Nat) /\ DOMAIN << >> = {} /\ rollbacks = 0
  BY EmptySeq DEF ConversationInit
<1>2. \E S : messages \in Seq(S)
  BY <1>1
<1>3. TablesTyped
  BY <1>1 DEF ConversationInit, TablesTyped
<1>4. Threaded
  BY <1>1 DEF Threaded
<1>5. ASSUME NEW p \in Speaker PROVE Dialogue(p)
  <2>1. history[p] = << >> /\ says[p] = "idle"
    BY DEF ConversationInit
  <2>2. Range(history[p]) = {}
    BY <1>1, <2>1 DEF Range
  <2> QED BY <2>1, <2>2 DEF Dialogue, Replying
<1> QED BY <1>1, <1>2, <1>3, <1>4, <1>5 DEF ConversationInv, Undisturbed

\* While the connection is not rolled back, an answer in the table hangs on the
\* question it answers, and every committed question of a dialogue that went
\* through has an answer, for any number of dialogues, rounds and entries.
THEOREM AnswersHang == ConversationSpec => []AnswersThread
<1>1. ConversationInv => AnswersThread
  BY DEF ConversationInv, Undisturbed, Threaded, Dialogue, Replying, Answered, IsAnswer,
         AnswersThread
<1> QED BY <1>1, InitConversationInv, NextConversationInv, PTL DEF ConversationSpec

------------------------------------------------------------------------------
(* Works of many units.  Every copy that a curator holds tells one story,   *)
(* whichever copy is written back last (Consistent), and it goes on from    *)
(* what the run was given.                                                  *)

Status == {"planned", "introduced", "referenced", "resolved", "overdue"}

GivenTyped ==
  /\ given.unit \in Nat \ {0}
  /\ given.window \in Seq(Nat) /\ Len(given.window) <= Window
  /\ given.threads \in [Threads -> Status]

Consistent(c) ==
  /\ c.unit \in Nat /\ c.unit >= given.unit
  /\ c.threads \in [Threads -> Status]
  /\ tracked =>
       /\ c.window = WindowAt(c.unit)
       /\ \A t \in Threads :
            /\ c.threads[t] = "overdue" =>
                 given.threads[t] = "overdue" \/ ResolveAt[t] < c.unit - 1
            /\ c.unit > given.unit /\ ResolveAt[t] < c.unit - 1 =>
                 c.threads[t] \in {"overdue", "resolved"}

Copies ==
  /\ DOMAIN state = Ids /\ DOMAIN snap = Ids
  /\ \A p \in Ids : state[p] = "curating" => Consistent(snap[p])

StoryInv == tracked \in BOOLEAN /\ GivenTyped /\ Consistent(ctx) /\ Copies

\* What is trimmed keeps its last Window elements.
LEMMA TrimmedSeq ==
  ASSUME NEW w \in Seq(Nat)
  PROVE  /\ Trimmed(w) \in Seq(Nat)
         /\ Len(Trimmed(w)) = IF Len(w) > Window THEN Window ELSE Len(w)
         /\ \A i \in 1 .. Len(Trimmed(w)) : Trimmed(w)[i] = w[Len(w) - Len(Trimmed(w)) + i]
<1>1. Window \in Nat /\ Window # 0 /\ Len(w) \in Nat
  BY WritingAssumption
<1>2. CASE ~(Len(w) > Window)
  <2>1. Trimmed(w) = w
    BY <1>2 DEF Trimmed
  <2> QED BY <1>1, <1>2, <2>1
<1>3. CASE Len(w) > Window
  <2> DEFINE m == Len(w) - Window + 1
             r == SubSeq(w, m, Len(w))
  <2>1. m \in Int /\ m >= 1 /\ Len(w) - m + 1 = Window /\ m <= Len(w)
    BY <1>1, <1>3
  <2>2. \A i \in m .. Len(w) : w[i] \in Nat
    BY <2>1, ElementOfSeq
  <2>3. /\ r \in Seq(Nat)
        /\ Len(r) = IF m <= Len(w) THEN Len(w) - m + 1 ELSE 0
        /\ \A i \in 1 .. Len(w) - m + 1 : r[i] = w[m + i - 1]
    BY <1>1, <2>1, <2>2, SubSeqProperties
  <2>4. Trimmed(w) = r
    BY <1>3 DEF Trimmed
  <2> HIDE DEF r
  <2>5. Len(r) = Window
    BY <2>1, <2>3
  <2>6. ASSUME NEW i \in 1 .. Window PROVE r[i] = w[Len(w) - Window + i]
    <3>1. i \in 1 .. Len(w) - m + 1 /\ m + i - 1 = Len(w) - Window + i
      BY <1>1, <2>1
    <3> QED BY <2>3, <3>1
  <2> QED BY <1>3, <2>3, <2>4, <2>5, <2>6
<1> QED BY <1>2, <1>3

\* Trimming on the way changes nothing.
LEMMA TrimmedOnce ==
  ASSUME NEW w \in Seq(Nat), NEW u \in Nat
  PROVE  Push(Trimmed(w), u) = Trimmed(Append(w, u))
<1> DEFINE a == Append(w, u)
           s == Trimmed(w)
           b == Append(s, u)
           x == Trimmed(b)
           y == Trimmed(a)
<1>0. Window \in Nat /\ Window # 0 /\ Len(w) \in Nat
  BY WritingAssumption
<1>1. /\ a \in Seq(Nat) /\ Len(a) = Len(w) + 1
      /\ \A i \in 1 .. Len(w) : a[i] = w[i]
      /\ a[Len(w) + 1] = u
  BY AppendProperties
<1>2. /\ s \in Seq(Nat) /\ Len(s) = IF Len(w) > Window THEN Window ELSE Len(w)
      /\ \A i \in 1 .. Len(s) : s[i] = w[Len(w) - Len(s) + i]
  BY TrimmedSeq
<1> HIDE DEF s
<1>3. /\ b \in Seq(Nat) /\ Len(b) = Len(s) + 1
      /\ \A i \in 1 .. Len(s) : b[i] = s[i]
      /\ b[Len(s) + 1] = u
  BY <1>2, AppendProperties
<1> HIDE DEF a, b
<1>4. /\ x \in Seq(Nat) /\ Len(x) = IF Len(b) > Window THEN Window ELSE Len(b)
      /\ \A i \in 1 .. Len(x) : x[i] = b[Len(b) - Len(x) + i]
  BY <1>3, TrimmedSeq
<1>5. /\ y \in Seq(Nat) /\ Len(y) = IF Len(a) > Window THEN Window ELSE Len(a)
      /\ \A i \in 1 .. Len(y) : y[i] = a[Len(a) - Len(y) + i]
  BY <1>1, TrimmedSeq
<1> HIDE DEF x, y
<1>6. Len(x) = Len(y)
  BY <1>0, <1>1, <1>2, <1>3, <1>4, <1>5
<1>7. ASSUME NEW j \in 1 .. Len(b) PROVE b[j] = a[Len(a) - Len(b) + j]
  <2>1. Len(s) \in Nat /\ Len(s) <= Len(w) /\ Len(a) - Len(b) = Len(w) - Len(s)
    BY <1>0, <1>1, <1>2, <1>3
  <2>2. CASE j = Len(s) + 1
    <3>1. Len(a) - Len(b) + j = Len(w) + 1
      BY <1>0, <2>1, <2>2
    <3> QED BY <1>1, <1>3, <2>2, <3>1
  <2>3. CASE j # Len(s) + 1
    <3>1. j \in 1 .. Len(s)
      BY <1>3, <2>1, <2>3
    <3>2. Len(w) - Len(s) + j \in 1 .. Len(w)
      BY <1>0, <2>1, <3>1
    <3>3. b[j] = w[Len(w) - Len(s) + j]
      BY <1>2, <1>3, <3>1
    <3> QED BY <1>1, <2>1, <3>2, <3>3
  <2> QED BY <2>2, <2>3
<1>8. ASSUME NEW i \in 1 .. Len(x) PROVE x[i] = y[i]
  <2>1. Len(b) \in Nat /\ Len(a) \in Nat /\ Len(x) <= Len(b) /\ Len(x) \in Nat
    BY <1>0, <1>1, <1>3, <1>4
  <2> DEFINE j == Len(b) - Len(x) + i
  <2>2. j \in 1 .. Len(b)
    BY <2>1
  <2>3. x[i] = b[j]
    BY <1>4, <2>2
  <2>4. Len(a) - Len(b) + j = Len(a) - Len(y) + i
    BY <1>6, <2>1
  <2>5. y[i] = a[Len(a) - Len(y) + i]
    BY <1>5, <1>6
  <2> QED BY <1>7, <2>2, <2>3, <2>4, <2>5
<1>9. x = y
  BY <1>4, <1>5, <1>6, <1>8, SeqEqual
<1> QED BY <1>9 DEF x, y, a, b, s, Push

\* The window with one unit more.
LEMMA PushedWindow ==
  ASSUME GivenTyped, NEW u \in Nat, u >= given.unit
  PROVE  Push(WindowAt(u), u) = WindowAt(u + 1)
<1> DEFINE g == given.unit
           v == given.window
           r(k) == [i \in 1 .. (k - g) |-> g + i - 1]
           s(k) == v \o r(k)
<1>1. g \in Nat /\ v \in Seq(Nat) /\ u >= g /\ Len(v) \in Nat
  BY DEF GivenTyped
<1>2. ASSUME NEW k \in Nat, k >= g
      PROVE  /\ s(k) \in Seq(Nat) /\ Len(s(k)) = Len(v) + (k - g)
             /\ \A i \in 1 .. Len(v) + (k - g) :
                  s(k)[i] = IF i <= Len(v) THEN v[i] ELSE g + (i - Len(v)) - 1
  <2>1. r(k) \in Seq(Nat) /\ Len(r(k)) = k - g
    <3>1. k - g \in Nat /\ \A i \in 1 .. (k - g) : g + i - 1 \in Nat
      BY <1>1, <1>2
    <3> HIDE DEF g
    <3> QED BY <3>1
  <2>2. \A i \in 1 .. (k - g) : r(k)[i] = g + i - 1
    OBVIOUS
  <2> HIDE DEF r
  <2>3. /\ s(k) \in Seq(Nat) /\ Len(s(k)) = Len(v) + Len(r(k))
        /\ \A i \in 1 .. Len(v) + Len(r(k)) :
             s(k)[i] = IF i <= Len(v) THEN v[i] ELSE r(k)[i - Len(v)]
    BY <1>1, <2>1, ConcatProperties
  <2> HIDE DEF s, g, v
  <2>4. \A i \in 1 .. Len(v) + (k - g) : ~(i <= Len(v)) => i - Len(v) \in 1 .. (k - g)
    BY <1>1, <1>2
  <2> QED BY <2>1, <2>2, <2>3, <2>4
<1>3. WindowAt(u) = Trimmed(s(u)) /\ WindowAt(u + 1) = Trimmed(s(u + 1))
  BY DEF WindowAt
<1> HIDE DEF s, g, v
<1>4. /\ s(u) \in Seq(Nat) /\ Len(s(u)) = Len(v) + (u - g)
      /\ \A i \in 1 .. Len(v) + (u - g) :
           s(u)[i] = IF i <= Len(v) THEN v[i] ELSE g + (i - Len(v)) - 1
  BY <1>1, <1>2
<1> DEFINE k == u + 1
<1>5. k \in Nat /\ k >= g /\ k = u + 1
  BY <1>1
<1> HIDE DEF k
<1>6. /\ s(k) \in Seq(Nat) /\ Len(s(k)) = Len(v) + (k - g)
      /\ \A i \in 1 .. Len(v) + (k - g) :
           s(k)[i] = IF i <= Len(v) THEN v[i] ELSE g + (i - Len(v)) - 1
  BY <1>2, <1>5
<1> DEFINE a == Append(s(u), u)
<1>7. /\ a \in Seq(Nat) /\ Len(a) = Len(s(u)) + 1
      /\ \A i \in 1 .. Len(s(u)) : a[i] = s(u)[i]
      /\ a[Len(s(u)) + 1] = u
  BY <1>4, AppendProperties
<1> HIDE DEF a
<1> DEFINE n == Len(v) + (u - g)
<1>8. n \in Nat /\ n = Len(v) + (u - g) /\ n >= Len(v) /\ n + 1 = Len(v) + (k - g)
  BY <1>1, <1>5
<1> HIDE DEF n
<1>9. Len(a) = n + 1 /\ Len(s(k)) = n + 1
  BY <1>4, <1>6, <1>7, <1>8
<1>10. ASSUME NEW i \in 1 .. n + 1 PROVE a[i] = s(k)[i]
  <2>1. s(k)[i] = IF i <= Len(v) THEN v[i] ELSE g + (i - Len(v)) - 1
    BY <1>6, <1>8
  <2>2. CASE i = n + 1
    BY <1>1, <1>4, <1>7, <1>8, <2>1, <2>2
  <2>3. CASE i # n + 1
    <3>1. i \in 1 .. n
      BY <1>8, <2>3
    <3> QED BY <1>4, <1>7, <1>8, <2>1, <3>1
  <2> QED BY <2>2, <2>3
<1>11. a = s(k)
  BY <1>6, <1>7, <1>9, <1>10, SeqEqual
<1> QED BY <1>3, <1>4, <1>5, <1>11, TrimmedOnce DEF a

\* What a curator makes of its copy is one story again.
LEMMA CompletedConsistent ==
  ASSUME NEW c, Consistent(c), GivenTyped, tracked \in BOOLEAN,
         NEW said \in [Threads -> {"nothing", "introduced", "referenced", "resolved"}]
  PROVE  Consistent(Completed(c, said))
<1> DEFINE d == Completed(c, said)
<1>1. /\ d.unit = c.unit + 1
      /\ d.window = IF tracked THEN Push(c.window, c.unit) ELSE c.window
      /\ d.threads = IF tracked
                     THEN [t \in Threads |-> Overdue(t, c.unit, Declared(c.threads[t], said[t]))]
                     ELSE c.threads
  BY DEF Completed
<1> HIDE DEF d
<1>2. c.unit \in Nat /\ given.unit \in Nat /\ d.unit \in Nat /\ d.unit >= given.unit /\ d.unit - 1 = c.unit
  BY <1>1 DEF Consistent, GivenTyped
<1>3. ASSUME NEW t \in Threads PROVE Declared(c.threads[t], said[t]) \in Status
  BY DEF Declared, Consistent, Status
<1>4. ASSUME NEW t \in Threads
      PROVE  Overdue(t, c.unit, Declared(c.threads[t], said[t])) \in Status
  BY <1>3 DEF Overdue, Status
<1>5. d.threads \in [Threads -> Status]
  BY <1>1, <1>4 DEF Consistent
<1>6. ASSUME tracked PROVE d.window = WindowAt(d.unit)
  BY <1>1, <1>2, <1>6, PushedWindow DEF Consistent
<1>7. ASSUME tracked, NEW t \in Threads
      PROVE  /\ d.threads[t] = "overdue" =>
                  given.threads[t] = "overdue" \/ ResolveAt[t] < d.unit - 1
             /\ d.unit > given.unit /\ ResolveAt[t] < d.unit - 1 =>
                  d.threads[t] \in {"overdue", "resolved"}
  <2>1. d.threads[t] = Overdue(t, c.unit, Declared(c.threads[t], said[t]))
    BY <1>1, <1>7
  <2>2. ResolveAt[t] \in Nat
    BY WritingAssumption
  <2>3. c.threads[t] = "overdue" => given.threads[t] = "overdue" \/ ResolveAt[t] < c.unit - 1
    BY <1>7 DEF Consistent
  <2>4. Declared(c.threads[t], said[t]) = "overdue" => c.threads[t] = "overdue"
    BY DEF Declared
  <2> QED BY <1>2, <2>1, <2>2, <2>3, <2>4 DEF Overdue
<1>8. Consistent(d)
  BY <1>2, <1>5, <1>6, <1>7 DEF Consistent
<1> QED BY <1>8 DEF d

LEMMA NextStoryInv == StoryInv /\ [WritingNext]_writingVars => StoryInv'
<1> SUFFICES ASSUME StoryInv, [WritingNext]_writingVars PROVE StoryInv'
  OBVIOUS
<1>0. ASSUME UNCHANGED <<tracked, given>>
      PROVE  /\ tracked' \in BOOLEAN /\ GivenTyped'
             /\ \A c : Consistent(c) => Consistent(c)'
             /\ UNCHANGED ctx => Consistent(ctx)'
  BY <1>0 DEF StoryInv, GivenTyped, Consistent, WindowAt
<1>1. CASE UNCHANGED writingVars
  <2>1. UNCHANGED <<tracked, given, ctx, phases, state, snap>>
    BY <1>1 DEF writingVars
  <2>2. Copies'
    BY <1>0, <2>1 DEF StoryInv, Copies, Ids
  <2> QED BY <1>0, <2>1, <2>2 DEF StoryInv
<1>2. CASE PlanSkeleton
  <2>1. UNCHANGED <<tracked, given, ctx>>
    BY <1>2 DEF PlanSkeleton
  <2>2. /\ DOMAIN state' = Ids' /\ DOMAIN snap' = Ids'
        /\ \A p \in Ids' : state'[p] = "waiting"
    BY <1>2 DEF PlanSkeleton, Ids
  <2>3. Copies'
    BY <2>2 DEF Copies
  <2> QED BY <1>0, <2>1, <2>3 DEF StoryInv
<1>3. CASE Ingest
  <2>1. PICK g \in Ingested, old \in [Threads -> Status] :
          ctx' = [unit |-> g.unit, window |-> g.window, threads |-> old] /\ given' = ctx'
    BY <1>3 DEF Ingest, Status
  <2>2. UNCHANGED <<tracked, phases, state, snap>> /\ \A p \in Ids : state[p] = "waiting"
    BY <1>3 DEF Ingest
  <2>3. g.unit \in Nat \ {0} /\ g.window \in Seq(Nat) /\ Len(g.window) <= Window
    BY WritingAssumption
  <2>4. /\ given'.unit = g.unit /\ given'.window = g.window /\ given'.threads = old
        /\ ctx'.unit = g.unit /\ ctx'.window = g.window /\ ctx'.threads = old
    BY <2>1
  <2>5. GivenTyped'
    BY <2>3, <2>4 DEF GivenTyped
  <2>6. WindowAt(g.unit)' = g.window
    <3>1. [i \in 1 .. (g.unit - g.unit) |-> g.unit + i - 1] = <<>>
      BY <2>3
    <3>2. g.window \o <<>> = g.window
      BY <2>3, ConcatEmptySeq
    <3>3. Trimmed(g.window) = g.window
      BY <2>3, WritingAssumption DEF Trimmed
    <3> QED BY <2>4, <3>1, <3>2, <3>3 DEF WindowAt
  <2>7. Consistent(ctx)'
    <3>2. g.unit \in Nat /\ g.unit >= g.unit /\ ~(g.unit > g.unit)
      BY <2>3
    <3> QED BY <2>4, <2>6, <3>2 DEF Consistent, WindowAt
  <2>8. Copies'
    BY <2>2 DEF StoryInv, Copies, Ids
  <2> QED BY <2>2, <2>5, <2>7, <2>8 DEF StoryInv
<1>4. CASE DispatchPhases
  <2>1. UNCHANGED <<tracked, phases, snap, ctx, given>>
    BY <1>4 DEF DispatchPhases
  <2>2. DOMAIN state' = Ids /\ \A p \in Ids : state'[p] = "curating" => state[p] = "curating"
    BY <1>4 DEF DispatchPhases
  <2>3. Copies'
    BY <1>0, <2>1, <2>2 DEF StoryInv, Copies, Ids
  <2> QED BY <1>0, <2>1, <2>3 DEF StoryInv
<1>5. CASE \E p \in DOMAIN state : Fail(p) \/ Curate(p) \/ Curated(p) \/ CuratorFails(p) \/ GateEnds(p)
  <2>1. PICK p \in DOMAIN state : Fail(p) \/ Curate(p) \/ Curated(p) \/ CuratorFails(p) \/ GateEnds(p)
    BY <1>5
  <2> USE DEF Fail, Curate, Curated, CuratorFails, GateEnds, CurateEnds
  <2>2. p \in Ids /\ UNCHANGED <<tracked, phases, given>> /\ Ids' = Ids
    BY <2>1 DEF StoryInv, Copies, Ids
  <2>3. Consistent(ctx)'
    <3>1. CASE Curated(p)
      <4>1. PICK said \in [Threads -> {"nothing", "introduced", "referenced", "resolved"}] :
              ctx' = Completed(snap[p], said)
        BY <3>1 DEF WriteBack
      <4>2. Consistent(snap[p]) /\ tracked \in BOOLEAN /\ GivenTyped
        BY <2>2, <3>1 DEF StoryInv, Copies
      <4>3. Consistent(Completed(snap[p], said))
        BY <4>2, CompletedConsistent
      <4> HIDE DEF Completed
      <4>4. \A c : c = ctx' /\ Consistent(c) => Consistent(ctx)'
        BY <2>2 DEF Consistent, WindowAt
      <4> QED BY <4>1, <4>3, <4>4
    <3>2. CASE ~Curated(p)
      <4>1. UNCHANGED ctx
        BY <2>1, <3>2
      <4> QED BY <1>0, <2>2, <4>1
    <3> QED BY <3>1, <3>2
  <2>4. Copies'
    <3>1. DOMAIN state' = Ids /\ DOMAIN snap' = Ids
      BY <2>1 DEF StoryInv, Copies
    <3>2. ASSUME NEW q \in Ids, state'[q] = "curating" PROVE Consistent(snap'[q])
      <4>1. CASE q = p
        <5>1. Curate(p) /\ snap'[p] = ctx
          BY <2>1, <2>2, <3>2, <4>1 DEF StoryInv, Copies
        <5> QED BY <4>1, <5>1 DEF StoryInv
      <4>2. CASE q # p
        <5>1. state[q] = "curating" /\ snap'[q] = snap[q]
          BY <2>1, <2>2, <3>2, <4>2 DEF StoryInv, Copies
        <5> QED BY <5>1 DEF StoryInv, Copies
      <4> QED BY <4>1, <4>2
    <3> QED BY <1>0, <2>2, <3>1, <3>2 DEF Copies, Consistent, WindowAt
  <2> QED BY <1>0, <2>2, <2>3, <2>4 DEF StoryInv
<1> QED BY <1>1, <1>2, <1>3, <1>4, <1>5 DEF WritingNext

LEMMA InitStoryInv == WritingInit => StoryInv
<1> SUFFICES ASSUME WritingInit PROVE StoryInv
  OBVIOUS
<1>1. DOMAIN <<>> = {} /\ Ids = {}
  BY DEF WritingInit, Ids
<1>2. /\ ctx = given /\ given.unit = 1 /\ given.window = <<>>
      /\ given.threads = [t \in Threads |-> "planned"]
  BY DEF WritingInit, Blank
<1>3. <<>> \in Seq(Nat) /\ Len(<<>>) = 0 /\ Window \in Nat /\ Window # 0
  BY WritingAssumption
<1>4. GivenTyped
  BY <1>2, <1>3 DEF GivenTyped, Status
<1>5. WindowAt(1) = <<>>
  <2>1. [i \in 1 .. (1 - 1) |-> 1 + i - 1] = <<>>
    OBVIOUS
  <2>2. <<>> \o <<>> = <<>>
    OBVIOUS
  <2> QED BY <1>2, <1>3, <2>1, <2>2 DEF WindowAt, Trimmed
<1>6. Consistent(ctx)
  BY <1>2, <1>5 DEF Consistent, Status
<1> QED BY <1>1, <1>4, <1>6 DEF WritingInit, StoryInv, Copies

\* The unit a run is at, its window of summaries and its threads tell one story
\* at every moment, for any number of units and threads, from wherever the
\* ingestor has put the run, and whatever curators overlap, fail or run again.
THEOREM OneStory == WritingSpec => []MemoryMovesTogether
<1>1. StoryInv => MemoryMovesTogether
  BY DEF StoryInv, Consistent, MemoryMovesTogether
<1> QED BY <1>1, InitStoryInv, NextStoryInv, PTL DEF WritingSpec

------------------------------------------------------------------------------
(* Where the phases form a chain, a phase begins when all before it are     *)
(* done (InTurn), so that no two curators overlap and the copy of the one   *)
(* at work is the context itself (UpToDate).                                *)

\* A set of natural numbers that has an element has a least one.
LEMMA NatLeast ==
  ASSUME NEW T \in SUBSET Nat, T # {}
  PROVE  \E x \in T : \A y \in T : x <= y
<1> DEFINE R == {p \in Nat \X Nat : p[1] < p[2]}
<1>1. IsWellFoundedOn(R, Nat)
  <2>1. OpToRel(<, Nat) = R
    BY DEF OpToRel
  <2> QED BY <2>1, NatLessThanWellFounded
<1>2. \A x, y \in Nat : y < x => <<y, x>> \in R
  OBVIOUS
<1> HIDE DEF R
<1>3. PICK x \in T : \A y \in T : ~(<<y, x>> \in R)
  BY <1>1, WFMin
<1>4. \A y \in T : ~(y < x)
  BY <1>2, <1>3
<1> QED
  BY <1>4

Increasing(s) == \A i, j \in DOMAIN s : i < j => s[i] < s[j]

\* Units can be put in order.
LEMMA Ordered ==
  ASSUME NEW n \in Nat, NEW U \in SUBSET (1 .. n)
  PROVE  IsFiniteSet(U) /\ Cardinality(U) \in Nat
         /\ \E s \in [1 .. Cardinality(U) -> U] : Increasing(s)
<1> DEFINE Orders(V) == \E s \in [1 .. Cardinality(V) -> V] : Increasing(s)
           Bad == {k \in Nat : \E V \in SUBSET (1 .. k) : ~Orders(V)}
<1>1. ASSUME NEW k \in Nat, NEW V \in SUBSET (1 .. k)
      PROVE  IsFiniteSet(V) /\ Cardinality(V) \in Nat
  <2>1. IsFiniteSet(1 .. k)
    BY FS_Interval
  <2>2. IsFiniteSet(V)
    BY <2>1, FS_Subset
  <2> QED BY <2>2, FS_CardinalityType
<1> HIDE DEF Orders
<1>2. ASSUME Bad # {} PROVE FALSE
  <2>1. PICK k \in Bad : \A l \in Bad : k <= l
    <3>1. Bad \in SUBSET Nat
      OBVIOUS
    <3> HIDE DEF Bad
    <3> QED BY <1>2, <3>1, NatLeast
  <2>2. PICK V \in SUBSET (1 .. k) : ~Orders(V)
    BY <2>1
  <2>3. k \in Nat
    BY <2>1
  <2>4. CASE V = {}
    <3>1. Cardinality(V) = 0
      BY <2>4, FS_EmptySet
    <3>2. [i \in 1 .. 0 |-> 0] \in [1 .. 0 -> V] /\ Increasing([i \in 1 .. 0 |-> 0])
      BY DEF Increasing
    <3> QED BY <2>2, <3>1, <3>2 DEF Orders
  <2>5. CASE V # {}
    <3>0. k # 0 /\ k - 1 \in Nat /\ ~(k <= k - 1)
      <4>1. PICK v \in V : TRUE
        BY <2>5
      <4>2. v \in 1 .. k
        BY <4>1
      <4> QED BY <2>3, <4>2
    <3>1. k - 1 \notin Bad
      <4> HIDE DEF Bad
      <4> QED BY <2>1, <3>0
    <3>2. CASE k \notin V
      <4>1. V \in SUBSET (1 .. k - 1)
        BY <2>3, <3>2
      <4> QED BY <2>2, <3>0, <3>1, <4>1
    <3>3. CASE k \in V
      <4> DEFINE W == V \ {k}
      <4>1. W \in SUBSET (1 .. k - 1)
        BY <2>3
      <4>2. Orders(W)
        BY <3>0, <3>1, <4>1
      <4>3. PICK s \in [1 .. Cardinality(W) -> W] : Increasing(s)
        BY <4>2 DEF Orders
      <4>4. IsFiniteSet(V) /\ Cardinality(V) \in Nat /\ Cardinality(W) = Cardinality(V) - 1
        <5>1. IsFiniteSet(V) /\ Cardinality(V) \in Nat
          BY <1>1, <2>3
        <5> QED BY <3>3, <5>1, FS_RemoveElement
      <4>5. PICK c \in Nat : c = Cardinality(V)
        BY <4>4
      <4>6. Cardinality(W) \in Nat /\ c >= 1 /\ Cardinality(W) = c - 1
        <5>1. Cardinality(W) \in Nat
          <6> HIDE DEF W
          <6> QED BY <1>1, <3>0, <4>1
        <5> HIDE DEF W
        <5> QED BY <4>4, <4>5, <5>1
      <4>9. \A x \in W : x \in V /\ x \in Nat /\ x < k
        BY <2>3, <4>1
      <4> HIDE DEF W
      <4> DEFINE r == [i \in 1 .. c |-> IF i = c THEN k ELSE s[i]]
      <4>7. r \in [1 .. c -> V]
        BY <3>3, <4>3, <4>5, <4>6, <4>9
      <4>8. Increasing(r)
        <5> SUFFICES ASSUME NEW i \in 1 .. c, NEW j \in 1 .. c, i < j PROVE r[i] < r[j]
          BY DEF Increasing
        <5>1. i \in 1 .. Cardinality(W) /\ r[i] = s[i] /\ s[i] \in W
          BY <4>3, <4>5, <4>6
        <5>2. CASE j = c
          <6>1. r[j] = k
            BY <5>2
          <6> QED BY <4>9, <5>1, <6>1
        <5>3. CASE j # c
          <6>1. j \in 1 .. Cardinality(W) /\ r[j] = s[j]
            BY <4>5, <4>6, <5>3
          <6> QED BY <4>3, <5>1, <6>1 DEF Increasing
        <5> QED BY <5>2, <5>3
      <4> HIDE DEF r
      <4> QED BY <2>2, <4>5, <4>7, <4>8 DEF Orders
    <3> QED BY <3>2, <3>3
  <2> QED BY <2>4, <2>5
<1>3. Orders(U)
  BY <1>2
<1> QED BY <1>1, <1>3 DEF Orders

\* All that is needed of a list of phases to look at its elements.
IsList(ps) == ps \in Seq({ps[i] : i \in DOMAIN ps})

Distinct(ps) == \A i, j \in DOMAIN ps : ps[i].id = ps[j].id => i = j

LEMMA IdsDiffer ==
  /\ \A n : UnitId(n) \notin PlanId
  /\ \A m, n \in Nat : UnitId(m) = UnitId(n) => m = n
<1>1. \A n : DOMAIN UnitId(n) = 1 .. 2 /\ UnitId(n)[2] = n
  BY DEF UnitId
<1>2. \A x \in PlanId : DOMAIN x = 1 .. 1
  BY DEF PlanId
<1>3. 2 \in 1 .. 2 /\ 2 \notin 1 .. 1
  OBVIOUS
<1> QED BY <1>1, <1>2, <1>3

\* The phases after the expansion have different ids; and where the plan is a
\* chain and the units begin with the first, they are a chain.
LEMMA Expanded ==
  ASSUME NEW plan \in Plans, NEW U \in SUBSET (1 .. TotalUnits)
  PROVE  LET ps == Expand(plan, U)
         IN  IsList(ps) /\ Distinct(ps) /\ (Linear(plan) /\ HasFirst(ps) => Linear(ps))
<1>1. /\ plan \in Seq([id : PlanId, unit : {Unset}, deps : SUBSET PlanId])
      /\ \A i, j \in DOMAIN plan : plan[i].id = plan[j].id => i = j
  BY PlansAssumption
<1>2. Len(plan) \in Nat /\ DOMAIN plan = 1 .. Len(plan)
  BY <1>1
<1>3. \A i \in 1 .. Len(plan) : /\ plan[i] \in [id : PlanId, unit : {Unset}, deps : SUBSET PlanId]
                                /\ plan[i].id \in PlanId /\ plan[i].unit = Unset
  <2>1. \A i \in 1 .. Len(plan) : plan[i] \in [id : PlanId, unit : {Unset}, deps : SUBSET PlanId]
    BY <1>1, ElementOfSeq
  <2>2. \A x \in [id : PlanId, unit : {Unset}, deps : SUBSET PlanId] : x.id \in PlanId /\ x.unit = Unset
    OBVIOUS
  <2> QED BY <2>1, <2>2
<1>4. Unset # 1
  BY WritingAssumption
<1>5. IsFiniteSet(U) /\ Cardinality(U) \in Nat
      /\ \E s \in [1 .. Cardinality(U) -> U] : Increasing(s)
  BY Ordered, WritingAssumption
<1>6. CASE Cardinality(U) <= 1 \/ \A i \in DOMAIN plan : plan[i].id # WritePhase
  <2>1. Expand(plan, U) = plan
    BY <1>6 DEF Expand
  <2>2. plan \in [1 .. Len(plan) -> {plan[i] : i \in DOMAIN plan}]
    BY <1>1, <1>2
  <2>3. IsList(plan)
    BY <1>2, <2>2 DEF IsList
  <2> QED BY <1>1, <2>1, <2>3 DEF Distinct
<1>7. CASE ~(Cardinality(U) <= 1 \/ \A i \in DOMAIN plan : plan[i].id # WritePhase)
  <2> DEFINE w == CHOOSE i \in DOMAIN plan : plan[i].id = WritePhase
             c == Cardinality(U)
             order == InOrder(U)
             chapter(i) ==
               UnitPhase(UnitId(order[i]), order[i], ChapterDeps(order, i, plan[w].deps))
             moved(p) ==
               [p EXCEPT !.deps = {IF d = WritePhase THEN UnitId(order[c]) ELSE d : d \in @}]
             l == Len(plan)
             m == l + c - 1
             ps == [i \in 1 .. m |-> CASE i < w -> plan[i]
                                       [] w <= i /\ i < w + c -> chapter(i - w + 1)
                                       [] OTHER -> moved(plan[i - c + 1])]
  <2>1. Expand(plan, U) = ps
    BY <1>7 DEF Expand
  <2>2. w \in 1 .. l /\ plan[w].id = WritePhase
    BY <1>2, <1>7
  <2> HIDE DEF w
  <2>3. order \in [1 .. c -> U] /\ Increasing(order)
    BY <1>5 DEF InOrder, Increasing
  <2> HIDE DEF order
  <2>4. c \in Nat /\ c >= 2 /\ l \in Nat /\ w \in Nat /\ w >= 1 /\ w <= l /\ m \in Nat /\ m = l + c - 1
    BY <1>2, <1>5, <1>7, <2>2
  <2>5. \A k \in 1 .. c : order[k] \in Nat /\ order[k] >= 1
    <3>1. \A x \in U : x \in Nat /\ x >= 1
      BY WritingAssumption
    <3> QED BY <2>3, <3>1
  <2>6. \A k, k2 \in 1 .. c : order[k] = order[k2] => k = k2
    <3> SUFFICES ASSUME NEW k \in 1 .. c, NEW k2 \in 1 .. c, order[k] = order[k2] PROVE k = k2
      OBVIOUS
    <3>1. ~(k < k2) /\ ~(k2 < k)
      BY <2>3, <2>5 DEF Increasing
    <3> QED BY <3>1, <2>4
  <2> HIDE DEF c, l, m
  \* The three parts of the list.
  <2>7. ASSUME NEW i \in 1 .. m, i < w
        PROVE  i \in 1 .. l /\ ps[i] = plan[i]
    BY <2>4, <2>7
  <2>8. ASSUME NEW k \in 1 .. c
        PROVE  /\ w + k - 1 \in 1 .. m
               /\ ps[w + k - 1].id = UnitId(order[k])
               /\ ps[w + k - 1].unit = order[k]
               /\ ps[w + k - 1].deps = ChapterDeps(order, k, plan[w].deps)
    <3> DEFINE i == w + k - 1
    <3>1. i \in 1 .. m /\ ~(i < w) /\ w <= i /\ i < w + c /\ i - w + 1 = k
      BY <2>4
    <3> HIDE DEF i
    <3>2. ps[i] = chapter(k)
      BY <3>1
    <3> QED BY <3>1, <3>2 DEF UnitPhase, i
  <2>9. ASSUME NEW j \in 1 .. l, w < j
        PROVE  /\ j + c - 1 \in 1 .. m
               /\ ps[j + c - 1].id = plan[j].id
               /\ ps[j + c - 1].unit = Unset
               /\ ps[j + c - 1].deps
                    = {IF d = WritePhase THEN UnitId(order[c]) ELSE d : d \in plan[j].deps}
    <3> DEFINE i == j + c - 1
    <3>1. i \in 1 .. m /\ ~(i < w) /\ ~(i < w + c) /\ i - c + 1 = j
      BY <2>4, <2>9
    <3> HIDE DEF i
    <3>2. ps[i] = moved(plan[j])
      BY <3>1
    <3>3. plan[j] \in [id : PlanId, unit : {Unset}, deps : SUBSET PlanId]
      BY <1>3 DEF l
    <3> HIDE DEF ps
    <3> QED BY <3>1, <3>2, <3>3 DEF i
  <2>10. ASSUME NEW i \in 1 .. m
         PROVE  \/ i < w
                \/ \E k \in 1 .. c : i = w + k - 1
                \/ \E j \in 1 .. l : w < j /\ i = j + c - 1
    <3>1. CASE i < w
      BY <3>1
    <3>2. CASE w <= i /\ i < w + c
      <4>1. i - w + 1 \in 1 .. c /\ i = w + (i - w + 1) - 1
        BY <2>4, <3>2
      <4> QED BY <4>1
    <3>3. CASE w + c <= i
      <4>1. i - c + 1 \in 1 .. l /\ w < i - c + 1 /\ i = (i - c + 1) + c - 1
        BY <2>4, <3>3
      <4> QED BY <4>1
    <3> QED BY <2>4, <3>1, <3>2, <3>3
  <2>11. DOMAIN ps = 1 .. m
    OBVIOUS
  <2> HIDE DEF ps
  <2>12. IsList(ps) /\ Len(ps) = m
    <3> DEFINE S == {ps[i] : i \in DOMAIN ps}
    <3>1. \A i \in 1 .. m : ps[i] \in S
      BY <2>11
    <3> HIDE DEF S
    <3>2. ps \in [1 .. m -> S]
      BY <3>1 DEF ps
    <3>3. ps \in Seq(S) /\ Len(ps) = m
      BY <2>4, <3>2
    <3> QED BY <3>3 DEF IsList, S
  <2>13. Distinct(ps)
    <3> SUFFICES ASSUME NEW i \in 1 .. m, NEW j \in 1 .. m, ps[i].id = ps[j].id PROVE i = j
      BY <2>11 DEF Distinct
    <3> DEFINE Planned(x) == \E y \in 1 .. l : ps[x].id = plan[y].id /\ (IF y < w THEN x = y ELSE x = y + c - 1)
               Written(x) == \E k \in 1 .. c : ps[x].id = UnitId(order[k]) /\ x = w + k - 1
    <3>1. ASSUME NEW x \in 1 .. m PROVE Planned(x) \/ Written(x)
      <4>1. CASE x < w
        BY <2>7, <4>1
      <4>2. CASE \E k \in 1 .. c : x = w + k - 1
        BY <2>8, <4>2
      <4>3. CASE \E y \in 1 .. l : w < y /\ x = y + c - 1
        <5>1. PICK y \in 1 .. l : w < y /\ x = y + c - 1
          BY <4>3
        <5>2. ~(y < w)
          BY <2>4, <5>1
        <5> QED BY <2>9, <5>1, <5>2
      <4> QED BY <2>10, <4>1, <4>2, <4>3
    <3>2. CASE Planned(i) /\ Planned(j)
      BY <1>1, <1>2, <3>2 DEF l
    <3>3. CASE Written(i) /\ Written(j)
      BY <2>5, <2>6, <3>3, IdsDiffer
    <3>4. ~(Planned(i) /\ Written(j)) /\ ~(Written(i) /\ Planned(j))
      BY <1>3, IdsDiffer DEF l
    <3> QED BY <3>1, <3>2, <3>3, <3>4
  <2>14. ASSUME Linear(plan), HasFirst(ps) PROVE Linear(ps)
    <3>1. order[1] = 1
      <4>1. PICK i \in 1 .. m : ps[i].unit = 1
        BY <2>11, <2>14 DEF HasFirst
      <4>2. PICK k \in 1 .. c : order[k] = 1
        <5>1. CASE i < w
          BY <1>3, <1>4, <2>7, <4>1, <5>1 DEF l
        <5>2. CASE \E k \in 1 .. c : i = w + k - 1
          BY <2>8, <4>1, <5>2
        <5>3. CASE \E j \in 1 .. l : w < j /\ i = j + c - 1
          BY <1>4, <2>9, <4>1, <5>3
        <5> QED BY <2>10, <5>1, <5>2, <5>3
      <4>3. 1 \in 1 .. c /\ (k = 1 \/ 1 < k)
        BY <2>4
      <4>4. 1 < k => order[1] < order[k]
        BY <2>3, <4>3 DEF Increasing
      <4> QED BY <2>5, <4>2, <4>3, <4>4
    <3>2. \A j \in 2 .. l : plan[j].deps = {plan[j - 1].id}
      BY <2>14 DEF Linear, l
    <3> SUFFICES ASSUME NEW i \in 2 .. m PROVE ps[i].deps = {ps[i - 1].id}
      BY <2>12 DEF Linear
    <3>3. i \in 1 .. m /\ i - 1 \in 1 .. m /\ i - 1 < i
      BY <2>4
    <3>4. CASE i < w
      <4>1. i - 1 < w /\ i \in 2 .. l
        BY <2>4, <3>4
      <4> QED BY <2>7, <3>2, <3>3, <3>4, <4>1
    <3>5. CASE i = w
      <4>1. i - 1 < w /\ w \in 2 .. l /\ 1 \in 1 .. c /\ w + 1 - 1 = w
        BY <2>4, <3>5
      <4>2. ps[w].deps = plan[w].deps
        BY <2>8, <3>1, <4>1 DEF ChapterDeps
      <4> QED BY <2>7, <3>2, <3>3, <3>5, <4>1, <4>2
    <3>6. ASSUME NEW k \in 2 .. c, i = w + k - 1 PROVE ps[i].deps = {ps[i - 1].id}
      <4>1. k \in 1 .. c /\ k - 1 \in 1 .. c /\ 1 \in 1 .. c /\ k # 1 /\ i - 1 = w + (k - 1) - 1
        BY <2>4, <3>6
      <4>2. order[k] # 1
        BY <2>6, <3>1, <4>1
      <4>3. ps[i].deps = {UnitId(order[k - 1])}
        BY <2>8, <3>6, <4>1, <4>2 DEF ChapterDeps
      <4> QED BY <2>8, <4>1, <4>3
    <3>7. ASSUME NEW j \in 1 .. l, w < j, i = j + c - 1 PROVE ps[i].deps = {ps[i - 1].id}
      <4>1. j \in 2 .. l /\ j - 1 \in 1 .. l /\ w \in 1 .. l
        BY <2>4, <3>7
      <4>2. ps[i].deps = {IF d = WritePhase THEN UnitId(order[c]) ELSE d : d \in {plan[j - 1].id}}
        BY <2>9, <3>2, <3>7, <4>1
      <4>3. CASE j = w + 1
        <5>1. c \in 1 .. c /\ i - 1 = w + c - 1 /\ j - 1 = w
          BY <2>4, <3>7, <4>3
        <5> QED BY <2>2, <2>8, <4>2, <5>1
      <4>4. CASE j # w + 1
        <5>1. w < j - 1 /\ j - 1 # w /\ i - 1 = (j - 1) + c - 1
          BY <2>4, <3>7, <4>4
        <5>2. plan[j - 1].id # WritePhase
          BY <1>1, <1>2, <2>2, <4>1, <5>1 DEF l
        <5> QED BY <2>9, <4>1, <4>2, <5>1, <5>2
      <4> QED BY <4>3, <4>4
    <3>8. i > w /\ i < w + c => \E k \in 2 .. c : i = w + k - 1
      <4>1. i > w /\ i < w + c => i - w + 1 \in 2 .. c /\ i = w + (i - w + 1) - 1
        BY <2>4
      <4> QED BY <4>1
    <3>9. i >= w + c => \E j \in 1 .. l : w < j /\ i = j + c - 1
      <4>1. i >= w + c => i - c + 1 \in 1 .. l /\ w < i - c + 1 /\ i = (i - c + 1) + c - 1
        BY <2>4
      <4> QED BY <4>1
    <3>10. i < w \/ i = w \/ (i > w /\ i < w + c) \/ i >= w + c
      BY <2>4
    <3> QED BY <3>4, <3>5, <3>6, <3>7, <3>8, <3>9, <3>10
  <2> QED BY <2>1, <2>12, <2>13, <2>14
<1> QED BY <1>6, <1>7

Chain == mode = "pipeline" \/ (mode = "dag" /\ Linear(specs) /\ HasFirst(phases))

\* A plan that is a chain is compiled to a pipeline, expanded or not, unless the
\* skeleton lacks its first unit.
Shape ==
  /\ IsList(phases) /\ Distinct(phases)
  /\ Chain => mode = "pipeline"

InTurn ==
  Chain => \A j \in 2 .. Len(phases) :
             state[phases[j].id] # "waiting" => state[phases[j - 1].id] = "done"

UpToDate == Chain => \A p \in Ids : state[p] = "curating" => snap[p] = ctx

ChainInv == StoryInv /\ Shape /\ InTurn /\ UpToDate

LEMMA Positions ==
  ASSUME IsList(phases)
  PROVE  Len(phases) \in Nat /\ DOMAIN phases = 1 .. Len(phases)
BY DEF IsList

\* In a chain, all that is before a phase that has begun is done.
LEMMA BeforeIsDone ==
  ASSUME Chain, Shape, InTurn,
         NEW j \in DOMAIN phases, NEW i \in DOMAIN phases, i < j,
         state[phases[j].id] # "waiting"
  PROVE  state[phases[i].id] = "done"
<1> DEFINE n == Len(phases)
<1>1. n \in Nat /\ DOMAIN phases = 1 .. n
  BY Positions DEF Shape
<1>2. \A k \in 2 .. n : state[phases[k].id] # "waiting" => state[phases[k - 1].id] = "done"
  BY DEF InTurn
<1> HIDE DEF n
<1> DEFINE Skipped == {k \in Nat : k < j /\ state[phases[j - k].id] # "done" /\ 0 < k /\ 0 < j - k}
<1>3. SUFFICES ASSUME state[phases[i].id] # "done" PROVE FALSE
  OBVIOUS
<1>4. i \in Nat /\ j \in Nat /\ 0 < i /\ j <= n
  BY <1>1
<1>5. j - i \in Skipped
  <2>1. j - i \in Nat /\ 0 < j - i /\ j - i < j /\ j - (j - i) = i
    BY <1>4
  <2> QED BY <1>3, <1>4, <2>1
<1>6. PICK k \in Skipped : \A l \in Skipped : k <= l
  <2>1. Skipped \in SUBSET Nat /\ Skipped # {}
    BY <1>5
  <2> HIDE DEF Skipped
  <2> QED BY <2>1, NatLeast
<1>7. k \in Nat /\ k < j /\ 0 < k /\ 0 < j - k /\ state[phases[j - k].id] # "done"
  OBVIOUS
<1> DEFINE m == j - k + 1
<1>8. m \in 2 .. n /\ m - 1 = j - k
  BY <1>1, <1>4, <1>7
<1>9. state[phases[m].id] # "waiting"
  <2>1. CASE k = 1
    <3>1. m = j
      BY <1>4, <2>1
    <3> QED BY <3>1
  <2>2. CASE k # 1
    <3>1. k - 1 \in Nat /\ k - 1 < j /\ 0 < k - 1 /\ 0 < j - (k - 1) /\ ~(k <= k - 1)
          /\ j - (k - 1) = m
      BY <1>4, <1>7, <2>2
    <3>2. ~(k - 1 \in Skipped)
      BY <1>6, <3>1
    <3>3. state[phases[m].id] = "done"
      BY <3>1, <3>2
    <3> QED BY <3>3
  <2> QED BY <2>1, <2>2
<1> HIDE DEF m
<1> QED BY <1>2, <1>7, <1>8, <1>9

\* At most one phase of a chain has begun and is not done.
LEMMA OneAtATime ==
  ASSUME Chain, Shape, InTurn, NEW p \in Ids, NEW q \in Ids,
         state[p] \notin {"waiting", "done"}, state[q] \notin {"waiting", "done"}
  PROVE  p = q
<1>1. PICK i \in DOMAIN phases, j \in DOMAIN phases : p = phases[i].id /\ q = phases[j].id
  BY DEF Ids
<1>2. i \in Int /\ j \in Int
  BY Positions DEF Shape
<1>3. ~(i < j) /\ ~(j < i)
  BY <1>1, BeforeIsDone
<1> QED BY <1>1, <1>2, <1>3

\* A phase of a chain other than the first waits for the one before it.
LEMMA OneBehind ==
  ASSUME Chain, Shape, NEW j \in 2 .. Len(phases)
  PROVE  Behind(phases[j].id) = {phases[j - 1].id}
<1>1. mode = "pipeline" /\ Distinct(phases)
  BY DEF Shape
<1>2. {k \in 2 .. Len(phases) : phases[k].id = phases[j].id} = {j}
  <2>1. DOMAIN phases = 1 .. Len(phases) /\ Len(phases) \in Nat
    BY Positions DEF Shape
  <2>2. \A k \in 2 .. Len(phases) : k \in DOMAIN phases
    BY <2>1
  <2> QED BY <1>1, <2>2 DEF Distinct
<1> QED BY <1>1, <1>2 DEF Behind

LEMMA InitChainInv == WritingInit => ChainInv
<1> SUFFICES ASSUME WritingInit PROVE ChainInv
  OBVIOUS
<1>1. phases = <<>> /\ DOMAIN phases = {} /\ Len(phases) = 0 /\ Ids = {}
  BY DEF WritingInit, Ids
<1>2. Shape
  BY <1>1 DEF Shape, IsList, Distinct, Chain, HasFirst
<1> QED BY <1>1, <1>2, InitStoryInv DEF ChainInv, InTurn, UpToDate

LEMMA NextChainInv == ChainInv /\ [WritingNext]_writingVars => ChainInv'
<1> SUFFICES ASSUME ChainInv, [WritingNext]_writingVars PROVE ChainInv'
  OBVIOUS
<1> USE DEF ChainInv
<1>0. StoryInv'
  BY NextStoryInv
<1>1. ASSUME UNCHANGED <<mode, specs, phases>>
      PROVE  Shape' /\ Chain' = Chain /\ Ids' = Ids
  BY <1>1 DEF Ids, Chain, Shape, HasFirst, Linear, IsList, Distinct
<1>2. ASSUME UNCHANGED <<mode, specs, phases>>,
             \A p \in Ids : state[p] = "waiting" => state'[p] = "waiting",
             \A p \in Ids : state[p] = "done" => state'[p] = "done"
      PROVE  InTurn'
  <2>1. ASSUME Chain, NEW j \in 2 .. Len(phases), state'[phases[j].id] # "waiting"
        PROVE  state'[phases[j - 1].id] = "done"
    <3>1. phases[j].id \in Ids /\ phases[j - 1].id \in Ids
      <4>1. j \in DOMAIN phases /\ j - 1 \in DOMAIN phases
        BY Positions DEF Shape
      <4> QED BY <4>1 DEF Ids
    <3> QED BY <1>2, <2>1, <3>1 DEF InTurn
  <2> QED BY <1>1, <1>2, <2>1 DEF InTurn
<1>3. ASSUME UNCHANGED <<mode, specs, phases, snap, ctx>>,
             \A p \in Ids : state'[p] = "curating" => state[p] = "curating"
      PROVE  UpToDate'
  BY <1>1, <1>3 DEF UpToDate
<1>4. DOMAIN state = Ids /\ DOMAIN snap = Ids
  BY DEF StoryInv, Copies
<1>5. CASE UNCHANGED writingVars
  BY <1>0, <1>1, <1>2, <1>3, <1>5 DEF writingVars
<1>6. CASE PlanSkeleton
  <2>1. PICK plan \in Plans, listed \in Outlines \cup {Fallback} :
          specs' = plan /\ phases' = Expand(plan, Clamped(listed))
    BY <1>6 DEF PlanSkeleton
  <2>2. Clamped(listed) \in SUBSET (1 .. TotalUnits)
    BY DEF Clamped
  <2>3. /\ IsList(phases') /\ Distinct(phases')
        /\ Linear(specs') /\ HasFirst(phases') => Linear(phases')
    BY <2>1, <2>2, Expanded
  <2>4. mode' = "dag" => ~Linear(phases')
    BY <1>6 DEF PlanSkeleton, Topology
  <2>5. Shape'
    BY <2>3, <2>4 DEF Shape, Chain, HasFirst, Linear, IsList, Distinct
  <2>6. \A p \in Ids' : state'[p] = "waiting"
    BY <1>6 DEF PlanSkeleton, Ids
  <2>7. InTurn'
    <3>1. \A j \in DOMAIN phases' : state'[phases'[j].id] = "waiting"
      BY <2>6 DEF Ids
    <3>2. \A j \in 2 .. Len(phases') : j \in DOMAIN phases'
      <4>1. DOMAIN phases' = 1 .. Len(phases') /\ Len(phases') \in Nat
        BY <2>3 DEF IsList
      <4> QED BY <4>1
    <3> QED BY <3>1, <3>2 DEF InTurn
  <2> QED BY <1>0, <2>5, <2>6, <2>7 DEF UpToDate
<1>7. CASE Ingest
  <2>1. UNCHANGED <<mode, specs, phases, state, snap>> /\ \A p \in Ids : state[p] = "waiting"
    BY <1>7 DEF Ingest
  <2>2. UpToDate'
    BY <1>1, <2>1 DEF UpToDate
  <2> QED BY <1>0, <1>1, <1>2, <2>1, <2>2
<1>8. CASE DispatchPhases
  <2>1. PICK B : B = {p \in Ids : Due(p)} /\ state' = [p \in Ids |-> IF p \in B THEN "writing" ELSE state[p]]
    BY <1>8 DEF DispatchPhases
  <2>2. UNCHANGED <<mode, specs, phases, snap, ctx>>
    BY <1>8 DEF DispatchPhases
  <2>3. ASSUME Chain, NEW j \in 2 .. Len(phases), state'[phases[j].id] # "waiting"
        PROVE  state'[phases[j - 1].id] = "done"
    <3>1. phases[j].id \in Ids /\ phases[j - 1].id \in Ids
      <4>1. j \in DOMAIN phases /\ j - 1 \in DOMAIN phases
        BY Positions DEF Shape
      <4> QED BY <4>1 DEF Ids
    <3>2. state[phases[j - 1].id] = "done"
      <4>1. CASE phases[j].id \in B
        BY <2>1, <2>3, <4>1, OneBehind DEF Due
      <4>2. CASE phases[j].id \notin B
        BY <2>1, <2>3, <3>1, <4>2 DEF InTurn
      <4> QED BY <4>1, <4>2
    <3>3. ~Due(phases[j - 1].id)
      BY <3>2 DEF Due
    <3> QED BY <2>1, <3>1, <3>2, <3>3
  <2>4. InTurn'
    BY <1>1, <2>2, <2>3 DEF InTurn
  <2>5. UpToDate'
    BY <1>3, <2>1, <2>2
  <2> QED BY <1>0, <1>1, <2>2, <2>4, <2>5
<1>9. ASSUME NEW p \in Ids, Fail(p) \/ Curate(p) \/ CuratorFails(p) \/ Curated(p)
      PROVE  ChainInv'
  <2>1. UNCHANGED <<mode, specs, phases>>
    BY <1>9 DEF Fail, Curate, Curated, CuratorFails
  <2>2. /\ state[p] \in {"writing", "curating"}
        /\ \A q \in Ids : q # p => state'[q] = state[q] /\ snap'[q] = snap[q]
    BY <1>4, <1>9 DEF Fail, Curate, Curated, CuratorFails, CurateEnds
  <2>3. InTurn'
    BY <1>2, <2>1, <2>2
  <2>4. UpToDate'
    <3>1. CASE Curated(p)
      <4>1. state[p] = "curating" /\ state'[p] = "written"
        BY <1>4, <3>1 DEF Curated, CurateEnds
      <4>2. ASSUME Chain, NEW q \in Ids PROVE state'[q] # "curating"
        BY <2>2, <4>1, <4>2, OneAtATime
      <4> QED BY <1>1, <2>1, <4>2 DEF UpToDate
    <3>2. CASE ~Curated(p)
      <4>1. UNCHANGED ctx
        BY <1>9, <3>2 DEF Fail, Curate, CuratorFails
      <4>2. state'[p] = "curating" => snap'[p] = ctx
        BY <1>4, <1>9, <3>2 DEF Fail, Curate, CuratorFails, CurateEnds
      <4>3. ASSUME Chain, NEW q \in Ids, state'[q] = "curating" PROVE snap'[q] = ctx'
        BY <2>2, <4>1, <4>2, <4>3 DEF UpToDate
      <4> QED BY <1>1, <2>1, <4>3 DEF UpToDate
    <3> QED BY <3>1, <3>2
  <2> QED BY <1>0, <1>1, <2>1, <2>3, <2>4
<1>10. ASSUME NEW p \in Ids, GateEnds(p) PROVE ChainInv'
  <2>1. UNCHANGED <<mode, specs, phases, snap, ctx>>
    BY <1>10 DEF GateEnds
  <2>2. \A q \in Ids : /\ state[q] = "waiting" => state'[q] = "waiting"
                       /\ state[q] = "done" => state'[q] = "done"
                       /\ state'[q] = "curating" => state[q] = "curating"
    BY <1>4, <1>10 DEF GateEnds
  <2> QED BY <1>0, <1>1, <1>2, <1>3, <2>1, <2>2
<1> QED BY <1>4, <1>5, <1>6, <1>7, <1>8, <1>9, <1>10 DEF WritingNext

\* Where phases run one by one, a thread that was resolved stays resolved and
\* the run does not return to an earlier unit, for any number of units, for any
\* phases beside the chapters, and whatever fails or is sent back.
THEOREM NotedForGood == WritingSpec => ResolvedStays
<1> DEFINE Kept ==
      (mode = "pipeline" \/ (mode = "dag" /\ Linear(specs) /\ HasFirst(phases))) =>
        /\ ctx'.unit >= ctx.unit
        /\ \A t \in Threads : ctx.threads[t] = "resolved" => ctx'.threads[t] = "resolved"
<1>1. ChainInv /\ [WritingNext]_writingVars => [Kept]_writingVars
  <2> SUFFICES ASSUME ChainInv, [WritingNext]_writingVars, Chain
               PROVE  /\ ctx'.unit >= ctx.unit
                      /\ \A t \in Threads : ctx.threads[t] = "resolved" => ctx'.threads[t] = "resolved"
    BY DEF Chain
  <2>1. ctx.unit \in Nat
    BY DEF ChainInv, StoryInv, Consistent
  <2>2. CASE UNCHANGED ctx
    BY <2>1, <2>2
  <2>3. CASE Ingest
    <3>1. ctx.unit = 1 /\ \A t \in Threads : ctx.threads[t] = "planned"
      BY <2>3 DEF Ingest, Blank
    <3>2. PICK g \in Ingested : ctx'.unit = g.unit
      BY <2>3 DEF Ingest
    <3>3. g.unit \in Nat \ {0}
      BY WritingAssumption
    <3> QED BY <3>1, <3>2, <3>3
  <2>4. ASSUME NEW p \in DOMAIN state, Curated(p)
        PROVE  /\ ctx'.unit >= ctx.unit
               /\ \A t \in Threads : ctx.threads[t] = "resolved" => ctx'.threads[t] = "resolved"
    <3>1. snap[p] = ctx
      BY <2>4 DEF Curated, ChainInv, StoryInv, Copies, UpToDate
    <3>2. PICK said : ctx' = Completed(ctx, said)
      BY <2>4, <3>1 DEF Curated, WriteBack
    <3>3. ctx'.unit = ctx.unit + 1
      BY <3>2 DEF Completed
    <3>4. ASSUME NEW t \in Threads, ctx.threads[t] = "resolved" PROVE ctx'.threads[t] = "resolved"
      <4>1. CASE tracked
        <5>1. ctx'.threads[t] = Overdue(t, ctx.unit, Declared("resolved", said[t]))
          BY <3>2, <3>4, <4>1 DEF Completed
        <5>2. Declared("resolved", said[t]) = "resolved"
          BY DEF Declared
        <5> QED BY <5>1, <5>2 DEF Overdue
      <4>2. CASE ~tracked
        BY <3>2, <3>4, <4>2 DEF Completed
      <4> QED BY <4>1, <4>2
    <3> QED BY <2>1, <3>3, <3>4
  <2> QED BY <2>2, <2>3, <2>4
          DEF WritingNext, writingVars, PlanSkeleton, DispatchPhases, Fail, Curate, CuratorFails, GateEnds
<1> QED BY <1>1, InitChainInv, NextChainInv, PTL DEF WritingSpec, ResolvedStays

===============================================================================
