------------------------------ MODULE Conversation ------------------------------
(***************************************************************************)
(* The dialogues that agents of a batch hold with the authors of what they *)
(* build on, before they start: on_phase_enter's acknowledgements,         *)
(* run_shared_thread_dialogue with its check for consensus, and the hand-  *)
(* over at the end.  Every execution has a ConversationBus of its own; the *)
(* table conversations, the connection and the thread of the run context   *)
(* are shared.  Hand-overs and acknowledgements go through buses that are  *)
(* thrown away, so no bus that an agent asks has ever seen one.            *)
(***************************************************************************)
EXTENDS Naturals, Sequences, FiniteSets, SequencesExt

CONSTANTS
  Speaker,      \* phases of a batch, each with an agent of its own
  Author,       \* the phase before them
  MaxRounds,    \* phase -> its dialogue_max_rounds
  MaxEntries,   \* bound: phase -> how often it is entered, once and after each verdict of its gate
  MaxRollbacks, \* bound
  CharOverlap,  \* phase -> how alike its question and answer are, in percent
  WordOverlap   \* phase -> the same, word by word

VARIABLES
  says,       \* phase -> "idle", "ask", "asking", "answer", "answering", "conclude", "work",
              \* "done", "failed"
  entries,    \* phase -> how often it was entered
  round,      \* phase -> round_idx + 1
  partner,    \* phase -> whose hand-over it talks about
  mine,       \* phase -> the id of the row it has inserted
  question,   \* phase -> the id of the question that waits for its answer
  history,    \* phase -> bus.history, as ids
  messages,   \* the table conversations; a row's id is its place
  committed,  \* how many of them are committed
  handovers,  \* the phases that handed over, in the order of the thread
  verdicts,   \* the cached verdicts of the consensus check
  agreed,     \* roundtable_state.consensus_reached
  rollbacks

conversationVars == <<says, entries, round, partner, mine, question, history, messages, committed,
                      handovers, verdicts, agreed, rollbacks>>

ConversationInit ==
  /\ says = [p \in Speaker |-> "idle"] /\ entries = [p \in Speaker |-> 0]
  /\ round = [p \in Speaker |-> 1] /\ partner = [p \in Speaker |-> Author]
  /\ mine = [p \in Speaker |-> 0] /\ question = [p \in Speaker |-> 0]
  /\ history = [p \in Speaker |-> << >>]
  /\ messages = << >> /\ committed = 0 /\ handovers = <<Author>>
  /\ verdicts = {} /\ agreed = FALSE /\ rollbacks = 0

Say(p, s) == says' = [says EXCEPT ![p] = s]

\* find_pending_handoff: the last hand-over that is directed to the phase's
\* agent or to all, and not its own.
PendingHandoff(p) == Last(SelectSeq(handovers, LAMBDA q : q # p))

\* A phase starts, or starts again; agents of one batch hand over to all.
EnterDialogue(p) ==
  /\ says[p] = "idle"
  /\ Say(p, "ask")
  /\ entries' = [entries EXCEPT ![p] = @ + 1]
  /\ round' = [round EXCEPT ![p] = 1]
  /\ partner' = [partner EXCEPT ![p] = PendingHandoff(p)]
  /\ history' = [history EXCEPT ![p] = << >>]
  /\ UNCHANGED <<mine, question, messages, committed, handovers, verdicts, agreed, rollbacks>>
-------------------------------------------------------------------------------
(* send: insert, commit, and only then the bus's history and the events. *)

Message(p) ==
  IF says[p] = "ask"
    THEN [kind |-> "question", phase |-> p, entry |-> entries[p], round |-> round[p],
          by |-> p, to |-> partner[p], parent |-> 0]
    ELSE [kind |-> "answer", phase |-> p, entry |-> entries[p], round |-> round[p],
          by |-> partner[p], to |-> p, parent |-> question[p]]

Insert(p) ==
  /\ says[p] \in {"ask", "answer"}
  /\ messages' = Append(messages, Message(p))
  /\ mine' = [mine EXCEPT ![p] = Len(messages) + 1]
  /\ Say(p, IF says[p] = "ask" THEN "asking" ELSE "answering")
  /\ UNCHANGED <<entries, round, partner, question, history, committed, handovers,
                 verdicts, agreed, rollbacks>>

MutOwnId(p) == Len(messages)

\* cursor.lastrowid
OwnId(p) == mine[p]

\* run_shared_thread_dialogue: a question, its answer, and so on.
Proceed(p) ==
  IF says[p] = "asking"
    THEN /\ question' = [question EXCEPT ![p] = OwnId(p)]
         /\ Say(p, "answer") /\ UNCHANGED round
    ELSE /\ Say(p, IF round[p] = MaxRounds[p] THEN "conclude" ELSE "ask")
         /\ round' = [round EXCEPT ![p] = IF @ = MaxRounds[p] THEN @ ELSE @ + 1]
         /\ UNCHANGED question

\* The commit saves whatever the connection has open.  (The full-text index
\* is written after it; what fails there is ignored.)
Commit(p) ==
  /\ says[p] \in {"asking", "answering"}
  /\ committed' = Len(messages)
  /\ history' = [history EXCEPT ![p] = Append(@, OwnId(p))]
  /\ Proceed(p)
  /\ UNCHANGED <<entries, partner, mine, messages, handovers, verdicts, agreed, rollbacks>>

\* A statement fails: nothing on the way to the node's executor catches it.
Break(p) ==
  /\ says[p] \in {"ask", "asking", "answer", "answering"}
  /\ Say(p, "failed")
  /\ UNCHANGED <<entries, round, partner, mine, question, history, messages, committed, handovers,
                 verdicts, agreed, rollbacks>>

\* Another task of the process rolls the connection back.
TalkRolledBack ==
  /\ committed < Len(messages) /\ rollbacks < MaxRollbacks
  /\ messages' = SubSeq(messages, 1, committed)
  /\ rollbacks' = rollbacks + 1
  /\ UNCHANGED <<says, entries, round, partner, mine, question, history, committed, handovers,
                 verdicts, agreed>>
-------------------------------------------------------------------------------
(* has_consensus_async over what each side said last. *)

FastPath == 85
Threshold == 70

\* Whether a phase that is entered again hears what it heard before: the fixed
\* wordings, which stand in for a model that fails, are the same each time; a
\* model may say something else.
SaidAgain(p) == IF entries[p] = 1 THEN {FALSE} ELSE BOOLEAN

\* The cache holds a verdict per topic and statements.
Cached(p, same) == {v \in verdicts : same /\ v.phase = p /\ v.entry < entries[p]}

CacheEntry(p, reached) == [phase |-> p, entry |-> entries[p], reached |-> reached]

\* From the cache; at once if the texts are nearly the same; by the model; or,
\* when that fails, word by word, which is not cached.
CheckConsensus(p, same, reached, cached) ==
  \/ /\ Cached(p, same) # {}
     /\ \E v \in Cached(p, same) : reached = v.reached
     /\ ~cached
  \/ /\ Cached(p, same) = {} /\ CharOverlap[p] >= FastPath
     /\ reached /\ cached
  \/ /\ Cached(p, same) = {} /\ CharOverlap[p] < FastPath
     /\ cached \/ reached = (WordOverlap[p] >= Threshold)

\* Constraints are extracted and confirmed (Negotiation); then the check.  One
\* flag serves all dialogues of the run, and nothing takes it back.
Conclude(p) ==
  /\ says[p] = "conclude"
  /\ \E same \in SaidAgain(p), reached, cached \in BOOLEAN :
       /\ CheckConsensus(p, same, reached, cached)
       /\ agreed' = (agreed \/ reached)
       /\ verdicts' = IF cached THEN verdicts \cup {CacheEntry(p, reached)} ELSE verdicts
  /\ Say(p, "work")
  /\ UNCHANGED <<entries, round, partner, mine, question, history, messages, committed, handovers,
                 rollbacks>>

\* on_phase_complete: the hand-over is in the thread whether or not it is sent.
HandOver(p) ==
  /\ says[p] = "work"
  /\ Say(p, "done")
  /\ handovers' = Append(handovers, p)
  /\ UNCHANGED <<entries, round, partner, mine, question, history, messages, committed,
                 verdicts, agreed, rollbacks>>

\* The phase's gate sends it back.
SendBack(p) ==
  /\ says[p] = "done" /\ entries[p] < MaxEntries[p]
  /\ Say(p, "idle")
  /\ UNCHANGED <<entries, round, partner, mine, question, history, messages, committed, handovers,
                 verdicts, agreed, rollbacks>>

ConversationNext ==
  \/ TalkRolledBack
  \/ \E p \in Speaker : \/ EnterDialogue(p) \/ Insert(p) \/ Commit(p) \/ Break(p)
                        \/ Conclude(p) \/ HandOver(p) \/ SendBack(p)

ConversationSpec == ConversationInit /\ [][ConversationNext]_conversationVars
-------------------------------------------------------------------------------
Answers(i, j) ==
  /\ messages[i].kind = "answer" /\ messages[j].kind = "question"
  /\ messages[i].phase = messages[j].phase /\ messages[i].entry = messages[j].entry
  /\ messages[i].round = messages[j].round
  /\ messages[i].by = messages[j].to /\ messages[i].to = messages[j].by

\* Unless the connection was rolled back under it, an answer in the table
\* hangs on the question it answers, though dialogues of the batch interleave
\* between every insert and its commit; and every committed question of a
\* dialogue that went through has an answer.
AnswersThread ==
  rollbacks = 0 =>
    /\ \A i \in DOMAIN messages : messages[i].kind = "answer" =>
         messages[i].parent \in DOMAIN messages /\ Answers(i, messages[i].parent)
    /\ \A p \in Speaker : says[p] \in {"conclude", "work", "done"} =>
         \A j \in Range(history[p]) : messages[j].kind = "question" =>
           \E i \in Range(history[p]) : Answers(i, j) /\ messages[i].parent = j

\* (Not so.) The same with rollbacks: an id is given out again.
AnswersThreadAlways ==
  \A i \in DOMAIN messages : messages[i].kind = "answer" =>
    messages[i].parent \in DOMAIN messages /\ Answers(i, messages[i].parent)

\* (Not so.) A phase talks with the author of what it builds on: sent back, it
\* takes the last hand-over to all, which may be that of its neighbour.
TalksWithAuthor == \A p \in Speaker : partner[p] = Author
================================================================================
