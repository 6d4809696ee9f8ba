------------------------------- MODULE EventFeed -------------------------------
(***************************************************************************)
(* What a client of the event stream sees: EventBus (core/events), one per *)
(* process, with a ring buffer of numbered events for clients that come    *)
(* back, and the Redis bridge that hands the events of one process to the  *)
(* clients of the others.  The route that serves a client is not among the *)
(* sources: it is taken to subscribe and replay in one step and to send    *)
(* what is in the queue in order.                                          *)
(***************************************************************************)
EXTENDS Naturals, Sequences, FiniteSets, SequencesExt

CONSTANTS
  Process, BufferSize, QueueSize,
  MaxEvents,   \* bound of the events
  MaxRestart,  \* bound of the restarts
  Nobody

ASSUME FeedAssumption ==
  /\ BufferSize \in Nat \ {0} /\ QueueSize \in Nat /\ MaxEvents \in Nat /\ MaxRestart \in Nat
  /\ Nobody \notin Process

VARIABLES
  born,     \* the number of events so far
  seq,      \* process -> _seq
  recent,   \* process -> _recent[the client's project], the ids in the ring buffer
  relayed,  \* [to, event, of]: published and not yet delivered to the other process
  home,     \* the process the client is connected to, or Nobody
  since,    \* the process its ids are from, or Nobody before it first connects
  queue,    \* its queue of ids
  seen,     \* the ids it has received
  gone,     \* the ids it does not get: another project's, or lost on the way to it
  restarts

feedVars == <<born, seq, recent, relayed, home, since, queue, seen, gone, restarts>>

\* what an event is of: the client's project, no project at all, another project
Of == {"project", "all", "other"}

FeedInit ==
  /\ born = 0 /\ seq = [p \in Process |-> 0] /\ recent = [p \in Process |-> <<>>]
  /\ relayed = {} /\ home = Nobody /\ since = Nobody
  /\ queue = <<>> /\ seen = <<>> /\ gone = {} /\ restarts = 0

LastSeen == IF seen = <<>> THEN 0 ELSE Last(seen)

Pushed(buffer, id) ==
  IF Len(buffer) < BufferSize THEN Append(buffer, id) ELSE Append(Tail(buffer), id)

\* Every event takes a number; the project's are kept in the ring whether or not
\* anyone listens, an event of no project is only handed to who is connected,
\* and a queue that is full loses it (a replay may have left it more than full).
\* An id in the ring can still come to a client that is away.
MutDeliverLocal(p, of) ==
  LET id == seq[p] + 1
      queued == home = p /\ of # "other" /\ Len(queue) < QueueSize
  IN  /\ seq' = [seq EXCEPT ![p] = id]
      /\ recent' = IF home = p /\ of = "project" THEN [recent EXCEPT ![p] = Pushed(@, id)] ELSE recent
      /\ queue' = IF queued THEN Append(queue, id) ELSE queue
      /\ gone' = IF since = p /\ ~queued /\ (home = p \/ of # "project") THEN gone \cup {id} ELSE gone

DeliverLocal(p, of) ==
  LET id == seq[p] + 1
      queued == home = p /\ of # "other" /\ Len(queue) < QueueSize
  IN  /\ seq' = [seq EXCEPT ![p] = id]
      /\ recent' = IF of = "project" THEN [recent EXCEPT ![p] = Pushed(@, id)] ELSE recent
      /\ queue' = IF queued THEN Append(queue, id) ELSE queue
      /\ gone' = IF since = p /\ ~queued /\ (home = p \/ of # "project") THEN gone \cup {id} ELSE gone

\* broadcast: to the clients here, and through Redis to the others; a publish
\* that fails is logged.
Broadcast(p) ==
  /\ born < MaxEvents
  /\ born' = born + 1
  /\ \E of \in Of, published \in BOOLEAN :
       /\ DeliverLocal(p, of)
       /\ relayed' = relayed \cup
            {[to |-> q, event |-> born', of |-> of] : q \in IF published THEN Process \ {p} ELSE {}}
  /\ UNCHANGED <<home, since, seen, restarts>>

\* RedisSSEBridge._listen: under a number of this process
Relay(m) ==
  /\ relayed' = relayed \ {m}
  /\ DeliverLocal(m.to, m.of)
  /\ UNCHANGED <<born, home, since, seen, restarts>>

\* replay_since: what the ring still has after the last id the client names
After(ring, last) ==
  LET kept[i \in 0..Len(ring)] ==
        IF i = 0 THEN <<>>
        ELSE IF ring[i] > last THEN Append(kept[i - 1], ring[i]) ELSE kept[i - 1]
  IN  kept[Len(ring)]

ReplaySince(p, last) == After(recent[p], last)

\* A client that comes for the first time names no id and hears what is next.
Connect(p) ==
  /\ home = Nobody /\ since \in {Nobody, p}
  /\ home' = p /\ since' = p
  /\ queue' = IF since = Nobody THEN <<>> ELSE ReplaySince(p, LastSeen)
  /\ gone' = IF since = Nobody THEN 1..seq[p]
             ELSE gone \cup {id \in 1..seq[p] : recent[p] # <<>> /\ id < Head(recent[p])}
  /\ UNCHANGED <<born, seq, recent, relayed, seen, restarts>>

Receive ==
  /\ home # Nobody /\ queue # <<>>
  /\ seen' = Append(seen, Head(queue)) /\ queue' = Tail(queue)
  /\ UNCHANGED <<born, seq, recent, relayed, home, since, gone, restarts>>

\* The connection breaks; what is in the queue was not received, and only the
\* ring can tell it again.
Disconnect ==
  /\ home # Nobody
  /\ home' = Nobody /\ queue' = <<>>
  /\ gone' = gone \cup (ToSet(queue) \ ToSet(recent[home]))
  /\ UNCHANGED <<born, seq, recent, relayed, since, seen, restarts>>

\* The numbers of a process start again, and its clients start anew.  (A client
\* that named an old id would be told nothing until the new numbers pass it.)
Restart(p) ==
  /\ restarts < MaxRestart /\ restarts' = restarts + 1
  /\ seq' = [seq EXCEPT ![p] = 0] /\ recent' = [recent EXCEPT ![p] = <<>>]
  /\ IF since = p
     THEN home' = Nobody /\ since' = Nobody /\ queue' = <<>> /\ seen' = <<>> /\ gone' = {}
     ELSE UNCHANGED <<home, since, queue, seen, gone>>
  /\ UNCHANGED <<born, relayed>>

FeedNext ==
  \/ \E p \in Process : Broadcast(p) \/ Connect(p) \/ Restart(p)
  \/ \E m \in relayed : Relay(m)
  \/ Receive \/ Disconnect

FeedSpec == FeedInit /\ [][FeedNext]_feedVars
-------------------------------------------------------------------------------

\* A client that stays with one process receives its events in order, none
\* twice, and of its project's events misses none but those a full queue or the
\* turning ring took; the events of no project it misses too while it is away.
\* Whatever lies before the last event it has received, and whatever is not in
\* its queue while it is connected, was received, is gone or is another project's.
FeedHasNoGap ==
  /\ \A i \in 1..Len(seen) - 1 : seen[i] < seen[i + 1]
  /\ \A id \in 1..LastSeen : id \in ToSet(seen) \cup gone
  /\ home # Nobody => \A id \in 1..seq[home] : id \in ToSet(seen) \cup ToSet(queue) \cup gone
===============================================================================
