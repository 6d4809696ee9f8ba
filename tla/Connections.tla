----------------------------- MODULE Connections -----------------------------
(***************************************************************************)
(* The one SQLite connection of a process (core/storage/database.py), as   *)
(* the coroutines of an event loop ask for it: it is made on demand,       *)
(* probed when two minutes have passed, and made anew when the probe fails.*)
(* A step is what a coroutine does between two awaits.  The global _db is  *)
(* read again after each of them, as in the code.                          *)
(***************************************************************************)
EXTENDS Naturals, FiniteSets

CONSTANTS
  Client,     \* the coroutines
  NoClient,
  MaxOpen,    \* bound of the connections made
  MaxBreaks,  \* bound of the connections that break
  MaxFails    \* bound of the set-ups that fail by themselves

ASSUME ConnectionsAssumption ==
  /\ NoClient \notin Client
  /\ MaxOpen \in Nat /\ MaxBreaks \in Nat /\ MaxFails \in Nat

VARIABLES
  db,      \* _db: a connection, or 0 for None
  opened,  \* the connections made: 1..opened
  health,  \* connection -> open, broken, closing or closed
  due,     \* more than 120 s since _db_last_health_check
  lock,    \* who holds _conn_lock
  place,   \* client -> where it is
  waits,   \* client -> the connection it waits for
  got,     \* client -> what get_db returned last: a connection, 0 for None
  breaks, fails

connectionVars == <<db, opened, health, due, lock, place, waits, got, breaks, fails>>

\* time.monotonic() - 0.0 is over 120 from the start
ConnectionsInit ==
  /\ db = 0 /\ opened = 0 /\ health = [k \in 1..MaxOpen |-> "open"] /\ due = TRUE
  /\ lock = NoClient /\ place = [c \in Client |-> "idle"] /\ waits = [c \in Client |-> 0]
  /\ got = [c \in Client |-> {}] /\ breaks = 0 /\ fails = 0

At(c, where) == place' = [place EXCEPT ![c] = where]

Return(c, k) == At(c, "idle") /\ got' = [got EXCEPT ![c] = {k}]

\* From "if _db is None" to the next await: the lock, if it is free, is had
\* without waiting, and then the second look sees what the first saw.
Continue(c, k) ==
  \/ k # 0 /\ Return(c, k) /\ UNCHANGED lock
  \/ k = 0 /\ lock = NoClient /\ lock' = c /\ At(c, "connect") /\ UNCHANGED got
  \/ k = 0 /\ lock # NoClient /\ At(c, "wait") /\ UNCHANGED <<lock, got>>

\* get_db
Get(c) ==
  /\ place[c] = "idle"
  /\ IF db # 0 /\ due
     THEN At(c, "probe") /\ waits' = [waits EXCEPT ![c] = db] /\ UNCHANGED <<lock, got>>
     ELSE Continue(c, db) /\ UNCHANGED waits
  /\ UNCHANGED <<db, opened, health, due, breaks, fails>>

\* _liveness_check returns.  A query that waits behind a close may be answered
\* or refused.  What is closed is _db, which need not be what was probed.
ProbeReturns(c) ==
  /\ place[c] = "probe" /\ due' = FALSE
  /\ \/ /\ health[waits[c]] \in {"open", "closing"}
        /\ Continue(c, db) /\ UNCHANGED <<health, waits>>
     \/ /\ health[waits[c]] # "open" /\ db = 0
        /\ Continue(c, 0) /\ UNCHANGED <<health, waits>>
     \/ /\ health[waits[c]] # "open" /\ db # 0
        /\ waits' = [waits EXCEPT ![c] = db]
        /\ health' = [health EXCEPT ![db] = IF @ = "closed" THEN @ ELSE "closing"]
        /\ At(c, "close") /\ UNCHANGED <<lock, got>>
  /\ UNCHANGED <<db, opened, breaks, fails>>

\* _db.close() returns; _db is None whatever it is by now
CloseReturns(c) ==
  /\ place[c] = "close"
  /\ health' = [health EXCEPT ![waits[c]] = "closed"]
  /\ db' = 0 /\ Continue(c, 0)
  /\ UNCHANGED <<opened, due, waits, breaks, fails>>

\* The lock is had after a wait, and _db looked at for the second time.
MutAcquire(c) ==
  /\ place[c] = "wait" /\ lock = NoClient
  /\ lock' = c /\ At(c, "connect")
  /\ UNCHANGED <<db, opened, health, due, waits, got, breaks, fails>>

Acquire(c) ==
  /\ place[c] = "wait" /\ lock = NoClient
  /\ IF db # 0 THEN Return(c, db) /\ UNCHANGED lock
     ELSE lock' = c /\ At(c, "connect") /\ UNCHANGED got
  /\ UNCHANGED <<db, opened, health, due, waits, breaks, fails>>

\* aiosqlite.connect returns: everybody sees the connection from here on.
Connected(c) ==
  /\ place[c] = "connect" /\ opened < MaxOpen
  /\ opened' = opened + 1 /\ db' = opened' /\ waits' = [waits EXCEPT ![c] = opened']
  /\ At(c, "settings")
  /\ UNCHANGED <<health, due, lock, got, breaks, fails>>

\* _apply_pragma: only the journal mode is fatal; the others are warned of.
Settings(c) ==
  /\ place[c] = "settings" /\ due' = FALSE /\ At(c, "mode")
  /\ UNCHANGED <<db, opened, health, lock, waits, got, breaks, fails>>

\* connect or the journal mode raises.  What was opened is not closed.
SetUpFails(c) ==
  /\ \/ place[c] \in {"connect", "settings"} /\ fails < MaxFails /\ fails' = fails + 1
     \/ place[c] = "settings" /\ health[waits[c]] # "open" /\ UNCHANGED fails
  /\ db' = 0 /\ lock' = NoClient /\ At(c, "idle")
  /\ UNCHANGED <<opened, health, due, waits, got, breaks>>

\* The journal mode is read for the log, and _db is returned as it is now.
ModeReturns(c) ==
  /\ place[c] = "mode" /\ lock' = NoClient /\ Return(c, db)
  /\ UNCHANGED <<db, opened, health, due, waits, breaks, fails>>

Resumes(c) ==
  \/ ProbeReturns(c) \/ CloseReturns(c) \/ Acquire(c) \/ Connected(c) \/ Settings(c)
  \/ SetUpFails(c) \/ ModeReturns(c)

\* Two minutes pass.
Tick ==
  /\ ~due /\ due' = TRUE
  /\ UNCHANGED <<db, opened, health, lock, place, waits, got, breaks, fails>>

\* A connection fails for good.
Breaks(k) ==
  /\ health[k] = "open" /\ breaks < MaxBreaks
  /\ health' = [health EXCEPT ![k] = "broken"] /\ breaks' = breaks + 1
  /\ UNCHANGED <<db, opened, due, lock, place, waits, got, fails>>

ConnectionsNext ==
  \/ \E c \in Client : Get(c) \/ Resumes(c)
  \/ \E k \in 1..opened : Breaks(k)
  \/ Tick

ConnectionsSpec == ConnectionsInit /\ [][ConnectionsNext]_connectionVars
-------------------------------------------------------------------------------

\* As long as no connection has broken and no set-up has failed, however many
\* coroutines ask at once, there is one connection and each is given that one.
OneUndisturbed ==
  breaks = 0 /\ fails = 0 => opened <= 1 /\ \A c \in Client : got[c] \subseteq {opened} \ {0}

\* (Not so.) The process writes through one connection: no two of those it has
\* made are in order and not closed.  The code promises a "singleton, with
\* automatic recovery"; two coroutines that meet the same broken connection
\* break it.
OneWriter == Cardinality({k \in 1..opened : health[k] = "open"}) <= 1

\* (Not so.) Nobody is given None instead of a connection.
NeverNone == \A c \in Client : 0 \notin got[c]
===============================================================================
