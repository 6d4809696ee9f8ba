---------------------------- MODULE ServicesProofs ----------------------------
(***************************************************************************)
(* The services around a run, each on its own and for every value of its   *)
(* constants: a tool call is executed once (Approvals), an accepted phase  *)
(* has a file (Artifacts), a client of the event feed misses nothing       *)
(* unnoticed (EventFeed), a recorded migration is done and loses no row    *)
(* (Migrations), and coroutines share one connection (Connections).        *)
(***************************************************************************)
EXTENDS EventFeed, Approvals, Artifacts, Migrations, Connections,
        SequenceTheorems, WellFoundedInduction, TLAPS

------------------------------------------------------------------------------
(* Approvals: a tool call is executed once unless its removal was lost.    *)
(* What makes it inductive: an answered call is out of the table, or its   *)
(* removal is under way behind every registration of it (Settled), unless  *)
(* its tasks may change places, and what is registered had to ask          *)
(* (Registered).                                                           *)

Order == [op : {"register", "remove"}, call : Call]

Typed ==
  /\ up \in BOOLEAN /\ made \subseteq Call /\ pending \subseteq Call /\ table \subseteq Call
  /\ writes \in Seq(Order)
  /\ ran \in [Call -> Nat]
  /\ lost \subseteq Call /\ amid \subseteq Call

\* A process that is down has no tasks.
DownIsIdle == ~up => writes = <<>>

\* Only calls that were made and had to ask are waiting or on their way.
Registered ==
  /\ \A c \in pending \cup table : c \in made /\ Mode[c] = "ask"
  /\ \A i \in 1 .. Len(writes) : writes[i].call \in made /\ Mode[writes[i].call] = "ask"

NotMade == \A c \in Call : c \notin made => ran[c] = 0

\* The removal is behind every registration.
Removing(c) ==
  \E j \in 1 .. Len(writes) :
    /\ writes[j] = PendingWrite("remove", c)
    /\ \A i \in j .. Len(writes) : writes[i] # PendingWrite("register", c)

Gone(c) ==
  c \notin table /\ \A i \in 1 .. Len(writes) : writes[i] # PendingWrite("register", c)

Settled ==
  \A c \in Call \ (lost \cup amid) :
    Mode[c] = "ask" /\ ran[c] > 0 => c \notin pending /\ (Removing(c) \/ Gone(c))

ApprovalsInv == Typed /\ DownIsIdle /\ Registered /\ NotMade /\ Settled /\ RunsOnceUnlessLost

LEMMA WritesButOne ==
  ASSUME NEW s \in Seq(Order), NEW i \in 1 .. Len(s)
  PROVE  /\ RemoveAt(s, i) \in Seq(Order)
         /\ Len(RemoveAt(s, i)) = Len(s) - 1
         /\ \A k \in 1 .. Len(s) - 1 : RemoveAt(s, i)[k] = IF k < i THEN s[k] ELSE s[k + 1]
<1> DEFINE l == Len(s)
           a == SubSeq(s, 1, i - 1)
           b == SubSeq(s, i + 1, l)
<1>1. l \in Nat /\ i \in Nat /\ 1 <= i /\ i <= l
  BY LenProperties
<1>2. \A k \in 1 .. l : s[k] \in Order
  BY ElementOfSeq
<1> HIDE DEF l
<1>3. a \in Seq(Order) /\ Len(a) = i - 1 /\ \A k \in 1 .. i - 1 : a[k] = s[k]
  <2>1. 1 \in Int /\ i - 1 \in Int /\ \A k \in 1 .. i - 1 : s[k] \in Order
    BY <1>1, <1>2
  <2>2. /\ a \in Seq(Order) /\ Len(a) = IF 1 <= i - 1 THEN i - 1 - 1 + 1 ELSE 0
        /\ \A k \in 1 .. i - 1 - 1 + 1 : a[k] = s[1 + k - 1]
    BY <2>1, SubSeqProperties
  <2> HIDE DEF a
  <2>3. Len(a) = i - 1
    BY <1>1, <2>2
  <2>4. \A k \in 1 .. i - 1 : k \in 1 .. i - 1 - 1 + 1 /\ 1 + k - 1 = k
    BY <1>1
  <2> QED BY <2>2, <2>3, <2>4
<1>4. b \in Seq(Order) /\ Len(b) = l - i /\ \A k \in 1 .. l - i : b[k] = s[i + k]
  <2>1. i + 1 \in Int /\ l \in Int /\ \A k \in i + 1 .. l : s[k] \in Order
    BY <1>1, <1>2
  <2>2. /\ b \in Seq(Order) /\ Len(b) = IF i + 1 <= l THEN l - (i + 1) + 1 ELSE 0
        /\ \A k \in 1 .. l - (i + 1) + 1 : b[k] = s[i + 1 + k - 1]
    BY <2>1, SubSeqProperties
  <2> HIDE DEF b
  <2> QED BY <1>1, <2>2
<1> HIDE DEF a, b
<1>5. /\ a \o b \in Seq(Order) /\ Len(a \o b) = Len(a) + Len(b)
      /\ \A k \in 1 .. Len(a) + Len(b) : (a \o b)[k] = IF k <= Len(a) THEN a[k] ELSE b[k - Len(a)]
  BY <1>3, <1>4, ConcatProperties
<1>6. RemoveAt(s, i) = a \o b
  BY DEF RemoveAt, a, b, l
<1>7. ASSUME NEW k \in 1 .. l - 1 PROVE (a \o b)[k] = IF k < i THEN s[k] ELSE s[k + 1]
  <2>1. k \in 1 .. Len(a) + Len(b)
    BY <1>1, <1>3, <1>4
  <2>2. CASE k < i
    <3>1. k <= Len(a) /\ k \in 1 .. i - 1
      BY <1>1, <1>3, <2>2
    <3> QED BY <1>3, <1>5, <2>1, <2>2, <3>1
  <2>3. CASE ~(k < i)
    <3>1. ~(k <= Len(a)) /\ k - Len(a) \in 1 .. l - i /\ i + (k - Len(a)) = k + 1
      BY <1>1, <1>3, <2>3
    <3> QED BY <1>4, <1>5, <2>1, <2>3, <3>1
  <2> QED BY <2>2, <2>3
<1>8. Len(a \o b) = l - 1
  BY <1>1, <1>3, <1>4, <1>5
<1> QED BY <1>5, <1>6, <1>7, <1>8 DEF l

LEMMA Appended ==
  ASSUME NEW s \in Seq(Order), NEW e \in Order
  PROVE  /\ Append(s, e) \in Seq(Order)
         /\ Len(Append(s, e)) = Len(s) + 1
         /\ \A i \in 1 .. Len(s) : Append(s, e)[i] = s[i]
         /\ Append(s, e)[Len(s) + 1] = e
         /\ Len(s) \in Nat
BY AppendProperties, LenProperties

LEMMA NextApprovalsInv == ApprovalsInv /\ [ApprovalsNext]_approvalsVars => ApprovalsInv'
<1> SUFFICES ASSUME ApprovalsInv, [ApprovalsNext]_approvalsVars PROVE ApprovalsInv'
  OBVIOUS
<1> USE ApprovalsAssumption
<1>0. Typed /\ DownIsIdle /\ Registered /\ NotMade /\ Settled /\ RunsOnceUnlessLost /\ Len(writes) \in Nat
  BY LenProperties DEF ApprovalsInv, Typed
<1>a. \A op \in {"register", "remove"}, c \in Call : PendingWrite(op, c) \in Order
  BY DEF PendingWrite, Order
<1>1. ASSUME NEW c \in Call, Execute(c) PROVE ApprovalsInv'
  <2>1. CASE Mode[c] = "ask"
    <3> DEFINE e == PendingWrite("register", c)
    <3>1. /\ writes' = Append(writes, e) /\ pending' = pending \cup {c} /\ made' = made \cup {c}
          /\ ran' = ran /\ table' = table /\ lost' = lost /\ amid' = amid /\ up' = up /\ up /\ c \notin made
      BY <1>0, <1>1, <2>1 DEF Execute, RegisterPending, Typed
    <3>2. /\ writes' \in Seq(Order) /\ Len(writes') = Len(writes) + 1
          /\ \A i \in 1 .. Len(writes) : writes'[i] = writes[i]
          /\ writes'[Len(writes) + 1] = e
      BY <1>0, <1>a, <3>1, Appended DEF Typed
    <3>3. Typed' /\ DownIsIdle' /\ NotMade' /\ RunsOnceUnlessLost'
      BY <1>0, <3>1, <3>2 DEF Typed, DownIsIdle, NotMade, RunsOnceUnlessLost
    <3>4. Registered'
      BY <1>0, <2>1, <3>1, <3>2 DEF Registered, PendingWrite
    <3>5. Settled'
      <4> SUFFICES ASSUME NEW d \in Call \ (lost \cup amid), Mode[d] = "ask", ran[d] > 0
                   PROVE  d \notin pending' /\ (Removing(d)' \/ Gone(d)')
        BY <3>1 DEF Settled
      <4>1. d # c /\ e # PendingWrite("register", d)
        BY <1>0, <3>1 DEF NotMade, PendingWrite
      <4>2. d \notin pending /\ (Removing(d) \/ Gone(d))
        BY <1>0 DEF Settled
      <4>3. CASE Removing(d)
        <5>1. PICK j \in 1 .. Len(writes) :
                /\ writes[j] = PendingWrite("remove", d)
                /\ \A i \in j .. Len(writes) : writes[i] # PendingWrite("register", d)
          BY <4>3 DEF Removing
        <5>2. j \in 1 .. Len(writes') /\ writes'[j] = PendingWrite("remove", d)
          BY <1>0, <3>2, <5>1
        <5>3. \A i \in j .. Len(writes') : writes'[i] # PendingWrite("register", d)
          BY <1>0, <3>2, <4>1, <5>1
        <5> QED
          BY <3>1, <4>1, <4>2, <5>2, <5>3 DEF Removing, PendingWrite
      <4>4. CASE Gone(d)
        BY <1>0, <3>1, <3>2, <4>1, <4>2, <4>4 DEF Gone, PendingWrite
      <4> QED
        BY <4>2, <4>3, <4>4
    <3> QED
      BY <3>3, <3>4, <3>5 DEF ApprovalsInv
  <2>2. CASE Mode[c] # "ask"
    <3>1. /\ writes' = writes /\ pending' = pending /\ made' = made \cup {c} /\ table' = table
          /\ lost' = lost /\ amid' = amid /\ up' = up /\ up /\ c \notin made /\ ran[c] = 0
          /\ ran' = [ran EXCEPT ![c] = IF Mode[c] = "allow" THEN @ + 1 ELSE @]
      BY <1>0, <1>1, <2>2 DEF Execute, NotMade
    <3>2. ran' \in [Call -> Nat] /\ (\A d \in Call \ {c} : ran'[d] = ran[d]) /\ ran'[c] \in {0, 1}
          /\ (Mode[c] = "deny" => ran'[c] = 0)
      BY <1>0, <3>1 DEF Typed
    <3>3. Typed' /\ DownIsIdle' /\ NotMade'
      BY <1>0, <3>1, <3>2 DEF Typed, DownIsIdle, NotMade
    <3>4. Registered'
      BY <1>0, <3>1 DEF Registered
    <3>5. RunsOnceUnlessLost'
      BY <1>0, <3>1, <3>2 DEF RunsOnceUnlessLost
    <3>6. Settled'
      <4> SUFFICES ASSUME NEW d \in Call \ (lost \cup amid), Mode[d] = "ask", ran'[d] > 0
                   PROVE  d \notin pending' /\ (Removing(d)' \/ Gone(d)')
        BY <3>1 DEF Settled
      <4>1. d \notin pending /\ (Removing(d) \/ Gone(d))
        BY <1>0, <2>2, <3>2 DEF Settled
      <4>2. (Removing(d)' <=> Removing(d)) /\ (Gone(d)' <=> Gone(d))
        BY <3>1 DEF Removing, Gone, PendingWrite
      <4> QED
        BY <3>1, <4>1, <4>2
    <3> QED
      BY <3>3, <3>4, <3>5, <3>6 DEF ApprovalsInv
  <2> QED
    BY <2>1, <2>2
<1>2. ASSUME NEW c \in Call, Resolve(c) PROVE ApprovalsInv'
  <2> DEFINE e == PendingWrite("remove", c)
  <2>1. PICK approved \in BOOLEAN :
          /\ ran' = [ran EXCEPT ![c] = IF approved THEN @ + 1 ELSE @]
          /\ writes' = Append(writes, e) /\ pending' = pending \ {c} /\ c \in pending
          /\ made' = made /\ table' = table /\ lost' = lost /\ amid' = amid /\ up' = up /\ up
    BY <1>2 DEF Resolve
  <2>2. /\ writes' \in Seq(Order) /\ Len(writes') = Len(writes) + 1
        /\ \A i \in 1 .. Len(writes) : writes'[i] = writes[i]
        /\ writes'[Len(writes) + 1] = e
    BY <1>0, <1>a, <2>1, Appended DEF Typed
  <2>3. Mode[c] = "ask" /\ c \in made /\ (c \notin lost \cup amid => ran[c] = 0)
    BY <1>0, <2>1 DEF Registered, Settled, Typed
  <2>4. Typed' /\ DownIsIdle'
    BY <1>0, <2>1, <2>2 DEF Typed, DownIsIdle
  <2>5. Registered' /\ NotMade'
    BY <1>0, <2>1, <2>2, <2>3 DEF Registered, NotMade, PendingWrite, Typed
  <2>6. RunsOnceUnlessLost'
    BY <1>0, <2>1, <2>3 DEF RunsOnceUnlessLost, Typed
  <2>7. Settled'
    <3> SUFFICES ASSUME NEW d \in Call \ (lost \cup amid), Mode[d] = "ask", ran'[d] > 0
                 PROVE  d \notin pending' /\ (Removing(d)' \/ Gone(d)')
      BY <2>1 DEF Settled
    <3>1. CASE d = c
      <4>1. Len(writes') \in 1 .. Len(writes') /\ writes'[Len(writes')] = PendingWrite("remove", d)
        BY <1>0, <2>2, <3>1
      <4>2. \A i \in Len(writes') .. Len(writes') : writes'[i] # PendingWrite("register", d)
        BY <1>0, <2>2, <4>1 DEF PendingWrite
      <4> QED
        BY <2>1, <3>1, <4>1, <4>2 DEF Removing, PendingWrite
    <3>2. CASE d # c
      <4>1. d \notin pending /\ (Removing(d) \/ Gone(d))
        BY <1>0, <2>1, <3>2 DEF Settled, Typed
      <4>2. e # PendingWrite("register", d)
        BY DEF PendingWrite
      <4>3. CASE Removing(d)
        <5>1. PICK j \in 1 .. Len(writes) :
                /\ writes[j] = PendingWrite("remove", d)
                /\ \A i \in j .. Len(writes) : writes[i] # PendingWrite("register", d)
          BY <4>3 DEF Removing
        <5>2. j \in 1 .. Len(writes') /\ writes'[j] = PendingWrite("remove", d)
          BY <1>0, <2>2, <5>1
        <5>3. \A i \in j .. Len(writes') : writes'[i] # PendingWrite("register", d)
          BY <1>0, <2>2, <4>2, <5>1
        <5> QED
          BY <2>1, <4>1, <5>2, <5>3 DEF Removing, PendingWrite
      <4>4. CASE Gone(d)
        BY <1>0, <2>1, <2>2, <4>1, <4>2, <4>4 DEF Gone, PendingWrite
      <4> QED
        BY <4>1, <4>3, <4>4
    <3> QED
      BY <3>1, <3>2
  <2> QED
    BY <2>4, <2>5, <2>6, <2>7 DEF ApprovalsInv
<1>3. ASSUME WriteBehind PROVE ApprovalsInv'
  <2>1. PICK i \in Turns, stored \in BOOLEAN :
          LET c == writes[i].call
          IN  /\ table' = IF ~stored THEN table
                          ELSE IF writes[i].op = "register" THEN table \cup {c} ELSE table \ {c}
              /\ lost' = IF ~stored /\ writes[i].op = "remove" THEN lost \cup {c} ELSE lost
              /\ writes' = RemoveAt(writes, i)
    BY <1>3 DEF WriteBehind
  <2> DEFINE c == writes[i].call
  <2>2. i \in 1 .. Len(writes) /\ (c \in amid \/ \A j \in 1 .. (i - 1) : writes[j].call \in amid)
    BY <1>0, <2>1, LenProperties DEF Turns, Typed
  <2>3. /\ table' = IF ~stored THEN table
                    ELSE IF writes[i].op = "register" THEN table \cup {c} ELSE table \ {c}
        /\ lost' = IF ~stored /\ writes[i].op = "remove" THEN lost \cup {c} ELSE lost
        /\ up' = up /\ up /\ made' = made /\ pending' = pending /\ ran' = ran /\ amid' = amid
    BY <1>3, <2>1 DEF WriteBehind
  <2>4. /\ writes' \in Seq(Order) /\ Len(writes') = Len(writes) - 1
        /\ \A k \in 1 .. Len(writes) - 1 : writes'[k] = IF k < i THEN writes[k] ELSE writes[k + 1]
    BY <1>0, <2>1, <2>2, WritesButOne DEF Typed
  <2>5. writes[i] \in Order
    BY <1>0, <2>2, ElementOfSeq DEF Typed
  <2>a. \A k \in 1 .. Len(writes') : \E m \in 1 .. Len(writes) :
          writes'[k] = writes[m] /\ m >= k /\ (k >= i => m > k) /\ m # i
    <3> SUFFICES ASSUME NEW k \in 1 .. Len(writes')
                 PROVE  \E m \in 1 .. Len(writes) :
                          writes'[k] = writes[m] /\ m >= k /\ (k >= i => m > k) /\ m # i
      OBVIOUS
    <3>1. k \in 1 .. Len(writes) - 1 /\ k \in 1 .. Len(writes) /\ k + 1 \in 1 .. Len(writes)
      BY <1>0, <2>4
    <3> QED BY <2>2, <2>4, <3>1
  <2>6. Typed' /\ DownIsIdle' /\ NotMade'
    BY <1>0, <2>3, <2>4, <2>5 DEF Typed, DownIsIdle, NotMade, Order
  <2>7. Registered'
    BY <1>0, <2>2, <2>3, <2>5, <2>a DEF Registered, Order
  <2>8. RunsOnceUnlessLost'
    BY <1>0, <2>3 DEF RunsOnceUnlessLost
  <2>9. Settled'
    <3> SUFFICES ASSUME NEW d \in Call \ (lost' \cup amid), Mode[d] = "ask", ran[d] > 0
                 PROVE  d \notin pending /\ (Removing(d)' \/ Gone(d)')
      BY <2>3 DEF Settled
    <3>1. d \notin lost /\ d \notin pending /\ (Removing(d) \/ Gone(d))
      BY <1>0, <2>3 DEF Settled
    <3>2. CASE Gone(d)
      <4>1. writes[i] # PendingWrite("register", d) /\ d \notin table
        BY <2>2, <3>2 DEF Gone
      <4>2. d \notin table'
        BY <2>3, <2>5, <4>1 DEF PendingWrite, Order
      <4>3. \A k \in 1 .. Len(writes') : writes'[k] # PendingWrite("register", d)
        BY <2>a, <3>2 DEF Gone
      <4> QED
        BY <3>1, <4>2, <4>3 DEF Gone, PendingWrite
    <3>3. CASE Removing(d)
      <4>1. PICK j \in 1 .. Len(writes) :
              /\ writes[j] = PendingWrite("remove", d)
              /\ \A k \in j .. Len(writes) : writes[k] # PendingWrite("register", d)
        BY <3>3 DEF Removing
      <4>2. CASE i = j
        <5>1. c = d /\ d \notin table'
          BY <2>3, <4>1, <4>2 DEF PendingWrite
        <5>2. \A k \in 1 .. Len(writes) : writes[k] # PendingWrite("register", d)
          <6> SUFFICES ASSUME NEW k \in 1 .. Len(writes), writes[k] = PendingWrite("register", d)
                       PROVE  FALSE
            OBVIOUS
          <6>1. k \in 1 .. (i - 1)
            BY <1>0, <2>2, <4>1, <4>2
          <6> QED BY <2>2, <2>3, <5>1, <6>1 DEF PendingWrite
        <5>3. \A k \in 1 .. Len(writes') : writes'[k] # PendingWrite("register", d)
          BY <2>a, <5>2
        <5> QED
          BY <3>1, <5>1, <5>3 DEF Gone, PendingWrite
      <4>3. CASE i < j
        <5>1. j - 1 \in 1 .. Len(writes') /\ writes'[j - 1] = PendingWrite("remove", d)
          BY <1>0, <2>2, <2>4, <4>1, <4>3
        <5>2. ASSUME NEW k \in j - 1 .. Len(writes') PROVE writes'[k] # PendingWrite("register", d)
          <6>1. k \in 1 .. Len(writes) - 1 /\ ~(k < i) /\ k + 1 \in j .. Len(writes)
            BY <1>0, <2>2, <2>4, <4>1, <4>3
          <6> QED BY <2>4, <4>1, <6>1
        <5> QED
          BY <3>1, <5>1, <5>2 DEF Removing, PendingWrite
      <4>4. CASE j < i
        <5>1. j \in 1 .. Len(writes') /\ writes'[j] = PendingWrite("remove", d)
          BY <1>0, <2>2, <2>4, <4>1, <4>4
        <5>2. ASSUME NEW k \in j .. Len(writes') PROVE writes'[k] # PendingWrite("register", d)
          <6>1. k \in 1 .. Len(writes') /\ j <= k
            BY <1>0, <2>4, <4>1
          <6>2. PICK m \in 1 .. Len(writes) : writes'[k] = writes[m] /\ m >= k
            BY <2>a, <6>1
          <6>3. m \in j .. Len(writes)
            BY <6>1, <6>2, <4>1
          <6> QED BY <4>1, <6>2, <6>3
        <5> QED
          BY <3>1, <5>1, <5>2 DEF Removing, PendingWrite
      <4> QED
        BY <2>2, <4>1, <4>2, <4>3, <4>4
    <3> QED
      BY <3>1, <3>2, <3>3
  <2> QED
    BY <2>6, <2>7, <2>8, <2>9 DEF ApprovalsInv
<1>4. ASSUME Crash PROVE ApprovalsInv'
  <2>1. /\ writes' = <<>> /\ Len(writes') = 0 /\ pending' = {} /\ up' = FALSE
        /\ lost' = lost \cup {c \in Call : PendingWrite("remove", c) \in ToSet(writes)}
        /\ made' = made /\ table' = table /\ ran' = ran /\ amid' = amid
    BY <1>4 DEF Crash
  <2>2. \A c \in Call : Removing(c) => c \in lost'
    <3> SUFFICES ASSUME NEW c \in Call, Removing(c) PROVE PendingWrite("remove", c) \in ToSet(writes)
      BY <2>1
    <3>1. PICK j \in 1 .. Len(writes) : writes[j] = PendingWrite("remove", c)
      BY DEF Removing
    <3>2. j \in DOMAIN writes
      BY <1>0, <3>1, LenProperties DEF Typed
    <3> QED
      BY <3>1, <3>2 DEF ToSet
  <2>3. Typed'
    <3>1. writes' \in Seq(Order)
      BY <2>1, EmptySeq
    <3> QED
      BY <1>0, <2>1, <3>1 DEF Typed
  <2>4. DownIsIdle' /\ NotMade' /\ Registered'
    BY <1>0, <2>1 DEF DownIsIdle, Registered, NotMade
  <2>5. lost \subseteq lost' /\ RunsOnceUnlessLost'
    BY <1>0, <2>1 DEF RunsOnceUnlessLost
  <2>6. Settled'
    BY <1>0, <2>1, <2>2, <2>5 DEF Settled, Gone
  <2> QED
    BY <2>3, <2>4, <2>5, <2>6 DEF ApprovalsInv
<1>5. ASSUME Start PROVE ApprovalsInv'
  <2>1. /\ writes' = writes /\ writes = <<>> /\ Len(writes) = 0 /\ pending' \subseteq table /\ up' = TRUE
        /\ lost' = lost /\ amid' = amid /\ made' = made /\ table' = table /\ ran' = ran
    BY <1>0, <1>5 DEF Start, DownIsIdle
  <2>2. Typed' /\ DownIsIdle' /\ Registered' /\ NotMade' /\ RunsOnceUnlessLost'
    BY <1>0, <2>1 DEF Typed, DownIsIdle, Registered, NotMade, RunsOnceUnlessLost
  <2>3. \A d \in Call : ~Removing(d) /\ (Gone(d) <=> d \notin table) /\ (Gone(d)' <=> d \notin table)
    BY <2>1 DEF Removing, Gone
  <2>4. Settled'
    BY <1>0, <2>1, <2>3 DEF Settled
  <2> QED
    BY <2>2, <2>4 DEF ApprovalsInv
<1>6. ASSUME UNCHANGED approvalsVars PROVE ApprovalsInv'
  BY <1>0, <1>6 DEF approvalsVars, ApprovalsInv, Typed, DownIsIdle, Registered, NotMade, Settled,
       RunsOnceUnlessLost, Removing, Gone
<1>7. ASSUME Reconnect PROVE ApprovalsInv'
  <2>1. /\ amid' = amid \cup {writes[i].call : i \in DOMAIN writes}
        /\ UNCHANGED <<up, made, pending, table, writes, ran, lost>>
    BY <1>7 DEF Reconnect
  <2>2. amid \subseteq amid' /\ amid' \subseteq Call
    <3>1. ASSUME NEW i \in DOMAIN writes PROVE writes[i].call \in Call
      <4>1. writes[i] \in Order
        BY <1>0, ElementOfSeq, LenProperties DEF Typed
      <4> QED BY <4>1 DEF Order
    <3> QED BY <1>0, <2>1, <3>1 DEF Typed
  <2> QED
    BY <1>0, <2>1, <2>2 DEF ApprovalsInv, Typed, DownIsIdle, Registered, NotMade, Settled,
       RunsOnceUnlessLost, Removing, Gone
<1> QED
  BY <1>1, <1>2, <1>3, <1>4, <1>5, <1>6, <1>7 DEF ApprovalsNext

\* Whatever calls are made, answered and written late, and however often the
\* process dies: a call runs a second time only if its removal was lost or its
\* tasks met a connection that was being made, and a denied one never runs.
THEOREM OncePerApproval == ApprovalsSpec => []RunsOnceUnlessLost
<1>1. ApprovalsInit => ApprovalsInv
  <2> SUFFICES ASSUME ApprovalsInit PROVE ApprovalsInv
    OBVIOUS
  <2>1. writes = <<>> /\ Len(writes) = 0 /\ writes \in Seq(Order)
    BY EmptySeq DEF ApprovalsInit
  <2>2. ran = [c \in Call |-> 0] /\ up = TRUE /\ made = {} /\ pending = {} /\ table = {} /\ lost = {} /\ amid = {}
    BY DEF ApprovalsInit
  <2> QED
    BY <2>1, <2>2 DEF ApprovalsInv, Typed, DownIsIdle, Registered, NotMade, Settled, RunsOnceUnlessLost
<1>2. ApprovalsInv => RunsOnceUnlessLost
  BY DEF ApprovalsInv
<1> QED
  BY <1>1, <1>2, NextApprovalsInv, PTL DEF ApprovalsSpec

------------------------------------------------------------------------------
(* Artifacts: a phase that is accepted has a file behind it.  What makes   *)
(* it inductive is that a row is only added together with the file it is   *)
(* for (RowsBacked) and that no step takes a file away (FilesStay).        *)

Standing == {"idle", "working", "answered", "stored", "completed", "closed", "failed"}

Accepted == {"completed", "closed"}

FilesTyped ==
  /\ file \in [File -> FileContent \cup {NoFile}]
  /\ at \in [Stage -> Standing]

RowsBacked == rows \subseteq wrote

\* What NothingFromNothing asks for a phase that is accepted.
Backed(p) ==
  \/ \E f \in Expected[p] : file[f] # NoFile
  \/ {<<WriterOf[p], Unmarked>>, <<WriterOf[p], runNo>>} \cap wrote # {}

ArtifactsInv == FilesTyped /\ RowsBacked /\ NothingFromNothing

\* No step removes a file or forgets that one was written.
LEMMA FilesStay ==
  ASSUME FilesTyped, [ArtifactsNext]_artifactsVars
  PROVE  /\ FilesTyped'
         /\ \A f \in File : file[f] # NoFile => file'[f] # NoFile
         /\ wrote \subseteq wrote'
<1> USE ArtifactsAssumption DEF FilesTyped
<1>1. ASSUME NEW f \in File, NEW c \in FileContent, file' = [file EXCEPT ![f] = c]
      PROVE  /\ file' \in [File -> FileContent \cup {NoFile}]
             /\ \A g \in File : file[g] # NoFile => file'[g] # NoFile
  BY <1>1
<1>2. /\ "tool" \in FileContent /\ "runtime" \in FileContent /\ "body" \in FileContent
      /\ \A p \in Stage : {p} \cup Expected[p] \subseteq File
  BY DEF FileContent, File
<1>3. ASSUME UNCHANGED <<file, wrote>>, at' \in [Stage -> Standing]
      PROVE  /\ FilesTyped'
             /\ \A f \in File : file[f] # NoFile => file'[f] # NoFile
             /\ wrote \subseteq wrote'
  BY <1>3
<1>4. ASSUME NEW p \in Stage, Write(p) \/ Reply(p) \/ CheckOutput(p) \/ Redo(p)
      PROVE  UNCHANGED <<file, wrote>> /\ at' \in [Stage -> Standing]
  BY <1>4 DEF Write, Reply, CheckOutput, Redo, Standing
<1>5. ASSUME NEW p \in Stage, PersistOutput(p) PROVE wrote \subseteq wrote' /\ at' \in [Stage -> Standing]
             /\ (file' = file \/ file' = [file EXCEPT ![p] = "runtime"])
  BY <1>5 DEF PersistOutput, AddRow, Standing
<1>6. ASSUME NEW p \in Stage, Materialize(p) PROVE wrote \subseteq wrote' /\ at' \in [Stage -> Standing]
             /\ (file' = file \/ \E f \in {p} \cup Expected[p] : file' = [file EXCEPT ![f] = "body"])
  BY <1>6 DEF Materialize, AddRow, VersionedWrite, Standing
<1>7. ASSUME NEW p \in Stage, NEW f \in File, FileWrite(p, f)
      PROVE  wrote \subseteq wrote' /\ UNCHANGED at /\ file' = [file EXCEPT ![f] = "tool"]
  BY <1>7 DEF FileWrite, AddRow
<1>8. ASSUME NewRun PROVE UNCHANGED <<file, wrote>> /\ at' \in [Stage -> Standing]
  BY <1>8 DEF NewRun, Standing
<1>9. ASSUME UNCHANGED artifactsVars PROVE UNCHANGED <<file, wrote, at>>
  BY <1>9 DEF artifactsVars
<1>10. CASE \E p \in Stage : PersistOutput(p)
  BY <1>1, <1>2, <1>5, <1>10
<1>11. CASE \E p \in Stage : Materialize(p)
  BY <1>1, <1>2, <1>6, <1>11
<1>12. CASE \E p \in Stage, f \in File : FileWrite(p, f)
  BY <1>1, <1>2, <1>7, <1>12
<1> QED
  BY <1>3, <1>4, <1>8, <1>9, <1>10, <1>11, <1>12 DEF ArtifactsNext

\* A step adds a row only for a file it writes.
LEMMA NewRowsBacked ==
  ASSUME RowsBacked, [ArtifactsNext]_artifactsVars
  PROVE  RowsBacked'
BY DEF RowsBacked, ArtifactsNext, artifactsVars, Write, FileWrite, Reply, PersistOutput, CheckOutput,
       Materialize, Redo, NewRun, AddRow

\* Only the check completes a phase, and it saw a file or a row.
LEMMA OnlyCheckCompletes ==
  ASSUME FilesTyped, RowsBacked, [ArtifactsNext]_artifactsVars, NEW p \in Stage, at'[p] \in Accepted
  PROVE  UNCHANGED runNo /\ (at[p] \in Accepted \/ Backed(p))
<1> USE DEF FilesTyped, Accepted
<1>1. ASSUME NEW q \in Stage, CheckOutput(q), q = p PROVE Backed(p)
  <2>1. PICK answers \in BOOLEAN : HasArtifact(p, {Unmarked, runNo}, answers)
    BY <1>1 DEF CheckOutput
  <2>2. CASE \E r \in {Unmarked, runNo} : <<WriterOf[p], r>> \in rows
    BY <2>2 DEF RowsBacked, Backed
  <2> QED
    BY <2>1, <2>2 DEF HasArtifact, Backed
<1>2. ASSUME NEW q \in Stage, CheckOutput(q), q # p PROVE at[p] \in Accepted
  BY <1>2 DEF CheckOutput
<1>3. ASSUME NEW q \in Stage, Materialize(q) \/ Write(q) \/ Reply(q) \/ PersistOutput(q) \/ Redo(q)
      PROVE  UNCHANGED runNo /\ at[p] \in Accepted
  BY <1>3 DEF Materialize, Write, Reply, PersistOutput, Redo
<1>4. ~NewRun
  BY DEF NewRun
<1>5. ASSUME NEW q \in Stage, CheckOutput(q) PROVE UNCHANGED runNo
  BY <1>5 DEF CheckOutput
<1>6. ASSUME UNCHANGED artifactsVars \/ \E q \in Stage, f \in File : FileWrite(q, f)
      PROVE  UNCHANGED runNo /\ at[p] \in Accepted
  BY <1>6 DEF FileWrite, artifactsVars
<1> QED
  BY <1>1, <1>2, <1>3, <1>4, <1>5, <1>6 DEF ArtifactsNext

LEMMA NextArtifactsInv == ArtifactsInv /\ [ArtifactsNext]_artifactsVars => ArtifactsInv'
<1> SUFFICES ASSUME ArtifactsInv, [ArtifactsNext]_artifactsVars PROVE ArtifactsInv'
  OBVIOUS
<1>1. FilesTyped' /\ RowsBacked'
  BY FilesStay, NewRowsBacked DEF ArtifactsInv
<1>2. ASSUME NEW p \in Stage, at'[p] \in Accepted PROVE Backed(p)'
  <2>1. UNCHANGED runNo /\ Backed(p)
    BY <1>2, OnlyCheckCompletes DEF ArtifactsInv, NothingFromNothing, Accepted, Backed
  <2>2. Expected[p] \subseteq File
    BY DEF File
  <2> QED
    BY <2>1, <2>2, FilesStay DEF ArtifactsInv, Backed
<1> QED
  BY <1>1, <1>2 DEF ArtifactsInv, NothingFromNothing, Accepted, Backed

\* However agents write, to whatever path, fail, are sent back, share a name and
\* are run again in later runs, no phase is accepted that has no expected file and
\* whose agent has nothing on disk that counts for this run.
THEOREM AcceptedIsBacked == ArtifactsSpec => []NothingFromNothing
<1>1. ArtifactsInit => ArtifactsInv
  BY DEF ArtifactsInit, ArtifactsInv, FilesTyped, RowsBacked, NothingFromNothing, Standing
<1>2. ArtifactsInv => NothingFromNothing
  BY DEF ArtifactsInv
<1> QED
  BY <1>1, <1>2, NextArtifactsInv, PTL DEF ArtifactsSpec

------------------------------------------------------------------------------
(* The event feed: a client's view of one process has no unnoticed gap.    *)
(* What makes it inductive: the ring holds ids of its process in order     *)
(* (Ring), the queue goes on where the client stopped (Queued), and while  *)
(* the client is away the ring keeps what it has not had (Held).           *)
(* ReplaySince is computed element by element; on a ring it is the tail    *)
(* behind the last id the client names (AfterIsTail).                      *)

\* A set of natural numbers that has an element has a least one.
LEMMA NatLeast ==
  ASSUME NEW T \in SUBSET Nat, T # {}
  PROVE  \E x \in T : \A y \in T : x <= y
<1> DEFINE R == {p \in Nat \X Nat : p[1] < p[2]}
<1>1. IsWellFoundedOn(R, Nat)
  <2>1. OpToRel(<, Nat) = R
    BY DEF OpToRel
  <2> QED BY <2>1, NatLessThanWellFounded
<1>2. \A x, y \in Nat : y < x => <<y, x>> \in R
  OBVIOUS
<1> HIDE DEF R
<1>3. PICK x \in T : \A y \in T : ~(<<y, x>> \in R)
  BY <1>1, WFMin
<1>4. \A y \in T : ~(y < x)
  BY <1>2, <1>3
<1> QED
  BY <1>4

\* Where the numbers up to some place are old and all others are new, the
\* comprehension over the ring leaves the tail behind that place.
LEMMA AfterIsTail ==
  ASSUME NEW s \in Seq(Nat), NEW last \in Nat, NEW m \in 0 .. Len(s),
         \A i \in 1 .. m : s[i] <= last,
         \A i \in m + 1 .. Len(s) : s[i] > last
  PROVE  After(s, last) = SubSeq(s, m + 1, Len(s))
<1> DEFINE Change(f, i) == IF i = 0 THEN << >>
                         ELSE IF s[i] > last THEN Append(f[i - 1], s[i]) ELSE f[i - 1]
           IsF(f) == f = [i \in 0 .. Len(s) |-> Change(f, i)]
           G == [i \in 0 .. Len(s) |-> SubSeq(s, m + 1, i)]
           F == CHOOSE f : IsF(f)
<1>0. Len(s) \in Nat
  OBVIOUS
<1>1. After(s, last) = F[Len(s)]
  BY DEF After
<1>2. IsF(G)
  <2>1. G = [i \in 0 .. Len(s) |-> G[i]] /\ \A i \in 0 .. Len(s) : G[i] = SubSeq(s, m + 1, i)
    OBVIOUS
  <2> HIDE DEF G
  <2>2. ASSUME NEW i \in 0 .. Len(s) PROVE G[i] = Change(G, i)
    <3>1. CASE i = 0
      <4>1. G[i] = SubSeq(s, m + 1, 0)
        BY <3>1, <2>1
      <4>2. SubSeq(s, m + 1, 0) = << >>
        BY <1>0
      <4>3. Change(G, i) = << >>
        BY <3>1
      <4> QED BY <4>1, <4>2, <4>3
    <3>2. CASE i # 0
      <4>0. i \in 1 .. Len(s) /\ i - 1 \in 0 .. Len(s)
        BY <3>2, <1>0
      <4>1. G[i] = SubSeq(s, m + 1, i) /\ G[i - 1] = SubSeq(s, m + 1, i - 1)
        BY <4>0, <2>1, Zenon
      <4>2. CASE i <= m
        <5>1. SubSeq(s, m + 1, i) = SubSeq(s, m + 1, i - 1) /\ ~(s[i] > last)
          BY <4>0, <4>2, <1>0
        <5> QED BY <3>2, <4>1, <5>1
      <4>3. CASE i > m
        <5>1. SubSeq(s, m + 1, i) = Append(SubSeq(s, m + 1, i - 1), s[i]) /\ s[i] > last
          BY <4>0, <4>3, <1>0
        <5> QED BY <3>2, <4>1, <5>1
      <4> QED BY <4>0, <4>2, <4>3, <1>0
    <3> QED BY <3>1, <3>2
  <2> QED BY <2>1, <2>2
<1> HIDE DEF G
<1>3. IsF(F)
  <2> HIDE DEF IsF
  <2> QED BY <1>2
<1> HIDE DEF F
<1>4. \A i \in 0 .. Len(s) : F[i] = G[i]
  <2> SUFFICES ASSUME {i \in 0 .. Len(s) : F[i] # G[i]} # {} PROVE FALSE
    OBVIOUS
  <2> DEFINE T == {i \in 0 .. Len(s) : F[i] # G[i]}
  <2>1. PICK i \in T : \A j \in T : i <= j
    <3> HIDE DEF T
    <3>1. T \in SUBSET Nat /\ T # {}
      BY <1>0 DEF T
    <3> QED BY <3>1, NatLeast
  <2>2. F[i] = Change(F, i) /\ G[i] = Change(G, i)
    BY <1>2, <1>3
  <2>3. i # 0 => F[i - 1] = G[i - 1]
    <3>1. i # 0 => i - 1 \in 0 .. Len(s) /\ ~(i <= i - 1)
      BY <1>0
    <3> QED BY <2>1, <3>1
  <2> QED BY <2>2, <2>3
<1> QED BY <1>0, <1>1, <1>4 DEF G

Increasing(s) == \A i, j \in 1 .. Len(s) : i < j => s[i] < s[j]

\* The ring of a process that has given out n numbers: some of them, in order.
IsRing(buffer, n) ==
  /\ buffer \in Seq(Nat) /\ Increasing(buffer)
  /\ \A i \in 1 .. Len(buffer) : buffer[i] \in 1 .. n

\* An id a replay tells, or one that the turning ring took.
Kept(buffer, x) == x \in ToSet(buffer) \/ (buffer # <<>> /\ x < Head(buffer))

FeedTyped ==
  /\ seq \in [Process -> Nat] /\ recent \in [Process -> Seq(Nat)]
  /\ \A m \in relayed : m.to \in Process /\ m.of \in Of
  /\ home \in Process \cup {Nobody} /\ since \in Process \cup {Nobody}
  /\ queue \in Seq(Nat) /\ seen \in Seq(Nat)

Ring == \A p \in Process : IsRing(recent[p], seq[p])

Listening == /\ home # Nobody => home = since
             /\ home = Nobody => queue = <<>>
             /\ since = Nobody => seen = <<>>

Seen == /\ Increasing(seen)
        /\ since # Nobody => \A i \in 1 .. Len(seen) : seen[i] \in 1 .. seq[since]

Queued == /\ Increasing(queue)
          /\ \A i \in 1 .. Len(queue) :
               queue[i] > LastSeen /\ (home # Nobody => queue[i] <= seq[home])

Held == home = Nobody /\ since # Nobody =>
          \A x \in 1 .. seq[since] : Kept(recent[since], x) \/ x \in ToSet(seen) \cup gone

FeedInv == FeedTyped /\ Ring /\ Listening /\ Seen /\ Queued /\ Held /\ FeedHasNoGap

\* What appending and taking the head do to an increasing queue.
LEMMA AppendedIncreases ==
  ASSUME NEW s \in Seq(Nat), NEW x \in Nat
  PROVE  /\ Append(s, x) \in Seq(Nat) /\ Append(s, x) # <<>> /\ Last(Append(s, x)) = x
         /\ ToSet(Append(s, x)) = ToSet(s) \cup {x}
         /\ (\A i \in 1 .. Len(s) : s[i] < x) /\ Increasing(s) => Increasing(Append(s, x))
         /\ \A i \in 1 .. Len(Append(s, x)) : Append(s, x)[i] = x \/ \E j \in 1 .. Len(s) : Append(s, x)[i] = s[j]
<1> DEFINE b == Append(s, x)
           l == Len(s)
<1>1. /\ b \in Seq(Nat) /\ l \in Nat /\ Len(b) = l + 1 /\ b[l + 1] = x
      /\ \A i \in 1 .. l : b[i] = s[i]
      /\ \A i \in 1 .. l : s[i] \in Nat
      /\ DOMAIN b = 1 .. l + 1 /\ DOMAIN s = 1 .. l
  OBVIOUS
<1> HIDE DEF b, l
<1>2. \A i \in 1 .. l + 1 : i = l + 1 \/ i \in 1 .. l
  BY <1>1
<1>3. b # <<>> /\ Last(b) = x
  BY <1>1 DEF Last
<1>4. ToSet(b) = ToSet(s) \cup {x}
  <2>1. \A i \in 1 .. l : i \in 1 .. l + 1
    BY <1>1
  <2>2. l + 1 \in 1 .. l + 1
    BY <1>1
  <2> QED BY <1>1, <1>2, <2>1, <2>2 DEF ToSet
<1>5. (\A i \in 1 .. l : s[i] < x) /\ Increasing(s) => Increasing(b)
  <2> SUFFICES ASSUME \A i \in 1 .. l : s[i] < x,
                      \A i, j \in 1 .. l : i < j => s[i] < s[j],
                      NEW i \in 1 .. l + 1, NEW j \in 1 .. l + 1, i < j
               PROVE  b[i] < b[j]
    BY <1>1 DEF Increasing, l
  <2>1. i \in 1 .. l
    BY <1>1
  <2> QED BY <1>1, <1>2, <2>1
<1>6. \A i \in 1 .. Len(b) : b[i] = x \/ \E j \in 1 .. l : b[i] = s[j]
  BY <1>1, <1>2
<1> QED
  BY <1>1, <1>3, <1>4, <1>5, <1>6 DEF b, l

LEMMA HeadTaken ==
  ASSUME NEW s \in Seq(Nat), s # <<>>, Increasing(s)
  PROVE  /\ Head(s) \in Nat /\ Head(s) = s[1] /\ 1 \in 1 .. Len(s)
         /\ Tail(s) \in Seq(Nat) /\ Increasing(Tail(s))
         /\ ToSet(s) = ToSet(Tail(s)) \cup {Head(s)}
         /\ \A i \in 1 .. Len(s) : s[i] >= Head(s)
         /\ \A i \in 1 .. Len(Tail(s)) : Tail(s)[i] > Head(s)
         /\ \A i \in 1 .. Len(Tail(s)) : \E j \in 1 .. Len(s) : Tail(s)[i] = s[j]
<1> DEFINE b == Tail(s)
           l == Len(s)
           h == Head(s)
<1>1. /\ b \in Seq(Nat) /\ l \in Nat \ {0} /\ Len(b) = l - 1 /\ h = s[1] /\ h \in Nat
      /\ \A i \in 1 .. l - 1 : b[i] = s[i + 1]
      /\ \A i \in 1 .. l : s[i] \in Nat
      /\ DOMAIN b = 1 .. l - 1 /\ DOMAIN s = 1 .. l
  OBVIOUS
<1>i. \A i, j \in 1 .. l : i < j => s[i] < s[j]
  BY DEF Increasing
<1> HIDE DEF b, l, h
<1>2. /\ 1 \in 1 .. l
      /\ \A i \in 1 .. l : i # 1 => i - 1 \in 1 .. l - 1 /\ (i - 1) + 1 = i
      /\ \A i \in 1 .. l - 1 : i + 1 \in 1 .. l
  BY <1>1
<1>3. \A i \in 1 .. l : i # 1 => s[i] = b[i - 1]
  BY <1>1, <1>2
<1>4. ToSet(s) = ToSet(b) \cup {h}
  <2>1. ASSUME NEW i \in 1 .. l PROVE s[i] = h \/ \E j \in 1 .. l - 1 : s[i] = b[j]
    <3>1. i = 1 \/ i - 1 \in 1 .. l - 1
      BY <1>2
    <3> QED BY <1>1, <1>3, <3>1
  <2>2. \A j \in 1 .. l - 1 : \E i \in 1 .. l : b[j] = s[i]
    BY <1>1, <1>2
  <2>3. \A y : y \in ToSet(s) <=> \E i \in 1 .. l : y = s[i]
    BY <1>1 DEF ToSet
  <2>4. \A y : y \in ToSet(b) <=> \E i \in 1 .. l - 1 : y = b[i]
    BY <1>1 DEF ToSet
  <2>5. h = s[1] /\ 1 \in 1 .. l
    BY <1>1, <1>2
  <2>6. \A y : y \in ToSet(s) <=> y \in ToSet(b) \cup {h}
    BY <2>1, <2>2, <2>3, <2>4, <2>5
  <2> QED BY <2>6
<1>5. Increasing(b)
  BY <1>1, <1>2, <1>i DEF Increasing
<1>6. \A i \in 1 .. l : s[i] >= h
  BY <1>1, <1>2, <1>i
<1>7. \A i \in 1 .. Len(b) : b[i] > h /\ \E j \in 1 .. l : b[i] = s[j]
  BY <1>1, <1>2, <1>i
<1> QED
  BY <1>1, <1>2, <1>4, <1>5, <1>6, <1>7 DEF b, l, h

\* A number that only the process has moved past leaves the ring a ring.
LEMMA RingGrows ==
  ASSUME NEW buffer, NEW n \in Nat, IsRing(buffer, n)
  PROVE  IsRing(buffer, n + 1)
BY DEF IsRing

\* A new id at the end of the ring: nothing else gets lost unnoticed.
LEMMA PushedRing ==
  ASSUME NEW buffer, NEW n \in Nat, IsRing(buffer, n)
  PROVE  /\ IsRing(Pushed(buffer, n + 1), n + 1)
         /\ Kept(Pushed(buffer, n + 1), n + 1)
         /\ \A x \in Nat : Kept(buffer, x) => Kept(Pushed(buffer, n + 1), x)
<1>0. /\ buffer \in Seq(Nat) /\ Increasing(buffer) /\ n + 1 \in Nat /\ Len(buffer) \in Nat
      /\ \A i \in 1 .. Len(buffer) : buffer[i] \in 1 .. n
  BY DEF IsRing
<1>1. ASSUME NEW s \in Seq(Nat), Increasing(s), \A i \in 1 .. Len(s) : s[i] \in 1 .. n
      PROVE  /\ IsRing(Append(s, n + 1), n + 1)
             /\ ToSet(Append(s, n + 1)) = ToSet(s) \cup {n + 1}
             /\ Append(s, n + 1) # <<>>
             /\ Head(Append(s, n + 1)) = IF s = <<>> THEN n + 1 ELSE Head(s)
  <2> DEFINE b == Append(s, n + 1)
  <2>1. /\ b \in Seq(Nat) /\ b # <<>> /\ ToSet(b) = ToSet(s) \cup {n + 1}
        /\ (\A i \in 1 .. Len(s) : s[i] < n + 1) /\ Increasing(s) => Increasing(b)
        /\ \A i \in 1 .. Len(b) : b[i] = n + 1 \/ \E j \in 1 .. Len(s) : b[i] = s[j]
    BY <1>0, <1>1, AppendedIncreases
  <2>2. Head(b) = IF s = <<>> THEN n + 1 ELSE Head(s)
    OBVIOUS
  <2> HIDE DEF b
  <2>3. \A i \in 1 .. Len(s) : s[i] < n + 1
    BY <1>1
  <2>4. ASSUME NEW i \in 1 .. Len(b) PROVE b[i] \in 1 .. n + 1
    <3>1. CASE b[i] = n + 1
      BY <3>1
    <3>2. CASE \E j \in 1 .. Len(s) : b[i] = s[j]
      <4>1. b[i] \in 1 .. n
        BY <3>2, <1>1
      <4> QED BY <4>1
    <3> QED BY <2>1, <3>1, <3>2
  <2>5. IsRing(b, n + 1)
    BY <2>1, <2>3, <2>4, <1>1 DEF IsRing
  <2> QED BY <2>1, <2>2, <2>5 DEF b
<1>2. CASE Len(buffer) < BufferSize
  <2> DEFINE b == Append(buffer, n + 1)
  <2>1. Pushed(buffer, n + 1) = b
    BY <1>2 DEF Pushed
  <2>2. /\ IsRing(b, n + 1) /\ ToSet(b) = ToSet(buffer) \cup {n + 1} /\ b # <<>>
        /\ Head(b) = IF buffer = <<>> THEN n + 1 ELSE Head(buffer)
    BY <1>0, <1>1
  <2> HIDE DEF b
  <2> QED BY <2>1, <2>2 DEF Kept
<1>3. CASE ~(Len(buffer) < BufferSize)
  <2> DEFINE t == Tail(buffer)
             b == Append(t, n + 1)
  <2>1. Pushed(buffer, n + 1) = b
    BY <1>3 DEF Pushed
  <2>2. buffer # <<>>
    BY <1>3, <1>0, FeedAssumption DEF FeedAssumption
  <2>3. /\ Head(buffer) \in Nat /\ t \in Seq(Nat) /\ Increasing(t)
        /\ ToSet(buffer) = ToSet(t) \cup {Head(buffer)}
        /\ \A i \in 1 .. Len(t) : t[i] > Head(buffer)
        /\ \A i \in 1 .. Len(t) : \E j \in 1 .. Len(buffer) : t[i] = buffer[j]
        /\ Head(buffer) = buffer[1] /\ 1 \in 1 .. Len(buffer)
    BY <1>0, <2>2, HeadTaken
  <2>4. t # <<>> => Head(t) = t[1] /\ 1 \in 1 .. Len(t) /\ Head(t) \in Nat
    BY <2>3
  <2> HIDE DEF t
  <2>5. /\ IsRing(b, n + 1) /\ ToSet(b) = ToSet(t) \cup {n + 1} /\ b # <<>>
        /\ Head(b) = IF t = <<>> THEN n + 1 ELSE Head(t)
    <3>1. \A i \in 1 .. Len(t) : t[i] \in 1 .. n
      BY <1>0, <2>3
    <3> QED BY <3>1, <2>3, <1>1
  <2> HIDE DEF b
  <2>6. Head(b) > Head(buffer) /\ Head(b) \in Nat
    <3>1. Head(buffer) \in 1 .. n
      BY <1>0, <2>3
    <3>2. CASE t = <<>>
      BY <3>1, <3>2, <2>5
    <3>3. CASE t # <<>>
      BY <3>3, <2>3, <2>4, <2>5
    <3> QED BY <3>2, <3>3
  <2>7. ASSUME NEW x \in Nat, Kept(buffer, x) PROVE Kept(b, x)
    <3>1. x \in ToSet(t) \/ x <= Head(buffer)
      BY <2>7, <2>3 DEF Kept
    <3>2. CASE x \in ToSet(t)
      BY <3>2, <2>5 DEF Kept
    <3>3. CASE x <= Head(buffer)
      BY <3>3, <2>3, <2>5, <2>6 DEF Kept
    <3> QED BY <3>1, <3>2, <3>3
  <2> QED BY <2>1, <2>5, <2>7 DEF Kept
<1> QED
  BY <1>2, <1>3

\* What a client that comes back is told: every id of the ring after its last one.
LEMMA Replayed ==
  ASSUME NEW buffer, NEW n \in Nat, NEW last \in Nat, IsRing(buffer, n)
  PROVE  LET q == After(buffer, last)
         IN  /\ q \in Seq(Nat) /\ Increasing(q)
             /\ \A i \in 1 .. Len(q) : q[i] > last /\ q[i] <= n
             /\ \A x \in ToSet(buffer) : x > last => x \in ToSet(q)
<1> DEFINE l == Len(buffer)
           Later == {i \in 1 .. l + 1 : i = l + 1 \/ buffer[i] > last}
<1>0. /\ buffer \in Seq(Nat) /\ l \in Nat
      /\ \A i \in 1 .. l : buffer[i] \in Nat /\ buffer[i] <= n
      /\ \A i, j \in 1 .. l : i < j => buffer[i] < buffer[j]
  BY DEF IsRing, Increasing
<1>1. PICK k \in Later : \A y \in Later : k <= y
  <2>1. Later \in SUBSET Nat /\ Later # {}
    BY <1>0
  <2> HIDE DEF Later
  <2> QED BY <2>1, NatLeast
<1>2. k \in 1 .. l + 1 /\ (k = l + 1 \/ buffer[k] > last)
  BY <1>1
<1>3. \A i \in 1 .. k - 1 : buffer[i] <= last
  <2>1. ASSUME NEW i \in 1 .. k - 1 PROVE ~(buffer[i] > last)
    <3>1. i \in 1 .. l /\ ~(k <= i)
      BY <1>0, <1>2
    <3>2. i \notin Later
      BY <3>1, <1>1
    <3> QED BY <3>1, <3>2, <1>0
  <2>2. \A i \in 1 .. k - 1 : i \in 1 .. l
    BY <1>0, <1>2
  <2> QED BY <2>1, <2>2, <1>0
<1>4. \A i \in k .. l : i \in 1 .. l /\ buffer[i] > last
  <2> SUFFICES ASSUME NEW i \in k .. l PROVE i \in 1 .. l /\ buffer[i] > last
    OBVIOUS
  <2>1. i \in 1 .. l /\ k \in 1 .. l /\ buffer[k] > last
    BY <1>0, <1>2
  <2>2. buffer[k] <= buffer[i]
    <3>1. i = k \/ k < i
      BY <1>2, <2>1
    <3> QED BY <3>1, <2>1, <1>0
  <2> QED BY <2>1, <2>2, <1>0
<1> DEFINE m == k - 1
           q == SubSeq(buffer, m + 1, l)
<1>5. m \in 0 .. l /\ m + 1 = k
  BY <1>0, <1>2
<1> HIDE DEF m, Later
<1>6. After(buffer, last) = q
  <2>1. /\ \A i \in 1 .. m : buffer[i] <= last
        /\ \A i \in m + 1 .. l : buffer[i] > last
    BY <1>3, <1>4, <1>5 DEF m
  <2> QED BY <1>0, <1>5, <2>1, AfterIsTail
<1>7. /\ q \in Seq(Nat) /\ Len(q) = l - m /\ DOMAIN q = 1 .. l - m
      /\ \A i \in 1 .. l - m : q[i] = buffer[m + i]
  BY <1>0, <1>5
<1> HIDE DEF q, l
<1>8. \A i \in 1 .. l - m : m + i \in 1 .. l /\ m + i \in k .. l
  BY <1>0, <1>5
<1>9. Increasing(q)
  <2> SUFFICES ASSUME NEW i \in 1 .. l - m, NEW j \in 1 .. l - m, i < j PROVE q[i] < q[j]
    BY <1>7 DEF Increasing
  <2>1. m + i < m + j /\ m + i \in 1 .. l /\ m + j \in 1 .. l
    BY <1>5, <1>8
  <2> QED BY <2>1, <1>0, <1>7
<1>10. \A i \in 1 .. Len(q) : q[i] > last /\ q[i] <= n
  BY <1>0, <1>4, <1>7, <1>8
<1>11. ASSUME NEW x \in ToSet(buffer), x > last PROVE x \in ToSet(q)
  <2>1. PICK i \in 1 .. l : x = buffer[i]
    BY DEF ToSet, l
  <2>2. ~(i \in 1 .. m)
    BY <2>1, <1>0, <1>3, <1>11 DEF m
  <2>3. i - m \in 1 .. l - m /\ m + (i - m) = i
    BY <2>2, <1>0, <1>5
  <2>4. q[i - m] = x
    BY <2>1, <2>3, <1>7
  <2> QED BY <2>3, <2>4, <1>7 DEF ToSet
<1> QED
  BY <1>6, <1>7, <1>9, <1>10, <1>11

LEMMA LastIsSeen ==
  ASSUME FeedInv
  PROVE  /\ LastSeen \in Nat
         /\ \A i \in 1 .. Len(seen) : seen[i] <= LastSeen
         /\ since # Nobody => LastSeen \in 0 .. seq[since]
<1> DEFINE l == Len(seen)
<1>1. /\ l \in Nat /\ (seen = <<>> => l = 0) /\ (seen # <<>> => l \in 1 .. l /\ LastSeen = seen[l])
      /\ (seen = <<>> => LastSeen = 0)
      /\ \A i \in 1 .. l : seen[i] \in Nat
  BY DEF FeedInv, FeedTyped, LastSeen, Last
<1>2. /\ \A i, j \in 1 .. l : i < j => seen[i] < seen[j]
      /\ since # Nobody => seq[since] \in Nat /\ \A i \in 1 .. l : seen[i] \in 1 .. seq[since]
  BY DEF FeedInv, Seen, Increasing, FeedTyped
<1> HIDE DEF l
<1>3. \A i \in 1 .. l : i <= l
  BY <1>1
<1>4. \A i \in 1 .. l : seen[i] <= LastSeen
  BY <1>1, <1>2, <1>3
<1>5. since # Nobody => LastSeen \in 0 .. seq[since]
  BY <1>1, <1>2
<1> QED
  BY <1>1, <1>4, <1>5 DEF l


\* An event of a process reaches the ring and, if the client is there, its
\* queue or the ids it cannot get any more.
LEMMA Delivered ==
  ASSUME FeedInv, NEW p \in Process, NEW of \in Of, DeliverLocal(p, of), UNCHANGED <<home, since, seen>>,
         \A m \in relayed' : m.to \in Process /\ m.of \in Of
  PROVE  FeedInv'
<1> DEFINE id == seq[p] + 1
<1>0. /\ seq \in [Process -> Nat] /\ recent \in [Process -> Seq(Nat)] /\ id \in Nat \ {0}
      /\ queue \in Seq(Nat) /\ seen \in Seq(Nat) /\ QueueSize \in Nat /\ Len(queue) \in Nat
      /\ home \in Process \cup {Nobody} /\ since \in Process \cup {Nobody} /\ Nobody \notin Process
  BY FeedAssumption DEF FeedInv, FeedTyped, FeedAssumption
<1>1. /\ seq' = [seq EXCEPT ![p] = id]
      /\ recent' = IF of = "project" THEN [recent EXCEPT ![p] = Pushed(@, id)] ELSE recent
      /\ home' = home /\ since' = since /\ seen' = seen
  BY DEF DeliverLocal
<1>2. \/ home = p /\ queue' = Append(queue, id) /\ gone' = gone
      \/ home = p /\ queue' = queue /\ gone' = gone \cup {id}
      \/ home # p /\ queue' = queue /\ (gone' = gone \/ gone' = gone \cup {id})
  <2>1. home = p => since = p
    BY <1>0 DEF FeedInv, Listening
  <2> QED BY <2>1, <1>0 DEF DeliverLocal
<1>w. /\ queue' = queue \/ queue' = Append(queue, id)
      /\ since = p /\ of # "project" /\ home # p => gone' = gone \cup {id}
  BY DEF DeliverLocal
<1>r. Ring'
  <2>1. ASSUME NEW q \in Process PROVE IsRing(recent'[q], seq'[q])
    <3>1. IsRing(recent[q], seq[q]) /\ seq[q] \in Nat
      BY <1>0 DEF FeedInv, Ring
    <3>2. CASE q = p
      <4>1. IsRing(Pushed(recent[p], id), id) /\ IsRing(recent[p], id)
        BY <3>1, <3>2, PushedRing, RingGrows
      <4>2. seq'[p] = id /\ recent'[p] = IF of = "project" THEN Pushed(recent[p], id) ELSE recent[p]
        BY <1>0, <1>1
      <4> QED BY <3>2, <4>1, <4>2
    <3>3. CASE q # p
      <4>1. seq'[q] = seq[q] /\ recent'[q] = recent[q]
        BY <1>0, <1>1, <3>3
      <4> QED BY <3>1, <4>1
    <3> QED BY <3>2, <3>3
  <2> QED BY <2>1 DEF Ring
<1>3. /\ seq' \in [Process -> Nat] /\ seq'[p] = id
      /\ \A q \in Process : q # p => seq'[q] = seq[q]
      /\ \A q \in Process : seq'[q] \in Nat /\ seq[q] \in Nat /\ seq[q] <= seq'[q]
  BY <1>0, <1>1
<1>4. recent' \in [Process -> Seq(Nat)]
  <2>1. Pushed(recent[p], id) \in Seq(Nat)
    <3>1. IsRing(recent[p], seq[p]) /\ seq[p] \in Nat
      BY <1>0 DEF FeedInv, Ring
    <3> QED BY <3>1, PushedRing DEF IsRing
  <2> QED BY <1>0, <1>1, <2>1
<1>q. /\ Append(queue, id) \in Seq(Nat)
      /\ ToSet(Append(queue, id)) = ToSet(queue) \cup {id}
      /\ (\A i \in 1 .. Len(queue) : queue[i] < id) /\ Increasing(queue) => Increasing(Append(queue, id))
      /\ \A i \in 1 .. Len(Append(queue, id)) :
           Append(queue, id)[i] = id \/ \E j \in 1 .. Len(queue) : Append(queue, id)[i] = queue[j]
  BY <1>0, AppendedIncreases
<1>l. LastSeen' = LastSeen /\ LastSeen \in Nat /\ (since # Nobody => LastSeen <= seq[since])
  BY <1>0, <1>1, LastIsSeen DEF LastSeen
<1>5. FeedTyped'
  BY <1>0, <1>1, <1>2, <1>3, <1>4, <1>q DEF FeedTyped
<1>c. /\ home # Nobody => home = since
      /\ home = Nobody => queue = <<>>
      /\ since = Nobody => seen = <<>>
  BY DEF FeedInv, Listening
<1>6. Listening'
  BY <1>0, <1>1, <1>2, <1>c DEF Listening
<1>7. Seen'
  <2>1. Increasing(seen) /\ (since # Nobody => \A i \in 1 .. Len(seen) : seen[i] \in 1 .. seq[since])
    BY DEF FeedInv, Seen
  <2>2. since # Nobody => since \in Process /\ \A i \in 1 .. Len(seen) : seen[i] \in 1 .. seq'[since]
    BY <2>1, <1>0, <1>3
  <2> QED BY <2>1, <2>2, <1>1 DEF Seen, Increasing
<1>8. Queued'
  <2>1. /\ Increasing(queue)
        /\ \A i \in 1 .. Len(queue) :
             queue[i] \in Nat /\ queue[i] > LastSeen /\ (home # Nobody => queue[i] <= seq[home])
    BY <1>0 DEF FeedInv, Queued
  <2>2. CASE queue' = queue
    <3>1. ASSUME NEW i \in 1 .. Len(queue)
          PROVE  queue[i] > LastSeen /\ (home # Nobody => queue[i] <= seq'[home])
      BY <2>1, <1>0, <1>3
    <3> QED BY <2>1, <2>2, <3>1, <1>1, <1>l DEF Queued, Increasing
  <2>3. CASE home = p /\ queue' = Append(queue, id)
    <3>1. LastSeen < id /\ seq'[home] = id /\ home # Nobody
      BY <2>3, <1>0, <1>3, <1>c, <1>l
    <3>2. \A i \in 1 .. Len(queue) : queue[i] < id
      BY <2>1, <2>3, <3>1, <1>0
    <3>3. Increasing(Append(queue, id))
      BY <2>1, <3>2, <1>q
    <3>4. \A i \in 1 .. Len(Append(queue, id)) : Append(queue, id)[i] > LastSeen /\ Append(queue, id)[i] <= id
      <4> HIDE DEF id
      <4>1. ASSUME NEW x, x = id \/ \E j \in 1 .. Len(queue) : x = queue[j]
            PROVE  x > LastSeen /\ x <= id
        <5>1. CASE x = id
          BY <5>1, <3>1, <1>0, <1>l
        <5>2. CASE \E j \in 1 .. Len(queue) : x = queue[j]
          <6>1. PICK j \in 1 .. Len(queue) : x = queue[j]
            BY <5>2
          <6> QED BY <6>1, <2>1, <3>2, <1>0, <1>l
        <5> QED BY <4>1, <5>1, <5>2
      <4> QED BY <4>1, <1>q
    <3> DEFINE a == Append(queue, id)
    <3>5. Increasing(a) /\ queue' = a /\ \A i \in 1 .. Len(a) : a[i] > LastSeen /\ a[i] <= seq'[home]
      BY <2>3, <3>1, <3>3, <3>4
    <3> HIDE DEF a
    <3> QED BY <3>5, <1>1, <1>l DEF Queued, Increasing
  <2> QED BY <1>2, <2>2, <2>3
<1>h. Held'
  <2> SUFFICES ASSUME home = Nobody, since # Nobody, NEW x \in 1 .. seq'[since]
               PROVE  Kept(recent'[since], x) \/ x \in ToSet(seen) \cup gone'
    BY <1>1 DEF Held
  <2>1. \A y \in 1 .. seq[since] : Kept(recent[since], y) \/ y \in ToSet(seen) \cup gone
    BY DEF FeedInv, Held
  <2>2. gone \subseteq gone'
    BY <1>2
  <2>3. CASE since # p
    <3>1. since \in Process /\ seq'[since] = seq[since] /\ recent'[since] = recent[since]
      BY <2>3, <1>0, <1>1
    <3> QED BY <3>1, <2>1, <2>2
  <2>4. CASE since = p
    <3>1. home # p /\ seq[p] \in Nat /\ IsRing(recent[p], seq[p])
      BY <1>0 DEF FeedInv, Ring
    <3>2. x \in 1 .. seq[p] \/ x = id
      <4>1. x \in 1 .. id
        BY <2>4, <1>3
      <4> QED BY <4>1, <3>1
    <3>3. CASE of = "project"
      <4>1. recent'[p] = Pushed(recent[p], id)
        BY <3>3, <1>0, <1>1
      <4>2. Kept(Pushed(recent[p], id), id) /\ \A y \in Nat : Kept(recent[p], y) => Kept(Pushed(recent[p], id), y)
        BY <3>1, PushedRing
      <4>3. x \in Nat
        BY <3>2, <1>0
      <4> HIDE DEF id
      <4> QED BY <2>1, <2>2, <2>4, <3>2, <4>1, <4>2, <4>3
    <3>4. CASE of # "project"
      <4>1. recent'[p] = recent[p] /\ gone' = gone \cup {id}
        BY <3>4, <3>1, <2>4, <1>1, <1>w
      <4> HIDE DEF id
      <4> QED BY <2>1, <2>2, <2>4, <3>2, <4>1
    <3> QED BY <3>3, <3>4
  <2> QED BY <2>3, <2>4
<1>9. FeedHasNoGap'
  <2>1. /\ \A i \in 1..Len(seen) - 1 : seen[i] < seen[i + 1]
        /\ \A x \in 1..LastSeen : x \in ToSet(seen) \cup gone
        /\ home # Nobody => \A x \in 1..seq[home] : x \in ToSet(seen) \cup ToSet(queue) \cup gone
    BY DEF FeedInv, FeedHasNoGap
  <2>2. gone \subseteq gone' /\ ToSet(queue) \subseteq ToSet(queue')
    BY <1>2, <1>q
  <2>3. home = p => id \in ToSet(queue') \cup gone'
    BY <1>2, <1>q
  <2>4. home # Nobody => \A x \in 1..seq'[home] : x \in ToSet(seen) \cup ToSet(queue') \cup gone'
    <3> SUFFICES ASSUME home # Nobody, NEW x \in 1..seq'[home]
                 PROVE  x \in ToSet(seen) \cup ToSet(queue') \cup gone'
      OBVIOUS
    <3>1. x \in 1..seq[home] \/ (home = p /\ x = id)
      <4>1. CASE home = p
        <5>1. x \in 1..id
          BY <4>1, <1>3
        <5> QED BY <4>1, <5>1, <1>0
      <4>2. CASE home # p
        BY <4>2, <1>0, <1>3
      <4> QED BY <4>1, <4>2
    <3> QED BY <3>1, <2>1, <2>2, <2>3
  <2>5. ToSet(seen') = ToSet(seen)
    BY <1>1
  <2> QED BY <2>1, <2>2, <2>4, <2>5, <1>1, <1>l DEF FeedHasNoGap
<1> QED
  BY <1>5, <1>6, <1>7, <1>8, <1>9, <1>h, <1>r DEF FeedInv


\* A client comes, for the first time or after the id it saw last.
LEMMA Connects ==
  ASSUME FeedInv, NEW p \in Process, Connect(p)
  PROVE  FeedInv'
<1> DEFINE n == seq[p]
<1>0. /\ seq \in [Process -> Nat] /\ n \in Nat /\ seen \in Seq(Nat) /\ Nobody \notin Process
      /\ IsRing(recent[p], n)
  BY FeedAssumption DEF FeedInv, FeedTyped, FeedAssumption, Ring
<1>1. /\ home = Nobody /\ since \in {Nobody, p} /\ home' = p /\ since' = p
      /\ seq' = seq /\ recent' = recent /\ relayed' = relayed /\ seen' = seen
  BY DEF Connect
<1>2. /\ (since = Nobody => seen = <<>>) /\ Increasing(seen)
      /\ (since # Nobody => \A i \in 1 .. Len(seen) : seen[i] \in 1 .. n)
      /\ \A i \in 1..Len(seen) - 1 : seen[i] < seen[i + 1]
      /\ \A x \in 1..LastSeen : x \in ToSet(seen) \cup gone
  BY <1>1 DEF FeedInv, Listening, Seen, FeedHasNoGap
<1>3. /\ LastSeen' = LastSeen /\ LastSeen \in Nat /\ (since # Nobody => LastSeen \in 0 .. n)
      /\ (since = Nobody => LastSeen = 0)
  BY <1>1, <1>2, LastIsSeen DEF LastSeen
<1>4. /\ queue' \in Seq(Nat) /\ Increasing(queue')
      /\ \A i \in 1 .. Len(queue') : queue'[i] > LastSeen /\ queue'[i] <= n
      /\ \A x \in LastSeen + 1 .. n : x \in ToSet(queue') \cup gone'
      /\ since # Nobody => gone \subseteq gone'
  <2>1. CASE since = Nobody
    <3>1. queue' = <<>> /\ gone' = 1 .. n
      BY <2>1 DEF Connect
    <3>2. \A x \in LastSeen + 1 .. n : x \in 1 .. n
      BY <1>0, <1>3
    <3> QED BY <2>1, <3>1, <3>2 DEF Increasing
  <2>2. CASE since # Nobody
    <3> DEFINE q == After(recent[p], LastSeen)
    <3>1. /\ queue' = q
          /\ gone' = gone \cup {x \in 1 .. n : recent[p] # <<>> /\ x < Head(recent[p])}
      BY <2>2 DEF Connect, ReplaySince
    <3>2. /\ q \in Seq(Nat) /\ Increasing(q)
          /\ \A i \in 1 .. Len(q) : q[i] > LastSeen /\ q[i] <= n
          /\ \A x \in ToSet(recent[p]) : x > LastSeen => x \in ToSet(q)
      BY <1>0, <1>3, Replayed
    <3> HIDE DEF q
    <3>3. \A x \in 1 .. n : Kept(recent[p], x) \/ x \in ToSet(seen) \cup gone
      BY <2>2, <1>1 DEF FeedInv, Held
    <3>4. ASSUME NEW x \in LastSeen + 1 .. n PROVE x \in ToSet(q) \cup gone'
      <4>1. x \in 1 .. n /\ x > LastSeen
        BY <1>0, <1>3
      <4>2. x \notin ToSet(seen)
        <5>1. \A i \in 1 .. Len(seen) : seen[i] <= LastSeen
          BY LastIsSeen
        <5>2. \A y \in ToSet(seen) : \E i \in 1 .. Len(seen) : y = seen[i]
          BY <1>0 DEF ToSet
        <5>3. \A i \in 1 .. Len(seen) : seen[i] \in Nat
          BY <1>0
        <5> QED BY <4>1, <5>1, <5>2, <5>3, <1>3
      <4> QED BY <3>1, <3>2, <3>3, <4>1, <4>2 DEF Kept
    <3> QED BY <3>1, <3>2, <3>4
  <2> QED BY <2>1, <2>2
<1>5. FeedTyped'
  BY <1>0, <1>1, <1>4 DEF FeedTyped, FeedInv
<1>6. Ring'
  BY <1>1 DEF FeedInv, Ring
<1>7. Listening'
  BY <1>0, <1>1 DEF Listening
<1>8. Seen'
  <2>1. \A i \in 1 .. Len(seen) : seen[i] \in 1 .. n
    BY <1>2, <1>0
  <2> QED BY <2>1, <1>1, <1>2 DEF Seen, Increasing
<1>9. Queued'
  BY <1>1, <1>3, <1>4 DEF Queued, Increasing
<1>10. FeedHasNoGap'
  <2>1. \A x \in 1 .. LastSeen : x \in ToSet(seen) \cup gone'
    BY <1>2, <1>3, <1>4
  <2>2. \A x \in 1 .. n : x \in ToSet(seen) \cup ToSet(queue') \cup gone'
    <3>1. \A x \in 1 .. n : x \in 1 .. LastSeen \/ x \in LastSeen + 1 .. n
      BY <1>0, <1>3
    <3> QED BY <3>1, <2>1, <1>4
  <2>3. ToSet(seen') = ToSet(seen) /\ seq'[home'] = n
    BY <1>1
  <2> QED BY <2>1, <2>2, <2>3, <1>1, <1>2, <1>3 DEF FeedHasNoGap
<1>11. Held'
  BY <1>0, <1>1 DEF Held
<1> QED
  BY <1>5, <1>6, <1>7, <1>8, <1>9, <1>10, <1>11 DEF FeedInv

\* The head of the queue is the next id: what lies before it was received or is gone.
LEMMA Receives ==
  ASSUME FeedInv, Receive
  PROVE  FeedInv'
<1> DEFINE h == Head(queue)
<1>0. /\ seq \in [Process -> Nat] /\ seen \in Seq(Nat) /\ queue \in Seq(Nat) /\ queue # <<>>
      /\ home \in Process /\ since = home /\ home # Nobody /\ Increasing(queue) /\ Increasing(seen)
      /\ seq[home] \in Nat
  BY DEF FeedInv, FeedTyped, Listening, Receive, Queued, Seen
<1>1. /\ seen' = Append(seen, h) /\ queue' = Tail(queue)
      /\ home' = home /\ since' = since /\ seq' = seq /\ recent' = recent
      /\ relayed' = relayed /\ gone' = gone
  BY DEF Receive
<1>2. /\ h \in Nat /\ h = queue[1] /\ 1 \in 1 .. Len(queue)
      /\ Tail(queue) \in Seq(Nat) /\ Increasing(Tail(queue))
      /\ ToSet(queue) = ToSet(Tail(queue)) \cup {h}
      /\ \A i \in 1 .. Len(queue) : queue[i] >= h
      /\ \A i \in 1 .. Len(Tail(queue)) : Tail(queue)[i] > h
      /\ \A i \in 1 .. Len(Tail(queue)) : \E j \in 1 .. Len(queue) : Tail(queue)[i] = queue[j]
  BY <1>0, HeadTaken
<1> HIDE DEF h
<1>3. /\ Append(seen, h) \in Seq(Nat) /\ Append(seen, h) # <<>> /\ Last(Append(seen, h)) = h
      /\ ToSet(Append(seen, h)) = ToSet(seen) \cup {h}
      /\ (\A i \in 1 .. Len(seen) : seen[i] < h) => Increasing(Append(seen, h))
      /\ \A i \in 1 .. Len(Append(seen, h)) :
           Append(seen, h)[i] = h \/ \E j \in 1 .. Len(seen) : Append(seen, h)[i] = seen[j]
  BY <1>0, <1>2, AppendedIncreases
<1>4. /\ \A i \in 1 .. Len(queue) : queue[i] > LastSeen /\ queue[i] <= seq[home]
      /\ \A i \in 1 .. Len(seen) : seen[i] \in 1 .. seq[home]
  BY <1>0 DEF FeedInv, Queued, Seen
<1>5. LastSeen \in Nat /\ \A i \in 1 .. Len(seen) : seen[i] \in Nat /\ seen[i] <= LastSeen
  BY <1>0, LastIsSeen
<1>6. LastSeen' = h
  BY <1>1, <1>3 DEF LastSeen
<1>7. h > LastSeen /\ h \in 1 .. seq[home]
  BY <1>0, <1>2, <1>4, <1>5
<1>8. Increasing(Append(seen, h))
  BY <1>2, <1>3, <1>5, <1>7
<1>9. FeedTyped'
  BY <1>1, <1>2, <1>3 DEF FeedTyped, FeedInv
<1>10. Ring'
  BY <1>1 DEF FeedInv, Ring
<1>11. Listening'
  BY <1>0, <1>1 DEF Listening
<1>12. Seen'
  <2>1. \A i \in 1 .. Len(Append(seen, h)) : Append(seen, h)[i] \in 1 .. seq[home]
    BY <1>3, <1>4, <1>7
  <2> DEFINE a == Append(seen, h)
  <2>2. Increasing(a) /\ seen' = a /\ \A i \in 1 .. Len(a) : a[i] \in 1 .. seq[home]
    BY <2>1, <1>1, <1>8
  <2> HIDE DEF a
  <2> QED BY <2>2, <1>0, <1>1 DEF Seen, Increasing
<1>13. Queued'
  <2>1. \A i \in 1 .. Len(Tail(queue)) : Tail(queue)[i] > h /\ Tail(queue)[i] <= seq[home]
    BY <1>2, <1>4
  <2> DEFINE a == Tail(queue)
  <2>2. Increasing(a) /\ queue' = a /\ \A i \in 1 .. Len(a) : a[i] > h /\ a[i] <= seq[home]
    BY <2>1, <1>1, <1>2
  <2> HIDE DEF a
  <2> QED BY <2>2, <1>1, <1>6 DEF Queued, Increasing
<1>14. FeedHasNoGap'
  <2> DEFINE a == Append(seen, h)
  <2>1. /\ \A x \in 1..LastSeen : x \in ToSet(seen) \cup gone
        /\ \A x \in 1..seq[home] : x \in ToSet(seen) \cup ToSet(queue) \cup gone
    BY <1>0 DEF FeedInv, FeedHasNoGap
  <2>2. /\ a \in Seq(Nat) /\ Increasing(a) /\ ToSet(a) = ToSet(seen) \cup {h} /\ seen' = a
    BY <1>1, <1>3, <1>8
  <2> HIDE DEF a
  <2>3. \A i \in 1 .. Len(a) - 1 : a[i] < a[i + 1]
    <3>1. \A i \in 1 .. Len(a) - 1 : i \in 1 .. Len(a) /\ i + 1 \in 1 .. Len(a) /\ i < i + 1
      BY <2>2
    <3> QED BY <3>1, <2>2 DEF Increasing
  <2>4. ASSUME NEW x \in ToSet(queue) PROVE x >= h
    <3>1. PICK i \in 1 .. Len(queue) : x = queue[i]
      BY <1>0 DEF ToSet
    <3> QED BY <3>1, <1>2
  <2>5. ASSUME NEW x \in 1 .. h PROVE x \in ToSet(a) \cup gone
    <3>1. x \in 1 .. seq[home] /\ (x = h \/ ~(x >= h))
      BY <1>7, <1>2, <1>0
    <3> QED BY <3>1, <2>1, <2>2, <2>4
  <2>6. \A x \in 1..seq[home] : x \in ToSet(a) \cup ToSet(Tail(queue)) \cup gone
    BY <2>1, <2>2, <1>2
  <2> QED BY <2>2, <2>3, <2>5, <2>6, <1>1, <1>6 DEF FeedHasNoGap
<1>15. Held'
  BY <1>0, <1>1 DEF Held
<1> QED
  BY <1>9, <1>10, <1>11, <1>12, <1>13, <1>14, <1>15 DEF FeedInv

LEMMA Disconnects ==
  ASSUME FeedInv, Disconnect
  PROVE  FeedInv'
<1>1. /\ home # Nobody /\ home' = Nobody /\ queue' = <<>> /\ since' = since /\ seen' = seen
      /\ seq' = seq /\ recent' = recent /\ relayed' = relayed
      /\ gone' = gone \cup (ToSet(queue) \ ToSet(recent[home]))
  BY DEF Disconnect
<1>2. LastSeen' = LastSeen /\ ToSet(seen') = ToSet(seen)
  BY <1>1 DEF LastSeen
<1>3. FeedTyped' /\ Ring'
  BY <1>1 DEF FeedInv, FeedTyped, Ring
<1>4. Listening' /\ Seen'
  BY <1>1 DEF FeedInv, Listening, Seen, Increasing
<1>5. Queued'
  BY <1>1 DEF Queued, Increasing
<1>6. FeedHasNoGap'
  BY <1>1, <1>2 DEF FeedInv, FeedHasNoGap
<1>7. Held'
  <2>1. since = home /\ \A x \in 1 .. seq[home] : x \in ToSet(seen) \cup ToSet(queue) \cup gone
    BY <1>1 DEF FeedInv, Listening, FeedHasNoGap
  <2>2. \A x : x \in ToSet(queue) => x \in ToSet(recent[home]) \/ x \in gone'
    BY <1>1
  <2>3. ASSUME NEW x \in 1 .. seq[home]
        PROVE  Kept(recent[home], x) \/ x \in ToSet(seen) \cup gone'
    BY <2>1, <2>2, <1>1 DEF Kept
  <2> QED BY <2>1, <2>3, <1>1, <1>2 DEF Held
<1> QED
  BY <1>3, <1>4, <1>5, <1>6, <1>7 DEF FeedInv

\* A process that starts again numbers from one; its client starts anew.
LEMMA Restarts ==
  ASSUME FeedInv, NEW p \in Process, Restart(p)
  PROVE  FeedInv'
<1>0. /\ seq \in [Process -> Nat] /\ recent \in [Process -> Seq(Nat)] /\ Nobody \notin Process
      /\ home \in Process \cup {Nobody} /\ since \in Process \cup {Nobody}
      /\ (home # Nobody => home = since) /\ (home = Nobody => queue = <<>>)
      /\ (since = Nobody => seen = <<>>)
  BY FeedAssumption DEF FeedInv, FeedTyped, FeedAssumption, Listening
<1>1. /\ seq' = [seq EXCEPT ![p] = 0] /\ recent' = [recent EXCEPT ![p] = <<>>] /\ relayed' = relayed
      /\ \/ since = p /\ home' = Nobody /\ since' = Nobody /\ queue' = <<>> /\ seen' = <<>> /\ gone' = {}
         \/ since # p /\ home' = home /\ since' = since /\ queue' = queue /\ seen' = seen /\ gone' = gone
  BY DEF Restart
<1>2. seq' \in [Process -> Nat] /\ recent' \in [Process -> Seq(Nat)]
  BY <1>0, <1>1
<1>3. FeedTyped'
  BY <1>0, <1>1, <1>2 DEF FeedTyped, FeedInv
<1>4. Ring'
  <2>1. ASSUME NEW q \in Process PROVE IsRing(recent'[q], seq'[q])
    <3>1. CASE q = p
      <4>1. recent'[q] = <<>> /\ seq'[q] = 0
        BY <3>1, <1>0, <1>1
      <4> QED BY <4>1 DEF IsRing, Increasing
    <3>2. CASE q # p
      <4>1. recent'[q] = recent[q] /\ seq'[q] = seq[q]
        BY <3>2, <1>0, <1>1
      <4> QED BY <4>1 DEF FeedInv, Ring
    <3> QED BY <3>1, <3>2
  <2> QED BY <2>1 DEF Ring
<1>5. Listening'
  BY <1>0, <1>1 DEF Listening
<1>6. CASE since = p
  <2>1. home' = Nobody /\ since' = Nobody /\ queue' = <<>> /\ seen' = <<>> /\ gone' = {}
    BY <1>1, <1>6
  <2>2. Seen' /\ Queued'
    BY <2>1 DEF Seen, Queued, Increasing
  <2>3. FeedHasNoGap' /\ Held'
    BY <2>1 DEF FeedHasNoGap, LastSeen, Held
  <2> QED BY <1>3, <1>4, <1>5, <2>2, <2>3 DEF FeedInv
<1>7. CASE since # p
  <2>1. home' = home /\ since' = since /\ queue' = queue /\ seen' = seen /\ gone' = gone
    BY <1>1, <1>7
  <2>2. /\ since # Nobody => seq'[since] = seq[since]
        /\ home # Nobody => seq'[home] = seq[home]
        /\ LastSeen' = LastSeen
    BY <2>1, <1>0, <1>1, <1>7 DEF LastSeen
  <2>6. Held'
    <3>1. since # Nobody => recent'[since] = recent[since]
      BY <1>0, <1>1, <1>7
    <3> QED BY <3>1, <2>1, <2>2 DEF FeedInv, Held
  <2>3. Seen'
    BY <2>1, <2>2 DEF FeedInv, Seen, Increasing
  <2>4. Queued'
    BY <2>1, <2>2 DEF FeedInv, Queued, Increasing
  <2>5. FeedHasNoGap'
    BY <2>1, <2>2 DEF FeedInv, FeedHasNoGap
  <2> QED BY <1>3, <1>4, <1>5, <2>3, <2>4, <2>5, <2>6 DEF FeedInv
<1> QED
  BY <1>6, <1>7

LEMMA NextFeedInv ==
  ASSUME FeedInv, [FeedNext]_feedVars
  PROVE  FeedInv'
<1>1. ASSUME NEW p \in Process, Broadcast(p) PROVE FeedInv'
  <2>1. \A m \in relayed' : m.to \in Process /\ m.of \in Of
    BY <1>1 DEF FeedInv, FeedTyped, Broadcast
  <2>2. PICK of \in Of : DeliverLocal(p, of)
    BY <1>1 DEF Broadcast
  <2>3. UNCHANGED <<home, since, seen>>
    BY <1>1 DEF Broadcast
  <2> QED BY <2>1, <2>2, <2>3, Delivered
<1>2. ASSUME NEW m \in relayed, Relay(m) PROVE FeedInv'
  <2>1. m.to \in Process /\ m.of \in Of /\ \A o \in relayed' : o.to \in Process /\ o.of \in Of
    BY <1>2 DEF FeedInv, FeedTyped, Relay
  <2> QED BY <1>2, <2>1, Delivered DEF Relay
<1>3. CASE UNCHANGED feedVars
  <2>1. /\ home' = home /\ since' = since /\ queue' = queue /\ seen' = seen /\ gone' = gone
        /\ seq' = seq /\ recent' = recent /\ relayed' = relayed
    BY <1>3 DEF feedVars
  <2>2. LastSeen' = LastSeen
    BY <2>1 DEF LastSeen
  <2>3. FeedTyped' /\ Ring' /\ Listening' /\ Held'
    BY <2>1 DEF FeedInv, FeedTyped, Ring, Listening, Held
  <2>4. Seen' /\ Queued'
    BY <2>1, <2>2 DEF FeedInv, Seen, Queued, Increasing
  <2>5. FeedHasNoGap'
    BY <2>1, <2>2 DEF FeedInv, FeedHasNoGap
  <2> QED BY <2>3, <2>4, <2>5 DEF FeedInv
<1> QED
  BY <1>1, <1>2, <1>3, Connects, Receives, Disconnects, Restarts DEF FeedNext

\* For every number of processes and size of ring and queue: a client that stays
\* with one process sees its events in order, none twice, and of its project's
\* misses none that a full queue or the turning ring did not take (EventBus,
\* RedisSSEBridge).
THEOREM FeedGapless == FeedSpec => []FeedHasNoGap
<1>1. FeedInit => FeedInv
  <2> SUFFICES ASSUME FeedInit PROVE FeedInv
    OBVIOUS
  <2>1. /\ seq = [p \in Process |-> 0] /\ recent = [p \in Process |-> <<>>] /\ relayed = {}
        /\ home = Nobody /\ since = Nobody /\ queue = <<>> /\ seen = <<>> /\ gone = {}
    BY DEF FeedInit
  <2>2. FeedTyped /\ Listening
    BY <2>1 DEF FeedTyped, Listening
  <2>3. Ring
    BY <2>1 DEF Ring, IsRing, Increasing
  <2>4. Seen /\ Queued /\ Held /\ FeedHasNoGap
    BY <2>1 DEF Seen, Queued, Held, FeedHasNoGap, Increasing, LastSeen
  <2> QED BY <2>2, <2>3, <2>4 DEF FeedInv
<1>2. FeedInv => FeedHasNoGap
  BY DEF FeedInv
<1> QED
  BY <1>1, <1>2, NextFeedInv, PTL DEF FeedSpec

------------------------------------------------------------------------------
(* Migrations: a simple script that is recorded has made all it makes,     *)
(* and the rows that one script moves are never without a table.           *)

\* What the proof needs of the types
MigrationsTyped == script \in [Starter -> Nat \ {0}] /\ stmt \in [Starter -> Nat]

\* A process in the middle of a simple script has made what the statements
\* behind it make.
BehindIsMade ==
  \A p \in Starter :
    stmt[p] > 0 /\ Simple(Name(p)) =>
      /\ stmt[p] <= Len(Statements[Name(p)]) + 1
      /\ \A i \in 1..stmt[p] - 1 : Statements[Name(p)][i].name \in disk

MigrationsInv == MigrationsTyped /\ BehindIsMade /\ SimpleScriptsDone

\* A simple script has at least one statement.
LEMMA SimpleHasStatements ==
  ASSUME NEW s, Simple(s)
  PROVE  Len(Statements[s]) \in Nat \ {0}
<1>1. Statements[s] \in Seq([op : {"ensure", "add"}, name : STRING]) /\ Statements[s] # <<>>
  BY DEF Simple
<1>2. ASSUME NEW S, NEW q \in Seq(S), q # <<>> PROVE Len(q) \in Nat \ {0}
  BY <1>2
<1> QED BY <1>1, <1>2

\* No step unmakes a column or an index.
LEMMA DiskGrows == [MigrationsNext]_migrationVars => disk \subseteq disk'
<1> SUFFICES ASSUME [MigrationsNext]_migrationVars PROVE disk \subseteq disk'
  OBVIOUS
<1>1. CASE UNCHANGED migrationVars
  BY <1>1 DEF migrationVars
<1>2. CASE MigrationsNext
  BY <1>2 DEF MigrationsNext, Step, Schema, ReadVersions, Skip, Begin, RunStatement,
              DuplicateColumn, StatementFails, Record, Started, Dies, NextFile,
              Ensure, AddColumn, MakeCopy, CopyRows, DropTable, RenameTable
<1> QED BY <1>1, <1>2

\* A process that goes on to the next file, having recorded the one it was at
\* or not, keeps the invariant, if what it recorded is done.
LEMMA NextFileKeeps ==
  ASSUME MigrationsInv, NEW p \in Starter, Working(p), NextFile(p),
         \/ recorded' = recorded
         \/ recorded' = recorded \cup {Name(p)} /\ (Simple(Name(p)) => Done(Name(p)))
  PROVE  MigrationsInv'
<1>2. MigrationsTyped'
  BY DEF MigrationsInv, MigrationsTyped, NextFile
<1>3. BehindIsMade'
  <2> SUFFICES ASSUME NEW q \in Starter, stmt'[q] > 0
               PROVE  (Simple(Name(q)) =>
                         /\ stmt[q] <= Len(Statements[Name(q)]) + 1
                         /\ \A i \in 1..stmt[q] - 1 : Statements[Name(q)][i].name \in disk)'
    BY DEF BehindIsMade
  <2>1. q # p /\ stmt'[q] = stmt[q] /\ script'[q] = script[q]
    BY DEF NextFile, MigrationsInv, MigrationsTyped
  <2>2. Name(q)' = Name(q) /\ disk' = disk
    BY <2>1 DEF NextFile, Name
  <2> QED BY <2>1, <2>2 DEF MigrationsInv, BehindIsMade, Simple
<1>4. SimpleScriptsDone'
  BY DEF MigrationsInv, SimpleScriptsDone, NextFile, Done, Simple
<1> QED BY <1>2, <1>3, <1>4 DEF MigrationsInv

\* A step that leaves the files, the statements and what is recorded alone keeps
\* the invariant.
LEMMA SameScriptKeeps ==
  ASSUME MigrationsInv, disk \subseteq disk', UNCHANGED <<recorded, script, stmt>>, MigrationsTyped'
  PROVE  MigrationsInv'
<1>1. \A q \in Starter : Name(q)' = Name(q)
  BY DEF Name
<1>2. BehindIsMade'
  BY <1>1 DEF MigrationsInv, BehindIsMade, Simple
<1>3. SimpleScriptsDone'
  BY DEF MigrationsInv, SimpleScriptsDone, Done, Simple
<1> QED BY <1>2, <1>3 DEF MigrationsInv

\* A step after which a process is before the first statement of its script.
LEMMA RestartKeeps ==
  ASSUME MigrationsInv, NEW p \in Starter, disk' = disk, recorded' = recorded, MigrationsTyped',
         stmt' = [stmt EXCEPT ![p] = 0],
         \A q \in Starter \ {p} : script'[q] = script[q]
  PROVE  MigrationsInv'
<1>1. \A q \in Starter \ {p} : Name(q)' = Name(q) /\ stmt'[q] = stmt[q]
  BY DEF Name, MigrationsInv, MigrationsTyped
<1>2. stmt'[p] = 0
  BY DEF MigrationsInv, MigrationsTyped
<1>3. BehindIsMade'
  BY <1>1, <1>2 DEF MigrationsInv, BehindIsMade, Simple
<1>4. SimpleScriptsDone'
  BY DEF MigrationsInv, SimpleScriptsDone, Done, Simple
<1> QED BY <1>3, <1>4 DEF MigrationsInv

\* The process begins a script: nothing is behind it.
LEMMA BeginKeeps ==
  ASSUME MigrationsInv, NEW p \in Starter, Begin(p)
  PROVE  MigrationsInv'
<1>1. MigrationsTyped'
  BY DEF MigrationsInv, MigrationsTyped, Begin
<1>2. \A q \in Starter : Name(q)' = Name(q)
  BY DEF Name, Begin
<1>3. \A q \in Starter \ {p} : stmt'[q] = stmt[q]
  BY DEF Begin, MigrationsInv, MigrationsTyped
<1>4. stmt'[p] = 1
  BY DEF Begin, MigrationsInv, MigrationsTyped
<1>5. Simple(Name(p)) => Len(Statements[Name(p)]) \in Nat \ {0}
  BY SimpleHasStatements
<1>6. UNCHANGED <<script, disk, recorded>>
  BY DEF Begin
<1>7. BehindIsMade'
  BY <1>2, <1>3, <1>4, <1>5, <1>6 DEF MigrationsInv, BehindIsMade, Simple
<1>8. SimpleScriptsDone'
  BY <1>6 DEF MigrationsInv, SimpleScriptsDone, Done, Simple
<1> QED BY <1>1, <1>7, <1>8 DEF MigrationsInv

\* A statement that runs makes what it makes, and is behind the process then.
LEMMA RunStatementKeeps ==
  ASSUME MigrationsInv, NEW p \in Starter, RunStatement(p), disk \subseteq disk'
  PROVE  MigrationsInv'
<1> DEFINE st == Statement(p)
<1>1. stmt[p] \in 1..Len(Statements[Name(p)])
  BY DEF RunStatement, InStatement
<1>2. MigrationsTyped'
  BY DEF MigrationsInv, MigrationsTyped, RunStatement
<1>3. UNCHANGED <<script, recorded>> /\ stmt'[p] = stmt[p] + 1
  BY DEF MigrationsInv, MigrationsTyped, RunStatement
<1>4. \A q \in Starter : Name(q)' = Name(q)
  BY <1>3 DEF Name
<1>5. \A q \in Starter \ {p} : stmt'[q] = stmt[q]
  BY DEF RunStatement, MigrationsInv, MigrationsTyped
<1>6. st.op \in {"ensure", "add"} => st.name \in disk'
  BY DEF RunStatement, Ensure, AddColumn, MakeCopy, CopyRows, DropTable, RenameTable
<1>7. BehindIsMade'
  <2> SUFFICES ASSUME NEW q \in Starter, stmt'[q] > 0, Simple(Name(q))
               PROVE  /\ stmt'[q] <= Len(Statements[Name(q)]) + 1
                      /\ \A i \in 1..stmt'[q] - 1 : Statements[Name(q)][i].name \in disk'
    BY <1>3, <1>4 DEF BehindIsMade, Simple
  <2>1. CASE q # p
    BY <2>1, <1>5 DEF MigrationsInv, BehindIsMade
  <2>2. CASE q = p
    <3>1. stmt[p] \in Nat /\ stmt[p] > 0 /\ Len(Statements[Name(p)]) \in Nat
      BY <1>1, <2>2, SimpleHasStatements DEF MigrationsInv, MigrationsTyped
    <3>2. stmt'[p] <= Len(Statements[Name(p)]) + 1
      BY <1>1, <1>3, <3>1
    <3>3. ASSUME NEW i \in 1..stmt[p] PROVE Statements[Name(p)][i].name \in disk'
      <4>1. CASE i = stmt[p]
        <5>1. Statements[Name(p)] \in Seq([op : {"ensure", "add"}, name : STRING])
          BY <2>2 DEF Simple
        <5>2. Statements[Name(p)][stmt[p]] \in [op : {"ensure", "add"}, name : STRING]
          <6>1. ASSUME NEW S, NEW q0 \in Seq(S), NEW i0 \in 1..Len(q0) PROVE q0[i0] \in S
            BY <6>1
          <6>2. stmt[p] \in 1..Len(Statements[Name(p)])
            BY <1>1
          <6> QED BY <5>1, <6>1, <6>2
        <5>3. st.op \in {"ensure", "add"}
          BY <5>2 DEF Statement
        <5> QED BY <4>1, <5>3, <1>6 DEF Statement
      <4>2. CASE i # stmt[p]
        <5>1. i \in 1..stmt[p] - 1
          BY <4>2, <3>1
        <5>2. Statements[Name(p)][i].name \in disk
          BY <5>1, <3>1, <2>2 DEF MigrationsInv, BehindIsMade
        <5> QED BY <5>2
      <4> QED BY <4>1, <4>2
    <3> QED BY <2>2, <1>3, <3>1, <3>2, <3>3
  <2> QED BY <2>1, <2>2
<1>8. SimpleScriptsDone'
  BY <1>3 DEF MigrationsInv, SimpleScriptsDone, Done, Simple
<1> QED BY <1>2, <1>7, <1>8 DEF MigrationsInv

\* A column that is a duplicate is the last that a simple script makes.
LEMMA DuplicateIsDone ==
  ASSUME MigrationsInv, NEW p \in Starter, DuplicateColumn(p), Simple(Name(p))
  PROVE  Done(Name(p))
<1> DEFINE n == Len(Statements[Name(p)])
<1>1. stmt[p] \in 1..n /\ Statement(p).op = "add" /\ Statement(p).name \in disk
  BY DEF DuplicateColumn, InStatement
<1>2. n \in Nat \ {0}
  BY SimpleHasStatements
<1>3. stmt[p] = n
  <2> SUFFICES ASSUME stmt[p] # n PROVE FALSE
    OBVIOUS
  <2>1. stmt[p] \in 1..n - 1
    BY <1>1, <1>2
  <2>2. Statements[Name(p)][stmt[p]].op = "ensure"
    BY <2>1 DEF Simple
  <2> QED BY <2>2, <1>1 DEF Statement
<1>4. \A i \in 1..n - 1 : Statements[Name(p)][i].name \in disk
  BY <1>1, <1>2, <1>3 DEF MigrationsInv, BehindIsMade
<1>5. Statements[Name(p)][n].name \in disk
  BY <1>1, <1>3 DEF Statement
<1>6. \A i \in 1..n : i = n \/ i \in 1..n - 1
  BY <1>2
<1> QED BY <1>4, <1>5, <1>6 DEF Done

\* Behind its last statement a simple script is done.
LEMMA RecordIsDone ==
  ASSUME MigrationsInv, NEW p \in Starter, Record(p), Simple(Name(p))
  PROVE  Done(Name(p))
<1> DEFINE n == Len(Statements[Name(p)])
<1>1. stmt[p] > n /\ stmt[p] \in Nat
  BY DEF Record, MigrationsInv, MigrationsTyped
<1>2. n \in Nat \ {0}
  BY SimpleHasStatements
<1>3. stmt[p] = n + 1
  BY <1>1, <1>2 DEF MigrationsInv, BehindIsMade
<1> QED BY <1>1, <1>2, <1>3 DEF MigrationsInv, BehindIsMade, Done

LEMMA InitMigrationsInv == MigrationsInit => MigrationsInv
<1> SUFFICES ASSUME MigrationsInit PROVE MigrationsInv
  OBVIOUS
<1>1. MigrationsTyped
  BY DEF MigrationsInit, MigrationsTyped
<1>2. BehindIsMade
  BY DEF MigrationsInit, BehindIsMade
<1>3. SimpleScriptsDone
  BY DEF MigrationsInit, SimpleScriptsDone
<1> QED BY <1>1, <1>2, <1>3 DEF MigrationsInv

LEMMA StepMigrationsInv == MigrationsInv /\ [MigrationsNext]_migrationVars => MigrationsInv'
<1> SUFFICES ASSUME MigrationsInv, [MigrationsNext]_migrationVars PROVE MigrationsInv'
  OBVIOUS
<1>0. disk \subseteq disk'
  BY DiskGrows
<1>1. CASE UNCHANGED migrationVars
  <2>1. MigrationsTyped'
    BY <1>1 DEF MigrationsInv, MigrationsTyped, migrationVars
  <2> QED BY <1>0, <1>1, <2>1, SameScriptKeeps DEF migrationVars
<1>2. ASSUME NEW p \in Starter, Step(p) PROVE MigrationsInv'
  <2>1. CASE Schema(p)
    <3>1. MigrationsTyped'
      BY <2>1 DEF MigrationsInv, MigrationsTyped, Schema
    <3> QED BY <1>0, <2>1, <3>1, SameScriptKeeps DEF Schema
  <2>2. CASE ReadVersions(p)
    <3>1. MigrationsTyped'
      BY <2>2 DEF MigrationsInv, MigrationsTyped, ReadVersions
    <3>2. \A q \in Starter \ {p} : script'[q] = script[q]
      BY <2>2 DEF MigrationsInv, MigrationsTyped, ReadVersions
    <3> QED BY <2>2, <3>1, <3>2, RestartKeeps DEF ReadVersions
  <2>3. CASE Skip(p)
    <3>1. CASE recorded' = recorded
      BY <2>3, <3>1, NextFileKeeps DEF Skip
    <3>2. CASE recorded' = recorded \cup {Name(p)} /\ Skipped(p)
      <4>1. ~Simple(Name(p))
        BY <3>2 DEF Skipped, Simple
      <4> QED BY <2>3, <3>2, <4>1, NextFileKeeps DEF Skip
    <3> QED BY <2>3, <3>1, <3>2 DEF Skip
  <2>4. CASE Begin(p)
    BY <2>4, BeginKeeps
  <2>5. CASE RunStatement(p)
    BY <1>0, <2>5, RunStatementKeeps
  <2>6. CASE DuplicateColumn(p)
    <3>1. Simple(Name(p)) => Done(Name(p))
      BY <2>6, DuplicateIsDone
    <3> QED BY <2>6, <3>1, NextFileKeeps DEF DuplicateColumn, InStatement
  <2>7. CASE StatementFails(p)
    BY <2>7, NextFileKeeps DEF StatementFails
  <2>8. CASE Record(p)
    <3>1. Simple(Name(p)) => Done(Name(p))
      BY <2>8, RecordIsDone
    <3> QED BY <2>8, <3>1, NextFileKeeps DEF Record
  <2>9. CASE Started(p)
    <3>1. MigrationsTyped'
      BY <2>9 DEF MigrationsInv, MigrationsTyped, Started
    <3> QED BY <1>0, <2>9, <3>1, SameScriptKeeps DEF Started
  <2>10. CASE Dies(p)
    <3>1. MigrationsTyped'
      BY <2>10 DEF MigrationsInv, MigrationsTyped, Dies
    <3> QED BY <2>10, <3>1, RestartKeeps DEF Dies
  <2> QED BY <1>2, <2>1, <2>2, <2>3, <2>4, <2>5, <2>6, <2>7, <2>8, <2>9, <2>10 DEF Step
<1> QED BY <1>1, <1>2 DEF MigrationsNext

\* A script that adds one column at most, at its end, and is recorded has made
\* all it makes, whatever crashes, fails or runs at the same time
\* (_run_migrations; its answer to "duplicate column" is right for such scripts).
THEOREM RecordedSimpleScripts == MigrationsSpec => []SimpleScriptsDone
<1>1. MigrationsInv => SimpleScriptsDone
  BY DEF MigrationsInv
<1> QED BY <1>1, InitMigrationsInv, StepMigrationsInv, PTL DEF MigrationsSpec


------------------------------------------------------------------------------
(* The rows of the old asset_versions.  What makes RowsKept hold: while no *)
(* two processes have been in the script that moves them at once, at most  *)
(* one is in it (OneMover), and behind the copy the new table has them     *)
(* (Copied); while the table is gone they are in the new one (Nowhere).    *)

\* Process p is at a statement of a script that moves rows.
InMover(p) ==
  InStatement(p) /\ \E i \in 1..Len(Statements[Name(p)]) : MovesRows(Statements[Name(p)][i])

OneMover == \A p, q \in Starter : p # q => ~(InMover(p) /\ InMover(q))

Copied ==
  \A p \in Starter : InStatement(p) =>
    \A c \in 1..stmt[p] - 1 :
      /\ Statements[Name(p)][c].op = "copy"
      /\ \A i \in c..stmt[p] - 1 : Statements[Name(p)][i].op # "rename"
      => ("assets" \in holders => "copy" \in holders)

Nowhere == holders \subseteq {"assets", "copy"} /\ (assets = "none" => "assets" \notin holders)

RowsInv == MigrationsTyped /\ Nowhere /\ (~together => OneMover /\ Copied)

\* A process that goes to another place, to the start of a file or to none, and
\* moves nothing.
LEMMA MovesAway ==
  ASSUME RowsInv, NEW p \in Starter, MigrationsTyped', ~InStatement(p)',
         \A q \in Starter \ {p} : starting'[q] = starting[q] /\ script'[q] = script[q] /\ stmt'[q] = stmt[q],
         UNCHANGED <<holders, together>>, Nowhere'
  PROVE  RowsInv'
<1>1. \A q \in Starter \ {p} : (InStatement(q)' <=> InStatement(q)) /\ Name(q)' = Name(q) /\ stmt'[q] = stmt[q]
  BY DEF InStatement, Working, Name
<1>2. \A q \in Starter \ {p} : InMover(q)' <=> InMover(q)
  BY <1>1 DEF InMover
<1>3. ~InMover(p)'
  BY DEF InMover
<1>4. ~together => OneMover'
  BY <1>2, <1>3 DEF RowsInv, OneMover
<1>5. ~together => Copied'
  BY <1>1 DEF RowsInv, Copied
<1> QED
  BY <1>4, <1>5 DEF RowsInv

LEMMA BeginKeepsRows ==
  ASSUME RowsInv, NEW p \in Starter, Begin(p)
  PROVE  RowsInv'
<1>1. /\ stmt \in [Starter -> Nat] /\ stmt' = [stmt EXCEPT ![p] = 1]
      /\ script' = script /\ starting' = starting /\ holders' = holders /\ assets' = assets
  BY DEF RowsInv, MigrationsTyped, Begin
<1>2. MigrationsTyped' /\ Nowhere'
  BY <1>1 DEF RowsInv, MigrationsTyped, Nowhere
<1>3. \A q \in Starter \ {p} : (InStatement(q)' <=> InStatement(q)) /\ stmt'[q] = stmt[q]
  BY <1>1 DEF InStatement, Working, Name
<1>4. \A q \in Starter : Name(q)' = Name(q)
  BY <1>1 DEF Name
<1>5. \A q \in Starter \ {p} : InMover(q)' <=> InMover(q)
  BY <1>3, <1>4 DEF InMover
<1>6. ASSUME ~together' PROVE ~together /\ ~(Name(p) \in Conditional /\ \E q \in Starter \ {p} : InStatement(q) /\ Name(q) = Name(p))
  BY <1>6 DEF Begin
<1>7. ASSUME ~together' PROVE OneMover'
  <2> SUFFICES ASSUME NEW q \in Starter \ {p}, InMover(p)', InMover(q)' PROVE FALSE
    BY <1>5, <1>6, <1>7 DEF RowsInv, OneMover
  <2>1. Name(p)' = Name(q)' /\ Name(p)' \in Conditional
    <3>1. Len(Script) \in Nat
      BY ScriptAssumption DEF ScriptAssumption
    <3>2. script'[p] \in 1..Len(Script) /\ script'[q] \in 1..Len(Script)
      BY <3>1, <1>2 DEF MigrationsTyped, InMover, InStatement, Working
    <3> QED BY <3>2, ScriptAssumption DEF ScriptAssumption, InMover, Name
  <2>2. InStatement(q)
    BY <1>5 DEF InMover
  <2> QED BY <2>1, <2>2, <1>4, <1>6, <1>7
<1>8. ASSUME ~together' PROVE Copied'
  <2>1. stmt'[p] - 1 = 0
    BY <1>1
  <2>2. \A q \in Starter \ {p} : Name(q)' = Name(q) /\ stmt'[q] = stmt[q] /\ (InStatement(q)' <=> InStatement(q))
    BY <1>3, <1>4
  <2>3. Copied
    BY <1>6, <1>8 DEF RowsInv
  <2> QED BY <2>1, <2>2, <2>3, <1>1 DEF Copied
<1> QED
  BY <1>2, <1>7, <1>8 DEF RowsInv

\* A statement keeps the rows, and a process that is alone in the script copies
\* before it drops.
LEMMA RunKeepsRows ==
  ASSUME RowsInv, NEW p \in Starter, RunStatement(p)
  PROVE  RowsInv' /\ (holders # {} /\ ~together' => holders' # {})
<1> DEFINE st == Statement(p)
           k == stmt[p]
           body == Statements[Name(p)]
<1>1. /\ InStatement(p) /\ k \in 1..Len(body) /\ k \in Nat \ {0} /\ st = body[k]
      /\ script[p] \in Nat \ {0} /\ script[p] <= Len(Script)
  BY DEF RunStatement, InStatement, Working, Statement, RowsInv, MigrationsTyped
<1>2. /\ stmt' = [stmt EXCEPT ![p] = k + 1] /\ stmt \in [Starter -> Nat]
      /\ script' = script /\ starting' = starting /\ together' = together
  BY DEF RunStatement, RowsInv, MigrationsTyped
<1>3. \/ ~MovesRows(st) /\ holders' = holders /\ assets' = assets
      \/ st.op = "copy" /\ assets' = assets /\ assets = "old" /\
           holders' = IF "assets" \in holders THEN holders \cup {"copy"} ELSE holders
      \/ st.op = "drop" /\ assets' = "none" /\ holders' = holders \ {"assets"}
      \/ st.op = "rename" /\ assets = "none" /\ assets' = "new" /\
           holders' = IF "copy" \in holders THEN {"assets"} ELSE {}
  BY DEF RunStatement, Ensure, AddColumn, MakeCopy, CopyRows, DropTable, RenameTable, MovesRows
<1>4. MovesRows(st) => InMover(p)
  BY <1>1 DEF InMover
<1>5. ASSUME st.op = "drop", ~together PROVE "assets" \in holders => "copy" \in holders
  <2>1. script[p] \in 1..Len(Script)
    BY <1>1, ScriptAssumption DEF ScriptAssumption
  <2>2. PICK c \in 1..k - 1 : body[c].op = "copy" /\ \A i \in c..k : body[i].op # "rename"
    BY <2>1, <1>1, <1>5, ScriptAssumption DEF ScriptAssumption, Name
  <2>3. \A i \in c..k - 1 : i \in c..k
    BY <1>1
  <2> QED BY <2>2, <2>3, <1>1, <1>5 DEF RowsInv, Copied
<1> HIDE DEF st, k, body
<1>6. Nowhere'
  BY <1>3 DEF RowsInv, Nowhere
<1>7. MigrationsTyped'
  BY <1>1, <1>2 DEF RowsInv, MigrationsTyped
<1>8. holders # {} /\ ~together' => holders' # {}
  BY <1>2, <1>3, <1>5 DEF RowsInv, Nowhere
<1>9. \A q \in Starter : Name(q)' = Name(q)
  BY <1>2 DEF Name
<1>10. \A q \in Starter \ {p} : (InStatement(q)' <=> InStatement(q)) /\ stmt'[q] = stmt[q]
  BY <1>2 DEF InStatement, Working, Name
<1>11. InMover(p)' => InMover(p)
  BY <1>1, <1>9 DEF InMover
<1>12. ASSUME ~together PROVE OneMover'
  BY <1>9, <1>10, <1>11, <1>12 DEF RowsInv, OneMover, InMover
<1>13. ASSUME ~together PROVE Copied'
  <2> SUFFICES ASSUME NEW q \in Starter, InStatement(q)', NEW c \in 1..stmt'[q] - 1,
                      Statements[Name(q)][c].op = "copy",
                      \A i \in c..stmt'[q] - 1 : Statements[Name(q)][i].op # "rename",
                      "assets" \in holders'
               PROVE  "copy" \in holders'
    BY <1>9 DEF Copied
  <2>1. CASE q = p
    <3>1. stmt'[p] - 1 = k /\ Name(q) = Name(p) /\ body = Statements[Name(p)]
      BY <2>1, <1>1, <1>2 DEF k, body
    <3>2. c \in 1..k /\ k \in c..k /\ body[k].op # "rename" /\ \A i \in c..k - 1 : body[i].op # "rename"
      BY <2>1, <3>1, <1>1
    <3>3. CASE c = k
      BY <3>1, <3>3, <1>1, <1>3, <2>1 DEF MovesRows
    <3>4. CASE c # k
      <4>1. c \in 1..k - 1 /\ body[c].op = "copy"
        BY <3>1, <3>2, <3>4, <1>1, <2>1
      <4>2. "assets" \in holders => "copy" \in holders
        BY <4>1, <3>2, <1>1, <1>12, <1>13 DEF RowsInv, Copied, k, body
      <4> QED BY <4>2, <3>2, <1>1, <1>3
    <3> QED BY <3>3, <3>4
  <2>2. CASE q # p
    <3>1. InStatement(q) /\ stmt'[q] = stmt[q]
      BY <2>2, <1>10
    <3>2. "assets" \in holders => "copy" \in holders
      BY <3>1, <1>13 DEF RowsInv, Copied
    <3>3. InMover(q)
      <4>1. c \in 1..Len(Statements[Name(q)])
        BY <3>1 DEF InStatement
      <4> QED BY <3>1, <4>1 DEF InMover, MovesRows
    <3>4. ~MovesRows(st)
      BY <2>2, <3>3, <1>4, <1>13 DEF RowsInv, OneMover
    <3> QED BY <3>2, <3>4, <1>3 DEF MovesRows
  <2> QED BY <2>1, <2>2
<1> QED
  BY <1>2, <1>6, <1>7, <1>8, <1>12, <1>13 DEF RowsInv

LEMMA StepRows ==
  ASSUME RowsInv, [MigrationsNext]_migrationVars
  PROVE  RowsInv' /\ (holders # {} /\ ~together' => holders' # {})
<1>0. stmt \in [Starter -> Nat] /\ script \in [Starter -> Nat \ {0}]
  BY DEF RowsInv, MigrationsTyped
<1>1. CASE UNCHANGED migrationVars
  BY <1>1 DEF migrationVars, RowsInv, MigrationsTyped, Nowhere, OneMover, Copied, InMover, InStatement, Working, Name
<1>2. ASSUME NEW p \in Starter, Step(p), ~RunStatement(p)
      PROVE  RowsInv' /\ holders' = holders
  <2>1. CASE Schema(p)
    <3>1. /\ MigrationsTyped' /\ Nowhere' /\ holders' = holders /\ together' = together /\ ~InStatement(p)'
          /\ \A q \in Starter \ {p} : starting'[q] = starting[q] /\ script'[q] = script[q] /\ stmt'[q] = stmt[q]
      BY <1>0, <2>1 DEF RowsInv, MigrationsTyped, Nowhere, Schema, InStatement, Working
    <3> QED BY <3>1, MovesAway
  <2>2. CASE ReadVersions(p)
    <3>1. /\ MigrationsTyped' /\ Nowhere' /\ holders' = holders /\ together' = together /\ ~InStatement(p)'
          /\ \A q \in Starter \ {p} : starting'[q] = starting[q] /\ script'[q] = script[q] /\ stmt'[q] = stmt[q]
      BY <1>0, <2>2 DEF RowsInv, MigrationsTyped, Nowhere, ReadVersions, InStatement, Working
    <3> QED BY <3>1, MovesAway
  <2>3. CASE NextFile(p)
    <3>1. /\ MigrationsTyped' /\ Nowhere' /\ holders' = holders /\ together' = together /\ ~InStatement(p)'
          /\ \A q \in Starter \ {p} : starting'[q] = starting[q] /\ script'[q] = script[q] /\ stmt'[q] = stmt[q]
      BY <1>0, <2>3 DEF RowsInv, MigrationsTyped, Nowhere, NextFile, InStatement, Working
    <3> QED BY <3>1, MovesAway
  <2>4. CASE Begin(p)
    <3>1. holders' = holders
      BY <2>4 DEF Begin
    <3> QED BY <2>4, <3>1, BeginKeepsRows
  <2>5. CASE Started(p)
    <3>1. /\ MigrationsTyped' /\ Nowhere' /\ holders' = holders /\ together' = together /\ ~InStatement(p)'
          /\ \A q \in Starter \ {p} : starting'[q] = starting[q] /\ script'[q] = script[q] /\ stmt'[q] = stmt[q]
      BY <1>0, <2>5 DEF RowsInv, MigrationsTyped, Nowhere, Started, InStatement, Working
    <3> QED BY <3>1, MovesAway
  <2>6. CASE Dies(p)
    <3>1. /\ MigrationsTyped' /\ Nowhere' /\ holders' = holders /\ together' = together /\ ~InStatement(p)'
          /\ \A q \in Starter \ {p} : starting'[q] = starting[q] /\ script'[q] = script[q] /\ stmt'[q] = stmt[q]
      BY <1>0, <2>6 DEF RowsInv, MigrationsTyped, Nowhere, Dies, InStatement, Working
    <3> QED BY <3>1, MovesAway
  <2> QED
    BY <1>2, <2>1, <2>2, <2>3, <2>4, <2>5, <2>6
    DEF Step, Skip, DuplicateColumn, StatementFails, Record
<1> QED
  BY <1>1, <1>2, RunKeepsRows DEF MigrationsNext, migrationVars

\* Whatever crashes, fails or starts again: the rows of the old asset_versions are
\* in a table after every step, unless two processes have been in the script that
\* moves them at once (_run_migrations, script 026).
THEOREM RowsAreKept == MigrationsSpec => RowsKept
<1>1. MigrationsInit => RowsInv
  <2> SUFFICES ASSUME MigrationsInit PROVE RowsInv
    OBVIOUS
  <2>1. MigrationsTyped /\ Nowhere /\ \A p \in Starter : ~InStatement(p)
    BY DEF MigrationsInit, MigrationsTyped, Nowhere, InStatement, Working
  <2> QED BY <2>1 DEF RowsInv, OneMover, Copied, InMover
<1>2. RowsInv /\ [MigrationsNext]_migrationVars => [holders # {} /\ ~together' => holders' # {}]_migrationVars
  BY StepRows
<1>3. RowsInv /\ [MigrationsNext]_migrationVars => RowsInv'
  BY StepRows
<1> QED
  BY <1>1, <1>2, <1>3, PTL DEF MigrationsSpec, RowsKept


------------------------------------------------------------------------------
(* The connection.  What makes OneUndisturbed inductive: while nothing has *)
(* broken or failed, whoever is past the lock holds it (Holder), who is    *)
(* about to connect has found no connection and nobody else makes one      *)
(* meanwhile (Single), and the connection everybody waits for is there     *)
(* (Waiting).                                                              *)

Undisturbed == breaks = 0 /\ fails = 0

ConnectionsTyped ==
  /\ breaks \in Nat /\ fails \in Nat /\ opened \in Nat /\ opened <= MaxOpen
  /\ place \in [Client -> {"idle", "probe", "close", "wait", "connect", "settings", "mode"}]
  /\ waits \in [Client -> 0..MaxOpen] /\ got \in [Client -> SUBSET Nat]
  /\ db \in 0..opened

PastLock == {"connect", "settings", "mode"}

Holder == \A c \in Client : place[c] \in PastLock => lock = c

Single ==
  /\ opened <= 1 /\ db = opened
  /\ \A c \in Client : /\ place[c] = "connect" => opened = 0
                       /\ place[c] \in {"settings", "mode"} => opened = 1

Waiting ==
  /\ \A k \in 1..MaxOpen : health[k] = "open"
  /\ \A c \in Client : /\ place[c] # "close"
                       /\ place[c] \in {"probe", "settings"} => waits[c] \in 1..MaxOpen

Given == \A c \in Client : got[c] \subseteq {opened} \ {0}

ConnectionsInv ==
  ConnectionsTyped /\ (Undisturbed => Holder /\ Single /\ Waiting /\ Given)

\* Types are kept by every step, disturbed or not.
LEMMA ConnectionsTypes ==
  ASSUME ConnectionsTyped, [ConnectionsNext]_connectionVars
  PROVE  ConnectionsTyped'
<1> USE ConnectionsAssumption DEF ConnectionsAssumption, ConnectionsTyped, At, Return
<1>1. ASSUME NEW c \in Client, NEW k \in Nat, Continue(c, k)
      PROVE  /\ place' \in [Client -> {"idle", "probe", "close", "wait", "connect", "settings", "mode"}]
             /\ got' \in [Client -> SUBSET Nat]
  BY <1>1 DEF Continue
<1>2. ASSUME NEW c \in Client, Get(c) PROVE ConnectionsTyped'
  BY <1>1, <1>2 DEF Get
<1>3. ASSUME NEW c \in Client, ProbeReturns(c) PROVE ConnectionsTyped'
  BY <1>1, <1>3 DEF ProbeReturns
<1>4. ASSUME NEW c \in Client, CloseReturns(c) PROVE ConnectionsTyped'
  BY <1>1, <1>4 DEF CloseReturns
<1>5. ASSUME NEW c \in Client, Acquire(c) PROVE ConnectionsTyped'
  BY <1>5 DEF Acquire
<1>6. ASSUME NEW c \in Client, Connected(c) PROVE ConnectionsTyped'
  BY <1>6 DEF Connected
<1>7. ASSUME NEW c \in Client, Settings(c) \/ SetUpFails(c) \/ ModeReturns(c) PROVE ConnectionsTyped'
  BY <1>7 DEF Settings, SetUpFails, ModeReturns
<1>8. ASSUME Tick \/ (\E k \in 1..opened : Breaks(k)) \/ UNCHANGED connectionVars PROVE ConnectionsTyped'
  BY <1>8 DEF Tick, Breaks, connectionVars
<1> QED
  BY <1>2, <1>3, <1>4, <1>5, <1>6, <1>7, <1>8 DEF ConnectionsNext, Resumes

\* A coroutine goes on with what it sees of the connection.
LEMMA ContinueKeeps ==
  ASSUME ConnectionsTyped, Holder, Single, Waiting, Given,
         NEW c \in Client, place[c] \notin PastLock, Continue(c, db),
         UNCHANGED <<db, opened, health>>,
         \A u \in Client \ {c} : waits'[u] = waits[u]
  PROVE  (Holder /\ Single /\ Waiting /\ Given)'
<1> USE ConnectionsAssumption DEF ConnectionsAssumption
<1>1. \/ db # 0 /\ place' = [place EXCEPT ![c] = "idle"] /\ got' = [got EXCEPT ![c] = {db}] /\ lock' = lock
      \/ db = 0 /\ lock = NoClient /\ lock' = c /\ place' = [place EXCEPT ![c] = "connect"] /\ got' = got
      \/ db = 0 /\ lock # NoClient /\ place' = [place EXCEPT ![c] = "wait"] /\ got' = got /\ lock' = lock
  BY DEF Continue, Return, At
<1>2. \A u \in Client \ {c} : place'[u] = place[u] /\ got'[u] \in {got[u]}
  BY <1>1 DEF ConnectionsTyped
<1>3. /\ place'[c] \in {"idle", "connect", "wait"}
      /\ place'[c] = "connect" => db = 0 /\ lock = NoClient /\ lock' = c
      /\ place'[c] # "connect" => lock' = lock
      /\ got'[c] = got[c] \/ (db # 0 /\ got'[c] = {db})
  BY <1>1 DEF ConnectionsTyped
<1>4. Holder'
  BY <1>2, <1>3 DEF Holder, PastLock
<1>5. Single'
  BY <1>2, <1>3 DEF Single
<1>6. Waiting'
  BY <1>2, <1>3 DEF Waiting
<1>7. Given'
  BY <1>2, <1>3 DEF Given, Single
<1> QED BY <1>4, <1>5, <1>6, <1>7

LEMMA ConnectionsStep ==
  ASSUME ConnectionsInv, [ConnectionsNext]_connectionVars
  PROVE  ConnectionsInv'
<1> USE ConnectionsAssumption DEF ConnectionsAssumption
<1>0. ConnectionsTyped /\ ConnectionsTyped'
  BY ConnectionsTypes DEF ConnectionsInv
<1>u. ASSUME Undisturbed'
      PROVE  Undisturbed /\ Holder /\ Single /\ Waiting /\ Given
  <2>1. breaks' >= breaks /\ fails' >= fails
    BY <1>0 DEF ConnectionsNext, Resumes, Get, ProbeReturns, CloseReturns, Acquire, Connected,
                Settings, SetUpFails, ModeReturns, Tick, Breaks, connectionVars, ConnectionsTyped
  <2> QED BY <2>1, <1>0, <1>u DEF Undisturbed, ConnectionsTyped, ConnectionsInv
<1> DEFINE P == (Holder /\ Single /\ Waiting /\ Given)'
<1> SUFFICES ASSUME Undisturbed' PROVE P
  BY <1>0 DEF ConnectionsInv
<1>i. Undisturbed /\ Holder /\ Single /\ Waiting /\ Given
  BY <1>u
<1>1. ASSUME NEW c \in Client, Get(c) PROVE P
  <2>1. CASE db # 0 /\ due
    <3>1. /\ place' = [place EXCEPT ![c] = "probe"] /\ waits' = [waits EXCEPT ![c] = db]
          /\ UNCHANGED <<lock, got, db, opened, health>> /\ place[c] = "idle"
      BY <1>1, <2>1 DEF Get, At
    <3>2. /\ place'[c] = "probe" /\ waits'[c] = db /\ db \in 1..MaxOpen
          /\ \A u \in Client \ {c} : place'[u] = place[u] /\ waits'[u] = waits[u]
      BY <3>1, <2>1, <1>0 DEF ConnectionsTyped
    <3> QED BY <3>1, <3>2, <1>i DEF Holder, Single, Waiting, Given, PastLock
  <2>2. CASE ~(db # 0 /\ due)
    BY <1>0, <1>1, <1>i, <2>2, ContinueKeeps DEF Get, PastLock
  <2> QED BY <2>1, <2>2
<1>2. ASSUME NEW c \in Client, ProbeReturns(c) PROVE P
  <2>1. health[waits[c]] = "open" /\ place[c] = "probe"
    BY <1>2, <1>i DEF ProbeReturns, Waiting
  <2>2. Continue(c, db) /\ UNCHANGED <<db, opened, health, waits>>
    BY <1>2, <2>1 DEF ProbeReturns
  <2> QED BY <2>1, <2>2, <1>0, <1>i, ContinueKeeps DEF PastLock
<1>3. ASSUME NEW c \in Client, CloseReturns(c) PROVE P
  BY <1>3, <1>i DEF CloseReturns, Waiting
<1>4. ASSUME NEW c \in Client, Acquire(c) PROVE P
  <2>1. CASE db # 0
    <3>1. Continue(c, db) /\ UNCHANGED <<db, opened, health, waits>> /\ place[c] = "wait"
      BY <1>4, <2>1 DEF Acquire, Continue
    <3> QED BY <3>1, <1>0, <1>i, ContinueKeeps DEF PastLock
  <2>2. CASE db = 0
    <3>1. Continue(c, db) /\ UNCHANGED <<db, opened, health, waits>> /\ place[c] = "wait"
      BY <1>4, <2>2 DEF Acquire, Continue
    <3> QED BY <3>1, <1>0, <1>i, ContinueKeeps DEF PastLock
  <2> QED BY <2>1, <2>2
<1>5. ASSUME NEW c \in Client, Connected(c) PROVE P
  <2>1. /\ place[c] = "connect" /\ opened < MaxOpen /\ opened = 0 /\ lock = c
        /\ opened' = 1 /\ db' = 1 /\ waits' = [waits EXCEPT ![c] = 1]
        /\ place' = [place EXCEPT ![c] = "settings"] /\ UNCHANGED <<health, lock, got>>
    <3>1. place[c] = "connect" /\ opened = 0 /\ lock = c
      BY <1>5, <1>i DEF Connected, Holder, Single, PastLock
    <3>2. opened' = 1 /\ db' = 1 /\ opened < MaxOpen
      BY <1>5, <3>1 DEF Connected
    <3> QED BY <1>5, <3>1, <3>2 DEF Connected, At
  <2>2. /\ place'[c] = "settings" /\ waits'[c] = 1 /\ 1 \in 1..MaxOpen
        /\ \A u \in Client \ {c} : place'[u] = place[u] /\ waits'[u] = waits[u]
    BY <2>1, <1>0 DEF ConnectionsTyped
  <2>3. \A u \in Client \ {c} : place[u] \notin PastLock
    BY <2>1, <1>i DEF Holder
  <2>4. \A u \in Client : got[u] = {}
    BY <2>1, <1>i DEF Given
  <2>5. Holder' /\ Single'
    BY <2>1, <2>2, <2>3 DEF Holder, Single, PastLock
  <2>6. Waiting'
    BY <2>1, <2>2, <1>i DEF Waiting
  <2>7. Given'
    BY <2>1, <2>4 DEF Given
  <2> QED BY <2>5, <2>6, <2>7
<1>6. ASSUME NEW c \in Client, Settings(c) PROVE P
  <2>1. /\ place[c] = "settings" /\ place' = [place EXCEPT ![c] = "mode"]
        /\ UNCHANGED <<db, opened, health, lock, waits, got>>
    BY <1>6 DEF Settings, At
  <2>2. place'[c] = "mode" /\ \A u \in Client \ {c} : place'[u] = place[u]
    BY <2>1, <1>0 DEF ConnectionsTyped
  <2>3. Holder'
    BY <2>1, <2>2, <1>i DEF Holder, PastLock
  <2>4. Single'
    BY <2>1, <2>2, <1>i DEF Single
  <2>5. Waiting' /\ Given'
    BY <2>1, <2>2, <1>i DEF Waiting, Given
  <2> QED BY <2>3, <2>4, <2>5
<1>7. ASSUME NEW c \in Client, SetUpFails(c) PROVE P
  <2>1. fails' # fails \/ (place[c] = "settings" /\ health[waits[c]] # "open")
    BY <1>7, <1>0 DEF SetUpFails, ConnectionsTyped
  <2> QED BY <2>1, <1>i DEF Undisturbed, Waiting
<1>8. ASSUME NEW c \in Client, ModeReturns(c) PROVE P
  <2>1. /\ place[c] = "mode" /\ lock = c /\ lock' = NoClient /\ opened = 1 /\ db = 1
        /\ place' = [place EXCEPT ![c] = "idle"] /\ got' = [got EXCEPT ![c] = {1}]
        /\ UNCHANGED <<db, opened, health, waits>>
    BY <1>8, <1>i DEF ModeReturns, Return, At, Holder, Single, PastLock
  <2>2. /\ place'[c] = "idle" /\ got'[c] = {1}
        /\ \A u \in Client \ {c} : place'[u] = place[u] /\ got'[u] = got[u]
    BY <2>1, <1>0 DEF ConnectionsTyped
  <2>3. \A u \in Client \ {c} : place[u] \notin PastLock
    BY <2>1, <1>i DEF Holder
  <2>4. Holder' /\ Single'
    BY <2>1, <2>2, <2>3, <1>i DEF Holder, Single, PastLock
  <2>5. Waiting' /\ Given'
    BY <2>1, <2>2, <1>i DEF Waiting, Given
  <2> QED BY <2>4, <2>5
<1>9. ASSUME NEW k \in 1..opened, Breaks(k) PROVE P
  BY <1>9, <1>0, <1>i DEF Breaks, Undisturbed, ConnectionsTyped
<1>10. ASSUME Tick \/ UNCHANGED connectionVars PROVE P
  BY <1>10, <1>i DEF Tick, connectionVars, Holder, Single, Waiting, Given
<1> HIDE DEF P
<1> QED
  BY <1>1, <1>2, <1>3, <1>4, <1>5, <1>6, <1>7, <1>8, <1>9, <1>10 DEF ConnectionsNext, Resumes

\* However many coroutines ask at once: as long as no connection has broken and no
\* set-up has failed, one connection is made and each is given that one (get_db,
\* its lock and its second look at _db).
THEOREM SharedUndisturbed == ConnectionsSpec => []OneUndisturbed
<1>1. ConnectionsInit => ConnectionsInv
  BY ConnectionsAssumption
  DEF ConnectionsAssumption, ConnectionsInit, ConnectionsInv, ConnectionsTyped, Holder, Single,
      Waiting, Given, PastLock
<1>2. ConnectionsInv => OneUndisturbed
  BY DEF ConnectionsInv, OneUndisturbed, Undisturbed, Single, Given
<1> QED
  BY <1>1, <1>2, ConnectionsStep, PTL DEF ConnectionsSpec

===============================================================================
