------------------------- MODULE ModbusClientProofs -------------------------
(* Proofs about ModbusClient, for any callers, requests and lengths.       *)
EXTENDS ModbusClient, SequenceTheorems, TLAPS

USE SizeAssumption, MissingAssumption, SwitchAssumption, BoundAssumption, NoneAssumption

(* Dropping a waiter leaves the others in their order. *)
LEMMA RemoveAtFacts ==
  ASSUME NEW S, NEW q \in Seq(S), NEW i \in 1 .. Len(q)
  PROVE  /\ RemoveAt(q, i) \in Seq(S)
         /\ Len(RemoveAt(q, i)) = Len(q) - 1
         /\ \A j \in 1 .. Len(q) - 1 :
              RemoveAt(q, i)[j] = IF j < i THEN q[j] ELSE q[j + 1]
<1> DEFINE a == SubSeq(q, 1, i - 1)
           b == SubSeq(q, i + 1, Len(q))
<1>0. Len(q) \in Nat /\ \A j \in 1 .. Len(q) : q[j] \in S
  BY LenProperties
<1>1. /\ a \in Seq(S) /\ Len(a) = i - 1
      /\ \A j \in 1 .. i - 1 : a[j] = q[j]
  BY <1>0, SubSeqProperties
<1>2. /\ b \in Seq(S) /\ Len(b) = Len(q) - i
      /\ \A j \in 1 .. Len(q) - i : b[j] = q[i + j]
  BY <1>0, SubSeqProperties
<1> HIDE DEF a, b
<1>3. /\ a \o b \in Seq(S) /\ Len(a \o b) = Len(a) + Len(b)
      /\ \A j \in 1 .. Len(a) + Len(b) :
           (a \o b)[j] = IF j <= Len(a) THEN a[j] ELSE b[j - Len(a)]
  <2>1. a \in Seq(S) /\ b \in Seq(S)
    BY <1>1, <1>2
  <2>2. a \o b \in Seq(S)
    BY <2>1, ConcatProperties
  <2>3. Len(a \o b) = Len(a) + Len(b)
    BY <2>1, ConcatProperties
  <2>4. \A j \in 1 .. Len(a) + Len(b) :
           (a \o b)[j] = IF j <= Len(a) THEN a[j] ELSE b[j - Len(a)]
    BY <2>1, ConcatProperties, Zenon
  <2> QED BY <2>2, <2>3, <2>4
<1>4. RemoveAt(q, i) = a \o b
  BY DEF RemoveAt, a, b
<1>5. ASSUME NEW j \in 1 .. Len(q) - 1
      PROVE  (a \o b)[j] = IF j < i THEN q[j] ELSE q[j + 1]
  <2>1. CASE j < i
    BY <1>0, <1>1, <1>2, <1>3, <2>1
  <2>2. CASE ~(j < i)
    <3>1. j - Len(a) \in 1 .. Len(q) - i /\ i + (j - Len(a)) = j + 1
      BY <1>0, <1>1, <2>2
    <3>2. (a \o b)[j] = b[j - Len(a)]
      BY <1>0, <1>1, <1>2, <1>3, <2>2
    <3> QED BY <1>2, <2>2, <3>1, <3>2
  <2> QED BY <2>1, <2>2
<1>6. Len(a \o b) = Len(q) - 1
  BY <1>0, <1>1, <1>2, <1>3
<1> QED
  BY <1>3, <1>4, <1>5, <1>6

(* The client's safe states, whoever is cancelled and whatever is lost. *)
LockInv == TypeOK /\ Waiting /\ OneInside

(* The lock is free at the start. *)
LEMMA LockInit == Init => LockInv
BY DEF Init, LockInv, TypeOK, Waiting, OneInside, Places, Outcomes, Failed

(* What a caller takes from an answer is an outcome. *)
LEMMA TakenType ==
  ASSUME NEW r \in Requests, NEW a \in Requests
  PROVE  Taken(r, a) \in Outcomes
BY DEF Taken, Outcomes, Failed

(* Every step keeps the lock with the one caller inside. *)
LEMMA LockNext == LockInv /\ [Next]_vars => LockInv'
<1> SUFFICES ASSUME LockInv, [Next]_vars PROVE LockInv'
  OBVIOUS
<1> USE DEF LockInv, Places
<1>a. Failed \in Outcomes
  BY DEF Outcomes
<1>1. ASSUME NEW c \in Callers, NEW r \in Requests, Request(c, r) PROVE LockInv'
  <2>1. /\ queue' \in Seq(Callers) /\ Len(queue') = Len(queue) + 1
        /\ \A i \in 1 .. Len(queue) : queue'[i] = queue[i]
        /\ queue'[Len(queue) + 1] = c
    BY <1>1, AppendProperties DEF Request, TypeOK
  <2>2. \A i \in 1 .. Len(queue) : queue[i] # c
    BY <1>1 DEF Request, Waiting
  <2>3. TypeOK'
    BY <1>1, <2>1 DEF Request, TypeOK
  <2>4. Waiting'
    BY <1>1, <2>1, <2>2, LenProperties DEF Request, TypeOK, Waiting
  <2>5. OneInside'
    BY <1>1 DEF Request, TypeOK, OneInside
  <2> QED BY <2>3, <2>4, <2>5
<1>2. ASSUME NEW c \in Callers, Acquire(c) PROVE LockInv'
  <2>1. /\ queue' \in Seq(Callers) /\ Len(queue') = Len(queue) - 1
        /\ \A i \in 1 .. Len(queue) - 1 : queue'[i] = queue[i + 1]
        /\ c = queue[1] /\ Len(queue) \in Nat /\ Len(queue) > 0
    BY <1>2, HeadTailProperties, EmptySeq, LenProperties DEF Acquire, TypeOK
  <2>2. pc[c] = "waiting" /\ asked[c] \in Requests
    BY <2>1 DEF Waiting, TypeOK
  <2>3. TypeOK'
    <3>1. wire' = wire \/ wire' = Append(wire, asked[c])
      BY <1>2 DEF Acquire
    <3>0. wire \in Seq(Requests) /\ asked[c] \in Requests
      BY <2>2 DEF TypeOK
    <3>2. wire' \in Seq(Requests)
      BY <3>0, <3>1, AppendProperties
    <3> QED BY <1>2, <2>1, <3>2 DEF Acquire, TypeOK
  <2>4. Waiting'
    BY <1>2, <2>1 DEF Acquire, TypeOK, Waiting
  <2>5. OneInside'
    BY <1>2, <2>2 DEF Acquire, TypeOK, OneInside
  <2> QED BY <2>3, <2>4, <2>5
<1>3. ASSUME NEW c \in Callers, NEW o \in Outcomes, Ends(c, o),
             pc[c] \in {"connecting", "sent"},
             conn' \in BOOLEAN, wire' \in Seq(Requests), stream' \in Seq(Requests)
      PROVE  LockInv'
  <2>1. TypeOK'
    BY <1>3 DEF Ends, TypeOK
  <2>2. Waiting'
    BY <1>3 DEF Ends, TypeOK, Waiting
  <2>3. OneInside'
    BY <1>3 DEF Ends, TypeOK, OneInside
  <2> QED BY <2>1, <2>2, <2>3
<1>4. ASSUME NEW c \in Callers, Settles(c) PROVE LockInv'
  <2>1. CASE Connected(c)
    <3>1. TypeOK'
      BY <2>1 DEF Connected, TypeOK, Waiting
    <3>2. Waiting'
      BY <2>1 DEF Connected, TypeOK, Waiting
    <3>3. OneInside'
      BY <2>1 DEF Connected, TypeOK, OneInside
    <3> QED BY <3>1, <3>2, <3>3
  <2>2. CASE Receive(c)
    <3>1. asked[c] \in Requests /\ Head(stream) \in Requests
          /\ Tail(stream) \in Seq(Requests)
      BY <2>2, HeadTailProperties DEF Receive, TypeOK, Waiting
    <3>2. Taken(asked[c], Head(stream)) \in Outcomes
      BY <3>1, TakenType
    <3>3. conn' \in BOOLEAN /\ wire' \in Seq(Requests) /\ stream' \in Seq(Requests)
      BY <2>2, <3>1 DEF Receive, TypeOK
    <3> QED BY <1>3, <2>2, <3>2, <3>3 DEF Receive
  <2>3. CASE TimesOut(c)
    <3>1. conn' \in BOOLEAN /\ wire' \in Seq(Requests) /\ stream' \in Seq(Requests)
      BY <2>3, EmptySeq DEF TimesOut
    <3> QED BY <1>3, <1>a, <2>3, <3>1 DEF TimesOut
  <2>4. CASE ConnectFails(c)
    <3>1. conn' \in BOOLEAN /\ wire' \in Seq(Requests) /\ stream' \in Seq(Requests)
      BY <2>4 DEF ConnectFails, TypeOK
    <3> QED BY <1>3, <1>a, <2>4, <3>1 DEF ConnectFails
  <2> QED BY <1>4, <2>1, <2>2, <2>3, <2>4 DEF Settles
<1>5. ASSUME NEW c \in Callers, Cancelled(c) PROVE LockInv'
  <2>1. CASE pc[c] \in {"connecting", "sent"}
    <3>1. Ends(c, Failed) /\ UNCHANGED <<conn, wire, stream>>
      BY <1>5, <2>1 DEF Cancelled
    <3>2. conn' \in BOOLEAN /\ wire' \in Seq(Requests) /\ stream' \in Seq(Requests)
      BY <3>1 DEF TypeOK
    <3> QED BY <1>3, <1>a, <2>1, <3>1, <3>2
  <2>2. CASE pc[c] = "waiting"
    <3>1. PICK i \in 1 .. Len(queue) : queue[i] = c /\ queue' = RemoveAt(queue, i)
      BY <1>5, <2>2 DEF Cancelled
    <3>2. /\ queue' \in Seq(Callers)
          /\ Len(queue') = Len(queue) - 1
          /\ \A j \in 1 .. Len(queue) - 1 :
               queue'[j] = IF j < i THEN queue[j] ELSE queue[j + 1]
          /\ Len(queue) \in Nat
      BY <3>1, RemoveAtFacts, LenProperties DEF TypeOK
    <3>a. /\ pc' = [pc EXCEPT ![c] = "idle"]
          /\ asked' = [asked EXCEPT ![c] = None]
          /\ reply' = [reply EXCEPT ![c] = Failed]
          /\ UNCHANGED <<owner, loaded, conn, wire, stream>>
      BY <1>5, <2>2 DEF Cancelled
    <3>3. TypeOK'
      BY <1>a, <3>2, <3>a DEF TypeOK
    <3>4. Waiting'
      <4>1. \A j \in 1 .. Len(queue') : queue'[j] # c /\ pc[queue'[j]] = "waiting"
        <5> SUFFICES ASSUME NEW j \in 1 .. Len(queue')
                     PROVE  queue'[j] # c /\ pc[queue'[j]] = "waiting"
          OBVIOUS
        <5>1. PICK k \in 1 .. Len(queue) : k # i /\ queue'[j] = queue[k]
          <6>1. CASE j < i
            BY <3>2, <6>1
          <6>2. CASE ~(j < i)
            BY <3>2, <6>2
          <6> QED BY <6>1, <6>2
        <5> QED BY <3>1, <5>1 DEF Waiting
      <4>2. \A j, k \in 1 .. Len(queue') : queue'[j] = queue'[k] => j = k
        BY <3>1, <3>2 DEF Waiting
      <4>3. \A d \in Callers : asked'[d] = None <=> pc'[d] = "idle"
        BY <3>a DEF Waiting, TypeOK
      <4>4. \A j \in 1 .. Len(queue') : pc'[queue'[j]] = "waiting"
        BY <3>2, <3>a, <4>1, LenProperties DEF TypeOK
      <4> QED BY <4>2, <4>3, <4>4 DEF Waiting
    <3>5. OneInside'
      BY <2>2, <3>a DEF TypeOK, OneInside
    <3> QED BY <3>3, <3>4, <3>5
  <2> QED BY <1>5, <2>1, <2>2 DEF Cancelled
<1>6. CASE Answer
  <2>1. stream' \in Seq(Requests) /\ wire' \in Seq(Requests)
    BY <1>6, HeadTailProperties, AppendProperties DEF Answer, TypeOK
  <2>2. UNCHANGED <<conn, owner, queue, pc, asked, reply, loaded>>
    BY <1>6 DEF Answer
  <2> QED BY <2>1, <2>2 DEF TypeOK, Waiting, OneInside
<1>7. CASE Unload \/ Load
  <2>1. /\ conn' \in BOOLEAN /\ loaded' \in BOOLEAN
        /\ wire' \in Seq(Requests) /\ stream' \in Seq(Requests)
        /\ UNCHANGED <<owner, queue, pc, asked, reply>>
    BY <1>7, EmptySeq DEF Unload, Load
  <2> QED BY <2>1 DEF TypeOK, Waiting, OneInside
<1>8. CASE UNCHANGED vars
  BY <1>8 DEF vars, TypeOK, Waiting, OneInside
<1> QED
  BY <1>1, <1>2, <1>4, <1>5, <1>6, <1>7, <1>8 DEF Next

(* One caller at a time is between the lock and the end of its call, and   *)
(* it is the lock's owner, with cancelled waiters and holders, timeouts,   *)
(* reconnections and an unload in the middle of a call.                    *)
THEOREM LockExcludes == Spec => [](TypeOK /\ OneInside)
<1>1. LockInv => TypeOK /\ OneInside
  BY DEF LockInv
<1> QED
  BY LockInit, LockNext, <1>1, PTL DEF Spec

----------------------------------------------------------------------------
(* First come, first served *)

(* Whoever waits has a place in the queue. *)
Queued == \A c \in Callers : pc[c] = "waiting" => \E i \in 1 .. Len(queue) : queue[i] = c

(* Who is to be served before c. *)
Ahead(c) ==
  {d \in Callers : \E j \in 1 .. Len(queue) :
                     queue[j] = c /\ \E i \in 1 .. j - 1 : queue[i] = d}

(* Nobody is put before a caller who already waits. *)
NobodyOvertakes ==
  \A c \in Callers :
    pc[c] = "waiting" /\ pc'[c] = "waiting" => Ahead(c)' \subseteq Ahead(c)

(* The queue as a step leaves it: as it was, with a caller who did not     *)
(* wait at its end, or without one who then waits no more.                 *)
Joins(c) ==
  /\ pc[c] = "idle" /\ queue' = Append(queue, c)
  /\ pc' = [pc EXCEPT ![c] = "waiting"]
Leaves(c) ==
  /\ \E i \in 1 .. Len(queue) : queue[i] = c /\ queue' = RemoveAt(queue, i)
  /\ \E p \in Places \ {"waiting"} : pc' = [pc EXCEPT ![c] = p]
Stays ==
  /\ queue' = queue
  /\ \A c \in Callers : pc'[c] = "waiting" => pc[c] = "waiting"

(* The first of a queue is removed as any other. *)
LEMMA TailRemovesFirst ==
  ASSUME NEW S, NEW q \in Seq(S), q # <<>>
  PROVE  1 \in 1 .. Len(q) /\ Tail(q) = RemoveAt(q, 1)
<1>1. Len(q) \in Nat /\ Len(q) > 0
  BY EmptySeq, LenProperties
<1>2. /\ Tail(q) \in Seq(S) /\ Len(Tail(q)) = Len(q) - 1
      /\ \A i \in 1 .. Len(q) - 1 : Tail(q)[i] = q[i + 1]
  BY HeadTailProperties
<1>3. /\ RemoveAt(q, 1) \in Seq(S) /\ Len(RemoveAt(q, 1)) = Len(q) - 1
      /\ \A i \in 1 .. Len(q) - 1 : RemoveAt(q, 1)[i] = q[i + 1]
  BY <1>1, RemoveAtFacts
<1>4. \A i \in 1 .. Len(Tail(q)) : Tail(q)[i] = RemoveAt(q, 1)[i]
  BY <1>2, <1>3
<1> QED BY <1>1, <1>2, <1>3, <1>4, SeqEqual

(* No step does anything else to the queue. *)
LEMMA QueueSteps ==
  ASSUME LockInv, [Next]_vars
  PROVE  Stays \/ \E c \in Callers : Joins(c) \/ Leaves(c)
<1> USE DEF LockInv
<1>1. ASSUME NEW c \in Callers, NEW r \in Requests, Request(c, r) PROVE Joins(c)
  BY <1>1 DEF Request, Joins
<1>2. ASSUME NEW c \in Callers, Acquire(c) PROVE Leaves(c)
  <2>1. /\ 1 \in 1 .. Len(queue) /\ queue[1] = c
        /\ queue' = RemoveAt(queue, 1)
    BY <1>2, TailRemovesFirst, HeadTailProperties DEF Acquire, TypeOK
  <2>2. \E p \in Places \ {"waiting"} : pc' = [pc EXCEPT ![c] = p]
    BY <1>2 DEF Acquire, Places
  <2> QED BY <2>1, <2>2 DEF Leaves
<1>3. ASSUME NEW c \in Callers, NEW o, Ends(c, o) PROVE Stays
  BY <1>3 DEF Ends, Stays, TypeOK
<1>4. ASSUME NEW c \in Callers, Settles(c) PROVE Stays
  <2>1. CASE Connected(c)
    BY <2>1 DEF Connected, Stays, TypeOK
  <2> QED BY <1>3, <1>4, <2>1 DEF Settles, Receive, TimesOut, ConnectFails
<1>5. ASSUME NEW c \in Callers, Cancelled(c) PROVE Stays \/ Leaves(c)
  <2>1. CASE pc[c] = "waiting"
    <3>1. \E i \in 1 .. Len(queue) : queue[i] = c /\ queue' = RemoveAt(queue, i)
      BY <1>5, <2>1 DEF Cancelled
    <3>2. pc' = [pc EXCEPT ![c] = "idle"]
      BY <1>5, <2>1 DEF Cancelled
    <3> QED BY <3>1, <3>2 DEF Leaves, Places
  <2>2. CASE pc[c] # "waiting"
    BY <1>3, <1>5, <2>2 DEF Cancelled
  <2> QED BY <2>1, <2>2
<1>6. CASE Answer \/ Unload \/ Load \/ UNCHANGED vars
  BY <1>6 DEF Answer, Unload, Load, vars, Stays
<1> QED BY <1>1, <1>2, <1>4, <1>5, <1>6 DEF Next

(* Where each of the others stood before one left, in the same order.      *)
LEMMA LeavesOrder ==
  ASSUME LockInv, NEW c \in Callers, Leaves(c)
  PROVE  \E i \in 1 .. Len(queue) :
           /\ queue[i] = c /\ Len(queue) \in Nat /\ Len(queue') = Len(queue) - 1
           /\ \A j \in 1 .. Len(queue') :
                queue'[j] = IF j < i THEN queue[j] ELSE queue[j + 1]
<1>1. PICK i \in 1 .. Len(queue) : queue[i] = c /\ queue' = RemoveAt(queue, i)
  BY DEF Leaves
<1>2. queue \in Seq(Callers) /\ Len(queue) \in Nat
  BY LenProperties DEF LockInv, TypeOK
<1> QED BY <1>1, <1>2, RemoveAtFacts

(* Nobody who waits loses his place. *)
LEMMA QueuedNext == LockInv /\ Queued /\ [Next]_vars => Queued'
<1> SUFFICES ASSUME LockInv, Queued, [Next]_vars,
                    NEW d \in Callers, pc'[d] = "waiting"
             PROVE  \E i \in 1 .. Len(queue') : queue'[i] = d
  BY DEF Queued
<1>0. queue \in Seq(Callers) /\ Len(queue) \in Nat /\ pc \in [Callers -> Places]
  BY LenProperties DEF LockInv, TypeOK
<1>1. CASE Stays
  BY <1>1 DEF Stays, Queued
<1>2. ASSUME NEW c \in Callers, Joins(c)
      PROVE  \E i \in 1 .. Len(queue') : queue'[i] = d
  <2>1. /\ Len(queue') = Len(queue) + 1 /\ queue'[Len(queue) + 1] = c
        /\ \A i \in 1 .. Len(queue) : queue'[i] = queue[i]
    BY <1>0, <1>2, AppendProperties DEF Joins
  <2>2. CASE d = c
    BY <1>0, <2>1, <2>2
  <2>3. CASE d # c
    <3>1. PICK i \in 1 .. Len(queue) : queue[i] = d
      BY <1>0, <1>2, <2>3 DEF Joins, Queued
    <3> QED BY <1>0, <2>1, <3>1
  <2> QED BY <2>2, <2>3
<1>3. ASSUME NEW c \in Callers, Leaves(c)
      PROVE  \E i \in 1 .. Len(queue') : queue'[i] = d
  <2>1. d # c /\ pc[d] = "waiting"
    BY <1>0, <1>3 DEF Leaves, Places
  <2>2. PICK i \in 1 .. Len(queue) :
          /\ queue[i] = c /\ Len(queue') = Len(queue) - 1
          /\ \A j \in 1 .. Len(queue') :
               queue'[j] = IF j < i THEN queue[j] ELSE queue[j + 1]
    BY <1>3, LeavesOrder
  <2>3. PICK k \in 1 .. Len(queue) : queue[k] = d
    BY <2>1 DEF Queued
  <2>4. CASE k < i
    <3>1. k \in 1 .. Len(queue') /\ queue'[k] = d
      BY <1>0, <2>2, <2>3, <2>4
    <3> QED BY <3>1
  <2>5. CASE ~(k < i)
    <3>1. k # i
      BY <2>1, <2>2, <2>3
    <3>2. k - 1 \in 1 .. Len(queue') /\ ~(k - 1 < i) /\ (k - 1) + 1 = k
      BY <1>0, <2>2, <2>5, <3>1
    <3> QED BY <2>2, <2>3, <3>2
  <2> QED BY <2>4, <2>5
<1> QED BY <1>1, <1>2, <1>3, QueueSteps

(* Nobody is put before one who waits. *)
LEMMA OvertakesNext == LockInv /\ [Next]_vars => NobodyOvertakes
<1> SUFFICES ASSUME LockInv, [Next]_vars,
                    NEW c \in Callers, pc[c] = "waiting", pc'[c] = "waiting",
                    NEW d \in Callers, NEW j \in 1 .. Len(queue'), queue'[j] = c,
                    NEW i \in 1 .. j - 1, queue'[i] = d
             PROVE  \E k \in 1 .. Len(queue) :
                      queue[k] = c /\ \E h \in 1 .. k - 1 : queue[h] = d
  BY DEF NobodyOvertakes, Ahead
<1>0. queue \in Seq(Callers) /\ Len(queue) \in Nat /\ pc \in [Callers -> Places]
  BY LenProperties DEF LockInv, TypeOK
<1>1. CASE Stays
  BY <1>1 DEF Stays
<1>2. ASSUME NEW e \in Callers, Joins(e)
      PROVE  \E k \in 1 .. Len(queue) :
               queue[k] = c /\ \E h \in 1 .. k - 1 : queue[h] = d
  <2>1. /\ Len(queue') = Len(queue) + 1 /\ queue'[Len(queue) + 1] = e
        /\ \A h \in 1 .. Len(queue) : queue'[h] = queue[h]
    BY <1>0, <1>2, AppendProperties DEF Joins
  <2>2. c # e
    BY <1>2 DEF Joins
  <2>3. j \in 1 .. Len(queue)
    BY <1>0, <2>1, <2>2
  <2>4. queue[j] = c /\ queue[i] = d
    BY <1>0, <2>1, <2>3
  <2> QED BY <2>3, <2>4
<1>3. ASSUME NEW e \in Callers, Leaves(e)
      PROVE  \E k \in 1 .. Len(queue) :
               queue[k] = c /\ \E h \in 1 .. k - 1 : queue[h] = d
  <2>1. PICK g \in 1 .. Len(queue) :
          /\ queue[g] = e /\ Len(queue') = Len(queue) - 1
          /\ \A n \in 1 .. Len(queue') :
               queue'[n] = IF n < g THEN queue[n] ELSE queue[n + 1]
    BY <1>3, LeavesOrder
  <2> DEFINE was(n) == IF n < g THEN n ELSE n + 1
  <2>2. /\ was(j) \in 1 .. Len(queue) /\ was(i) \in 1 .. was(j) - 1
        /\ i \in 1 .. Len(queue')
    BY <1>0, <2>1
  <2>3. queue[was(j)] = c /\ queue[was(i)] = d
    BY <2>1, <2>2
  <2> HIDE DEF was
  <2> QED BY <2>2, <2>3
<1> QED BY <1>1, <1>2, <1>3, QueueSteps

(* Nobody who waits for the client's lock is forgotten, whoever of the     *)
(* others is cancelled and whatever the connection does: he has a place in *)
(* the queue, and no later caller gets in before him.                      *)
THEOREM FirstComeFirstServed == Spec => []Queued /\ [][NobodyOvertakes]_vars
<1>1. Init => Queued
  BY DEF Init, Queued
<1>2. LockInv /\ [Next]_vars => [NobodyOvertakes]_vars
  BY OvertakesNext
<1> QED
  BY LockInit, LockNext, QueuedNext, <1>1, <1>2, PTL DEF Spec

----------------------------------------------------------------------------
(* One request at a time *)

(* With no call cancelled, what is on the connection is one request of the *)
(* caller inside, or its answer: whoever leaves takes the answer along or  *)
(* closes the connection.                                                  *)
CleanInv == LockInv /\ Clean

(* Nothing is outstanding at the start. *)
LEMMA CleanInit == Init => CleanInv
BY LockInit DEF Init, CleanInv, Clean

(* Without cancelled callers every step leaves at most the holder's own
   request outstanding. *)
LEMMA CleanNext ==
  ASSUME ~Cancelling
  PROVE  CleanInv /\ [Next]_vars => CleanInv'
<1> SUFFICES ASSUME CleanInv, [Next]_vars PROVE Clean'
  BY LockNext DEF CleanInv
<1> USE DEF CleanInv, LockInv
<1>1. ASSUME NEW c \in Callers, NEW r \in Requests, Request(c, r) PROVE Clean'
  BY <1>1 DEF Request, Clean, TypeOK
<1>2. ASSUME NEW c \in Callers, Acquire(c) PROVE Clean'
  <2>1. wire = <<>> /\ stream = <<>>
    BY <1>2 DEF Acquire, Clean
  <2>2. CASE conn
    <3>1. wire' = <<asked'[c]>> /\ stream' = <<>>
      BY <1>2, <2>1, <2>2 DEF Acquire
    <3>2. owner' = c /\ pc'[c] = "sent" /\ c # None
      BY <1>2, <2>2 DEF Acquire, TypeOK
    <3> QED BY <3>1, <3>2 DEF Clean
  <2>3. CASE ~conn
    BY <1>2, <2>1, <2>3 DEF Acquire, Clean
  <2> QED BY <2>2, <2>3
<1>3. ASSUME NEW c \in Callers, Settles(c) PROVE Clean'
  <2>0. ASSUME pc[c] \in {"connecting", "sent"} PROVE owner = c /\ c # None
    BY <2>0 DEF OneInside
  <2>1. CASE Connected(c)
    BY <2>0, <2>1 DEF Connected, Clean, TypeOK
  <2>2. CASE Receive(c)
    <3>1. wire = <<>> /\ stream = <<asked[owner]>>
      BY <2>0, <2>2 DEF Receive, Clean
    <3>2. Tail(stream) = <<>>
      BY <3>1
    <3> QED BY <2>2, <3>1, <3>2 DEF Receive, Clean
  <2>3. CASE TimesOut(c)
    BY <2>3 DEF TimesOut, Clean
  <2>4. CASE ConnectFails(c)
    <3>1. wire = <<>> /\ stream = <<>>
      BY <2>0, <2>4 DEF ConnectFails, Clean
    <3> QED BY <2>4, <3>1 DEF ConnectFails, Clean
  <2> QED BY <1>3, <2>1, <2>2, <2>3, <2>4 DEF Settles
<1>4. CASE Answer
  <2>1. /\ owner # None /\ pc[owner] = "sent"
        /\ wire = <<asked[owner]>> /\ stream = <<>>
    BY <1>4 DEF Answer, Clean
  <2>2. stream' = <<asked[owner]>> /\ wire' = <<>>
    <3>1. Head(wire) = asked[owner] /\ Tail(wire) = <<>>
      BY <2>1
    <3> QED BY <1>4, <2>1, <3>1 DEF Answer
  <2> QED BY <1>4, <2>1, <2>2 DEF Answer, Clean
<1>5. CASE Unload \/ Load
  BY <1>5 DEF Unload, Load, Clean
<1>6. CASE UNCHANGED vars
  BY <1>6 DEF vars, Clean
<1>7. ASSUME NEW c \in Callers, Cancelled(c) PROVE FALSE
  BY <1>7 DEF Cancelled
<1> QED
  BY <1>1, <1>2, <1>3, <1>4, <1>5, <1>6, <1>7 DEF Next

(* Where nothing is left over, requests are one at a time and no answer is
   stale. *)
LEMMA CleanIsSerial == CleanInv => OneOutstanding /\ NothingStale
<1> SUFFICES ASSUME CleanInv PROVE OneOutstanding /\ NothingStale
  OBVIOUS
<1>1. CASE wire = <<>> /\ stream = <<>>
  <2>1. wire \o stream = <<>>
    BY <1>1
  <2> QED BY <1>1, <2>1 DEF OneOutstanding, NothingStale
<1>2. ASSUME owner # None, pc[owner] = "sent",
             \/ wire = <<asked[owner]>> /\ stream = <<>>
             \/ wire = <<>> /\ stream = <<asked[owner]>>
      PROVE  OneOutstanding /\ NothingStale
  <2>1. wire \o stream = <<asked[owner]>>
    <3>1. <<asked[owner]>> \in Seq({asked[owner]})
      OBVIOUS
    <3>2. /\ <<asked[owner]>> \o <<>> = <<asked[owner]>>
          /\ <<>> \o <<asked[owner]>> = <<asked[owner]>>
      BY <3>1, ConcatEmptySeq, Zenon
    <3> QED BY <1>2, <3>2
  <2> QED BY <1>2, <2>1 DEF OneOutstanding, NothingStale
<1> QED
  BY <1>1, <1>2 DEF CleanInv, Clean

(* With no call cancelled, one request is outstanding on the connection at *)
(* a time and it is the lock holder's, through timeouts, lost connections, *)
(* late answers and an unload in the middle of a call.                     *)
THEOREM Serialised ==
  ASSUME ~Cancelling
  PROVE  Spec => [](OneOutstanding /\ NothingStale)
<1>1. CleanInv /\ [Next]_vars => CleanInv'
  BY CleanNext
<1> QED
  BY <1>1, CleanInit, CleanIsSerial, PTL DEF Spec

(* Every step of the client is one of the service, or none. *)
LEMMA ServiceStep ==
  ASSUME CleanInv, [Next]_vars, ~Cancelling
  PROVE  [Service!Next]_(Service!service)
<1> USE DEF CleanInv, LockInv
<1>1. ASSUME NEW c \in Callers, NEW r \in Requests, Request(c, r)
      PROVE  Service!Next
  <2>1. asked[c] = None
    BY <1>1 DEF Request, Waiting
  <2>2. Service!Ask(c, r)
    BY <1>1, <2>1 DEF Request, Service!Ask
  <2> QED BY <2>2 DEF Service!Next
<1>2. ASSUME NEW c \in Callers, NEW o, Ends(c, o), pc[c] \in {"connecting", "sent"},
             o \in Service!Answers(asked[c]) \union {Failed}
      PROVE  Service!Next
  <2>1. asked[c] # None
    BY <1>2 DEF Waiting
  <2>2. Service!End(c)
    BY <1>2, <2>1 DEF Ends, Service!End, Failed, Service!Failed
  <2> QED BY <2>2 DEF Service!Next
<1>3. ASSUME NEW c \in Callers, Settles(c)
      PROVE  Service!Next \/ UNCHANGED <<asked, reply>>
  <2>1. CASE Connected(c)
    BY <2>1 DEF Connected
  <2>2. CASE Receive(c)
    <3>1. owner = c /\ pc[c] = "sent"
      BY <2>2 DEF Receive, OneInside
    <3>2. Head(stream) = asked[c]
      BY <2>2, <3>1 DEF Receive, Clean
    <3>3. Taken(asked[c], Head(stream)) \in Service!Answers(asked[c]) \union {Failed}
      BY <3>2 DEF Taken, Service!Answers
    <3> QED BY <1>2, <2>2, <3>1, <3>3 DEF Receive
  <2>3. CASE TimesOut(c)
    BY <1>2, <2>3 DEF TimesOut
  <2>4. CASE ConnectFails(c)
    BY <1>2, <2>4 DEF ConnectFails
  <2> QED BY <1>3, <2>1, <2>2, <2>3, <2>4 DEF Settles
<1>4. ASSUME NEW c \in Callers, Acquire(c) PROVE UNCHANGED <<asked, reply>>
  BY <1>4 DEF Acquire
<1>5. ASSUME Answer \/ Unload \/ Load \/ UNCHANGED vars
      PROVE  UNCHANGED <<asked, reply>>
  BY <1>5 DEF Answer, Unload, Load, vars
<1>6. ASSUME NEW c \in Callers, Cancelled(c) PROVE FALSE
  BY <1>6 DEF Cancelled
<1>7. Service!Next \/ UNCHANGED <<asked, reply>>
  BY <1>1, <1>3, <1>4, <1>5, <1>6 DEF Next
<1> QED
  BY <1>7 DEF Service!service

(* With no call cancelled, the client implements RegisterService: a caller *)
(* is given the answer to the request it made or an error, never what was  *)
(* meant for somebody else or for an earlier call.                         *)
THEOREM ServiceKept ==
  ASSUME ~Cancelling
  PROVE  Spec => OwnAnswers
<1>1. Init => Service!Init
  BY DEF Init, Service!Init, Failed, Service!Failed
<1>2. CleanInv /\ [Next]_vars => [Service!Next]_(Service!service)
  BY ServiceStep
<1>3. CleanInv /\ [Next]_vars => CleanInv'
  BY CleanNext
<1> QED
  BY <1>1, <1>2, <1>3, CleanInit, PTL DEF Spec, OwnAnswers, Service!Spec
=============================================================================
