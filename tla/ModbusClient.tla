---------------------------- MODULE ModbusClient ----------------------------
(***************************************************************************)
(* The Modbus TCP client of an S-series pump (modbus.NibeModbusClient):    *)
(* callers take a first-come lock, send one request on a connection that   *)
(* is opened when missing, and wait for the next answer on the stream.     *)
(*                                                                         *)
(* An answer is identified by the request it answers; its length is all    *)
(* the client checks of it, so the length is all the model keeps besides.  *)
(* The transaction id is sent and never compared, so it is left out.       *)
(***************************************************************************)
EXTENDS Integers, Sequences, SequencesExt

(* An operator that bears a definition's name with a fault in it, written  *)
(* just before that definition - AcquireUnlocked before Acquire - is what *)
(* the runs are shown to notice; nothing in the model uses it.             *)

CONSTANTS
  Callers,      \* tasks that use the client: polls, writes, read-backs, scans
  Requests,     \* the distinct requests they make
  Size,         \* words in a request's answer; 0 for a write, never looked at
  Missing,      \* requests over registers this unit does not have
  Cancelling,   \* TRUE: a task may be cancelled while it waits
  Unloading,    \* TRUE: the entry may be unloaded and set up again
  MaxUnread,    \* bound: requests left on one connection by cancelled calls
  None

ASSUME SizeAssumption == Size \in [Requests -> Nat]
ASSUME MissingAssumption == Missing \subseteq Requests
ASSUME SwitchAssumption == Cancelling \in BOOLEAN /\ Unloading \in BOOLEAN
ASSUME BoundAssumption == MaxUnread \in Nat
ASSUME NoneAssumption == None \notin Callers /\ None \notin Requests

VARIABLES
  conn,     \* a connection is open: _reader and _writer are set
  wire,     \* requests on it the pump has not answered yet
  stream,   \* answers on it nobody has read yet
  owner,    \* who holds _lock
  queue,    \* who waits for it, first come first served
  pc,       \* per caller: where it is in its call
  asked,    \* per caller: its request
  reply,    \* per caller: how its last request ended
  loaded    \* the config entry is set up

vars == <<conn, wire, stream, owner, queue, pc, asked, reply, loaded>>

Failed == [kind |-> "failed", of |-> None]

(* What the caller is given when it reads the answer to request `a' as the *)
(* answer to its own `r': only the length can give the mix-up away.        *)
Taken(r, a) ==
  IF a \in Missing THEN [kind |-> "refused", of |-> a]
  ELSE IF Size[r] # 0 /\ Size[r] # Size[a] THEN Failed
  ELSE [kind |-> "answered", of |-> a]

Init ==
  /\ conn = TRUE
  /\ wire = <<>>
  /\ stream = <<>>
  /\ owner = None
  /\ queue = <<>>
  /\ pc = [c \in Callers |-> "idle"]
  /\ asked = [c \in Callers |-> None]
  /\ reply = [c \in Callers |-> Failed]
  /\ loaded = TRUE

(* read_registers, write_register, write_registers or probe is called. *)
Request(c, r) ==
  /\ loaded
  /\ pc[c] = "idle"
  /\ pc' = [pc EXCEPT ![c] = "waiting"]
  /\ asked' = [asked EXCEPT ![c] = r]
  /\ queue' = Append(queue, c)
  /\ UNCHANGED <<conn, wire, stream, owner, reply, loaded>>

AcquireUnlocked(c) ==
  /\ queue # <<>> /\ Head(queue) = c
  /\ owner' = c
  /\ queue' = Tail(queue)
  /\ IF conn
       THEN /\ wire' = Append(wire, asked[c])
            /\ pc' = [pc EXCEPT ![c] = "sent"]
       ELSE /\ pc' = [pc EXCEPT ![c] = "connecting"]
            /\ UNCHANGED wire
  /\ UNCHANGED <<conn, stream, asked, reply, loaded>>

(* The lock is free: its first waiter sends on the open connection, or     *)
(* starts to open one.                                                     *)
Acquire(c) ==
  /\ owner = None
  /\ queue # <<>> /\ Head(queue) = c
  /\ owner' = c
  /\ queue' = Tail(queue)
  /\ IF conn
       THEN /\ wire' = Append(wire, asked[c])
            /\ pc' = [pc EXCEPT ![c] = "sent"]
       ELSE /\ pc' = [pc EXCEPT ![c] = "connecting"]
            /\ UNCHANGED wire
  /\ UNCHANGED <<conn, stream, asked, reply, loaded>>

Connected(c) ==
  /\ pc[c] = "connecting"
  /\ conn' = TRUE
  /\ wire' = <<asked[c]>>
  /\ stream' = <<>>
  /\ pc' = [pc EXCEPT ![c] = "sent"]
  /\ UNCHANGED <<owner, queue, asked, reply, loaded>>

EndsHolding(c, outcome) ==
  /\ pc' = [pc EXCEPT ![c] = "idle"]
  /\ asked' = [asked EXCEPT ![c] = None]
  /\ reply' = [reply EXCEPT ![c] = outcome]
  /\ UNCHANGED <<owner, queue, loaded>>

(* The call is over and the lock released. *)
Ends(c, outcome) ==
  /\ owner' = None
  /\ pc' = [pc EXCEPT ![c] = "idle"]
  /\ asked' = [asked EXCEPT ![c] = None]
  /\ reply' = [reply EXCEPT ![c] = outcome]
  /\ UNCHANGED <<queue, loaded>>

(* The pump works its requests off in order. *)
Answer ==
  /\ conn /\ wire # <<>>
  /\ stream' = Append(stream, Head(wire))
  /\ wire' = Tail(wire)
  /\ UNCHANGED <<conn, owner, queue, pc, asked, reply, loaded>>

(* The next answer on the stream is taken for the answer to this request.  *)
Receive(c) ==
  /\ pc[c] = "sent"
  /\ stream # <<>>
  /\ stream' = Tail(stream)
  /\ Ends(c, Taken(asked[c], Head(stream)))
  /\ UNCHANGED <<conn, wire>>

TimesOutOpen(c) ==
  /\ pc[c] = "sent"
  /\ Ends(c, Failed)
  /\ UNCHANGED <<conn, wire, stream>>

(* No answer in time, or the connection is gone: it is closed, so whatever *)
(* still arrives on it is never read.                                      *)
TimesOut(c) ==
  /\ pc[c] = "sent"
  /\ conn' = FALSE
  /\ wire' = <<>>
  /\ stream' = <<>>
  /\ Ends(c, Failed)

ConnectFails(c) ==
  /\ pc[c] = "connecting"
  /\ Ends(c, Failed)
  /\ UNCHANGED <<conn, wire, stream>>

(* The task is cancelled - a script is restarted, say.  CancelledError is  *)
(* none of the errors that close the connection.                           *)
Cancelled(c) ==
  /\ Cancelling
  /\ \/ /\ pc[c] = "waiting"
        /\ \E i \in 1 .. Len(queue) :
             queue[i] = c /\ queue' = RemoveAt(queue, i)
        /\ pc' = [pc EXCEPT ![c] = "idle"]
        /\ asked' = [asked EXCEPT ![c] = None]
        /\ reply' = [reply EXCEPT ![c] = Failed]
        /\ UNCHANGED <<owner, loaded>>
     \/ /\ pc[c] \in {"connecting", "sent"}
        /\ Len(wire) + Len(stream) <= MaxUnread
        /\ Ends(c, Failed)
  /\ UNCHANGED <<conn, wire, stream>>

(* async_unload_entry closes the client, waiting for no call. *)
Unload ==
  /\ Unloading /\ loaded
  /\ loaded' = FALSE
  /\ conn' = FALSE
  /\ wire' = <<>>
  /\ stream' = <<>>
  /\ UNCHANGED <<owner, queue, pc, asked, reply>>

(* The entry is set up again, with a client and a connection of its own.   *)
Load ==
  /\ ~loaded
  /\ \A c \in Callers : pc[c] = "idle"
  /\ loaded' = TRUE
  /\ conn' = TRUE
  /\ wire' = <<>>
  /\ stream' = <<>>
  /\ UNCHANGED <<owner, queue, pc, asked, reply>>

Settles(c) == Receive(c) \/ TimesOut(c) \/ Connected(c) \/ ConnectFails(c)

Next ==
  \/ \E c \in Callers, r \in Requests : Request(c, r)
  \/ \E c \in Callers : Acquire(c) \/ Settles(c) \/ Cancelled(c)
  \/ Answer
  \/ Unload
  \/ Load

Spec == Init /\ [][Next]_vars

(* The loop runs whoever is ready, and every wait has a timeout. *)
Fairness == \A c \in Callers : WF_vars(Acquire(c)) /\ WF_vars(Settles(c))

FairSpec == Spec /\ Fairness

(* With a pump that answers everything and callers that keep asking. *)
AnsweringSpec ==
  /\ FairSpec
  /\ WF_vars(Answer)
  /\ \A c \in Callers : SF_vars(Receive(c))

----------------------------------------------------------------------------
(* Properties *)

Places == {"idle", "waiting", "connecting", "sent"}

Outcomes ==
  {Failed} \union [kind : {"answered", "refused"}, of : Requests]

(* Every variable stays in its type, the queue holding callers only.       *)
TypeOK ==
  /\ conn \in BOOLEAN
  /\ wire \in Seq(Requests)
  /\ stream \in Seq(Requests)
  /\ owner \in Callers \union {None}
  /\ queue \in Seq(Callers)
  /\ pc \in [Callers -> Places]
  /\ asked \in [Callers -> Requests \union {None}]
  /\ reply \in [Callers -> Outcomes]
  /\ loaded \in BOOLEAN

(* At most one request is outstanding on the connection, unread answers    *)
(* included: "NIBE handles one outstanding transaction at a time;          *)
(* serialise access".                                                      *)
OneOutstanding == Len(wire) + Len(stream) <= 1

(* What is outstanding is the lock holder's own request, so a late answer  *)
(* never outlives the call it was meant for.                               *)
NothingStale ==
  \A i \in 1 .. Len(wire \o stream) :
    /\ owner # None
    /\ pc[owner] = "sent"
    /\ (wire \o stream)[i] = asked[owner]

(* Between the lock and the end of the call there is one caller, and it is *)
(* the lock's owner.                                                       *)
OneInside ==
  \A c \in Callers : pc[c] \in {"connecting", "sent"} <=> owner = c

(* The connection carries nothing, or the one request of the caller inside *)
(* and later its answer: what OneOutstanding and NothingStale rest on.     *)
Clean ==
  \/ wire = <<>> /\ stream = <<>>
  \/ /\ owner # None /\ pc[owner] = "sent"
     /\ \/ wire = <<asked[owner]>> /\ stream = <<>>
        \/ wire = <<>> /\ stream = <<asked[owner]>>

(* Who waits is in the queue once, and whoever has called has a request.   *)
Waiting ==
  /\ \A i \in 1 .. Len(queue) : pc[queue[i]] = "waiting"
  /\ \A i, j \in 1 .. Len(queue) : queue[i] = queue[j] => i = j
  /\ \A c \in Callers : asked[c] = None <=> pc[c] = "idle"

(* A caller is given the answer to its own request or an error: timeouts,  *)
(* late answers, lost connections and reconnections never hand it another's.*)
Service == INSTANCE RegisterService
OwnAnswers == Service!Spec

(* Every call ends, whatever the pump and the network do. *)
CallsEnd == \A c \in Callers : pc[c] = "waiting" ~> pc[c] = "idle"

(* "A persistent, self-healing connection": once nothing is cancelled any  *)
(* more and the pump answers every request in time, the answers fit the    *)
(* requests again.                                                         *)
OffStep ==
  \E c \in Callers :
    /\ pc[c] = "sent" /\ pc'[c] = "idle"
    /\ reply'[c].of # asked[c]
Disturbed == \E c \in Callers : Cancelled(c) \/ TimesOut(c) \/ ConnectFails(c)

SelfHeals == <>[][~Disturbed]_vars => <>[][~OffStep]_vars
=============================================================================
