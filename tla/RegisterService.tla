--------------------------- MODULE RegisterService ---------------------------
(***************************************************************************)
(* What a caller of the Modbus client is promised: a request ends in the   *)
(* answer to that request or in an error.  How requests share one          *)
(* connection is not visible.                                              *)
(***************************************************************************)
CONSTANTS Callers, Requests, None

VARIABLES
  asked,   \* per caller: the request it waits on, or None
  reply    \* per caller: what its last request ended in

service == <<asked, reply>>

Failed == [kind |-> "failed", of |-> None]
Answers(r) == [kind : {"answered", "refused"}, of : {r}]

Init ==
  /\ asked = [c \in Callers |-> None]
  /\ reply = [c \in Callers |-> Failed]

Ask(c, r) ==
  /\ asked[c] = None
  /\ asked' = [asked EXCEPT ![c] = r]
  /\ UNCHANGED reply

(* A call may also end with no answer at all when its caller drops it. *)
End(c) ==
  /\ asked[c] # None
  /\ asked' = [asked EXCEPT ![c] = None]
  /\ \E a \in Answers(asked[c]) \union {Failed} : reply' = [reply EXCEPT ![c] = a]

Next == \E c \in Callers : End(c) \/ \E r \in Requests : Ask(c, r)

Spec == Init /\ [][Next]_service
=============================================================================
