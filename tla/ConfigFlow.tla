------------------------------ MODULE ConfigFlow ------------------------------
(***************************************************************************)
(* Adding pumps (config_flow.NibeConfigFlow): flows begun by a discovery   *)
(* or by a user, side by side, each of which identifies its pump, gives it *)
(* a unique id, reads its registers and adds an entry; and the leases of   *)
(* the pumps' addresses, which change meanwhile.                           *)
(*                                                                         *)
(* Pumps reached by Modbus and pumps behind a gateway take steps of their  *)
(* own.  Home Assistant's unique ids are external (Adopts, Adds).          *)
(***************************************************************************)
EXTENDS Integers, FiniteSets

CONSTANTS
  Pumps, Hosts,
  GatewayPumps,    \* those behind a gateway
  Named,           \* those whose network name, NIBE-<serial>, can be looked up
  Flows,           \* bound: flows side by side
  MaxLeases        \* bound: changes of the addresses

ASSUME FlowAssumption ==
  /\ GatewayPumps \union Named \subseteq Pumps
  /\ IsFiniteSet(Pumps) /\ 0 \notin Pumps \union Hosts /\ MaxLeases \in Nat

VARIABLES
  address,    \* where each pump is
  leases,     \* changes of the addresses so far
  added,      \* the entries: unique id, host, and the pump the id was taken from
  flow,       \* the flows in progress
  leftOpen    \* a Modbus client is connected that nobody holds

flowVars == <<address, leases, added, flow, leftOpen>>

Nobody == 0
NoId == <<"none", 0>>
NoFlow == [step |-> "none", host |-> 0, kind |-> "modbus", id |-> NoId, pump |-> Nobody]

Modbus == Pumps \ GatewayPumps
Leases == {a \in [Pumps -> Hosts] : \A p, q \in Pumps : a[p] = a[q] => p = q}
At(h) == {p \in Pumps : address[p] = h}

(* Somebody at h answers for what it is asked to be.                       *)
PumpAnswers(h) == At(h) \intersect Modbus # {}
GatewayAnswers(h) == At(h) \intersect GatewayPumps # {}

(* The serial where the name gives one, else the address.                  *)
Id(p, kind, h) == IF p \in Named THEN <<"nibe", p>> ELSE <<kind, h>>

FlowInit ==
  /\ address \in Leases
  /\ leases = 0
  /\ added = {}
  /\ flow = [f \in Flows |-> NoFlow]
  /\ leftOpen = FALSE

Lease ==
  /\ leases < MaxLeases
  /\ leases' = leases + 1
  /\ address' \in Leases \ {address}
  /\ UNCHANGED <<added, flow, leftOpen>>

Entry(id) == {e \in added : e.id = id}
Moved(id, h) == {IF e.id = id THEN [e EXCEPT !.host = h] ELSE e : e \in added}

(* A flow takes an id: it is aborted if another has it or an entry is      *)
(* configured with it, whose host is then updated if the code asks so.     *)
AdoptsConfigured(f, next, updates) ==
  /\ flow' = [flow EXCEPT ![f] =
       IF \E g \in Flows \ {f} : flow[g].id = next.id THEN NoFlow ELSE next]
  /\ UNCHANGED added

Adopts(f, next, updates) ==
  LET taken == \E g \in Flows \ {f} : flow[g].id = next.id
      configured == ~taken /\ Entry(next.id) # {}
  IN
  /\ flow' = [flow EXCEPT ![f] = IF taken \/ configured THEN NoFlow ELSE next]
  /\ added' = IF configured /\ updates THEN Moved(next.id, next.host) ELSE added

Becomes(f, next) == flow' = [flow EXCEPT ![f] = next] /\ UNCHANGED added
GoesTo(f, step) == Becomes(f, [flow[f] EXCEPT !.step = step])
Unknown(h) == \A e \in added : e.host # h

----------------------------------------------------------------------------
(* Pumps on the local network.  An address an entry has needs nothing; a   *)
(* pump without a name is given its id once it has answered.               *)
Announced(f, p) ==
  LET h == address[p]
      next == [step |-> "identify", host |-> h, kind |-> "modbus", pump |-> p,
               id |-> IF p \in Named THEN Id(p, "modbus", h) ELSE NoId]
  IN
  /\ flow[f] = NoFlow /\ p \in Modbus /\ Unknown(h)
  /\ IF p \in Named THEN Adopts(f, next, TRUE) ELSE Becomes(f, next)
  /\ UNCHANGED <<address, leases, leftOpen>>

(* One that does not answer has Modbus switched off.                       *)
Identified(f, answers) ==
  /\ flow[f].step = "identify" /\ flow[f].kind = "modbus"
  /\ answers => PumpAnswers(flow[f].host)
  /\ IF answers THEN GoesTo(f, "consent") ELSE Becomes(f, NoFlow)
  /\ UNCHANGED <<address, leases, leftOpen>>

Consents(f) ==
  /\ flow[f].step = "consent" /\ flow[f].kind = "modbus"
  /\ GoesTo(f, "connect")
  /\ UNCHANGED <<address, leases, leftOpen>>

(* A search of the network has found pumps, h the one that is picked.      *)
Searched(f, h) ==
  /\ flow[f] = NoFlow
  /\ PumpAnswers(h)
  /\ Becomes(f, [NoFlow EXCEPT !.step = "pick", !.host = h])
  /\ UNCHANGED <<address, leases, leftOpen>>

Picks(f) ==
  /\ flow[f].step = "pick"
  /\ GoesTo(f, "connect")
  /\ UNCHANGED <<address, leases, leftOpen>>

Typed(f, h) ==
  /\ flow[f] = NoFlow
  /\ Becomes(f, [NoFlow EXCEPT !.step = "connect", !.host = h])
  /\ UNCHANGED <<address, leases, leftOpen>>

(* Without an answer the client is closed, and the form shown again.       *)
Connected(f, answers) ==
  /\ flow[f].step = "connect"
  /\ answers => PumpAnswers(flow[f].host)
  /\ IF answers THEN GoesTo(f, "name") ELSE Becomes(f, NoFlow)
  /\ UNCHANGED <<address, leases, leftOpen>>

(* Whose name a reverse look-up of the address yields.                     *)
NameAt(h) == IF At(h) = {} THEN {Nobody} ELSE At(h)

(* The name is looked up unless it is known.  An entry that has the id     *)
(* keeps its address, and the client stays open.                           *)
NameLookedUp(f) ==
  LET known == flow[f].id # NoId IN
  /\ flow[f].step = "name" /\ flow[f].kind = "modbus"
  /\ \E p \in IF known THEN {flow[f].pump} ELSE NameAt(flow[f].host) :
       Adopts(f, [flow[f] EXCEPT !.step = "scan", !.pump = p,
                    !.id = IF known THEN @ ELSE Id(p, "modbus", flow[f].host)], FALSE)
  /\ leftOpen' = (leftOpen \/ flow'[f] = NoFlow)
  /\ UNCHANGED <<address, leases>>

Scanned(f, done) ==
  /\ flow[f].step = "scan" /\ flow[f].kind = "modbus"
  /\ done => PumpAnswers(flow[f].host)
  /\ IF done THEN GoesTo(f, "confirm") ELSE Becomes(f, NoFlow)
  /\ UNCHANGED <<address, leases, leftOpen>>

(* Home Assistant adds the entry, in place of one that has the same id.    *)
Adds(f) ==
  /\ added' = (added \ Entry(flow[f].id)) \union
              {[id |-> flow[f].id, host |-> flow[f].host, pump |-> flow[f].pump]}
  /\ flow' = [flow EXCEPT ![f] = NoFlow]

Confirmed(f) ==
  /\ flow[f].step = "confirm" /\ flow[f].kind = "modbus"
  /\ Adds(f)
  /\ UNCHANGED <<address, leases, leftOpen>>

----------------------------------------------------------------------------
(* Pumps behind a gateway.  One that is discovered has its id before it    *)
(* has answered, an entry follows it to its address either way, and no     *)
(* client outlives a step.                                                 *)
GatewayDiscovered(f, p) ==
  LET h == address[p] IN
  /\ flow[f] = NoFlow /\ p \in GatewayPumps /\ Unknown(h)
  /\ Adopts(f, [step |-> "identify", host |-> h, kind |-> "gateway", pump |-> p,
                id |-> Id(p, "gateway", h)], TRUE)
  /\ UNCHANGED <<address, leases, leftOpen>>

(* It answers with a product the integration knows, or not.                *)
GatewayIdentified(f, answers) ==
  /\ flow[f].step = "identify" /\ flow[f].kind = "gateway"
  /\ answers => GatewayAnswers(flow[f].host)
  /\ IF ~answers THEN Becomes(f, NoFlow)
     ELSE GoesTo(f, IF flow[f].id = NoId THEN "name" ELSE "consent")
  /\ UNCHANGED <<address, leases, leftOpen>>

GatewayConsents(f) ==
  /\ flow[f].step = "consent" /\ flow[f].kind = "gateway"
  /\ GoesTo(f, "scan")
  /\ UNCHANGED <<address, leases, leftOpen>>

GatewayTyped(f, h) ==
  /\ flow[f] = NoFlow
  /\ Becomes(f, [NoFlow EXCEPT !.step = "identify", !.host = h, !.kind = "gateway"])
  /\ UNCHANGED <<address, leases, leftOpen>>

GatewayNamed(f) ==
  /\ flow[f].step = "name" /\ flow[f].kind = "gateway"
  /\ \E p \in NameAt(flow[f].host) :
       Adopts(f, [flow[f] EXCEPT !.step = "scan", !.pump = p,
                    !.id = Id(p, "gateway", flow[f].host)], TRUE)
  /\ UNCHANGED <<address, leases, leftOpen>>

(* A run of timeouts ends the scan.                                        *)
GatewayScanned(f, done) ==
  /\ flow[f].step = "scan" /\ flow[f].kind = "gateway"
  /\ done => GatewayAnswers(flow[f].host)
  /\ IF done THEN GoesTo(f, "confirm") ELSE Becomes(f, NoFlow)
  /\ UNCHANGED <<address, leases, leftOpen>>

GatewayConfirmed(f) ==
  /\ flow[f].step = "confirm" /\ flow[f].kind = "gateway"
  /\ Adds(f)
  /\ UNCHANGED <<address, leases, leftOpen>>

----------------------------------------------------------------------------
(* The user closes the dialog.                                             *)
Dismissed(f) ==
  /\ flow[f].step \in {"pick", "consent", "scan", "confirm"}
  /\ flow' = [flow EXCEPT ![f] = NoFlow]
  /\ leftOpen' = (leftOpen \/ (flow[f].kind = "modbus" /\ flow[f].step \in {"scan", "confirm"}))
  /\ UNCHANGED <<address, leases, added>>

FlowNext ==
  \/ Lease
  \/ \E f \in Flows :
       \/ Consents(f) \/ Picks(f) \/ NameLookedUp(f) \/ Confirmed(f) \/ Dismissed(f)
       \/ GatewayConsents(f) \/ GatewayNamed(f) \/ GatewayConfirmed(f)
       \/ \E p \in Pumps : Announced(f, p) \/ GatewayDiscovered(f, p)
       \/ \E h \in Hosts : Searched(f, h) \/ Typed(f, h) \/ GatewayTyped(f, h)
       \/ \E b \in BOOLEAN :
            \/ Identified(f, b) \/ Connected(f, b) \/ Scanned(f, b)
            \/ GatewayIdentified(f, b) \/ GatewayScanned(f, b)

FlowSpec == FlowInit /\ [][FlowNext]_flowVars

----------------------------------------------------------------------------
FlowTypeOK ==
  /\ address \in Leases
  /\ \A f \in Flows : flow[f].step \in
       {"none", "pick", "identify", "consent", "connect", "name", "scan", "confirm"}
  /\ \A e \in added : e.host \in Hosts /\ e.pump \in Pumps \union {Nobody} /\ e.id # NoId
  /\ leftOpen \in BOOLEAN

(* A pump whose name can be looked up has one entry however it was found,  *)
(* wherever it has moved and whatever flows ran side by side, and no flow  *)
(* that is about to add an entry would put it in the place of another.     *)
OnePumpOneEntry ==
  /\ \A p \in Named : Cardinality({e \in added : e.pump = p}) <= 1
  /\ \A f \in Flows : flow[f].step = "confirm" => Entry(flow[f].id) = {}
=============================================================================
