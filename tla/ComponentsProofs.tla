--------------------------- MODULE ComponentsProofs ---------------------------
(* What is proved of the config flow, the entries and the entity registry, *)
(* for any pumps, addresses, entries, gateways and registers, and any      *)
(* number of flows, wishes of the user and versions of the integration;    *)
(* and of all of Components, with what is proved of the other components   *)
(* in modules of their own.                                                *)
EXTENDS Components, DiscoveryProofs, ValueProofs

----------------------------------------------------------------------------
(* The config flow *)

Ids == {"none", "nibe", "modbus", "gateway"} \X (Pumps \union Hosts \union {0})
FlowStates ==
  [step : {"none", "pick", "identify", "consent", "connect", "name", "scan", "confirm"},
   host : Hosts \union {0}, kind : {"modbus", "gateway"}, id : Ids,
   pump : Pumps \union {Nobody}]
EntryStates == [id : Ids, host : Hosts \union {0}, pump : Pumps \union {Nobody}]

FlowsTyped ==
  /\ address \in [Pumps -> Hosts]
  /\ flow \in [Flows -> FlowStates]
  /\ added \subseteq EntryStates

(* An id that was taken from a pump with a name is that name's.            *)
Matches(r) == r.pump \in Named => r.id = <<"nibe", r.pump>>
IdsMatch == (\A f \in Flows : Matches(flow[f])) /\ (\A e \in added : Matches(e))

(* A flow that will add an entry without another question has an id.       *)
IdsInTime ==
  \A f \in Flows :
    \/ flow[f].step \in {"scan", "confirm"}
    \/ flow[f].step = "consent" /\ flow[f].kind = "gateway"
    => flow[f].id # NoId

(* No other flow and no entry has the id of a flow, nor two entries one.   *)
FlowsApart ==
  \A f, g \in Flows : f # g /\ flow[f].id # NoId => flow[f].id # flow[g].id
Unclaimed == \A f \in Flows, e \in added : flow[f].id # NoId => e.id # flow[f].id
EntriesApart == \A e, d \in added : e.id = d.id => e = d

IdInv == FlowsTyped /\ IdsMatch /\ IdsInTime /\ FlowsApart /\ Unclaimed /\ EntriesApart

----------------------------------------------------------------------------
(* A flow not begun has its type and no unique id. *)
LEMMA NoFlowType == NoFlow \in FlowStates /\ Matches(NoFlow) /\ NoFlow.id = NoId /\ NoFlow.step = "none"
BY FlowAssumption DEF NoFlow, FlowStates, Ids, NoId, Nobody, Matches

(* A unique id is never the empty one, and a pump with a name has one id
   whichever the way it is reached. *)
LEMMA IdType ==
  ASSUME NEW p \in Pumps \union {Nobody}, NEW kind \in {"modbus", "gateway"},
         NEW h \in Hosts \union {0}
  PROVE  /\ Id(p, kind, h) \in Ids /\ Id(p, kind, h) # NoId
         /\ p \in Named => Id(p, kind, h) = <<"nibe", p>>
BY FlowAssumption DEF Id, Ids, NoId, Nobody

(* A flow that goes on without a new id, or ends, disturbs nobody.         *)
LEMMA BecomesKeeps ==
  ASSUME IdInv, NEW f \in Flows, NEW next \in FlowStates, Becomes(f, next),
         UNCHANGED address, Matches(next), next.id \in {NoId, flow[f].id},
         \/ next.step \in {"scan", "confirm"}
         \/ next.step = "consent" /\ next.kind = "gateway"
         => next.id # NoId
  PROVE  IdInv'
<1>1. flow' = [flow EXCEPT ![f] = next] /\ added' = added
  BY DEF Becomes
<1>2. \A g \in Flows : flow'[g] = IF g = f THEN next ELSE flow[g]
  BY <1>1 DEF IdInv, FlowsTyped
<1>3. FlowsTyped'
  BY <1>1 DEF IdInv, FlowsTyped
<1>4. IdsMatch' /\ IdsInTime'
  BY <1>1, <1>2 DEF IdInv, IdsMatch, IdsInTime, Matches
<1>5. FlowsApart'
  BY <1>2 DEF IdInv, FlowsApart
<1>6. Unclaimed' /\ EntriesApart'
  BY <1>1, <1>2 DEF IdInv, Unclaimed, EntriesApart
<1> QED BY <1>3, <1>4, <1>5, <1>6 DEF IdInv

(* Nor does one that adopts an id: others that have it end it, and an      *)
(* entry that has it is at most moved.                                     *)
LEMMA AdoptsKeeps ==
  ASSUME IdInv, NEW f \in Flows, NEW next \in FlowStates, NEW updates \in BOOLEAN,
         Adopts(f, next, updates), UNCHANGED address, Matches(next), next.id # NoId
  PROVE  IdInv'
<1> DEFINE taken == \E g \in Flows \ {f} : flow[g].id = next.id
           configured == ~taken /\ Entry(next.id) # {}
           state == IF taken \/ configured THEN NoFlow ELSE next
<1>1. /\ flow' = [flow EXCEPT ![f] = state]
      /\ added' = IF configured /\ updates THEN Moved(next.id, next.host) ELSE added
  BY DEF Adopts
<1>2. \A g \in Flows : flow'[g] = IF g = f THEN state ELSE flow[g]
  BY <1>1 DEF IdInv, FlowsTyped
<1>3. \A e \in added' : \E d \in added :
        /\ e.id = d.id /\ e.pump = d.pump /\ e \in EntryStates
        /\ e = IF configured /\ updates /\ d.id = next.id
                 THEN [d EXCEPT !.host = next.host] ELSE d
  BY <1>1 DEF IdInv, FlowsTyped, Moved, EntryStates, FlowStates
<1>4. state \in FlowStates /\ Matches(state)
  BY NoFlowType
<1>5. FlowsTyped'
  BY <1>1, <1>3, <1>4 DEF IdInv, FlowsTyped
<1>6. IdsMatch'
  BY <1>2, <1>3, <1>4 DEF IdInv, IdsMatch, Matches
<1>7. IdsInTime'
  BY <1>2, NoFlowType DEF IdInv, IdsInTime
<1>8. FlowsApart'
  BY <1>2, NoFlowType DEF IdInv, FlowsApart
<1>9. Unclaimed'
  <2>1. ASSUME NEW g \in Flows, NEW e \in added', flow'[g].id # NoId
        PROVE  e.id # flow'[g].id
    <3>1. PICK d \in added : e.id = d.id
      BY <1>3
    <3>2. CASE g # f
      BY <1>2, <2>1, <3>1, <3>2 DEF IdInv, Unclaimed
    <3>3. CASE g = f
      BY <1>2, <2>1, <3>1, <3>3, NoFlowType DEF Entry
    <3> QED BY <3>2, <3>3
  <2> QED BY <2>1 DEF Unclaimed
<1>10. EntriesApart'
  BY <1>3 DEF IdInv, EntriesApart
<1> QED BY <1>5, <1>6, <1>7, <1>8, <1>9, <1>10 DEF IdInv

(* An entry is added where none had the id, and the flow ends.             *)
LEMMA AddsKeeps ==
  ASSUME IdInv, NEW f \in Flows, flow[f].step = "confirm", Adds(f), UNCHANGED address
  PROVE  IdInv'
<1> DEFINE new == [id |-> flow[f].id, host |-> flow[f].host, pump |-> flow[f].pump]
<1>1. flow[f] \in FlowStates /\ flow[f].id # NoId /\ Matches(flow[f])
  BY DEF IdInv, FlowsTyped, IdsInTime, IdsMatch
<1>2. added' = added \union {new} /\ \A e \in added : e.id # new.id
  BY <1>1 DEF Adds, Entry, IdInv, Unclaimed
<1>3. \A g \in Flows : flow'[g] = IF g = f THEN NoFlow ELSE flow[g]
  BY DEF Adds, IdInv, FlowsTyped
<1>4. new \in EntryStates /\ Matches(new)
  BY <1>1 DEF EntryStates, FlowStates, Matches
<1>5. FlowsTyped'
  BY <1>2, <1>4, NoFlowType DEF Adds, IdInv, FlowsTyped
<1>6. IdsMatch' /\ IdsInTime'
  BY <1>2, <1>3, <1>4, NoFlowType DEF IdInv, IdsMatch, IdsInTime, Matches
<1>7. FlowsApart'
  BY <1>3, NoFlowType DEF IdInv, FlowsApart
<1>8. Unclaimed'
  BY <1>1, <1>2, <1>3, NoFlowType DEF IdInv, Unclaimed, FlowsApart
<1>9. EntriesApart'
  BY <1>2 DEF IdInv, EntriesApart
<1> QED BY <1>5, <1>6, <1>7, <1>8, <1>9 DEF IdInv

----------------------------------------------------------------------------
(* The ids agree before any flow. *)
LEMMA IdInit == FlowInit => IdInv
<1>1. FlowInit => /\ address \in [Pumps -> Hosts]
                  /\ flow \in [Flows -> FlowStates]
                  /\ \A f \in Flows : flow[f] = NoFlow
                  /\ added = {}
  BY NoFlowType DEF FlowInit, Leases
<1> QED BY <1>1, NoFlowType DEF IdInv, FlowsTyped, IdsMatch, IdsInTime, FlowsApart,
       Unclaimed, EntriesApart

(* Every step of every flow keeps them agreeing. *)
LEMMA IdNext == IdInv /\ [FlowNext]_flowVars => IdInv'
<1> SUFFICES ASSUME IdInv, [FlowNext]_flowVars PROVE IdInv'
  OBVIOUS
<1> DEFINE Lasts(f, next) ==
      /\ next \in FlowStates /\ Matches(next) /\ next.id \in {NoId, flow[f].id}
      /\ \/ next.step \in {"scan", "confirm"}
         \/ next.step = "consent" /\ next.kind = "gateway"
         => next.id # NoId
<1>1. ASSUME NEW f \in Flows PROVE flow[f] \in FlowStates /\ Matches(flow[f])
  BY <1>1 DEF IdInv, FlowsTyped, IdsMatch
<1>2. ASSUME NEW f \in Flows PROVE Lasts(f, NoFlow)
  BY NoFlowType
<1>3. ASSUME NEW f \in Flows, NEW next, Becomes(f, next), Lasts(f, next), UNCHANGED address
      PROVE  IdInv'
  BY <1>3, BecomesKeeps
<1>4. ASSUME NEW p \in Pumps, address[p] \in Hosts, NEW f \in Flows, Announced(f, p)
      PROVE  IdInv'
  <2> DEFINE next == [step |-> "identify", host |-> address[p], kind |-> "modbus", pump |-> p,
                      id |-> IF p \in Named THEN Id(p, "modbus", address[p]) ELSE NoId]
  <2>1. next \in FlowStates /\ Matches(next) /\ (p \in Named => next.id # NoId)
    BY <1>4, IdType, NoFlowType DEF FlowStates, Matches, NoFlow
  <2>2. CASE p \in Named
    BY <1>4, <2>1, <2>2, AdoptsKeeps DEF Announced
  <2>3. CASE p \notin Named
    BY <1>3, <1>4, <2>1, <2>3 DEF Announced
  <2> QED BY <2>2, <2>3
<1>5. ASSUME NEW p \in Pumps, address[p] \in Hosts, NEW f \in Flows, GatewayDiscovered(f, p)
      PROVE  IdInv'
  <2> DEFINE next == [step |-> "identify", host |-> address[p], kind |-> "gateway", pump |-> p,
                      id |-> Id(p, "gateway", address[p])]
  <2>1. next \in FlowStates /\ Matches(next) /\ next.id # NoId
    BY <1>5, IdType DEF FlowStates, Matches
  <2> QED BY <1>5, <2>1, AdoptsKeeps DEF GatewayDiscovered
<1>6. ASSUME NEW f \in Flows, NameLookedUp(f) PROVE IdInv'
  <2> DEFINE known == flow[f].id # NoId
             next(p) == [flow[f] EXCEPT !.step = "scan", !.pump = p,
                           !.id = IF known THEN @ ELSE Id(p, "modbus", flow[f].host)]
  <2>1. PICK p \in IF known THEN {flow[f].pump} ELSE NameAt(flow[f].host) :
          Adopts(f, next(p), FALSE)
    BY <1>6 DEF NameLookedUp
  <2>2. p \in Pumps \union {Nobody}
    BY <1>1 DEF NameAt, At, FlowStates
  <2>3. next(p) \in FlowStates /\ Matches(next(p)) /\ next(p).id # NoId
    <3>1. CASE known
      BY <1>1, <2>1, <2>2, <3>1 DEF FlowStates, Matches
    <3>2. CASE ~known
      BY <1>1, <2>2, <3>2, IdType DEF FlowStates, Matches
    <3> QED BY <3>1, <3>2
  <2> QED BY <1>6, <2>1, <2>3, AdoptsKeeps DEF NameLookedUp
<1>7. ASSUME NEW f \in Flows, GatewayNamed(f) PROVE IdInv'
  <2> DEFINE next(p) == [flow[f] EXCEPT !.step = "scan", !.pump = p,
                           !.id = Id(p, "gateway", flow[f].host)]
  <2>1. PICK p \in NameAt(flow[f].host) : Adopts(f, next(p), TRUE)
    BY <1>7 DEF GatewayNamed
  <2>2. p \in Pumps \union {Nobody}
    BY DEF NameAt, At
  <2>3. next(p) \in FlowStates /\ Matches(next(p)) /\ next(p).id # NoId
    BY <1>1, <2>2, IdType DEF FlowStates, Matches
  <2> QED BY <1>7, <2>1, <2>3, AdoptsKeeps DEF GatewayNamed
<1>8. ASSUME NEW f \in Flows, NEW h \in Hosts, Searched(f, h) \/ Typed(f, h) \/ GatewayTyped(f, h)
      PROVE  IdInv'
  <2>1. /\ Lasts(f, [NoFlow EXCEPT !.step = "pick", !.host = h])
        /\ Lasts(f, [NoFlow EXCEPT !.step = "connect", !.host = h])
        /\ Lasts(f, [NoFlow EXCEPT !.step = "identify", !.host = h, !.kind = "gateway"])
    BY NoFlowType DEF FlowStates, Matches
  <2>2. CASE Searched(f, h)
    BY <1>3, <2>1, <2>2 DEF Searched
  <2>3. CASE Typed(f, h)
    BY <1>3, <2>1, <2>3 DEF Typed
  <2>4. CASE GatewayTyped(f, h)
    BY <1>3, <2>1, <2>4 DEF GatewayTyped
  <2> QED BY <1>8, <2>2, <2>3, <2>4
<1>9. ASSUME NEW f \in Flows, Confirmed(f) \/ GatewayConfirmed(f) PROVE IdInv'
  BY <1>9, AddsKeeps DEF Confirmed, GatewayConfirmed
<1>10. ASSUME NEW f \in Flows,
              NEW next \in {"identify", "consent", "connect", "name", "scan", "confirm"},
              GoesTo(f, next), UNCHANGED address,
              \/ next = "scan" \/ next = "confirm"
              \/ next = "consent" /\ flow[f].kind = "gateway"
              => flow[f].id # NoId
       PROVE  IdInv'
  <2>1. Lasts(f, [flow[f] EXCEPT !.step = next])
    BY <1>1, <1>10 DEF FlowStates, Matches
  <2> QED BY <1>3, <1>10, <2>1 DEF GoesTo
<1>11. ASSUME NEW f \in Flows, Consents(f) \/ Picks(f) \/ GatewayConsents(f) PROVE IdInv'
  BY <1>10, <1>11 DEF Consents, Picks, GatewayConsents, IdInv, IdsInTime
<1>12. ASSUME NEW f \in Flows, Dismissed(f) PROVE IdInv'
  <2>1. Becomes(f, NoFlow) /\ UNCHANGED address
    BY <1>12 DEF Dismissed, Becomes
  <2> QED BY <1>2, <1>3, <2>1
<1>13. ASSUME NEW f \in Flows, NEW b \in BOOLEAN,
              \/ Identified(f, b) \/ Connected(f, b) \/ Scanned(f, b)
              \/ GatewayIdentified(f, b) \/ GatewayScanned(f, b)
       PROVE  IdInv'
  <2>1. CASE Becomes(f, NoFlow)
    BY <1>2, <1>3, <1>13, <2>1
       DEF Identified, Connected, Scanned, GatewayIdentified, GatewayScanned
  <2>2. CASE ~Becomes(f, NoFlow)
    BY <1>10, <1>13, <2>2 DEF Identified, Connected, Scanned, GatewayIdentified,
       GatewayScanned, IdInv, IdsInTime
  <2> QED BY <2>1, <2>2
<1>14. CASE Lease
  BY <1>14 DEF Lease, Leases, IdInv, FlowsTyped, IdsMatch, IdsInTime, FlowsApart,
     Unclaimed, EntriesApart
<1>15. CASE UNCHANGED flowVars
  BY <1>15 DEF flowVars, IdInv, FlowsTyped, IdsMatch, IdsInTime, FlowsApart,
     Unclaimed, EntriesApart
<1>16. \A p \in Pumps : address[p] \in Hosts
  BY DEF IdInv, FlowsTyped
<1> QED BY <1>4, <1>5, <1>6, <1>7, <1>8, <1>9, <1>11, <1>12, <1>13, <1>14, <1>15, <1>16
       DEF FlowNext

(* Where the ids agree a named pump has one entry. *)
LEMMA IdInvImplies == IdInv => OnePumpOneEntry
<1> SUFFICES ASSUME IdInv PROVE OnePumpOneEntry
  OBVIOUS
<1>1. ASSUME NEW p \in Named PROVE Cardinality({e \in added : e.pump = p}) <= 1
  <2> DEFINE mine == {e \in added : e.pump = p}
  <2>1. \A e, d \in mine : e = d
    BY DEF IdInv, IdsMatch, Matches, EntriesApart
  <2>2. CASE mine = {}
    <3>1. Cardinality(mine) = 0
      BY <2>2, FS_EmptySet
    <3> QED BY <3>1
  <2>3. CASE mine # {}
    <3>1. PICK x : x \in mine
      BY <2>3
    <3>2. mine = {x}
      BY <2>1, <3>1
    <3>3. Cardinality(mine) = 1
      BY <3>2, FS_Singleton
    <3> QED BY <3>3
  <2> QED BY <2>2, <2>3
<1>2. ASSUME NEW f \in Flows, flow[f].step = "confirm" PROVE Entry(flow[f].id) = {}
  BY <1>2 DEF IdInv, IdsInTime, Unclaimed, Entry
<1> QED BY <1>1, <1>2 DEF OnePumpOneEntry

(* However pumps move, and however many flows of whatever kind run side by *)
(* side, a pump whose name is known has one entry, and no entry is ever    *)
(* added in place of another (config_flow.NibeConfigFlow).                 *)
THEOREM OneEntryEach == FlowSpec => []OnePumpOneEntry
<1>1. FlowSpec => []IdInv
  BY IdInit, IdNext, PTL DEF FlowSpec
<1> QED BY <1>1, IdInvImplies, PTL

(* The addresses pumps have, flows go to and entries are at.               *)
PlacesKnown ==
  /\ address \in Leases /\ leftOpen \in BOOLEAN
  /\ \A f \in Flows : flow[f].step # "none" => flow[f].host \in Hosts
  /\ \A e \in added : e.host \in Hosts /\ e.id # NoId

(* A flow that goes on or ends is at an address as long as it was. *)
LEMMA BecomesPlaced ==
  ASSUME IdInv, PlacesKnown, NEW f \in Flows, NEW next \in FlowStates, Becomes(f, next),
         address' \in Leases, leftOpen' \in BOOLEAN,
         next.step # "none" => next.host \in Hosts
  PROVE  PlacesKnown'
<1>1. added' = added /\ \A g \in Flows : flow'[g] = IF g = f THEN next ELSE flow[g]
  BY DEF Becomes, IdInv, FlowsTyped
<1> QED BY <1>1 DEF PlacesKnown

(* One that takes an id leaves the entries where they were or moves one to
   the flow's address. *)
LEMMA AdoptsPlaced ==
  ASSUME IdInv, PlacesKnown, NEW f \in Flows, NEW next \in FlowStates, NEW updates \in BOOLEAN,
         Adopts(f, next, updates), address' \in Leases, leftOpen' \in BOOLEAN,
         next.host \in Hosts
  PROVE  PlacesKnown'
<1>1. \A g \in Flows : flow'[g] \in {flow[g], next, NoFlow}
  BY DEF Adopts, IdInv, FlowsTyped
<1>2. \A g \in Flows : flow'[g].step # "none" => flow'[g].host \in Hosts
  BY <1>1, NoFlowType DEF PlacesKnown
<1>3. added \subseteq EntryStates /\ added' \in {added, Moved(next.id, next.host)}
  BY DEF Adopts, IdInv, FlowsTyped
<1>4. \A e \in Moved(next.id, next.host) :
        \E d \in added : e.id = d.id /\ e.host \in {d.host, next.host}
  BY <1>3 DEF Moved, EntryStates
<1>5. \A e \in added' : e.host \in Hosts /\ e.id # NoId
  BY <1>3, <1>4 DEF PlacesKnown
<1> QED BY <1>2, <1>5 DEF PlacesKnown

(* The addresses are known before any flow. *)
LEMMA PlacesInit == FlowInit => PlacesKnown
BY NoFlowType DEF FlowInit, PlacesKnown

(* No step of a flow, and no change of a lease, goes to an address that is
   none. *)
LEMMA PlacesNext == IdInv /\ PlacesKnown /\ [FlowNext]_flowVars => PlacesKnown'
<1> SUFFICES ASSUME IdInv, PlacesKnown, [FlowNext]_flowVars PROVE PlacesKnown'
  OBVIOUS
<1>1. ASSUME NEW f \in Flows
      PROVE  /\ flow[f] \in FlowStates
             /\ flow[f].step # "none" => flow[f].host \in Hosts
  BY <1>1 DEF IdInv, FlowsTyped, PlacesKnown
<1>2. address \in Leases /\ leftOpen \in BOOLEAN /\ \A p \in Pumps : address[p] \in Hosts
  BY DEF PlacesKnown, Leases
<1>3. ASSUME NEW f \in Flows, NEW next, Becomes(f, next), UNCHANGED address,
             leftOpen' \in BOOLEAN,
             next = NoFlow \/ (next \in FlowStates /\ next.host \in Hosts)
      PROVE  PlacesKnown'
  BY <1>2, <1>3, BecomesPlaced, NoFlowType
<1>4. ASSUME NEW f \in Flows, flow[f].step # "none", UNCHANGED <<address, leftOpen>>,
             NEW next \in {"identify", "consent", "connect", "name", "scan", "confirm"},
             GoesTo(f, next)
      PROVE  PlacesKnown'
  <2>1. [flow[f] EXCEPT !.step = next] \in FlowStates
        /\ [flow[f] EXCEPT !.step = next].host \in Hosts
    BY <1>1, <1>4 DEF FlowStates
  <2> QED BY <1>2, <1>3, <1>4, <2>1 DEF GoesTo
<1>5. ASSUME NEW f \in Flows, NEW p \in Pumps, Announced(f, p) \/ GatewayDiscovered(f, p)
      PROVE  PlacesKnown'
  <2> DEFINE next(kind, id) == [step |-> "identify", host |-> address[p], kind |-> kind,
                                pump |-> p, id |-> id]
  <2>1. ASSUME NEW kind \in {"modbus", "gateway"}, NEW id \in Ids
        PROVE  next(kind, id) \in FlowStates /\ next(kind, id).host \in Hosts
    BY <1>2, <2>1 DEF FlowStates
  <2>2. NoId \in Ids /\ \A kind \in {"modbus", "gateway"} : Id(p, kind, address[p]) \in Ids
    BY <1>2, IdType, NoFlowType DEF NoFlow, FlowStates, Ids, NoId
  <2> HIDE DEF next
  <2>3. CASE GatewayDiscovered(f, p)
    <3>1. Adopts(f, next("gateway", Id(p, "gateway", address[p])), TRUE)
      BY <2>3 DEF GatewayDiscovered, next
    <3> QED BY <1>2, <2>1, <2>2, <2>3, <3>1, AdoptsPlaced DEF GatewayDiscovered
  <2>4. CASE Announced(f, p) /\ p \in Named
    <3>1. Adopts(f, next("modbus", Id(p, "modbus", address[p])), TRUE)
      BY <2>4 DEF Announced, next
    <3> QED BY <1>2, <2>1, <2>2, <2>4, <3>1, AdoptsPlaced DEF Announced
  <2>5. CASE Announced(f, p) /\ p \notin Named
    <3>1. Becomes(f, next("modbus", NoId))
      BY <2>5 DEF Announced, next
    <3> QED BY <1>2, <1>3, <2>1, <2>2, <2>5, <3>1 DEF Announced
  <2> QED BY <1>5, <2>3, <2>4, <2>5
<1>6. ASSUME NEW f \in Flows, NEW h \in Hosts, Searched(f, h) \/ Typed(f, h) \/ GatewayTyped(f, h)
      PROVE  PlacesKnown'
  <2>1. \A next \in {[NoFlow EXCEPT !.step = "pick", !.host = h],
                     [NoFlow EXCEPT !.step = "connect", !.host = h],
                     [NoFlow EXCEPT !.step = "identify", !.host = h, !.kind = "gateway"]} :
          next \in FlowStates /\ next.host \in Hosts
    BY NoFlowType DEF FlowStates
  <2> QED BY <1>2, <1>3, <1>6, <2>1 DEF Searched, Typed, GatewayTyped
<1>7. ASSUME NEW f \in Flows, NameLookedUp(f) \/ GatewayNamed(f) PROVE PlacesKnown'
  <2>1. flow[f].host \in Hosts /\ flow[f].id \in Ids /\ flow[f] \in FlowStates
    BY <1>1, <1>7 DEF NameLookedUp, GatewayNamed, FlowStates
  <2> DEFINE next(p, id) == [flow[f] EXCEPT !.step = "scan", !.pump = p, !.id = id]
  <2>2. PICK p \in Pumps \union {Nobody}, id \in Ids, updates \in BOOLEAN :
          Adopts(f, next(p, id), updates)
    <3>1. /\ NameAt(flow[f].host) \subseteq Pumps \union {Nobody}
          /\ flow[f].pump \in Pumps \union {Nobody}
      BY <1>1 DEF NameAt, At, FlowStates
    <3>2. \A p \in Pumps \union {Nobody} : \A kind \in {"modbus", "gateway"} :
            Id(p, kind, flow[f].host) \in Ids
      BY <2>1, IdType
    <3>3. CASE GatewayNamed(f)
      <4>1. PICK p \in NameAt(flow[f].host) :
              Adopts(f, next(p, Id(p, "gateway", flow[f].host)), TRUE)
        BY <3>3 DEF GatewayNamed
      <4> HIDE DEF next
      <4> QED BY <3>1, <3>2, <4>1
    <3>4. CASE NameLookedUp(f) /\ flow[f].id # NoId
      <4>1. Adopts(f, next(flow[f].pump, flow[f].id), FALSE)
        BY <2>1, <3>4 DEF NameLookedUp, FlowStates
      <4> HIDE DEF next
      <4> QED BY <2>1, <3>1, <4>1
    <3>5. CASE NameLookedUp(f) /\ flow[f].id = NoId
      <4>1. PICK p \in NameAt(flow[f].host) :
              Adopts(f, next(p, Id(p, "modbus", flow[f].host)), FALSE)
        BY <3>5 DEF NameLookedUp
      <4> HIDE DEF next
      <4> QED BY <3>1, <3>2, <4>1
    <3> QED BY <1>7, <3>3, <3>4, <3>5
  <2>3. next(p, id) \in FlowStates /\ next(p, id).host \in Hosts
    BY <2>1 DEF FlowStates
  <2>4. address' \in Leases /\ leftOpen' \in BOOLEAN
    BY <1>2, <1>7 DEF NameLookedUp, GatewayNamed
  <2> QED BY <2>2, <2>3, <2>4, AdoptsPlaced
<1>8. ASSUME NEW f \in Flows, Confirmed(f) \/ GatewayConfirmed(f) PROVE PlacesKnown'
  <2>1. flow[f].host \in Hosts /\ flow[f].id # NoId
    BY <1>1, <1>8 DEF Confirmed, GatewayConfirmed, IdInv, IdsInTime
  <2>2. \A e \in added' : e.host \in Hosts /\ e.id # NoId
    BY <1>8, <2>1 DEF Confirmed, GatewayConfirmed, Adds, PlacesKnown
  <2>3. \A g \in Flows : flow'[g] \in {flow[g], NoFlow}
    BY <1>8 DEF Confirmed, GatewayConfirmed, Adds, IdInv, FlowsTyped
  <2> QED BY <1>8, <2>2, <2>3, NoFlowType DEF Confirmed, GatewayConfirmed, PlacesKnown
<1>9. ASSUME NEW f \in Flows, Consents(f) \/ Picks(f) \/ GatewayConsents(f) PROVE PlacesKnown'
  BY <1>4, <1>9 DEF Consents, Picks, GatewayConsents
<1>10. ASSUME NEW f \in Flows, Dismissed(f) PROVE PlacesKnown'
  <2>1. Becomes(f, NoFlow) /\ UNCHANGED address /\ leftOpen' \in BOOLEAN
    BY <1>10 DEF Dismissed, Becomes
  <2> QED BY <1>3, <2>1
<1>11. ASSUME NEW f \in Flows, NEW b \in BOOLEAN,
              \/ Identified(f, b) \/ Connected(f, b) \/ Scanned(f, b)
              \/ GatewayIdentified(f, b) \/ GatewayScanned(f, b)
       PROVE  PlacesKnown'
  <2>1. UNCHANGED <<address, leftOpen>>
    BY <1>11 DEF Identified, Connected, Scanned, GatewayIdentified, GatewayScanned
  <2>2. CASE Becomes(f, NoFlow)
    BY <1>2, <1>3, <2>1, <2>2
  <2>3. CASE ~Becomes(f, NoFlow)
    <3>1. flow[f].step # "none" /\
          \E next \in {"consent", "name", "confirm"} : GoesTo(f, next)
      BY <1>11, <2>3 DEF Identified, Connected, Scanned, GatewayIdentified, GatewayScanned
    <3> QED BY <1>4, <2>1, <3>1
  <2> QED BY <2>2, <2>3
<1>12. CASE Lease
  BY <1>12 DEF Lease, PlacesKnown
<1>13. CASE UNCHANGED flowVars
  BY <1>13 DEF flowVars, PlacesKnown
<1> QED BY <1>5, <1>6, <1>7, <1>8, <1>9, <1>10, <1>11, <1>12, <1>13 DEF FlowNext

(* No flow goes on to a step it does not have, every entry is at an address *)
(* and has a unique id, and no two pumps have one address.                  *)
THEOREM FlowTypeCorrect == FlowSpec => []FlowTypeOK
<1>1. FlowSpec => [](IdInv /\ PlacesKnown)
  BY IdInit, IdNext, PlacesInit, PlacesNext, PTL DEF FlowSpec
<1>2. IdInv /\ PlacesKnown => FlowTypeOK
  BY DEF IdInv, FlowsTyped, PlacesKnown, FlowTypeOK, FlowStates, EntryStates
<1> QED BY <1>1, <1>2, PTL

----------------------------------------------------------------------------
(* The entries *)

Lives == {"not_loaded", "setting_up", "retry", "error", "loaded", "unloading",
          "failed_unload", "removed"}
SettingUp == {"connect", "scan", "refresh", "page", "register"}
Unloading == {"platforms", "close"}
Wishes == {"run", "reload", "disabled", "removed"}
Timers == {"none", "first", "daily"}
Reporters == [timer : Timers, wire : Timers, armed : BOOLEAN, stopped : BOOLEAN]

ReportersTyped ==
  kept \in [Entries -> {0} \union Slots] /\ reporter \in [Entries -> [Slots -> Reporters]]

EntriesTyped ==
  /\ life \in [Entries -> Lives]
  /\ step \in [Entries -> {"none"} \union SettingUp \union Unloading]
  /\ asked \in [Entries -> Wishes]
  /\ clients \in [Entries -> SUBSET {"own", "lost", "stuck"}]
  /\ registered \in BOOLEAN /\ panel \in BOOLEAN
  /\ ReportersTyped

StepsInLife ==
  \A e \in Entries :
    /\ life[e] = "setting_up" <=> step[e] \in SettingUp
    /\ life[e] = "unloading" <=> step[e] \in Unloading

(* An armed reporter is the one that is kept, and has a timer or a report  *)
(* on the wire after which it gets one; no other has either, unless it was *)
(* stopped with a report on the wire.                                      *)
ReporterInv ==
  \A e \in Entries, i \in Slots :
    LET r == reporter[e][i] IN
    /\ r.armed => kept[e] = i /\ ~r.stopped /\ (r.timer # "none" \/ r.wire # "none")
    /\ r.timer # "none" \/ (r.wire # "none" /\ ~r.stopped) => r.armed
    /\ r.wire = "daily" /\ r.armed => r.timer = "daily"
KeptInv ==
  \A e \in Entries :
    life[e] \in {"setting_up", "retry", "loaded"} /\ asked[e] = "run" => kept[e] # 0

(* A gateway's client is open from an answer to the end of the attempt or  *)
(* of the entry; one left behind by its platforms stays beside it.         *)
Away == {"not_loaded", "retry", "error", "failed_unload", "removed"}
ClientInv ==
  \A e \in Gateways :
    /\ "lost" \notin clients[e]
    /\ life[e] \in Away \/ step[e] = "connect" => clients[e] \subseteq {"stuck"}

(* Where the panel is missing someone is about to add it.                  *)
PanelInv ==
  registered \/ (\E e \in Entries : life[e] = "loaded")
    => panel \/ \E e \in Entries : step[e] = "register"

LifeInv == EntriesTyped /\ StepsInLife /\ ReporterInv /\ KeptInv /\ ClientInv /\ PanelInv

----------------------------------------------------------------------------
(* Types *)

(* Stopping a reporter disarms it, clears its timer and leaves what is on
   the wire. *)
LEMMA StoppedType ==
  ASSUME NEW r \in Reporters
  PROVE  /\ Stopped(r) \in Reporters /\ NoReporter \in Reporters
         /\ Stopped([r EXCEPT !.wire = "none"]) = NoReporter
         /\ Stopped(r).timer = "none" /\ ~Stopped(r).armed
         /\ Stopped(r).wire = r.wire
         /\ Stopped(r).wire # "none" => Stopped(r).stopped
BY DEF Stopped, NoReporter, Reporters, Timers

(* What becomes of the reporters of e, one action at a time; an action     *)
(* leaves those of other entries alone.                                    *)
OthersKeep(e) == \A d \in Entries \ {e} : kept'[d] = kept[d] /\ reporter'[d] = reporter[d]

(* Changing one slot of one entry changes no other. *)
LEMMA SlotSet ==
  ASSUME ReportersTyped, NEW e \in Entries, NEW i \in Slots, NEW r \in Reporters,
         reporter' = [reporter EXCEPT ![e][i] = r]
  PROVE  /\ reporter' \in [Entries -> [Slots -> Reporters]]
         /\ reporter'[e][i] = r
         /\ \A j \in Slots \ {i} : reporter'[e][j] = reporter[e][j]
         /\ \A d \in Entries \ {e} : reporter'[d] = reporter[d]
<1>1. reporter' = [reporter EXCEPT ![e] = [reporter[e] EXCEPT ![i] = r]]
  OBVIOUS
<1>2. [reporter[e] EXCEPT ![i] = r] \in [Slots -> Reporters]
  BY DEF ReportersTyped
<1>3. /\ reporter'[e] = [reporter[e] EXCEPT ![i] = r]
      /\ \A d \in Entries \ {e} : reporter'[d] = reporter[d]
      /\ reporter' \in [Entries -> [Slots -> Reporters]]
  BY <1>1, <1>2 DEF ReportersTyped
<1> QED BY <1>3 DEF ReportersTyped

(* Changing which slot an entry keeps changes no other entry's. *)
LEMMA KeptSet ==
  ASSUME ReportersTyped, NEW e \in Entries, NEW i \in {0} \union Slots,
         kept' = [kept EXCEPT ![e] = i]
  PROVE  /\ kept' \in [Entries -> {0} \union Slots]
         /\ kept'[e] = i
         /\ \A d \in Entries \ {e} : kept'[d] = kept[d]
BY DEF ReportersTyped

Started(e) == IF sharing[e] THEN [NoReporter EXCEPT !.timer = "first", !.armed = TRUE]
              ELSE NoReporter

(* What arming the statistics does: nothing when armed, else a new reporter
   in a free slot. *)
LEMMA Arming ==
  ASSUME ReportersTyped, NEW e \in Entries, ArmStatistics(e)
  PROVE  /\ ReportersTyped' /\ OthersKeep(e)
         /\ \/ /\ kept[e] # 0 /\ reporter[e][kept[e]].armed
               /\ UNCHANGED <<reporter, kept>>
            \/ \E i \in Slots :
                 /\ ~(kept[e] # 0 /\ reporter[e][kept[e]].armed)
                 /\ i # kept[e] /\ reporter[e][i].wire = "none"
                 /\ kept'[e] = i
                 /\ reporter'[e][i] = Started(e)
                 /\ \A j \in Slots \ {i} : reporter'[e][j] = reporter[e][j]
<1>1. CASE UNCHANGED <<reporter, kept>> /\ kept[e] # 0 /\ reporter[e][kept[e]].armed
  BY <1>1 DEF ReportersTyped, OthersKeep
<1>2. CASE ~(kept[e] # 0 /\ reporter[e][kept[e]].armed)
  <2>1. PICK i \in Slots :
          /\ i # kept[e] /\ reporter[e][i].wire = "none"
          /\ kept' = [kept EXCEPT ![e] = i]
          /\ reporter' = [reporter EXCEPT ![e][i] = Started(e)]
    BY <1>2 DEF ArmStatistics, Started
  <2>2. Started(e) \in Reporters
    BY DEF Started, NoReporter, Reporters, Timers
  <2>3. /\ reporter' \in [Entries -> [Slots -> Reporters]]
        /\ reporter'[e][i] = Started(e)
        /\ \A j \in Slots \ {i} : reporter'[e][j] = reporter[e][j]
        /\ \A d \in Entries \ {e} : reporter'[d] = reporter[d]
    BY <2>1, <2>2, SlotSet
  <2>4. /\ kept' \in [Entries -> {0} \union Slots]
        /\ kept'[e] = i
        /\ \A d \in Entries \ {e} : kept'[d] = kept[d]
    BY <2>1, KeptSet
  <2> QED BY <1>2, <2>1, <2>3, <2>4 DEF ReportersTyped, OthersKeep
<1> QED BY <1>1, <1>2 DEF ArmStatistics

(* What stopping the statistics does: the kept reporter is stopped and no
   longer kept. *)
LEMMA Stopping ==
  ASSUME ReportersTyped, NEW e \in Entries, StopStatistics(e)
  PROVE  /\ ReportersTyped' /\ OthersKeep(e)
         /\ kept'[e] = 0
         /\ \A i \in Slots : reporter'[e][i] =
               IF i = kept[e] THEN Stopped(reporter[e][i]) ELSE reporter[e][i]
<1> DEFINE new == [i \in Slots |-> IF i = kept[e] THEN Stopped(reporter[e][i])
                                   ELSE reporter[e][i]]
<1>1. ASSUME NEW i \in Slots
      PROVE  reporter[e][i] \in Reporters /\ Stopped(reporter[e][i]) \in Reporters
  <2>1. reporter[e][i] \in Reporters
    BY DEF ReportersTyped
  <2> QED BY <2>1, StoppedType
<1>2. new \in [Slots -> Reporters]
  BY <1>1
<1>3. reporter' = [reporter EXCEPT ![e] = new] /\ kept' = [kept EXCEPT ![e] = 0]
  BY DEF StopStatistics
<1>4. /\ reporter' \in [Entries -> [Slots -> Reporters]]
      /\ reporter'[e] = new
      /\ \A d \in Entries \ {e} : reporter'[d] = reporter[d]
  BY <1>2, <1>3 DEF ReportersTyped
<1> QED BY <1>3, <1>4, KeptSet DEF ReportersTyped, OthersKeep

(* What the end of a reporter does: its slot is free. *)
LEMMA Retiring ==
  ASSUME ReportersTyped, NEW e \in Entries, NEW i \in Slots, Retire(e, i)
  PROVE  /\ ReportersTyped' /\ OthersKeep(e)
         /\ kept'[e] = IF kept[e] = i THEN 0 ELSE kept[e]
         /\ reporter'[e][i] = NoReporter
         /\ \A j \in Slots \ {i} : reporter'[e][j] = reporter[e][j]
<1>1. reporter[e][i] \in Reporters
  BY DEF ReportersTyped
<1>2. Stopped([reporter[e][i] EXCEPT !.wire = "none"]) = NoReporter /\ NoReporter \in Reporters
  BY <1>1, StoppedType
<1>3. reporter' = [reporter EXCEPT ![e][i] = NoReporter]
  BY <1>2 DEF Retire
<1>4. kept' = [kept EXCEPT ![e] = IF kept[e] = i THEN 0 ELSE kept[e]]
  BY DEF Retire
<1>5. (IF kept[e] = i THEN 0 ELSE kept[e]) \in {0} \union Slots
  BY DEF ReportersTyped
<1> QED BY <1>2, <1>3, <1>4, <1>5, SlotSet, KeptSet DEF ReportersTyped, OthersKeep

(* A reporter r sends, goes on to its daily timer, or ends.                *)
GoesFrom(r, new) ==
  \/ new = r
  \/ /\ r.timer # "none" /\ r.wire = "none"
     /\ new = [r EXCEPT !.wire = r.timer, !.timer = IF r.timer = "first" THEN "none" ELSE r.timer]
  \/ r.stopped /\ new = NoReporter
  \/ /\ r.wire # "none" \/ r.timer # "none"
     /\ ~r.stopped /\ new = [r EXCEPT !.timer = "daily", !.wire = "none"]
  \/ r.wire = "daily" /\ ~r.stopped /\ new = [r EXCEPT !.wire = "none"]

(* What a reporter's own step does: it retires with its entry, or changes
   only itself. *)
LEMMA ReporterActs ==
  ASSUME ReportersTyped, NEW e \in Entries, NEW i \in Slots, ReporterStep(e, i)
  PROVE  /\ ReportersTyped' /\ OthersKeep(e)
         /\ UNCHANGED <<homeVars, linkVars, sharing, pageVars>>
         /\ \A j \in Slots \ {i} : reporter'[e][j] = reporter[e][j]
         /\ \/ /\ Gone(e) /\ reporter'[e][i] = NoReporter
               /\ kept'[e] = IF kept[e] = i THEN 0 ELSE kept[e]
            \/ kept'[e] = kept[e] /\ GoesFrom(reporter[e][i], reporter'[e][i])
<1> DEFINE r == reporter[e][i]
           sent == [r EXCEPT !.wire = r.timer, !.timer = IF r.timer = "first" THEN "none" ELSE r.timer]
           daily == [r EXCEPT !.timer = "daily", !.wire = "none"]
           over == [r EXCEPT !.wire = "none"]
<1>1. UNCHANGED <<homeVars, linkVars, sharing, pageVars>>
  BY DEF ReporterStep, Fires, ReportEnds
<1>2. r \in Reporters
  BY DEF ReportersTyped
<1>3. sent \in Reporters /\ daily \in Reporters /\ over \in Reporters /\ NoReporter \in Reporters
  BY <1>2 DEF Reporters, Timers, NoReporter
<1>4. ASSUME NEW new \in Reporters, UNCHANGED kept, reporter' = [reporter EXCEPT ![e][i] = new]
      PROVE  /\ ReportersTyped' /\ OthersKeep(e) /\ kept'[e] = kept[e]
             /\ reporter'[e][i] = new
             /\ \A j \in Slots \ {i} : reporter'[e][j] = reporter[e][j]
  BY <1>4, SlotSet DEF ReportersTyped, OthersKeep
<1>5. CASE Gone(e) /\ Retire(e, i)
  BY <1>1, <1>5, Retiring
<1>6. CASE UNCHANGED <<reporter, kept>>
  BY <1>1, <1>6 DEF ReportersTyped, OthersKeep, GoesFrom
<1>7. CASE /\ r.timer # "none" /\ r.wire = "none" /\ UNCHANGED kept
           /\ reporter' = [reporter EXCEPT ![e][i] = sent]
  BY <1>1, <1>3, <1>4, <1>7 DEF GoesFrom
<1>8. CASE (r.wire # "none" \/ r.timer # "none") /\ GoesOn(e, i)
  <2>1. CASE Gone(e) /\ ~r.stopped
    BY <1>5, <1>8, <2>1 DEF GoesOn
  <2>2. CASE ~(Gone(e) /\ ~r.stopped) /\ r.stopped
    <3>1. UNCHANGED kept /\ reporter' = [reporter EXCEPT ![e][i] = NoReporter]
      BY <1>8, <2>2 DEF GoesOn
    <3> QED BY <1>1, <1>2, <1>3, <1>4, <1>8, <2>2, <3>1 DEF Reporters, GoesFrom
  <2>3. CASE ~(Gone(e) /\ ~r.stopped) /\ ~r.stopped
    <3>1. UNCHANGED kept /\ reporter' = [reporter EXCEPT ![e][i] = daily]
      BY <1>8, <2>3 DEF GoesOn
    <3> QED BY <1>1, <1>3, <1>4, <1>8, <2>3, <3>1 DEF GoesFrom
  <2> QED BY <2>1, <2>2, <2>3
<1>9. CASE Fires(e, i)
  <2>1. r.timer # "none" /\ r.wire = "none"
    BY <1>9 DEF Fires, Live
  <2> QED BY <1>5, <1>6, <1>7, <1>8, <1>9, <2>1 DEF Fires
<1>10. CASE ReportEnds(e, i)
  <2>1. CASE r.wire = "first"
    BY <1>8, <1>10, <2>1 DEF ReportEnds
  <2>2. CASE r.wire = "daily" /\ r.stopped
    <3>1. UNCHANGED kept /\ reporter' = [reporter EXCEPT ![e][i] = NoReporter]
      BY <1>10, <2>2 DEF ReportEnds
    <3> QED BY <1>1, <1>3, <1>4, <2>2, <3>1 DEF GoesFrom
  <2>3. CASE r.wire = "daily" /\ ~r.stopped
    <3>1. UNCHANGED kept /\ reporter' = [reporter EXCEPT ![e][i] = over]
      BY <1>10, <2>3 DEF ReportEnds
    <3> QED BY <1>1, <1>3, <1>4, <2>3, <3>1 DEF GoesFrom
  <2> QED BY <1>10, <2>1, <2>2, <2>3 DEF ReportEnds
<1> QED BY <1>9, <1>10 DEF ReporterStep

----------------------------------------------------------------------------
(* Reporters *)

(* A slot holds a reporter and an entry keeps a slot or none. *)
LEMMA ReporterTypes ==
  ASSUME ReportersTyped, NEW e \in Entries, NEW i \in Slots
  PROVE  reporter[e][i] \in Reporters /\ kept[e] \in {0} \union Slots
BY DEF ReportersTyped

(* Arming keeps one reporter per entry. *)
LEMMA ArmingKeeps ==
  ASSUME ReportersTyped, ReporterInv, NEW e \in Entries, ArmStatistics(e)
  PROVE  ReportersTyped' /\ ReporterInv' /\ kept'[e] # 0 /\ OthersKeep(e)
<1>1. CASE UNCHANGED <<reporter, kept>> /\ kept[e] # 0
  BY <1>1, Arming DEF ReporterInv
<1>2. ASSUME NEW i \in Slots,
             ~(kept[e] # 0 /\ reporter[e][kept[e]].armed), i # kept[e],
             reporter[e][i].wire = "none", kept'[e] = i, reporter'[e][i] = Started(e),
             \A j \in Slots \ {i} : reporter'[e][j] = reporter[e][j]
      PROVE  ReporterInv'
  <2>1. \A j \in Slots : ~reporter[e][j].armed
    BY <1>2, ReporterTypes DEF ReporterInv, Slots
  <2>2. /\ Started(e).wire = "none" /\ ~Started(e).stopped
        /\ Started(e).armed <=> Started(e).timer # "none"
    BY DEF Started, NoReporter
  <2>3. OthersKeep(e)
    BY Arming
  <2> QED BY <1>2, <2>1, <2>2, <2>3 DEF ReporterInv, OthersKeep
<1> QED BY <1>1, <1>2, Arming DEF Slots

(* So does stopping. *)
LEMMA StoppingKeeps ==
  ASSUME ReportersTyped, ReporterInv, NEW e \in Entries, StopStatistics(e)
  PROVE  ReportersTyped' /\ ReporterInv' /\ OthersKeep(e)
<1>1. \A i \in Slots : /\ Stopped(reporter[e][i]).timer = "none"
                       /\ ~Stopped(reporter[e][i]).armed
                       /\ Stopped(reporter[e][i]).wire # "none" => Stopped(reporter[e][i]).stopped
  BY StoppedType, ReporterTypes
<1>2. ASSUME NEW i \in Slots, i # kept[e] PROVE ~reporter[e][i].armed
  BY <1>2 DEF ReporterInv
<1> QED BY <1>1, <1>2, Stopping DEF ReporterInv, OthersKeep

(* So does a reporter's own step. *)
LEMMA ReportingKeeps ==
  ASSUME ReportersTyped, ReporterInv, NEW e \in Entries, NEW i \in Slots, ReporterStep(e, i)
  PROVE  /\ ReportersTyped' /\ ReporterInv' /\ OthersKeep(e)
         /\ UNCHANGED <<homeVars, linkVars, sharing, pageVars>>
         /\ kept'[e] # kept[e] => Gone(e)
<1> DEFINE r == reporter[e][i]
           new == reporter'[e][i]
           Fine(k) == /\ new.armed => k = i /\ ~new.stopped /\ (new.timer # "none" \/ new.wire # "none")
                      /\ new.timer # "none" \/ (new.wire # "none" /\ ~new.stopped) => new.armed
                      /\ new.wire = "daily" /\ new.armed => new.timer = "daily"
<1>1. /\ r \in Reporters
      /\ r.armed => kept[e] = i /\ ~r.stopped /\ (r.timer # "none" \/ r.wire # "none")
      /\ r.timer # "none" \/ (r.wire # "none" /\ ~r.stopped) => r.armed
      /\ r.wire = "daily" /\ r.armed => r.timer = "daily"
  BY ReporterTypes DEF ReporterInv
<1>2. /\ ReportersTyped' /\ OthersKeep(e)
      /\ UNCHANGED <<homeVars, linkVars, sharing, pageVars>>
      /\ \A j \in Slots \ {i} : reporter'[e][j] = reporter[e][j]
  BY ReporterActs
<1>3. \A j \in Slots \ {i} : kept[e] = j => kept'[e] = j
  BY ReporterActs
<1>4. Fine(kept'[e]) /\ (kept'[e] # kept[e] => Gone(e))
  <2>1. CASE Gone(e) /\ new = NoReporter /\ kept'[e] = IF kept[e] = i THEN 0 ELSE kept[e]
    BY <2>1 DEF NoReporter
  <2>2. CASE kept'[e] = kept[e] /\ GoesFrom(r, new)
    <3>1. CASE new = r \/ new = NoReporter
      BY <1>1, <2>2, <3>1 DEF NoReporter
    <3>2. CASE /\ r.timer # "none" /\ r.wire = "none"
               /\ new = [r EXCEPT !.wire = r.timer,
                                  !.timer = IF r.timer = "first" THEN "none" ELSE r.timer]
      <4>1. /\ new.wire = r.timer /\ new.armed = r.armed /\ new.stopped = r.stopped
            /\ new.timer = IF r.timer = "first" THEN "none" ELSE r.timer
        BY <1>1, <3>2 DEF Reporters
      <4> QED BY <1>1, <2>2, <3>2, <4>1
    <3>3. CASE /\ r.wire # "none" \/ r.timer # "none"
               /\ ~r.stopped /\ new = [r EXCEPT !.timer = "daily", !.wire = "none"]
      <4>1. /\ new.wire = "none" /\ new.armed = r.armed /\ new.stopped = r.stopped
            /\ new.timer = "daily"
        BY <1>1, <3>3 DEF Reporters
      <4> QED BY <1>1, <2>2, <3>3, <4>1
    <3>4. CASE r.wire = "daily" /\ ~r.stopped /\ new = [r EXCEPT !.wire = "none"]
      <4>1. /\ new.wire = "none" /\ new.armed = r.armed /\ new.stopped = r.stopped
            /\ new.timer = r.timer
        BY <1>1, <3>4 DEF Reporters
      <4> QED BY <1>1, <2>2, <3>4, <4>1
    <3> QED BY <2>2, <3>1, <3>2, <3>3, <3>4 DEF GoesFrom
  <2> QED BY <2>1, <2>2, ReporterActs
<1>5. ASSUME NEW d \in Entries, NEW j \in Slots
      PROVE  LET q == reporter'[d][j] IN
             /\ q.armed => kept'[d] = j /\ ~q.stopped /\ (q.timer # "none" \/ q.wire # "none")
             /\ q.timer # "none" \/ (q.wire # "none" /\ ~q.stopped) => q.armed
             /\ q.wire = "daily" /\ q.armed => q.timer = "daily"
  <2>1. CASE d = e /\ j = i
    BY <1>4, <2>1
  <2>2. CASE d = e /\ j # i
    BY <1>2, <1>3, <2>2 DEF ReporterInv
  <2>3. CASE d # e
    BY <1>2, <2>3 DEF ReporterInv, OthersKeep
  <2> QED BY <2>1, <2>2, <2>3
<1> QED BY <1>2, <1>4, <1>5 DEF ReporterInv

----------------------------------------------------------------------------
(* Entries *)

Steps == {"none"} \union SettingUp \union Unloading
StepFits(to, at) ==
  (to = "setting_up" <=> at \in SettingUp) /\ (to = "unloading" <=> at \in Unloading)

(* An entry that moves on in its life moves to a step that belongs there;
   the others stay. *)
LEMMA GoesType ==
  ASSUME EntriesTyped, StepsInLife, NEW e \in Entries, NEW to \in Lives, NEW at \in Steps,
         StepFits(to, at), Goes(e, to, at)
  PROVE  /\ life' \in [Entries -> Lives] /\ step' \in [Entries -> Steps] /\ StepsInLife'
         /\ life'[e] = to /\ step'[e] = at
         /\ \A d \in Entries \ {e} : life'[d] = life[d] /\ step'[d] = step[d]
BY DEF EntriesTyped, StepsInLife, StepFits, Goes, Steps

(* What an action of entry e leaves of the invariant to be shown: that of  *)
(* e itself, and of what the entries share.                                *)
LEMMA EntryKeeps ==
  ASSUME LifeInv, NEW e \in Entries, NEW to \in Lives, NEW at \in Steps,
         StepFits(to, at), Goes(e, to, at),
         ReportersTyped', ReporterInv', OthersKeep(e),
         asked' \in [Entries -> Wishes], \A d \in Entries \ {e} : asked'[d] = asked[d],
         clients' \in [Entries -> SUBSET {"own", "lost", "stuck"}],
         \A d \in Entries \ {e} : clients'[d] = clients[d],
         registered' \in BOOLEAN, panel' \in BOOLEAN, PanelInv',
         to \in {"setting_up", "retry", "loaded"} /\ asked'[e] = "run" => kept'[e] # 0,
         e \in Gateways =>
           /\ "lost" \notin clients'[e]
           /\ to \in Away \/ at = "connect" => clients'[e] \subseteq {"stuck"}
  PROVE  LifeInv'
<1>1. /\ life' \in [Entries -> Lives] /\ step' \in [Entries -> Steps] /\ StepsInLife'
      /\ life'[e] = to /\ step'[e] = at
      /\ \A d \in Entries \ {e} : life'[d] = life[d] /\ step'[d] = step[d]
  BY GoesType DEF LifeInv
<1>2. EntriesTyped'
  BY <1>1 DEF EntriesTyped, Steps
<1>3. KeptInv'
  BY <1>1 DEF KeptInv, LifeInv, OthersKeep
<1>4. ClientInv'
  BY <1>1, EntriesAssumption DEF ClientInv, LifeInv
<1> QED BY <1>1, <1>2, <1>3, <1>4 DEF LifeInv

(* A step that touches no reporter keeps what is said of them. *)
LEMMA Unchanged ==
  ASSUME LifeInv, UNCHANGED <<reporter, kept>>
  PROVE  ReportersTyped' /\ ReporterInv' /\ \A e \in Entries : OthersKeep(e)
BY DEF LifeInv, EntriesTyped, ReportersTyped, ReporterInv, OthersKeep

(* While nobody is registering it and the panel and its flag stay, an      *)
(* entry only need not be loaded to keep it shown.                         *)
LEMMA PanelStays ==
  ASSUME LifeInv, NEW e \in Entries, NEW to \in Lives, NEW at \in Steps, StepFits(to, at),
         Goes(e, to, at), UNCHANGED pageVars,
         step[e] # "register", to = "loaded" => life[e] = "loaded" \/ registered
  PROVE  PanelInv'
<1>1. /\ life'[e] = to /\ step'[e] = at
      /\ \A d \in Entries \ {e} : life'[d] = life[d] /\ step'[d] = step[d]
  BY GoesType DEF LifeInv
<1> QED BY <1>1 DEF PanelInv, LifeInv, pageVars

(* Changing the clients of one entry changes no other's. *)
LEMMA ClientsType ==
  ASSUME EntriesTyped, NEW e \in Entries, NEW new \in SUBSET {"own", "lost", "stuck"},
         clients' = [clients EXCEPT ![e] = new]
  PROVE  /\ clients' \in [Entries -> SUBSET {"own", "lost", "stuck"}]
         /\ clients'[e] = new
         /\ \A d \in Entries \ {e} : clients'[d] = clients[d]
BY DEF EntriesTyped

(* Changing the wish about one entry changes no other's. *)
LEMMA AskedType ==
  ASSUME EntriesTyped, NEW e \in Entries, NEW new \in Wishes,
         asked' = [asked EXCEPT ![e] = new]
  PROVE  /\ asked' \in [Entries -> Wishes]
         /\ asked'[e] = new
         /\ \A d \in Entries \ {e} : asked'[d] = asked[d]
BY DEF EntriesTyped

(* Which steps belong to which part of an entry's life. *)
LEMMA Sets ==
  /\ \A to \in {"not_loaded", "retry", "error", "loaded", "failed_unload", "removed"} :
       to \in Lives /\ StepFits(to, "none")
  /\ "setting_up" \in Lives /\ \A at \in SettingUp : StepFits("setting_up", at) /\ at \in Steps
  /\ "unloading" \in Lives /\ \A at \in Unloading : StepFits("unloading", at) /\ at \in Steps
  /\ "none" \in Steps
BY DEF Lives, StepFits, SettingUp, Unloading, Steps

(* What an entry in the midst of a set-up or an unload is known to be.     *)
LEMMA InStep ==
  ASSUME LifeInv, NEW e \in Entries
  PROVE  /\ step[e] \in SettingUp => life[e] = "setting_up"
         /\ step[e] \in Unloading => life[e] = "unloading"
         /\ life[e] \notin {"setting_up", "unloading"} => step[e] = "none"
         /\ asked[e] \in Wishes /\ clients[e] \in SUBSET {"own", "lost", "stuck"}
         /\ life[e] \in {"setting_up", "retry", "loaded"} /\ asked[e] = "run" => kept[e] # 0
         /\ e \in Gateways =>
              /\ "lost" \notin clients[e]
              /\ life[e] \in Away \/ step[e] = "connect" => clients[e] \subseteq {"stuck"}
BY DEF LifeInv, EntriesTyped, StepsInLife, KeptInv, ClientInv

(* A step of a set-up that leaves the reporters and the user's wish alone. *)
LEMMA SetUpStepKeeps ==
  ASSUME LifeInv, NEW e \in Entries, NEW to \in Lives, NEW at \in Steps, StepFits(to, at),
         step[e] \in SettingUp, Goes(e, to, at), UNCHANGED <<asked, statsVars>>,
         registered' \in BOOLEAN, panel' \in BOOLEAN, PanelInv',
         NEW new \in SUBSET {"own", "lost", "stuck"}, clients' = [clients EXCEPT ![e] = new],
         e \in Gateways =>
           /\ "lost" \notin new
           /\ to \in Away \/ at = "connect" => new \subseteq {"stuck"}
  PROVE  LifeInv'
<1>1. /\ ReportersTyped' /\ ReporterInv' /\ OthersKeep(e)
      /\ kept' = kept /\ asked' = asked
  BY Unchanged DEF statsVars
<1>2. /\ clients' \in [Entries -> SUBSET {"own", "lost", "stuck"}]
      /\ clients'[e] = new
      /\ \A d \in Entries \ {e} : clients'[d] = clients[d]
  BY ClientsType DEF LifeInv
<1>3. asked' \in [Entries -> Wishes] /\ \A d \in Entries \ {e} : asked'[d] = asked[d]
  BY <1>1 DEF LifeInv, EntriesTyped
<1>4. to \in {"setting_up", "retry", "loaded"} /\ asked'[e] = "run" => kept'[e] # 0
  BY <1>1, InStep
<1> QED BY <1>1, <1>2, <1>3, <1>4, EntryKeeps

(* Probing the pump keeps the invariant, whether it answers or not. *)
LEMMA ConnectKeeps ==
  ASSUME LifeInv, NEW e \in Entries, NEW answers \in BOOLEAN, Connect(e, answers)
  PROVE  LifeInv'
<1>1. /\ step[e] = "connect" /\ step[e] \in SettingUp /\ step[e] # "register"
      /\ UNCHANGED <<asked, statsVars, pageVars>>
  BY DEF Connect, SettingUp
<1>2. registered' \in BOOLEAN /\ panel' \in BOOLEAN
  BY <1>1 DEF LifeInv, EntriesTyped, pageVars
<1>3. CASE answers
  <2>1. PICK at \in {"refresh", "scan"} : Goes(e, "setting_up", at)
    BY <1>3 DEF Connect
  <2>2. clients' = [clients EXCEPT ![e] = Opened(clients[e])]
    BY <1>3 DEF Connect
  <2>3. /\ Opened(clients[e]) \in SUBSET {"own", "lost", "stuck"}
        /\ e \in Gateways => "lost" \notin Opened(clients[e])
    BY <1>1, InStep DEF Opened
  <2>4. /\ "setting_up" \in Lives /\ at \in Steps /\ StepFits("setting_up", at)
        /\ at # "connect" /\ "setting_up" \notin Away
    BY Sets DEF SettingUp, Away
  <2>5. PanelInv'
    BY <1>1, <2>1, <2>4, PanelStays
  <2> QED BY <1>1, <1>2, <2>1, <2>2, <2>3, <2>4, <2>5, SetUpStepKeeps
<1>4. CASE ~answers
  <2>1. Goes(e, "retry", "none") /\ clients' = [clients EXCEPT ![e] = clients[e]]
    BY <1>4 DEF Connect, LifeInv, EntriesTyped
  <2>2. PanelInv'
    BY <1>1, <2>1, PanelStays, Sets
  <2>3. /\ clients[e] \in SUBSET {"own", "lost", "stuck"}
        /\ e \in Gateways => clients[e] \subseteq {"stuck"}
    BY <1>1, InStep
  <2> QED BY <1>1, <1>2, <2>1, <2>2, <2>3, SetUpStepKeeps, Sets
<1> QED BY <1>3, <1>4

(* So does the scan of set-up, done, quiet or raising. *)
LEMMA ScansKeeps ==
  ASSUME LifeInv, NEW e \in Entries, NEW ends \in {"done", "quiet", "raises"},
         Scans(e, ends)
  PROVE  LifeInv'
<1>1. /\ step[e] \in SettingUp /\ step[e] # "register"
      /\ UNCHANGED <<asked, statsVars, pageVars>>
  BY DEF Scans, SettingUp
<1>2. registered' \in BOOLEAN /\ panel' \in BOOLEAN
  BY <1>1 DEF LifeInv, EntriesTyped, pageVars
<1>3. PICK to \in {"retry", "error", "setting_up"}, at \in {"none", "refresh"},
          new \in {clients[e], Closed(clients[e])} :
        /\ Goes(e, to, at) /\ (to = "setting_up" <=> at = "refresh")
        /\ clients' = [clients EXCEPT ![e] = new]
        /\ e \in Gateways /\ to # "setting_up" => new = Closed(clients[e])
  <2>1. clients' = clients => clients' = [clients EXCEPT ![e] = clients[e]]
    BY DEF LifeInv, EntriesTyped
  <2>2. CASE ends # "raises" /\ ~(ends = "quiet" /\ scan[e] = "none")
    BY <2>1, <2>2 DEF Scans
  <2>3. CASE ends = "raises" \/ (ends = "quiet" /\ scan[e] = "none")
    <3>1. PICK to \in {"retry", "error"} : Goes(e, to, "none")
      BY <2>3 DEF Scans
    <3>2. CASE clients' = [clients EXCEPT ![e] = Closed(clients[e])]
      BY <3>1, <3>2
    <3>3. CASE e \notin Gateways /\ clients' = clients
      BY <2>1, <3>1, <3>3
    <3> QED BY <2>3, <3>2, <3>3 DEF Scans
  <2> QED BY <2>2, <2>3
<1>4. /\ new \in SUBSET {"own", "lost", "stuck"}
      /\ e \in Gateways => "lost" \notin new /\ (to # "setting_up" => new \subseteq {"stuck"})
  BY <1>3, InStep DEF Closed
<1>5. /\ to \in Lives /\ at \in Steps /\ StepFits(to, at) /\ at # "connect" /\ to # "loaded"
      /\ to \in Away => to # "setting_up"
  BY <1>3, Sets DEF SettingUp, Away
<1>6. PanelInv'
  BY <1>1, <1>3, <1>5, PanelStays
<1> QED BY <1>1, <1>2, <1>3, <1>4, <1>5, <1>6, SetUpStepKeeps

(* So does the first refresh, answered or not. *)
LEMMA RefreshKeeps ==
  ASSUME LifeInv, NEW e \in Entries, NEW answers \in BOOLEAN, Refresh(e, answers)
  PROVE  LifeInv'
<1>1. /\ step[e] \in SettingUp /\ step[e] # "register" /\ e \notin Gateways
      /\ UNCHANGED <<asked, linkVars, statsVars, pageVars>>
  BY DEF Refresh, SettingUp
<1>2. /\ registered' \in BOOLEAN /\ panel' \in BOOLEAN
      /\ clients' = [clients EXCEPT ![e] = clients[e]]
  BY <1>1 DEF LifeInv, EntriesTyped, pageVars, linkVars
<1>3. PICK to \in {"setting_up", "retry"}, at \in {"page", "none"} :
        Goes(e, to, at) /\ (to = "setting_up" <=> at = "page")
  BY DEF Refresh
<1>4. to \in Lives /\ at \in Steps /\ StepFits(to, at) /\ at # "connect" /\ to # "loaded"
  BY <1>3, Sets DEF SettingUp
<1>5. PanelInv'
  BY <1>1, <1>3, <1>4, PanelStays
<1>6. clients[e] \in SUBSET {"own", "lost", "stuck"}
  BY InStep
<1> QED BY <1>1, <1>2, <1>3, <1>4, <1>5, <1>6, SetUpStepKeeps

(* So does opening the gateway's client, also when that raises. *)
LEMMA GatewayReadyKeeps ==
  ASSUME LifeInv, NEW e \in Entries, NEW raises \in BOOLEAN, GatewayReady(e, raises)
  PROVE  LifeInv'
<1>1. /\ step[e] \in SettingUp /\ step[e] # "register" /\ e \in Gateways
      /\ UNCHANGED <<asked, statsVars, pageVars>>
  BY DEF GatewayReady, SettingUp
<1>2. registered' \in BOOLEAN /\ panel' \in BOOLEAN
  BY <1>1 DEF LifeInv, EntriesTyped, pageVars
<1>3. PICK to \in {"setting_up", "error"}, at \in {"page", "none"},
          new \in {clients[e], Closed(clients[e])} :
        /\ Goes(e, to, at) /\ (to = "setting_up" <=> at = "page")
        /\ clients' = [clients EXCEPT ![e] = new]
        /\ to = "error" => new = Closed(clients[e])
  <2>1. clients' = clients => clients' = [clients EXCEPT ![e] = clients[e]]
    BY DEF LifeInv, EntriesTyped
  <2> QED BY <2>1 DEF GatewayReady
<1>4. /\ new \in SUBSET {"own", "lost", "stuck"}
      /\ "lost" \notin new /\ (to = "error" => new \subseteq {"stuck"})
  BY <1>1, <1>3, InStep DEF Closed
<1>5. /\ to \in Lives /\ at \in Steps /\ StepFits(to, at) /\ at # "connect" /\ to # "loaded"
      /\ to \in Away => to = "error"
  BY <1>3, Sets DEF SettingUp, Away
<1>6. PanelInv'
  BY <1>1, <1>3, <1>5, PanelStays
<1> QED BY <1>1, <1>2, <1>3, <1>4, <1>5, <1>6, SetUpStepKeeps

(* So does asking for the panel. *)
LEMMA RegisterFrontendKeeps ==
  ASSUME LifeInv, NEW e \in Entries, RegisterFrontend(e)
  PROVE  LifeInv'
<1>1. /\ step[e] \in SettingUp /\ step[e] # "register"
      /\ UNCHANGED <<asked, statsVars>> /\ UNCHANGED <<linkVars, panel>>
  BY DEF RegisterFrontend, SettingUp
<1>2. /\ registered' \in BOOLEAN /\ panel' \in BOOLEAN
      /\ clients' = [clients EXCEPT ![e] = clients[e]]
      /\ clients[e] \in SUBSET {"own", "lost", "stuck"} /\ (e \in Gateways => "lost" \notin clients[e])
  BY <1>1, InStep DEF LifeInv, EntriesTyped, linkVars, RegisterFrontend
<1>3. CASE registered
  <2>1. Goes(e, "loaded", "none") /\ UNCHANGED pageVars
    BY <1>3 DEF RegisterFrontend, pageVars, LifeInv, EntriesTyped
  <2>2. PanelInv'
    BY <1>1, <1>3, <2>1, PanelStays, Sets
  <2>3. /\ "loaded" \in Lives /\ "none" \in Steps /\ StepFits("loaded", "none")
        /\ "loaded" \notin Away /\ "none" # "connect"
    BY Sets DEF Away
  <2> QED BY <1>1, <1>2, <2>1, <2>2, <2>3, SetUpStepKeeps
<1>4. CASE ~registered
  <2>1. Goes(e, "setting_up", "register")
    BY <1>4 DEF RegisterFrontend
  <2>2. /\ "setting_up" \in Lives /\ "register" \in Steps
        /\ StepFits("setting_up", "register")
        /\ "setting_up" \notin Away /\ "register" # "connect"
    BY Sets DEF SettingUp, Away
  <2>3. step'[e] = "register"
    BY <2>1, <2>2, GoesType DEF LifeInv
  <2>4. PanelInv'
    BY <2>3 DEF PanelInv
  <2> QED BY <1>1, <1>2, <2>1, <2>2, <2>4, SetUpStepKeeps
<1> QED BY <1>3, <1>4

(* So does a platform that will not load. *)
LEMMA PageRaisesKeeps ==
  ASSUME LifeInv, NEW e \in Entries, PageRaises(e)
  PROVE  LifeInv'
<1>1. /\ step[e] \in SettingUp /\ step[e] # "register" /\ Goes(e, "error", "none")
      /\ UNCHANGED <<asked, statsVars, pageVars>>
      /\ clients' = [clients EXCEPT ![e] = Stuck(clients[e])]
  BY DEF PageRaises, SettingUp
<1>2. registered' \in BOOLEAN /\ panel' \in BOOLEAN
  BY <1>1 DEF LifeInv, EntriesTyped, pageVars
<1>3. "error" \in Lives /\ "none" \in Steps /\ StepFits("error", "none")
  BY Sets
<1>4. PanelInv'
  BY <1>1, <1>3, PanelStays
<1>5. /\ Stuck(clients[e]) \in SUBSET {"own", "lost", "stuck"}
      /\ e \in Gateways =>
           "lost" \notin Stuck(clients[e]) /\ Stuck(clients[e]) \subseteq {"stuck"}
  BY InStep DEF Stuck, Closed
<1> QED BY <1>1, <1>2, <1>3, <1>4, <1>5, SetUpStepKeeps

(* So does the panel's arrival. *)
LEMMA PanelAddedKeeps ==
  ASSUME LifeInv, NEW e \in Entries, PanelAdded(e)
  PROVE  LifeInv'
<1>1. /\ step[e] \in SettingUp /\ Goes(e, "loaded", "none")
      /\ UNCHANGED <<asked, statsVars>>
  BY DEF PanelAdded, SettingUp
<1>2. /\ registered' \in BOOLEAN /\ panel' \in BOOLEAN /\ PanelInv'
      /\ clients' = [clients EXCEPT ![e] = clients[e]]
      /\ clients[e] \in SUBSET {"own", "lost", "stuck"} /\ (e \in Gateways => "lost" \notin clients[e])
  BY InStep DEF LifeInv, EntriesTyped, linkVars, PanelAdded, PanelInv
<1>3. /\ "loaded" \in Lives /\ "none" \in Steps /\ StepFits("loaded", "none")
      /\ "loaded" \notin Away /\ "none" # "connect"
  BY Sets DEF Away
<1> QED BY <1>1, <1>2, <1>3, SetUpStepKeeps

----------------------------------------------------------------------------
(* Beginnings and ends *)

(* So does the start of a set-up. *)
LEMMA SetUpKeeps ==
  ASSUME LifeInv, NEW e \in Entries, SetUp(e)
  PROVE  LifeInv'
<1>1. /\ life[e] \in {"not_loaded", "retry"} /\ step[e] # "register"
      /\ Goes(e, "setting_up", "connect")
      /\ asked' = [asked EXCEPT ![e] = "run"] /\ UNCHANGED <<linkVars, pageVars>>
  BY InStep DEF SetUp, SettingUp
<1>2. ReportersTyped' /\ ReporterInv' /\ kept'[e] # 0 /\ OthersKeep(e)
  BY ArmingKeeps DEF SetUp, LifeInv, EntriesTyped
<1>3. asked' \in [Entries -> Wishes] /\ \A d \in Entries \ {e} : asked'[d] = asked[d]
  BY <1>1, AskedType DEF LifeInv, Wishes
<1>4. "setting_up" \in Lives /\ "connect" \in Steps /\ StepFits("setting_up", "connect")
  BY Sets DEF SettingUp
<1>5. PanelInv'
  BY <1>1, <1>4, PanelStays
<1>6. /\ clients' \in [Entries -> SUBSET {"own", "lost", "stuck"}] /\ clients' = clients
      /\ registered' \in BOOLEAN /\ panel' \in BOOLEAN
  BY <1>1 DEF LifeInv, EntriesTyped, linkVars, pageVars
<1>7. e \in Gateways => clients[e] \subseteq {"stuck"}
  BY <1>1, InStep DEF Away
<1>8. "setting_up" \notin Away
  BY DEF Away
<1> QED BY <1>1, <1>2, <1>3, <1>4, <1>5, <1>6, <1>7, <1>8, EntryKeeps

(* Unload and Drop: the reporters and the connections stay as they are.    *)
LEMMA LetGoKeeps ==
  ASSUME LifeInv, NEW e \in Entries, Unload(e) \/ Drop(e)
  PROVE  LifeInv'
<1>1. PICK to \in {"unloading", "not_loaded"}, at \in {"platforms", "none"} :
        /\ Goes(e, to, at) /\ (to = "unloading" <=> at = "platforms")
        /\ to = "not_loaded" => life[e] \in {"retry", "error"}
  BY DEF Unload, Drop
<1>2. /\ life[e] \in {"loaded", "retry", "error"} /\ step[e] # "register"
      /\ asked' = [asked EXCEPT ![e] = IF asked[e] = "reload" THEN "run" ELSE asked[e]]
      /\ UNCHANGED <<linkVars, statsVars, pageVars>>
  BY InStep DEF Unload, Drop
<1>3. to \in Lives /\ at \in Steps /\ StepFits(to, at) /\ at # "connect"
  BY <1>1, Sets DEF Unloading
<1>4. PanelInv'
  BY <1>1, <1>2, <1>3, PanelStays
<1>5. asked' \in [Entries -> Wishes] /\ \A d \in Entries \ {e} : asked'[d] = asked[d]
  <2>1. (IF asked[e] = "reload" THEN "run" ELSE asked[e]) \in Wishes
    BY InStep DEF Wishes
  <2> QED BY <1>2, <2>1, AskedType DEF LifeInv
<1>6. ReportersTyped' /\ ReporterInv' /\ OthersKeep(e)
  BY <1>2, Unchanged DEF statsVars
<1>7. /\ clients' \in [Entries -> SUBSET {"own", "lost", "stuck"}] /\ clients' = clients
      /\ registered' \in BOOLEAN /\ panel' \in BOOLEAN
  BY <1>2 DEF LifeInv, EntriesTyped, linkVars, pageVars
<1>8. e \in Gateways =>
        /\ "lost" \notin clients[e]
        /\ to \in Away => clients[e] \subseteq {"stuck"}
  BY <1>1, InStep DEF Away
<1> QED BY <1>1, <1>2, <1>3, <1>4, <1>5, <1>6, <1>7, <1>8, EntryKeeps

(* So does unloading the platforms, also when one refuses. *)
LEMMA PlatformsUnloadedKeeps ==
  ASSUME LifeInv, NEW e \in Entries, NEW done \in BOOLEAN, PlatformsUnloaded(e, done)
  PROVE  LifeInv'
<1>1. /\ step[e] # "register" /\ UNCHANGED <<asked, scan, pageVars>>
  BY DEF PlatformsUnloaded
<1>2. PICK to \in {"unloading", "failed_unload"}, at \in {"close", "none"},
          new \in {clients[e], Stuck(clients[e])} :
        /\ Goes(e, to, at) /\ (to = "unloading" <=> at = "close")
        /\ clients' = [clients EXCEPT ![e] = new]
        /\ to = "failed_unload" => new = Stuck(clients[e])
  <2>1. clients' = clients => clients' = [clients EXCEPT ![e] = clients[e]]
    BY DEF LifeInv, EntriesTyped
  <2> QED BY <2>1 DEF PlatformsUnloaded
<1>3. to \in Lives /\ at \in Steps /\ StepFits(to, at) /\ at # "connect"
  BY <1>2, Sets DEF Unloading
<1>4. PanelInv'
  BY <1>1, <1>2, <1>3, PanelStays
<1>5. ReportersTyped' /\ ReporterInv' /\ OthersKeep(e)
  <2>1. CASE done
    BY <2>1, StoppingKeeps DEF PlatformsUnloaded, LifeInv, EntriesTyped
  <2>2. CASE ~done
    BY <2>2, Unchanged DEF PlatformsUnloaded
  <2> QED BY <2>1, <2>2
<1>6. /\ asked' \in [Entries -> Wishes] /\ asked' = asked
      /\ registered' \in BOOLEAN /\ panel' \in BOOLEAN
  BY <1>1 DEF LifeInv, EntriesTyped, pageVars
<1>7. /\ new \in SUBSET {"own", "lost", "stuck"}
      /\ e \in Gateways =>
           /\ "lost" \notin new
           /\ to = "failed_unload" => new \subseteq {"stuck"}
  BY <1>2, InStep DEF Stuck, Closed
<1>8. /\ clients' \in [Entries -> SUBSET {"own", "lost", "stuck"}] /\ clients'[e] = new
      /\ \A d \in Entries \ {e} : clients'[d] = clients[d]
  BY <1>2, <1>7, ClientsType DEF LifeInv
<1>9. to \in Away => to = "failed_unload"
  BY <1>2 DEF Away
<1> QED BY <1>2, <1>3, <1>4, <1>5, <1>6, <1>7, <1>8, <1>9, EntryKeeps

(* So does closing the client. *)
LEMMA CloseKeeps ==
  ASSUME LifeInv, NEW e \in Entries, Close(e)
  PROVE  LifeInv'
<1>1. /\ step[e] = "close" /\ life[e] = "unloading" /\ Goes(e, "not_loaded", "none")
      /\ clients' = [clients EXCEPT ![e] = Closed(clients[e])]
      /\ UNCHANGED <<asked, statsVars>>
  BY InStep DEF Close, Unloading
<1>2. /\ "not_loaded" \in Lives /\ "none" \in Steps /\ StepFits("not_loaded", "none")
  BY Sets
<1>3. /\ life'[e] = "not_loaded"
      /\ \A d \in Entries \ {e} : life'[d] = life[d]
  BY <1>1, <1>2, GoesType DEF LifeInv
<1>4. registered' \in BOOLEAN /\ panel' \in BOOLEAN /\ PanelInv'
  <2>1. CASE \E other \in Entries \ {e} : life[other] = "loaded"
    <3>1. UNCHANGED pageVars
      BY <2>1 DEF Close
    <3> QED BY <1>1, <1>2, <3>1, PanelStays DEF LifeInv, EntriesTyped, pageVars
  <2>2. CASE ~\E other \in Entries \ {e} : life[other] = "loaded"
    <3>1. registered' = FALSE /\ panel' = (panel /\ ~registered)
      BY <2>2 DEF Close
    <3>2. ~\E d \in Entries : life'[d] = "loaded"
      BY <1>3, <2>2
    <3> QED BY <3>1, <3>2 DEF PanelInv
  <2> QED BY <2>1, <2>2
<1>5. /\ clients' \in [Entries -> SUBSET {"own", "lost", "stuck"}]
      /\ clients'[e] = Closed(clients[e])
      /\ \A d \in Entries \ {e} : clients'[d] = clients[d]
  <2>1. Closed(clients[e]) \in SUBSET {"own", "lost", "stuck"}
    BY InStep DEF Closed
  <2> QED BY <1>1, <2>1, ClientsType DEF LifeInv
<1>6. e \in Gateways =>
        "lost" \notin Closed(clients[e]) /\ Closed(clients[e]) \subseteq {"stuck"}
  BY InStep DEF Closed
<1>7. ReportersTyped' /\ ReporterInv' /\ OthersKeep(e)
  BY <1>1, Unchanged DEF statsVars
<1>8. asked' \in [Entries -> Wishes] /\ asked' = asked
  BY <1>1 DEF LifeInv, EntriesTyped
<1> QED BY <1>1, <1>2, <1>4, <1>5, <1>6, <1>7, <1>8, EntryKeeps

(* So does removing the entry. *)
LEMMA RemoveEntryKeeps ==
  ASSUME LifeInv, NEW e \in Entries, RemoveEntry(e)
  PROVE  LifeInv'
<1>1. /\ life[e] \in {"not_loaded", "failed_unload"} /\ step[e] # "register"
      /\ Goes(e, "removed", "none")
      /\ UNCHANGED <<asked, clients, pageVars>>
  BY InStep DEF RemoveEntry
<1>2. ReportersTyped' /\ ReporterInv' /\ OthersKeep(e)
  BY StoppingKeeps DEF RemoveEntry, LifeInv, EntriesTyped
<1>3. PanelInv'
  BY <1>1, PanelStays, Sets
<1>4. /\ clients' \in [Entries -> SUBSET {"own", "lost", "stuck"}] /\ clients' = clients
      /\ asked' \in [Entries -> Wishes] /\ asked' = asked
      /\ registered' \in BOOLEAN /\ panel' \in BOOLEAN
  BY <1>1 DEF LifeInv, EntriesTyped, pageVars
<1>5. e \in Gateways => "lost" \notin clients[e] /\ clients[e] \subseteq {"stuck"}
  BY <1>1, InStep DEF Away
<1> QED BY <1>1, <1>2, <1>3, <1>4, <1>5, EntryKeeps, Sets

----------------------------------------------------------------------------
(* The user, and the reporters' own steps *)

(* Where only a wish changes, an entry that is to run ran before, and the  *)
(* reporter it keeps is let go only by one that is gone.                   *)
LEMMA HomeKeeps ==
  ASSUME LifeInv, UNCHANGED <<life, step, clients, pageVars>>, NEW e \in Entries,
         ReportersTyped', ReporterInv', OthersKeep(e),
         asked' \in [Entries -> Wishes], \A d \in Entries \ {e} : asked'[d] = asked[d],
         asked'[e] = "run" => asked[e] = "run" /\ (kept'[e] = kept[e] \/ Gone(e))
  PROVE  LifeInv'
<1>1. EntriesTyped' /\ StepsInLife' /\ ClientInv' /\ PanelInv'
  BY DEF LifeInv, EntriesTyped, StepsInLife, ClientInv, PanelInv, pageVars
<1>2. KeptInv'
  BY DEF LifeInv, KeptInv, OthersKeep, Gone
<1> QED BY <1>1, <1>2 DEF LifeInv

(* So does a wish of the user. *)
LEMMA AsksKeeps ==
  ASSUME LifeInv, NEW e \in Entries, NEW wish \in {"reload", "disabled", "removed"},
         Asks(e, wish)
  PROVE  LifeInv'
<1>1. /\ UNCHANGED <<life, step, clients, pageVars, reporter, kept>>
      /\ asked' = [asked EXCEPT ![e] = wish]
  BY DEF Asks, linkVars, statsVars
<1>2. /\ asked' \in [Entries -> Wishes] /\ asked'[e] # "run"
      /\ \A d \in Entries \ {e} : asked'[d] = asked[d]
  BY <1>1, AskedType DEF LifeInv, Wishes
<1> QED BY <1>1, <1>2, Unchanged, HomeKeeps

(* So does the statistics switch. *)
LEMMA SwitchSharingKeeps ==
  ASSUME LifeInv, NEW e \in Entries, SwitchSharing(e)
  PROVE  LifeInv'
<1>1. /\ UNCHANGED <<life, step, clients, pageVars, reporter, kept>>
      /\ asked' = asked \/ asked' = [asked EXCEPT ![e] = "reload"]
  BY DEF SwitchSharing, linkVars
<1>2. /\ asked' \in [Entries -> Wishes] /\ (asked'[e] = "run" => asked[e] = "run")
      /\ \A d \in Entries \ {e} : asked'[d] = asked[d]
  BY <1>1, AskedType DEF LifeInv, EntriesTyped, Wishes
<1> QED BY <1>1, <1>2, Unchanged, HomeKeeps

(* So does each step of a reporter. *)
LEMMA ReporterStepKeeps ==
  ASSUME LifeInv, NEW e \in Entries, NEW i \in Slots, ReporterStep(e, i)
  PROVE  LifeInv'
<1>1. /\ ReportersTyped' /\ ReporterInv' /\ OthersKeep(e)
      /\ UNCHANGED <<life, step, asked, clients, pageVars>>
      /\ kept'[e] # kept[e] => Gone(e)
  BY ReportingKeeps DEF LifeInv, EntriesTyped, homeVars, linkVars
<1>2. asked' \in [Entries -> Wishes]
  BY <1>1 DEF LifeInv, EntriesTyped
<1> QED BY <1>1, <1>2, HomeKeeps

----------------------------------------------------------------------------
(* The invariant holds before any entry is set up. *)
LEMMA LifeInit == EntriesInit => LifeInv
<1> SUFFICES ASSUME EntriesInit PROVE LifeInv
  OBVIOUS
<1>1. NoReporter \in Reporters /\ ~NoReporter.armed /\ NoReporter.timer = "none"
      /\ NoReporter.wire = "none"
  BY DEF NoReporter, Reporters, Timers
<1>2. EntriesTyped
  BY <1>1 DEF EntriesInit, EntriesTyped, ReportersTyped, Lives, Wishes
<1>3. StepsInLife
  BY DEF EntriesInit, StepsInLife, SettingUp, Unloading
<1>4. ReporterInv
  BY <1>1 DEF EntriesInit, ReporterInv
<1>5. KeptInv /\ ClientInv /\ PanelInv
  BY EntriesAssumption DEF EntriesInit, KeptInv, ClientInv, PanelInv
<1> QED BY <1>2, <1>3, <1>4, <1>5 DEF LifeInv

(* Every step keeps it. *)
LEMMA LifeNext == LifeInv /\ [EntriesNext]_entryVars => LifeInv'
<1> SUFFICES ASSUME LifeInv, [EntriesNext]_entryVars PROVE LifeInv'
  OBVIOUS
<1>1. ASSUME NEW e \in Entries, EntryStep(e) PROVE LifeInv'
  BY <1>1, SetUpKeeps, RegisterFrontendKeeps, PageRaisesKeeps, PanelAddedKeeps, LetGoKeeps, CloseKeeps,
     RemoveEntryKeeps, ConnectKeeps, RefreshKeeps, GatewayReadyKeeps,
     PlatformsUnloadedKeeps, ScansKeeps
     DEF EntryStep
<1>2. CASE EntriesNext
  BY <1>1, <1>2, SwitchSharingKeeps, ReporterStepKeeps, AsksKeeps DEF EntriesNext
<1>3. CASE UNCHANGED entryVars
  <2>1. UNCHANGED <<life, step, asked, clients, pageVars, reporter, kept>>
    BY <1>3 DEF entryVars, homeVars, linkVars, statsVars
  <2>2. ReportersTyped' /\ ReporterInv'
    BY <2>1, Unchanged
  <2>3. EntriesTyped' /\ StepsInLife' /\ ClientInv' /\ PanelInv' /\ KeptInv'
    BY <2>1, <2>2 DEF LifeInv, EntriesTyped, StepsInLife, ClientInv, PanelInv, KeptInv, pageVars
  <2> QED BY <2>2, <2>3 DEF LifeInv
<1> QED BY <1>2, <1>3

(* For any entries, hosts, wishes and failures of set-up, the invariant of
   an entry's life holds for ever (async_setup_entry to
   async_remove_entry). *)
THEOREM LifeHolds == EntriesSpec => []LifeInv
  BY LifeInit, LifeNext, PTL DEF EntriesSpec

(* An entry works on a step only while it is being set up or unloaded, and *)
(* has no client and no reporter other than those the code names.          *)
THEOREM EntriesTypeCorrect == EntriesSpec => []EntriesTypeOK
<1>1. LifeInv => EntriesTypeOK
  <2> SUFFICES ASSUME LifeInv, NEW e \in Entries
               PROVE  /\ life[e] \in Lives
                      /\ step[e] # "none" <=> life[e] \in {"setting_up", "unloading"}
                      /\ clients[e] \subseteq {"own", "lost", "stuck"} /\ kept[e] \in {0} \union Slots
    BY DEF EntriesTypeOK, Lives
  <2> QED BY DEF LifeInv, EntriesTyped, ReportersTyped, StepsInLife, SettingUp, Unloading
<1> QED BY <1>1, LifeHolds, PTL

(* However often an entry's set-up is retried, reloaded or given up, with  *)
(* reports on the wire meanwhile, one reporter at most has a timer, and an *)
(* entry that is to run keeps one that will report.                        *)
THEOREM OneReporterEver == EntriesSpec => []OneReporter
<1>1. LifeInv => OneReporter
  BY DEF LifeInv, EntriesTyped, ReportersTyped, ReporterInv, KeptInv, OneReporter, Live
<1> QED BY <1>1, LifeHolds, PTL

(* However a gateway's entry is set up, retried, reloaded, unloaded and    *)
(* removed, no client loses its holder, and outside a set-up, an unload    *)
(* and the time between them none is open but one left behind by platforms *)
(* that would not load or unload (async_setup_entry to async_remove_entry).*)
THEOREM NoGatewayLeftEver == EntriesSpec => []NoGatewayLeft
<1>1. LifeInv => NoGatewayLeft
  BY EntriesAssumption DEF LifeInv, EntriesTyped, Lives, Away, ClientInv, NoGatewayLeft
<1> QED BY <1>1, LifeHolds, PTL

(* However set-ups and unloads of any number of entries overlap, the panel *)
(* is there while one is loaded and nobody is about to add it.             *)
THEOREM PanelShownEver == EntriesSpec => []PanelShown
<1>1. LifeInv => PanelShown
  BY DEF LifeInv, PanelInv, PanelShown
<1> QED BY <1>1, LifeHolds, PTL

----------------------------------------------------------------------------
(* The entity registry *)

(* The entity a register has, if it has one, and the user's choice of it.  *)
(* One that is left behind while its register is not present has kept      *)
(* both, on whatever platform it was; one made anew has kept neither.      *)
StandsFor(state, chosen, anew) ==
  /\ ~anew => /\ state = "user" <=> chosen = "off"
              /\ chosen = "on" => state = "on"
  /\ anew => state # "user"

Tied(states, chosen, anew) ==
  \E p \in Platforms :
    /\ \A q \in Platforms \ {p} : states[q] = "none"
    /\ StandsFor(states[p], chosen, anew)

RegistryTyped ==
  /\ entities \in [Numbers -> [Platforms -> States]]
  /\ choice \in [Numbers -> {"none", "on", "off"}]
  /\ moved \subseteq Numbers

PresentNow == PresentAt(version, gateway)

AsWanted ==
  \A r \in PresentNow :
    /\ EntityOf(r) # "none"
    /\ DefaultEnabled(r, version, gateway, lastScan) => EntityOf(r) # "integration"

RegistryInv ==
  /\ RegistryTyped
  /\ \A r \in Numbers : Tied(entities[r], choice[r], r \in moved)
  /\ AsWanted

VersionsKnown ==
  /\ version \in DOMAIN Meanings /\ taps \in 0 .. Tapped
  /\ lastScan.by \in DOMAIN Meanings /\ lastScan.reporting \subseteq Numbers

(* Every register has a platform. *)
LEMMA PlatformKnown == \A m : PlatformFor(m) \in Platforms
BY DEF PlatformFor, Platforms

(* What a scan finds is in the map. *)
LEMMA PresentKnown == \A v, behind : PresentAt(v, behind) \subseteq Numbers
BY DEF PresentAt

(* An entity on its platform, after a set-up that wants it or not.         *)
LEMMA SetUpState ==
  ASSUME NEW s \in States, NEW wanted \in BOOLEAN
  PROVE  LET t == Added(SwitchedOn(s, wanted), wanted) IN
         /\ t \in States /\ t # "none"
         /\ wanted => t # "integration"
         /\ t = "user" <=> s = "user"
         /\ s = "on" => t = "on"
BY DEF Added, SwitchedOn, States

(* A register is on by default or it is not. *)
LEMMA WantedOrNot ==
  \A r, v, behind, known : DefaultEnabled(r, v, behind, known) \in BOOLEAN
BY DEF DefaultEnabled, IsDefault, IsCoreRegister

(* Whatever version sets up with whatever scan: an entity moves to its     *)
(* platform, and keeps the user's choice if it was there.                  *)
LEMMA VersionSetsUpKeeps ==
  ASSUME RegistryInv, NEW v, NEW known, SetsUp(v, known), gateway' = gateway
  PROVE  RegistryInv'
<1> DEFINE P(r) == PlatformFor(Meanings[v][r])
           wanted(r) == DefaultEnabled(r, v, gateway, known)
           after(r) == Added(SwitchedOn(entities[r][P(r)], wanted(r)), wanted(r))
           there == PresentAt(v, gateway)
<1>1. /\ entities \in [Numbers -> [Platforms -> States]]
      /\ choice \in [Numbers -> {"none", "on", "off"}] /\ moved \subseteq Numbers
  BY DEF RegistryInv, RegistryTyped
<1>2. /\ version' = v /\ lastScan' = known
      /\ entities' = AfterSetUp(v, known) /\ choice' = choice
      /\ moved' = moved \union {r \in MadeAnew(v) : choice[r] # "none"}
  BY DEF SetsUp
<1>3. \A r \in Numbers : P(r) \in Platforms
  BY PlatformKnown
<1>4. \A r \in Numbers : wanted(r) \in BOOLEAN
  BY WantedOrNot
<1> HIDE DEF P, wanted
<1>5. ASSUME NEW r \in Numbers
      PROVE  /\ after(r) \in States /\ after(r) # "none"
             /\ wanted(r) => after(r) # "integration"
             /\ after(r) = "user" <=> entities[r][P(r)] = "user"
             /\ entities[r][P(r)] = "on" => after(r) = "on"
  <2>1. entities[r][P(r)] \in States /\ wanted(r) \in BOOLEAN
    BY <1>1, <1>3, <1>4
  <2> QED BY <2>1, SetUpState
<1>6. ASSUME NEW r \in Numbers, r \in there
      PROVE  entities'[r] = [q \in Platforms |-> IF q = P(r) THEN after(r) ELSE "none"]
  <2>1. entities'[r] = [MovedAway(r, v) EXCEPT ![P(r)] =
                          Added(SwitchedOn(@, wanted(r)), wanted(r))]
    BY <1>2, <1>6 DEF AfterSetUp, P, wanted
  <2>2. MovedAway(r, v) = [q \in Platforms |-> IF q = P(r) THEN entities[r][q] ELSE "none"]
    BY DEF MovedAway, P
  <2> QED BY <1>3, <2>1, <2>2
<1>7. \A r \in Numbers \ there : entities'[r] = entities[r] /\ (r \in moved' <=> r \in moved)
  BY <1>2 DEF AfterSetUp, MadeAnew
<1>8. \A r \in there :
        r \in moved' <=> r \in moved \/ (entities[r][P(r)] = "none" /\ choice[r] # "none")
  BY <1>2 DEF MadeAnew, P
<1>9. there \subseteq Numbers /\ DOMAIN entities' = Numbers
  BY <1>2, PresentKnown DEF AfterSetUp
<1> HIDE DEF after, there
<1>10. RegistryTyped'
  <2>1. \A r \in Numbers : entities'[r] \in [Platforms -> States]
    <3> SUFFICES ASSUME NEW r \in Numbers PROVE entities'[r] \in [Platforms -> States]
      OBVIOUS
    <3>1. CASE r \in there
      <4>1. after(r) \in States /\ "none" \in States
        BY <1>5 DEF States
      <4>2. entities'[r] = [q \in Platforms |-> IF q = P(r) THEN after(r) ELSE "none"]
        BY <1>6, <3>1
      <4> QED BY <4>1, <4>2
    <3>2. CASE r \notin there
      BY <1>1, <1>7, <3>2
    <3> QED BY <3>1, <3>2
  <2>2. moved' \subseteq Numbers
    BY <1>1, <1>2, PresentKnown DEF MadeAnew
  <2>3. entities' = [r \in Numbers |-> entities'[r]]
    BY <1>2 DEF AfterSetUp
  <2> QED BY <1>1, <1>2, <2>1, <2>2, <2>3 DEF RegistryTyped
<1>11. ASSUME NEW r \in Numbers
       PROVE  Tied(entities'[r], choice'[r], r \in moved')
  <2>1. PICK p \in Platforms :
          /\ \A q \in Platforms \ {p} : entities[r][q] = "none"
          /\ StandsFor(entities[r][p], choice[r], r \in moved)
    BY DEF RegistryInv, Tied
  <2>2. choice'[r] = choice[r] /\ choice[r] \in {"none", "on", "off"}
    BY <1>1, <1>2
  <2>3. CASE r \notin there
    BY <1>7, <2>1, <2>2, <2>3 DEF Tied, StandsFor
  <2>4. CASE r \in there /\ entities[r][P(r)] # "none"
    <3>1. p = P(r) /\ P(r) \in Platforms /\ (r \in moved' <=> r \in moved)
      BY <1>3, <1>8, <2>1, <2>4
    <3>2. /\ entities'[r][P(r)] = after(r)
          /\ \A q \in Platforms \ {P(r)} : entities'[r][q] = "none"
      BY <1>6, <2>4, <3>1
    <3>3. StandsFor(after(r), choice'[r], r \in moved')
      BY <1>5, <2>1, <2>2, <3>1 DEF StandsFor
    <3> QED BY <3>1, <3>2, <3>3 DEF Tied
  <2>5. CASE r \in there /\ entities[r][P(r)] = "none"
    <3>1. /\ P(r) \in Platforms /\ after(r) # "user"
          /\ r \in moved' <=> r \in moved \/ choice[r] # "none"
      BY <1>3, <1>5, <1>8, <2>5
    <3>2. /\ entities'[r][P(r)] = after(r)
          /\ \A q \in Platforms \ {P(r)} : entities'[r][q] = "none"
      BY <1>6, <2>5, <3>1
    <3>3. StandsFor(after(r), choice'[r], r \in moved')
      BY <2>2, <3>1 DEF StandsFor
    <3> QED BY <3>1, <3>2, <3>3 DEF Tied
  <2> QED BY <2>3, <2>4, <2>5
<1>12. AsWanted'
  <2> SUFFICES ASSUME NEW r \in PresentNow'
               PROVE  /\ EntityOf(r)' # "none"
                      /\ DefaultEnabled(r, version, gateway, lastScan)' =>
                           EntityOf(r)' # "integration"
    BY DEF AsWanted
  <2>1. r \in there /\ r \in Numbers
    BY <1>2, <1>9 DEF PresentNow, PresentAt, there
  <2>2. EntityOf(r)' = entities'[r][P(r)]
    BY <1>2 DEF EntityOf, Meaning, P, PlatformFor, FlagRange
  <2>3. DefaultEnabled(r, version, gateway, lastScan)' = wanted(r)
    BY <1>2 DEF wanted, DefaultEnabled, IsDefault, IsCoreRegister
  <2>4. entities'[r][P(r)] = after(r)
    BY <1>3, <1>6, <2>1
  <2> QED BY <1>5, <2>1, <2>2, <2>3, <2>4
<1> QED BY <1>10, <1>11, <1>12 DEF RegistryInv

(* The invariant of the registry holds at the start. *)
LEMMA RegistryInvInit == RegistryInit => RegistryInv
<1> SUFFICES ASSUME RegistryInit PROVE RegistryInv
  OBVIOUS
<1> DEFINE P(r) == PlatformFor(Meanings[1][r])
           wanted(r) == DefaultEnabled(r, 1, gateway, lastScan)
           first(r) == Added("none", wanted(r))
<1>1. /\ version = 1 /\ choice = [r \in Numbers |-> "none"] /\ moved = {}
      /\ entities = [r \in Numbers |-> [p \in Platforms |->
           IF r \in PresentAt(1, gateway) /\ p = P(r) THEN first(r) ELSE "none"]]
  BY DEF RegistryInit
<1>2. ASSUME NEW r \in Numbers
      PROVE  /\ P(r) \in Platforms /\ wanted(r) \in BOOLEAN
             /\ first(r) \in {"on", "integration"} /\ (wanted(r) => first(r) = "on")
  BY PlatformKnown, WantedOrNot DEF Added
<1> HIDE DEF P, wanted, first
<1>3. RegistryTyped
  BY <1>1, <1>2 DEF RegistryTyped, States
<1>4. \A r \in Numbers : Tied(entities[r], choice[r], r \in moved)
  BY <1>1, <1>2 DEF Tied, StandsFor
<1>5. ASSUME NEW r \in PresentNow
      PROVE  /\ EntityOf(r) = first(r) /\ r \in Numbers
             /\ DefaultEnabled(r, version, gateway, lastScan) = wanted(r)
  <2>1. r \in PresentAt(1, gateway) /\ r \in Numbers
    BY <1>1, PresentKnown DEF PresentNow
  <2> QED BY <1>1, <1>2, <2>1 DEF EntityOf, Meaning, P, wanted
<1>6. AsWanted
  <2> SUFFICES ASSUME NEW r \in PresentNow
               PROVE  EntityOf(r) # "none"
                      /\ (DefaultEnabled(r, version, gateway, lastScan) =>
                            EntityOf(r) # "integration")
    BY DEF AsWanted
  <2>1. /\ EntityOf(r) = first(r) /\ r \in Numbers
        /\ DefaultEnabled(r, version, gateway, lastScan) = wanted(r)
    BY <1>5
  <2> QED BY <1>2, <2>1
<1> QED BY <1>3, <1>4, <1>6 DEF RegistryInv

(* The user switches the entity that is shown.                             *)
LEMMA SwitchKeeps ==
  ASSUME RegistryInv, NEW r \in PresentNow, NEW s \in {"on", "user"}, NEW c \in {"on", "off"},
         s = "on" <=> c = "on",
         entities' = [entities EXCEPT ![r][PlatformFor(Meaning(r))] = s],
         choice' = [choice EXCEPT ![r] = c], moved' = moved \ {r},
         UNCHANGED <<gateway, version, fitted, lastScan>>
  PROVE  RegistryInv'
<1> DEFINE p == PlatformFor(Meaning(r))
<1>1. p \in Platforms /\ r \in Numbers /\ RegistryTyped /\ EntityOf(r) # "none"
  BY PlatformKnown, PresentKnown DEF RegistryInv, AsWanted, PresentNow
<1>2. entities' = [entities EXCEPT ![r] = [entities[r] EXCEPT ![p] = s]]
  BY <1>1 DEF RegistryTyped
<1>3. entities[r][p] # "none"
  BY <1>1 DEF EntityOf
<1>4. \A x \in Numbers : EntityOf(x) = entities[x][PlatformFor(Meaning(x))]
                         /\ EntityOf(x)' = entities'[x][PlatformFor(Meaning(x))]
  BY DEF EntityOf, Meaning, PlatformFor, FlagRange
<1> HIDE DEF p
<1>5. RegistryTyped'
  <2>1. s \in States /\ entities \in [Numbers -> [Platforms -> States]]
        /\ choice \in [Numbers -> {"none", "on", "off"}]
    BY <1>1 DEF RegistryTyped, States
  <2>2. [entities[r] EXCEPT ![p] = s] \in [Platforms -> States]
    BY <1>1, <2>1
  <2>3. entities' \in [Numbers -> [Platforms -> States]]
    BY <1>1, <1>2, <2>1, <2>2
  <2>4. choice' \in [Numbers -> {"none", "on", "off"}]
    BY <1>1, <2>1
  <2> QED BY <1>1, <2>3, <2>4 DEF RegistryTyped
<1>6. ASSUME NEW x \in Numbers PROVE Tied(entities'[x], choice'[x], x \in moved')
  <2>1. CASE x # r
    <3>1. entities'[x] = entities[x] /\ choice'[x] = choice[x] /\ (x \in moved' <=> x \in moved)
      BY <1>1, <1>2, <2>1 DEF RegistryTyped
    <3> QED BY <3>1 DEF RegistryInv, Tied, StandsFor
  <2>2. CASE x = r
    <3>1. PICK q \in Platforms : \A o \in Platforms \ {q} : entities[r][o] = "none"
      BY <1>1 DEF RegistryInv, Tied
    <3>2. q = p
      BY <1>1, <1>3, <3>1
    <3>3. entities'[r][p] = s /\ choice'[r] = c /\ r \notin moved'
      BY <1>1, <1>2 DEF RegistryTyped
    <3>4. \A o \in Platforms \ {p} : entities'[r][o] = "none"
      BY <1>1, <1>2, <3>1, <3>2 DEF RegistryTyped
    <3> QED BY <1>1, <2>2, <3>3, <3>4 DEF Tied, StandsFor
  <2> QED BY <2>1, <2>2
<1>7. ASSUME NEW x \in PresentNow
      PROVE  EntityOf(x)' = IF x = r THEN s ELSE EntityOf(x)
  <2>1. x \in Numbers
    BY PresentKnown DEF PresentNow
  <2>2. CASE x = r
    BY <1>1, <1>2, <1>4, <2>1, <2>2 DEF RegistryTyped, p
  <2>3. CASE x # r
    BY <1>1, <1>2, <1>4, <2>1, <2>3 DEF RegistryTyped
  <2> QED BY <2>2, <2>3
<1>8. PresentNow' = PresentNow
  BY DEF PresentNow, PresentAt
<1>9. \A x \in PresentNow : DefaultEnabled(x, version, gateway, lastScan)' =
                         DefaultEnabled(x, version, gateway, lastScan)
  BY DEF DefaultEnabled, IsDefault, IsCoreRegister
<1>10. AsWanted'
  <2> SUFFICES ASSUME NEW x \in PresentNow
               PROVE  /\ EntityOf(x)' # "none"
                      /\ DefaultEnabled(x, version, gateway, lastScan) =>
                           EntityOf(x)' # "integration"
    BY <1>8, <1>9 DEF AsWanted
  <2> QED BY <1>7 DEF RegistryInv, AsWanted
<1> QED BY <1>5, <1>6, <1>10 DEF RegistryInv

(* Updates, restarts, rescans, switches and clean-ups keep it. *)
LEMMA RegistryInvNext == RegistryInv /\ [RegistryNext]_registryVars => RegistryInv'
<1> SUFFICES ASSUME RegistryInv, [RegistryNext]_registryVars PROVE RegistryInv'
  OBVIOUS
<1>1. ASSUME NEW v \in DOMAIN Meanings, Restart(v) PROVE RegistryInv'
  BY <1>1, VersionSetsUpKeeps DEF Restart
<1>2. CASE RescanService
  BY <1>2, VersionSetsUpKeeps DEF RescanService
<1>3. ASSUME NEW r \in Numbers, SwitchOff(r) PROVE RegistryInv'
  BY <1>3, SwitchKeeps DEF SwitchOff, Shows, PresentNow
<1>4. ASSUME NEW r \in Numbers, SwitchOn(r) PROVE RegistryInv'
  BY <1>4, SwitchKeeps DEF SwitchOn, Shows, PresentNow
<1>5. CASE UNCHANGED <<gateway, version, lastScan, entities, choice, moved>>
  BY <1>5 DEF RegistryInv, RegistryTyped, AsWanted, PresentNow, PresentAt, EntityOf, Meaning,
              DefaultEnabled, IsDefault, IsCoreRegister
<1>6. CASE Fit
  BY <1>5, <1>6 DEF Fit
<1>7. CASE UNCHANGED registryVars
  BY <1>5, <1>7 DEF registryVars
<1> QED BY <1>1, <1>2, <1>3, <1>4, <1>6, <1>7 DEF RegistryNext

(* It holds for ever. *)
LEMMA RegistryInvHolds == RegistrySpec => []RegistryInv
<1> QED BY RegistryInvInit, RegistryInvNext, PTL DEF RegistrySpec

(* Through any updates, rescans, restarts and switches a register that is  *)
(* present keeps one entity, on the platform of today; the user's choice   *)
(* stands until an update moves the register, which loses it; and a        *)
(* default nobody has switched off is on (_async_remove_moved_entities).   *)
THEOREM ChoicesKeptEver == RegistrySpec => []ChoicesKept
<1>1. RegistryInv => ChoicesKept
  <2> SUFFICES ASSUME RegistryInv, NEW r \in PresentNow
               PROVE  /\ {p \in Platforms : entities[r][p] # "none"} = {PlatformFor(Meaning(r))}
                      /\ StandsFor(EntityOf(r), choice[r], r \in moved)
                      /\ DefaultEnabled(r, version, gateway, lastScan) =>
                           EntityOf(r) # "integration"
    BY DEF ChoicesKept, PresentNow, EntityOf, StandsFor
  <2> DEFINE m == PlatformFor(Meaning(r))
  <2>1. m \in Platforms /\ r \in Numbers /\ EntityOf(r) = entities[r][m]
    BY PlatformKnown, PresentKnown DEF PresentNow, EntityOf
  <2>2. /\ EntityOf(r) # "none"
        /\ DefaultEnabled(r, version, gateway, lastScan) => EntityOf(r) # "integration"
    BY DEF RegistryInv, AsWanted
  <2> HIDE DEF m
  <2>3. PICK p \in Platforms :
          /\ \A q \in Platforms \ {p} : entities[r][q] = "none"
          /\ StandsFor(entities[r][p], choice[r], r \in moved)
    BY <2>1 DEF RegistryInv, Tied
  <2>4. p = m
    BY <2>1, <2>2, <2>3
  <2>5. {q \in Platforms : entities[r][q] # "none"} = {m}
    BY <2>1, <2>2, <2>3, <2>4
  <2> QED BY <2>1, <2>2, <2>3, <2>4, <2>5 DEF m
<1> QED BY <1>1, RegistryInvHolds, PTL

(* The version that runs and the one that made the scan are known, and the
   scan is of registers in the map. *)
LEMMA VersionsInit == RegistryInit => VersionsKnown
<1> SUFFICES ASSUME RegistryInit PROVE VersionsKnown
  OBVIOUS
<1>1. PICK wanted : lastScan = Probed(1, fitted, wanted)
  BY DEF RegistryInit
<1>2. lastScan.by = 1 /\ lastScan.reporting \subseteq PresentAt(1, TRUE)
  BY <1>1 DEF Probed, Stored
<1>3. version = 1 /\ taps = 0
  BY DEF RegistryInit
<1>4. PresentAt(1, TRUE) \subseteq Numbers
  BY DEF PresentAt
<1>5. 1 \in DOMAIN Meanings /\ 0 \in 0 .. Tapped
  BY MeaningsAssumption
<1> QED BY <1>2, <1>3, <1>4, <1>5 DEF VersionsKnown

(* A set-up with a known version and scan keeps them known. *)
LEMMA VersionsNext == VersionsKnown /\ [RegistryNext]_registryVars => VersionsKnown'
<1> SUFFICES ASSUME VersionsKnown, [RegistryNext]_registryVars PROVE VersionsKnown'
  OBVIOUS
<1>1. Tap => taps' \in 0 .. Tapped
  BY MeaningsAssumption DEF VersionsKnown, Tap
<1>2. ASSUME NEW v \in DOMAIN Meanings, NEW there, NEW wanted
      PROVE  /\ Probed(v, there, wanted).by \in DOMAIN Meanings
             /\ Probed(v, there, wanted).reporting \subseteq Numbers
  BY <1>2, PresentKnown DEF Probed, Stored
<1>3. ASSUME NEW v \in DOMAIN Meanings, Restart(v) PROVE VersionsKnown'
  BY <1>1, <1>2, <1>3 DEF Restart, SetsUp, VersionsKnown
<1>4. CASE RescanService
  BY <1>1, <1>2, <1>4 DEF RescanService, SetsUp, VersionsKnown
<1>5. CASE Fit \/ \E r \in Numbers : SwitchOff(r) \/ SwitchOn(r)
  BY <1>1, <1>5 DEF Fit, SwitchOff, SwitchOn, VersionsKnown
<1>6. CASE UNCHANGED registryVars
  BY <1>6 DEF registryVars, VersionsKnown
<1> QED BY <1>3, <1>4, <1>5, <1>6 DEF RegistryNext

(* Whatever happens to an installation, the version that runs is one there *)
(* is, and the stored scan was made by one and has only its registers.     *)
THEOREM RegistryTypeCorrect == RegistrySpec => []RegistryTypeOK
<1>1. RegistrySpec => []VersionsKnown
  BY VersionsInit, VersionsNext, PTL DEF RegistrySpec
<1>2. VersionsKnown /\ RegistryInv => RegistryTypeOK
  BY DEF VersionsKnown, RegistryInv, RegistryTyped, RegistryTypeOK
<1> QED BY <1>1, <1>2, RegistryInvHolds, PTL

----------------------------------------------------------------------------
(* All components side by side *)

(* Whichever component runs, each starts in an initial state of its own. *)
LEMMA EachStarts ==
  Init => /\ ScanInit /\ EnergyInit /\ HistoryInit /\ EntriesInit /\ FlowInit
          /\ ComfortInit /\ RegistryInit /\ ReportsInit
BY DEF Init

(* A step of one component leaves the variables of the others alone. *)
LEMMA EachSteps ==
  [Next]_vars => /\ [ScanNext]_scanVars /\ [EnergyNext]_energyVars /\ [HistoryNext]_historyVars
                 /\ [EntriesNext]_entryVars /\ [FlowNext]_flowVars /\ [ComfortNext]_comfortVars
                 /\ [RegistryNext]_registryVars /\ [ReportsNext]_reportVars
<1>1. CASE Next
  BY <1>1 DEF Next, Rests
<1>2. CASE UNCHANGED vars
  BY <1>2 DEF vars
<1> QED BY <1>1, <1>2

(* A behaviour of all of them is one of each. *)
LEMMA EachRuns ==
  Spec => /\ ScanSpec /\ EnergySpec /\ HistorySpec /\ EntriesSpec /\ FlowSpec
          /\ ComfortSpec /\ RegistrySpec /\ ReportsSpec
BY EachStarts, EachSteps, PTL
   DEF Spec, ScanSpec, EnergySpec, HistorySpec, EntriesSpec, FlowSpec, ComfortSpec,
       RegistrySpec, ReportsSpec

(* The input the tables are put to the test with, if they are.             *)
TablesInv == TablesInit \/ (variants = <<>> /\ labels = NoTable /\ titled = <<>>)

(* No step changes that input. *)
LEMMA TablesKept == Spec => []TablesInv
<1>1. Init => TablesInv
  BY DEF Init, TablesInv
<1>2. TablesInv /\ [Next]_vars => TablesInv'
  <2> SUFFICES ASSUME TablesInv, UNCHANGED <<variants, labels, titled>> PROVE TablesInv'
    BY DEF Next, vars, tableVars
  <2> QED BY DEF TablesInv, TablesInit
<1> QED BY <1>1, <1>2, PTL DEF Spec

(* Every variable of every component stays in its type, for any values of  *)
(* the constants and whichever component a behaviour is of.                *)
THEOREM AllTypesCorrect == Spec => []TypeOK
<1>1. TablesInv => TablesTypeOK
  <2>1. CASE variants = <<>> /\ labels = NoTable
    BY <2>1 DEF TablesTypeOK
  <2>2. CASE \E n \in 1 .. 3 : variants \in [1 .. n -> Variants]
    <3>1. PICK n \in 1 .. 3 : variants \in [1 .. n -> Variants]
      BY <2>2
    <3>2. n \in Nat /\ variants \in Seq(Variants)
      BY <3>1, SeqDef
    <3> QED BY <2>2, <3>2 DEF TablesInv, TablesInit, TablesTypeOK
  <2> QED BY <2>1, <2>2 DEF TablesInv, TablesInit
<1>2. /\ ScanTypeOK /\ EnergyTypeOK /\ HistoryTypeOK /\ EntriesTypeOK /\ FlowTypeOK
      /\ ComfortTypeOK /\ TablesTypeOK /\ RegistryTypeOK /\ ReportsTypeOK
      => TypeOK
  BY DEF TypeOK
<1> QED BY EachRuns, TablesKept, <1>1, <1>2, ScanTypeCorrect, EnergyTypeCorrect,
       HistoryTypeCorrect, EntriesTypeCorrect, FlowTypeCorrect, ComfortTypeCorrect,
       RegistryTypeCorrect, ReportsTypeCorrect, PTL

(* What is promised of each component holds where they are looked at side  *)
(* by side: of the scan and its plans, of what is counted, of entries and  *)
(* their ids, of the comfort writes, of the registry, and of the reports.  *)
THEOREM AllPromisesKept ==
  Spec => /\ [](FindsTheUnit /\ TwoReadsPerAddress /\ PlansAreSafe /\ FewestReads)
          /\ [](FairSpan /\ FigureIsItsSpan /\ NothingTwice)
          /\ [](OneReporter /\ PanelShown /\ NoGatewayLeft /\ OnePumpOneEntry)
          /\ [](ShownIsMeant /\ ChoicesKept) /\ CoolsOnlyWhenAsked
BY EachRuns, ScanExact, ScanCheap, PlansSafe, ReadsAreFewest, FairSpans, FiguresAreTheirSpans,
   NothingToldTwice, OneReporterEver, PanelShownEver, NoGatewayLeftEver, OneEntryEach,
   CallsMeanWhatTheyShow, ChoicesKeptEver, NeverCoolsUnasked, PTL

(* Of the tables this is so of every input they are tried with (codec,     *)
(* names).                                                                 *)
THEOREM TablesPromisesKept == Spec => [](ReadBackIsWritten /\ NamesDistinct)
<1>1. TablesInv => ReadBackIsWritten
  BY WritesReadBack DEF TablesInv, ReadBackIsWritten
<1>2. TablesInv => NamesDistinct
  <2>1. CASE titled = <<>>
    <3>1. DOMAIN titled = {}
      BY <2>1
    <3> QED BY <3>1 DEF NamesDistinct
  <2>2. CASE TablesInit
    BY <2>2, NamesTellApart
  <2> QED BY <2>1, <2>2 DEF TablesInv
<1> QED BY <1>1, <1>2, TablesKept, PTL
=============================================================================
