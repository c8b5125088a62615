--------------------------- MODULE EntityRegistry ---------------------------
(***************************************************************************)
(* Which entities Home Assistant keeps for a pump's registers, and which   *)
(* of them are switched on, through updates of the integration that give a *)
(* register another platform or another default, rescans, accessories that *)
(* come and go, and a user who switches entities on and off.               *)
(***************************************************************************)
EXTENDS RegisterTables

CONSTANTS
  Numbers,         \* register numbers
  Meanings,        \* what each version of the integration makes of them
  Tapped           \* bound: what happens to an installation

ASSUME MeaningsAssumption ==
  /\ 1 \in DOMAIN Meanings /\ Tapped \in Nat
  /\ \A v \in DOMAIN Meanings : DOMAIN Meanings[v] = Numbers

VARIABLES
  gateway,    \* an F-series pump behind a gateway, or an S-series pump
  version,    \* the integration that runs
  fitted,     \* the accessory is fitted, and its flag says so
  lastScan,   \* the stored scan: its version, and the registers that reported
  entities,   \* the entity registry: each register's entity on each platform
  choice,     \* what the user last did to a register's entity
  moved,      \* registers whose entity has been made anew since
  taps

registryVars == <<gateway, version, fitted, lastScan, entities, choice, moved, taps>>

Platforms == {"sensor", "binary_sensor", "button", "number", "select", "switch"}
States == {"none", "on", "integration", "user"}

Meaning(r) == Meanings[version][r]
EntityOf(r) == entities[r][PlatformFor(Meaning(r))]

----------------------------------------------------------------------------
(* What is read, and what of it is switched on *)

PresentAt(v, behind) == IF behind THEN {r \in Numbers : ~Meanings[v][r].date} ELSE Numbers

Reports(m, there) == m.about # "accessory" \/ there

DefaultRegisters(v) == {r \in Numbers : Meanings[v][r].about \in {"usual", "flag"}}
AccessoryRegisters(v, there) ==
  IF there THEN {r \in Numbers : Meanings[v][r].about = "accessory"} ELSE {}

(* A scan as it is stored, with the version that made it. *)
Stored(v, reporting) == [by |-> v, reporting |-> reporting]
Stale(v) == lastScan.by # v

Probed(v, there, wanted) ==
  Stored(v, {r \in wanted : Reports(Meanings[v][r], there)} \intersect PresentAt(v, TRUE))

Subscribed(v) == {r \in Numbers : entities[r][PlatformFor(Meanings[v][r])] = "on"}

(* A gateway's entity is on by default if the scan got a value for a       *)
(* register worth showing; an S-series entity by what it is about.         *)
IsDefault(m, reporting) == ~m.date /\ reporting /\ m.about # "other"
IsCoreRegister(m) == m.about = "flag" \/ (m.about = "usual" /\ ~m.apart)

DefaultEnabled(r, v, behind, known) ==
  IF behind THEN IsDefault(Meanings[v][r], r \in known.reporting)
            ELSE IsCoreRegister(Meanings[v][r])

----------------------------------------------------------------------------
(* Set-up: entities left on another platform go, ones the integration had  *)
(* switched off and now wants are switched on, missing ones are added.     *)

MovedAway(r, v) == [p \in Platforms |->
  IF p = PlatformFor(Meanings[v][r]) THEN entities[r][p] ELSE "none"]

SwitchedOnAnyway(state, wanted) == IF wanted /\ state # "none" THEN "on" ELSE state

SwitchedOn(state, wanted) == IF wanted /\ state = "integration" THEN "on" ELSE state

Added(state, wanted) ==
  IF state # "none" THEN state ELSE IF wanted THEN "on" ELSE "integration"

AfterSetUp(v, known) ==
  [r \in Numbers |->
    IF r \notin PresentAt(v, gateway) THEN entities[r]
    ELSE LET p == PlatformFor(Meanings[v][r])
             wanted == DefaultEnabled(r, v, gateway, known)
         IN [MovedAway(r, v) EXCEPT ![p] = Added(SwitchedOn(@, wanted), wanted)]]

(* The entity of a register that has moved to another platform is a new    *)
(* one, whatever the user did to the one that was removed.                 *)
MadeAnew(v) ==
  {r \in PresentAt(v, gateway) : entities[r][PlatformFor(Meanings[v][r])] = "none"}

SetsUp(v, known) ==
  /\ version' = v
  /\ lastScan' = known
  /\ entities' = AfterSetUp(v, known)
  /\ moved' = moved \union {r \in MadeAnew(v) : choice[r] # "none"}
  /\ UNCHANGED choice

Tap == taps < Tapped /\ taps' = taps + 1

(* The config flow's scan, then the first set-up. *)
RegistryInit ==
  /\ gateway \in BOOLEAN /\ fitted \in BOOLEAN
  /\ version = 1 /\ taps = 0
  /\ choice = [r \in Numbers |-> "none"] /\ moved = {}
  /\ lastScan = Probed(1, fitted, DefaultRegisters(1) \union AccessoryRegisters(1, fitted))
  /\ entities = [r \in Numbers |-> [p \in Platforms |->
       IF r \in PresentAt(1, gateway) /\ p = PlatformFor(Meanings[1][r])
         THEN Added("none", DefaultEnabled(r, 1, gateway, lastScan)) ELSE "none"]]

(* Home Assistant starts again with version v.  A scan by another version  *)
(* is stale: the defaults are read again, if the pump answers just then.   *)
Restart(v) ==
  /\ Tap
  /\ UNCHANGED <<gateway, fitted>>
  /\ \/ ~Stale(v) /\ SetsUp(v, lastScan)
     \/ Stale(v) /\ \/ SetsUp(v, Probed(v, fitted, DefaultRegisters(v)))
                      \/ SetsUp(v, lastScan)

(* The rescan service: the defaults, what is shown, and the accessories    *)
(* the flags name; then the scan is saved and the entry is set up anew.    *)
RescanService ==
  /\ Tap
  /\ SetsUp(version, Probed(version, fitted,
       DefaultRegisters(version) \union Subscribed(version)
         \union AccessoryRegisters(version, fitted)))
  /\ UNCHANGED <<gateway, fitted>>

Fit ==
  /\ Tap
  /\ fitted' = ~fitted
  /\ UNCHANGED <<gateway, version, lastScan, entities, choice, moved>>

Shows(r) == r \in PresentAt(version, gateway) /\ EntityOf(r) # "none"

SwitchOff(r) ==
  /\ Tap /\ Shows(r) /\ EntityOf(r) = "on"
  /\ entities' = [entities EXCEPT ![r][PlatformFor(Meaning(r))] = "user"]
  /\ choice' = [choice EXCEPT ![r] = "off"] /\ moved' = moved \ {r}
  /\ UNCHANGED <<gateway, version, fitted, lastScan>>

SwitchOn(r) ==
  /\ Tap /\ Shows(r) /\ EntityOf(r) # "on"
  /\ entities' = [entities EXCEPT ![r][PlatformFor(Meaning(r))] = "on"]
  /\ choice' = [choice EXCEPT ![r] = "on"] /\ moved' = moved \ {r}
  /\ UNCHANGED <<gateway, version, fitted, lastScan>>

RegistryNext ==
  \/ RescanService \/ Fit
  \/ \E v \in DOMAIN Meanings : Restart(v)
  \/ \E r \in Numbers : SwitchOff(r) \/ SwitchOn(r)

RegistrySpec == RegistryInit /\ [][RegistryNext]_registryVars

----------------------------------------------------------------------------
RegistryTypeOK ==
  /\ version \in DOMAIN Meanings /\ taps \in 0 .. Tapped
  /\ lastScan.by \in DOMAIN Meanings /\ lastScan.reporting \subseteq Numbers
  /\ entities \in [Numbers -> [Platforms -> States]]
  /\ choice \in [Numbers -> {"none", "on", "off"}] /\ moved \subseteq Numbers

(* Through updates, rescans and restarts in any order each register the    *)
(* pump has keeps exactly one entity, and what is on by default is on      *)
(* unless the user said otherwise.  What the user switched off stays off,  *)
(* and what he switched on stays on, while the register keeps its          *)
(* platform: an update that moves it loses the choice, and what was        *)
(* switched off may come back on.                                          *)
ChoicesKept ==
  \A r \in PresentAt(version, gateway) :
    LET platform == PlatformFor(Meaning(r))
        state == entities[r][platform]
    IN
    /\ {p \in Platforms : entities[r][p] # "none"} = {platform}
    /\ r \notin moved => /\ state = "user" <=> choice[r] = "off"
                         /\ choice[r] = "on" => state = "on"
    /\ r \in moved => state # "user"
    /\ DefaultEnabled(r, version, gateway, lastScan) => state # "integration"
=============================================================================
