---------------------------- MODULE ComfortWrites ----------------------------
(***************************************************************************)
(* The thermostat (climate), the hot water heater (water_heater), its      *)
(* boost switch and the plain numbers, switches and selects beside them:   *)
(* service calls that take several writes, any of which may fail, to       *)
(* registers the entities share and the pump's own panel changes too.      *)
(*                                                                         *)
(* What a call writes follows from the data at its start, before its first *)
(* await.  One call runs at a time, and refreshes run beside it: each      *)
(* reads span by span and publishes what it read at its end.               *)
(* The presets are HeatingMode's.                                          *)
(***************************************************************************)
EXTENDS Integers, Sequences, FiniteSets

CONSTANTS
  Fits,        \* the pumps to look at: what each has of the features below
  Degrees,
  Others,      \* bound: the registers other entities and the panel change
  MaxTouches,  \* bound: changes made at the panel
  MaxOutdated  \* bound: registers refreshes under way read before they changed

ASSUME ComfortAssumption ==
  /\ Fits \subseteq SUBSET {"sensor", "cooling", "zone", "tank", "boost"}
  /\ Degrees # {} /\ MaxTouches \in Nat /\ MaxOutdated \in Nat

VARIABLES
  fit,       \* what this pump has: a sensor reads, cooling by room sensor,
             \* a zone setpoint, a hot water tank, a boost of it
  holds,     \* the pump's registers
  shows,     \* coordinator.data
  outdated,  \* what refreshes under way had read of registers changed since
  late,      \* a refresh has published such readings since the last call began
  call,      \* the service call under way
  meant,     \* the last call, done and undisturbed since
  touches    \* changes at the panel so far

comfortVars == <<fit, holds, shows, outdated, late, call, meant, touches>>

Off == 0
On == 1
Set == 2  \* the cooling's own setpoint, whose value nothing here depends on
Switches == {"room", "cooling", "boost"}
Setpoints == {"setpoint", "zone"}
HotModes == {"economy", "normal"}
ValuesOf(r) == CASE r \in Switches -> {Off, On} [] r \in Setpoints -> Degrees
                 [] r = "water" -> HotModes [] r = "cool setpoint" -> {Set}
Held == Switches \union Setpoints \union {"water", "cool setpoint"}

Has(feature) == feature \in fit
(* The registers this pump has. *)
Writable ==
  {r \in Held : CASE r \in {"cooling", "cool setpoint"} -> Has("cooling")
                  [] r = "zone" -> Has("zone") [] r = "water" -> Has("tank")
                  [] r = "boost" -> Has("boost")
                  [] OTHER -> TRUE}

NoCall == [asked |-> "none", target |-> Off, writes |-> <<>>, raises |-> FALSE,
           touched |-> FALSE]

ComfortInit ==
  /\ fit \in Fits
  /\ holds = [r \in Held |-> CHOOSE v \in ValuesOf(r) : TRUE]
  /\ shows = holds
  /\ outdated = <<>> /\ late = FALSE
  /\ call = NoCall
  /\ meant = NoCall
  /\ touches = 0

----------------------------------------------------------------------------
(* What the entities show *)

(* The mode that registers h stand for. *)
ModeIn(h) ==
  CASE h["room"] # On -> "auto"
    [] Has("cooling") /\ h["cooling"] # Off -> "heat_cool"
    [] OTHER -> "heat"
HvacMode == ModeIn(shows)

(* A mode the pump is in stays on the list whatever the sensor says. *)
HvacModes ==
  {"auto"} \union
  IF ~Has("sensor") /\ HvacMode = "auto" THEN {}
  ELSE {"heat"} \union (IF Has("cooling") THEN {"heat_cool"} ELSE {})

(* The register that has the tank heated now, and what is written to it.   *)
Boost == [register |-> "boost", on |-> On, off |-> Off]
BoostingIn(h) == Has("boost") /\ h[Boost.register] # Boost.off
Boosting == BoostingIn(shows)
OperationIn(h) == IF BoostingIn(h) THEN "boost" ELSE h["water"]

----------------------------------------------------------------------------
(* What a call writes *)

ModeWritesRoomFirst(mode) ==
  <<<<"room", IF mode = "auto" THEN Off ELSE On>>>> \o
  (IF Has("cooling") THEN <<<<"cooling", IF mode = "heat_cool" THEN On ELSE Off>>>> ELSE <<>>)

(* The cooling is set before the room sensor is used. *)
ModeWrites(mode) ==
  (IF Has("cooling") THEN <<<<"cooling", IF mode = "heat_cool" THEN On ELSE Off>>>> ELSE <<>>)
  \o <<<<"room", IF mode = "auto" THEN Off ELSE On>>>>

(* Without a reading of the room there is nothing to regulate on. *)
Refused(mode) == mode # "auto" /\ ~Has("sensor")

SetpointWrites(degrees) ==
  <<<<"setpoint", degrees>>>> \o (IF Has("zone") THEN <<<<"zone", degrees>>>> ELSE <<>>)

(* A call that goes by what is shown of some registers, of which the panel *)
(* or a write that failed may have left one stale, promises nothing then.  *)
Begins(asked, target, writes, raises, goesBy) ==
  /\ call = NoCall
  /\ call' = [asked |-> asked, target |-> target, writes |-> writes, raises |-> raises,
              touched |-> \E r \in goesBy : shows[r] # holds[r]]
  /\ meant' = NoCall /\ late' = FALSE
  /\ UNCHANGED <<fit, holds, shows, outdated, touches>>

SetHvacMode(mode) ==
  /\ mode \in HvacModes
  /\ Begins(mode, Off, IF Refused(mode) THEN <<>> ELSE ModeWrites(mode), Refused(mode), {})

(* A mode that comes with the temperature is written first; then a target  *)
(* the mode has no use for raises.                                         *)
SetTemperature(mode, degrees) ==
  LET writes == IF mode = "none" THEN <<>> ELSE ModeWrites(mode)
      meets == IF mode = "none" THEN HvacMode ELSE mode
  IN
  /\ mode \in HvacModes \union {"none"}
  /\ CASE Refused(mode) /\ mode # "none" -> Begins("none", Off, <<>>, TRUE, {})
       [] meets # "heat" -> Begins(mode, Off, writes, TRUE, {})
       [] OTHER -> Begins("heat", degrees, writes \o SetpointWrites(degrees), FALSE,
                         IF mode = "none" THEN {"room", "cooling"} ELSE {})

(* The two ends of a range, offered where the pump can cool; a mode that   *)
(* comes with them is written first, whichever it is.                      *)
SetRange(mode, low) ==
  LET ends == Append(SetpointWrites(low), <<"cool setpoint", Set>>) IN
  /\ Has("cooling") /\ mode \in HvacModes \union {"none"}
  /\ CASE mode = "none" -> Begins(HvacMode, low, ends, FALSE, {"room", "cooling"})
       [] Refused(mode) -> Begins("none", Off, <<>>, TRUE, {})
       [] OTHER -> Begins(mode, low, ModeWrites(mode) \o ends, FALSE, {})

OperationWritesOnly(operation) ==
  IF operation = "boost" THEN <<<<"boost", On>>>> ELSE <<<<"water", operation>>>>

(* A mode chosen while boosting is meant instead of the boost. *)
OperationWrites(operation) ==
  IF operation = "boost" THEN <<<<Boost.register, Boost.on>>>>
  ELSE (IF Boosting THEN <<<<Boost.register, Boost.off>>>> ELSE <<>>) \o <<<<"water", operation>>>>

SetOperationMode(operation) ==
  /\ Has("tank") /\ (operation = "boost" => Has("boost"))
  /\ Begins(operation, Off, OperationWrites(operation), FALSE, {"boost"})

(* A number, a switch, a select or a button: one write. *)
PlainWrite(r, v) ==
  /\ r \in Others /\ r \in Writable /\ v \in ValuesOf(r)
  /\ Begins("plain", Off, <<<<r, v>>>>, FALSE, {})

----------------------------------------------------------------------------
(* How a call goes on (coordinator.async_write: write, read back, publish) *)

(* Register r of the pump becomes v.  A refresh under way may have read it *)
(* before.  A reading the pump has come back to is not out of date.        *)
Changes(r, v) ==
  /\ holds' = [holds EXCEPT ![r] = v]
  /\ \E read \in SUBSET {r} :
       LET reading(q) == IF q \in DOMAIN outdated THEN outdated[q] ELSE holds[q]
           old == {q \in DOMAIN outdated \union read : reading(q) # holds'[q]}
       IN
       /\ Cardinality(old) <= MaxOutdated
       /\ outdated' = [q \in old |-> reading(q)]

Written ==
  LET r == Head(call.writes)[1]
      v == Head(call.writes)[2]
  IN
  /\ call.writes # <<>>
  /\ Changes(r, v)
  /\ shows' = [shows EXCEPT ![r] = v]
  /\ call' = [call EXCEPT !.writes = Tail(@)]
  /\ UNCHANGED <<fit, late, meant, touches>>

(* A write that is refused, or whose answer is lost when it may have been  *)
(* stored, ends the call.                                                  *)
WriteFails(stored) ==
  LET r == Head(call.writes)[1] IN
  /\ call.writes # <<>>
  /\ IF stored THEN Changes(r, Head(call.writes)[2]) ELSE UNCHANGED <<holds, outdated>>
  /\ call' = NoCall
  /\ UNCHANGED <<fit, shows, late, meant, touches>>

Ends ==
  /\ call # NoCall /\ call.writes = <<>>
  /\ meant' = IF call.raises \/ call.touched THEN NoCall ELSE call
  /\ call' = NoCall
  /\ UNCHANGED <<fit, holds, shows, outdated, late, touches>>

(* A refresh publishes what it read, of each register before or after it   *)
(* changed.  Another one may still be under way, having read the same.     *)
Polled ==
  /\ shows' = [r \in Held |-> IF r \in DOMAIN outdated THEN outdated[r] ELSE holds[r]]
  /\ late' = (shows' # holds)
  /\ outdated' \in {outdated, <<>>}
  /\ UNCHANGED <<fit, holds, call, meant, touches>>

(* Somebody turns a knob.  What a call under way meant is off then.        *)
Touched(r, v) ==
  /\ touches < MaxTouches
  /\ r \in Others /\ r \in Writable /\ v \in ValuesOf(r) \ {holds[r]}
  /\ touches' = touches + 1
  /\ Changes(r, v)
  /\ call' = IF call = NoCall THEN call ELSE [call EXCEPT !.touched = TRUE]
  /\ meant' = NoCall
  /\ UNCHANGED <<fit, shows, late>>

Modes == {"auto", "heat", "heat_cool"}

ComfortNext ==
  \/ Written \/ Ends \/ Polled
  \/ \E stored \in BOOLEAN : WriteFails(stored)
  \/ \E mode \in Modes : SetHvacMode(mode)
  \/ \E mode \in Modes \union {"none"}, degrees \in Degrees : SetTemperature(mode, degrees)
  \/ \E mode \in Modes \union {"none"}, low \in Degrees : SetRange(mode, low)
  \/ \E operation \in HotModes \union {"boost"} : SetOperationMode(operation)
  \/ \E r \in Held : \E v \in ValuesOf(r) : PlainWrite(r, v) \/ Touched(r, v)

ComfortSpec == ComfortInit /\ [][ComfortNext]_comfortVars

----------------------------------------------------------------------------
ComfortTypeOK ==
  /\ fit \in Fits /\ late \in BOOLEAN
  /\ \A r \in Held : {holds[r], shows[r]} \subseteq ValuesOf(r)
  /\ \A r \in DOMAIN outdated : r \in Held /\ outdated[r] \in ValuesOf(r)

(* Registers h are as the call asked that came to its end undisturbed: the *)
(* mode, the temperature in whichever of its two registers the pump reads  *)
(* it, the operation instead of a boost.                                   *)
MeantIn(h) ==
  CASE meant.asked \in Modes ->
         /\ ModeIn(h) = meant.asked
         /\ meant.target # Off =>
              \A r \in {"setpoint", "zone"} \intersect Writable : h[r] = meant.target
    [] meant.asked \in HotModes \union {"boost"} -> OperationIn(h) = meant.asked
    [] OTHER -> TRUE

(* A call that has come to its end undisturbed left the pump as it asked,  *)
(* and the entities show that, unless a refresh that had read some of it   *)
(* before has published since: then only until the next refresh.           *)
ShownIsMeant == MeantIn(holds) /\ (late \/ MeantIn(shows))

(* Wherever a call fails, the pump is not left, and is not for a moment,   *)
(* to cool by its room sensor unless that was asked: by the mode, by the   *)
(* plain switches or at the panel.                                         *)
CoolsOnlyWhenAsked ==
  [][LET cools(h) == Has("cooling") /\ h["room"] = On /\ h["cooling"] = On IN
     cools(holds') /\ ~cools(holds) =>
       \/ call.asked \in {"heat_cool", "plain"}
       \/ call.touched \/ touches' # touches]_comfortVars
=============================================================================
