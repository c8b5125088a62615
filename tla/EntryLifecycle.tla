--------------------------- MODULE EntryLifecycle ---------------------------
(***************************************************************************)
(* The life of the integration's entries (__init__): set-up that fails and *)
(* is retried, unload, reload, disabling and removal; what outlives an     *)
(* entry's set-up: the daily statistics reporter (stats) and the sidebar   *)
(* panel all entries share (frontend).                                     *)
(*                                                                         *)
(* Home Assistant works on one entry at a time (its set-up lock), on       *)
(* different entries side by side.  An action runs from one await to the   *)
(* next.                                                                   *)
(***************************************************************************)
EXTENDS Integers, FiniteSets

CONSTANTS
  Entries,
  Gateways,       \* those of them reached through a gateway
  Sharers,        \* bound: the entries whose users may send statistics
  MaxWishes       \* bound: what the users ask for

ASSUME EntriesAssumption ==
  Gateways \subseteq Entries /\ Sharers \subseteq Entries /\ MaxWishes \in Nat

VARIABLES
  life,        \* what Home Assistant says of the entry
  asked,       \* what the user wants of it
  wishes,      \* what the users have asked for so far
  step,        \* how far a set-up or an unload has come
  scan,        \* the stored scan: none, stale or fresh
  clients,     \* the entry's open connections: its own, ones nobody holds, and
               \* one whose platforms would not load or unload
  sharing,     \* stats_enabled
  reporter,    \* the reporters of each entry: two at most are about
  kept,        \* hass.data: the reporter of each entry, 0 for none
  registered,  \* hass.data: the panel's registration has begun
  panel        \* the panel is in the sidebar

homeVars == <<life, asked, step, wishes>>
linkVars == <<scan, clients>>
statsVars == <<sharing, reporter, kept>>
pageVars == <<registered, panel>>
entryVars == <<homeVars, linkVars, statsVars, pageVars>>

Slots == {1, 2}
(* armed: the list of timers is not empty; a timer that has fired stays in *)
(* it.                                                                     *)
NoReporter == [timer |-> "none", wire |-> "none", armed |-> FALSE, stopped |-> FALSE]
Live(e, i) == reporter[e][i].timer # "none"

EntriesInit ==
  /\ life = [e \in Entries |-> "not_loaded"]
  /\ asked = [e \in Entries |-> "run"]
  /\ step = [e \in Entries |-> "none"]
  /\ wishes = 0
  /\ scan \in [Entries -> {"none", "stale"}]
  /\ clients = [e \in Entries |-> {}]
  /\ sharing = [e \in Entries |-> e \in Sharers]
  /\ reporter = [e \in Entries |-> [i \in Slots |-> NoReporter]]
  /\ kept = [e \in Entries |-> 0]
  /\ registered = FALSE
  /\ panel = FALSE

Goes(e, to, at) == life' = [life EXCEPT ![e] = to] /\ step' = [step EXCEPT ![e] = at]

----------------------------------------------------------------------------
(* The reporter (stats) *)

(* A reporter with nothing on the wire is forgotten once stopped.          *)
Stopped(r) == IF r.wire = "none" THEN NoReporter
              ELSE [r EXCEPT !.timer = "none", !.armed = FALSE, !.stopped = TRUE]

(* async_setup_stats, before anything that may fail: an armed reporter is  *)
(* kept, in place of any other a new one is started, unless the user has   *)
(* switched reporting off.  It goes to the first slot without one.         *)
ArmStatistics(e) ==
  IF kept[e] # 0 /\ reporter[e][kept[e]].armed
    THEN UNCHANGED <<reporter, kept>>
    ELSE \E i \in Slots :
           /\ i # kept[e] /\ reporter[e][i].wire = "none"
           /\ \A j \in 1 .. i - 1 : j = kept[e] \/ reporter[e][j].wire # "none"
           /\ kept' = [kept EXCEPT ![e] = i]
           /\ reporter' = [reporter EXCEPT ![e][i] =
                IF sharing[e] THEN [NoReporter EXCEPT !.timer = "first", !.armed = TRUE]
                              ELSE NoReporter]

StopStatistics(e) ==
  /\ kept' = [kept EXCEPT ![e] = 0]
  /\ reporter' = [reporter EXCEPT ![e] =
       [i \in Slots |-> IF i = kept[e] THEN Stopped(@[i]) ELSE @[i]]]

Gone(e) == life[e] = "removed" \/ asked[e] = "disabled"

Retire(e, i) ==
  /\ kept' = [kept EXCEPT ![e] = IF @ = i THEN 0 ELSE @]
  /\ reporter' = [reporter EXCEPT ![e][i] = Stopped([@ EXCEPT !.wire = "none"])]

(* After the first report the daily timer, unless the reporter has been    *)
(* stopped while the report was on the wire, or its entry is gone.         *)
GoesOnThoughStopped(e, i) ==
  IF Gone(e) /\ ~reporter[e][i].stopped
    THEN Retire(e, i)
    ELSE /\ reporter' = [reporter EXCEPT ![e][i] = [@ EXCEPT !.timer = "daily", !.wire = "none"]]
         /\ UNCHANGED kept

GoesOn(e, i) ==
  IF Gone(e) /\ ~reporter[e][i].stopped
    THEN Retire(e, i)
    ELSE /\ reporter' = [reporter EXCEPT ![e][i] =
              IF @.stopped THEN NoReporter ELSE [@ EXCEPT !.timer = "daily", !.wire = "none"]]
         /\ UNCHANGED kept

FiresWhoeverIsGone(e, i) ==
  LET timer == reporter[e][i].timer IN
  /\ Live(e, i) /\ reporter[e][i].wire = "none"
  /\ IF sharing[e]
       THEN /\ reporter' = [reporter EXCEPT
                 ![e][i] = [@ EXCEPT !.wire = timer,
                                     !.timer = IF timer = "first" THEN "none" ELSE timer]]
            /\ UNCHANGED kept
       ELSE IF timer = "first" THEN GoesOn(e, i) ELSE UNCHANGED <<reporter, kept>>
  /\ UNCHANGED <<homeVars, linkVars, sharing, pageVars>>

(* A timer fires (async_report): a reporter whose entry is gone retires,   *)
(* one that is switched off sends nothing.                                 *)
Fires(e, i) ==
  LET timer == reporter[e][i].timer IN
  /\ Live(e, i) /\ reporter[e][i].wire = "none"
  /\ CASE Gone(e) -> Retire(e, i)
       [] ~Gone(e) /\ sharing[e] ->
            /\ reporter' = [reporter EXCEPT
                 ![e][i] = [@ EXCEPT !.wire = timer,
                                     !.timer = IF timer = "first" THEN "none" ELSE timer]]
            /\ UNCHANGED kept
       [] OTHER -> IF timer = "first" THEN GoesOn(e, i)
                                      ELSE UNCHANGED <<reporter, kept>>
  /\ UNCHANGED <<homeVars, linkVars, sharing, pageVars>>

(* The report has arrived or failed, which is all the same.                *)
ReportEnds(e, i) ==
  /\ CASE reporter[e][i].wire = "first" -> GoesOn(e, i)
       [] reporter[e][i].wire = "daily" ->
            /\ reporter' = [reporter EXCEPT ![e][i] =
                 IF @.stopped THEN NoReporter ELSE [@ EXCEPT !.wire = "none"]]
            /\ UNCHANGED kept
       [] OTHER -> FALSE
  /\ UNCHANGED <<homeVars, linkVars, sharing, pageVars>>

----------------------------------------------------------------------------
(* Set-up (async_setup_entry, _async_setup_gateway_entry) *)

SetUp(e) ==
  /\ \/ life[e] = "not_loaded" /\ asked[e] \in {"run", "reload"}
     \/ life[e] = "retry" /\ asked[e] = "run"
  /\ ArmStatistics(e)
  /\ Goes(e, "setting_up", "connect")
  /\ asked' = [asked EXCEPT ![e] = "run"]
  /\ UNCHANGED <<wishes, linkVars, sharing, pageVars>>

(* A connection of an earlier attempt that is still open has no holder.    *)
Opened(open) == open \union {"own"} \union (IF "own" \in open THEN {"lost"} ELSE {})
Closed(open) == open \ {"own"}

(* Nothing closes the connection of an entry whose platforms would not     *)
(* load or unload any more, not even the entry's removal.                  *)
Stuck(open) == IF "own" \in open THEN Closed(open) \union {"stuck"} ELSE open

Connect(e, answers) ==
  /\ step[e] = "connect"
  /\ IF answers
       THEN /\ Goes(e, "setting_up", IF scan[e] = "fresh" THEN "refresh" ELSE "scan")
            /\ clients' = [clients EXCEPT ![e] = Opened(@)]
       ELSE Goes(e, "retry", "none") /\ UNCHANGED clients
  /\ UNCHANGED <<asked, wishes, scan, statsVars, pageVars>>

ScansKeepingOpen(e, outcome) ==
  /\ step[e] = "scan"
  /\ scan' = IF outcome = "done" THEN [scan EXCEPT ![e] = "fresh"] ELSE scan
  /\ IF outcome = "done" \/ scan[e] # "none"
       THEN Goes(e, "setting_up", "refresh") ELSE Goes(e, "error", "none")
  /\ UNCHANGED <<asked, wishes, clients, statsVars, pageVars>>

(* A pump that goes quiet costs the scan; one stored before stands in.     *)
(* Without one the set-up fails: a Modbus entry tries again, a gateway's   *)
(* error is none Home Assistant retries.  An exception nobody expects      *)
(* leaves a Modbus client open.                                            *)
Scans(e, outcome) ==
  LET without == outcome = "quiet" /\ scan[e] = "none" IN
  /\ step[e] = "scan"
  /\ scan' = IF outcome = "done" THEN [scan EXCEPT ![e] = "fresh"] ELSE scan
  /\ IF without \/ outcome = "raises"
       THEN /\ Goes(e, IF without /\ e \notin Gateways THEN "retry" ELSE "error", "none")
            /\ clients' = IF without \/ e \in Gateways THEN [clients EXCEPT ![e] = Closed(@)]
                          ELSE clients
       ELSE Goes(e, "setting_up", "refresh") /\ UNCHANGED clients
  /\ UNCHANGED <<asked, wishes, statsVars, pageVars>>

(* The first refresh of a Modbus entry may fail; its client stays open.    *)
Refresh(e, answers) ==
  /\ step[e] = "refresh" /\ e \notin Gateways
  /\ IF answers THEN Goes(e, "setting_up", "page") ELSE Goes(e, "retry", "none")
  /\ UNCHANGED <<asked, wishes, linkVars, statsVars, pageVars>>

(* A gateway's finds nothing to read yet.  Its counters and its heating    *)
(* mode are loaded; whatever raises on the way closes the client.          *)
GatewayReady(e, raises) ==
  /\ step[e] = "refresh" /\ e \in Gateways
  /\ IF raises
       THEN Goes(e, "error", "none") /\ clients' = [clients EXCEPT ![e] = Closed(@)]
       ELSE Goes(e, "setting_up", "page") /\ UNCHANGED clients
  /\ UNCHANGED <<asked, wishes, scan, statsVars, pageVars>>

(* The platforms are up.  The first entry registers the panel, any other   *)
(* finds that done or under way.                                           *)
RegisterFrontend(e) ==
  /\ step[e] = "page"
  /\ IF registered THEN Goes(e, "loaded", "none") ELSE Goes(e, "setting_up", "register")
  /\ registered' = TRUE
  /\ UNCHANGED <<asked, wishes, linkVars, statsVars, panel>>

(* A platform would not load: past what closes the client on an error.     *)
PageRaises(e) ==
  /\ step[e] = "page"
  /\ Goes(e, "error", "none")
  /\ clients' = [clients EXCEPT ![e] = Stuck(@)]
  /\ UNCHANGED <<asked, wishes, scan, statsVars, pageVars>>

PanelAdded(e) ==
  /\ step[e] = "register"
  /\ panel' = TRUE
  /\ Goes(e, "loaded", "none")
  /\ UNCHANGED <<asked, wishes, linkVars, statsVars, registered>>

----------------------------------------------------------------------------
(* Unload and removal *)

Unload(e) ==
  /\ life[e] = "loaded" /\ asked[e] # "run"
  /\ Goes(e, "unloading", "platforms")
  /\ asked' = [asked EXCEPT ![e] = IF @ = "reload" THEN "run" ELSE @]
  /\ UNCHANGED <<wishes, linkVars, statsVars, pageVars>>

PlatformsUnloaded(e, done) ==
  /\ step[e] = "platforms"
  /\ IF done
       THEN StopStatistics(e) /\ Goes(e, "unloading", "close") /\ UNCHANGED clients
       ELSE /\ Goes(e, "failed_unload", "none") /\ UNCHANGED <<reporter, kept>>
            /\ clients' = [clients EXCEPT ![e] = Stuck(@)]
  /\ UNCHANGED <<asked, wishes, scan, sharing, pageVars>>

CloseAlone(e) ==
  /\ step[e] = "close"
  /\ clients' = [clients EXCEPT ![e] = Closed(@)]
  /\ registered' = FALSE /\ panel' = (panel /\ ~registered)
  /\ Goes(e, "not_loaded", "none")
  /\ UNCHANGED <<asked, wishes, scan, statsVars>>

(* The connection, and the panel with the last loaded entry.               *)
Close(e) ==
  /\ step[e] = "close"
  /\ clients' = [clients EXCEPT ![e] = Closed(@)]
  /\ IF \E other \in Entries \ {e} : life[other] = "loaded"
       THEN UNCHANGED pageVars
       ELSE registered' = FALSE /\ panel' = (panel /\ ~registered)
  /\ Goes(e, "not_loaded", "none")
  /\ UNCHANGED <<asked, wishes, scan, statsVars>>

(* An entry that is not loaded is let go without a call of ours.           *)
Drop(e) ==
  /\ life[e] \in {"retry", "error"} /\ asked[e] # "run"
  /\ Goes(e, "not_loaded", "none")
  /\ asked' = [asked EXCEPT ![e] = IF @ = "reload" THEN "run" ELSE @]
  /\ UNCHANGED <<wishes, linkVars, statsVars, pageVars>>

RemoveEntry(e) ==
  /\ life[e] \in {"not_loaded", "failed_unload"} /\ asked[e] = "removed"
  /\ StopStatistics(e)
  /\ scan' = [scan EXCEPT ![e] = "none"]
  /\ Goes(e, "removed", "none")
  /\ UNCHANGED <<asked, wishes, clients, sharing, pageVars>>

----------------------------------------------------------------------------
(* The user.  What he asks waits for the set-up lock, but for the mark of  *)
(* a disabled entry; to enable it again is to reload it.  Changed options  *)
(* reload a loaded entry.                                                  *)

Wish == wishes < MaxWishes /\ wishes' = wishes + 1

Asks(e, wish) ==
  /\ life[e] # "removed"
  /\ \/ asked[e] = "run" /\ wish \in {"disabled", "removed"}
     \/ asked[e] = "run" /\ wish = "reload" /\ life[e] \in {"loaded", "retry", "error"}
     \/ asked[e] = "disabled" /\ wish = "reload"
  /\ asked' = [asked EXCEPT ![e] = wish]
  /\ Wish
  /\ UNCHANGED <<life, step, linkVars, statsVars, pageVars>>

SwitchSharing(e) ==
  /\ e \in Sharers /\ Wish
  /\ life[e] \in {"loaded", "retry"} /\ asked[e] = "run"
  /\ sharing' = [sharing EXCEPT ![e] = ~@]
  /\ asked' = IF life[e] = "loaded" THEN [asked EXCEPT ![e] = "reload"] ELSE asked
  /\ UNCHANGED <<life, step, linkVars, reporter, kept, pageVars>>

EntryStep(e) ==
  \/ SetUp(e) \/ RegisterFrontend(e) \/ PageRaises(e) \/ PanelAdded(e)
  \/ Unload(e) \/ Close(e) \/ Drop(e) \/ RemoveEntry(e)
  \/ \E b \in BOOLEAN : Connect(e, b) \/ Refresh(e, b) \/ GatewayReady(e, b)
                          \/ PlatformsUnloaded(e, b)
  \/ \E outcome \in {"done", "quiet", "raises"} : Scans(e, outcome)

ReporterStep(e, i) == Fires(e, i) \/ ReportEnds(e, i)

EntriesNext ==
  \E e \in Entries :
    \/ EntryStep(e) \/ SwitchSharing(e)
    \/ \E i \in Slots : ReporterStep(e, i)
    \/ \E wish \in {"reload", "disabled", "removed"} : Asks(e, wish)

EntriesSpec == EntriesInit /\ [][EntriesNext]_entryVars
EntriesFairSpec ==
  /\ EntriesSpec
  /\ \A e \in Entries, i \in Slots : WF_entryVars(ReporterStep(e, i))

----------------------------------------------------------------------------
EntriesTypeOK ==
  /\ \A e \in Entries :
       /\ life[e] \in {"not_loaded", "setting_up", "retry", "error", "loaded", "unloading",
                       "failed_unload", "removed"}
       /\ step[e] # "none" <=> life[e] \in {"setting_up", "unloading"}
       /\ clients[e] \subseteq {"own", "lost", "stuck"} /\ kept[e] \in {0} \union Slots

(* However often an attempt to set an entry up fails and is retried, with  *)
(* reports on the wire meanwhile, it keeps one reporter and no timer of    *)
(* another runs, so reports go out while the pump is away, and once a day. *)
OneReporter ==
  \A e \in Entries :
    /\ \A i \in Slots : Live(e, i) => kept[e] = i
    /\ life[e] \in {"setting_up", "retry", "loaded"} /\ asked[e] = "run" =>
         /\ kept[e] # 0
         /\ reporter[e][kept[e]].armed =>
              Live(e, kept[e]) \/ reporter[e][kept[e]].wire # "none"

(* A disabled entry goes quiet, though Home Assistant lets one whose       *)
(* set-up is being retried go without telling the integration.             *)
GoneGoesQuiet ==
  \A e \in Entries, i \in Slots : []<>(Gone(e) => ~Live(e, i))

(* The panel is there while an entry is loaded, whichever entries are      *)
(* being set up or unloaded meanwhile.                                     *)
PanelShown ==
  (\E e \in Entries : life[e] = "loaded") /\ (\A e \in Entries : step[e] # "register") => panel

(* Whatever raises while a gateway's entry is set up, and however often    *)
(* that is tried again, no client loses its holder, and none is open       *)
(* outside a set-up, an unload and the time between them.  The exception   *)
(* the code makes is part of the claim: a client is left open where the    *)
(* platforms raised or refused, and then whatever becomes of the entry.    *)
NoGatewayLeft ==
  \A e \in Gateways :
    /\ "lost" \notin clients[e]
    /\ life[e] \notin {"setting_up", "loaded", "unloading"} => clients[e] \subseteq {"stuck"}
=============================================================================
