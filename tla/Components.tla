----------------------------- MODULE Components -----------------------------
(***************************************************************************)
(* The components that are looked at one at a time, side by side: a        *)
(* behaviour is one of the component that `part` names, with the others in *)
(* one of their initial states.                                            *)
(***************************************************************************)
EXTENDS Discovery, EnergyCounter, CopHistory, EntryLifecycle, ConfigFlow,
        ComfortWrites, EntityRegistry, DailyReports

VARIABLE part

Parts == {"scan", "energy", "history", "entries", "flow", "comfort", "tables",
          "registry", "reports"}

vars == <<part, scanVars, energyVars, historyVars, entryVars, flowVars, comfortVars,
          tableVars, registryVars, reportVars>>

(* Of a component that rests, one of the states it may start in will do.   *)
Init ==
  /\ part \in Parts
  /\ ScanInit /\ (part = "scan" \/ unit = {})
  /\ EnergyInit
  /\ HistoryInit
  /\ EntriesInit /\ (part = "entries" \/ scan = [e \in Entries |-> "none"])
  /\ FlowInit /\ (part = "flow" \/ address = CHOOSE a \in Leases : TRUE)
  /\ ComfortInit /\ (part = "comfort" \/ fit = CHOOSE f \in Fits : TRUE)
  /\ IF part = "tables" THEN TablesInit
     ELSE variants = <<>> /\ labels = NoTable /\ titled = <<>>
  /\ ReportsInit
  /\ RegistryInit /\ (part = "registry" \/ ~(gateway \/ fitted))

(* One component runs, the others rest. *)
Rests(p, own) == part # p => UNCHANGED own

Next ==
  /\ UNCHANGED <<part, tableVars>>
  /\ Rests("scan", scanVars) /\ Rests("energy", energyVars) /\ Rests("history", historyVars)
  /\ Rests("entries", entryVars) /\ Rests("flow", flowVars) /\ Rests("comfort", comfortVars)
  /\ Rests("registry", registryVars) /\ Rests("reports", reportVars)
  /\ \/ part = "scan" /\ ScanNext
     \/ part = "energy" /\ EnergyNext
     \/ part = "history" /\ HistoryNext
     \/ part = "entries" /\ EntriesNext
     \/ part = "flow" /\ FlowNext
     \/ part = "comfort" /\ ComfortNext
     \/ part = "registry" /\ RegistryNext
     \/ part = "reports" /\ ReportsNext

(* The fairness of the scan and of the reporters.                          *)
Spec ==
  /\ Init /\ [][Next]_vars
  /\ WF_scanVars(part = "scan" /\ ScanNext)
  /\ \A e \in Entries, i \in Slots : WF_entryVars(part = "entries" /\ ReporterStep(e, i))

TypeOK ==
  /\ ScanTypeOK /\ EnergyTypeOK /\ HistoryTypeOK /\ EntriesTypeOK /\ FlowTypeOK
  /\ ComfortTypeOK /\ TablesTypeOK /\ RegistryTypeOK /\ ReportsTypeOK

(* The liveness of a component is that of the behaviours it runs in.       *)

(* ScanEnds of the register scan: retries and splits come to an end.       *)
ScanIsOver == part = "scan" => ScanEnds

(* GoneGoesQuiet of the entries: a disabled entry's reporter falls silent. *)
DisabledFallsSilent == part = "entries" => GoneGoesQuiet
=============================================================================
