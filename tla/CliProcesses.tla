---------------------------- MODULE CliProcesses ----------------------------
(***************************************************************************)
(* All the `ph0b0s` processes that share one database file: the scans of    *)
(* ScanPipeline, `report show` processes, which re-read a run with the same *)
(* two-statement load_run while scans write, and `triage suppress`, which   *)
(* writes the suppressions table.                                           *)
(***************************************************************************)
EXTENDS ScanPipeline

CONSTANTS
    Viewer,       \* the `report show` processes, each one invocation
    Triaged       \* fingerprints somebody may pass to `triage suppress`

ASSUME CliConstants == Viewer \cap Run = {} /\ Triaged \subseteq Fingerprint

VARIABLES
    stage,        \* stage[v]: the call the viewer makes next
    target,       \* the run id it asked for or resolved
    shown,        \* the ScanResult it loaded
    suppressions, \* fingerprints in the suppressions table
    inForce       \* history: those in it when the scan opened the database

viewer  == <<stage, target, shown>>
triage  == <<suppressions, inForce>>
cliVars == <<vars, viewer, triage>>

ViewerStage == {"idle", "loadRun", "loadFindings", "shown", "failed"}

\* Every variable has a value of its type.
CliTypeOK ==
    /\ TypeOK
    /\ stage \in [Viewer -> ViewerStage]
    /\ target \in [Viewer -> Run \cup {NoRun}]
    /\ shown \in [Viewer -> View]
    /\ suppressions \in SUBSET Triaged
    /\ inForce \in [Run -> SUBSET Triaged]

CliInit ==
    /\ Init
    /\ stage = [v \in Viewer |-> "idle"]
    /\ target = [v \in Viewer |-> NoRun]
    /\ shown = [v \in Viewer |-> EmptyView]
    /\ suppressions = {}
    /\ inForce = [r \in Run |-> {}]

-----------------------------------------------------------------------------
(* report show                                                             *)

Ask(v, r, next) ==
    /\ stage[v] = "idle"
    /\ target' = [target EXCEPT ![v] = r]
    /\ stage' = [stage EXCEPT ![v] = next]
    /\ UNCHANGED <<vars, shown, triage>>

\* `report show <run_id>`: any id the user typed.
AskForRun(v) == \E r \in Run : Ask(v, r, "loadRun")

\* `report show`: the run that started last, finished or not.
AskForLatest(v) ==
    \/ \E r \in Run : IsLatest(r) /\ Ask(v, r, "loadRun")
    \/ Begun = {} /\ Ask(v, NoRun, "failed")

\* load_run, first statement: NotFound when there is no such row.
ShowLoadRun(v) ==
    /\ stage[v] = "loadRun"
    /\ IF target[v] \in Begun
       THEN /\ stage' = [stage EXCEPT ![v] = "loadFindings"]
            /\ shown' = [shown EXCEPT ![v].stats = RunRow(target[v])]
       ELSE /\ stage' = [stage EXCEPT ![v] = "failed"]
            /\ UNCHANGED shown
    /\ UNCHANGED <<vars, target, triage>>

\* load_run, second statement; nothing is overlaid on what it returns.
ShowLoadFindings(v) ==
    /\ stage[v] = "loadFindings"
    /\ stage' = [stage EXCEPT ![v] = "shown"]
    /\ shown' = [shown EXCEPT
                    ![v].findings = FindingRows(target[v]),
                    ![v].hints = rowHints \cap FindingRows(target[v]),
                    ![v].errors = LoadedErrors]
    /\ UNCHANGED <<vars, target, triage>>

ReportShow(v) ==
    AskForRun(v) \/ AskForLatest(v) \/ ShowLoadRun(v) \/ ShowLoadFindings(v)

-----------------------------------------------------------------------------
(* triage suppress, and the scans                                          *)

\* INSERT ... ON CONFLICT(fingerprint) DO UPDATE.
TriageSuppress(p) ==
    /\ suppressions' = suppressions \cup {p}
    /\ UNCHANGED <<vars, viewer, inForce>>

CliOpen(r) ==
    /\ Open(r)
    /\ inForce' = [inForce EXCEPT ![r] = suppressions]
    /\ UNCHANGED <<viewer, suppressions>>

CliScan(r) == (Step(r) \/ Die(r)) /\ UNCHANGED <<viewer, triage>>

CliNext ==
    \/ \E r \in Run : CliOpen(r) \/ CliScan(r)
    \/ \E v \in Viewer : ReportShow(v)
    \/ \E p \in Triaged : TriageSuppress(p)

CliSpec == CliInit /\ [][CliNext]_cliVars

-----------------------------------------------------------------------------
(* Properties                                                              *)

\* The two statements of load_run are not a transaction, yet a viewer that
\* read the stats of a finished run also gets that run's rows, all of them
\* and as the stats count them, whatever the scans do in between.
ShownStatsDescribeShownFindings ==
    \A v \in Viewer : stage[v] = "shown" /\ shown[v].stats # DefaultStats =>
        /\ shown[v].findings = local[target[v]]
        /\ shown[v].stats.total = Cardinality(shown[v].findings)

-----------------------------------------------------------------------------
(* A claim of the code's own comments, which it does not keep              *)

\* scan.rs: the suppression filter consumes config rules and DB suppressions.
DbSuppressionsAreConsumed ==
    \A r \in Run : pc[r] = "done" =>
        \A f \in view[r].findings :
            fingerprint[f] \in inForce[r] => f \in view[r].hints
=============================================================================
