---------------------------- MODULE ScanPipeline ----------------------------
(***************************************************************************)
(* The scan orchestrator (crate ph0b0s-cli, scan::run): any number of       *)
(* `ph0b0s scan` processes, each one run, sharing one database file.  A     *)
(* process is sequential; between two awaits it keeps what the detectors    *)
(* returned in memory, and other processes run.  It can stop anywhere: an   *)
(* awaited call returns an error that `?` propagates, or the process is     *)
(* killed.  Nothing undoes what it wrote before that.                       *)
(***************************************************************************)
EXTENDS FindingStore

CONSTANTS
    RuleId,
    ruleId,         \* ruleId[f]
    DetectorCount,  \* DetectorCount[r]: detectors DetectorRegistry::resolve returns
    Strict,         \* the runs with --strict or scan.strict = true
    Suppress        \* Suppress[r]: the [[suppress]] rules of the run's config

SuppressRule == [rule_id : RuleId, expired : BOOLEAN]

ASSUME ScanConstants ==
    /\ ruleId \in [Finding -> RuleId]
    /\ DetectorCount \in [Run -> Nat]
    /\ Strict \subseteq Run
    /\ Suppress \in [Run -> SUBSET SuppressRule]

VARIABLES
    pc,        \* pc[r]: the call the process makes next
    ran,       \* detectors that have returned
    errors,    \* indices of the detectors that failed (the Vec in memory)
    local,     \* findings the detectors returned (all_findings)
    hinted,    \* those of local that carry a SuppressionHint
    deduped,   \* the row count dedup returned
    view       \* the ScanResult the process loaded and reports

scan == <<pc, ran, errors, local, hinted, deduped, view>>
vars == <<store, scan>>

Stage == {"idle", "cleanup", "begin", "prepare", "detect", "record", "dedup",
          "finish", "loadRun", "loadFindings", "report", "done", "dead"}
Stopped == {"idle", "done", "dead"}

EmptyView == [stats |-> DefaultStats, findings |-> {}, hints |-> {}, errors |-> {}]
View == [stats : Stats, findings : SUBSET Finding, hints : SUBSET Finding,
         errors : SUBSET Nat]

\* Every variable has a value of its type.
TypeOK ==
    /\ StoreTypeOK
    /\ pc \in [Run -> Stage]
    /\ ran \in [Run -> Nat]
    /\ errors \in [Run -> SUBSET Nat]
    /\ local \in [Run -> SUBSET Finding]
    /\ hinted \in [Run -> SUBSET Finding]
    /\ deduped \in [Run -> Nat]
    /\ view \in [Run -> View]

Init ==
    /\ StoreInit
    /\ pc = [r \in Run |-> "idle"]
    /\ ran = [r \in Run |-> 0]
    /\ errors = [r \in Run |-> {}]
    /\ local = [r \in Run |-> {}]
    /\ hinted = [r \in Run |-> {}]
    /\ deduped = [r \in Run |-> 0]
    /\ view = [r \in Run |-> EmptyView]

At(r, stage)   == pc[r] = stage
Goto(r, stage) == pc' = [pc EXCEPT ![r] = stage]

-----------------------------------------------------------------------------
(* The steps of scan::run                                                  *)

\* Mount the MCP servers, create the database directory, open and migrate.
Open(r) ==
    /\ At(r, "idle") /\ Goto(r, "cleanup")
    /\ UNCHANGED <<store, ran, errors, local, hinted, deduped, view>>

Cleanup(r) ==
    /\ At(r, "cleanup") /\ Goto(r, "begin")
    /\ CleanupOrphanRuns
    /\ UNCHANGED <<ran, errors, local, hinted, deduped, view>>

Begin(r) ==
    /\ At(r, "begin") /\ Goto(r, "prepare")
    /\ BeginRun(r)
    /\ UNCHANGED <<ran, errors, local, hinted, deduped, view>>

Prepare(r) ==
    /\ At(r, "prepare") /\ Goto(r, "detect")
    /\ UNCHANGED <<store, ran, errors, local, hinted, deduped, view>>

\* Mutant: an id may be minted twice.
NothingMinted == {}

\* Detectors mint a new ULID for every finding.
Minted == UNION {local[q] : q \in Run}

DetectorReturns(r) ==
    /\ At(r, "detect") /\ ran[r] < DetectorCount[r]
    /\ ran' = [ran EXCEPT ![r] = @ + 1]

DetectorOk(r) ==
    /\ DetectorReturns(r)
    /\ \E found \in SUBSET (Finding \ Minted) :
          local' = [local EXCEPT ![r] = @ \cup found]
    /\ UNCHANGED <<store, pc, errors, hinted, deduped, view>>

\* Mutant: the strict bail is lost.
LenientDetectorErr(r) ==
    /\ DetectorReturns(r)
    /\ errors' = [errors EXCEPT ![r] = @ \cup {ran[r] + 1}]
    /\ UNCHANGED <<store, pc, local, hinted, deduped, view>>

\* In a strict run the first failure is the end of the process.
DetectorErr(r) ==
    /\ DetectorReturns(r)
    /\ errors' = [errors EXCEPT ![r] = @ \cup {ran[r] + 1}]
    /\ IF r \in Strict THEN Goto(r, "dead") ELSE UNCHANGED pc
    /\ UNCHANGED <<store, local, hinted, deduped, view>>

\* Mutant: a run with failed detectors waits for them.
WaitForFailedDetectors(r) ==
    /\ At(r, "detect") /\ ran[r] = DetectorCount[r] /\ errors[r] = {}
    /\ Goto(r, "record")
    /\ UNCHANGED <<store, ran, errors, local, hinted, deduped, view>>

DetectorsDone(r) ==
    /\ At(r, "detect") /\ ran[r] = DetectorCount[r] /\ Goto(r, "record")
    /\ UNCHANGED <<store, ran, errors, local, hinted, deduped, view>>

\* The Vec's order is the detectors' choice: here, any order.
Record(r) ==
    /\ At(r, "record")
    /\ \E f \in local[r] \ Rows(r) : RecordRow(r, f, f \in hinted[r])
    /\ UNCHANGED scan

\* Mutants: the record loop may end early; dedup is skipped.
RecordsCutShort(r) ==
    /\ At(r, "record") /\ Goto(r, "dedup")
    /\ UNCHANGED <<store, ran, errors, local, hinted, deduped, view>>

DedupSkipped(r) ==
    /\ At(r, "record") /\ local[r] \subseteq Rows(r) /\ Goto(r, "finish")
    /\ UNCHANGED <<store, ran, errors, local, hinted, deduped, view>>

RecordsDone(r) ==
    /\ At(r, "record") /\ local[r] \subseteq Rows(r) /\ Goto(r, "dedup")
    /\ UNCHANGED <<store, ran, errors, local, hinted, deduped, view>>

\* apply_config_suppressions: an expired rule tags nothing.
ConfigTags(r) ==
    {f \in local[r] : [rule_id |-> ruleId[f], expired |-> FALSE] \in Suppress[r]}

\* The dedup statement, and the in-memory tagging that follows its answer.
Dedup(r) ==
    /\ At(r, "dedup") /\ Goto(r, "finish")
    /\ DedupRows(r)
    /\ deduped' = [deduped EXCEPT ![r] = Cardinality(Losers(LiveRows(r)))]
    /\ hinted' = [hinted EXCEPT ![r] = @ \cup ConfigTags(r)]
    /\ UNCHANGED <<ran, errors, local, view>>

\* compute_stats counts the in-memory findings, not the rows.
ComputedStats(r) ==
    [total      |-> Cardinality(local[r]),
     suppressed |-> Cardinality(hinted[r]),
     deduped    |-> deduped[r]]

Finish(r) ==
    /\ At(r, "finish") /\ Goto(r, "loadRun")
    /\ FinishRun(r, ComputedStats(r))
    /\ UNCHANGED <<ran, errors, local, hinted, deduped, view>>

LoadRun(r) ==
    /\ At(r, "loadRun") /\ Goto(r, "loadFindings")
    /\ view' = [view EXCEPT ![r] = [EmptyView EXCEPT !.stats = RunRow(r)]]
    /\ UNCHANGED <<store, ran, errors, local, hinted, deduped>>

\* Mutant: the loaded findings keep the hints of their rows.
HintsNotOverlaid(r) == rowHints \cap FindingRows(r)

\* overlay_suppressions: the hints of a local finding replace those of its row.
OverlaidHints(r) == (rowHints \cap (FindingRows(r) \ local[r]))
                      \cup (hinted[r] \cap FindingRows(r))

LoadFindings(r) ==
    /\ At(r, "loadFindings") /\ Goto(r, "report")
    /\ view' = [view EXCEPT ![r] = [stats    |-> @.stats,
                                    findings |-> FindingRows(r),
                                    hints    |-> OverlaidHints(r),
                                    errors   |-> errors[r]]]
    /\ UNCHANGED <<store, ran, errors, local, hinted, deduped>>

Report(r) ==
    /\ At(r, "report") /\ Goto(r, "done")
    /\ UNCHANGED <<store, ran, errors, local, hinted, deduped, view>>

\* An awaited call fails and `?` ends the process, or the process is killed.
Die(r) ==
    /\ pc[r] \notin Stopped /\ Goto(r, "dead")
    /\ UNCHANGED <<store, ran, errors, local, hinted, deduped, view>>

-----------------------------------------------------------------------------
(* What a started process does unless it dies.                             *)
Step(r) ==
    \/ Cleanup(r) \/ Begin(r) \/ Prepare(r)
    \/ DetectorOk(r) \/ DetectorErr(r) \/ DetectorsDone(r)
    \/ Record(r) \/ RecordsDone(r)
    \/ Dedup(r) \/ Finish(r)
    \/ LoadRun(r) \/ LoadFindings(r) \/ Report(r)

Next == \E r \in Run : Open(r) \/ Step(r) \/ Die(r)

Spec == Init /\ [][Next]_vars

\* The operating system schedules a started process and its calls return.
\* Nobody has to start a process, and none has to die.
FairSpec == Spec /\ \A r \in Run : WF_vars(Step(r))

-----------------------------------------------------------------------------
(* Safety                                                                  *)

\* A finished run lists exactly what its detectors found: no row is lost or
\* added, each fingerprint keeps one live row that outranks the rows it
\* supersedes, and the stored stats count these rows.  (record loop, dedup,
\* compute_stats and finish_run are separate statements, and other processes
\* run between them.)
FinishedIsComplete ==
    \A r \in Run : status[r] = "finished" =>
        /\ Rows(r) = local[r]
        /\ \A f \in Rows(r) : \E g \in LiveRows(r) :
              /\ SameFingerprint(LiveRows(r), f) = {g}
              /\ f # g => supersededBy[f] = g /\ Outranks(g, f)
        /\ stats[r].total = Cardinality(Rows(r))
        /\ stats[r].deduped = Cardinality(Rows(r) \ LiveRows(r))
        /\ stats[r].suppressed = Cardinality(ConfigTags(r))

\* A superseded row points at a live row of its own run and fingerprint that
\* outranks it: one run's dedup never touches another run's rows, and no
\* chain or cycle of superseded rows forms, whatever process dies when.
SupersessionIsSound ==
    \A f \in Finding : supersededBy[f] # Null =>
        LET g == supersededBy[f]
        IN  /\ runOf[f] # NoRun /\ runOf[g] = runOf[f]
            /\ fingerprint[g] = fingerprint[f]
            /\ supersededBy[g] = Null
            /\ Outranks(g, f)

\* The best finding of each fingerprint among all that r's detectors returned.
Representatives(r) ==
    {f \in local[r] : \A g \in SameFingerprint(local[r], f) \ {f} : Outranks(f, g)}

\* A report is built from rows read back from a database that other scans write
\* to, and from hints and errors in memory.  The best finding of each fingerprint
\* is in it, and no finding of another scan; a reported finding is tagged exactly
\* if an unexpired config rule names its rule; every detector error is there; and
\* the stats are the stored ones, whose total less the deduplicated is the number
\* of the best findings.  Whether superseded findings are listed too is left open.
ReportMatchesScan ==
    \A r \in Run : pc[r] \in {"report", "done"} =>
        /\ Representatives(r) \subseteq view[r].findings
        /\ view[r].findings \subseteq local[r]
        /\ view[r].hints = ConfigTags(r) \cap view[r].findings
        /\ view[r].errors = errors[r]
        /\ view[r].stats = stats[r]
        /\ view[r].stats.total = view[r].stats.deduped + Cardinality(Representatives(r))

\* cleanup_orphan_runs of a scan that starts later aborts the row of a scan
\* that is still alive; if that scan goes on, its row still ends up finished,
\* and no later cleanup takes that back.
CompletedScanStaysFinished ==
    \A r \in Run : pc[r] \in {"loadRun", "loadFindings", "report", "done"} =>
        status[r] = "finished"

\* A run is finished only when every resolved detector has returned, and a
\* strict run only when none failed: a failure never skips the detectors
\* after it unless the run is strict, and then it is never finished.
FinishedRanEveryDetector ==
    \A r \in Run : status[r] = "finished" =>
        /\ ran[r] = DetectorCount[r]
        /\ r \in Strict => errors[r] = {}

\* A finished run is immutable: no cleanup, dedup, record or finish of any
\* process changes its status, its stats, its rows or their supersession.
FinishedIsFinal ==
    [][\A r \in Run : status[r] = "finished" =>
          /\ status'[r] = "finished"
          /\ stats'[r] = stats[r]
          /\ Rows(r)' = Rows(r)
          /\ LiveRows(r)' = LiveRows(r)
          /\ \A f \in Rows(r) : supersededBy'[f] = supersededBy[f]]_vars

-----------------------------------------------------------------------------
(* Liveness, under FairSpec                                                *)

\* A started scan stops: it reports a finished run, or it died.
EveryScanSettles ==
    \A r \in Run :
        pc[r] = "cleanup" ~> \/ pc[r] = "dead"
                             \/ pc[r] = "done" /\ status[r] = "finished"

\* The row a dead scan left as started is aborted by the next scan that opens
\* the database (unless that one dies before its cleanup).
OrphansAreAborted ==
    \A r, q \in Run :
        (pc[r] = "dead" /\ status[r] = "started" /\ pc[q] = "cleanup")
            ~> (status[r] = "aborted" \/ pc[q] = "dead")

=============================================================================
