----------------------------- MODULE CliProofs ------------------------------
(***************************************************************************)
(* What `report show` shows, for any number of viewers beside any number of  *)
(* scans and `triage suppress`.  The scans' invariant carries over: to them  *)
(* a viewer's step is a stutter.                                            *)
(***************************************************************************)
EXTENDS CliProcesses, ScanPipelineProofs

\* Only finish_run writes the stats, and it finishes the run with them.
StatsAreFinal == \A r \in Run : stats[r] # NoStats => status[r] = "finished"

\* The types of what the viewers and `triage suppress` keep.
ViewerTypeOK ==
    /\ stage \in [Viewer -> ViewerStage]
    /\ target \in [Viewer -> Run \cup {NoRun}]
    /\ shown \in [Viewer -> View]
    /\ suppressions \in SUBSET Triaged
    /\ inForce \in [Run -> SUBSET Triaged]

\* A viewer that has read stats has read those of a finished run, and the rows
\* that it reads later are the ones that the stats count.
Viewing(v) ==
    /\ stage[v] \in {"loadRun", "loadFindings", "shown"} => target[v] \in Run
    /\ stage[v] \in {"loadFindings", "shown"} /\ shown[v].stats # DefaultStats =>
          /\ status[target[v]] = "finished"
          /\ shown[v].stats = stats[target[v]]
          /\ stage[v] = "shown" => shown[v].findings = Rows(target[v])

CliInv ==
    /\ IInv
    /\ StatsAreFinal
    /\ ViewerTypeOK
    /\ \A v \in Viewer : Viewing(v)

\* scan.rs, sqlite.rs: no statement of a scan takes away a status that has stats.
LEMMA StepStatsAreFinal ==
    ASSUME IInv, StatsAreFinal, [Next]_vars
    PROVE  StatsAreFinal'
<1> SUFFICES ASSUME NEW r \in Run, stats'[r] # NoStats PROVE status'[r] = "finished"
  BY DEF StatsAreFinal
<1>1. CASE stats[r] # NoStats
  BY <1>1, FinishedUnchanged DEF StatsAreFinal
<1>2. CASE stats[r] = NoStats
  <2>1. stats \in [Run -> Stats \cup {NoStats}] /\ status \in [Run -> Status]
    BY DEF IInv, TypeOK, StoreTypeOK
  <2>2. PICK p \in Run : Finish(p)
    BY <1>2 DEF Next, vars, store, Open, Step, Die, Cleanup, CleanupOrphanRuns, Begin, BeginRun,
       Prepare, DetectorOk, DetectorErr, DetectorReturns, DetectorsDone, Record, RecordRow,
       RecordsDone, Dedup, DedupRows, LoadRun, LoadFindings, Report
  <2> QED
    BY <1>2, <2>1, <2>2 DEF Finish, FinishRun
<1> QED
  BY <1>1, <1>2

\* A scan's step leaves what a viewer has read as it is in the database.
LEMMA ScansKeepViewing ==
    ASSUME IInv, [Next]_vars, NEW v \in Viewer, Viewing(v), UNCHANGED viewer
    PROVE  Viewing(v)'
  BY FinishedUnchanged DEF Viewing, viewer

\* commands.rs, report show: load_run's two statements.
LEMMA ReportShowKeepsViewing ==
    ASSUME IInv, StatsAreFinal, ViewerTypeOK, \A w \in Viewer : Viewing(w),
           NEW v \in Viewer, ReportShow(v)
    PROVE  ViewerTypeOK' /\ \A w \in Viewer : Viewing(w)'
<1>0. /\ stage \in [Viewer -> ViewerStage] /\ target \in [Viewer -> Run \cup {NoRun}]
      /\ shown \in [Viewer -> View] /\ UNCHANGED <<vars, triage>>
  BY DEF ViewerTypeOK, ReportShow, AskForRun, AskForLatest, Ask, ShowLoadRun, ShowLoadFindings
<1>1. UNCHANGED <<status, stats>> /\ \A r : Rows(r)' = Rows(r)
  BY <1>0 DEF vars, store, Rows
<1>2. ASSUME /\ stage' \in [Viewer -> ViewerStage] /\ target' \in [Viewer -> Run \cup {NoRun}]
             /\ shown' \in [Viewer -> View]
      PROVE  ViewerTypeOK'
  BY <1>0, <1>2 DEF ViewerTypeOK, triage
<1>3. ASSUME \A w \in Viewer \ {v} : /\ stage'[w] = stage[w] /\ target'[w] = target[w]
                                     /\ shown'[w] = shown[w],
             Viewing(v)'
      PROVE  \A w \in Viewer : Viewing(w)'
  BY <1>1, <1>3 DEF Viewing
<1>4. CASE AskForRun(v) \/ AskForLatest(v)
  <2>1. PICK r \in Run \cup {NoRun}, next \in {"loadRun", "failed"} :
           Ask(v, r, next) /\ (next = "loadRun" => r \in Run)
    BY <1>4 DEF AskForRun, AskForLatest
  <2>2. /\ stage' \in [Viewer -> ViewerStage] /\ target' \in [Viewer -> Run \cup {NoRun}]
        /\ UNCHANGED shown
    BY <1>0, <2>1 DEF Ask, ViewerStage
  <2>3. stage'[v] = next /\ target'[v] = r
    BY <1>0, <2>1 DEF Ask
  <2> QED
    BY <1>0, <1>2, <1>3, <2>1, <2>2, <2>3 DEF Ask, Viewing
<1>5. CASE ShowLoadRun(v)
  <2> DEFINE r == target[v]
  <2>1. r \in Run
    BY <1>5 DEF ShowLoadRun, Viewing
  <2>2. CASE r \notin Begun
    BY <1>0, <1>2, <1>3, <1>5, <2>2 DEF ShowLoadRun, Viewing, ViewerStage
  <2>3. CASE r \in Begun
    <3>1. RunRow(r) \in Stats
      <4>1. DefaultStats \in Stats
        BY DEF DefaultStats, Stats
      <4> QED
        BY <2>1, <4>1 DEF RunRow, IInv, TypeOK, StoreTypeOK
    <3> DEFINE s == [shown[v] EXCEPT !.stats = RunRow(r)]
    <3>2. /\ shown' = [shown EXCEPT ![v] = s] /\ stage' = [stage EXCEPT ![v] = "loadFindings"]
          /\ UNCHANGED target
      BY <1>5, <2>3 DEF ShowLoadRun
    <3>3. s \in View /\ s.stats = RunRow(r)
      BY <1>0, <3>1 DEF View
    <3>4. s.stats # DefaultStats => stats[r] # NoStats /\ s.stats = stats[r]
      BY <3>3 DEF RunRow
    <3> HIDE DEF s
    <3>5. Viewing(v)'
      BY <1>0, <1>1, <2>1, <3>2, <3>4 DEF Viewing, StatsAreFinal
    <3> QED
      BY <1>0, <1>2, <1>3, <3>2, <3>3, <3>5 DEF ViewerStage
  <2> QED
    BY <2>2, <2>3
<1>6. CASE ShowLoadFindings(v)
  <2> DEFINE r == target[v]
             s == [shown[v] EXCEPT !.findings = FindingRows(r),
                                   !.hints = rowHints \cap FindingRows(r),
                                   !.errors = LoadedErrors]
  <2>1. /\ shown' = [shown EXCEPT ![v] = s] /\ stage' = [stage EXCEPT ![v] = "shown"]
        /\ UNCHANGED target /\ stage[v] = "loadFindings"
    BY <1>6 DEF ShowLoadFindings
  <2>2. /\ FindingRows(r) \in SUBSET Finding /\ rowHints \cap FindingRows(r) \in SUBSET Finding
        /\ LoadedErrors \in SUBSET Nat
    BY DEF FindingRows, Rows, LoadedErrors
  <2>3. s \in View /\ s.stats = shown[v].stats /\ s.findings = Rows(r)
    <3>1. shown[v] \in View
      BY <1>0
    <3> QED
      BY <2>2, <3>1 DEF View, FindingRows
  <2> HIDE DEF s
  <2>4. Viewing(v)'
    BY <1>0, <1>1, <2>1, <2>3 DEF Viewing
  <2> QED
    BY <1>0, <1>2, <1>3, <2>1, <2>3, <2>4 DEF ViewerStage
<1> QED
  BY <1>4, <1>5, <1>6 DEF ReportShow

\* The invariant of all processes that share a database.
THEOREM ViewersAreConsistent == CliSpec => []CliInv
<1>1. CliInit => CliInv
  <2> SUFFICES ASSUME CliInit PROVE CliInv
    OBVIOUS
  <2>1. IInv
    BY InitIInv DEF CliInit
  <2>2. StatsAreFinal
    BY DEF CliInit, Init, StoreInit, StatsAreFinal
  <2>3. EmptyView \in View
    BY DEF EmptyView, View, DefaultStats, Stats
  <2>4. ViewerTypeOK
    BY <2>3 DEF CliInit, ViewerTypeOK, ViewerStage
  <2>5. \A v \in Viewer : Viewing(v)
    BY DEF CliInit, Viewing
  <2> QED
    BY <2>1, <2>2, <2>4, <2>5 DEF CliInv
<1>2. CliInv /\ [CliNext]_cliVars => CliInv'
  <2> SUFFICES ASSUME CliInv, [CliNext]_cliVars PROVE CliInv'
    OBVIOUS
  <2>1. [Next]_vars
    BY DEF CliNext, CliOpen, CliScan, Next, ReportShow, AskForRun, AskForLatest, Ask,
       ShowLoadRun, ShowLoadFindings, TriageSuppress, cliVars
  <2>2. IInv' /\ StatsAreFinal'
    BY <2>1, NextIInv, StepStatsAreFinal DEF CliInv
  <2>3. CASE \E v \in Viewer : ReportShow(v)
    BY <2>2, <2>3, ReportShowKeepsViewing DEF CliInv
  <2>4. CASE UNCHANGED viewer
    <3>1. \A v \in Viewer : Viewing(v)'
      BY <2>1, <2>4, ScansKeepViewing DEF CliInv
    <3>2. suppressions' \in SUBSET Triaged /\ inForce' \in [Run -> SUBSET Triaged]
      BY DEF CliInv, ViewerTypeOK, CliNext, CliOpen, CliScan, ReportShow, AskForRun,
         AskForLatest, Ask, ShowLoadRun, ShowLoadFindings, TriageSuppress, cliVars, triage
    <3> QED
      BY <2>2, <2>4, <3>1, <3>2 DEF CliInv, ViewerTypeOK, viewer
  <2> QED
    BY <2>3, <2>4 DEF CliNext, CliOpen, CliScan, TriageSuppress, cliVars
<1> QED
  BY <1>1, <1>2, PTL DEF CliSpec

\* CliTypeOK, beside any number of viewers.
THEOREM CliTypeCorrect == CliSpec => []CliTypeOK
<1>1. CliInv => CliTypeOK
  BY DEF CliInv, IInv, ViewerTypeOK, CliTypeOK
<1> QED
  BY <1>1, ViewersAreConsistent, PTL

\* ShownStatsDescribeShownFindings: though load_run is two statements, what
\* `report show` shows of a finished run fits together, whatever scans do between
\* them.
THEOREM ShownStatsFitFindings == CliSpec => []ShownStatsDescribeShownFindings
<1>1. CliInv => ShownStatsDescribeShownFindings
  <2> SUFFICES ASSUME CliInv, NEW v \in Viewer, stage[v] = "shown",
                      shown[v].stats # DefaultStats
               PROVE  /\ shown[v].findings = local[target[v]]
                      /\ shown[v].stats.total = Cardinality(shown[v].findings)
    BY DEF ShownStatsDescribeShownFindings
  <2>1. /\ target[v] \in Run /\ status[target[v]] = "finished"
        /\ shown[v].stats = stats[target[v]] /\ shown[v].findings = Rows(target[v])
    BY DEF CliInv, Viewing
  <2>2. Rows(target[v]) = local[target[v]]
    BY <2>1 DEF CliInv, IInv, RowsInv, Past
  <2>3. stats[target[v]] = ComputedStats(target[v])
    BY <2>1 DEF CliInv, IInv, StatsInv
  <2> QED
    BY <2>1, <2>2, <2>3 DEF ComputedStats
<1> QED
  BY <1>1, ViewersAreConsistent, PTL
=============================================================================
