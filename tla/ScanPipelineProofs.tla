------------------------- MODULE ScanPipelineProofs -------------------------
(***************************************************************************)
(* The scans' invariants, for any number of processes, findings, detectors  *)
(* and rules.  Each part of IInv is preserved by every step given the parts *)
(* before it, so the proof is one lemma for each part.                      *)
(***************************************************************************)
EXTENDS ScanInvariant, DataLemmas, TLAPS

-----------------------------------------------------------------------------
(* What the dedup statement's ranking computes, for every set of rows: the  *)
(* order is strict and total, so every fingerprint has exactly one keeper.  *)
(* Existence is the minimum principle on Nat, three times: least negated    *)
(* severity, then least negated confidence weight, then least id.           *)

\* The ORDER BY of dedup is irreflexive, asymmetric and total: the id breaks
\* every tie.
LEMMA OutranksIsStrictOrder ==
    /\ \A f \in Finding : ~ Outranks(f, f)
    /\ \A f, g \in Finding : Outranks(f, g) => ~ Outranks(g, f)
    /\ \A f, g \in Finding : f # g => Outranks(f, g) \/ Outranks(g, f)
<1>. DEFINE weight(h) == ConfidenceWeight[confidence[h]]
<1>1. \A f \in Finding : weight(f) \in 1..3
  BY StoreConstants DEF ConfidenceWeight
<1>2. \A f \in Finding : severity[f] \in Nat /\ f \in Nat
  BY StoreConstants
<1>. HIDE DEF weight
<1>3. \A f, g \in Finding : Outranks(f, g) <=>
         \/ severity[f] > severity[g]
         \/ severity[f] = severity[g] /\ weight(f) > weight(g)
         \/ severity[f] = severity[g] /\ weight(f) = weight(g) /\ f < g
  BY DEF Outranks, weight
<1>. QED
  BY <1>1, <1>2, <1>3

\* Every non-empty set of findings has one that outranks all the others.
LEMMA BestExists ==
    ASSUME NEW S \in SUBSET Finding, S # {}
    PROVE  \E g \in S : \A h \in S \ {g} : Outranks(g, h)
<1>. DEFINE weight(h) == ConfidenceWeight[confidence[h]]
            Severities == {100 - severity[h] : h \in S}
<1>1. \A f \in Finding : weight(f) \in 1..3
  BY StoreConstants DEF ConfidenceWeight
<1>2. \A f \in Finding : severity[f] \in 0..100 /\ f \in Nat
  BY StoreConstants
<1>. HIDE DEF weight
<1>3. \A f, g \in Finding : Outranks(f, g) <=>
         \/ severity[f] > severity[g]
         \/ severity[f] = severity[g] /\ weight(f) > weight(g)
         \/ severity[f] = severity[g] /\ weight(f) = weight(g) /\ f < g
  BY DEF Outranks, weight
<1>4. PICK s \in S : \A h \in S : severity[h] <= severity[s]
  <2>1. Severities \in SUBSET Nat /\ Severities # {}
    BY <1>2
  <2>2. PICK x \in Severities : \A y \in Severities : x <= y
    BY <2>1, LeastNatural
  <2>3. PICK s \in S : x = 100 - severity[s]
    BY <2>2
  <2>4. \A h \in S : 100 - severity[s] <= 100 - severity[h]
    BY <2>2, <2>3
  <2>5. \A h \in S : severity[h] \in Nat
    BY <1>2
  <2>6. \A h \in S : severity[h] <= severity[s]
    BY <2>4, <2>5
  <2>. QED
    BY <2>6
<1>. DEFINE Top == {h \in S : severity[h] = severity[s]}
            Weights == {3 - weight(h) : h \in Top}
<1>5. PICK w \in Top : \A h \in Top : weight(h) <= weight(w)
  <2>1. Weights \in SUBSET Nat /\ Weights # {}
    BY <1>1, <1>4
  <2>2. PICK x \in Weights : \A y \in Weights : x <= y
    BY <2>1, LeastNatural
  <2>3. PICK w \in Top : x = 3 - weight(w)
    BY <2>2
  <2>4. \A h \in Top : 3 - weight(w) <= 3 - weight(h)
    BY <2>2, <2>3
  <2>5. \A h \in Top : weight(h) \in Nat
    BY <1>1
  <2>6. \A h \in Top : weight(h) <= weight(w)
    BY <2>4, <2>5
  <2>. QED
    BY <2>6
<1>. DEFINE Tied == {h \in Top : weight(h) = weight(w)}
<1>6. PICK g \in Tied : \A h \in Tied : g <= h
  <2>1. Tied \in SUBSET Nat /\ Tied # {}
    BY <1>2, <1>5
  <2>. QED
    BY <2>1, LeastNatural
<1>7. \A h \in S \ {g} : Outranks(g, h)
  <2>. SUFFICES ASSUME NEW h \in S \ {g}
                PROVE  Outranks(g, h)
    OBVIOUS
  <2>1. g \in Finding /\ h \in Finding /\ severity[g] = severity[s]
        /\ weight(g) = weight(w)
    BY <1>6
  <2>2. severity[h] \in Nat /\ severity[g] \in Nat /\ severity[h] <= severity[g]
    BY <1>2, <1>4, <2>1
  <2>3. weight(h) \in Nat /\ weight(g) \in Nat
    BY <1>1, <2>1
  <2>4. CASE severity[h] # severity[g]
    BY <2>1, <2>2, <2>4, <1>3
  <2>5. CASE severity[h] = severity[g] /\ weight(h) # weight(g)
    BY <2>1, <2>3, <2>5, <1>3, <1>5
  <2>6. CASE severity[h] = severity[g] /\ weight(h) = weight(g)
    <3>1. g <= h /\ g \in Nat /\ h \in Nat
      BY <2>1, <2>6, <1>2, <1>6
    <3>. QED
      BY <3>1, <2>1, <2>6, <1>3
  <2>. QED
    BY <2>4, <2>5, <2>6
<1>. QED
  BY <1>7

\* What dedup makes of a set of rows: each row's keeper is the one row of its
\* fingerprint that outranks the others, and rows that share a fingerprint
\* share the keeper.
LEMMA KeeperProperties ==
    ASSUME NEW S \in SUBSET Finding, NEW f \in S
    PROVE  /\ Keeper(S, f) \in S
           /\ fingerprint[Keeper(S, f)] = fingerprint[f]
           /\ \A h \in S : fingerprint[h] = fingerprint[f] =>
                 /\ h # Keeper(S, f) => Outranks(Keeper(S, f), h)
                 /\ Keeper(S, h) = Keeper(S, f)
<1>1. ASSUME NEW x \in S
      PROVE  /\ Keeper(S, x) \in SameFingerprint(S, x)
             /\ \A h \in SameFingerprint(S, x) \ {Keeper(S, x)} :
                   Outranks(Keeper(S, x), h)
  <2>1. SameFingerprint(S, x) \in SUBSET Finding /\ x \in SameFingerprint(S, x)
    BY DEF SameFingerprint
  <2>2. \E g \in SameFingerprint(S, x) :
           \A h \in SameFingerprint(S, x) \ {g} : Outranks(g, h)
    BY <2>1, BestExists
  <2>. QED
    BY <2>2 DEF Keeper
<1>2. ASSUME NEW h \in S, fingerprint[h] = fingerprint[f]
      PROVE  Keeper(S, h) = Keeper(S, f)
  <2>1. SameFingerprint(S, h) = SameFingerprint(S, f)
    BY <1>2 DEF SameFingerprint
  <2>2. Keeper(S, h) \in Finding /\ Keeper(S, f) \in Finding
    BY <1>1 DEF SameFingerprint
  <2>. QED
    BY <1>1, <1>2, <2>1, <2>2, OutranksIsStrictOrder
<1>. QED
  BY <1>1, <1>2 DEF SameFingerprint

-----------------------------------------------------------------------------
(* Counts                                                                  *)

\* Sets of findings are finite, so the counts in stats are naturals.
LEMMA CountIsNat ==
    ASSUME NEW S \in SUBSET Finding
    PROVE  Cardinality(S) \in Nat
BY StoreConstants, FS_Subset, FS_CardinalityType

-----------------------------------------------------------------------------
(* Type correctness                                                        *)

\* No row, no process: typed.
LEMMA InitType == Init => TypeOK
BY CountIsNat DEF Init, StoreInit, TypeOK, StoreTypeOK, Status, Stage, View, EmptyView,
   DefaultStats, Stats

\* scan.rs: opening, every step, and dying keep the types.
LEMMA StepType ==
    ASSUME TypeOK, NEW r \in Run, Open(r) \/ Step(r) \/ Die(r)
    PROVE  TypeOK'
<1>. USE DEF TypeOK, StoreTypeOK, Status, Stage, Stopped, At, Goto, store, scan
<1>1. CASE Open(r)
  BY <1>1 DEF Open
<1>2. CASE Cleanup(r)
  BY <1>2 DEF Cleanup, CleanupOrphanRuns
<1>3. CASE Begin(r)
  BY <1>3 DEF Begin, BeginRun
<1>4. CASE Prepare(r)
  BY <1>4 DEF Prepare
<1>5. CASE DetectorOk(r)
  BY <1>5 DEF DetectorOk, DetectorReturns
<1>6. CASE DetectorErr(r)
  BY <1>6 DEF DetectorErr, DetectorReturns
<1>7. CASE DetectorsDone(r)
  BY <1>7 DEF DetectorsDone
<1>8. CASE Record(r)
  BY <1>8 DEF Record, RecordRow
<1>9. CASE RecordsDone(r)
  BY <1>9 DEF RecordsDone
<1>10. CASE Dedup(r)
  <2>1. /\ LiveRows(r) \in SUBSET Finding /\ Losers(LiveRows(r)) \in SUBSET LiveRows(r)
        /\ ConfigTags(r) \in SUBSET Finding
    BY DEF LiveRows, Rows, Losers, ConfigTags
  <2>2. \A f \in LiveRows(r) : Keeper(LiveRows(r), f) \in Finding
    BY <2>1, KeeperProperties
  <2>3. Cardinality(Losers(LiveRows(r))) \in Nat
    BY <2>1, CountIsNat
  <2>4. supersededBy' \in [Finding -> Finding \cup {Null}]
    BY <1>10, <2>1, <2>2 DEF Dedup, DedupRows
  <2>. QED
    BY <1>10, <2>1, <2>3, <2>4 DEF Dedup, DedupRows
<1>11. CASE Finish(r)
  <2>1. ComputedStats(r) \in Stats
    BY CountIsNat DEF ComputedStats, Stats
  <2>. QED
    BY <1>11, <2>1 DEF Finish, FinishRun
<1>12. CASE LoadRun(r)
  <2>1. RunRow(r) \in Stats
    BY DEF RunRow, Stats, DefaultStats
  <2>2. [EmptyView EXCEPT !.stats = RunRow(r)] \in View
    BY <2>1 DEF View, EmptyView
  <2>. QED
    BY <1>12, <2>2 DEF LoadRun
<1>13. CASE LoadFindings(r)
  <2>1. FindingRows(r) \in SUBSET Finding /\ OverlaidHints(r) \in SUBSET Finding
    BY DEF FindingRows, Rows, OverlaidHints
  <2>2. view' \in [Run -> View]
    BY <1>13, <2>1 DEF LoadFindings, View
  <2>. QED
    BY <1>13, <2>2 DEF LoadFindings
<1>14. CASE Report(r)
  BY <1>14 DEF Report
<1>15. CASE Die(r)
  BY <1>15 DEF Die
<1>. QED
  BY <1>1, <1>2, <1>3, <1>4, <1>5, <1>6, <1>7, <1>8, <1>9, <1>10, <1>11,
     <1>12, <1>13, <1>14, <1>15 DEF Step

\* Every reachable state has values of the declared types, for every number
\* of scan processes and findings.
THEOREM TypeCorrect == Spec => []TypeOK
<1>1. TypeOK /\ [Next]_vars => TypeOK'
  <2>1. CASE UNCHANGED vars
    BY <2>1 DEF vars, store, scan, TypeOK, StoreTypeOK
  <2>. QED
    BY <2>1, StepType DEF Next
<1>. QED
  BY <1>1, InitType, PTL DEF Spec

-----------------------------------------------------------------------------
(* Isolation: what a step of one process leaves alone                      *)

\* A step of process p leaves the memory of every other process as it is.
LEMMA MemoryIsolation ==
    ASSUME TypeOK, NEW p \in Run, Open(p) \/ Step(p) \/ Die(p),
           NEW r \in Run, r # p
    PROVE  /\ pc'[r] = pc[r]
           /\ ran'[r] = ran[r]
           /\ errors'[r] = errors[r]
           /\ local'[r] = local[r]
           /\ hinted'[r] = hinted[r]
           /\ deduped'[r] = deduped[r]
           /\ view'[r] = view[r]
<1>. USE DEF TypeOK, Goto, scan
<1>1. CASE Open(p) \/ Cleanup(p) \/ Begin(p) \/ Prepare(p)
  BY <1>1 DEF Open, Cleanup, Begin, Prepare
<1>2. CASE DetectorOk(p) \/ DetectorErr(p) \/ DetectorsDone(p)
  BY <1>2 DEF DetectorOk, DetectorErr, DetectorReturns, DetectorsDone
<1>3. CASE Record(p) \/ RecordsDone(p) \/ Dedup(p) \/ Finish(p)
  BY <1>3 DEF Record, RecordsDone, Dedup, Finish
<1>4. CASE LoadRun(p) \/ LoadFindings(p) \/ Report(p) \/ Die(p)
  BY <1>4 DEF LoadRun, LoadFindings, Report, Die
<1>. QED
  BY <1>1, <1>2, <1>3, <1>4 DEF Step

\* The columns that decide which rows a run has, and which are live, decide
\* Rows and LiveRows.
LEMMA RowsFrame ==
    ASSUME NEW r,
           \A f \in Finding : runOf'[f] = r <=> runOf[f] = r,
           \A f \in Finding : runOf[f] = r => supersededBy'[f] = supersededBy[f]
    PROVE  Rows(r)' = Rows(r) /\ LiveRows(r)' = LiveRows(r)
BY DEF Rows, LiveRows

\* A step of process p leaves the stats and the rows of every other run as
\* they are; of its status it can only turn "started" into "aborted".
LEMMA StoreIsolation ==
    ASSUME TypeOK, NEW p \in Run, Open(p) \/ Step(p) \/ Die(p),
           NEW r \in Run, r # p
    PROVE  /\ stats'[r] = stats[r]
           /\ status'[r] = status[r] \/ (status[r] = "started" /\ status'[r] = "aborted")
           /\ Rows(r)' = Rows(r)
           /\ LiveRows(r)' = LiveRows(r)
           /\ \A f \in Rows(r) : supersededBy'[f] = supersededBy[f]
<1>1. /\ stats'[r] = stats[r]
      /\ status'[r] = status[r] \/ (status[r] = "started" /\ status'[r] = "aborted")
      /\ \A f \in Finding : runOf'[f] = r <=> runOf[f] = r
      /\ \A f \in Finding : runOf[f] = r => supersededBy'[f] = supersededBy[f]
  <2>. USE DEF TypeOK, StoreTypeOK, store
  <2>1. CASE Record(p)
    <3>1. PICK f \in local[p] : RecordRow(p, f, f \in hinted[p])
      BY <2>1 DEF Record
    <3>. QED
      BY <3>1, StoreConstants DEF RecordRow
  <2>2. CASE Dedup(p)
    <3>1. \A f \in Finding : runOf[f] = r => f \notin Losers(LiveRows(p))
      BY DEF Losers, LiveRows, Rows
    <3>. QED
      BY <2>2, <3>1 DEF Dedup, DedupRows
  <2>3. CASE Cleanup(p)
    BY <2>3 DEF Cleanup, CleanupOrphanRuns
  <2>4. CASE Begin(p) \/ Finish(p)
    BY <2>4 DEF Begin, BeginRun, Finish, FinishRun
  <2>5. CASE UNCHANGED store
    BY <2>5
  <2>. QED
    BY <2>1, <2>2, <2>3, <2>4, <2>5 DEF Step, Open, Prepare, DetectorOk, DetectorErr,
       DetectorsDone, RecordsDone, LoadRun, LoadFindings, Report, Die
<1>. QED
  BY <1>1, RowsFrame DEF Rows

-----------------------------------------------------------------------------
(* The parts of the invariant                                              *)

\* Only the process of a run begins it or finishes it, so other processes'
\* cleanups cannot contradict where that process is.
LEMMA StepStatus ==
    ASSUME TypeOK, StatusInv, NEW p \in Run, Open(p) \/ Step(p) \/ Die(p)
    PROVE  StatusInv'
<1>. USE DEF BeforeBegin, AfterFinish
<1>. DEFINE Part(r) ==
        /\ pc[r] \in BeforeBegin => status[r] = "absent"
        /\ pc[r] \in AfterFinish => status[r] = "finished"
        /\ status[r] = "finished" => pc[r] \in AfterFinish \cup {"dead"}
        /\ status[r] = "absent" => pc[r] \in BeforeBegin \cup {"dead"}
<1>1. ASSUME NEW r \in Run, r # p
      PROVE  Part(r)'
  BY <1>1, MemoryIsolation, StoreIsolation DEF StatusInv
<1>2. Part(p)'
  <2>. USE DEF StatusInv, TypeOK, StoreTypeOK, At, Goto, store, scan, Stopped
  <2>1. CASE Open(p) \/ Prepare(p)
    BY <2>1 DEF Open, Prepare
  <2>2. CASE Cleanup(p)
    BY <2>2 DEF Cleanup, CleanupOrphanRuns
  <2>3. CASE Begin(p)
    BY <2>3 DEF Begin, BeginRun
  <2>4. CASE DetectorOk(p) \/ DetectorErr(p) \/ DetectorsDone(p)
    BY <2>4 DEF DetectorOk, DetectorErr, DetectorReturns, DetectorsDone
  <2>5. CASE Record(p) \/ RecordsDone(p)
    BY <2>5 DEF Record, RecordRow, RecordsDone
  <2>6. CASE Dedup(p)
    BY <2>6 DEF Dedup, DedupRows
  <2>7. CASE Finish(p)
    BY <2>7 DEF Finish, FinishRun
  <2>8. CASE LoadRun(p) \/ LoadFindings(p) \/ Report(p) \/ Die(p)
    BY <2>8 DEF LoadRun, LoadFindings, Report, Die
  <2>. QED
    BY <2>1, <2>2, <2>3, <2>4, <2>5, <2>6, <2>7, <2>8 DEF Step
<1>. QED
  BY <1>1, <1>2 DEF StatusInv

\* A process's own steps leave its rows as they are, except Record, which adds
\* one live row, and Dedup, which keeps the rows and changes the live ones.
LEMMA OwnRows ==
    ASSUME TypeOK, NEW p \in Run, Open(p) \/ Step(p) \/ Die(p)
    PROVE  /\ ~ Record(p) => Rows(p)' = Rows(p)
           /\ ~ Record(p) /\ ~ Dedup(p) =>
                /\ LiveRows(p)' = LiveRows(p)
                /\ UNCHANGED <<runOf, supersededBy, rowHints>>
           /\ Record(p) => \E f \in local[p] :
                /\ runOf[f] = NoRun
                /\ runOf' = [runOf EXCEPT ![f] = p]
                /\ supersededBy' = supersededBy
                /\ Rows(p)' = Rows(p) \cup {f}
<1>. USE DEF TypeOK, StoreTypeOK, store
<1>1. CASE Record(p)
  <2>1. PICK f \in local[p] : RecordRow(p, f, f \in hinted[p])
    BY <1>1 DEF Record
  <2>2. Rows(p)' = Rows(p) \cup {f}
    BY <2>1 DEF RecordRow, Rows
  <2>. QED
    BY <1>1, <2>1, <2>2 DEF RecordRow
<1>2. CASE Dedup(p)
  BY <1>2 DEF Dedup, DedupRows, Rows, Record, At, Goto, scan
<1>3. CASE ~ Record(p) /\ ~ Dedup(p)
  <2>1. UNCHANGED <<runOf, supersededBy, rowHints>>
    BY <1>3 DEF Step, Open, Cleanup, CleanupOrphanRuns, Begin, BeginRun, Prepare,
       DetectorOk, DetectorErr, DetectorsDone, RecordsDone, Finish, FinishRun,
       LoadRun, LoadFindings, Report, Die
  <2>. QED
    BY <1>3, <2>1 DEF Rows, LiveRows
<1>. QED
  BY <1>1, <1>2, <1>3

\* Memories stay disjoint because a detector mints fresh ids, rows come from
\* the memory, and the record loop ends only when every finding has its row.
LEMMA StepRows ==
    ASSUME TypeOK, StatusInv, RowsInv, NEW p \in Run, Open(p) \/ Step(p) \/ Die(p)
    PROVE  RowsInv'
<1>. DEFINE Written(r) == Past(r, AfterRecord) => Rows(r) = local[r]
<1>1. /\ local[p] \subseteq local'[p]
      /\ \A q \in Run \ {p} : local'[p] \cap local[q] = {}
  <2>1. CASE DetectorOk(p)
    <3>1. PICK found \in SUBSET (Finding \ Minted) :
             local' = [local EXCEPT ![p] = @ \cup found]
      BY <2>1 DEF DetectorOk
    <3>2. \A q \in Run : found \cap local[q] = {}
      BY DEF Minted
    <3>. QED
      BY <3>1, <3>2 DEF RowsInv, TypeOK
  <2>2. CASE local' = local
    BY <2>2 DEF RowsInv
  <2>. QED
    BY <2>1, <2>2 DEF Step, Open, Cleanup, Begin, Prepare, DetectorErr, DetectorsDone,
       Record, RecordsDone, Dedup, Finish, LoadRun, LoadFindings, Report, Die, scan
<1>2. ASSUME NEW r \in Run, NEW q \in Run, r # q
      PROVE  local'[r] \cap local'[q] = {}
  BY <1>1, <1>2, MemoryIsolation DEF RowsInv
<1>3. ASSUME NEW r \in Run, r # p
      PROVE  Rows(r)' \subseteq local'[r] /\ Written(r)'
  BY <1>3, MemoryIsolation, StoreIsolation DEF RowsInv, Past, AfterRecord
<1>4. Rows(p)' \subseteq local'[p]
  BY <1>1, OwnRows DEF RowsInv
<1>5. Written(p)'
  <2>. USE DEF TypeOK, StoreTypeOK, At, Goto, store, scan, Past, AfterRecord, AfterDedup,
           AfterFinish, BeforeBegin, StatusInv, RowsInv
  <2>1. CASE Record(p)
    BY <2>1 DEF Record, RecordRow
  <2>2. CASE ~ Record(p)
    <3>1. Rows(p)' = Rows(p)
      BY <2>2, OwnRows
    <3>2. CASE Open(p) \/ Prepare(p) \/ DetectorsDone(p)
      BY <3>1, <3>2 DEF Open, Prepare, DetectorsDone
    <3>3. CASE Cleanup(p) \/ Begin(p)
      BY <3>1, <3>3 DEF Cleanup, CleanupOrphanRuns, Begin, BeginRun
    <3>4. CASE DetectorOk(p) \/ DetectorErr(p)
      BY <3>1, <3>4 DEF DetectorOk, DetectorErr, DetectorReturns
    <3>5. CASE RecordsDone(p)
      <4>1. local' = local
        BY <3>5 DEF RecordsDone
      <4>2. Rows(p) = local[p]
        BY <3>5 DEF RecordsDone
      <4>. QED
        BY <3>1, <4>1, <4>2
    <3>6. CASE Dedup(p) \/ Finish(p)
      BY <3>1, <3>6 DEF Dedup, DedupRows, Finish, FinishRun
    <3>7. CASE LoadRun(p) \/ LoadFindings(p) \/ Report(p) \/ Die(p)
      BY <3>1, <3>7 DEF LoadRun, LoadFindings, Report, Die
    <3>. QED
      BY <2>2, <3>2, <3>3, <3>4, <3>5, <3>6, <3>7 DEF Step
  <2>. QED
    BY <2>1, <2>2
<1>. QED
  BY <1>2, <1>3, <1>4, <1>5 DEF RowsInv

\* A strict process ends at its first failure, so one that is still running
\* has none; the detector loop ends only when all of them have returned.
LEMMA StepDetect ==
    ASSUME TypeOK, StatusInv, DetectInv, NEW p \in Run, Open(p) \/ Step(p) \/ Die(p)
    PROVE  DetectInv'
<1>. DEFINE Part(r) ==
        /\ ran[r] <= DetectorCount[r]
        /\ (pc[r] # "dead" /\ r \in Strict) => errors[r] = {}
        /\ Past(r, AfterDetect) =>
              ran[r] = DetectorCount[r] /\ (r \in Strict => errors[r] = {})
<1>. USE DEF Past, AfterDetect, AfterRecord, AfterDedup, AfterFinish
<1>1. ASSUME NEW r \in Run, r # p
      PROVE  Part(r)'
  BY <1>1, MemoryIsolation, StoreIsolation DEF DetectInv
<1>2. Part(p)'
  <2>. USE ScanConstants DEF TypeOK, StoreTypeOK, At, Goto, store, scan, StatusInv,
           BeforeBegin, DetectInv, Stopped
  <2>1. CASE Open(p) \/ Prepare(p) \/ DetectorsDone(p)
    BY <2>1 DEF Open, Prepare, DetectorsDone
  <2>2. CASE Cleanup(p) \/ Begin(p)
    BY <2>2 DEF Cleanup, CleanupOrphanRuns, Begin, BeginRun
  <2>3. CASE DetectorOk(p) \/ DetectorErr(p)
    BY <2>3 DEF DetectorOk, DetectorErr, DetectorReturns
  <2>4. CASE Record(p) \/ RecordsDone(p)
    BY <2>4 DEF Record, RecordRow, RecordsDone
  <2>5. CASE Dedup(p) \/ Finish(p)
    BY <2>5 DEF Dedup, DedupRows, Finish, FinishRun
  <2>6. CASE LoadRun(p) \/ LoadFindings(p) \/ Report(p) \/ Die(p)
    BY <2>6 DEF LoadRun, LoadFindings, Report, Die
  <2>. QED
    BY <2>1, <2>2, <2>3, <2>4, <2>5, <2>6 DEF Step
<1>. QED
  BY <1>1, <1>2 DEF DetectInv

\* Dedup is the only way past dedup, and behind it a process only finishes,
\* loads, reports or dies.
LEMMA PastDedup ==
    ASSUME TypeOK, StatusInv, NEW p \in Run, Open(p) \/ Step(p) \/ Die(p)
    PROVE  /\ ~ Dedup(p) => (Past(p, AfterDedup)' => Past(p, AfterDedup))
           /\ Past(p, AfterDedup) =>
                 /\ Finish(p) \/ LoadRun(p) \/ LoadFindings(p) \/ Report(p) \/ Die(p)
                 /\ ~ Record(p) /\ ~ Dedup(p)
                 /\ UNCHANGED <<ran, errors, local, hinted, deduped>>
<1>. USE DEF TypeOK, StoreTypeOK, At, Goto, store, Past, AfterDedup, AfterFinish
<1>1. ~ Dedup(p) => (Past(p, AfterDedup)' => Past(p, AfterDedup))
  <2>1. CASE Open(p) \/ Prepare(p) \/ DetectorsDone(p) \/ RecordsDone(p)
    BY <2>1 DEF Open, Prepare, DetectorsDone, RecordsDone
  <2>2. CASE Cleanup(p) \/ Begin(p)
    BY <2>2 DEF Cleanup, CleanupOrphanRuns, Begin, BeginRun
  <2>3. CASE DetectorOk(p) \/ DetectorErr(p)
    BY <2>3 DEF DetectorOk, DetectorErr, DetectorReturns
  <2>4. CASE Record(p)
    BY <2>4 DEF Record, RecordRow, scan
  <2>5. CASE Finish(p)
    BY <2>5 DEF Finish
  <2>6. CASE LoadRun(p) \/ LoadFindings(p) \/ Report(p) \/ Die(p)
    BY <2>6 DEF LoadRun, LoadFindings, Report, Die
  <2>. QED
    BY <2>1, <2>2, <2>3, <2>4, <2>5, <2>6 DEF Step
<1>2. ASSUME Past(p, AfterDedup)
      PROVE  /\ Finish(p) \/ LoadRun(p) \/ LoadFindings(p) \/ Report(p) \/ Die(p)
             /\ ~ Record(p) /\ ~ Dedup(p)
  <2>1. pc[p] \in AfterDedup \cup {"dead"}
    BY <1>2 DEF StatusInv
  <2>. QED
    BY <2>1 DEF Step, Open, Cleanup, Begin, Prepare, DetectorOk, DetectorErr,
       DetectorReturns, DetectorsDone, Record, RecordsDone, Dedup
<1>3. ASSUME Past(p, AfterDedup)
      PROVE  UNCHANGED <<ran, errors, local, hinted, deduped>>
  BY <1>2, <1>3 DEF Finish, LoadRun, LoadFindings, Report, Die
<1>. QED
  BY <1>1, <1>2, <1>3

\* What Collapsed says, read off the columns: it depends only on runOf and on
\* supersededBy of the run's own rows.
LEMMA CollapsedFrame ==
    ASSUME NEW r, Rows(r)' = Rows(r),
           \A f \in Rows(r) : supersededBy'[f] = supersededBy[f]
    PROVE  Collapsed(r)' <=> Collapsed(r)
BY DEF Collapsed

\* The dedup statement collapses a run whose rows are all live.
LEMMA DedupCollapses ==
    ASSUME TypeOK, NEW p \in Run, Dedup(p), LiveRows(p) = Rows(p)
    PROVE  Collapsed(p)'
<1>1. Rows(p) \in SUBSET Finding /\ Rows(p)' = Rows(p)
  BY OwnRows DEF Rows, Step, Dedup, Record, At, TypeOK
<1>2. \A f \in Rows(p) :
         supersededBy'[f] = IF Keeper(Rows(p), f) = f THEN Null ELSE Keeper(Rows(p), f)
  BY DEF Dedup, DedupRows, Losers, LiveRows, Rows, TypeOK, StoreTypeOK
<1>3. ASSUME NEW f \in Rows(p)
      PROVE  \E g \in Rows(p) :
                /\ fingerprint[g] = fingerprint[f]
                /\ supersededBy'[g] = Null
                /\ supersededBy'[f] = IF f = g THEN Null ELSE g
                /\ \A h \in Rows(p) \ {g} :
                      fingerprint[h] = fingerprint[f] => Outranks(g, h)
  <2>. DEFINE g == Keeper(Rows(p), f)
  <2>1. /\ g \in Rows(p) /\ fingerprint[g] = fingerprint[f]
        /\ \A h \in Rows(p) : fingerprint[h] = fingerprint[f] =>
              (h # g => Outranks(g, h)) /\ Keeper(Rows(p), h) = g
    BY <1>1, KeeperProperties
  <2>2. Keeper(Rows(p), g) = g
    BY <2>1
  <2>3. supersededBy'[g] = Null
    BY <1>2, <2>1, <2>2
  <2>4. supersededBy'[f] = IF f = g THEN Null ELSE g
    BY <1>2
  <2>. QED
    BY <2>1, <2>3, <2>4
<1>. QED
  BY <1>1, <1>3 DEF Collapsed

\* Only Dedup supersedes rows, at a stage where all of the run's rows are live
\* and after which no row is added.
LEMMA StepDedup ==
    ASSUME TypeOK, StatusInv, RowsInv, DedupInv,
           NEW p \in Run, Open(p) \/ Step(p) \/ Die(p)
    PROVE  DedupInv'
<1>. DEFINE Part(r) ==
        /\ LiveRows(r) = Rows(r) \/ Collapsed(r)
        /\ pc[r] \in BeforeDedup => LiveRows(r) = Rows(r)
        /\ Past(r, AfterDedup) => Collapsed(r)
<1>1. ASSUME NEW r \in Run, r # p
      PROVE  Part(r)'
  <2>1. /\ Rows(r)' = Rows(r) /\ LiveRows(r)' = LiveRows(r)
        /\ pc'[r] = pc[r]
        /\ status'[r] = "finished" => status[r] = "finished"
        /\ \A f \in Rows(r) : supersededBy'[f] = supersededBy[f]
    BY <1>1, MemoryIsolation, StoreIsolation
  <2>2. Collapsed(r)' <=> Collapsed(r)
    BY <2>1, CollapsedFrame
  <2>3. Part(r)
    BY <1>1 DEF DedupInv
  <2>. QED
    BY <2>1, <2>2, <2>3 DEF Past
<1>2. Part(p)'
  <2>. USE DEF BeforeDedup, AfterDedup, AfterFinish, Past
  <2>1. CASE Record(p)
    <3>1. pc[p] = "record" /\ pc' = pc /\ status' = status /\ status[p] # "finished"
      BY <2>1 DEF Record, RecordRow, At, scan, StatusInv
    <3>2. PICK f \in local[p] : /\ runOf[f] = NoRun
                                /\ runOf' = [runOf EXCEPT ![f] = p]
                                /\ supersededBy' = supersededBy
                                /\ Rows(p)' = Rows(p) \cup {f}
      BY <2>1, OwnRows
    <3>3. f \in Finding /\ supersededBy[f] = Null
      BY <3>2 DEF DedupInv, TypeOK
    <3>4. LiveRows(p) = Rows(p)
      BY <3>1 DEF DedupInv, Stage
    <3>5. LiveRows(p)' = Rows(p)'
      BY <3>2, <3>3, <3>4 DEF LiveRows
    <3>. QED
      BY <3>1, <3>5
  <2>2. CASE Dedup(p)
    <3>1. LiveRows(p) = Rows(p)
      BY <2>2 DEF Dedup, At, DedupInv, Stage
    <3>2. Collapsed(p)'
      BY <2>2, <3>1, DedupCollapses
    <3>3. pc'[p] = "finish"
      BY <2>2 DEF Dedup, Goto, TypeOK
    <3>. QED
      BY <3>2, <3>3
  <2>3. CASE ~ Record(p) /\ ~ Dedup(p)
    <3>1. Rows(p)' = Rows(p) /\ LiveRows(p)' = LiveRows(p) /\ supersededBy' = supersededBy
      BY <2>3, OwnRows
    <3>2. Collapsed(p)' <=> Collapsed(p)
      BY <3>1, CollapsedFrame
    <3>3. pc'[p] \in BeforeDedup => pc[p] \in BeforeDedup
      BY <2>3 DEF Step, Open, Cleanup, Begin, Prepare, DetectorOk, DetectorErr,
         DetectorReturns, DetectorsDone, RecordsDone, Finish, LoadRun, LoadFindings,
         Report, Die, At, Goto, TypeOK, Stage, Stopped
    <3>4. Past(p, AfterDedup)' => Past(p, AfterDedup)
      BY <2>3, PastDedup
    <3>. QED
      BY <3>1, <3>2, <3>3, <3>4 DEF DedupInv
  <2>. QED
    BY <2>1, <2>2, <2>3
<1>3. ASSUME NEW f \in Finding, runOf'[f] = NoRun
      PROVE  supersededBy'[f] = Null
  <2>1. CASE Dedup(p)
    <3>1. runOf[f] = NoRun /\ NoRun # p
      BY <1>3, <2>1, StoreConstants DEF Dedup, DedupRows
    <3>2. f \notin Losers(LiveRows(p))
      BY <3>1 DEF Losers, LiveRows, Rows
    <3>. QED
      BY <2>1, <3>1, <3>2 DEF Dedup, DedupRows, DedupInv
  <2>2. CASE ~ Dedup(p)
    <3>1. CASE Record(p)
      BY <1>3, <3>1, OwnRows, StoreConstants DEF DedupInv, TypeOK, StoreTypeOK
    <3>2. CASE ~ Record(p)
      BY <1>3, <2>2, <3>2, OwnRows DEF DedupInv
    <3>. QED
      BY <3>1, <3>2
  <2>. QED
    BY <2>1, <2>2
<1>. QED
  BY <1>1, <1>2, <1>3 DEF DedupInv

\* Tags are computed once, in memory, after the rows are written: no row ever
\* carries a hint, and the process's own hints stay those of its config.
LEMMA StepHints ==
    ASSUME TypeOK, StatusInv, HintsInv, NEW p \in Run, Open(p) \/ Step(p) \/ Die(p)
    PROVE  HintsInv'
<1>1. rowHints' = {}
  <2>1. CASE Record(p)
    <3>1. hinted[p] = {}
      BY <2>1 DEF Record, At, HintsInv, BeforeDedup, Stage, AfterDedup, AfterFinish
    <3>. QED
      BY <2>1, <3>1 DEF Record, RecordRow, HintsInv
  <2>2. CASE Dedup(p)
    BY <2>2 DEF Dedup, DedupRows, HintsInv
  <2>. QED
    BY <2>1, <2>2, OwnRows DEF HintsInv
<1>2. ASSUME NEW r \in Run, r # p
      PROVE  /\ pc'[r] \in BeforeDedup => hinted'[r] = {}
             /\ Past(r, AfterDedup)' => hinted'[r] = ConfigTags(r)'
  BY <1>2, MemoryIsolation, StoreIsolation DEF HintsInv, Past, ConfigTags
<1>3. /\ pc'[p] \in BeforeDedup => hinted'[p] = {}
      /\ Past(p, AfterDedup)' => hinted'[p] = ConfigTags(p)'
  <2>1. CASE Dedup(p)
    <3>1. hinted[p] = {} /\ local' = local
      BY <2>1 DEF Dedup, At, HintsInv, BeforeDedup, Stage, AfterDedup, AfterFinish
    <3>2. hinted'[p] = ConfigTags(p)'
      BY <2>1, <3>1 DEF Dedup, ConfigTags, TypeOK
    <3>3. pc'[p] = "finish"
      BY <2>1 DEF Dedup, Goto, TypeOK
    <3>. QED
      BY <3>2, <3>3 DEF BeforeDedup, AfterDedup
  <2>2. CASE ~ Dedup(p)
    <3>1. Past(p, AfterDedup)' => hinted'[p] = ConfigTags(p)'
      BY <2>2, PastDedup DEF HintsInv, ConfigTags
    <3>2. hinted' = hinted
      BY <2>2 DEF Step, Open, Cleanup, Begin, Prepare, DetectorOk, DetectorErr,
         DetectorsDone, Record, RecordsDone, Finish, LoadRun, LoadFindings, Report, Die, scan
    <3>3. pc'[p] \in BeforeDedup => pc[p] \in BeforeDedup
      BY <2>2 DEF Step, Open, Cleanup, Begin, Prepare, DetectorOk, DetectorErr,
         DetectorReturns, DetectorsDone, Record, RecordsDone, Finish, LoadRun,
         LoadFindings, Report, Die, At, Goto, TypeOK, Stage, Stopped, BeforeDedup,
         AfterDedup, AfterFinish, scan
    <3>. QED
      BY <3>1, <3>2, <3>3 DEF HintsInv
  <2>. QED
    BY <2>1, <2>2
<1>. QED
  BY <1>1, <1>2, <1>3 DEF HintsInv

\* The count dedup returned is the number of superseded rows, and stays so;
\* a run is finished once, with the stats its process computed from memory.
LEMMA StepStats ==
    ASSUME TypeOK, StatusInv, DedupInv, StatsInv,
           NEW p \in Run, Open(p) \/ Step(p) \/ Die(p)
    PROVE  StatsInv'
<1>. DEFINE Part(r) ==
        /\ Past(r, AfterDedup) => deduped[r] = Cardinality(Rows(r) \ LiveRows(r))
        /\ status[r] = "finished" => stats[r] = ComputedStats(r)
<1>1. ASSUME NEW r \in Run, r # p
      PROVE  Part(r)'
  BY <1>1, MemoryIsolation, StoreIsolation DEF StatsInv, Past, ComputedStats
<1>2. CASE Dedup(p)
  <2>1. /\ LiveRows(p) = Rows(p) /\ status' = status /\ status[p] # "finished"
        /\ deduped'[p] = Cardinality(Losers(Rows(p)))
    BY <1>2 DEF Dedup, DedupRows, At, DedupInv, StatusInv, BeforeDedup, Stage, AfterDedup,
       AfterFinish, TypeOK
  <2>2. Rows(p)' \ LiveRows(p)' = Losers(Rows(p))
    <3>1. \A f \in Finding : runOf'[f] = runOf[f]
      BY <1>2 DEF Dedup, DedupRows
    <3>2. \A f \in Rows(p) : Keeper(Rows(p), f) \in Finding
      BY KeeperProperties DEF Rows
    <3>3. \A f \in Rows(p) : supersededBy'[f] # Null <=> f \in Losers(Rows(p))
      BY <1>2, <2>1, <3>2, StoreConstants DEF Dedup, DedupRows, Losers, LiveRows, Rows, Null
    <3>. QED
      BY <3>1, <3>3 DEF Rows, LiveRows, Losers
  <2>3. Part(p)'
    BY <2>1, <2>2
  <2>. QED
    BY <1>1, <2>3 DEF StatsInv
<1>3. CASE ~ Dedup(p)
  <2>1. Past(p, AfterDedup)' => deduped'[p] = Cardinality(Rows(p)' \ LiveRows(p)')
    BY <1>3, PastDedup, OwnRows DEF StatsInv
  <2>2. ASSUME status'[p] = "finished"
        PROVE  stats'[p] = ComputedStats(p)'
    <3>1. Past(p, AfterDedup)
      BY <1>3, <2>2, PastDedup DEF Past
    <3>2. ComputedStats(p)' = ComputedStats(p)
      BY <3>1, PastDedup DEF ComputedStats
    <3>3. CASE Finish(p)
      BY <3>2, <3>3 DEF Finish, FinishRun, TypeOK, StoreTypeOK
    <3>4. CASE LoadRun(p) \/ LoadFindings(p) \/ Report(p) \/ Die(p)
      BY <2>2, <3>2, <3>4 DEF LoadRun, LoadFindings, Report, Die, store, StatsInv
    <3>. QED
      BY <3>1, <3>3, <3>4, PastDedup
  <2>. QED
    BY <1>1, <2>1, <2>2 DEF StatsInv
<1>. QED
  BY <1>2, <1>3

\* Between its two load statements a process's run is finished, and nothing of
\* a finished run changes: both statements read the same run.
LEMMA StepView ==
    ASSUME TypeOK, StatusInv, RowsInv, HintsInv, StatsInv, ViewInv,
           NEW p \in Run, Open(p) \/ Step(p) \/ Die(p)
    PROVE  ViewInv'
<1>. DEFINE Part(r) ==
        /\ pc[r] \in {"loadFindings", "report", "done"} => view[r].stats = stats[r]
        /\ pc[r] \in {"report", "done"} =>
              /\ view[r].findings = local[r]
              /\ view[r].errors = errors[r]
              /\ view[r].hints = ConfigTags(r)
<1>1. ASSUME NEW r \in Run, r # p
      PROVE  Part(r)'
  BY <1>1, MemoryIsolation, StoreIsolation DEF ViewInv, ConfigTags
<1>2. Part(p)'
  <2>. USE DEF TypeOK, At, Goto
  <2>1. CASE LoadRun(p)
    <3>1. status[p] = "finished"
      BY <2>1 DEF LoadRun, StatusInv, AfterFinish
    <3>2. stats[p] = ComputedStats(p) /\ ComputedStats(p) \in Stats
      BY <3>1, CountIsNat DEF StatsInv, ComputedStats, Stats
    <3>3. RunRow(p) = stats[p]
      BY <3>2, StoreConstants DEF RunRow
    <3>4. view'[p].stats = RunRow(p) /\ pc'[p] = "loadFindings" /\ stats' = stats
      BY <2>1 DEF LoadRun, EmptyView, store
    <3>. QED
      BY <3>3, <3>4
  <2>2. CASE LoadFindings(p)
    <3>1. FindingRows(p) = local[p]
      BY <2>2 DEF LoadFindings, RowsInv, Past, AfterRecord, AfterDedup, AfterFinish,
         FindingRows
    <3>2. hinted[p] = ConfigTags(p)
      BY <2>2 DEF LoadFindings, HintsInv, Past, AfterDedup, AfterFinish
    <3>3. OverlaidHints(p) = ConfigTags(p)
      BY <3>1, <3>2 DEF OverlaidHints, HintsInv, ConfigTags
    <3>4. view[p].stats = stats[p]
      BY <2>2 DEF LoadFindings, ViewInv
    <3>5. /\ view'[p].stats = view[p].stats
          /\ view'[p].findings = FindingRows(p)
          /\ view'[p].hints = OverlaidHints(p)
          /\ view'[p].errors = errors[p]
          /\ UNCHANGED <<stats, local, errors>>
      BY <2>2 DEF LoadFindings, store
    <3>. QED
      BY <3>1, <3>3, <3>4, <3>5 DEF ConfigTags
  <2>3. CASE Report(p)
    BY <2>3 DEF Report, store, ViewInv, ConfigTags
  <2>4. CASE ~ (LoadRun(p) \/ LoadFindings(p) \/ Report(p))
    <3>1. pc'[p] \notin {"loadFindings", "report", "done"}
      BY <2>4 DEF Step, Open, Cleanup, Begin, Prepare, DetectorOk, DetectorErr,
         DetectorReturns, DetectorsDone, Record, RecordsDone, Dedup, Finish, Die, scan
    <3>. QED
      BY <3>1
  <2>. QED
    BY <2>1, <2>2, <2>3, <2>4
<1>. QED
  BY <1>1, <1>2 DEF ViewInv

-----------------------------------------------------------------------------
(* The inductive invariant                                                 *)

\* IInv holds before any scan was opened.
LEMMA InitIInv == Init => IInv
<1>. SUFFICES ASSUME Init
              PROVE  IInv
  OBVIOUS
<1>1. \A r \in Run : Rows(r) = {} /\ LiveRows(r) = {}
  BY StoreConstants DEF Init, StoreInit, Rows, LiveRows
<1>2. \A r \in Run : pc[r] = "idle" /\ status[r] = "absent"
  BY DEF Init, StoreInit
<1>3. TypeOK
  BY InitType
<1>4. StatusInv
  BY <1>2 DEF StatusInv, BeforeBegin, AfterFinish
<1>5. RowsInv
  BY <1>1 DEF RowsInv, Init
<1>6. DetectInv
  BY <1>2, ScanConstants DEF DetectInv, Init, Past, AfterDetect, AfterRecord, AfterDedup,
     AfterFinish
<1>7. DedupInv
  BY <1>1, <1>2 DEF DedupInv, Init, StoreInit, Collapsed
<1>8. HintsInv
  BY <1>2 DEF HintsInv, Init, StoreInit, ConfigTags
<1>9. StatsInv
  BY <1>2 DEF StatsInv, Past, AfterDedup, AfterFinish
<1>10. ViewInv
  BY <1>2 DEF ViewInv
<1>. QED
  BY <1>3, <1>4, <1>5, <1>6, <1>7, <1>8, <1>9, <1>10 DEF IInv

\* A step of any process preserves every part of the invariant.
LEMMA NextIInv == IInv /\ [Next]_vars => IInv'
<1>. SUFFICES ASSUME IInv, [Next]_vars
              PROVE  IInv'
  OBVIOUS
<1>1. ASSUME NEW p \in Run, Open(p) \/ Step(p) \/ Die(p)
      PROVE  IInv'
  BY <1>1, StepType, StepStatus, StepRows, StepDetect, StepDedup, StepHints, StepStats,
     StepView DEF IInv
<1>2. CASE UNCHANGED vars
  <2>1. UNCHANGED <<status, stats, supersededBy, rowHints, pc, ran, errors, local,
                    hinted, deduped, view>>
    BY <1>2 DEF vars, store, scan
  <2>2. \A r : Rows(r)' = Rows(r) /\ LiveRows(r)' = LiveRows(r)
    BY <1>2 DEF vars, store, Rows, LiveRows
  <2>3. \A r : Collapsed(r)' <=> Collapsed(r)
    BY <2>1, <2>2, CollapsedFrame
  <2>4. \A r : ConfigTags(r)' = ConfigTags(r) /\ ComputedStats(r)' = ComputedStats(r)
    BY <2>1 DEF ConfigTags, ComputedStats
  <2>5. TypeOK'
    BY <1>2 DEF IInv, vars, store, scan, TypeOK, StoreTypeOK
  <2>6. StatusInv' /\ DetectInv'
    BY <2>1 DEF IInv, StatusInv, DetectInv, Past
  <2>7. RowsInv'
    BY <2>1, <2>2 DEF IInv, RowsInv, Past
  <2>8. DedupInv'
    BY <1>2, <2>1, <2>2, <2>3 DEF IInv, DedupInv, Past, vars, store
  <2>9. HintsInv'
    BY <2>1, <2>4 DEF IInv, HintsInv, Past
  <2>10. StatsInv'
    BY <2>1, <2>2, <2>4 DEF IInv, StatsInv, Past
  <2>11. ViewInv'
    BY <2>1, <2>4 DEF IInv, ViewInv
  <2>. QED
    BY <2>5, <2>6, <2>7, <2>8, <2>9, <2>10, <2>11 DEF IInv
<1>. QED
  BY <1>1, <1>2 DEF Next

\* The invariant that carries the safety results below holds in every
\* reachable state.
THEOREM InductiveInvariant == Spec => []IInv
BY InitIInv, NextIInv, PTL DEF Spec

-----------------------------------------------------------------------------
(* The safety properties                                                   *)

\* In a collapsed run every row's fingerprint has exactly one live row, which
\* is the row itself or the one that supersedes and outranks it.
LEMMA CollapsedRepresentatives ==
    ASSUME TypeOK, NEW r \in Run, Collapsed(r), NEW f \in Rows(r)
    PROVE  \E g \in LiveRows(r) :
              /\ SameFingerprint(LiveRows(r), f) = {g}
              /\ f # g => supersededBy[f] = g /\ Outranks(g, f)
<1>1. PICK g \in Rows(r) :
         /\ fingerprint[g] = fingerprint[f]
         /\ supersededBy[g] = Null
         /\ supersededBy[f] = IF f = g THEN Null ELSE g
         /\ \A h \in Rows(r) \ {g} : fingerprint[h] = fingerprint[f] => Outranks(g, h)
  BY DEF Collapsed
<1>2. g \in SameFingerprint(LiveRows(r), f)
  BY <1>1 DEF SameFingerprint, LiveRows
<1>3. ASSUME NEW h \in SameFingerprint(LiveRows(r), f)
      PROVE  h = g
  <2>1. h \in Rows(r) /\ supersededBy[h] = Null /\ fingerprint[h] = fingerprint[g]
    BY <1>1, <1>3 DEF SameFingerprint, LiveRows
  <2>2. PICK k \in Rows(r) :
           /\ fingerprint[k] = fingerprint[h]
           /\ supersededBy[h] = IF h = k THEN Null ELSE k
           /\ \A x \in Rows(r) \ {k} : fingerprint[x] = fingerprint[h] => Outranks(k, x)
    BY <2>1 DEF Collapsed
  <2>3. k = h
    BY <2>1, <2>2, StoreConstants DEF Rows
  <2>4. h \in Finding /\ g \in Finding
    BY <1>1, <2>1 DEF Rows
  <2>5. h # g => Outranks(g, h) /\ Outranks(h, g)
    BY <1>1, <2>1, <2>2, <2>3
  <2>. QED
    BY <2>4, <2>5, OutranksIsStrictOrder
<1>4. SameFingerprint(LiveRows(r), f) = {g}
  BY <1>2, <1>3
<1>5. g \in LiveRows(r)
  BY <1>1 DEF LiveRows
<1>6. f # g => supersededBy[f] = g /\ Outranks(g, f)
  BY <1>1
<1>. QED
  BY <1>4, <1>5, <1>6

\* A finished run holds exactly what its detectors found, one live best row
\* for each fingerprint, and stats that count its rows.
THEOREM FinishedRunsAreComplete == Spec => []FinishedIsComplete
<1>1. IInv => FinishedIsComplete
  <2>. SUFFICES ASSUME IInv, NEW r \in Run, status[r] = "finished"
                PROVE  /\ Rows(r) = local[r]
                       /\ \A f \in Rows(r) : \E g \in LiveRows(r) :
                             /\ SameFingerprint(LiveRows(r), f) = {g}
                             /\ f # g => supersededBy[f] = g /\ Outranks(g, f)
                       /\ stats[r].total = Cardinality(Rows(r))
                       /\ stats[r].deduped = Cardinality(Rows(r) \ LiveRows(r))
                       /\ stats[r].suppressed = Cardinality(ConfigTags(r))
    BY DEF FinishedIsComplete
  <2>1. Rows(r) = local[r]
    BY DEF IInv, RowsInv, Past
  <2>2. Collapsed(r) /\ hinted[r] = ConfigTags(r)
    BY DEF IInv, DedupInv, HintsInv, Past
  <2>3. /\ stats[r] = ComputedStats(r)
        /\ deduped[r] = Cardinality(Rows(r) \ LiveRows(r))
    BY DEF IInv, StatsInv, Past
  <2>. QED
    BY <2>1, <2>2, <2>3, CollapsedRepresentatives DEF ComputedStats, IInv
<1>. QED
  BY <1>1, InductiveInvariant, PTL

\* Superseding is confined to a run and a fingerprint and has depth one,
\* wherever the processes are and whichever of them have died.
THEOREM SupersessionSound == Spec => []SupersessionIsSound
<1>1. IInv => SupersessionIsSound
  <2>. SUFFICES ASSUME IInv, NEW f \in Finding, supersededBy[f] # Null
                PROVE  LET g == supersededBy[f]
                       IN  /\ runOf[f] # NoRun /\ runOf[g] = runOf[f]
                           /\ fingerprint[g] = fingerprint[f]
                           /\ supersededBy[g] = Null
                           /\ Outranks(g, f)
    BY DEF SupersessionIsSound
  <2>. DEFINE r == runOf[f]
  <2>1. runOf[f] # NoRun /\ r \in Run
    BY DEF IInv, DedupInv, TypeOK, StoreTypeOK
  <2>2. f \in Rows(r) /\ f \notin LiveRows(r)
    BY DEF Rows, LiveRows
  <2>3. Collapsed(r)
    BY <2>1, <2>2 DEF IInv, DedupInv
  <2>4. PICK g \in Rows(r) :
           /\ fingerprint[g] = fingerprint[f]
           /\ supersededBy[g] = Null
           /\ supersededBy[f] = IF f = g THEN Null ELSE g
           /\ \A h \in Rows(r) \ {g} : fingerprint[h] = fingerprint[f] => Outranks(g, h)
    BY <2>2, <2>3 DEF Collapsed
  <2>5. supersededBy[f] = g /\ f # g
    BY <2>4
  <2>. QED
    BY <2>1, <2>2, <2>4, <2>5 DEF Rows
<1>. QED
  BY <1>1, InductiveInvariant, PTL

\* The live rows of a collapsed run that holds all its detectors returned are the
\* best of each fingerprint.
LEMMA LiveRowsAreRepresentatives ==
    ASSUME NEW r \in Run, Collapsed(r), Rows(r) = local[r]
    PROVE  LiveRows(r) = Representatives(r)
<1>1. ASSUME NEW f \in Rows(r)
      PROVE  supersededBy[f] = Null <=> f \in Representatives(r)
  <2>1. PICK g \in Rows(r) :
           /\ fingerprint[g] = fingerprint[f]
           /\ supersededBy[f] = IF f = g THEN Null ELSE g
           /\ \A h \in Rows(r) \ {g} : fingerprint[h] = fingerprint[f] => Outranks(g, h)
    BY DEF Collapsed
  <2>2. f \in Finding /\ g \in Finding /\ g # Null
    BY StoreConstants DEF Rows
  <2>3. CASE f = g
    BY <2>1, <2>3 DEF Representatives, SameFingerprint
  <2>4. CASE f # g
    <3>1. Outranks(g, f) /\ ~ Outranks(f, g)
      BY <2>1, <2>2, <2>4, OutranksIsStrictOrder
    <3>. QED
      BY <2>1, <2>2, <2>4, <3>1 DEF Representatives, SameFingerprint
  <2>. QED
    BY <2>3, <2>4
<1>2. Representatives(r) \subseteq Rows(r)
  BY DEF Representatives
<1>. QED
  BY <1>1, <1>2 DEF LiveRows

\* A report has the best of what the detectors of that very scan returned, with
\* its tags, errors and stats, though it was re-read from a database that any
\* number of other scans write to.
THEOREM ReportsMatchScans == Spec => []ReportMatchesScan
<1>1. IInv => ReportMatchesScan
  <2>. SUFFICES ASSUME IInv, NEW r \in Run, pc[r] \in {"report", "done"}
                PROVE  /\ Representatives(r) \subseteq view[r].findings
                       /\ view[r].findings \subseteq local[r]
                       /\ view[r].hints = ConfigTags(r) \cap view[r].findings
                       /\ view[r].errors = errors[r]
                       /\ view[r].stats = stats[r]
                       /\ view[r].stats.total
                            = view[r].stats.deduped + Cardinality(Representatives(r))
    BY DEF ReportMatchesScan
  <2>1. /\ view[r].findings = local[r] /\ view[r].errors = errors[r]
        /\ view[r].hints = ConfigTags(r) /\ view[r].stats = stats[r]
    BY DEF IInv, ViewInv
  <2>2. status[r] = "finished"
    BY DEF IInv, StatusInv, AfterFinish
  <2>3. Rows(r) = local[r] /\ Collapsed(r)
    BY <2>2 DEF IInv, RowsInv, DedupInv, Past
  <2>4. /\ stats[r] = ComputedStats(r)
        /\ deduped[r] = Cardinality(Rows(r) \ LiveRows(r))
    BY <2>2 DEF IInv, StatsInv, Past
  <2>5. LiveRows(r) = Representatives(r)
    BY <2>3, LiveRowsAreRepresentatives
  <2>6. Cardinality(Rows(r)) = Cardinality(Rows(r) \ LiveRows(r)) + Cardinality(LiveRows(r))
    <3>1. IsFiniteSet(Rows(r)) /\ Rows(r) \cap LiveRows(r) = LiveRows(r)
      BY StoreConstants, FS_Subset DEF Rows, LiveRows
    <3>2. IsFiniteSet(LiveRows(r))
      BY StoreConstants, FS_Subset DEF Rows, LiveRows
    <3>3. /\ Cardinality(Rows(r)) \in Nat /\ Cardinality(LiveRows(r)) \in Nat
          /\ Cardinality(Rows(r) \ LiveRows(r))
               = Cardinality(Rows(r)) - Cardinality(LiveRows(r))
      BY <3>1, <3>2, FS_CardinalityType, FS_Difference
    <3>. QED
      BY <3>3
  <2>7. view[r].stats.total = Cardinality(local[r]) /\ view[r].stats.deduped = deduped[r]
    BY <2>1, <2>4 DEF ComputedStats
  <2>8. Representatives(r) \subseteq local[r] /\ ConfigTags(r) \subseteq local[r]
    BY DEF Representatives, ConfigTags
  <2>. QED
    BY <2>1, <2>3, <2>4, <2>5, <2>6, <2>7, <2>8
<1>. QED
  BY <1>1, InductiveInvariant, PTL

\* No cleanup of another scan takes a completed scan's status back.
THEOREM CompletedScansStayFinished == Spec => []CompletedScanStaysFinished
<1>1. IInv => CompletedScanStaysFinished
  BY DEF IInv, StatusInv, AfterFinish, CompletedScanStaysFinished
<1>. QED
  BY <1>1, InductiveInvariant, PTL

\* A finished run had every detector return, and without failure if strict.
THEOREM FinishedRunsRanEveryDetector == Spec => []FinishedRanEveryDetector
<1>1. IInv => FinishedRanEveryDetector
  BY DEF IInv, DetectInv, Past, FinishedRanEveryDetector
<1>. QED
  BY <1>1, InductiveInvariant, PTL

\* The process of a finished run only loads, reports or dies.
LEMMA FinishedIsPast ==
    ASSUME TypeOK, StatusInv, NEW p \in Run, Open(p) \/ Step(p) \/ Die(p),
           status[p] = "finished"
    PROVE  LoadRun(p) \/ LoadFindings(p) \/ Report(p) \/ Die(p)
<1>1. pc[p] \in AfterFinish \cup {"dead"}
  BY DEF StatusInv
<1>. QED
  BY <1>1 DEF AfterFinish, Step, Open, Cleanup, Begin, Prepare, DetectorOk, DetectorErr,
     DetectorReturns, DetectorsDone, Record, RecordsDone, Dedup, Finish, At

\* scan.rs, sqlite.rs: a step of any process leaves a finished run as it is.
LEMMA FinishedUnchanged ==
    ASSUME IInv, [Next]_vars, NEW r \in Run, status[r] = "finished"
    PROVE  /\ status'[r] = "finished"
           /\ stats'[r] = stats[r]
           /\ Rows(r)' = Rows(r)
           /\ LiveRows(r)' = LiveRows(r)
           /\ \A f \in Rows(r) : supersededBy'[f] = supersededBy[f]
<1>. DEFINE Unchanged ==
        /\ status'[r] = "finished"
        /\ stats'[r] = stats[r]
        /\ Rows(r)' = Rows(r)
        /\ LiveRows(r)' = LiveRows(r)
        /\ \A f \in Rows(r) : supersededBy'[f] = supersededBy[f]
<1>1. CASE UNCHANGED store
  BY <1>1 DEF store, Rows, LiveRows
<1>2. ASSUME NEW p \in Run, Open(p) \/ Step(p) \/ Die(p)
      PROVE  Unchanged
  <2>1. CASE p = r
    <3>1. UNCHANGED store
      BY <1>2, <2>1, FinishedIsPast DEF IInv, LoadRun, LoadFindings, Report, Die
    <3>. QED
      BY <1>1, <3>1
  <2>2. CASE p # r
    BY <1>2, <2>2, StoreIsolation DEF IInv
  <2>. QED
    BY <2>1, <2>2
<1>. QED
  BY <1>1, <1>2 DEF Next, vars

\* No statement of any process changes a finished run.
THEOREM FinishedRunsAreFinal == Spec => FinishedIsFinal
<1>1. IInv /\ [Next]_vars =>
        [\A r \in Run : status[r] = "finished" =>
            /\ status'[r] = "finished"
            /\ stats'[r] = stats[r]
            /\ Rows(r)' = Rows(r)
            /\ LiveRows(r)' = LiveRows(r)
            /\ \A f \in Rows(r) : supersededBy'[f] = supersededBy[f]]_vars
  BY FinishedUnchanged
<1>. QED
  BY <1>1, InductiveInvariant, PTL DEF Spec, FinishedIsFinal
=============================================================================
