----------------------- MODULE LedgerRefinementProofs -----------------------
(***************************************************************************)
(* The scans implement RunLedger: Record is RecordFinding, Dedup is         *)
(* Collapse, Finish is Seal, and everything else - cleanups, detectors,     *)
(* loads, reports, deaths - stutters, whatever the other processes do.      *)
(***************************************************************************)
EXTENDS ScanPipelineProofs

\* The live rows of a collapsed run are the ledger's best findings.
LEMMA LiveRowsAreBest ==
    \A r \in Run : Collapsed(r) => LiveRows(r) = Ledger!Best(Rows(r))
<1>. SUFFICES ASSUME NEW r \in Run, Collapsed(r)
              PROVE  LiveRows(r) = Ledger!Best(Rows(r))
  OBVIOUS
<1>1. ASSUME NEW f \in Rows(r)
      PROVE  supersededBy[f] = Null <=> f \in Ledger!Best(Rows(r))
  <2>1. PICK g \in Rows(r) :
           /\ fingerprint[g] = fingerprint[f]
           /\ supersededBy[f] = IF f = g THEN Null ELSE g
           /\ \A h \in Rows(r) \ {g} : fingerprint[h] = fingerprint[f] => Outranks(g, h)
    BY DEF Collapsed
  <2>2. f \in Finding /\ g \in Finding /\ g # Null
    BY StoreConstants DEF Rows
  <2>3. CASE f = g
    BY <2>1, <2>3 DEF Ledger!Best
  <2>4. CASE f # g
    <3>1. Outranks(g, f) /\ ~ Outranks(f, g)
      BY <2>1, <2>2, <2>4, OutranksIsStrictOrder
    <3>. QED
      BY <2>1, <2>2, <2>4, <3>1 DEF Ledger!Best
  <2>. QED
    BY <2>3, <2>4
<1>2. \A f : f \in Ledger!Best(Rows(r)) => f \in Rows(r)
  BY DEF Ledger!Best
<1>. QED
  BY <1>1, <1>2 DEF LiveRows

\* The mapping, by its components.
LEMMA LedgerFrame ==
    ASSUME \A r \in Run : Rows(r)' = Rows(r) /\ LiveRows(r)' = LiveRows(r),
           \A r \in Run : status'[r] = "finished" <=> status[r] = "finished"
    PROVE  UNCHANGED Ledger!ledger
BY DEF Ledger!ledger

\* Record(p) adds one finding of p's memory, which no run has, to a run that
\* is neither sealed nor collapsed.
LEMMA RecordIsRecordFinding ==
    ASSUME IInv, NEW p \in Run, Record(p)
    PROVE  \E f \in Finding : Ledger!RecordFinding(p, f)
<1>. USE DEF IInv
<1>1. Step(p)
  BY DEF Step
<1>2. PICK f \in local[p] : /\ runOf[f] = NoRun
                            /\ runOf' = [runOf EXCEPT ![f] = p]
                            /\ supersededBy' = supersededBy
                            /\ Rows(p)' = Rows(p) \cup {f}
  BY <1>1, OwnRows
<1>3. pc[p] = "record" /\ status' = status /\ status[p] # "finished"
  BY DEF Record, RecordRow, At, scan, StatusInv, AfterFinish
<1>4. f \in Finding /\ supersededBy[f] = Null
  BY <1>2 DEF DedupInv, TypeOK
<1>5. LiveRows(p) = Rows(p)
  BY <1>3 DEF DedupInv, Stage, BeforeDedup, AfterDedup, AfterFinish
<1>6. LiveRows(p)' = LiveRows(p) \cup {f}
  BY <1>2, <1>4, <1>5 DEF LiveRows
<1>7. \A q \in Run : f \notin Rows(q)
  BY <1>2, StoreConstants DEF Rows
<1>8. \A q \in Run \ {p} : Rows(q)' = Rows(q) /\ LiveRows(q)' = LiveRows(q)
  BY <1>1, StoreIsolation
<1>9. [r \in Run |-> Rows(r)]' = [[r \in Run |-> Rows(r)] EXCEPT ![p] = @ \cup {f}]
  BY <1>2, <1>8
<1>10. [r \in Run |-> LiveRows(r)]'
         = [[r \in Run |-> LiveRows(r)] EXCEPT ![p] = @ \cup {f}]
  BY <1>6, <1>8
<1>11. Ledger!RecordFinding(p, f)
  BY <1>3, <1>5, <1>7, <1>9, <1>10 DEF Ledger!RecordFinding
<1>. QED
  BY <1>4, <1>11

\* Dedup(p) replaces p's live rows by the best of them, in one step.
LEMMA DedupIsCollapse ==
    ASSUME IInv, NEW p \in Run, Dedup(p)
    PROVE  Ledger!Collapse(p)
<1>. USE DEF IInv
<1>1. Step(p) /\ ~ Record(p)
  BY DEF Step, Dedup, Record, At
<1>2. LiveRows(p) = Rows(p) /\ status' = status /\ status[p] # "finished"
  BY DEF Dedup, DedupRows, At, DedupInv, StatusInv, BeforeDedup, Stage, AfterDedup,
     AfterFinish
<1>3. TypeOK' /\ Rows(p)' = Rows(p)
  BY <1>1, StepType, OwnRows
<1>4. Collapsed(p)'
  BY <1>2, DedupCollapses
<1>5. LiveRows(p)' = Ledger!Best(Rows(p))'
  <2>1. (\A r \in Run : Collapsed(r) => LiveRows(r) = Ledger!Best(Rows(r)))'
    BY LiveRowsAreBest, PTL
  <2>. QED
    BY <1>3, <1>4, <2>1
<1>6. LiveRows(p)' = Ledger!Best(LiveRows(p))
  BY <1>2, <1>3, <1>5 DEF Ledger!Best
<1>7. \A q \in Run \ {p} : Rows(q)' = Rows(q) /\ LiveRows(q)' = LiveRows(q)
  BY <1>1, StoreIsolation
<1>8. [r \in Run |-> Rows(r)]' = [r \in Run |-> Rows(r)]
  BY <1>3, <1>7
<1>9. [r \in Run |-> LiveRows(r)]'
        = [[r \in Run |-> LiveRows(r)] EXCEPT ![p] = Ledger!Best(@)]
  BY <1>6, <1>7
<1>. QED
  BY <1>2, <1>8, <1>9 DEF Ledger!Collapse

\* Finish(p) seals p, whose live rows are by then the best of its rows.
LEMMA FinishIsSeal ==
    ASSUME IInv, NEW p \in Run, Finish(p)
    PROVE  Ledger!Seal(p)
<1>. USE DEF IInv
<1>1. Step(p) /\ ~ Record(p) /\ ~ Dedup(p)
  BY DEF Step, Dedup, Record, Finish, At
<1>2. /\ status[p] # "finished"
      /\ status' = [status EXCEPT ![p] = "finished"]
  BY DEF Finish, FinishRun, At, StatusInv, AfterFinish
<1>3. LiveRows(p) = Ledger!Best(Rows(p))
  <2>1. Collapsed(p)
    BY DEF Finish, At, DedupInv, Past, AfterDedup
  <2>. QED
    BY <2>1, LiveRowsAreBest
<1>4. \A q \in Run : Rows(q)' = Rows(q) /\ LiveRows(q)' = LiveRows(q)
  BY <1>1, OwnRows, StoreIsolation
<1>5. {r \in Run : status[r] = "finished"}' = {r \in Run : status[r] = "finished"} \cup {p}
  BY <1>2 DEF TypeOK, StoreTypeOK
<1>. QED
  BY <1>2, <1>3, <1>4, <1>5 DEF Ledger!Seal

\* Every other step leaves rows, live rows and the set of finished runs alone:
\* cleanup aborts only rows that are not finished.
LEMMA OthersStutter ==
    ASSUME IInv, NEW p \in Run, Open(p) \/ Step(p) \/ Die(p),
           ~ Record(p), ~ Dedup(p), ~ Finish(p)
    PROVE  UNCHANGED Ledger!ledger
<1>. USE DEF IInv
<1>1. \A q \in Run : Rows(q)' = Rows(q) /\ LiveRows(q)' = LiveRows(q)
  BY OwnRows, StoreIsolation
<1>2. \A q \in Run : status'[q] = "finished" <=> status[q] = "finished"
  <2>1. CASE Cleanup(p)
    BY <2>1 DEF Cleanup, CleanupOrphanRuns, TypeOK, StoreTypeOK
  <2>2. CASE Begin(p)
    BY <2>2 DEF Begin, BeginRun, TypeOK, StoreTypeOK
  <2>3. CASE status' = status
    BY <2>3
  <2>. QED
    BY <2>1, <2>2, <2>3 DEF Step, Open, Prepare, DetectorOk, DetectorErr, DetectorsDone,
       RecordsDone, LoadRun, LoadFindings, Report, Die, store
<1>. QED
  BY <1>1, <1>2, LedgerFrame

\* The interleaved statements of any number of scans, dying anywhere, behave
\* like the abstract ledger.
THEOREM ScansImplementLedger == Spec => ImplementsLedger
<1>1. Init => Ledger!LedgerInit
  <2>1. Init => \A r \in Run : Rows(r) = {} /\ LiveRows(r) = {}
    BY StoreConstants DEF Init, StoreInit, Rows, LiveRows
  <2>2. Init => {r \in Run : status[r] = "finished"} = {}
    BY DEF Init, StoreInit
  <2>. QED
    BY <2>1, <2>2 DEF Ledger!LedgerInit
<1>2. IInv /\ [Next]_vars => [Ledger!LedgerNext]_(Ledger!ledger)
  <2>. SUFFICES ASSUME IInv, [Next]_vars
                PROVE  Ledger!LedgerNext \/ UNCHANGED Ledger!ledger
    OBVIOUS
  <2>1. CASE UNCHANGED vars
    <3>1. \A r \in Run : Rows(r)' = Rows(r) /\ LiveRows(r)' = LiveRows(r)
      BY <2>1 DEF vars, store, Rows, LiveRows
    <3>2. status' = status
      BY <2>1 DEF vars, store
    <3>. QED
      BY <3>1, <3>2, LedgerFrame
  <2>2. ASSUME NEW p \in Run, Open(p) \/ Step(p) \/ Die(p)
        PROVE  Ledger!LedgerNext \/ UNCHANGED Ledger!ledger
    BY <2>2, RecordIsRecordFinding, DedupIsCollapse, FinishIsSeal, OthersStutter
       DEF Ledger!LedgerNext
  <2>. QED
    BY <2>1, <2>2 DEF Next
<1>. QED
  BY <1>1, <1>2, InductiveInvariant, PTL DEF Spec, ImplementsLedger, Ledger!LedgerSpec
=============================================================================
