---------------------------- MODULE ScanInvariant ----------------------------
(***************************************************************************)
(* The inductive invariant of ScanPipeline, and the refinement mapping that *)
(* shows the scans and their SQL statements implement RunLedger.            *)
(***************************************************************************)
EXTENDS ScanPipeline

\* The stages a process has behind it: its row does not exist yet; all its
\* rows are written; they are deduplicated; the run is finished.
BeforeBegin == {"idle", "cleanup", "begin"}
AfterFinish == {"loadRun", "loadFindings", "report", "done"}
AfterDedup  == {"finish"} \cup AfterFinish
AfterRecord == {"dedup"} \cup AfterDedup
AfterDetect == {"record"} \cup AfterRecord
BeforeDedup == Stage \ (AfterDedup \cup {"dead"})

\* A dead process passed a stage for sure only if its run is finished.
Past(r, stages) == pc[r] \in stages \/ status[r] = "finished"

\* Who can have which status: only the process of a run finishes it, and only
\* while it runs can its row still be started or aborted.
StatusInv ==
    \A r \in Run :
        /\ pc[r] \in BeforeBegin => status[r] = "absent"
        /\ pc[r] \in AfterFinish => status[r] = "finished"
        /\ status[r] = "finished" => pc[r] \in AfterFinish \cup {"dead"}
        /\ status[r] = "absent" => pc[r] \in BeforeBegin \cup {"dead"}

\* Rows come from the process's memory, and memories are disjoint.
RowsInv ==
    /\ \A r, q \in Run : r # q => local[r] \cap local[q] = {}
    /\ \A r \in Run : Rows(r) \subseteq local[r]
    /\ \A r \in Run : Past(r, AfterRecord) => Rows(r) = local[r]

DetectInv ==
    \A r \in Run :
        /\ ran[r] <= DetectorCount[r]
        /\ (pc[r] # "dead" /\ r \in Strict) => errors[r] = {}
        /\ Past(r, AfterDetect) =>
              ran[r] = DetectorCount[r] /\ (r \in Strict => errors[r] = {})

\* A run's rows are all live until its dedup, and collapsed after it.
Collapsed(r) ==
    \A f \in Rows(r) : \E g \in Rows(r) :
        /\ fingerprint[g] = fingerprint[f]
        /\ supersededBy[g] = Null
        /\ supersededBy[f] = IF f = g THEN Null ELSE g
        /\ \A h \in Rows(r) \ {g} : fingerprint[h] = fingerprint[f] => Outranks(g, h)

DedupInv ==
    /\ \A f \in Finding : runOf[f] = NoRun => supersededBy[f] = Null
    /\ \A r \in Run : LiveRows(r) = Rows(r) \/ Collapsed(r)
    /\ \A r \in Run : pc[r] \in BeforeDedup => LiveRows(r) = Rows(r)
    /\ \A r \in Run : Past(r, AfterDedup) => Collapsed(r)

HintsInv ==
    /\ rowHints = {}
    /\ \A r \in Run : pc[r] \in BeforeDedup => hinted[r] = {}
    /\ \A r \in Run : Past(r, AfterDedup) => hinted[r] = ConfigTags(r)

StatsInv ==
    \A r \in Run :
        /\ Past(r, AfterDedup) => deduped[r] = Cardinality(Rows(r) \ LiveRows(r))
        /\ status[r] = "finished" => stats[r] = ComputedStats(r)

ViewInv ==
    \A r \in Run :
        /\ pc[r] \in {"loadFindings", "report", "done"} => view[r].stats = stats[r]
        /\ pc[r] \in {"report", "done"} =>
              /\ view[r].findings = local[r]
              /\ view[r].errors = errors[r]
              /\ view[r].hints = ConfigTags(r)

\* Every part is preserved by every step, given the parts before it.
IInv ==
    /\ TypeOK
    /\ StatusInv
    /\ RowsInv
    /\ DetectInv
    /\ DedupInv
    /\ HintsInv
    /\ StatsInv
    /\ ViewInv

-----------------------------------------------------------------------------
(* Refinement: a run is sealed when its status is finished.                *)

Ledger == INSTANCE RunLedger WITH
    recorded <- [r \in Run |-> Rows(r)],
    kept     <- [r \in Run |-> LiveRows(r)],
    sealed   <- {r \in Run : status[r] = "finished"}

\* The interleaved statements of any number of scans, dying anywhere, behave
\* like the ledger: findings are added to a run one at a time, collapsed in
\* one step to the best of each fingerprint, and final once the run is sealed.
ImplementsLedger == Ledger!LedgerSpec
=============================================================================
