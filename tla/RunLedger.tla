------------------------------ MODULE RunLedger ------------------------------
(***************************************************************************)
(* What the FindingStore promises the rest of the program, without rows,    *)
(* statements or processes: a run collects findings, is collapsed to the    *)
(* best finding of each fingerprint, is sealed, and never changes again.    *)
(***************************************************************************)
CONSTANTS Run, Finding, fingerprint, Outranks(_, _)

VARIABLES
    recorded,   \* recorded[r]: the findings of run r
    kept,       \* kept[r]: those that represent their fingerprint
    sealed      \* the runs that are final

ledger == <<recorded, kept, sealed>>

Best(S) == {f \in S : \A g \in S \ {f} :
               fingerprint[g] = fingerprint[f] => Outranks(f, g)}

LedgerInit ==
    /\ recorded = [r \in Run |-> {}]
    /\ kept = [r \in Run |-> {}]
    /\ sealed = {}

\* A finding belongs to one run, and is recorded before the run is collapsed.
RecordFinding(r, f) ==
    /\ r \notin sealed /\ kept[r] = recorded[r]
    /\ \A q \in Run : f \notin recorded[q]
    /\ recorded' = [recorded EXCEPT ![r] = @ \cup {f}]
    /\ kept' = [kept EXCEPT ![r] = @ \cup {f}]
    /\ UNCHANGED sealed

Collapse(r) ==
    /\ r \notin sealed
    /\ kept' = [kept EXCEPT ![r] = Best(@)]
    /\ UNCHANGED <<recorded, sealed>>

Seal(r) ==
    /\ r \notin sealed /\ kept[r] = Best(recorded[r])
    /\ sealed' = sealed \cup {r}
    /\ UNCHANGED <<recorded, kept>>

LedgerNext == \E r \in Run :
    \/ \E f \in Finding : RecordFinding(r, f)
    \/ Collapse(r)
    \/ Seal(r)

LedgerSpec == LedgerInit /\ [][LedgerNext]_ledger
=============================================================================
