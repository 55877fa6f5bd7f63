---------------------------- MODULE FindingStore ----------------------------
(***************************************************************************)
(* The SQLite finding store (crate ph0b0s-storage) as its clients see it:   *)
(* tables `runs` and `findings`, and one operator for each SQL statement    *)
(* the FindingStore trait issues.  SQLite runs one writing statement at a   *)
(* time, so each statement is one atomic step; load_run is TWO statements   *)
(* and is therefore two operators, RunRow and FindingRows.                  *)
(*                                                                         *)
(* A finding is its ULID, a number (ULIDs are totally ordered, and the      *)
(* dedup statement orders by them).  The columns a finding never changes    *)
(* after the detector built it are functions of the ULID.                   *)
(***************************************************************************)
EXTENDS Naturals, FiniteSets

CONSTANTS
    Run,          \* run ids: one per `ph0b0s scan` process, fresh by Ulid::new
    NoRun,        \* the run of a finding that has no row yet
    NoStats,      \* SQL NULL in the stats column
    Finding,      \* finding ids
    Fingerprint,
    fingerprint,  \* fingerprint[f]
    severity,     \* severity[f], the severity_numeric column in tenths
    confidence    \* confidence[f]

Null == 0         \* SQL NULL in the superseded_by column

ConfidenceWeight == [high |-> 3, medium |-> 2, low |-> 1]

Stats == [total : Nat, suppressed : Nat, deduped : Nat]

ASSUME StoreConstants ==
    /\ NoRun \notin Run
    /\ NoStats \notin Stats
    /\ Finding \subseteq Nat \ {Null}
    /\ IsFiniteSet(Finding)
    /\ fingerprint \in [Finding -> Fingerprint]
    /\ severity \in [Finding -> 0..100]
    /\ confidence \in [Finding -> {"high", "medium", "low"}]

VARIABLES
    status,       \* runs.status, "absent" before the row exists
    clock,        \* the last started_at given out; clocks of one host agree
    startedAt,    \* runs.started_at, as the position in the order of starts
    stats,        \* runs.stats
    runOf,        \* findings.run_id
    supersededBy, \* findings.superseded_by
    rowHints      \* rows whose findings.suppressions column is not '[]'

store == <<status, clock, startedAt, stats, runOf, supersededBy, rowHints>>

Status == {"absent", "started", "finished", "aborted"}

\* runs.stats is NULL until finish_run; load_run reads NULL as the default.
DefaultStats == [total |-> 0, suppressed |-> 0, deduped |-> 0]

StoreTypeOK ==
    /\ status \in [Run -> Status]
    /\ clock \in Nat
    /\ startedAt \in [Run -> Nat]
    /\ stats \in [Run -> Stats \cup {NoStats}]
    /\ runOf \in [Finding -> Run \cup {NoRun}]
    /\ supersededBy \in [Finding -> Finding \cup {Null}]
    /\ rowHints \in SUBSET Finding

\* A database file that no command has used yet.
StoreInit ==
    /\ status = [r \in Run |-> "absent"]
    /\ clock = 0
    /\ startedAt = [r \in Run |-> 0]
    /\ stats = [r \in Run |-> NoStats]
    /\ runOf = [f \in Finding |-> NoRun]
    /\ supersededBy = [f \in Finding |-> Null]
    /\ rowHints = {}

-----------------------------------------------------------------------------
(* Queries                                                                 *)

Rows(r)       == {f \in Finding : runOf[f] = r}
LiveRows(r)   == {f \in Rows(r) : supersededBy[f] = Null}
Begun         == {r \in Run : status[r] # "absent"}

\* ORDER BY severity_numeric DESC, confidence weight DESC, id ASC.
Outranks(f, g) ==
    LET weight(h) == ConfidenceWeight[confidence[h]]
    IN  \/ severity[f] > severity[g]
        \/ severity[f] = severity[g] /\ weight(f) > weight(g)
        \/ severity[f] = severity[g] /\ weight(f) = weight(g) /\ f < g

\* The partition of f in a set of rows, and its first row in that order.
SameFingerprint(S, f) == {g \in S : fingerprint[g] = fingerprint[f]}
Keeper(S, f) == CHOOSE g \in SameFingerprint(S, f) :
                   \A h \in SameFingerprint(S, f) \ {g} : Outranks(g, h)
Losers(S)    == {f \in S : Keeper(S, f) # f}

\* Mutant: load_run does not default a NULL stats column.
BareRunRow(r) == stats[r]

\* Mutant: load_run reads only the rows that dedup kept.
LiveFindingRows(r) == LiveRows(r)

\* The two statements of load_run.  No statement of the store writes
\* runs.errors, so every run is loaded with the column's default, no errors.
RunRow(r)      == IF stats[r] = NoStats THEN DefaultStats ELSE stats[r]
LoadedErrors   == {}
FindingRows(r) == Rows(r)

\* SELECT run_id ... ORDER BY started_at DESC LIMIT 1, whatever the status.
IsLatest(r) == r \in Begun /\ \A q \in Begun : startedAt[q] <= startedAt[r]

-----------------------------------------------------------------------------
(* Statements                                                              *)

\* Mutants: the status is not one of the schema's; the WHERE clause is lost;
\* runs that recorded something do not count as orphans.
CleanupToOrphaned ==
    /\ status' = [r \in Run |-> IF status[r] = "started" THEN "orphaned"
                                                         ELSE status[r]]
    /\ UNCHANGED <<clock, startedAt, stats, runOf, supersededBy, rowHints>>

CleanupEveryRun ==
    /\ status' = [r \in Run |-> IF status[r] # "absent" THEN "aborted"
                                                        ELSE "absent"]
    /\ UNCHANGED <<clock, startedAt, stats, runOf, supersededBy, rowHints>>

CleanupEmptyRuns ==
    /\ status' = [r \in Run |-> IF status[r] = "started" /\ Rows(r) = {}
                                THEN "aborted" ELSE status[r]]
    /\ UNCHANGED <<clock, startedAt, stats, runOf, supersededBy, rowHints>>

CleanupOrphanRuns ==
    /\ status' = [r \in Run |-> IF status[r] = "started" THEN "aborted"
                                                         ELSE status[r]]
    /\ UNCHANGED <<clock, startedAt, stats, runOf, supersededBy, rowHints>>

BeginRun(r) ==
    /\ status[r] = "absent"
    /\ status' = [status EXCEPT ![r] = "started"]
    /\ clock' = clock + 1
    /\ startedAt' = [startedAt EXCEPT ![r] = clock + 1]
    /\ UNCHANGED <<stats, runOf, supersededBy, rowHints>>

\* `tagged`: whether the finding carries suppression hints when it is written.
RecordRow(r, f, tagged) ==
    /\ runOf[f] = NoRun
    /\ status[r] # "absent"
    /\ runOf' = [runOf EXCEPT ![f] = r]
    /\ rowHints' = IF tagged THEN rowHints \cup {f} ELSE rowHints
    /\ UNCHANGED <<status, clock, startedAt, stats, supersededBy>>

\* Mutant: the ranking is not restricted to one run.
DedupAllRows(r) ==
    LET live == {f \in Finding : runOf[f] # NoRun /\ supersededBy[f] = Null}
    IN  /\ supersededBy' = [f \in Finding |-> IF f \in Losers(live)
                                              THEN Keeper(live, f)
                                              ELSE supersededBy[f]]
        /\ UNCHANGED <<status, clock, startedAt, stats, runOf, rowHints>>

DedupRows(r) ==
    LET live == LiveRows(r)
    IN  /\ supersededBy' = [f \in Finding |-> IF f \in Losers(live)
                                              THEN Keeper(live, f)
                                              ELSE supersededBy[f]]
        /\ UNCHANGED <<status, clock, startedAt, stats, runOf, rowHints>>

\* Mutant: the UPDATE has no WHERE clause.
FinishEveryRun(r, st) ==
    /\ status[r] # "absent"
    /\ status' = [status EXCEPT ![r] = "finished"]
    /\ stats' = [q \in Run |-> IF status[q] = "absent" THEN stats[q] ELSE st]
    /\ UNCHANGED <<clock, startedAt, runOf, supersededBy, rowHints>>

\* UPDATE ... WHERE run_id = ?: the statement does not look at the status.
FinishRun(r, st) ==
    /\ status[r] # "absent"
    /\ status' = [status EXCEPT ![r] = "finished"]
    /\ stats' = [stats EXCEPT ![r] = st]
    /\ UNCHANGED <<clock, startedAt, runOf, supersededBy, rowHints>>

=============================================================================
