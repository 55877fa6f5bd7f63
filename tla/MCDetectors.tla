----------------------------- MODULE MCDetectors ----------------------------
(***************************************************************************)
(* Requests for TLC: three source files, one of another language, and       *)
(* sections that are absent, well formed, disabled, or break the schema.    *)
(***************************************************************************)
EXTENDS Detectors

MCDefaults == [max_files |-> 2, extensions |-> {"rs"}, max_bytes_per_file |-> 1,
               max_findings_per_file |-> 1]

NoSection == [o \in {} |-> 0]
On        == [enabled |-> TRUE]
Off       == [enabled |-> FALSE]

ToySections ==
    {NoSection, Off,
     [enabled |-> TRUE, max_files |-> 1],
     [enabled |-> FALSE, max_findings_per_file |-> 2],
     [extensions |-> {"rs", "py"}, max_files |-> 3],
     [max_files |-> 0], [max_file |-> 1]}
AuditSections ==
    {NoSection, On, Off, [no_fetch |-> TRUE], [fetch |-> TRUE]}

MCFiles == (1 :> "rs") @@ (2 :> "py") @@ (3 :> "rs")

Request(filter, audit, toy, strict, lockfile, cancellable) ==
    [filter |-> filter, section |-> ("cargo-audit" :> audit) @@ ("llm-toy" :> toy),
     strict |-> strict, lockfile |-> lockfile, files |-> MCFiles,
     cancellable |-> cancellable]

\* Every section of one detector, beside a plain one of the other; each
\* detector alone, disabled or not; strict or not.
MCRequests ==
    {Request({}, NoSection, toy, FALSE, FALSE, TRUE) : toy \in ToySections}
    \cup {Request({}, audit, Off, strict, TRUE, cancellable) :
             audit \in AuditSections, strict, cancellable \in BOOLEAN}
    \cup {Request({"llm-toy"}, On, toy, TRUE, TRUE, FALSE) : toy \in ToySections}
    \cup {Request({"cargo-audit", "semgrep"}, audit, On, FALSE, lockfile, FALSE) :
             audit \in AuditSections, lockfile \in BOOLEAN}
    \cup {Request({}, On, NoSection, strict, TRUE, FALSE) : strict \in BOOLEAN}
=============================================================================
