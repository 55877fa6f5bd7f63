----------------------------- MODULE Reporters ------------------------------
(***************************************************************************)
(* What becomes of findings outside the database: severities and their      *)
(* bands, fingerprints, the stats, and what the three reporters and the      *)
(* summary say of a result.  Text is left out, except where two renderings   *)
(* have to agree.                                                           *)
(***************************************************************************)
EXTENDS Integers, SequencesExt, FiniteSetsExt

CONSTANT RuleOrder  \* the rule ids, in alphabetical order

ASSUME RuleOrderAssumption ==
    /\ RuleOrder \in Seq(ToSet(RuleOrder))
    /\ \A i, j \in DOMAIN RuleOrder : RuleOrder[i] = RuleOrder[j] => i = j

Levels     == <<"none", "low", "medium", "high", "critical">>
Level      == ToSet(Levels)
Confidence == {"low", "medium", "high"}

-----------------------------------------------------------------------------
(* Severity; scores are in tenths                                          *)

Qualitative(level) == [kind |-> "qualitative", level |-> level]
Cvss31(score)      == [kind |-> "cvss31", score |-> score]

\* Mutant: the number of a level lies in the band below it.
CriticalBelowNine == [none |-> 0, low |-> 30, medium |-> 55, high |-> 75, critical |-> 85]

Severity == [kind : {"qualitative"}, level : Level] \cup [kind : {"cvss31"}, score : Int]

LevelNumeric == [none |-> 0, low |-> 30, medium |-> 55, high |-> 75, critical |-> 95]

Clamp(score) == IF score < 0 THEN 0 ELSE IF score > 100 THEN 100 ELSE score

Numeric(severity) ==
    IF severity.kind = "qualitative" THEN LevelNumeric[severity.level]
    ELSE Clamp(severity.score)

BucketFromNumeric(n) ==
    CASE n <= 0 -> "none"
      [] n > 0 /\ n < 40 -> "low"
      [] n >= 40 /\ n < 70 -> "medium"
      [] n >= 70 /\ n < 90 -> "high"
      [] OTHER -> "critical"

QualitativeBucket(severity) ==
    IF severity.kind = "qualitative" THEN severity.level
    ELSE BucketFromNumeric(Numeric(severity))

-----------------------------------------------------------------------------
(* What the detectors report                                               *)

\* An advisory without a CVSS 3 vector that parses counts as medium.
SeverityFromAdvisory(cvss) ==
    IF cvss \in Int THEN Cvss31(cvss) ELSE Qualitative("medium")

\* The model's word for a severity, in any case; an unknown word is medium.
ParseLevel(word) == IF word \in Level \ {"none"} THEN word ELSE "medium"

Symbolic(package, version) ==
    [kind |-> "symbolic", package |-> package, version |-> version]

\* A path is its segments and the separator it was written with.
File(segments, separator, line) ==
    [kind |-> "file", path |-> segments, separator |-> separator,
     start |-> line, end |-> line]

\* The place without separators: what Fingerprint::compute hashes.
CanonicalLocation(loc) ==
    IF loc.kind = "file" THEN <<"file", loc.path, loc.start, loc.end>>
    ELSE <<"pkg", loc.package, loc.version>>

\* SHA-256 of rule and place; different inputs are taken to hash differently.
Fingerprint(rule, loc) == <<rule, CanonicalLocation(loc)>>

NewFinding(detector, rule, title, severity, confidence, loc) ==
    [detector |-> detector, rule |-> rule, title |-> title, severity |-> severity,
     confidence |-> confidence, location |-> loc,
     fingerprint |-> Fingerprint(rule, loc), suppressions |-> << >>]

\* The rule is the advisory; without a title its id and the package are one.
AdvisoryFinding(advisory) ==
    NewFinding("cargo-audit", advisory.id,
               IF advisory.title = "" THEN <<advisory.id, advisory.package>>
               ELSE <<advisory.title>>,
               SeverityFromAdvisory(advisory.cvss), "high",
               Symbolic(advisory.package, advisory.version))

\* The rule is a hash of the message; line 0 becomes 1.
IssueFinding(segments, separator, issue) ==
    NewFinding("llm-toy", issue.message, <<issue.message>>,
               Qualitative(ParseLevel(issue.severity)), "low",
               File(segments, separator, IF issue.line > 1 THEN issue.line ELSE 1))

-----------------------------------------------------------------------------
(* Counting                                                                *)

AtLevel(findings, level) ==
    Cardinality({i \in DOMAIN findings : QualitativeBucket(findings[i].severity) = level})

\* compute_stats over the findings in memory.
ComputeStats(findings, deduped) ==
    [by_severity |-> [l \in {l \in Level : AtLevel(findings, l) > 0} |->
                         AtLevel(findings, l)],
     total |-> Len(findings),
     suppressed |-> Cardinality({i \in DOMAIN findings : findings[i].suppressions # << >>}),
     deduped |-> deduped]

\* severity_counts of the Markdown report.
SeverityCounts(findings) == [l \in Level |-> AtLevel(findings, l)]

-----------------------------------------------------------------------------
(* SARIF                                                                   *)

SeverityToLevel(level) ==
    CASE level \in {"critical", "high"} -> "error"
      [] level = "medium" -> "warning"
      [] OTHER -> "note"

First(findings, rule) ==
    findings[CHOOSE i \in DOMAIN findings :
                /\ findings[i].rule = rule
                /\ \A j \in 1..(i - 1) : findings[j].rule # rule]

\* Mutant: a rule for every finding.
RulePerFinding(findings) ==
    [i \in DOMAIN findings |-> [id |-> findings[i].rule, title |-> findings[i].title,
                                detector |-> findings[i].detector]]

\* One rule per id, in order; its description is that of its first finding.
BuildRules(findings) ==
    LET used(rule) == \E i \in DOMAIN findings : findings[i].rule = rule
        entry(f)   == [id |-> f.rule, title |-> f.title, detector |-> f.detector]
    IN  FlattenSeq([k \in DOMAIN RuleOrder |->
                       IF used(RuleOrder[k]) THEN <<entry(First(findings, RuleOrder[k]))>>
                       ELSE << >>])

\* A region's end line is written only when it is not its start line.
BuildLocation(loc) ==
    IF loc.kind = "symbolic" THEN <<"logical", loc.package, loc.version>>
    ELSE <<"physical", loc.path, loc.separator, loc.start>>
           \o (IF loc.start # loc.end THEN <<loc.end>> ELSE << >>)

BuildSuppression(reason) == [kind |-> "external", justification |-> reason]

BuildResult(f) ==
    [ruleId |-> f.rule,
     level |-> SeverityToLevel(QualitativeBucket(f.severity)),
     security_severity |-> Numeric(f.severity),
     confidence |-> f.confidence,
     location |-> BuildLocation(f.location),
     fingerprint |-> f.fingerprint,
     suppressions |-> [i \in DOMAIN f.suppressions |->
                          BuildSuppression(f.suppressions[i])]]

Sarif(result) ==
    [rules |-> BuildRules(result.findings),
     results |-> [i \in DOMAIN result.findings |-> BuildResult(result.findings[i])]]

-----------------------------------------------------------------------------
(* Markdown, and the summary on the terminal                               *)

FormatLocation(loc) ==
    IF loc.kind = "symbolic" THEN <<loc.package, loc.version>>
    ELSE <<loc.path, loc.separator, loc.start>>
           \o (IF loc.start # loc.end THEN <<loc.end>> ELSE << >>)

RenderFinding(f) ==
    [rule |-> f.rule, title |-> f.title, level |-> QualitativeBucket(f.severity),
     detector |-> f.detector, confidence |-> f.confidence,
     numeric |-> Numeric(f.severity), location |-> FormatLocation(f.location),
     fingerprint |-> f.fingerprint, hints |-> Len(f.suppressions)]

\* Without findings the report ends after the errors.
Markdown(result) ==
    [total |-> Len(result.findings),
     table |-> SeverityCounts(result.findings),
     errors |-> result.errors,
     findings |-> [i \in DOMAIN result.findings |-> RenderFinding(result.findings[i])]]

\* print_summary: only the levels that occur, and the errors.
Summary(result) ==
    [findings |-> Len(result.findings),
     levels |-> [l \in {l \in Level : AtLevel(result.findings, l) > 0} |->
                    AtLevel(result.findings, l)],
     errors |-> result.errors]
=============================================================================
