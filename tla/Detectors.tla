----------------------------- MODULE Detectors ------------------------------
(***************************************************************************)
(* One scan's detectors, from the registry's resolve() to the end of the    *)
(* loop in scan::run: cargo-audit, which awaits a subprocess, and llm-toy,  *)
(* which reads files and asks the model about each.  ScanPipeline sees of   *)
(* this only what each detector returns.  A detector gets a deadline and a  *)
(* cancellation token.  scan::run keeps no copy of the token, so it cannot  *)
(* cancel; another caller, like the detectors' tests, can.                  *)
(***************************************************************************)
EXTENDS Integers, SequencesExt, FiniteSetsExt

CONSTANTS
    Requests,    \* the requests a scan may start from, see below
    Defaults,    \* llm-toy's defaults for its four options
    Timeout,     \* scan.detector_timeout_s
    MaxTime,     \* bound: the clock's last tick
    MaxReported  \* bound: issues of one answer, advisories of one report

Factories == <<"cargo-audit", "llm-toy">>
Id == ToSet(Factories)

ToyOptions == {"max_files", "extensions", "max_bytes_per_file",
               "max_findings_per_file"}
ToyNumbers == ToyOptions \ {"extensions"}
AuditOptions == {"no_fetch", "cargo_path"}

(***************************************************************************)
(* A request: the --detector ids, the [detectors.<id>] sections (functions  *)
(* from option names, empty when absent), strict, whether the workspace has *)
(* a Cargo.lock, the files a walk of it yields with their extensions (their *)
(* numbers are the order of their paths), and whether the caller can cancel.*)
(* A number that the parsers know is an integer.                            *)
(***************************************************************************)
ASSUME RequestsAssumption ==
    /\ Timeout \in Nat /\ MaxTime \in Nat /\ MaxReported \in Nat
    /\ DOMAIN Defaults = ToyOptions
    /\ \A o \in ToyNumbers : Defaults[o] \in Nat \ {0}
    /\ \A q \in Requests :
          /\ DOMAIN q.section = Id
          /\ \A o \in DOMAIN q.section["llm-toy"] \cap ToyNumbers :
                q.section["llm-toy"][o] \in Int
          /\ DOMAIN q.files \subseteq Nat /\ IsFiniteSet(DOMAIN q.files)

VARIABLES
    request,    \* the request, chosen once
    phase,      \* of the detector loop
    queue,      \* resolved detectors that have not returned, with params
    step,       \* where the detector at the queue's head is
    now,        \* the clock
    deadline,   \* DetectorCtx::deadline of the running detector
    cancelled,  \* the running detector's token is cancelled
    files,      \* llm-toy: collected files it has not done with
    found,      \* the running detector's findings
    returned,   \* history: every return, with the findings it carried
    answered,   \* history: issues the model reported for each file
    tried,      \* history: the files llm-toy tried
    late        \* history: requests sent when cancelled or past the deadline

control == <<request, phase, queue, step>>
history == <<answered, tried, late>>
vars == <<control, now, deadline, cancelled, files, found, returned, history>>

Step == {"none", "begin", "next", "read", "ask", "audit"}
Outcome == {"ok", "params", "cancelled", "timeout", "tool", "subprocess", "io",
            "parse"}
Finding == [detector : Id, of : Nat]

\* Every variable has a value of its type; no detector's params say `enabled`.
DetectorsTypeOK ==
    /\ request \in Requests
    /\ phase \in {"resolve", "loop", "done", "bailed"}
    /\ \A i \in DOMAIN queue :
          queue[i].id \in Id /\ "enabled" \notin DOMAIN queue[i].params
    /\ step \in Step
    /\ now \in 0..MaxTime /\ deadline \in 0..(MaxTime + Timeout)
    /\ cancelled \in BOOLEAN
    /\ files \in Seq(DOMAIN request.files)
    /\ found \in Seq(Finding)
    /\ returned \in Seq([id : Id, outcome : Outcome, findings : Seq(Finding)])
    /\ answered \in [DOMAIN request.files -> 0..MaxReported]
    /\ tried \subseteq DOMAIN request.files
    /\ late \in Nat

Init ==
    /\ request \in Requests
    /\ phase = "resolve" /\ queue = << >> /\ step = "none"
    /\ now = 0 /\ deadline = 0 /\ cancelled = FALSE
    /\ files = << >> /\ found = << >> /\ returned = << >>
    /\ answered = [f \in DOMAIN request.files |-> 0]
    /\ tried = {} /\ late = 0

-----------------------------------------------------------------------------
(* The registry                                                            *)

IsDisabled(section) == "enabled" \in DOMAIN section /\ section["enabled"] = FALSE

\* Mutant: `enabled` stays in the params.
NotStripped(section) == section

StripEnabled(section) == Restrict(section, DOMAIN section \ {"enabled"})

\* Mutant: an explicit request does not override `enabled = false`.
SelectedIfEnabled(id) ==
    (request.filter = {} \/ id \in request.filter) /\ ~ IsDisabled(request.section[id])

\* `enabled = false` counts unless --detector names the detector.
Selected(id) ==
    LET explicit == id \in request.filter
    IN  /\ request.filter = {} \/ explicit
        /\ explicit \/ ~ IsDisabled(request.section[id])

\* What becomes of a factory: nothing, or its detector with its params.
Resolved(id) ==
    IF Selected(id) THEN <<[id |-> id, params |-> StripEnabled(request.section[id])]>>
                    ELSE << >>

Resolve ==
    /\ phase = "resolve" /\ phase' = "loop"
    /\ queue' = FlattenSeq([i \in DOMAIN Factories |-> Resolved(Factories[i])])
    /\ UNCHANGED <<request, step, now, deadline, cancelled, files, found, returned,
                   history>>

-----------------------------------------------------------------------------
(* The detector loop of scan::run                                          *)

\* A fresh token and a deadline; the next detector's run() is called.
StartDetector ==
    /\ phase = "loop" /\ step = "none" /\ queue # << >>
    /\ step' = "begin"
    /\ deadline' = now + Timeout
    /\ cancelled' = FALSE
    /\ found' = << >>
    /\ late' = 0
    /\ UNCHANGED <<request, phase, queue, now, files, returned, answered, tried>>

\* The running detector's run() returns; Ok's findings are added to those of
\* the others, an error carries none, and a strict scan bails at it.
Return(outcome, findings) ==
    /\ returned' = Append(returned, [id |-> Head(queue).id, outcome |-> outcome,
                                     findings |-> findings])
    /\ queue' = Tail(queue) /\ step' = "none"
    /\ phase' = IF outcome # "ok" /\ request.strict THEN "bailed" ELSE phase
    /\ UNCHANGED <<request, now, deadline, cancelled, found>>

LoopEnds ==
    /\ phase = "loop" /\ step = "none" /\ queue = << >>
    /\ phase' = "done"
    /\ UNCHANGED <<request, queue, step, now, deadline, cancelled, files, found,
                   returned, history>>

Running(id, s) == step = s /\ Head(queue).id = id
Goto(s) == step' = s /\ UNCHANGED <<request, phase, queue, now, deadline, cancelled,
                                   returned>>

-----------------------------------------------------------------------------
(* llm-toy                                                                 *)

\* Mutant: a number may be 0.
ToyAcceptsZero(p) == DOMAIN p \subseteq ToyOptions

\* parse_params: only known options, and the numbers at least 1.
ToyAccepts(p) ==
    /\ DOMAIN p \subseteq ToyOptions
    /\ \A o \in DOMAIN p \ {"extensions"} : p[o] >= 1

\* The options given, and the defaults of the others.
WithDefaults(p) == [o \in ToyOptions |-> IF o \in DOMAIN p THEN p[o] ELSE Defaults[o]]

ToyParams == WithDefaults(Head(queue).params)

Smaller(m, n) == IF m < n THEN m ELSE n

\* The files with a wanted extension.
Matching(p) == {f \in DOMAIN request.files : request.files[f] \in p["extensions"]}

\* The elements of S, the smallest first.
Sorted(S) ==
    CHOOSE s \in [1..Cardinality(S) -> S] : \A i, j \in DOMAIN s : i < j => s[i] < s[j]

\* collect_files: the matching files, sorted, then truncated.
CollectFiles(p) ==
    SubSeq(Sorted(Matching(p)), 1, Smaller(p["max_files"], Cardinality(Matching(p))))

ToyRejects ==
    /\ Running("llm-toy", "begin") /\ ~ ToyAccepts(Head(queue).params)
    /\ Return("params", << >>)
    /\ UNCHANGED <<files, history>>

ToyCollects ==
    /\ Running("llm-toy", "begin") /\ ToyAccepts(Head(queue).params)
    /\ files' = CollectFiles(ToyParams)
    /\ Goto("next")
    /\ UNCHANGED <<found, history>>

ToyCancelled ==
    /\ Running("llm-toy", "next") /\ files # << >> /\ cancelled
    /\ Return("cancelled", << >>)
    /\ UNCHANGED <<files, history>>

\* Mutant: at the deadline the files so far are returned as Ok.
ToyTimesOutWithFindings ==
    /\ Running("llm-toy", "next") /\ files # << >> /\ ~ cancelled /\ now >= deadline
    /\ Return("ok", found)
    /\ UNCHANGED <<files, history>>

\* The error replaces the findings of the files before.
ToyTimesOut ==
    /\ Running("llm-toy", "next") /\ files # << >> /\ ~ cancelled /\ now >= deadline
    /\ Return("timeout", << >>)
    /\ UNCHANGED <<files, history>>

\* Mutant: the token and the deadline are looked at before the first file only.
ToyReadsUnchecked ==
    /\ Running("llm-toy", "next") /\ files # << >>
    /\ tried # {} \/ (~ cancelled /\ now < deadline)
    /\ tried' = tried \cup {Head(files)}
    /\ Goto("read")
    /\ UNCHANGED <<files, found, answered, late>>

\* Neither cancelled nor late: the next file is opened.
ToyReads ==
    /\ Running("llm-toy", "next") /\ files # << >> /\ ~ cancelled /\ now < deadline
    /\ tried' = tried \cup {Head(files)}
    /\ Goto("read")
    /\ UNCHANGED <<files, found, answered, late>>

\* A file that cannot be read, an agent error, or an answer that does not fit
\* the schema: the file is skipped.
ToySkips ==
    /\ Running("llm-toy", "read") \/ Running("llm-toy", "ask")
    /\ files' = Tail(files)
    /\ Goto("next")
    /\ UNCHANGED <<found, history>>

\* The file is read; the model is asked.  Neither token nor deadline is
\* looked at between the two awaits.
ToyAsks ==
    /\ Running("llm-toy", "read")
    /\ late' = IF cancelled \/ now >= deadline THEN late + 1 ELSE late
    /\ Goto("ask")
    /\ UNCHANGED <<files, found, answered, tried>>

\* take(min(issues, max_findings_per_file)).
Taken(n) == Smaller(n, ToyParams["max_findings_per_file"])

\* issue_to_finding, of the file it is about.
IssueToFinding(file) == [detector |-> "llm-toy", of |-> file]

\* structured() answers with n issues.
ToyAnswered(n) ==
    /\ Running("llm-toy", "ask")
    /\ answered' = [answered EXCEPT ![Head(files)] = n]
    /\ found' = found \o [i \in 1..Taken(n) |-> IssueToFinding(Head(files))]
    /\ files' = Tail(files)
    /\ Goto("next")
    /\ UNCHANGED <<tried, late>>

ToyFinishes ==
    /\ Running("llm-toy", "next") /\ files = << >>
    /\ Return("ok", found)
    /\ UNCHANGED <<files, history>>

-----------------------------------------------------------------------------
(* cargo-audit                                                             *)

\* parse_params: only known options.
AuditAccepts(p) == DOMAIN p \subseteq AuditOptions

\* Without a Cargo.lock the params are not even parsed.
AuditSkips ==
    /\ Running("cargo-audit", "begin") /\ ~ request.lockfile
    /\ Return("ok", << >>)
    /\ UNCHANGED <<files, history>>

AuditRejects ==
    /\ Running("cargo-audit", "begin") /\ request.lockfile
    /\ ~ AuditAccepts(Head(queue).params)
    /\ Return("params", << >>)
    /\ UNCHANGED <<files, history>>

\* The select!: the subprocess's output or the token, not the deadline.
AuditSpawns ==
    /\ Running("cargo-audit", "begin") /\ request.lockfile
    /\ AuditAccepts(Head(queue).params)
    /\ Goto("audit")
    /\ UNCHANGED <<files, found, history>>

\* Mutant: the select! has no arm for the token.
AuditIgnoresToken == FALSE /\ UNCHANGED vars

AuditCancelled ==
    /\ Running("cargo-audit", "audit") /\ cancelled
    /\ Return("cancelled", << >>)
    /\ UNCHANGED <<files, history>>

\* No cargo or no audit subcommand; another I/O error; no output; no JSON.
AuditFails ==
    /\ Running("cargo-audit", "audit")
    /\ \E outcome \in {"tool", "io", "subprocess", "parse"} : Return(outcome, << >>)
    /\ UNCHANGED <<files, history>>

\* vuln_to_finding, of the report's n-th advisory.
VulnToFinding(n) == [detector |-> "cargo-audit", of |-> n]

\* A report is parsed whatever the exit code and the time.
AuditReports ==
    /\ Running("cargo-audit", "audit")
    /\ \E n \in 0..MaxReported : Return("ok", [i \in 1..n |-> VulnToFinding(i)])
    /\ UNCHANGED <<files, history>>

-----------------------------------------------------------------------------
\* A caller that kept a clone of the token cancels the running detector.
Cancel ==
    /\ request.cancellable /\ step # "none" /\ ~ cancelled
    /\ cancelled' = TRUE
    /\ UNCHANGED <<control, now, deadline, files, found, returned, history>>

Tick ==
    /\ phase = "loop" /\ now < MaxTime
    /\ now' = now + 1
    /\ UNCHANGED <<control, deadline, cancelled, files, found, returned, history>>

ToyStep ==
    \/ ToyRejects \/ ToyCollects \/ ToyCancelled \/ ToyTimesOut \/ ToyReads
    \/ ToySkips \/ ToyAsks \/ ToyFinishes
    \/ \E n \in 0..MaxReported : ToyAnswered(n)

AuditStep == AuditSkips \/ AuditRejects \/ AuditSpawns \/ AuditCancelled

\* What the scan does without the subprocess.
OwnStep == Resolve \/ StartDetector \/ LoopEnds \/ ToyStep \/ AuditStep

Subprocess == AuditFails \/ AuditReports

Next == OwnStep \/ Subprocess \/ Cancel \/ Tick

Spec == Init /\ [][Next]_vars

\* The scan is scheduled, files and the model answer, with an error or not, and
\* time passes.  A subprocess need not end, and nobody has to cancel.
FairSpec == Spec /\ WF_vars(OwnStep) /\ WF_vars(Tick)

-----------------------------------------------------------------------------
(* Safety                                                                  *)

Count(findings, f) ==
    Cardinality({i \in DOMAIN findings : findings[i] = IssueToFinding(f)})

\* When llm-toy returns Ok it tried exactly the first max_files matching files
\* and its findings are what the model answered about them, capped per file:
\* a skipped file loses no other file's findings.  Any error carries none, so
\* no partial result is ever taken for a whole one.
OkMeansEveryFile ==
    \A i \in DOMAIN returned : returned[i].id = "llm-toy" =>
        LET p == WithDefaults(StripEnabled(request.section["llm-toy"]))
            matching == {f \in DOMAIN request.files : request.files[f] \in p["extensions"]}
        IN  IF returned[i].outcome = "ok"
            THEN /\ tried = {f \in matching :
                                Cardinality({g \in matching : g < f}) < p["max_files"]}
                 /\ \A f \in matching :
                       Count(returned[i].findings, f)
                         = Smaller(answered[f], p["max_findings_per_file"])
            ELSE returned[i].findings = << >>

\* Token and deadline are looked at once per file: after a cancellation or the
\* deadline the model is asked at most once more.
OneLateRequest == late <= 1

\* What config_schema() says of a section.
FitsSchema(id) ==
    LET p == Restrict(request.section[id], DOMAIN request.section[id] \ {"enabled"})
    IN  IF id = "llm-toy"
        THEN DOMAIN p \subseteq ToyOptions
             /\ \A o \in DOMAIN p : o # "extensions" => p[o] > 0
        ELSE DOMAIN p \subseteq AuditOptions

\* The registry, which removes `enabled`, and the detectors' own parsers agree
\* with the schemas they publish: only a section that violates its schema is
\* refused, and llm-toy refuses every such section.
RefusesWhatSchemaRefuses ==
    \A i \in DOMAIN returned :
        LET id == returned[i].id
        IN  /\ returned[i].outcome = "params" => ~ FitsSchema(id)
            /\ id = "llm-toy" /\ ~ FitsSchema(id) => returned[i].outcome = "params"

\* A scan that reaches the record loop has run every detector that was asked
\* for by name, disabled or not, or else every one that is not disabled, each
\* once and in registration order, whatever the others returned; and no
\* failed one if it is strict.
RequestedDetectorsRan ==
    phase = "done" =>
        LET wanted == IF request.filter = {}
                      THEN {id \in Id : ~ IsDisabled(request.section[id])}
                      ELSE request.filter \cap Id
        IN  /\ [i \in DOMAIN returned |-> returned[i].id]
                  = FlattenSeq([i \in DOMAIN Factories |->
                        IF Factories[i] \in wanted THEN <<Factories[i]>> ELSE << >>])
            /\ request.strict => \A i \in DOMAIN returned : returned[i].outcome = "ok"

-----------------------------------------------------------------------------
(* Liveness, under FairSpec                                                *)

\* llm-toy always ends, and cargo-audit ends when it is cancelled though its
\* subprocess hangs.
EndsUnlessSubprocessHangs ==
    (step # "none" /\ (Head(queue).id = "llm-toy" \/ cancelled)) ~> step = "none"

\* The contract of a detector (CONTRIBUTING.md): it honours its deadline.
DeadlineEndsDetector == (step # "none" /\ now >= deadline) ~> step = "none"
=============================================================================
