-------------------------- MODULE ScanCommandProofs --------------------------
(***************************************************************************)
(* Theorems of ScanCommand: for every set of worlds, every list of reports    *)
(* and every interleaving with the background writes.                        *)
(***************************************************************************)
EXTENDS ScanCommand, DataLemmas, TLAPS

\* What the process knows of strictness: errors survive only a scan that is not
\* strict, and it says success only for such a scan.
Strictness ==
    /\ world \in Worlds
    /\ phase \in {"config_check", "mcp_list", "scan"} => phase = world.command
    /\ phase \in {"config_check", "mcp_list", "scan", "run"} => config = Merged(world)
    /\ phase = "report" => result.ok
    /\ code = 0 /\ world.command = "scan" => result.ok
    /\ result.ok /\ (world.strict \/ Setting(Merged(world), <<"scan", "strict">>) = "true")
       => result.errors = << >>

\* StrictScansReportNoErrors, for every world: the strict flag of a scan is that
\* of the settings it loaded, and run() lets no error past it.
THEOREM StrictnessHolds == Spec => []StrictScansReportNoErrors
<1>1. Init => Strictness
  BY DEF Init, Strictness, None
<1>2. Strictness /\ [Next]_vars => Strictness'
  <2> SUFFICES ASSUME Strictness, [Next]_vars PROVE Strictness'
    OBVIOUS
  <2> USE DEF Strictness, Exits, settings, writing
  <2>1. CASE Load
    <3>1. world.command \in {"scan", "config_check", "mcp_list"}
      BY WorldsAssumption
    <3> QED
      BY <2>1, <3>1 DEF Load
  <2>2. CASE LoadFails
    BY <2>2 DEF LoadFails
  <2>3. CASE ConfigCheck
    BY <2>3 DEF ConfigCheck
  <2>4. CASE McpList
    BY <2>4 DEF McpList
  <2>5. CASE BuildAgent
    BY <2>5 DEF BuildAgent
  <2>6. ASSUME NEW o \in world.outcomes, Run(o) PROVE Strictness'
    BY <2>6 DEF Run, Strict
  <2>7. CASE Create
    BY <2>7 DEF Create
  <2>8. CASE CreateFails
    BY <2>8 DEF CreateFails
  <2>9. CASE HandOver
    BY <2>9 DEF HandOver
  <2>10. CASE ErrorSurfaces
    BY <2>10 DEF ErrorSurfaces
  <2>11. CASE Close
    BY <2>11 DEF Close
  <2>12. CASE ReportsDone
    BY <2>12 DEF ReportsDone
  <2>13. ASSUME NEW op \in inflight, Lands(op) PROVE Strictness'
    BY <2>13 DEF Lands
  <2>14. ASSUME NEW op \in inflight, Fails(op) PROVE Strictness'
    BY <2>14 DEF Fails
  <2>15. CASE Exit
    BY <2>15 DEF Exit
  <2>16. CASE Killed
    BY <2>16 DEF Killed
  <2>17. CASE UNCHANGED vars
    BY <2>17 DEF vars
  <2> QED
    BY <2>1, <2>2, <2>3, <2>4, <2>5, <2>6, <2>7, <2>8, <2>9, <2>10, <2>11, <2>12,
       <2>13, <2>14, <2>15, <2>16, <2>17 DEF Next, Progress
<1>3. Strictness => StrictScansReportNoErrors
  BY DEF Strictness, StrictScansReportNoErrors, Markdown, Summary
<1> QED
  BY <1>1, <1>2, <1>3, PTL DEF Spec

-----------------------------------------------------------------------------
(* Severities                                                              *)

\* bucket_from_numeric: the bands of the numbers, and of the levels' numbers.
Band(l, n) ==
    /\ l = "none" => n = 0
    /\ l = "low" => n \in 1..39
    /\ l = "medium" => n \in 40..69
    /\ l = "high" => n \in 70..89
    /\ l = "critical" => n \in 90..100

\* severity.rs, Level: there are these five.
LEMMA LevelsAreFive == Level = {"none", "low", "medium", "high", "critical"}
<1>1. DOMAIN Levels = 1..5
  BY DEF Levels
<1>2. Level = {Levels[1], Levels[2], Levels[3], Levels[4], Levels[5]}
  BY <1>1 DEF Level, ToSet
<1> QED
  BY <1>2 DEF Levels

\* severity.rs, numeric: the number that stands for each level.
LEMMA NumberOfLevel ==
    /\ LevelNumeric["none"] = 0 /\ LevelNumeric["low"] = 30
    /\ LevelNumeric["medium"] = 55 /\ LevelNumeric["high"] = 75
    /\ LevelNumeric["critical"] = 95
  BY DEF LevelNumeric

\* A severity's number lies in the band of the level it is shown with.
LEMMA NumberInBand ==
    ASSUME NEW s \in Severity
    PROVE  QualitativeBucket(s) \in Level /\ Band(QualitativeBucket(s), Numeric(s))
<1>1. CASE s \in [kind : {"qualitative"}, level : Level]
  <2>1. s.kind = "qualitative" /\ s.level \in Level
    BY <1>1
  <2>2. QualitativeBucket(s) = s.level /\ Numeric(s) = LevelNumeric[s.level]
    BY <2>1 DEF QualitativeBucket, Numeric
  <2> QED
    BY <2>1, <2>2, LevelsAreFive, NumberOfLevel DEF Band
<1>2. CASE s \in [kind : {"cvss31"}, score : Int]
  <2>0. s.kind = "cvss31" /\ s.score \in Int
    BY <1>2
  <2>1. Numeric(s) \in 0..100 /\ QualitativeBucket(s) = BucketFromNumeric(Numeric(s))
    BY <2>0 DEF Numeric, Clamp, QualitativeBucket
  <2> QED
    <3> DEFINE n == Numeric(s)
    <3> SUFFICES BucketFromNumeric(n) \in Level /\ Band(BucketFromNumeric(n), n)
      BY <2>1
    <3> HIDE DEF n
    <3>1. n \in 0..100
      BY <2>1 DEF n
    <3>2. CASE n = 0
      BY <3>2, LevelsAreFive DEF BucketFromNumeric, Band
    <3>3. CASE n \in 1..39
      BY <3>3, LevelsAreFive DEF BucketFromNumeric, Band
    <3>4. CASE n \in 40..69
      BY <3>4, LevelsAreFive DEF BucketFromNumeric, Band
    <3>5. CASE n \in 70..89
      BY <3>5, LevelsAreFive DEF BucketFromNumeric, Band
    <3>6. CASE n \in 90..100
      BY <3>6, LevelsAreFive DEF BucketFromNumeric, Band
    <3> QED
      BY <3>1, <3>2, <3>3, <3>4, <3>5, <3>6
<1> QED
  BY <1>1, <1>2 DEF Severity

\* For every two severities: the higher number is never shown with the lower level.
LEMMA HigherNumberNoLowerLevel ==
    ASSUME NEW f \in Severity, NEW g \in Severity, Numeric(f) > Numeric(g)
    PROVE  LevelNumeric[QualitativeBucket(f)] >= LevelNumeric[QualitativeBucket(g)]
<1>1. \A s \in Severity : /\ QualitativeBucket(s) \in Level
                          /\ Band(QualitativeBucket(s), Numeric(s))
  BY NumberInBand
<1>2. \A l \in Level : \A n : Band(l, n) => n \in 0..100 /\ LevelNumeric[l] \in Int
  BY LevelsAreFive, NumberOfLevel DEF Band
<1>3. \A l, m \in Level : \A a, b \in 0..100 :
         Band(l, a) /\ Band(m, b) /\ a > b => LevelNumeric[l] >= LevelNumeric[m]
  BY LevelsAreFive, NumberOfLevel DEF Band
<1> QED
  BY <1>1, <1>2, <1>3

\* RankingFollowsBuckets: what a scan returns has such severities, and no step
\* changes a result that is there.
THEOREM RankingHolds == Spec => []RankingFollowsBuckets
<1> DEFINE Severities == /\ world \in Worlds
                         /\ result.ok => \A i \in DOMAIN result.findings :
                                            result.findings[i].severity \in Severity
<1>1. Init => Severities
  BY DEF Init, None
<1>2. Severities /\ [Next]_vars => Severities'
  <2> SUFFICES ASSUME Severities, [Next]_vars PROVE Severities'
    OBVIOUS
  <2>1. ASSUME NEW o \in world.outcomes, Run(o) PROVE Severities'
    <3>1. o.ok => \A i \in DOMAIN o.findings : o.findings[i].severity \in Severity
      BY WorldsAssumption
    <3> QED
      BY <2>1, <3>1 DEF Run
  <2>2. CASE UNCHANGED <<world, result>>
    BY <2>2
  <2> HIDE DEF Severities
  <2>3. \/ \E o \in world.outcomes : Run(o)
        \/ UNCHANGED <<world, result>>
    BY DEF Next, Progress, Load, LoadFails, ConfigCheck, McpList, BuildAgent, Create,
           CreateFails, HandOver, ErrorSurfaces, Close, ReportsDone, Lands, Fails, Exit,
           Killed, settings, vars
  <2> QED
    BY <2>1, <2>2, <2>3
<1>3. Severities => RankingFollowsBuckets
  BY HigherNumberNoLowerLevel DEF RankingFollowsBuckets
<1> QED
  BY <1>1, <1>2, <1>3, PTL DEF Spec

-----------------------------------------------------------------------------
(* Reports                                                                 *)

Body(i)     == [report |-> i, chunk |-> "body"]
Landed(i)   == InFile(Body(i), reports[i].path) \in disk
OwnPath(i)  == \A j \in DOMAIN reports \ {i} : reports[j].path # reports[i].path
TwoWrites(i) == reports[i].kind # "markdown"

\* Why the body of a closed report is in its file: while the process is at a
\* report, that report's body is in flight, has failed, or is in the file; and
\* its second chunk was handed over only in the last case.
WritingInv ==
    /\ current \in Nat \ {0} /\ handed \in Nat
    /\ phase \in {"load", "config_check", "mcp_list", "scan", "run"} =>
          current = 1 /\ ~ open /\ inflight = {} /\ broken = {}
    /\ \A i \in broken : i \in 1..current /\ (i = current => open)
    /\ \A op \in inflight : op.report \in 1..current /\ (op.report = current => open)
    /\ open => /\ current <= Len(reports)
               /\ handed = 0 => /\ current \notin broken
                                /\ \A op \in inflight : op.report # current
               /\ /\ phase = "report" /\ handed = 1
                  /\ TwoWrites(current) /\ OwnPath(current)
                  => Body(current) \in inflight \/ current \in broken \/ Landed(current)
               /\ handed > 1 /\ TwoWrites(current) /\ OwnPath(current) => Landed(current)
    /\ \A i \in 1..(current - 1) : TwoWrites(i) /\ OwnPath(i) => Landed(i)

\* The reporters' write(): the body first; SARIF and JSON add a newline to it.
LEMMA ChunksOf ==
    ASSUME NEW kind
    PROVE  /\ Chunks(kind)[1] = "body"
           /\ Len(Chunks(kind)) = IF kind = "markdown" THEN 1 ELSE 2
<1>1. CASE kind = "markdown"
  BY <1>1 DEF Chunks
<1>2. CASE kind # "markdown"
  BY <1>2 DEF Chunks
<1> QED
  BY <1>1, <1>2

\* WrittenReportsAreWhole, for any number of reports and any failures: a closed
\* SARIF or JSON report whose path no other report has has its body in its file.
THEOREM WritingHolds == Spec => []WrittenReportsAreWhole
<1>1. Init => WritingInv
  BY DEF Init, WritingInv
<1>2. WritingInv /\ [Next]_vars => WritingInv'
  <2> SUFFICES ASSUME WritingInv, [Next]_vars PROVE WritingInv'
    OBVIOUS
  <2> USE DEF WritingInv, Exits, settings, writing, Landed, OwnPath, TwoWrites, Body, InFile
  <2>1. CASE Load
    BY <2>1 DEF Load
  <2>2. CASE LoadFails
    BY <2>2 DEF LoadFails
  <2>3. CASE ConfigCheck
    BY <2>3 DEF ConfigCheck
  <2>4. CASE McpList
    BY <2>4 DEF McpList
  <2>5. CASE BuildAgent
    BY <2>5 DEF BuildAgent
  <2>6. ASSUME NEW o \in world.outcomes, Run(o) PROVE WritingInv'
    BY <2>6 DEF Run
  <2>7. CASE Create
    BY <2>7 DEF Create, Writing, Report
  <2>8. CASE CreateFails
    BY <2>8 DEF CreateFails
  <2>9. CASE HandOver
    <3>1. /\ open /\ phase = "report" /\ handed' = handed + 1 /\ inflight \subseteq inflight'
          /\ current \notin broken
          /\ \A op \in inflight : op.report # current
          /\ inflight' = inflight \cup {[report |-> current,
                                          chunk |-> Chunks(Report.kind)[handed + 1]]}
          /\ UNCHANGED <<reports, phase, current, open, broken, disk>>
      BY <2>9 DEF HandOver, Writing, Idle
    <3>2. handed = 0 \/ (handed = 1 /\ TwoWrites(current))
      <4>1. handed < Len(Chunks(reports[current].kind))
        BY <2>9 DEF HandOver, Report
      <4>2. Len(Chunks(reports[current].kind)) =
               IF reports[current].kind = "markdown" THEN 1 ELSE 2
        BY ChunksOf
      <4>3. handed \in Nat
        BY DEF WritingInv
      <4> QED
        BY <4>1, <4>2, <4>3
    <3>3. \A op \in inflight' : op.report \in 1..current /\ (op.report = current => open)
      BY <3>1
    <3>4. handed = 0 => Body(current) \in inflight'
      <4>1. Chunks(Report.kind)[1] = "body"
        BY ChunksOf
      <4>2. handed = 0 => handed + 1 = 1
        OBVIOUS
      <4>3. handed = 0 => inflight' = inflight \cup {[report |-> current, chunk |-> "body"]}
        BY <3>1, <4>1, <4>2
      <4> QED
        BY <4>3
    <3>5. handed = 1 /\ OwnPath(current) => Landed(current)
      BY <3>1, <3>2
    <3> QED
      BY <3>1, <3>2, <3>3, <3>4, <3>5
  <2>10. CASE ErrorSurfaces
    BY <2>10 DEF ErrorSurfaces
  <2>11. CASE Close
    BY <2>11 DEF Close, Writing, Report, Chunks
  <2>12. CASE ReportsDone
    BY <2>12 DEF ReportsDone
  <2>13. ASSUME NEW op \in inflight, Lands(op) PROVE WritingInv'
    BY <2>13 DEF Lands
  <2>14. ASSUME NEW op \in inflight, Fails(op) PROVE WritingInv'
    BY <2>14 DEF Fails
  <2>15. CASE Exit
    BY <2>15 DEF Exit
  <2>16. CASE Killed
    BY <2>16 DEF Killed
  <2>17. CASE UNCHANGED vars
    BY <2>17 DEF vars
  <2> QED
    BY <2>1, <2>2, <2>3, <2>4, <2>5, <2>6, <2>7, <2>8, <2>9, <2>10, <2>11, <2>12,
       <2>13, <2>14, <2>15, <2>16, <2>17 DEF Next, Progress
<1>3. WritingInv => WrittenReportsAreWhole
  BY DEF WritingInv, WrittenReportsAreWhole, Landed, OwnPath, TwoWrites, Body
<1> QED
  BY <1>1, <1>2, <1>3, PTL DEF Spec

-----------------------------------------------------------------------------
(* Types                                                                   *)

Early == phase \in {"load", "config_check", "mcp_list", "scan", "run"}

\* Why a background write names one of the reports: the list is made once, when
\* no file is open and nothing is in flight, and only a file that is open, the
\* current report's, hands anything over.
TypeInv ==
    /\ world \in Worlds
    /\ phase \in {"load", "config_check", "mcp_list", "scan", "run", "report",
                  "exiting", "exited", "killed"}
    /\ code \in {-1, 0, 1} /\ agent.ok \in BOOLEAN /\ result.ok \in BOOLEAN
    /\ Len(reports) \in Nat /\ DOMAIN reports = 1..Len(reports)
    /\ current \in 1..(Len(reports) + 1) /\ open \in BOOLEAN /\ handed \in 0..2
    /\ broken \subseteq DOMAIN reports
    /\ inflight \subseteq [report : DOMAIN reports, chunk : {"body", "newline"}]
    /\ \A c \in disk : c.report \in DOMAIN reports /\ c.path = reports[c.report].path
    /\ Early => /\ current = 1 /\ ~ open
                /\ broken = {} /\ inflight = {} /\ disk = {}

\* write_reports: a report without a path is left out.
LEMMA ReportAtListed ==
    ASSUME NEW K, NEW P, NEW kind \in K, NEW arg, NEW name,
           OrElse(arg, Setting(config, <<"output", name>>)) \in P
    PROVE  ReportAt(kind, arg, name) \in Seq([kind : K, path : P])
<1> DEFINE path == OrElse(arg, Setting(config, <<"output", name>>))
           r == [kind |-> kind, path |-> path]
<1>1. ReportAt(kind, arg, name) = IF path = Unset THEN << >> ELSE <<r>>
  BY DEF ReportAt
<1>2. r \in [kind : K, path : P]
  OBVIOUS
<1> HIDE DEF r, path
<1>3. <<r>> \in Seq([kind : K, path : P]) /\ << >> \in Seq([kind : K, path : P])
  BY <1>2
<1> QED
  BY <1>1, <1>3

\* write_reports: at most one report of each kind.
LEMMA ConfiguredReportsListed ==
    /\ Len(ConfiguredReports) \in Nat
    /\ DOMAIN ConfiguredReports = 1..Len(ConfiguredReports)
<1> DEFINE P == {OrElse(Output, Setting(config, <<"output", "sarif_path">>)),
                 OrElse(world.markdown, Setting(config, <<"output", "markdown_path">>)),
                 OrElse(world.json, Setting(config, <<"output", "json_path">>))}
           K == {"sarif", "markdown", "json"}
           R == [kind : K, path : P]
<1>1. /\ OrElse(Output, Setting(config, <<"output", "sarif_path">>)) \in P
      /\ OrElse(world.markdown, Setting(config, <<"output", "markdown_path">>)) \in P
      /\ OrElse(world.json, Setting(config, <<"output", "json_path">>)) \in P
      /\ "sarif" \in K /\ "markdown" \in K /\ "json" \in K
  OBVIOUS
<1> HIDE DEF P, K
<1>2. /\ ReportAt("sarif", Output, "sarif_path") \in Seq(R)
      /\ ReportAt("markdown", world.markdown, "markdown_path") \in Seq(R)
      /\ ReportAt("json", world.json, "json_path") \in Seq(R)
  BY <1>1, ReportAtListed
<1> HIDE DEF R
<1>3. ConfiguredReports \in Seq(R)
  <2>1. ReportAt("sarif", Output, "sarif_path")
           \o ReportAt("markdown", world.markdown, "markdown_path") \in Seq(R)
    BY <1>2
  <2> QED
    BY <1>2, <2>1 DEF ConfiguredReports
<1> QED
  BY <1>3

\* An agent or an error.
Answers(a) == a.ok \in BOOLEAN

\* main, the provider's builders: there is always an answer.
LEMMA BuildersAnswer ==
    ASSUME NEW w, NEW c
    PROVE  Answers(BuildFromConfig(w, c))
<1>1. /\ \A p, model, url : Answers(Built(p, model, url))
      /\ \A reason : Answers(BuildError(reason))
  BY DEF Built, BuildError, Answers
<1>2. \A p, model, url : Answers(Client(w, p, model, url))
  BY <1>1 DEF Client
<1>3. /\ \A model : Answers(BuildAnthropic(w, model))
      /\ \A model : Answers(BuildGemini(w, model))
      /\ \A model, url : Answers(BuildOpenAi(w, model, url))
      /\ \A model, url : Answers(BuildOllama(w, model, url))
      /\ Answers(BuildMock(w))
  BY <1>1, <1>2 DEF BuildAnthropic, BuildOpenAi, BuildGemini, BuildOllama, BuildMock
<1>4. ASSUME NEW name, NEW override
      PROVE  Answers(BuildNamed(w, c, name, override))
  <2>1. \/ name \in {"anthropic", "openai", "gemini", "ollama", "mock"}
        \/ name \notin {"anthropic", "openai", "gemini", "ollama", "mock"}
    OBVIOUS
  <2> QED
    BY <1>1, <1>3, <2>1 DEF BuildNamed
<1>5. Answers(BuildFromEnv(w, c))
  BY <1>1, <1>3 DEF BuildFromEnv
<1> QED
  BY <1>4, <1>5 DEF BuildFromConfig

\* ScanCommandTypeOK, for every set of worlds and any number of reports.
THEOREM ScanCommandTypes == Spec => []ScanCommandTypeOK
<1>1. Init => TypeInv
  <2> SUFFICES ASSUME Init PROVE TypeInv
    OBVIOUS
  <2>1. agent.ok = FALSE /\ result.ok = FALSE
    BY DEF Init, None
  <2>2. Len(reports) = 0 /\ DOMAIN reports = 1..0
    BY DEF Init
  <2> QED
    <3>1. agent.ok \in BOOLEAN /\ result.ok \in BOOLEAN
      BY <2>1, Zenon
    <3>2. current \in 1..(Len(reports) + 1)
      BY <2>2 DEF Init
    <3>3. /\ broken = {} /\ inflight = {} /\ disk = {} /\ ~ open /\ open \in BOOLEAN
          /\ current = 1 /\ phase = "load" /\ world \in Worlds
      BY Zenon DEF Init
    <3>4. code \in {-1, 0, 1} /\ handed \in 0..2
      BY DEF Init
    <3> QED
      BY ONLY <2>2, <3>1, <3>2, <3>3, <3>4 DEF TypeInv, Early
<1>2. TypeInv /\ [Next]_vars => TypeInv'
  <2> SUFFICES ASSUME TypeInv, [Next]_vars PROVE TypeInv'
    OBVIOUS
  <2> USE DEF TypeInv, Early, Exits, settings, writing
  <2>1. CASE Load
    <3>1. world.command \in {"scan", "config_check", "mcp_list"}
      BY WorldsAssumption
    <3> QED
      BY <2>1, <3>1 DEF Load
  <2>2. CASE LoadFails
    BY <2>2 DEF LoadFails
  <2>3. CASE ConfigCheck
    BY <2>3 DEF ConfigCheck
  <2>4. CASE McpList
    BY <2>4 DEF McpList
  <2>5. CASE BuildAgent
    <3>1. agent'.ok \in BOOLEAN
      <4>1. agent' = BuildFromConfig(world, config)
        BY <2>5 DEF BuildAgent
      <4> QED
        BY <4>1, BuildersAnswer DEF Answers
    <3> QED
      BY <2>5, <3>1 DEF BuildAgent
  <2>6. ASSUME NEW o \in world.outcomes, Run(o) PROVE TypeInv'
    <3>1. /\ phase = "run"
          /\ UNCHANGED <<world, config, agent, printed, writing>>
          /\ \/ /\ result'.ok /\ reports' = ConfiguredReports
                /\ phase' = "report" /\ UNCHANGED code
             \/ UNCHANGED <<result, reports>> /\ phase' = "exiting" /\ code' = 1
      BY <2>6 DEF Run
    <3>2. result'.ok \in BOOLEAN
      <4>1. CASE o.ok /\ ~ (Strict /\ o.errors # << >>)
        <5>1. result' = [ok |-> TRUE, findings |-> o.findings, errors |-> o.errors,
                         stats |-> ComputeStats(o.findings, o.deduped)]
          BY <2>6, <4>1 DEF Run
        <5> QED
          BY <5>1
      <4>2. CASE ~ (o.ok /\ ~ (Strict /\ o.errors # << >>))
        BY <2>6, <4>2 DEF Run
      <4> QED
        BY <4>1, <4>2
    <3>3. /\ Len(reports') \in Nat /\ DOMAIN reports' = 1..Len(reports')
          /\ current' \in 1..(Len(reports') + 1)
      BY <3>1, ConfiguredReportsListed
    <3> QED
      BY <3>1, <3>2, <3>3
  <2>7. CASE Create
    BY <2>7 DEF Create, Writing, Report
  <2>8. CASE CreateFails
    BY <2>8 DEF CreateFails
  <2>9. CASE HandOver
    <3>1. /\ phase = "report" /\ current \in DOMAIN reports /\ handed' = handed + 1
          /\ handed + 1 \in 1..Len(Chunks(Report.kind))
          /\ inflight' = inflight \cup {[report |-> current,
                                          chunk |-> Chunks(Report.kind)[handed + 1]]}
          /\ UNCHANGED <<settings, phase, code, current, open, broken, disk>>
      <4>1. Len(Chunks(Report.kind)) \in Nat
        BY ChunksOf
      <4> QED
        BY <2>9, <4>1 DEF HandOver, Writing
    <3>2. /\ Len(Chunks(Report.kind)) \in 1..2
          /\ \A i \in 1..Len(Chunks(Report.kind)) :
                Chunks(Report.kind)[i] \in {"body", "newline"}
      BY DEF Chunks
    <3> QED
      BY <3>1, <3>2
  <2>10. CASE ErrorSurfaces
    BY <2>10 DEF ErrorSurfaces
  <2>11. CASE Close
    <3>1. current + 1 \in 1..(Len(reports) + 1)
      BY <2>11 DEF Close, Writing
    <3> QED
      BY <2>11, <3>1 DEF Close, Writing
  <2>12. CASE ReportsDone
    BY <2>12 DEF ReportsDone
  <2>13. ASSUME NEW op \in inflight, Lands(op) PROVE TypeInv'
    BY <2>13 DEF Lands, InFile
  <2>14. ASSUME NEW op \in inflight, Fails(op) PROVE TypeInv'
    BY <2>14 DEF Fails
  <2>15. CASE Exit
    BY <2>15 DEF Exit
  <2>16. CASE Killed
    BY <2>16 DEF Killed
  <2>17. CASE UNCHANGED vars
    BY <2>17 DEF vars
  <2> QED
    BY <2>1, <2>2, <2>3, <2>4, <2>5, <2>6, <2>7, <2>8, <2>9, <2>10, <2>11, <2>12,
       <2>13, <2>14, <2>15, <2>16, <2>17 DEF Next, Progress
<1>3. TypeInv => ScanCommandTypeOK
  BY WorldsAssumption DEF TypeInv, ScanCommandTypeOK
<1> QED
  BY <1>1, <1>2, <1>3, PTL DEF Spec

-----------------------------------------------------------------------------
(* Settings                                                                *)

\* What is known of the settings and of the agent once they are there: they are
\* made once, from the world, and nothing changes them before the process ends.
SettingsInv ==
    /\ world \in Worlds
    /\ config = << >> \/ config = Merged(world)
    /\ phase \in {"config_check", "mcp_list", "scan", "run", "report"} =>
          config = Merged(world)
    /\ phase = "load" => agent = None
    /\ agent # None => agent = BuildFromConfig(world, config)
    /\ phase \in {"run", "report"} => agent.ok /\ agent = BuildFromConfig(world, config)

\* No step but BuildAgent and Load has to do with settings or agent.
LEMMA SettingsHold == Spec => []SettingsInv
<1>1. Init => SettingsInv
  BY DEF Init, SettingsInv
<1>2. SettingsInv /\ [Next]_vars => SettingsInv'
  <2> SUFFICES ASSUME SettingsInv, [Next]_vars PROVE SettingsInv'
    OBVIOUS
  <2> USE DEF SettingsInv, Exits, settings, writing
  <2>1. CASE Load
    <3>1. world.command \in {"scan", "config_check", "mcp_list"}
      BY WorldsAssumption
    <3> QED
      BY <2>1, <3>1 DEF Load
  <2>2. CASE BuildAgent
    <3>1. /\ phase = "scan" /\ agent' = BuildFromConfig(world, config)
          /\ UNCHANGED <<world, config>>
          /\ phase' \in {"run", "exiting"} /\ (phase' = "run" => agent'.ok)
      BY <2>2 DEF BuildAgent
    <3> QED
      BY ONLY <3>1, SettingsInv DEF SettingsInv
  <2>3. ASSUME NEW o \in world.outcomes, Run(o) PROVE SettingsInv'
    BY <2>3 DEF Run
  <2>4. CASE /\ UNCHANGED <<world, config, agent>>
             /\ phase' \in {phase, "exiting", "exited", "killed"}
    BY <2>4
  <2>5. ASSUME ~ Load, ~ BuildAgent, ~ \E o \in world.outcomes : Run(o)
        PROVE  /\ UNCHANGED <<world, config, agent>>
               /\ phase' \in {phase, "exiting", "exited", "killed"}
    BY <2>5 DEF Next, Progress, LoadFails, ConfigCheck, McpList, Create,
           CreateFails, HandOver, ErrorSurfaces, Close, ReportsDone, Lands, Fails, Exit,
           Killed, vars
  <2> QED
    BY <2>1, <2>2, <2>3, <2>4, <2>5
<1> QED
  BY <1>1, <1>2, PTL DEF Spec

\* load_from: the layer above decides what it sets, the others the rest.
LEMMA MergedSettings ==
    ASSUME NEW layer, NEW below
    PROVE  /\ DOMAIN MergedOver(layer, below) = DOMAIN layer \cup DOMAIN below
           /\ \A path \in DOMAIN layer : MergedOver(layer, below)[path] = layer[path]
           /\ \A path \in DOMAIN below \ DOMAIN layer :
                 MergedOver(layer, below)[path] = below[path]
  BY DEF MergedOver

\* SettingsAreLayered, for every set of worlds: whichever files there are.
THEOREM SettingsLayered == Spec => []SettingsAreLayered
<1>1. SettingsInv => SettingsAreLayered
  <2> SUFFICES ASSUME SettingsInv PROVE SettingsAreLayered
    OBVIOUS
  <2> DEFINE user == UserConfigPath(world)
             project == Layer(world, "project")
             users == Layer(world, user)
             lower == MergedOver(users, Defaults)
             files == MergedOver(project, lower)
  <2>1. /\ "none" \notin DOMAIN world.files
        /\ user = IF IsSet(world, "XDG_CONFIG_HOME") THEN "xdg"
                  ELSE IF IsSet(world, "HOME") THEN "home" ELSE "none"
    BY WorldsAssumption DEF SettingsInv, UserConfigPath
  <2>2. ASSUME NEW file \in {"project", user}
        PROVE  /\ file \in DOMAIN world.files =>
                     Layer(world, file) = world.files[file].settings
               /\ file \notin DOMAIN world.files => DOMAIN Layer(world, file) = {}
    BY DEF Layer, ConfigFiles
  <2>3. Merged(world) = MergedOver(world.extra, files)
    BY DEF Merged
  <2>4. /\ DOMAIN lower = DOMAIN users \cup DOMAIN Defaults
        /\ DOMAIN files = DOMAIN project \cup DOMAIN lower
        /\ DOMAIN Merged(world) = DOMAIN world.extra \cup DOMAIN files
    BY <2>3, MergedSettings
  <2>5. /\ \A path \in DOMAIN world.extra : Merged(world)[path] = world.extra[path]
        /\ \A path \in DOMAIN files \ DOMAIN world.extra : Merged(world)[path] = files[path]
    <3>1. /\ \A path \in DOMAIN world.extra :
                MergedOver(world.extra, files)[path] = world.extra[path]
          /\ \A path \in DOMAIN files \ DOMAIN world.extra :
                MergedOver(world.extra, files)[path] = files[path]
      BY MergedSettings
    <3> QED
      BY <2>3, <3>1
  <2>6. /\ \A path \in DOMAIN project : files[path] = project[path]
        /\ \A path \in DOMAIN lower \ DOMAIN project : files[path] = lower[path]
    BY MergedSettings
  <2>7. /\ \A path \in DOMAIN users : lower[path] = users[path]
        /\ \A path \in DOMAIN Defaults \ DOMAIN users : lower[path] = Defaults[path]
    BY MergedSettings
  <2> HIDE DEF lower, files, project, users
  <2>8. ASSUME NEW path \in DOMAIN Merged(world)
        PROVE  /\ path \in DOMAIN world.extra => Merged(world)[path] = world.extra[path]
               /\ path \notin DOMAIN world.extra =>
                     /\ path \in DOMAIN project => Merged(world)[path] = project[path]
                     /\ path \notin DOMAIN project /\ path \in DOMAIN users =>
                           Merged(world)[path] = users[path]
                     /\ path \notin DOMAIN project /\ path \notin DOMAIN users =>
                           path \in DOMAIN Defaults /\ Merged(world)[path] = Defaults[path]
    BY <2>4, <2>5, <2>6, <2>7
  <2> USE DEF project, users
  <2>9. CASE config = << >>
    <3>1. DOMAIN config = {}
      BY <2>9
    <3>2. CASE Merged(world) = config
      BY <2>1, <2>2, <2>4, <3>1, <3>2 DEF SettingsAreLayered
    <3>3. CASE Merged(world) # config
      BY <3>1, <3>3 DEF SettingsAreLayered, SettingsInv
    <3> QED
      BY <3>2, <3>3
  <2>10. CASE config = Merged(world)
    <3>1. /\ DOMAIN Defaults \subseteq DOMAIN config
          /\ DOMAIN world.extra \subseteq DOMAIN config
          /\ \A file \in {"project", user} \cap DOMAIN world.files :
                DOMAIN world.files[file].settings \subseteq DOMAIN config
      BY <2>2, <2>4, <2>10
    <3>2. ASSUME NEW path \in DOMAIN config
          PROVE  /\ path \in DOMAIN world.extra => config[path] = world.extra[path]
                 /\ path \notin DOMAIN world.extra =>
                       LET sets(file) == /\ file \in DOMAIN world.files
                                         /\ path \in DOMAIN world.files[file].settings
                       IN  /\ sets("project") =>
                                 config[path] = world.files["project"].settings[path]
                           /\ ~ sets("project") /\ sets(user) =>
                                 config[path] = world.files[user].settings[path]
                           /\ ~ sets("project") /\ ~ sets(user) =>
                                 path \in DOMAIN Defaults /\ config[path] = Defaults[path]
      BY <2>2, <2>8, <2>10
    <3> HIDE DEF user
    <3> QED
      BY <2>1, <3>1, <3>2 DEF SettingsAreLayered
  <2> QED
    BY <2>9, <2>10 DEF SettingsInv
<1> QED
  BY <1>1, SettingsHold, PTL

-----------------------------------------------------------------------------
(* The provider                                                            *)

\* Two worlds have the same variable, two settings the same section of a provider.
SameVariable(w, v, key) ==
    /\ IsSet(w, key) <=> IsSet(v, key)
    /\ IsSet(w, key) => w.env[key] = v.env[key]
SameSection(c, d, p) ==
    ModelFor(c, p) = ModelFor(d, p) /\ BaseUrlFor(c, p) = BaseUrlFor(d, p)

\* The variable that a provider's builder looks at.
LEMMA KeysOf ==
    /\ KeyOf("anthropic") = "ANTHROPIC_API_KEY" /\ KeyOf("openai") = "OPENAI_API_KEY"
    /\ KeyOf("gemini") = "GOOGLE_API_KEY" /\ KeyOf("ollama") = "none" /\ KeyOf("mock") = "none"
  BY DEF KeyOf

\* build_named: of the environment only the provider's key counts, of the settings
\* only its own section.
LEMMA BuildNamedReads ==
    ASSUME NEW w, NEW v, NEW c, NEW d, NEW name, NEW override,
           v.clients = w.clients,
           name \in Registered /\ KeyOf(name) # "none" => SameVariable(w, v, KeyOf(name)),
           name = "mock" => SameVariable(w, v, "PH0B0S_MOCK_RESPONSES"),
           name \in Registered => SameSection(c, d, name)
    PROVE  BuildNamed(w, c, name, override) = BuildNamed(v, d, name, override)
<1>1. \A p, model, url : Client(w, p, model, url) = Client(v, p, model, url)
  BY DEF Client
<1>2. CASE name = "anthropic"
  <2>1. RequireEnv(w, "ANTHROPIC_API_KEY") <=> RequireEnv(v, "ANTHROPIC_API_KEY")
    BY <1>2, KeysOf DEF Registered, SameVariable, RequireEnv
  <2>2. ModelFor(c, name) = ModelFor(d, name)
    BY <1>2 DEF Registered, SameSection
  <2> QED
    BY <1>1, <1>2, <2>1, <2>2 DEF BuildNamed, BuildAnthropic
<1>3. CASE name = "openai"
  <2>1. RequireEnv(w, "OPENAI_API_KEY") <=> RequireEnv(v, "OPENAI_API_KEY")
    BY <1>3, KeysOf DEF Registered, SameVariable, RequireEnv
  <2>2. ModelFor(c, name) = ModelFor(d, name) /\ BaseUrlFor(c, name) = BaseUrlFor(d, name)
    BY <1>3 DEF Registered, SameSection
  <2> QED
    BY <1>1, <1>3, <2>1, <2>2 DEF BuildNamed, BuildOpenAi
<1>4. CASE name = "gemini"
  <2>1. RequireEnv(w, "GOOGLE_API_KEY") <=> RequireEnv(v, "GOOGLE_API_KEY")
    BY <1>4, KeysOf DEF Registered, SameVariable, RequireEnv
  <2>2. ModelFor(c, name) = ModelFor(d, name)
    BY <1>4 DEF Registered, SameSection
  <2> QED
    BY <1>1, <1>4, <2>1, <2>2 DEF BuildNamed, BuildGemini
<1>5. CASE name = "ollama"
  <2>1. ModelFor(c, name) = ModelFor(d, name) /\ BaseUrlFor(c, name) = BaseUrlFor(d, name)
    BY <1>5 DEF Registered, SameSection
  <2> QED
    BY <1>1, <1>5, <2>1 DEF BuildNamed, BuildOllama
<1>6. CASE name = "mock"
  BY <1>6 DEF BuildNamed, BuildMock, SameVariable
<1>7. CASE name \notin {"anthropic", "openai", "gemini", "ollama", "mock"}
  BY <1>7 DEF BuildNamed
<1> QED
  BY <1>2, <1>3, <1>4, <1>5, <1>6, <1>7

\* build_from_env: the keys in their order; those after the first that is set are
\* not looked at, nor is any variable but the keys and OLLAMA_HOST.
EnvOrder == <<"ANTHROPIC_API_KEY", "OPENAI_API_KEY", "GOOGLE_API_KEY", "OLLAMA_HOST">>

\* provider/mod.rs: what is built from the environment depends on the variables down
\* to the first that is set.
LEMMA BuildFromEnvReads ==
    ASSUME NEW w, NEW v, NEW c, NEW k \in 1..4,
           v.clients = w.clients, IsSet(w, EnvOrder[k]),
           \A i \in 1..k : SameVariable(w, v, EnvOrder[i])
    PROVE  BuildFromEnv(w, c) = BuildFromEnv(v, c)
<1>1. \A p, model, url : Client(w, p, model, url) = Client(v, p, model, url)
  BY DEF Client
<1>2. \A i \in 1..4 : SameVariable(w, v, EnvOrder[i]) =>
         (RequireEnv(w, EnvOrder[i]) <=> RequireEnv(v, EnvOrder[i]))
  BY DEF SameVariable, RequireEnv
<1>3. /\ EnvOrder[1] = "ANTHROPIC_API_KEY" /\ EnvOrder[2] = "OPENAI_API_KEY"
      /\ EnvOrder[3] = "GOOGLE_API_KEY" /\ EnvOrder[4] = "OLLAMA_HOST"
  BY DEF EnvOrder
<1>4. \A i \in 1..k : IsSet(w, EnvOrder[i]) <=> IsSet(v, EnvOrder[i])
  BY DEF SameVariable
<1>5. \A i \in 1..k : RequireEnv(w, EnvOrder[i]) <=> RequireEnv(v, EnvOrder[i])
  BY <1>2
<1>6. /\ RequireEnv(w, "ANTHROPIC_API_KEY") <=> RequireEnv(v, "ANTHROPIC_API_KEY")
      /\ IsSet(w, "ANTHROPIC_API_KEY") <=> IsSet(v, "ANTHROPIC_API_KEY")
  BY <1>3, <1>4, <1>5
<1>7. \A model : BuildAnthropic(w, model) = BuildAnthropic(v, model)
  BY <1>1, <1>6 DEF BuildAnthropic
<1>8. \A model, url : BuildOllama(w, model, url) = BuildOllama(v, model, url)
  BY <1>1 DEF BuildOllama
<1>9. CASE IsSet(w, "ANTHROPIC_API_KEY")
  BY <1>6, <1>7, <1>9 DEF BuildFromEnv
<1>10. CASE ~ IsSet(w, "ANTHROPIC_API_KEY")
  <2>1. /\ RequireEnv(w, "OPENAI_API_KEY") <=> RequireEnv(v, "OPENAI_API_KEY")
        /\ IsSet(w, "OPENAI_API_KEY") <=> IsSet(v, "OPENAI_API_KEY")
        /\ k \in 2..4
    BY <1>3, <1>4, <1>5, <1>10
  <2>2. \A model, url : BuildOpenAi(w, model, url) = BuildOpenAi(v, model, url)
    BY <1>1, <2>1 DEF BuildOpenAi
  <2>3. CASE IsSet(w, "OPENAI_API_KEY")
    BY <1>6, <1>10, <2>1, <2>2, <2>3 DEF BuildFromEnv
  <2>4. CASE ~ IsSet(w, "OPENAI_API_KEY")
    <3>1. /\ RequireEnv(w, "GOOGLE_API_KEY") <=> RequireEnv(v, "GOOGLE_API_KEY")
          /\ IsSet(w, "GOOGLE_API_KEY") <=> IsSet(v, "GOOGLE_API_KEY")
          /\ k \in 3..4
      BY <1>3, <1>4, <1>5, <2>1, <2>4
    <3>2. \A model : BuildGemini(w, model) = BuildGemini(v, model)
      BY <1>1, <3>1 DEF BuildGemini
    <3>3. CASE IsSet(w, "GOOGLE_API_KEY")
      BY <1>6, <1>10, <2>1, <2>4, <3>1, <3>2, <3>3 DEF BuildFromEnv
    <3>4. CASE ~ IsSet(w, "GOOGLE_API_KEY")
      <4>1. k = 4
        BY <1>3, <3>1, <3>4
      <4>2. IsSet(w, "OLLAMA_HOST") /\ IsSet(v, "OLLAMA_HOST")
        BY <1>3, <1>4, <4>1
      <4> QED
        BY <1>6, <1>8, <1>10, <2>1, <2>4, <3>1, <3>4, <4>2 DEF BuildFromEnv
    <3> QED
      BY <3>3, <3>4
  <2> QED
    BY <2>3, <2>4
<1> QED
  BY <1>9, <1>10
\* What leaving out a setting or a variable leaves as it was.
LEMMA WithoutOthers ==
    ASSUME NEW f, NEW x
    PROVE  /\ DOMAIN Without(f, x) = DOMAIN f \ {x}
           /\ \A y \in DOMAIN f \ {x} : Without(f, x)[y] = f[y]
  BY DEF Without

\* Without one setting, that one is unset and the others are as before.
LEMMA SettingWithout ==
    ASSUME NEW c, NEW path
    PROVE  /\ Setting(Without(c, path), path) = Unset
           /\ \A q : q # path => Setting(Without(c, path), q) = Setting(c, q)
<1>1. path \notin DOMAIN Without(c, path)
  BY WithoutOthers
<1>2. ASSUME NEW q, q # path
      PROVE  Setting(Without(c, path), q) = Setting(c, q)
  <2>1. q \in DOMAIN Without(c, path) <=> q \in DOMAIN c
    BY <1>2, WithoutOthers
  <2>2. q \in DOMAIN c => Without(c, path)[q] = c[q]
    BY <1>2, WithoutOthers
  <2> QED
    BY <2>1, <2>2 DEF Setting
<1> QED
  BY <1>1, <1>2 DEF Setting

\* ... of a provider's section and of [agents.default].
LEMMA SectionsWithout ==
    ASSUME NEW c, NEW path
    PROVE  /\ \A p : /\ path # <<"providers", p, "default_model">>
                     /\ path # <<"providers", p, "base_url">>
                     => SameSection(c, Without(c, path), p)
           /\ path # <<"agents", "default", "provider">> =>
                 DefaultAgent(Without(c, path)).provider = DefaultAgent(c).provider
           /\ path # <<"agents", "default", "model">> =>
                 DefaultAgent(Without(c, path)).model = DefaultAgent(c).model
           /\ path = <<"agents", "default", "provider">> =>
                 DefaultAgent(Without(c, path)).provider = ""
<1>1. \A q : q # path => Setting(Without(c, path), q) = Setting(c, q)
  BY SettingWithout
<1>2. \A p : /\ path # <<"providers", p, "default_model">>
             /\ path # <<"providers", p, "base_url">>
             => SameSection(c, Without(c, path), p)
  BY <1>1 DEF SameSection, ModelFor, BaseUrlFor
<1>3. \A d : /\ DefaultAgent(d).provider =
                   OrElse(Setting(d, <<"agents", "default", "provider">>), "")
             /\ DefaultAgent(d).model = Setting(d, <<"agents", "default", "model">>)
  BY DEF DefaultAgent
<1>4. path = <<"agents", "default", "provider">> =>
         OrElse(Setting(Without(c, path), <<"agents", "default", "provider">>), "") = ""
  <2> SUFFICES ASSUME path = <<"agents", "default", "provider">>
               PROVE  OrElse(Setting(Without(c, path), path), "") = ""
    BY Zenon
  <2>1. Setting(Without(c, path), path) = Unset
    BY SettingWithout
  <2> QED
    BY <2>1 DEF OrElse
<1> QED
  BY <1>1, <1>2, <1>3, <1>4

\* Paths of [agents.default] are not of a provider's section.
LEMMA PathsDiffer ==
    /\ <<"agents", "default", "provider">> # <<"agents", "default", "model">>
    /\ \A p, name, last :
          <<"providers", p, name>> # <<"agents", "default", last>>
    /\ \A p, r, name, last :
          p # r \/ name # last => <<"providers", p, name>> # <<"providers", r, last>>
  OBVIOUS

\* build_from_config: the world without one variable.
WorldWithout(name) == [env |-> Without(world.env, name), clients |-> world.clients]

\* Without one variable, the clients and the other variables are as before.
LEMMA VariablesWithout ==
    ASSUME NEW name
    PROVE  /\ WorldWithout(name).clients = world.clients
           /\ \A key : key # name => SameVariable(world, WorldWithout(name), key)
<1>1. WorldWithout(name).env = Without(world.env, name)
      /\ WorldWithout(name).clients = world.clients
  BY DEF WorldWithout
<1>2. ASSUME NEW key, key # name
      PROVE  SameVariable(world, WorldWithout(name), key)
  <2>1. key \in DOMAIN Without(world.env, name) <=> key \in DOMAIN world.env
    <3>1. DOMAIN Without(world.env, name) = DOMAIN world.env \ {name}
      BY WithoutOthers, Zenon
    <3> QED
      BY <1>2, <3>1
  <2>2. key \in DOMAIN world.env => Without(world.env, name)[key] = world.env[key]
    BY <1>2, WithoutOthers
  <2>3. key \in DOMAIN WorldWithout(name).env <=> key \in DOMAIN world.env
    BY <1>1, <2>1
  <2>4. key \in DOMAIN world.env => WorldWithout(name).env[key] = world.env[key]
    BY <1>1, <2>2
  <2> QED
    BY <2>3, <2>4 DEF SameVariable, IsSet
<1> QED
  BY <1>1, <1>2

\* A provider that the settings or PH0B0S_PROVIDER name needs no key but its own.
LEMMA NamedWithoutVariable ==
    ASSUME NEW key \in {"ANTHROPIC_API_KEY", "OPENAI_API_KEY", "GOOGLE_API_KEY",
                        "OLLAMA_HOST"},
           NEW name, NEW override,
           name \in Registered => KeyOf(name) # key
    PROVE  BuildNamed(world, config, name, override)
              = BuildNamed(WorldWithout(key), config, name, override)
<1>1. SameVariable(world, WorldWithout(key), "PH0B0S_MOCK_RESPONSES")
  BY VariablesWithout
<1>2. name \in Registered => SameVariable(world, WorldWithout(key), KeyOf(name))
  BY VariablesWithout
<1>3. name \in Registered => SameSection(config, config, name)
  BY DEF SameSection
<1> QED
  BY <1>1, <1>2, <1>3, VariablesWithout, BuildNamedReads

\* The names of the sources.
LEMMA NamesOf ==
    /\ DOMAIN Sources = 1..6
    /\ Sources[1] = "PH0B0S_PROVIDER" /\ Sources[2] = "agents.default"
    /\ \A k \in 3..6 : Sources[k] = EnvOrder[k - 2]
    /\ Names(Sources[1]) <=> IsSet(world, "PH0B0S_PROVIDER")
    /\ Names(Sources[2]) <=> DefaultAgent(config).provider # ""
    /\ \A k \in 3..6 : Names(Sources[k]) <=> IsSet(world, EnvOrder[k - 2])
    /\ \A k, l \in 1..4 : k # l => EnvOrder[k] # EnvOrder[l]
<1>1. /\ DOMAIN Sources = 1..6
      /\ Sources[1] = "PH0B0S_PROVIDER" /\ Sources[2] = "agents.default"
      /\ \A k \in 3..6 : Sources[k] = EnvOrder[k - 2]
  BY DEF Sources, EnvOrder
<1>2. \A s : s # "agents.default" => (Names(s) <=> IsSet(world, s))
  BY DEF Names
<1>3. \A k \in 1..4 : EnvOrder[k] # "agents.default"
  BY DEF EnvOrder
<1>4. Names("agents.default") <=> DefaultAgent(config).provider # ""
  BY DEF Names
<1>5. \A k, l \in 1..4 : k # l => EnvOrder[k] # EnvOrder[l]
  BY DEF EnvOrder
<1>6. \A k \in 3..6 : k - 2 \in 1..4
  OBVIOUS
<1>7. Names(Sources[1]) <=> IsSet(world, "PH0B0S_PROVIDER")
  BY <1>1, <1>2
<1>8. Names(Sources[2]) <=> DefaultAgent(config).provider # ""
  BY <1>1, <1>4
<1>9. ASSUME NEW k \in 3..6
      PROVE  Names(Sources[k]) <=> IsSet(world, EnvOrder[k - 2])
  BY <1>1, <1>2, <1>3, <1>6
<1> QED
  BY <1>1, <1>5, <1>7, <1>8, <1>9

\* LowerSourcesDoNotDecide, for every world.
THEOREM LowerSourcesIdle == Spec => []LowerSourcesDoNotDecide
<1>1. SettingsInv => LowerSourcesDoNotDecide
  <2> SUFFICES ASSUME SettingsInv, Attempted, NEW i \in DOMAIN Sources, NEW j \in DOMAIN Sources,
                      i < j, Names(Sources[i]),
                      ~ \E p \in Registered : /\ KeyOf(p) = Sources[j]
                                              /\ \/ /\ IsSet(world, "PH0B0S_PROVIDER")
                                                    /\ world.env["PH0B0S_PROVIDER"] = p
                                                 \/ DefaultAgent(config).provider = p
               PROVE  agent = BuiltWithout(Sources[j])
    BY DEF LowerSourcesDoNotDecide
  <2>1. agent = BuildFromConfig(world, config)
    BY DEF SettingsInv, Attempted
  <2>2. /\ i \in 1..5 /\ j \in 2..6
        /\ Sources[1] = "PH0B0S_PROVIDER" /\ Sources[2] = "agents.default"
        /\ \A k \in 3..6 : Sources[k] = EnvOrder[k - 2]
    <3>1. DOMAIN Sources = 1..6
      BY NamesOf
    <3>2. i \in 1..5 /\ j \in 2..6
      BY <3>1
    <3> QED
      BY <3>2, NamesOf
  <2> DEFINE named == world.env["PH0B0S_PROVIDER"]
             default == DefaultAgent(config)
  <2>3. BuildFromConfig(world, config) =
           IF IsSet(world, "PH0B0S_PROVIDER")
           THEN BuildNamed(world, config, named, default.model)
           ELSE IF default.provider # ""
           THEN BuildNamed(world, config, default.provider, default.model)
           ELSE BuildFromEnv(world, config)
    BY DEF BuildFromConfig
  <2>4. CASE j = 2
    <3> DEFINE path == <<"agents", "default", "provider">>
               other == Without(config, path)
    <3>1. IsSet(world, "PH0B0S_PROVIDER")
      <4>1. i = 1
        BY <2>2, <2>4
      <4> QED
        BY <4>1, NamesOf
    <3>2. DefaultAgent(other).model = default.model
      BY SectionsWithout, PathsDiffer
    <3>3. \A p : SameSection(config, other, p)
      BY SectionsWithout, PathsDiffer
    <3>4. \A key : SameVariable(world, world, key)
      BY DEF SameVariable
    <3> HIDE DEF other
    <3>5. BuildNamed(world, config, named, default.model)
             = BuildNamed(world, other, named, default.model)
      BY <3>3, <3>4, BuildNamedReads
    <3>6. BuildFromConfig(world, other) = BuildNamed(world, other, named, default.model)
      BY <3>1, <3>2 DEF BuildFromConfig
    <3>7. BuiltWithout(Sources[j]) = BuildFromConfig(world, other)
      BY <2>2, <2>4 DEF BuiltWithout, BuiltWithoutSetting, other
    <3> QED
      BY <2>1, <2>3, <3>1, <3>5, <3>6, <3>7
  <2>5. CASE j \in 3..6
    <3> DEFINE key == Sources[j]
               v == WorldWithout(key)
    <3>1. /\ key \in {"ANTHROPIC_API_KEY", "OPENAI_API_KEY", "GOOGLE_API_KEY", "OLLAMA_HOST"}
          /\ key = EnvOrder[j - 2]
      BY <2>2, <2>5 DEF EnvOrder, Sources
    <3>2. BuiltWithout(key) = BuildFromConfig(v, config)
      BY <3>1 DEF BuiltWithout, BuiltWithoutVariable, WorldWithout
    <3>3. SameVariable(world, v, "PH0B0S_PROVIDER") /\ v.clients = world.clients
      BY <3>1, VariablesWithout
    <3>4. BuildFromConfig(v, config) =
             IF IsSet(v, "PH0B0S_PROVIDER")
             THEN BuildNamed(v, config, v.env["PH0B0S_PROVIDER"], default.model)
             ELSE IF default.provider # ""
             THEN BuildNamed(v, config, default.provider, default.model)
             ELSE BuildFromEnv(v, config)
      BY DEF BuildFromConfig
    <3> HIDE DEF v, default
    <3>5. CASE IsSet(world, "PH0B0S_PROVIDER")
      <4>1. named \in Registered => KeyOf(named) # key
        BY <3>5
      <4>2. BuildNamed(world, config, named, default.model)
               = BuildNamed(v, config, named, default.model)
        BY <3>1, <4>1, NamedWithoutVariable DEF v
      <4>3. IsSet(v, "PH0B0S_PROVIDER") /\ v.env["PH0B0S_PROVIDER"] = named
        BY <3>3, <3>5 DEF SameVariable
      <4> QED
        BY <2>1, <2>3, <3>2, <3>4, <3>5, <4>2, <4>3
    <3>6. CASE ~ IsSet(world, "PH0B0S_PROVIDER") /\ default.provider # ""
      <4>1. default.provider \in Registered => KeyOf(default.provider) # key
        BY DEF default
      <4>2. BuildNamed(world, config, default.provider, default.model)
               = BuildNamed(v, config, default.provider, default.model)
        BY <3>1, <4>1, NamedWithoutVariable DEF v
      <4>3. ~ IsSet(v, "PH0B0S_PROVIDER")
        BY <3>3, <3>6 DEF SameVariable
      <4> QED
        BY <2>1, <2>3, <3>2, <3>4, <3>6, <4>2, <4>3
    <3>7. CASE ~ IsSet(world, "PH0B0S_PROVIDER") /\ default.provider = ""
      <4>1. i \in 3..5 /\ i < j
        <5>1. i # 1 /\ i # 2
          BY <3>7, NamesOf DEF default
        <5> QED
          BY <2>2, <2>5, <5>1
      <4>2. IsSet(world, EnvOrder[i - 2])
        <5>1. i \in 3..6
          BY <4>1
        <5>2. Names(Sources[i]) <=> IsSet(world, EnvOrder[i - 2])
          BY <5>1, NamesOf
        <5> QED
          BY <5>2, Zenon
      <4>3. \A k \in 1..(i - 2) : EnvOrder[k] # key
        <5>1. j - 2 \in 1..4 /\ \A k \in 1..(i - 2) : k \in 1..4 /\ k # j - 2
          BY <2>5, <4>1
        <5> QED
          BY <3>1, <5>1, NamesOf
      <4>4. \A k \in 1..(i - 2) : SameVariable(world, v, EnvOrder[k])
        BY <4>3, VariablesWithout DEF v
      <4>5. i - 2 \in 1..4
        BY <4>1
      <4>6. BuildFromEnv(world, config) = BuildFromEnv(v, config)
        BY <3>3, <4>2, <4>4, <4>5, BuildFromEnvReads
      <4>7. ~ IsSet(v, "PH0B0S_PROVIDER")
        BY <3>3, <3>7 DEF SameVariable
      <4> QED
        BY <2>1, <2>3, <3>2, <3>4, <3>7, <4>6, <4>7
    <3> QED
      BY <3>5, <3>6, <3>7
  <2> QED
    BY <2>2, <2>4, <2>5
<1> QED
  BY <1>1, SettingsHold, PTL
\* What an agent of provider p says of its world: it is p's, and p's key is there.
HasKey(w, a, p) ==
    a.ok => /\ a.provider = p
            /\ KeyOf(p) # "none" => RequireEnv(w, KeyOf(p))

\* provider/*.rs: each builder looks at its key before it builds.
LEMMA BuildersNeedKeys ==
    ASSUME NEW w, NEW model, NEW url
    PROVE  /\ HasKey(w, BuildAnthropic(w, model), "anthropic")
           /\ HasKey(w, BuildOpenAi(w, model, url), "openai")
           /\ HasKey(w, BuildGemini(w, model), "gemini")
           /\ HasKey(w, BuildOllama(w, model, url), "ollama")
           /\ HasKey(w, BuildMock(w), "mock")
<1>1. \A p, m, u : HasKey(w, Built(p, m, u), p) <=> (KeyOf(p) # "none" => RequireEnv(w, KeyOf(p)))
  BY DEF HasKey, Built
<1>2. \A p, reason : HasKey(w, BuildError(reason), p)
  BY DEF HasKey, BuildError
<1>3. \A p, m, u : (KeyOf(p) # "none" => RequireEnv(w, KeyOf(p))) => HasKey(w, Client(w, p, m, u), p)
  BY <1>1, <1>2 DEF Client
<1>4. HasKey(w, BuildAnthropic(w, model), "anthropic")
  BY <1>2, <1>3, KeysOf DEF BuildAnthropic
<1>5. HasKey(w, BuildOpenAi(w, model, url), "openai")
  BY <1>2, <1>3, KeysOf DEF BuildOpenAi
<1>6. HasKey(w, BuildGemini(w, model), "gemini")
  BY <1>2, <1>3, KeysOf DEF BuildGemini
<1>7. HasKey(w, BuildOllama(w, model, url), "ollama")
  BY <1>3, KeysOf DEF BuildOllama
<1>8. HasKey(w, BuildMock(w), "mock")
  BY <1>1, <1>2, KeysOf DEF BuildMock
<1> QED
  BY <1>4, <1>5, <1>6, <1>7, <1>8

\* build_named: the provider that is named, or an error.
LEMMA NamedHasKey ==
    ASSUME NEW w, NEW c, NEW name, NEW override
    PROVE  HasKey(w, BuildNamed(w, c, name, override), name)
<1>1. HasKey(w, BuildError("unknown_provider"), name)
  BY DEF HasKey, BuildError
<1>2. CASE name = "anthropic"
  BY <1>2, BuildersNeedKeys DEF BuildNamed
<1>3. CASE name = "openai"
  BY <1>3, BuildersNeedKeys DEF BuildNamed
<1>4. CASE name = "gemini"
  BY <1>4, BuildersNeedKeys DEF BuildNamed
<1>5. CASE name = "ollama"
  BY <1>5, BuildersNeedKeys DEF BuildNamed
<1>6. CASE name = "mock"
  BY <1>6, BuildersNeedKeys DEF BuildNamed
<1>7. CASE name \notin {"anthropic", "openai", "gemini", "ollama", "mock"}
  BY <1>1, <1>7 DEF BuildNamed
<1> QED
  BY <1>2, <1>3, <1>4, <1>5, <1>6, <1>7

\* build_from_env: the provider of the first key that is set, and its section only.
LEMMA EnvHasKey ==
    ASSUME NEW w, NEW c, BuildFromEnv(w, c).ok
    PROVE  \E p \in Registered :
              /\ HasKey(w, BuildFromEnv(w, c), p)
              /\ \A d : SameSection(c, d, p) => BuildFromEnv(w, d) = BuildFromEnv(w, c)
<1>1. ~ BuildError("no_provider").ok
  BY DEF BuildError
<1>2. CASE IsSet(w, "ANTHROPIC_API_KEY")
  <2>1. HasKey(w, BuildFromEnv(w, c), "anthropic")
    BY <1>2, BuildersNeedKeys DEF BuildFromEnv
  <2>2. \A d : SameSection(c, d, "anthropic") => BuildFromEnv(w, d) = BuildFromEnv(w, c)
    BY <1>2 DEF BuildFromEnv, SameSection
  <2> QED
    BY <2>1, <2>2 DEF Registered
<1>3. CASE ~ IsSet(w, "ANTHROPIC_API_KEY") /\ IsSet(w, "OPENAI_API_KEY")
  <2>1. HasKey(w, BuildFromEnv(w, c), "openai")
    BY <1>3, BuildersNeedKeys DEF BuildFromEnv
  <2>2. \A d : SameSection(c, d, "openai") => BuildFromEnv(w, d) = BuildFromEnv(w, c)
    BY <1>3 DEF BuildFromEnv, SameSection
  <2> QED
    BY <2>1, <2>2 DEF Registered
<1>4. CASE ~ IsSet(w, "ANTHROPIC_API_KEY") /\ ~ IsSet(w, "OPENAI_API_KEY")
           /\ IsSet(w, "GOOGLE_API_KEY")
  <2>1. HasKey(w, BuildFromEnv(w, c), "gemini")
    BY <1>4, BuildersNeedKeys DEF BuildFromEnv
  <2>2. \A d : SameSection(c, d, "gemini") => BuildFromEnv(w, d) = BuildFromEnv(w, c)
    BY <1>4 DEF BuildFromEnv, SameSection
  <2> QED
    BY <2>1, <2>2 DEF Registered
<1>5. CASE ~ IsSet(w, "ANTHROPIC_API_KEY") /\ ~ IsSet(w, "OPENAI_API_KEY")
           /\ ~ IsSet(w, "GOOGLE_API_KEY")
  <2>1. IsSet(w, "OLLAMA_HOST")
    BY <1>1, <1>5 DEF BuildFromEnv
  <2>2. HasKey(w, BuildFromEnv(w, c), "ollama")
    BY <1>5, <2>1, BuildersNeedKeys DEF BuildFromEnv
  <2>3. \A d : SameSection(c, d, "ollama") => BuildFromEnv(w, d) = BuildFromEnv(w, c)
    BY <1>5, <2>1 DEF BuildFromEnv, SameSection
  <2> QED
    BY <2>2, <2>3 DEF Registered
<1> QED
  BY <1>2, <1>3, <1>4, <1>5

\* build_from_config, when it comes to an agent: the three ways to choose it.
LEMMA ThreeWays ==
    ASSUME NEW w, NEW c
    PROVE  BuildFromConfig(w, c) =
              IF IsSet(w, "PH0B0S_PROVIDER")
              THEN BuildNamed(w, c, w.env["PH0B0S_PROVIDER"], DefaultAgent(c).model)
              ELSE IF DefaultAgent(c).provider # ""
              THEN BuildNamed(w, c, DefaultAgent(c).provider, DefaultAgent(c).model)
              ELSE BuildFromEnv(w, c)
  BY DEF BuildFromConfig

\* An agent has its key, whichever way it was chosen, and without a name for it
\* [agents.default] has no part in it.
LEMMA ChosenHasKey ==
    ASSUME NEW w, NEW c, NEW a, a = BuildFromConfig(w, c), a.ok
    PROVE  /\ HasKey(w, a, a.provider)
           /\ ~ IsSet(w, "PH0B0S_PROVIDER") => DefaultAgent(c).provider \in {"", a.provider}
<1>1. CASE IsSet(w, "PH0B0S_PROVIDER")
  <2>1. HasKey(w, a, w.env["PH0B0S_PROVIDER"])
    BY <1>1, ThreeWays, NamedHasKey
  <2> QED
    BY <1>1, <2>1 DEF HasKey
<1>2. CASE ~ IsSet(w, "PH0B0S_PROVIDER") /\ DefaultAgent(c).provider # ""
  <2>1. HasKey(w, a, DefaultAgent(c).provider)
    BY <1>2, ThreeWays, NamedHasKey
  <2> QED
    BY <2>1 DEF HasKey
<1>3. CASE ~ IsSet(w, "PH0B0S_PROVIDER") /\ DefaultAgent(c).provider = ""
  <2>1. a = BuildFromEnv(w, c)
    BY <1>3, ThreeWays
  <2>2. PICK p \in Registered : HasKey(w, BuildFromEnv(w, c), p)
    BY <2>1, EnvHasKey
  <2> QED
    BY <1>3, <2>1, <2>2 DEF HasKey
<1> QED
  BY <1>1, <1>2, <1>3

\* Settings that agree on an agent's own section and on [agents.default], or leave
\* out its model where no provider is named, give the same agent.
LEMMA ChosenFromOwnSection ==
    ASSUME NEW w, NEW c, NEW d, NEW a, a = BuildFromConfig(w, c), a.ok,
           a.provider \in Registered => SameSection(c, d, a.provider),
           DefaultAgent(d).provider = DefaultAgent(c).provider,
           DefaultAgent(d).model = DefaultAgent(c).model
              \/ (~ IsSet(w, "PH0B0S_PROVIDER") /\ DefaultAgent(c).provider = "")
    PROVE  BuildFromConfig(w, d) = a
<1>1. \A key : SameVariable(w, w, key)
  BY DEF SameVariable
<1>2. CASE IsSet(w, "PH0B0S_PROVIDER")
  <2> DEFINE name == w.env["PH0B0S_PROVIDER"]
  <2>1. a = BuildNamed(w, c, name, DefaultAgent(c).model)
    BY <1>2, ThreeWays
  <2> HIDE DEF name
  <2>2. HasKey(w, a, name)
    BY <2>1, NamedHasKey
  <2>3. a.provider = name
    BY <2>2 DEF HasKey
  <2>4. /\ name \in Registered => SameSection(c, d, name)
        /\ SameVariable(w, w, KeyOf(name)) /\ SameVariable(w, w, "PH0B0S_MOCK_RESPONSES")
    BY <1>1, <2>3
  <2>5. BuildNamed(w, c, name, DefaultAgent(c).model) = BuildNamed(w, d, name, DefaultAgent(c).model)
    BY ONLY <2>4, BuildNamedReads
  <2> QED
    BY <1>2, <2>1, <2>5, ThreeWays DEF name
<1>3. CASE ~ IsSet(w, "PH0B0S_PROVIDER") /\ DefaultAgent(c).provider # ""
  <2> DEFINE name == DefaultAgent(c).provider
  <2>1. a = BuildNamed(w, c, name, DefaultAgent(c).model)
    BY <1>3, ThreeWays
  <2> HIDE DEF name
  <2>2. HasKey(w, a, name)
    BY <2>1, NamedHasKey
  <2>3. a.provider = name
    BY <2>2 DEF HasKey
  <2>4. /\ name \in Registered => SameSection(c, d, name)
        /\ SameVariable(w, w, KeyOf(name)) /\ SameVariable(w, w, "PH0B0S_MOCK_RESPONSES")
    BY <1>1, <2>3
  <2>5. BuildNamed(w, c, name, DefaultAgent(c).model) = BuildNamed(w, d, name, DefaultAgent(c).model)
    BY ONLY <2>4, BuildNamedReads
  <2> QED
    BY <1>3, <2>1, <2>5, ThreeWays DEF name
<1>4. CASE ~ IsSet(w, "PH0B0S_PROVIDER") /\ DefaultAgent(c).provider = ""
  <2>1. a = BuildFromEnv(w, c) /\ BuildFromConfig(w, d) = BuildFromEnv(w, d)
    BY <1>4, ThreeWays
  <2>2. PICK p \in Registered :
           /\ HasKey(w, BuildFromEnv(w, c), p)
           /\ \A e : SameSection(c, e, p) => BuildFromEnv(w, e) = BuildFromEnv(w, c)
    BY <2>1, EnvHasKey
  <2>3. a.provider = p
    BY <2>1, <2>2 DEF HasKey
  <2> QED
    BY <2>1, <2>2, <2>3
<1> QED
  BY <1>2, <1>3, <1>4

\* AgentHasItsKey, for every world: no scan starts without its provider's key, nor
\* with anything of another provider's section.
THEOREM AgentsHaveTheirKey == Spec => []AgentHasItsKey
<1>1. SettingsInv => AgentHasItsKey
  <2> SUFFICES ASSUME SettingsInv, phase \in {"run", "report"}
               PROVE  /\ agent.ok
                      /\ KeyOf(agent.provider) # "none" =>
                            /\ IsSet(world, KeyOf(agent.provider))
                            /\ world.env[KeyOf(agent.provider)] # ""
                      /\ \A p \in Registered \ {agent.provider},
                            name \in {"default_model", "base_url"} :
                            agent = BuiltWithoutSetting(<<"providers", p, name>>)
                      /\ ~ IsSet(world, "PH0B0S_PROVIDER") =>
                            /\ DefaultAgent(config).provider \in {"", agent.provider}
                            /\ DefaultAgent(config).provider = "" =>
                                  agent = BuiltWithoutSetting(<<"agents", "default", "model">>)
    BY DEF AgentHasItsKey
  <2>1. agent.ok /\ agent = BuildFromConfig(world, config)
    BY DEF SettingsInv
  <2>2. /\ HasKey(world, agent, agent.provider)
        /\ ~ IsSet(world, "PH0B0S_PROVIDER") =>
              DefaultAgent(config).provider \in {"", agent.provider}
    BY <2>1, ChosenHasKey
  <2>3. KeyOf(agent.provider) # "none" =>
           /\ IsSet(world, KeyOf(agent.provider))
           /\ world.env[KeyOf(agent.provider)] # ""
    BY <2>1, <2>2 DEF HasKey, RequireEnv
  <2>4. ASSUME NEW p \in Registered \ {agent.provider}, NEW name \in {"default_model", "base_url"}
        PROVE  agent = BuiltWithoutSetting(<<"providers", p, name>>)
    <3> DEFINE path == <<"providers", p, name>>
               d == Without(config, path)
    <3>1. /\ path # <<"agents", "default", "provider">>
          /\ path # <<"agents", "default", "model">>
          /\ path # <<"providers", agent.provider, "default_model">>
          /\ path # <<"providers", agent.provider, "base_url">>
      BY PathsDiffer
    <3> HIDE DEF path
    <3>2. /\ SameSection(config, d, agent.provider)
          /\ DefaultAgent(d).provider = DefaultAgent(config).provider
          /\ DefaultAgent(d).model = DefaultAgent(config).model
      BY <3>1, SectionsWithout
    <3>3. BuildFromConfig(world, d) = agent
      <4> HIDE DEF d
      <4> QED
        BY <2>1, <3>2, ChosenFromOwnSection
    <3> QED
      BY <3>3 DEF BuiltWithoutSetting, path
  <2>5. ASSUME ~ IsSet(world, "PH0B0S_PROVIDER"), DefaultAgent(config).provider = ""
        PROVE  agent = BuiltWithoutSetting(<<"agents", "default", "model">>)
    <3> DEFINE path == <<"agents", "default", "model">>
               d == Without(config, path)
    <3>1. /\ path # <<"agents", "default", "provider">>
          /\ \A p : /\ path # <<"providers", p, "default_model">>
                    /\ path # <<"providers", p, "base_url">>
      BY PathsDiffer
    <3> HIDE DEF path
    <3>2. /\ SameSection(config, d, agent.provider)
          /\ DefaultAgent(d).provider = DefaultAgent(config).provider
      BY <3>1, SectionsWithout
    <3>3. BuildFromConfig(world, d) = agent
      <4> HIDE DEF d
      <4> QED
        BY <2>1, <2>5, <3>2, ChosenFromOwnSection
    <3> QED
      BY <3>3 DEF BuiltWithoutSetting, path
  <2> QED
    BY <2>1, <2>2, <2>3, <2>4, <2>5
<1> QED
  BY <1>1, SettingsHold, PTL

-----------------------------------------------------------------------------
(* Renderings                                                              *)

\* What a scan returned: findings whose severities and rules are known, and the
\* stats of just these findings.
Known(findings) ==
    /\ findings \in Seq(ToSet(findings))
    /\ \A i \in DOMAIN findings : /\ findings[i].severity \in Severity
                                  /\ findings[i].rule \in ToSet(RuleOrder)
ResultInv ==
    /\ world \in Worlds
    /\ result.ok => /\ Known(result.findings)
                    /\ \E d : result.stats = ComputeStats(result.findings, d)

\* The findings that are shown with a level.
Shown(findings, l) == {i \in DOMAIN findings : QualitativeBucket(findings[i].severity) = l}

\* compute_stats, severity_counts, print_summary: the same finite counts.
LEMMA CountsOfLevels ==
    ASSUME NEW findings, Known(findings)
    PROVE  /\ Len(findings) \in Nat /\ DOMAIN findings = 1..Len(findings)
           /\ \A l : /\ IsFiniteSet(Shown(findings, l))
                     /\ AtLevel(findings, l) = Cardinality(Shown(findings, l))
                     /\ AtLevel(findings, l) \in Nat
<1>1. Len(findings) \in Nat /\ DOMAIN findings = 1..Len(findings)
  BY DEF Known
<1>2. IsFiniteSet(DOMAIN findings)
  BY <1>1, FS_Interval
<1>3. ASSUME NEW l
      PROVE  /\ IsFiniteSet(Shown(findings, l))
             /\ AtLevel(findings, l) = Cardinality(Shown(findings, l))
             /\ AtLevel(findings, l) \in Nat
  <2>1. IsFiniteSet(Shown(findings, l))
    <3>1. Shown(findings, l) \subseteq DOMAIN findings
      BY DEF Shown
    <3> QED
      BY <1>2, <3>1, FS_Subset
  <2>2. AtLevel(findings, l) = Cardinality(Shown(findings, l))
    BY DEF AtLevel, Shown
  <2>3. Cardinality(Shown(findings, l)) \in Nat
    BY <2>1, FS_CardinalityType
  <2> QED
    BY <2>1, <2>2, <2>3
<1> QED
  BY <1>1, <1>3

\* A level that is left out of a summary counts nothing.
LEMMA ListedCounts ==
    ASSUME NEW findings, Known(findings), NEW l \in Level,
           NEW counts, counts = [m \in {m \in Level : AtLevel(findings, m) > 0} |->
                                    AtLevel(findings, m)]
    PROVE  (IF l \in DOMAIN counts THEN counts[l] ELSE 0) = AtLevel(findings, l)
<1>1. AtLevel(findings, l) \in Nat
  BY CountsOfLevels
<1>2. l \in DOMAIN counts <=> AtLevel(findings, l) > 0
  OBVIOUS
<1>3. CASE AtLevel(findings, l) > 0
  BY <1>2, <1>3
<1>4. CASE AtLevel(findings, l) = 0
  BY <1>2, <1>4
<1> QED
  BY <1>1, <1>3, <1>4

\* severity_to_level: SARIF's level of every finding.
LEMMA LevelsOfSarif ==
    ASSUME NEW findings, Known(findings), NEW results,
           results = [i \in DOMAIN findings |-> BuildResult(findings[i])]
    PROVE  /\ {i \in DOMAIN results : results[i].level = "error"}
                 = Shown(findings, "critical") \cup Shown(findings, "high")
           /\ {i \in DOMAIN results : results[i].level = "warning"} = Shown(findings, "medium")
           /\ {i \in DOMAIN results : results[i].level = "note"}
                 = Shown(findings, "low") \cup Shown(findings, "none")
<1> DEFINE bucket(i) == QualitativeBucket(findings[i].severity)
<1>1. DOMAIN results = DOMAIN findings
  OBVIOUS
<1>2. \A i \in DOMAIN findings : results[i].level = SeverityToLevel(bucket(i))
  <2> TAKE i \in DOMAIN findings
  <2>1. results[i] = BuildResult(findings[i])
    OBVIOUS
  <2>2. BuildResult(findings[i]).level = SeverityToLevel(bucket(i))
    BY DEF BuildResult
  <2> QED
    BY <2>1, <2>2
<1>3. \A i \in DOMAIN findings : bucket(i) \in Level
  BY NumberInBand DEF Known
<1>4. \A l \in Level : /\ SeverityToLevel(l) = "error" <=> l \in {"critical", "high"}
                       /\ SeverityToLevel(l) = "warning" <=> l = "medium"
                       /\ SeverityToLevel(l) = "note" <=> l \in {"low", "none"}
  BY LevelsAreFive DEF SeverityToLevel
<1>5. \A i \in DOMAIN findings :
         /\ results[i].level = "error" <=> bucket(i) \in {"critical", "high"}
         /\ results[i].level = "warning" <=> bucket(i) = "medium"
         /\ results[i].level = "note" <=> bucket(i) \in {"low", "none"}
  BY <1>2, <1>3, <1>4
<1> QED
  BY <1>1, <1>5 DEF Shown

\* Findings of two levels are different findings.
LEMMA TwoLevels ==
    ASSUME NEW findings, Known(findings), NEW l, NEW m, l # m
    PROVE  Cardinality(Shown(findings, l) \cup Shown(findings, m))
              = AtLevel(findings, l) + AtLevel(findings, m)
<1>1. /\ IsFiniteSet(Shown(findings, l)) /\ IsFiniteSet(Shown(findings, m))
      /\ Shown(findings, l) \cap Shown(findings, m) = {}
  BY CountsOfLevels DEF Shown
<1>2. Cardinality({}) = 0
  BY FS_EmptySet
<1>3. Cardinality(Shown(findings, l) \cup Shown(findings, m))
         = Cardinality(Shown(findings, l)) + Cardinality(Shown(findings, m)) - Cardinality({})
  BY <1>1, FS_Union
<1> QED
  BY <1>2, <1>3, CountsOfLevels

\* build_rules: the finding whose title and detector a rule has.
LEMMA FirstOfRule ==
    ASSUME NEW findings, Known(findings), NEW rule,
           \E i \in DOMAIN findings : findings[i].rule = rule
    PROVE  First(findings, rule).rule = rule
<1> DEFINE T == {i \in DOMAIN findings : findings[i].rule = rule}
<1>1. DOMAIN findings = 1..Len(findings) /\ Len(findings) \in Nat
  BY CountsOfLevels
<1>2. PICK i \in T : \A j \in T : i <= j
  <2>1. T \in SUBSET Nat /\ T # {}
    BY <1>1
  <2> HIDE DEF T
  <2> QED
    BY <2>1, LeastNatural
<1>3. /\ i \in DOMAIN findings /\ findings[i].rule = rule
      /\ \A j \in 1..(i - 1) : findings[j].rule # rule
  BY <1>1, <1>2
<1> QED
  BY <1>3 DEF First

\* build_rules: each rule that a finding has is there once.
LEMMA OneRuleEach ==
    ASSUME NEW findings, Known(findings), NEW i \in DOMAIN findings
    PROVE  Cardinality({k \in DOMAIN BuildRules(findings) :
                           BuildRules(findings)[k].id = findings[i].rule}) = 1
<1> DEFINE used(r)  == \E j \in DOMAIN findings : findings[j].rule = r
           entry(f) == [id |-> f.rule, title |-> f.title, detector |-> f.detector]
           of(r)    == entry(First(findings, r))
           parts    == [k \in DOMAIN RuleOrder |->
                           IF used(RuleOrder[k]) THEN <<of(RuleOrder[k])>> ELSE << >>]
           S        == {of(RuleOrder[k]) : k \in DOMAIN RuleOrder}
           rules    == BuildRules(findings)
           rule     == findings[i].rule
<1>1. Len(RuleOrder) \in Nat /\ DOMAIN RuleOrder = 1..Len(RuleOrder)
  BY RuleOrderAssumption
<1>2. rules = FlattenSeq(parts)
  BY DEF BuildRules
<1>3. \A r : used(r) => of(r).id = r
  BY FirstOfRule
<1>4. PICK p \in DOMAIN RuleOrder : RuleOrder[p] = rule
  BY DEF Known, ToSet
<1>5. used(rule)
  OBVIOUS
<1> HIDE DEF used, of
<1>6. \A k \in DOMAIN RuleOrder : parts[k] = << >> \/ \E x \in S : parts[k] = <<x>>
  OBVIOUS
<1>7. parts \in Seq(Seq(S)) /\ Len(parts) = Len(RuleOrder)
  <2>1. \A k \in DOMAIN RuleOrder : parts[k] \in Seq(S)
    <3> SUFFICES ASSUME NEW k \in DOMAIN RuleOrder PROVE parts[k] \in Seq(S)
      OBVIOUS
    <3>1. of(RuleOrder[k]) \in S
      OBVIOUS
    <3> HIDE DEF S
    <3>2. <<of(RuleOrder[k])>> \in Seq(S) /\ << >> \in Seq(S)
      BY <3>1
    <3> QED
      BY <3>2
  <2>2. parts \in [1..Len(RuleOrder) -> Seq(S)]
    BY <1>1, <2>1
  <2> HIDE DEF parts, S
  <2> QED
    BY <1>1, <2>2
<1>8. \A k \in DOMAIN RuleOrder : /\ used(RuleOrder[k]) => parts[k] = <<of(RuleOrder[k])>>
                                  /\ parts[k] # << >> => used(RuleOrder[k])
  OBVIOUS
<1> HIDE DEF parts, S
<1>9. PICK h : rules \in Seq(S) /\ Origins(h, rules, parts, Len(RuleOrder))
  BY <1>1, <1>2, <1>6, <1>7, FlattenSingles
<1> HIDE DEF rules, rule
<1>10. DOMAIN rules = 1..Len(rules) /\ h \in [1..Len(rules) -> 1..Len(RuleOrder)]
  BY <1>9 DEF Origins
<1>11. \A k \in DOMAIN rules : rules[k].id = RuleOrder[h[k]]
  <2> SUFFICES ASSUME NEW k \in DOMAIN rules PROVE rules[k].id = RuleOrder[h[k]]
    OBVIOUS
  <2>1. h[k] \in DOMAIN RuleOrder /\ parts[h[k]] = <<rules[k]>>
    BY <1>1, <1>9, <1>10 DEF Origins
  <2>2. parts[h[k]] # << >>
    BY <2>1
  <2>3. <<rules[k]>> = <<of(RuleOrder[h[k]])>>
    BY <1>8, <2>1, <2>2
  <2>4. rules[k] = of(RuleOrder[h[k]])
    BY <2>3
  <2> QED
    BY <1>3, <1>8, <2>1, <2>2, <2>4
<1>12. PICK m \in DOMAIN rules : h[m] = p
  <2>1. parts[p] # << >>
    BY <1>4, <1>5, <1>8
  <2> QED
    BY <1>1, <1>4, <1>9, <1>10, <2>1 DEF Origins
<1>13. \A k \in DOMAIN rules : rules[k].id = rule <=> k = m
  <2> SUFFICES ASSUME NEW k \in DOMAIN rules PROVE rules[k].id = rule <=> k = m
    OBVIOUS
  <2>1. h[k] \in DOMAIN RuleOrder
    BY <1>1, <1>10
  <2>2. RuleOrder[h[k]] = RuleOrder[p] => h[k] = p
    BY <1>4, <2>1, RuleOrderAssumption
  <2>3. h[k] = h[m] => k = m
    BY <1>9, <1>10 DEF Origins
  <2> QED
    BY <1>4, <1>11, <1>12, <2>2, <2>3
<1>14. {k \in DOMAIN rules : rules[k].id = rule} = {m}
  BY <1>13
<1> QED
  BY <1>14, FS_Singleton DEF rules, rule
\* What the renderers say of known findings agrees, and every result has its rule.
LEMMA KnownRenderingsAgree ==
    ASSUME ResultInv
    PROVE  RenderingsAgree
<1> SUFFICES ASSUME result.ok PROVE RenderingsAgree
  BY DEF RenderingsAgree
<1> DEFINE findings == result.findings
           sarif == Sarif(result)
           table == Markdown(result).table
           level(word) == Cardinality({i \in DOMAIN sarif.results :
                                          sarif.results[i].level = word})
           counts == [m \in {m \in Level : AtLevel(findings, m) > 0} |-> AtLevel(findings, m)]
<1>1. Known(findings) /\ \E d : result.stats = ComputeStats(findings, d)
  BY DEF ResultInv
<1>2. /\ \A l \in Level : table[l] = AtLevel(findings, l)
      /\ Markdown(result).total = Len(findings)
  BY DEF Markdown, SeverityCounts
<1>3. Summary(result).levels = counts /\ Summary(result).findings = Len(findings)
  BY DEF Summary
<1>4. result.stats.by_severity = counts /\ result.stats.total = Len(findings)
  BY <1>1 DEF ComputeStats
<1>5. /\ sarif.results = [i \in DOMAIN findings |-> BuildResult(findings[i])]
      /\ sarif.rules = BuildRules(findings)
  BY DEF Sarif
<1> HIDE DEF findings, sarif, table
<1>6. \A l \in Level : (IF l \in DOMAIN counts THEN counts[l] ELSE 0) = AtLevel(findings, l)
  BY <1>1, ListedCounts
<1>7. /\ level("error") = AtLevel(findings, "critical") + AtLevel(findings, "high")
      /\ level("warning") = AtLevel(findings, "medium")
      /\ level("note") = AtLevel(findings, "low") + AtLevel(findings, "none")
  <2>1. /\ {i \in DOMAIN sarif.results : sarif.results[i].level = "error"}
              = Shown(findings, "critical") \cup Shown(findings, "high")
        /\ {i \in DOMAIN sarif.results : sarif.results[i].level = "warning"}
              = Shown(findings, "medium")
        /\ {i \in DOMAIN sarif.results : sarif.results[i].level = "note"}
              = Shown(findings, "low") \cup Shown(findings, "none")
    BY <1>1, <1>5, LevelsOfSarif
  <2> QED
    <3>1. level("error") = AtLevel(findings, "critical") + AtLevel(findings, "high")
      BY <1>1, <2>1, TwoLevels
    <3>2. level("warning") = AtLevel(findings, "medium")
      BY <1>1, <2>1, CountsOfLevels
    <3>3. level("note") = AtLevel(findings, "low") + AtLevel(findings, "none")
      BY <1>1, <2>1, TwoLevels
    <3> QED
      BY <3>1, <3>2, <3>3
<1>8. Len(sarif.results) = Len(findings) /\ DOMAIN sarif.results = DOMAIN findings
  <2>1. Len(findings) \in Nat /\ DOMAIN findings = 1..Len(findings)
    BY <1>1, CountsOfLevels
  <2> QED
    BY <1>5, <2>1
<1>9. \A i \in DOMAIN sarif.results :
         Cardinality({k \in DOMAIN sarif.rules :
                         sarif.rules[k].id = sarif.results[i].ruleId}) = 1
  <2> SUFFICES ASSUME NEW i \in DOMAIN sarif.results
               PROVE  Cardinality({k \in DOMAIN sarif.rules :
                                      sarif.rules[k].id = sarif.results[i].ruleId}) = 1
    OBVIOUS
  <2>1. i \in DOMAIN findings /\ sarif.results[i] = BuildResult(findings[i])
    BY <1>5, <1>8
  <2>2. sarif.results[i].ruleId = findings[i].rule
    BY <2>1 DEF BuildResult
  <2> QED
    BY <1>1, <1>5, <2>1, <2>2, OneRuleEach
<1>10. \A l \in Level :
          /\ table[l] = (IF l \in DOMAIN Summary(result).levels
                         THEN Summary(result).levels[l] ELSE 0)
          /\ table[l] = (IF l \in DOMAIN result.stats.by_severity
                         THEN result.stats.by_severity[l] ELSE 0)
  BY <1>2, <1>3, <1>4, <1>6
<1>11. /\ level("error") = table["critical"] + table["high"]
       /\ level("warning") = table["medium"]
       /\ level("note") = table["low"] + table["none"]
  BY <1>2, <1>7, LevelsAreFive
<1>12. Markdown(result).total = Len(sarif.results) /\ result.stats.total = Summary(result).findings
  BY <1>2, <1>3, <1>4, <1>8
<1> QED
  BY <1>9, <1>10, <1>11, <1>12 DEF RenderingsAgree, sarif, table

\* RenderingsAgree, for every list of findings: a result comes from one scan, and
\* the renderers count the same findings of it.
THEOREM RenderingsMatch == Spec => []RenderingsAgree
<1>1. Init => ResultInv
  BY DEF Init, ResultInv, None
<1>2. ResultInv /\ [Next]_vars => ResultInv'
  <2> SUFFICES ASSUME ResultInv, [Next]_vars PROVE ResultInv'
    OBVIOUS
  <2>1. ASSUME NEW o \in world.outcomes, Run(o) PROVE ResultInv'
    <3>1. CASE o.ok /\ ~ (Strict /\ o.errors # << >>)
      <4>1. /\ result' = [ok |-> TRUE, findings |-> o.findings, errors |-> o.errors,
                          stats |-> ComputeStats(o.findings, o.deduped)]
            /\ world' = world
        BY <2>1, <3>1 DEF Run
      <4>2. Known(o.findings)
        BY <3>1, WorldsAssumption DEF ResultInv, Known
      <4>3. result'.findings = o.findings /\ result'.stats = ComputeStats(o.findings, o.deduped)
        BY <4>1
      <4> QED
        BY <4>1, <4>2, <4>3 DEF ResultInv
    <3>2. CASE ~ (o.ok /\ ~ (Strict /\ o.errors # << >>))
      <4>1. UNCHANGED <<world, result>>
        BY <2>1, <3>2 DEF Run
      <4> QED
        BY <4>1 DEF ResultInv
    <3> QED
      BY <3>1, <3>2
  <2>2. CASE UNCHANGED <<world, result>>
    BY <2>2 DEF ResultInv
  <2>3. \/ \E o \in world.outcomes : Run(o)
        \/ UNCHANGED <<world, result>>
    BY DEF Next, Progress, Load, LoadFails, ConfigCheck, McpList, BuildAgent, Create,
           CreateFails, HandOver, ErrorSurfaces, Close, ReportsDone, Lands, Fails, Exit,
           Killed, settings, vars
  <2> QED
    BY <2>1, <2>2, <2>3
<1>3. ResultInv => RenderingsAgree
  BY KnownRenderingsAgree
<1> QED
  BY <1>1, <1>2, <1>3, PTL DEF Spec
=============================================================================
