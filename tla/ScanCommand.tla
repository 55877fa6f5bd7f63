---------------------------- MODULE ScanCommand -----------------------------
(***************************************************************************)
(* A `ph0b0s` process from its start to its exit code: main() loads the      *)
(* settings, builds the provider, runs the scan and writes up to three       *)
(* reports.  ScanPipeline models what happens in scan::run before the        *)
(* reports; here it is one step with an outcome.                             *)
(*                                                                         *)
(* A report goes through a tokio file: write_all hands a chunk to a          *)
(* background write and returns; the next write_all waits for it and returns *)
(* its error.  Nothing flushes, so the error of a file's last chunk is lost.  *)
(* The runtime lets background writes end before the process exits.  A body   *)
(* longer than the file's buffer goes over in several chunks, here in one.    *)
(***************************************************************************)
EXTENDS Settings, Reporters

CONSTANTS
    Worlds     \* what a process may find: see Settings; its command and arguments,
               \* and w.outcomes, what scan::run may come to before the reports

ASSUME WorldsAssumption ==
    \A w \in Worlds :
        /\ w.command \in {"scan", "config_check", "mcp_list"}
        /\ DOMAIN w.files \subseteq {"xdg", "home", "project"}
        /\ \A o \in w.outcomes : o.ok =>
              /\ o.deduped \in Nat
              /\ o.findings \in Seq(ToSet(o.findings))
              /\ \A i \in DOMAIN o.findings : /\ o.findings[i].severity \in Severity
                                              /\ o.findings[i].rule \in ToSet(RuleOrder)

VARIABLES
    world,     \* the process's surroundings and arguments, chosen once
    phase,
    config,    \* the loaded settings
    agent,     \* the provider's agent
    result,    \* the scan's result
    printed,   \* what config check or mcp list printed
    reports,   \* the reports to write, with their paths
    current,   \* the index in reports of the one being written
    open,      \* its file is open
    handed,    \* how many of its chunks were handed to the file
    inflight,  \* background writes that have not ended
    broken,    \* the reports of which a background write failed
    disk,      \* the chunks that are in files
    code       \* the exit code

settings == <<world, config, agent, result, printed, reports>>
writing  == <<current, open, handed, inflight, broken, disk>>
vars     == <<settings, writing, phase, code>>

None == [ok |-> FALSE]

Init ==
    /\ world \in Worlds
    /\ phase = "load" /\ config = << >> /\ agent = None /\ result = None
    /\ printed = << >> /\ reports = << >>
    /\ current = 1 /\ open = FALSE /\ handed = 0 /\ inflight = {} /\ broken = {}
    /\ disk = {}
    /\ code = -1

\* `?` in main: the process goes on to its end with this exit code.
Exits(c) == phase' = "exiting" /\ code' = c

-----------------------------------------------------------------------------
(* main, up to the reports                                                 *)

Load ==
    /\ phase = "load" /\ Loads(world)
    /\ config' = Merged(world)
    /\ phase' = world.command
    /\ UNCHANGED <<world, agent, result, printed, reports, writing, code>>

LoadFails ==
    /\ phase = "load" /\ ~ Loads(world)
    /\ Exits(1)
    /\ UNCHANGED <<settings, writing>>

\* Prints the settings, without secrets, and the database's path.
ConfigCheck ==
    /\ phase = "config_check" /\ Exits(0)
    /\ printed' = [settings |-> RedactedJson(config),
                   db |-> EffectiveDbPath(world, config)]
    /\ UNCHANGED <<world, config, agent, result, reports, writing>>

\* Prints the servers; no agent is built and no server is started.
McpList ==
    /\ phase = "mcp_list" /\ Exits(0)
    /\ printed' = [servers |-> Setting(config, <<"mcp_servers">>)]
    /\ UNCHANGED <<world, config, agent, result, reports, writing>>

BuildAgent ==
    /\ phase = "scan"
    /\ agent' = BuildFromConfig(world, config)
    /\ IF agent'.ok THEN phase' = "run" /\ UNCHANGED code ELSE Exits(1)
    /\ UNCHANGED <<world, config, result, printed, reports, writing>>

Strict == world.strict \/ Setting(config, <<"scan", "strict">>) = "true"

\* clap gives --output a default, so it is never absent.
Output == OrElse(world.output, "report.sarif")

\* write_reports: an argument goes before the configured path.
ReportAt(kind, arg, name) ==
    LET path == OrElse(arg, Setting(config, <<"output", name>>))
    IN  IF path = Unset THEN << >> ELSE <<[kind |-> kind, path |-> path]>>
ConfiguredReports ==
    ReportAt("sarif", Output, "sarif_path")
        \o ReportAt("markdown", world.markdown, "markdown_path")
        \o ReportAt("json", world.json, "json_path")

\* Mutant: only --strict makes a scan strict.
RunUnlessArgument(o) ==
    /\ phase = "run"
    /\ IF o.ok /\ ~ (world.strict /\ o.errors # << >>)
       THEN /\ result' = [ok |-> TRUE, findings |-> o.findings, errors |-> o.errors,
                          stats |-> ComputeStats(o.findings, o.deduped)]
            /\ reports' = ConfiguredReports
            /\ phase' = "report" /\ UNCHANGED code
       ELSE Exits(1) /\ UNCHANGED <<result, reports>>
    /\ UNCHANGED <<world, config, agent, printed, writing>>

\* A strict scan bails at a detector's error; other failures are o.ok's.
Run(o) ==
    /\ phase = "run"
    /\ IF o.ok /\ ~ (Strict /\ o.errors # << >>)
       THEN /\ result' = [ok |-> TRUE, findings |-> o.findings, errors |-> o.errors,
                          stats |-> ComputeStats(o.findings, o.deduped)]
            /\ reports' = ConfiguredReports
            /\ phase' = "report" /\ UNCHANGED code
       ELSE Exits(1) /\ UNCHANGED <<result, reports>>
    /\ UNCHANGED <<world, config, agent, printed, writing>>

-----------------------------------------------------------------------------
(* write_with                                                              *)

Report == reports[current]
Writing == phase = "report" /\ current <= Len(reports)
Chunks(kind) == IF kind = "markdown" THEN <<"body">> ELSE <<"body", "newline">>

\* The file holds no background write: the next one can be handed over.
Idle == \A op \in inflight : op.report # current

\* File::create truncates before anything is rendered.
Create ==
    /\ Writing /\ ~ open
    /\ open' = TRUE /\ handed' = 0
    /\ disk' = {c \in disk : c.path # Report.path}
    /\ UNCHANGED <<settings, phase, code, current, inflight, broken>>

CreateFails ==
    /\ Writing /\ ~ open
    /\ Exits(1)
    /\ UNCHANGED <<settings, writing>>

\* Mutant: body and newline are one write.
HandOverAtOnce ==
    /\ Writing /\ open /\ handed = 0
    /\ inflight' = inflight \cup {[report |-> current, chunk |-> c] :
                                     c \in ToSet(Chunks(Report.kind))}
    /\ handed' = Len(Chunks(Report.kind))
    /\ UNCHANGED <<settings, phase, code, current, open, broken, disk>>

\* write_all: the chunk before ended without an error, this one starts.
HandOver ==
    /\ Writing /\ open /\ handed < Len(Chunks(Report.kind)) /\ Idle
    /\ current \notin broken
    /\ inflight' = inflight \cup {[report |-> current,
                                   chunk |-> Chunks(Report.kind)[handed + 1]]}
    /\ handed' = handed + 1
    /\ UNCHANGED <<settings, phase, code, current, open, broken, disk>>

\* Mutant: the error is not looked at.
ErrorIsDropped == FALSE /\ UNCHANGED vars

\* write_all returns the error of the chunk before.
ErrorSurfaces ==
    /\ Writing /\ open /\ handed < Len(Chunks(Report.kind)) /\ Idle
    /\ current \in broken
    /\ Exits(1)
    /\ UNCHANGED <<settings, writing>>

\* The file is dropped with its last chunk perhaps still in flight.
Close ==
    /\ Writing /\ open /\ handed = Len(Chunks(Report.kind))
    /\ current' = current + 1 /\ open' = FALSE
    /\ UNCHANGED <<settings, phase, code, handed, inflight, broken, disk>>

ReportsDone ==
    /\ phase = "report" /\ current > Len(reports)
    /\ Exits(0)
    /\ UNCHANGED <<settings, writing>>

-----------------------------------------------------------------------------
(* The blocking pool and the end                                           *)

InFile(op, path) == [path |-> path, report |-> op.report, chunk |-> op.chunk]

\* Mutant: it reaches the file that is open now.
LandsInCurrent(op) ==
    /\ op \in inflight
    /\ inflight' = inflight \ {op}
    /\ disk' = disk \cup {InFile(op, IF Writing THEN Report.path
                                      ELSE reports[op.report].path)}
    /\ UNCHANGED <<settings, phase, code, current, open, handed, broken>>

\* A background write reaches the file that the path names by then, or fails.
Lands(op) ==
    /\ op \in inflight
    /\ inflight' = inflight \ {op}
    /\ disk' = disk \cup {InFile(op, reports[op.report].path)}
    /\ UNCHANGED <<settings, phase, code, current, open, handed, broken>>

Fails(op) ==
    /\ op \in inflight
    /\ inflight' = inflight \ {op}
    /\ broken' = broken \cup {op.report}
    /\ UNCHANGED <<settings, phase, code, current, open, handed, disk>>

Exit ==
    /\ phase = "exiting" /\ inflight = {}
    /\ phase' = "exited"
    /\ UNCHANGED <<settings, writing, code>>

\* The process is killed while it writes; what was in flight is lost.
Killed ==
    /\ phase \in {"report", "exiting"}
    /\ phase' = "killed" /\ inflight' = {}
    /\ UNCHANGED <<settings, code, current, open, handed, broken, disk>>

Progress ==
    \/ Load \/ LoadFails \/ ConfigCheck \/ McpList \/ BuildAgent
    \/ \E o \in world.outcomes : Run(o)
    \/ Create \/ CreateFails \/ HandOver \/ ErrorSurfaces \/ Close \/ ReportsDone
    \/ \E op \in inflight : Lands(op) \/ Fails(op)
    \/ Exit

Next == Progress \/ Killed

Spec == Init /\ [][Next]_vars

\* The process and its blocking pool are scheduled; nobody has to kill it.
FairSpec == Spec /\ WF_vars(Progress)

-----------------------------------------------------------------------------
(* Properties                                                              *)

\* The types of the variables: a process is in one of these phases, writes one
\* of its reports, hands over the chunks of write() in order, and puts nothing
\* into a file that no report of it names.
ScanCommandTypeOK ==
    /\ world.command \in {"scan", "config_check", "mcp_list"}
    /\ phase \in {"load", "config_check", "mcp_list", "scan", "run", "report",
                  "exiting", "exited", "killed"}
    /\ code \in {-1, 0, 1} /\ agent.ok \in BOOLEAN /\ result.ok \in BOOLEAN
    /\ current \in 1..(Len(reports) + 1) /\ open \in BOOLEAN /\ handed \in 0..2
    /\ broken \subseteq DOMAIN reports
    /\ inflight \subseteq [report : DOMAIN reports, chunk : {"body", "newline"}]
    /\ \A c \in disk : c.report \in DOMAIN reports /\ c.path = reports[c.report].path

\* load_from: every setting has the value of the highest layer that sets it:
\* PH0B0S__ variables, then the project's file, then one user file, then the
\* defaults, and what any of them sets has a value.  The file under HOME counts
\* only without XDG_CONFIG_HOME, also when there is no file below the latter.
SettingsAreLayered ==
    LET sets(file, path) == /\ file \in DOMAIN world.files
                            /\ path \in DOMAIN world.files[file].settings
        user == IF IsSet(world, "XDG_CONFIG_HOME") THEN "xdg"
                ELSE IF IsSet(world, "HOME") THEN "home" ELSE "none"
    IN  /\ phase \in {"config_check", "mcp_list", "scan", "run", "report"} =>
              /\ DOMAIN Defaults \subseteq DOMAIN config
              /\ DOMAIN world.extra \subseteq DOMAIN config
              /\ \A file \in {"project", user} \cap DOMAIN world.files :
                    DOMAIN world.files[file].settings \subseteq DOMAIN config
        /\ \A path \in DOMAIN config :
              /\ path \in DOMAIN world.extra => config[path] = world.extra[path]
              /\ path \notin DOMAIN world.extra =>
                    /\ sets("project", path) =>
                          config[path] = world.files["project"].settings[path]
                    /\ ~ sets("project", path) /\ sets(user, path) =>
                          config[path] = world.files[user].settings[path]
                    /\ ~ sets("project", path) /\ ~ sets(user, path) =>
                          path \in DOMAIN Defaults /\ config[path] = Defaults[path]

\* The sources of a provider, in the order that build_from_config documents.
Sources == <<"PH0B0S_PROVIDER", "agents.default", "ANTHROPIC_API_KEY",
             "OPENAI_API_KEY", "GOOGLE_API_KEY", "OLLAMA_HOST">>
Names(s) == IF s = "agents.default" THEN DefaultAgent(config).provider # ""
            ELSE IsSet(world, s)
KeyOf(p) == CASE p = "anthropic" -> "ANTHROPIC_API_KEY"
              [] p = "openai" -> "OPENAI_API_KEY"
              [] p = "gemini" -> "GOOGLE_API_KEY"
              [] OTHER -> "none"
Without(f, x) == [y \in DOMAIN f \ {x} |-> f[y]]
\* The agent that there would be without a setting, without a variable.
BuiltWithoutSetting(path) == BuildFromConfig(world, Without(config, path))
BuiltWithoutVariable(name) ==
    BuildFromConfig([env |-> Without(world.env, name), clients |-> world.clients], config)
BuiltWithout(s) ==
    IF s = "agents.default" THEN BuiltWithoutSetting(<<"agents", "default", "provider">>)
    ELSE BuiltWithoutVariable(s)
Attempted == agent # None

\* build_from_config: with a source of a provider present, none below it decides:
\* without it the same agent is built, or the same error comes, even when the
\* higher one is empty, unknown or lacks its key.  Only the key of the provider
\* that the higher source names is needed.
LowerSourcesDoNotDecide ==
    Attempted =>
        \A i, j \in DOMAIN Sources :
            /\ i < j /\ Names(Sources[i])
            /\ ~ \E p \in Registered : /\ KeyOf(p) = Sources[j]
                                       /\ \/ /\ IsSet(world, "PH0B0S_PROVIDER")
                                             /\ world.env["PH0B0S_PROVIDER"] = p
                                          \/ DefaultAgent(config).provider = p
            => agent = BuiltWithout(Sources[j])

\* provider/*.rs: a scan that starts has a key that is not empty for a provider
\* that takes one.  Another provider's section of the settings has no part in its
\* agent, and another provider than that of [agents.default] is built only under
\* PH0B0S_PROVIDER: without that, and without a provider there, the model of
\* [agents.default] has no part either.
AgentHasItsKey ==
    phase \in {"run", "report"} =>
        /\ agent.ok
        /\ KeyOf(agent.provider) # "none" =>
                /\ IsSet(world, KeyOf(agent.provider))
                /\ world.env[KeyOf(agent.provider)] # ""
        /\ \A p \in Registered \ {agent.provider}, name \in {"default_model", "base_url"} :
                agent = BuiltWithoutSetting(<<"providers", p, name>>)
        /\ ~ IsSet(world, "PH0B0S_PROVIDER") =>
                /\ DefaultAgent(config).provider \in {"", agent.provider}
                /\ DefaultAgent(config).provider = "" =>
                        agent = BuiltWithoutSetting(<<"agents", "default", "model">>)

\* scan::run and write_reports: strict by the argument, or by the settings'
\* highest layer that says so, no report and no summary lists an error, and
\* success means that every detector succeeded.
StrictScansReportNoErrors ==
    /\ code = 0 /\ world.command = "scan" => result.ok
    /\ /\ result.ok
       /\ world.strict \/ Setting(Merged(world), <<"scan", "strict">>) = "true"
       => Markdown(result).errors = << >> /\ Summary(result).errors = << >>

\* write_with: the body of a SARIF or JSON report that is behind the process is
\* in its file, whatever happens to later reports, in the background and to the
\* process: their second write_all waits for the first.  A report that is
\* written again under the same path is excepted, and so is Markdown, whose only
\* write nobody waits for.
WrittenReportsAreWhole ==
    \A i \in 1..(current - 1) :
        /\ reports[i].kind # "markdown"
        /\ \A j \in DOMAIN reports \ {i} : reports[j].path # reports[i].path
        => InFile([report |-> i, chunk |-> "body"], reports[i].path) \in disk

\* The renderers of one result agree: SARIF's levels, Markdown's table, the
\* summary's counts and the stats that went into the database count the same
\* findings, and each SARIF result has exactly one rule.
RenderingsAgree ==
    result.ok =>
        LET sarif == Sarif(result)
            table == Markdown(result).table
            level(word) == Cardinality({i \in DOMAIN sarif.results :
                                           sarif.results[i].level = word})
            listed(counts, l) == IF l \in DOMAIN counts THEN counts[l] ELSE 0
        IN  /\ \A l \in Level :
                   /\ table[l] = listed(Summary(result).levels, l)
                   /\ table[l] = listed(result.stats.by_severity, l)
            /\ level("error") = table["critical"] + table["high"]
            /\ level("warning") = table["medium"]
            /\ level("note") = table["low"] + table["none"]
            /\ Markdown(result).total = Len(sarif.results)
            /\ result.stats.total = Summary(result).findings
            /\ \A i \in DOMAIN sarif.results :
                   Cardinality({k \in DOMAIN sarif.rules :
                                   sarif.rules[k].id = sarif.results[i].ruleId}) = 1

\* dedup keeps the finding with the highest numeric severity, reports show the
\* bucket: a finding that outranks another is never shown below it.
RankingFollowsBuckets ==
    result.ok =>
        \A i, j \in DOMAIN result.findings :
            LET f == result.findings[i].severity
                g == result.findings[j].severity
            IN  Numeric(f) > Numeric(g) =>
                    LevelNumeric[QualitativeBucket(f)] >= LevelNumeric[QualitativeBucket(g)]

\* Every command comes to an end, whatever fails on the way.
EveryCommandEnds == <>(phase \in {"exited", "killed"})

\* README: `[output] sarif_path = "report.sarif"` says where SARIF goes when the
\* command line does not.
ConfiguredSarifPathIsUsed ==
    /\ phase = "report" /\ world.output = Unset
    /\ Setting(config, <<"output", "sarif_path">>) # Unset
    => \E i \in DOMAIN reports :
          /\ reports[i].kind = "sarif"
          /\ reports[i].path = Setting(config, <<"output", "sarif_path">>)
=============================================================================
