# A TLA+ model of ph0b0s

ph0b0s scans a repository with a set of detectors (subprocess tools and LLM
agents), stores what they find in a SQLite database, and writes reports. This
directory holds a TLA+ specification of its stateful core, the TLC runs that
check it on small instances, and proofs that TLAPS checks for every instance.

Run everything from this directory:

    tlc -workers 2 -config two_scans.cfg MCScanPipeline.tla   # one run
    tlapm LedgerRefinementProofs.tla                          # one proof module

Paths below are relative to `src/crates/`.

## 1. The system

| Component | Code | State | Operations |
|---|---|---|---|
| Scan orchestrator | `ph0b0s-cli/src/scan.rs` | local variables of one process: detector results, errors, stats, the result to report | `run`: mount MCP servers, open the database, clean up, begin the run, prepare the workspace, run detectors, record, dedup, tag, finish, reload, report |
| Finding store | `ph0b0s-storage/src/sqlite.rs`, `migrations/0001_init.sql` | tables `runs`, `findings`, `suppressions` in one file shared by all processes | `open`, `cleanup_orphan_runs`, `begin_run`, `record`, `dedup`, `finish_run`, `load_run`, `latest_run_id`, `suppress` |
| CLI commands | `ph0b0s-cli/src/commands.rs`, `main.rs` | of one process: settings, agent, exit code | `scan`, `report show`, `triage suppress`, `detectors list`, `config check`, `mcp list` |
| Detector registry | `ph0b0s-cli/src/registry.rs` | none | `resolve`: filter and params to the detectors to run |
| Workspace | `ph0b0s-cli/src/workspace.rs` | a temporary clone | `prepare` |
| Configuration | `ph0b0s-cli/src/config.rs` | none | layered load, rejection of `api_key`, redaction, effective paths |
| LLM agent | `ph0b0s-llm-adk/src/agent.rs`, `usage.rs` | per call: conversation, turn, usage; per session: history and cumulative usage behind one mutex shared by its clones | `chat`, `structured`, `session`, `send`; all but `structured` through `run_loop_inner` |
| Tool host | `ph0b0s-llm-adk/src/tools.rs`, `mcp.rs` | five mutexes: native tools, canned answers, mounted specs, MCP handles, invocation log | `register_native`, `mount_mcp`, `list`, `invoke`, `shutdown_mcp`, `enqueue_*` |
| Providers | `ph0b0s-llm-adk/src/provider/`, `config.rs`, `ph0b0s-cli/src/provider.rs` | none | choice of provider from environment and config |
| Detectors | `ph0b0s-detect-cargo-audit`, `ph0b0s-detect-llm-toy` | none between runs | `run(ctx, cancel)` |
| Reporters | `ph0b0s-report`, `write_reports` of `scan.rs` | none; files that are written in the background | render a `ScanResult`, write it |
| Core types | `ph0b0s-core` | none | findings, severity, fingerprints, traits |
| Test support | `ph0b0s-test-support` | queues of canned answers and records of calls behind mutexes that clones share | `MockLlmAgent`, `MockLlmSession`, `MockToolHost` |

**Interactions.** Each `ph0b0s` command is a process. Processes meet only in
the database file: every SQL statement is atomic, no operation uses a
transaction over several statements. Within a scan everything is one task; the
detectors get the LLM agent and the tool host, and nothing stops them from
making agent calls from several tasks. Agent calls meet in the tool host and,
for clones of a session, in the session's state; no lock is held across an await.

**What is hard.** Several scans on one database, whose cleanup statement cannot
tell a dead scan from a live one; a scan that dies between any two statements;
a two-statement load; dedup by two window functions; reports that join rows of
the database with hints from memory; the copy-await-replace of a session's
history; tools that are listed, then looked up later; a mount in three
critical sections that races a shutdown; a loop whose length the model
chooses; detectors that look at a deadline and a token at some awaits and not at
others, and a subprocess that nobody makes end; settings from four layers and a
provider from three kinds of source; report files whose writes end, or fail, behind
the process's back; four renderings of one result that should agree; mocks that
stand in for all this in the tests. `PROJECT.json` lists each under `hazards`, with its line.

**What makes each part correct.** The store: a finished run has all its
findings, one live and best finding per fingerprint, and stats that count them,
and never changes again. The orchestrator: it reports the best of what its
detectors found, it runs all of them or none of its run is final, it ends. The
registry: the detectors that were asked for run, with the params they were given.
The detectors: Ok is a whole result, an error none; they stop soon after they
should. The commands: what they show is consistent, and success means a result. The
settings: the highest layer decides, and a source of a provider is never overruled by
a lower one. The reports: they agree, and a file that was written is whole. The agent:
conversations a provider accepts, each tool call invoked once and in order, histories
that keep what was said through a session's value, usage that adds up, calls that end. The tool host: what it offers it
knows; what it mounts can be shut down. The mocks: each canned answer goes to one
call, and the mock host does nothing that the real one would not.

## 2. The modules

    FindingStore          the SQL statements
      ScanPipeline        scan::run, any number of processes
        ScanInvariant     the inductive invariant; Ledger == INSTANCE RunLedger
          MCScanPipeline        (TLC)
          ScanPipelineProofs, LedgerRefinementProofs   (TLAPS)
        CliProcesses      report show, triage suppress, beside the scans
          MCCliProcesses        (TLC)
          CliProofs             (TLAPS; with ScanPipelineProofs)
    RunLedger             what the store promises, abstractly
    Detectors             the registry and the detector loop of one scan, inside
      MCDetectors               (TLC)
      DetectorProofs            (TLAPS)
    ToolHost              AdkToolHost, one step per critical section
      AgentCalls          chat, send and the tool loop over the tool host
        MCAgentCalls            (TLC)
        AgentCallsProofs        (TLAPS)
      Mocks               the test doubles; Real == INSTANCE ToolHost
        MCMocks                 (TLC)
        MocksProofs             (TLAPS)
    Settings, Reporters   the pure parts: layers, provider, severities, renderings
      ScanCommand         one process from its start to its exit code
        MCScanCommand           (TLC)
        ScanCommandProofs       (TLAPS)
    DataLemmas            lemmas on naturals, concatenation, prefixes and sums, which
                          the proofs of calls, detectors, mocks and commands cite

**FindingStore.** One operator per statement. A finding is its ULID, a number,
because dedup orders by it; the columns that never change (`fingerprint`,
`severity`, `confidence`) are functions of it. `Keeper` and `Losers` are the two
window functions of the dedup statement. `FinishRun` does not look at the status
because the `UPDATE` does not, and `CleanupOrphanRuns` takes every started run.
`load_run` is the two operators `RunRow` and `FindingRows`. `begin_run` reads the
clock and inserts in one step: starts are ordered as their rows appear. Columns
that no statement turns into a decision (title, evidence, `finished_at`, the
stats by severity and by detector) are left out.

**ScanPipeline.** `pc[r]` is the await the process of run `r` is at; each action
is the code between two awaits, with the statement it awaits. `Dedup` includes
the tagging that follows it with no await between, `LoadFindings` the overlay.
A detector's answer is any set of findings nobody minted before, or an error.
`Die` is every `?` and every kill, at any point after `Open`. The order in which
a detector lists its findings is left open. `Suppress[r]` holds the config rules
with whether they have expired.

**CliProcesses.** Adds `report show` (with an id, or the latest run) as two
statements, and `triage suppress`. `inForce` is a history variable: what was
suppressed when a scan opened the database.

**RunLedger.** Record a finding, collapse a run to the best finding of each
fingerprint, seal it. No rows, statuses, stats, processes or clocks.

**Detectors.** Refines nothing of `ScanPipeline` formally: it is what happens
inside its `DetectorOk` and `DetectorErr`. A request, chosen once, holds what a scan
starts from: `--detector` ids, config sections, strictness, the files and whether
there is a `Cargo.lock`. A section is a function from option names to values, so an
unknown option and a 0 are refused here for the code's reason; wrong types are left
out. `Resolve` is the registry. llm-toy's loop has a step per await: the checks and
the opening of a file (`ToyReads`), the request (`ToyAsks`), the answer. The clock
ticks at any time. `Cancel` is a caller who kept a clone of the token, as the
detectors' tests do; `scan::run` keeps none, so its requests are those with
`cancellable` false. `tried`, `answered` and `late` are history variables.

**ToolHost.** Each of the five mutexes is locked for one step. `mount_mcp` is
start, connect (the await, which may fail), register, handle, record; `invoke` is
log, canned answer, lookup, the tool's await. The invocation log is kept per
call, so the order between calls is not modelled. The server is its answer.

**AgentCalls.** A call is at `ask` (the provider's await), `dispatch` (invoking
the calls of the last model turn in order), `commit` (only a send), or ended. A
conversation is a sequence of user, model and tool turns; texts, arguments, ids
and system prompts are left out, and the messages of a chat request are one user
turn. Input and output tokens are one number that saturates at `MaxCount`. A
future can be dropped at the provider's or the tool's await. `&mut self` is
`HandleFree`: two sends overlap only on different clones.

**Settings.** Functions of the process's surroundings: its environment, and the files
under `XDG_CONFIG_HOME`, `HOME` and the project. A setting is a path of names and a
text; merging is setting by setting, as figment merges tables. `CheckNoApiKey` looks
at the lines of a file that have the word, as `check_no_api_key` does, before TOML is
parsed. `BuildFromConfig` and the builders it calls are the choice of a provider; a
vendor's client may refuse what it is given.

**Reporters.** Findings with a severity, a place and a fingerprint, as the two
detectors make them, and what SARIF, Markdown, the summary and the stats say of
them. CVSS scores are integers, in tenths. JSON is the result itself.

**ScanCommand.** `main`: load the settings, then `config check`, `mcp list`, or build
the agent and scan. `scan::run` before its reports is one step with an outcome, what
`ScanPipeline` and `Detectors` take apart. Writing is finer: `write_all` on a tokio file
hands a chunk to the blocking pool and returns; the error of a chunk is returned by the
next `write_all`; the runtime waits for the pool before the process exits. So `Lands` and
`Fails` are steps of the pool, and the last chunk's error is lost. `Killed` loses what was
in flight.

**Mocks.** Every mock call is the same sections: record under one mutex, take an
answer under another, then for a session add its usage under a third, and for a tool
look it up. `q` says which queue. `MockImplementsHost` maps the mock host to
`ToolHost`'s `HostSpec`, with servers that are recorded and never connected.

## 3. The runs

Deadlock checking is off in all of them: scans and calls are finite in number
and the system stops when they ended.

| Run | Instance | Shows |
|---|---|---|
| `two_scans` | 2 scans (one strict; 2 detectors and 1), 3 findings: 1 and 2 tie on fingerprint, severity and confidence, 4 stands alone; a live and an expired rule; `FairSpec` | `IInv`, `TypeOK`, `FinishedIsComplete`, `SupersessionIsSound`, `ReportMatchesScan`, `CompletedScanStaysFinished`, `FinishedRanEveryDetector`, `FinishedIsFinal`, the refinement `ImplementsLedger`, and `EveryScanSettles`, `OrphansAreAborted` |
| `show_while_scanning` | 2 scans, 2 findings, 1 viewer, 1 suppressed fingerprint | `ShownStatsDescribeShownFindings`, `CliTypeOK` |
| `shared_tool_host` | 2 chats (one with tools of its own and no host), 2 tools, a stdio and an SSE mount, 1 canned answer | `OfferedToolsAreKnown`, `MountedServersAreCancellable` |
| `session_clones` | 3 sends, the third on a clone, 2 turns, counts that saturate | `TranscriptsAreWellFormed`, `SessionUsageCountsReplies`, `OwnTurnsOnlyGrow` |
| `calls_end` | 2 chats (2 turns and none), 2 tools, batches of 2, token counts -1, 2 or none, `FairSpec` | `EachCallIsInvokedOnce`, `CallsTypeOK`, `EveryCallEnds` |
| `detectors` | 1 scan, 46 requests: every kind of section (absent, plain, disabled, unknown option, 0), filters, strictness; 3 files, caps of 1 to 3; a timeout of 1 tick; `FairSpec` | `DetectorsTypeOK`, `OkMeansEveryFile`, `OneLateRequest`, `RefusesWhatSchemaRefuses`, `RequestedDetectorsRan`, `EndsUnlessSubprocessHangs` |
| `scan_command` | 1 process in about 3,000 worlds: which keys and provider names are set, empty or unknown; which files there are, unreadable, malformed or with a key; up to 3 reports that may share a path; scores at the edges of the bands; `FairSpec` | `ScanCommandTypeOK`, `SettingsAreLayered`, `LowerSourcesDoNotDecide`, `AgentHasItsKey`, `StrictScansReportNoErrors`, `WrittenReportsAreWhole`, `RenderingsAgree`, `RankingFollowsBuckets`, `EveryCommandEnds` |
| `mocks` | 2 tasks of one call each, 1 tool, 1 server, 2 canned answers, usage of 1 and 2 more per answer, saturating at 4 | `MocksTypeOK`, `AnswersMatchCalls`, `MockUsageIsExact`, and the refinement `MockImplementsHost` |
| `hung_subprocess` | as `detectors` | violated: `DeadlineEndsDetector` |
| `db_suppressions` | 1 scan, 1 suppressed fingerprint | violated: `DbSuppressionsAreConsumed` |
| `clones_lose_turns` | 2 sends on clones | violated: `RepliedSendsStayInHistory` |
| `sarif_path_ignored` | as `scan_command` | violated: `ConfiguredSarifPathIsUsed` |

**Why the bounds are enough.** For the scans they only have to let the runs
happen: the theorems hold for any number of processes, detectors and findings.
Two scans are what one cleanup needs to hit a live one; three findings give a
tie, which only the id decides, and a fingerprint of its own. Ranking by
severity and confidence is left to the proofs, which hold for any values.
For the detectors, up to three matching files give one before, one at and one after
the deadline; `MaxTime` lets each detector run out of time (the clock then stands
still, late for good), `MaxReported` is above llm-toy's cap of 1.
For the calls, two turns are the least that put a tool turn inside a finished
conversation, batches of two the least that have an order, and three sends the
least in which a later send builds on a history that a clone overwrote. The
code's limit of turns is 10 or the request's hint; here it is 0 to 2, so that
running out of turns is reached. `MaxCount` stands for `u64::MAX` and is small so
that saturation is reached. `MaxCanned` and `MaxBatch` bound what an environment
may do; `Finding` bounds what detectors may find.
For a command the worlds are four families, each varying what one part of `main` looks
at and fixing the rest: the sources of a provider, the layers, the reports and
the findings. No code relates the parts more than through the settings. Two findings
and one level word are the least that compare a score with a named level on either
side of a band; three reports are all there are. For the mocks, two tasks of one call
are what it takes to come between another call's sections, and two answers to be
handed out in the wrong order; with more calls the run is too long. Every disjunct of the
next-state relations fires in some passing run.

**Fairness.** `two_scans` assumes weak fairness of every step of a started scan but
not of `Open` (nobody has to start one) or `Die` (none has to fail): the operating
system schedules it, and its statements, `git` and detectors return. That last
part is an assumption: the orchestrator passes a deadline to a detector and does
not enforce it, and `hung_subprocess` shows what follows. `detectors` assumes just
less: the scan's own steps, file reads, the model and the clock are fair, and a
subprocess is not, nor is a cancellation. `calls_end` assumes weak fairness of a started call: it is polled,
and provider and tools answer, with an error or not. Registration, mounts,
shutdown and drops are not fair. `scan_command` assumes weak fairness of the process and
its blocking pool together: one is always scheduled while it has something to do, a
write ends in one way or the other, and `scan::run` comes to an outcome, which
`two_scans` and `detectors` are about. `Killed` is not fair. `mocks` has no liveness. No
property needs strong fairness.

## 4. What is proved

Every safety invariant, action property and refinement that a passing run checks is
also a theorem, `Spec => []...`, for all values of the constants:

| Module | Theorems |
|---|---|
| `ScanPipelineProofs` | `TypeCorrect`, `InductiveInvariant`, `FinishedRunsAreComplete`, `SupersessionSound`, `ReportsMatchScans`, `CompletedScansStayFinished`, `FinishedRunsRanEveryDetector`, `FinishedRunsAreFinal` |
| `LedgerRefinementProofs` | `ScansImplementLedger` |
| `CliProofs` | `CliTypeCorrect`, `ShownStatsFitFindings` |
| `DetectorProofs` | `DetectorTypes`, `DetectorsRunInOrder`, `SchemasDecideParams`, `OkIsWhole`, `OneLateRequestAlways` |
| `AgentCallsProofs` | `CallsTypeCorrect`, `OfferedToolsStayKnown`, `MountsAreCancellable`, `TranscriptsStayWellFormed`, `CallsAreInvokedOnce`, `SessionUsageIsExact`, `OwnTurnsSurvive` |
| `MocksProofs` | `MockTypes`, `EachAnswerGoesToOneCall`, `SharedUsageIsExact`, `MockImplementsRealHost` |
| `ScanCommandProofs` | `ScanCommandTypes`, `SettingsLayered`, `LowerSourcesIdle`, `AgentsHaveTheirKey`, `StrictnessHolds`, `RankingHolds`, `WritingHolds`, `RenderingsMatch` |

**Assumptions.** Nothing is assumed but these, and TLC evaluates each of them:

- Scans and viewers, `StoreConstants`, `ScanConstants`, `CliConstants`: ULIDs are positive
  numbers and finitely many (a database is finite; the sets whose sizes the stats count must
  be), severities are tenths of 0 to 10, confidences are the enum's three, the
  sentinels `NoRun` and `NoStats` are not runs and stats.
- Calls, `HostConstants` and `CallConstants`: reported counts are integers that a `u64`
  can hold, sends on one session have one host and one limit of turns.
- Detectors, `RequestsAssumption`: times are naturals, a request has a section for each
  detector, its numbers are integers, and a scan sees finitely many files, in an order.
- Mocks, `MocksAssumption`: the other queues' names are not tools, the tools are finitely many.
- Commands, `SettingsAssumption`: the defaults are values that can be read;
  `RuleOrderAssumption`: rules are listed once; `WorldsAssumption`: config files are at the
  three places, and an outcome's findings are a sequence, each with a severity of one of
  the two kinds and a rule.

**The invariant** (`ScanInvariant`). None of the properties is inductive: that a
finished run is complete says nothing of the statements before `finish_run`.
`IInv` has one conjunct per kind of fact, each preserved by every step given those
before it:

- `StatusInv` ties the row's status to where its process is. A row that is started
  or aborted belongs to a process that has not finished it, live or dead; this is
  why a cleanup that aborts a live scan is harmless once that scan finishes.
- `RowsInv`: the memories of two processes are disjoint, a run's rows come from its
  process's memory, and are all of it once the record loop is past.
- `DetectInv`: past the detector loop all detectors ran, in a strict run without error.
- `DedupInv`: a run's rows are all live before dedup, and collapsed after it. Of a dead
  process we only know that it is one of the two.
- `HintsInv`, `StatsInv`, `ViewInv`: what is tagged, counted and loaded matches the rows.
  For `ReportMatchesScan` they say what a report lists, and `LiveRowsAreRepresentatives` that
  the live rows of a collapsed run are the best of what its detectors returned.

`Past(r, stages)` is what makes it work for dead processes: it is true of a process
that is past a stage, or whose run is finished, since a dead process's `pc` does
not say how far it came.

**The order.** `ScanPipelineProofs` begins by proving that the dedup order is a strict total
order on findings (the id breaks every tie) and that every non-empty set of
rows has a first row, by the minimum principle on the naturals, three times, so
that `Keeper`'s `CHOOSE` exists and is unique (`KeeperProperties`). The cited library facts are
well-foundedness of `<` and facts on finite sets.

**The refinement.** A run's rows are `recorded`, its live rows `kept`, and it is
`sealed` when finished. `Record`, `Dedup` and `Finish` map to `RecordFinding`, `Collapse` and
`Seal`; every other step stutters. `Dedup` twice would stutter too, as `Best` is
idempotent, but a process runs it once.

**The detectors.** `TypeInv` says more than types: while llm-toy works the head of the queue is
its item, with params its parser took. `OrderInv` says that what has returned and then what is
queued are the registered detectors that were selected, in the order of registration, so that
an empty queue means that all of them ran. `SchemaInv` is the property for each result so far,
from a lemma that the two parsers decide as the schemas. `ToyInv` follows one run of llm-toy:
the files tried and those left are the first `max_files` that match, no answer is recorded
about one that is left, and the findings so far about each file are its answers, capped. That
the list of files is sorted and cut is `AscendingRanks`: a file is on it when fewer than
`max_files` matching ones come before it.

**The late request.** `OneLateRequest` is not inductive: `LateInv` adds that a
detector that sent one is overdue (cancelled, or past its deadline) and not at a file
it opened. The clock and the token never go back while it runs, and an overdue
detector opens no file, so it never comes to a second request.

**The viewers.** To the scans' variables a viewer's step is a stutter, so `IInv` holds beside
them. `StatsAreFinal` adds that a row with stats is finished, and `Viewing` that stats a
viewer has read are those of a finished run; `FinishedUnchanged` then keeps the run's rows as they
are until the second statement reads them.

**The calls.** `Typed` is `CallsTypeOK` and `Serving`: an invocation is always of its call's
first pending name, while the call dispatches; without it the head of an empty list
could be taken. `MountInv` says why a mounted server has a handle: the handle is in the
list, or was drained from it, before the spec is recorded. `Known` ties what was
offered to what is listed, and no step takes a name off the list. `Transcribed`
says that only a call that dispatches has an open conversation (its last turn waits for
answers), that its answers and pending calls are together that turn's calls, and hence that
whatever is committed is closed. The four lemmas `Append...` carry that through the
turns.

Three more rest on `SourceInv`: a call that did not begin has left no trace, and a turn in a
conversation or a history is of a call that began, on that session. `InvokedInv`: what the
host was asked for, then what is pending, are the calls of the model's turns concatenated.
`UsageInv`: finitely many calls have begun, so that a session's sum over its returned sends is
defined; a commit adds one send to it, and saturating after each gives what saturating once
gives. `OwnInv`: two sends in flight are of different values, and a send's copy is ahead
of the history in the turns of its own value and behind it in those of the others.

`OwnTurnsOnlyGrow` speaks of sessions with at most one clone. It was first stated for any
number, which is false: with a second clone, one takes turns away, the other brings
them back after a send began, and that send takes them away again. TLC has a trace of
17 states.

**The mocks.** `CallsInv`: every call that was recorded has returned, or is the one its task is
in. `QueueInv`, of one queue: its waiting answers are numbered on from those popped, each
popped one is with some call of that queue, and no two calls have the same. `UsageInv` is the
usage as a function of the calls it counts. For `MockImplementsRealHost` each section of the mock
is mapped to one of `ToolHost`'s or a stutter: recording a call is `invoke`'s log,
queueing an answer is `enqueue`, a mount is that of a transport that
is recorded and not connected, and what the chat and
session mocks do is invisible.

**A command.** `Strictness` follows the strict flag from the settings to the report.
`TypeInv` says that what is in flight, broken or on disk is of a report in the list, since
the list is made once, before anything is open. `WritingInv` follows a chunk from the process
to the pool to the file: the second chunk of a report is handed over only when the first has
landed. `SettingsInv` ties the settings to the merge and the agent to what was built from
them; the theorems on settings and providers are then about the functions.
`SettingsLayered` takes the merge layer by layer. `LowerSourcesIdle` and `AgentsHaveTheirKey`
rest on what a builder reads: by name, its own key and its own section (`BuildNamedReads`),
from the environment, the variables down to the first that is set (`BuildFromEnvReads`).
`RankingHolds` is arithmetic: each level's number lies in its band (`NumberInBand`).
`RenderingsMatch` counts: a finding's level is one of the five, and the rules of SARIF, built
in `RuleOrder` from those that occur, have each result's exactly once (`OneRuleEach`).

**The data.** `DataLemmas` states what the community modules' operators do, for every input.
`FlattenSeq`, `SumFunctionOnSet` and sorting are defined by choosing a recursive function, and the
library's induction theorems cannot be cited. So induction is the minimum principle
(`LeastNatural`, from the well-foundedness of `<`) applied to the set of numbers a claim
fails for, and `CountUp` goes up from 0. The function is first shown to exist
(`FlatteningExists`, `SummingExists`), which gives the `CHOOSE` its equations; concatenating one more
sequence, removing an element from a sum, and prefixes follow.

**Only model-checked:** liveness under fairness, which is beyond TLAPS: `EveryScanSettles`,
`OrphansAreAborted`, `EveryCallEnds`, `EndsUnlessSubprocessHangs` and `EveryCommandEnds`.

## 5. What the runs found

1. cargo-audit does not look at its deadline, and the orchestrator neither enforces
   it nor cancels: a hung subprocess holds the scan for ever (`CONTRIBUTING.md:179`).
2. The `suppressions` table is written and never read, against `scan.rs:7`.
3. Two sends on clones of a session: the later commit replaces the history with
   one that lacks the other's turns, while the usage counts both.
4. `[output] sarif_path`, which the README documents, is never used: clap gives `--output` a
   default (`main.rs:33`), so the `.or(...)` of `scan.rs:257` has always a value before it.

Seen on the way, without a run:

- A report lists the duplicates that dedup superseded: `load_run` has no
  `superseded_by IS NULL`, while `scan.rs:171` calls its data post-dedup and
  `store.rs:26` says only that rows are kept for traceability. `ReportMatchesScan` takes no
  side: it is about the best finding of each fingerprint, the tags of what is listed, the
  errors and the stats. `ViewInv`, a part of the inductive invariant, records what the code
  does.
- A response without usage is labelled `Native`, against the design document.
- No statement writes `runs.errors`, so `report show` has no detector errors.
- Nothing validates params against `config_schema`, which `detector.rs:62` says the
  orchestrator does, and cargo-audit without a `Cargo.lock` does not parse them at all.
- `OLLAMA_HOST` selects ollama, but its value is not used.
- The sample `[[mcp_servers]]` of the repository's README has `command`, the struct
  `command_or_url`.
- `structured` neither validates an answer against the schema nor retries, as
  `llm.rs:194` says an implementation does.
- The Markdown report is one write whose error nobody sees: the process may succeed
  with the file empty. Two reports with one path overwrite each other.
- Nothing in the CLI calls `shutdown_mcp`.

## 6. What is not modelled

- `structured` beside other calls: it is one request without state or tools, and
  appears only as llm-toy's question. Cost in dollars is left out of usage.
- The text of reports, argument parsing, logging, `detectors list` (two constants).
- What the detectors read and say: file contents, prompts, an advisory's prose.
- The workspace: one step that succeeds or ends the process; git is not modelled.
- `fixtures.rs` (constant values) and `xtask` (a check of crate dependencies at build
  time, with no state of the program's).
- `SQLITE_BUSY`: a statement that gives up is a `Die`.

**Simplifications.** Config files and the environment do not change while a command loads
them. A TOML array is one value, quoted keys do not occur, and the names of secrets are
three of those with `api_key` or `apikey` in them, which the scrubber looks for. A report's body goes to the pool as one chunk;
longer ones go as several, and the last of them ends as the newline does here. Different
places hash to different fingerprints. A CVSS score is an exact number of tenths. A report
that was created can be rendered: an error of serialisation, or of the SARIF validator, would
end the process with the file empty, and is not a step of its own. The mocks' recorded
session options are not kept.

## 7. Plan

Done: the store, the pipeline, the commands, the settings and the provider, the
detectors, the reports, the tool host, the agent's calls, the mocks; proofs of all their
safety properties and of both refinements.

Next, in this order:

1. A refinement of `ScanPipeline`'s detector step by `Detectors`, which is an argument in
   words now: what `RequestedDetectorsRan` and `OkMeansEveryFile` say of a scan's results would
   carry over to the store.
2. The workspace's clone and its removal when a scan ends or dies.
3. The hazards that no property covers yet: errors that are not stored, the latest run
   of `report show`, the source of an accumulated cost, and a shutdown that nobody calls.
