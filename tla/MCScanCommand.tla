---------------------------- MODULE MCScanCommand ----------------------------
(***************************************************************************)
(* Worlds for ScanCommand: some vary the provider's sources, some the layers *)
(* of the settings, some the reports and what a scan found.                  *)
(***************************************************************************)
EXTENDS ScanCommand

MCDefaults == (<<"scan", "strict">> :> "false") @@ (<<"mcp_servers">> :> "none")

MCRuleOrder == <<"r1", "r2", "r3">>

Empty == [x \in {} |-> x]

\* Finite functions from subsets of the names in f to a choice of their values.
Variants(f) == UNION {{g \in [names -> UNION {f[n] : n \in names}] :
                           \A n \in names : g[n] \in f[n]} : names \in SUBSET DOMAIN f}

-----------------------------------------------------------------------------
(* What a scan comes to                                                    *)

Advisory(id, cvss) ==
    AdvisoryFinding([id |-> id, package |-> "crate", version |-> "1",
                     title |-> "", cvss |-> cvss])
Issue(separator, severity) ==
    IssueFinding(<<"src", "a.rs">>, separator,
                 [message |-> "r2", severity |-> severity, line |-> 0])
Hinted(f) == [f EXCEPT !.suppressions = <<"vendored">>]
Found(findings, errors, deduped) ==
    [ok |-> TRUE, findings |-> findings, errors |-> errors, deduped |-> deduped]

Failed == [ok |-> FALSE]
Quiet  == Found(<< >>, << >>, 0)
Noisy  == Found(<<Advisory("r1", 90)>>, <<"cargo-audit">>, 0)

\* Scores at the edges of the bands, beside levels that a model names.
Mixed == {Found(<<Advisory("r1", low), Advisory("r3", high), Issue("/", word)>>, << >>, 0) :
             low \in {-10, 0, 1, 39, 40}, high \in {69, 70, 89, 90, 100, 110, Unset},
             word \in {"low", "high", "critical", "INFO"}}

\* One issue seen twice, once under Windows' separator, once suppressed.
Twice == Found(<<Issue("/", "medium"), Hinted(Issue("\\", "medium")), Advisory("r1", 75)>>,
               <<"llm-toy">>, 1)

-----------------------------------------------------------------------------
(* Worlds                                                                  *)

Plain == [env |-> Empty, extra |-> Empty, files |-> Empty, clients |-> TRUE,
          command |-> "scan", strict |-> FALSE, output |-> Unset,
          markdown |-> Unset, json |-> Unset, outcomes |-> {Failed}]

Toml(s) == [readable |-> TRUE, lines |-> {}, parses |-> TRUE, settings |-> s]

Keys == [ANTHROPIC_API_KEY |-> {"", "k"}, OPENAI_API_KEY |-> {"k"},
         GOOGLE_API_KEY |-> {"", "k"}, OLLAMA_HOST |-> {"h"},
         PH0B0S_PROVIDER |-> {"", "mock", "openai", "gemini", "ollama", "bogus"}]
Mocked == [PH0B0S_PROVIDER |-> {"mock"}, PH0B0S_MOCK_RESPONSES |-> {"array", "object"}]

AgentSettings ==
    {Empty,
     (<<"providers", "openai", "default_model">> :> "gpt-x"),
     (<<"agents", "default", "model">> :> "claude-x"),
     (<<"agents", "default", "provider">> :> "anthropic")
        @@ (<<"agents", "default", "model">> :> "claude-x")
        @@ (<<"providers", "ollama", "base_url">> :> "u"),
     (<<"agents", "default", "provider">> :> "openai")
        @@ (<<"providers", "openai", "base_url">> :> "u")}

ProviderWorlds ==
    {[Plain EXCEPT !.env = e, !.files = [project |-> Toml(s)], !.clients = c] :
        e \in Variants(Keys) \cup Variants(Mocked), s \in AgentSettings, c \in BOOLEAN}

Strictness(value) == <<"scan", "strict">> :> value
XdgFile     == Toml(Strictness("true") @@ (<<"storage", "db_path">> :> "db"))
HomeFile    == Toml(<<"storage", "db_path">> :> "home.db")
ProjectFile == Toml(Strictness("false") @@ (<<"detectors", "llm-toy", "api_key">> :> "s"))
KeyLine(comment, before, after) ==
    [ProjectFile EXCEPT !.lines = {[comment |-> comment, before |-> before, after |-> after]}]
ProjectFiles ==
    {ProjectFile, Toml(Strictness(BadValue)),
     [ProjectFile EXCEPT !.readable = FALSE], [ProjectFile EXCEPT !.parses = FALSE],
     KeyLine(FALSE, "other", "assignment"), KeyLine(TRUE, "other", "assignment"),
     KeyLine(FALSE, "identifier", "assignment"), KeyLine(FALSE, "other", "other")}

LayerWorlds ==
    {[Plain EXCEPT !.env = ("PH0B0S_PROVIDER" :> "mock") @@ e, !.files = f, !.extra = x,
                   !.command = c, !.strict = s, !.outcomes = {Quiet, Noisy}] :
        e \in Variants([XDG_CONFIG_HOME |-> {"x"}, HOME |-> {"h"}]),
        f \in Variants([xdg |-> {XdgFile}, home |-> {HomeFile}, project |-> ProjectFiles]),
        x \in {Empty, Strictness("true"), <<"output", "json_path">> :> "p"},
        c \in {"scan", "config_check", "mcp_list"}, s \in BOOLEAN}

ReportWorlds ==
    {[Plain EXCEPT !.env = "PH0B0S_PROVIDER" :> "mock", !.output = o, !.markdown = m,
                   !.json = j, !.files = f, !.outcomes = {Twice}] :
        o \in {Unset, "p"}, m \in {Unset, "p", "q"}, j \in {Unset, "p", "q"},
        f \in {Empty, [project |-> Toml(<<"output", "sarif_path">> :> "q")]}}

FindingWorlds ==
    {[Plain EXCEPT !.env = "PH0B0S_PROVIDER" :> "mock", !.outcomes = Mixed]}

MCWorlds == ProviderWorlds \cup LayerWorlds \cup ReportWorlds \cup FindingWorlds
=============================================================================
