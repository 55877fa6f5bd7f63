------------------------------ MODULE Settings ------------------------------
(***************************************************************************)
(* What a command reads before it does anything: the layered configuration  *)
(* (config.rs of the CLI) and the choice of the LLM provider (provider/ of   *)
(* ph0b0s-llm-adk), as functions of the process's surroundings w:            *)
(*   w.env     the environment, a function from the names that are set       *)
(*   w.extra   the settings that PH0B0S__ variables give                     *)
(*   w.files   the config files there are, a function from "xdg", "home"     *)
(*             and "project"; each has                                       *)
(*               readable   it can be read as text                           *)
(*               lines      its lines in which `api_key` occurs              *)
(*               parses     it is TOML                                       *)
(*               settings   what it sets                                     *)
(*   w.clients the vendor's client constructors succeed                      *)
(* Settings are functions from paths, <<"scan", "strict">> for scan.strict,  *)
(* to text.  A table is the set of the paths below it, an array is a value.   *)
(* Only the paths that Config has are kept: serde drops the others.          *)
(* Files and environment stay the same while one command starts.             *)
(***************************************************************************)
EXTENDS SequencesExt, TLC

CONSTANTS
    Defaults,   \* Config::default(), its options that are None left out
    Unset,      \* Option::None
    BadValue    \* a value that does not have the setting's type

ASSUME SettingsAssumption ==
    /\ Unset # BadValue
    /\ \A path \in DOMAIN Defaults : Defaults[path] \notin {Unset, BadValue}

IsSet(w, name) == name \in DOMAIN w.env
OrElse(option, default) == IF option = Unset THEN default ELSE option
Setting(config, path) == IF path \in DOMAIN config THEN config[path] ELSE Unset

-----------------------------------------------------------------------------
(* The layers                                                              *)

UserConfigPath(w) ==
    IF IsSet(w, "XDG_CONFIG_HOME") THEN "xdg"
    ELSE IF IsSet(w, "HOME") THEN "home" ELSE "none"

\* The files that load() reads; a missing one is left out.
ConfigFiles(w) == {UserConfigPath(w), "project"} \cap DOMAIN w.files

\* What a file sets, and a missing one nothing.
Layer(w, path) == IF path \in ConfigFiles(w) THEN w.files[path].settings ELSE << >>

\* check_no_api_key, on a line that has the word: a key of that name, not part
\* of a longer name, assigned to; a comment line does not count.
AssignsApiKey(line) ==
    ~ line.comment /\ line.before # "identifier" /\ line.after = "assignment"

CheckNoApiKey(file) == file.readable /\ \A l \in file.lines : ~ AssignsApiKey(l)

\* Figment::merge: a layer over those before it, setting by setting.
MergedOver(layer, below) ==
    [path \in DOMAIN layer \cup DOMAIN below |->
        IF path \in DOMAIN layer THEN layer[path] ELSE below[path]]

\* Mutant: the user's file is merged over the project's.
UserOverProject(w) ==
    MergedOver(w.extra, MergedOver(Layer(w, UserConfigPath(w)),
                                   MergedOver(Layer(w, "project"), Defaults)))

Merged(w) ==
    MergedOver(w.extra, MergedOver(Layer(w, "project"),
                                   MergedOver(Layer(w, UserConfigPath(w)), Defaults)))

\* figment reports a malformed file, and a bad value that no layer overrides,
\* when everything is merged.
Loads(w) ==
    /\ \A p \in ConfigFiles(w) : CheckNoApiKey(w.files[p]) /\ w.files[p].parses
    /\ \A path \in DOMAIN Merged(w) : Merged(w)[path] # BadValue

EffectiveDbPath(w, config) ==
    IF Setting(config, <<"storage", "db_path">>) # Unset
    THEN <<Setting(config, <<"storage", "db_path">>)>>
    ELSE IF IsSet(w, "XDG_STATE_HOME") THEN <<"XDG_STATE_HOME", "ph0b0s">>
    ELSE <<IF IsSet(w, "HOME") THEN "HOME" ELSE ".", ".local", "state", "ph0b0s">>

SecretNames == {"api_key", "openai_api_key", "apikey"}

\* scrub_api_keys: the value under a key with such a name, at any depth.
RedactedJson(config) ==
    [path \in DOMAIN config |->
        IF \E i \in DOMAIN path : path[i] \in SecretNames THEN "<redacted>"
        ELSE config[path]]

-----------------------------------------------------------------------------
(* The provider's builders                                                 *)

Built(p, model, url) == [ok |-> TRUE, provider |-> p, model |-> model, url |-> url]
BuildError(reason)   == [ok |-> FALSE, reason |-> reason]

\* Mutant: a key that is set may be empty.
RequireSet(w, name) == IsSet(w, name)

RequireEnv(w, name) == IsSet(w, name) /\ w.env[name] # ""

\* The vendor's client takes the key, the model and the URL, or refuses.
Client(w, p, model, url) ==
    IF w.clients THEN Built(p, model, url) ELSE BuildError("adk")

BuildAnthropic(w, model) ==
    IF ~ RequireEnv(w, "ANTHROPIC_API_KEY") THEN BuildError("missing_key")
    ELSE Client(w, "anthropic", OrElse(model, "claude-sonnet-4-6"), Unset)

BuildOpenAi(w, model, url) ==
    IF ~ RequireEnv(w, "OPENAI_API_KEY") THEN BuildError("missing_key")
    ELSE Client(w, "openai", OrElse(model, "gpt-5-mini"), url)

BuildGemini(w, model) ==
    IF ~ RequireEnv(w, "GOOGLE_API_KEY") THEN BuildError("missing_key")
    ELSE Client(w, "gemini", OrElse(model, "gemini-2.5-flash"), Unset)

\* No key; OLLAMA_HOST is not looked at.
BuildOllama(w, model, url) ==
    Client(w, "ollama", OrElse(model, "llama3.2:3b"),
           OrElse(url, "http://localhost:11434"))

\* PH0B0S_MOCK_RESPONSES, modelled as what it names: an array or something else.
BuildMock(w) ==
    IF IsSet(w, "PH0B0S_MOCK_RESPONSES") /\ w.env["PH0B0S_MOCK_RESPONSES"] # "array"
    THEN BuildError("mock") ELSE Built("mock", "ph0b0s-mock", Unset)

-----------------------------------------------------------------------------
(* The choice                                                              *)

\* The registry has a slot for each of these; other sections are not looked up.
Registered == {"anthropic", "openai", "gemini", "ollama"}

ModelFor(config, p) ==
    IF p \in Registered THEN Setting(config, <<"providers", p, "default_model">>)
    ELSE Unset
BaseUrlFor(config, p) == Setting(config, <<"providers", p, "base_url">>)

\* [agents.default]: a missing provider is empty.
DefaultAgent(config) ==
    [provider |-> OrElse(Setting(config, <<"agents", "default", "provider">>), ""),
     model    |-> Setting(config, <<"agents", "default", "model">>)]

BuildNamed(w, config, name, override) ==
    LET model == OrElse(override, ModelFor(config, name))
    IN  CASE name = "anthropic" -> BuildAnthropic(w, model)
          [] name = "openai" -> BuildOpenAi(w, model, BaseUrlFor(config, "openai"))
          [] name = "gemini" -> BuildGemini(w, model)
          [] name = "ollama" -> BuildOllama(w, model, BaseUrlFor(config, "ollama"))
          [] name = "mock" -> BuildMock(w)
          [] OTHER -> BuildError("unknown_provider")

\* The first variable that is set decides, whatever its value.
BuildFromEnv(w, config) ==
    IF IsSet(w, "ANTHROPIC_API_KEY")
    THEN BuildAnthropic(w, ModelFor(config, "anthropic"))
    ELSE IF IsSet(w, "OPENAI_API_KEY")
    THEN BuildOpenAi(w, ModelFor(config, "openai"), BaseUrlFor(config, "openai"))
    ELSE IF IsSet(w, "GOOGLE_API_KEY")
    THEN BuildGemini(w, ModelFor(config, "gemini"))
    ELSE IF IsSet(w, "OLLAMA_HOST")
    THEN BuildOllama(w, ModelFor(config, "ollama"), BaseUrlFor(config, "ollama"))
    ELSE BuildError("no_provider")

\* Mutant: an empty PH0B0S_PROVIDER counts as none.
BuildUnlessEmpty(w, config) ==
    LET agent == DefaultAgent(config)
    IN  IF IsSet(w, "PH0B0S_PROVIDER") /\ w.env["PH0B0S_PROVIDER"] # ""
        THEN BuildNamed(w, config, w.env["PH0B0S_PROVIDER"], agent.model)
        ELSE IF agent.provider # ""
        THEN BuildNamed(w, config, agent.provider, agent.model)
        ELSE BuildFromEnv(w, config)

\* PH0B0S_PROVIDER, then [agents.default], then the keys.
BuildFromConfig(w, config) ==
    LET agent == DefaultAgent(config)
    IN  IF IsSet(w, "PH0B0S_PROVIDER")
        THEN BuildNamed(w, config, w.env["PH0B0S_PROVIDER"], agent.model)
        ELSE IF agent.provider # ""
        THEN BuildNamed(w, config, agent.provider, agent.model)
        ELSE BuildFromEnv(w, config)
=============================================================================
