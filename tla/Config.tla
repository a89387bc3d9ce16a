------------------------------- MODULE Config -------------------------------
(***************************************************************************)
(* Which value every option of a run has (src/cli/config.rs,                *)
(* src/cli/argument.rs, src/cli/pipeline.rs, src/base_dirs.rs): command     *)
(* line over environment over project file over user file over default.     *)
(*                                                                         *)
(* An optional value is a set of at most one element.  A parsed file is     *)
(*   [values : for every section present, a value for each field or {},     *)
(*    unknown : the sections nobody knows]                                  *)
(* and a file on disk is "absent", "unreadable" or its text: [table, body], *)
(* where body gives each section that is there its fields.                  *)
(***************************************************************************)
EXTENDS SequencesExt, FiniteSetsExt, Functions, Integers

\* The fields of each section and the argument each of them stands for.
GlobalArgs ==
    [log_level |-> "log_level", quiet |-> "quiet", no_color |-> "no_color",
     skip_version_check |-> "skip_version_check"]

FetchArgs ==
    [providers |-> "provider", exclude_providers |-> "exclude_provider",
     source_urls |-> "source_url", with_geo |-> "with_geo", countries |-> "countries",
     exclude_countries |-> "exclude_country", concurrency |-> "fetch_concurrency",
     cache_ttl |-> "cache_ttl", refresh_cache |-> "refresh_cache", offline |-> "offline",
     delay_ms |-> "fetch_delay_ms", fallback_threshold |-> "fallback_threshold",
     phase_timeout |-> "fetch_phase_timeout", no_dedup |-> "no_dedup",
     provider_timeout |-> "provider_timeout"]

OutputArgs ==
    [format |-> "format", limit |-> "limit", output_file |-> "output_file", sort |-> "sort",
     order |-> "order", min_anonymity |-> "min_anonymity", levels |-> "levels",
     max_response_time |-> "max_response_time", min_response_time |-> "min_response_time",
     min_score |-> "min_score", health_file |-> "health_file", no_health |-> "no_health",
     exclude_types |-> "exclude_type", shuffle |-> "shuffle", append |-> "append"]

ValidateArgs ==
    [types |-> "types", concurrency |-> "max_connections", max_attempts |-> "max_attempts",
     retry_delay_ms |-> "retry_delay_ms", timeout |-> "timeout",
     http_judges |-> "http_judge_urls", https_judges |-> "https_judge_urls",
     insecure |-> "no_verify_tls", support_cookies |-> "support_cookies",
     support_referer |-> "support_referer", report_failures |-> "report_failures"]

ServeArgs ==
    [bind |-> "bind", port |-> "port", strategy |-> "strategy", pool_size |-> "pool_size",
     min_ready |-> "min_ready", refresh_secs |-> "refresh_secs",
     request_timeout |-> "request_timeout", auth |-> "auth"]

ArgOf == [global |-> GlobalArgs, fetch |-> FetchArgs, output |-> OutputArgs,
          validate |-> ValidateArgs, serve |-> ServeArgs]

Sections == DOMAIN ArgOf
Fields(section) == DOMAIN ArgOf[section]

\* The sections a command takes values from, and the arguments it has.
SectionsOf(command) ==
    {"global"} \cup
    CASE command = "grab" -> {"fetch", "output"}
      [] command = "find" -> {"fetch", "output", "validate"}
      [] command = "serve" -> {"fetch", "validate", "serve"}
      [] OTHER -> {}

\* Arguments no file can give.
LineOnly(command) ==
    {"tui", "config", "no_config", "verbose"} \cup
    (IF command \in {"grab", "find", "serve"} THEN {"dry_run", "list_providers"} ELSE {}) \cup
    (IF command \in {"find", "serve"} THEN {"files"} ELSE {}) \cup
    (IF command = "serve" THEN {"trace"} ELSE {})
-----------------------------------------------------------------------------
\* What an argument is that nobody gave.
Defaults ==
    [global |-> [log_level |-> "off", quiet |-> FALSE, no_color |-> FALSE,
                 skip_version_check |-> FALSE],
     fetch |-> [provider |-> <<>>, exclude_provider |-> <<>>, source_url |-> <<>>,
                with_geo |-> FALSE, countries |-> <<>>, exclude_country |-> <<>>,
                fetch_concurrency |-> 64, cache_ttl |-> 15, refresh_cache |-> FALSE,
                offline |-> FALSE, fetch_delay_ms |-> 0, fallback_threshold |-> {},
                fetch_phase_timeout |-> 30, no_dedup |-> FALSE,
                provider_timeout |-> 0],
     output |-> [format |-> "default", limit |-> 0, output_file |-> {}, sort |-> {},
                 order |-> "asc", min_anonymity |-> {}, levels |-> <<>>,
                 max_response_time |-> {}, min_response_time |-> {}, min_score |-> {},
                 health_file |-> {}, no_health |-> FALSE, exclude_type |-> <<>>,
                 shuffle |-> FALSE, append |-> FALSE],
     validate |-> [types |-> <<>>, max_connections |-> 500, max_attempts |-> 1,
                   retry_delay_ms |-> 0, timeout |-> 3, http_judge_urls |-> "built-in",
                   https_judge_urls |-> "built-in", no_verify_tls |-> FALSE,
                   support_cookies |-> FALSE, support_referer |-> FALSE,
                   report_failures |-> {}],
     serve |-> [bind |-> "127.0.0.1", port |-> 8080, strategy |-> "round-robin",
                pool_size |-> 25, min_ready |-> 1, refresh_secs |-> {},
                request_timeout |-> {}, auth |-> {}]]
-----------------------------------------------------------------------------
\* What clap takes for the arguments that have a parser of their own; any other value
\* of the right type is taken.
Formats == {"default", "text", "json", "json-lines", "pretty-json", "csv", "prefix", "pac",
            "proxychains"}
LogLevels == {"off", "error", "warn", "info", "debug", "trace"}
Sorts == {"avg-response", "response-time", "country", "anonymity", "score"}
AnonymityNames == {"transparent", "anonymous", "elite", "unknown"}

OutputFlagTakes(arg, v) ==
    CASE arg = "format" -> v \in Formats
      [] arg = "sort" -> v \in Sorts
      [] arg = "order" -> v \in {"asc", "desc"}
      [] arg \in {"min_anonymity", "levels"} -> v \in AnonymityNames
      [] arg = "min_score" -> v \in 0..100
      [] arg = "exclude_type" -> v # "no type"
      [] OTHER -> TRUE

ValidateFlagTakes(arg, v) ==
    CASE arg = "types" -> v # "no type"
      [] arg = "max_attempts" -> v > 0
      [] OTHER -> TRUE

ServeFlagTakes(arg, v) ==
    CASE arg = "strategy" -> v \in {"round-robin", "random"}
      [] arg = "bind" -> v # "no address"
      [] OTHER -> TRUE

FlagTakes(section, arg, v) ==
    CASE section = "global" -> arg = "log_level" => v \in LogLevels
      [] section = "fetch" -> TRUE
      [] section = "output" -> OutputFlagTakes(arg, v)
      [] section = "validate" -> ValidateFlagTakes(arg, v)
      [] section = "serve" -> ServeFlagTakes(arg, v)

\* validate_enum_values: what a file may say.  It asks for http(s) judges, which the
\* arguments do not, and not for a positive number of attempts, which the argument does.
FileTakes(section, field, v) ==
    CASE field \in {"http_judges", "https_judges"} -> v # "no http url"
      [] field = "max_attempts" -> TRUE
      [] OTHER -> FlagTakes(section, ArgOf[section][field], v)

\* parse and deser_section: unknown fields are an error, unknown sections are not.
Parses(text) ==
    /\ text.table
    /\ \A s \in DOMAIN text.body \cap Sections :
          \A f \in DOMAIN text.body[s] : f \in Fields(s) /\ FileTakes(s, f, text.body[s][f])

Parsed(text) ==
    [values |-> [s \in DOMAIN text.body \cap Sections |->
                    [f \in Fields(s) |->
                        IF f \in DOMAIN text.body[s] THEN {text.body[s][f]} ELSE {}]],
     unknown |-> DOMAIN text.body \ Sections]
-----------------------------------------------------------------------------
\* Overlay: a field of the file above, or else that of the file below.
OverlaySection(above, below) == [f \in DOMAIN above |-> IF above[f] # {} THEN above[f] ELSE below[f]]

MergeSection(p, u, s) ==
    IF s \in DOMAIN p.values \cap DOMAIN u.values THEN OverlaySection(p.values[s], u.values[s])
    ELSE IF s \in DOMAIN p.values THEN p.values[s] ELSE u.values[s]

\* merge: the project file over the user file.
Merge(p, u) ==
    [values |-> [s \in DOMAIN p.values \cup DOMAIN u.values |-> MergeSection(p, u, s)],
     unknown |-> p.unknown \cup u.unknown]

\* paths_in_effect: the file that was named, or the project and user files that exist.
PathsInEffect(flag, env, noConfig, disk) ==
    IF noConfig THEN <<>>
    ELSE IF flag # {} THEN SetToSeq(flag)
    ELSE IF env # {} THEN SetToSeq(env)
    ELSE SelectSeq(<<"project", "user">>, LAMBDA p : disk[p] # "absent")

Readable(path, disk) == disk[path] \notin {"absent", "unreadable"} /\ Parses(disk[path])

\* load: nothing, an error, or the configuration; both files must be sound.
Load(flag, env, noConfig, disk) ==
    LET paths == PathsInEffect(flag, env, noConfig, disk)
    IN  IF paths = <<>> THEN [kind |-> "none"]
        ELSE IF \E i \in DOMAIN paths : ~Readable(paths[i], disk) THEN [kind |-> "error"]
        ELSE [kind |-> "file",
              file |-> IF Len(paths) = 1 THEN Parsed(disk[paths[1]])
                       ELSE Merge(Parsed(disk[paths[1]]), Parsed(disk[paths[2]]))]
-----------------------------------------------------------------------------
\* Arguments as clap hands them over: [source, value] with the source "line", "env" or
\* "default".
Provided(args, arg) == args[arg].source \in {"line", "env"}

\* apply_config: an argument that was not given takes the value of the file; --verbose
\* stands for a given --quiet.
Applied(command, args, file, section, field) ==
    LET arg == ArgOf[section][field]
    IN  IF /\ section \in SectionsOf(command) \cap DOMAIN file.values
           /\ file.values[section][field] # {}
           /\ ~Provided(args, arg)
           /\ ~(arg = "quiet" /\ args["verbose"].value)
        THEN CHOOSE v \in file.values[section][field] : TRUE
        ELSE args[arg].value

ConfigApplies(command) == command # "config"
-----------------------------------------------------------------------------
\* fetcher_config: zero means no bound, a country filter needs the geo database.
Positive(n) == IF n > 0 THEN {n} ELSE {}

FetcherSettings(o) ==
    [concurrency |-> o.fetch_concurrency,
     geo |-> o.with_geo \/ o.countries # <<>> \/ o.exclude_country # <<>>,
     cacheTtl |-> Positive(60 * o.cache_ttl), refresh |-> o.refresh_cache,
     dedup |-> ~o.no_dedup, offline |-> o.offline, delay |-> Positive(o.fetch_delay_ms),
     threshold |-> o.fallback_threshold, phaseTimeout |-> Positive(o.fetch_phase_timeout),
     sourceTimeout |-> Positive(o.provider_timeout)]

\* validator_config
ValidatorSettings(o, types, groups, missed) ==
    [types |-> types, groups |-> groups, concurrency |-> o.max_connections,
     attempts |-> o.max_attempts, timeout |-> o.timeout, missed |-> missed,
     retryDelay |-> o.retry_delay_ms, report |-> o.report_failures # {}]

\* parse_serve_credentials: the text is split at its first colon.
Credentials(hasColon, user, pass) == IF hasColon THEN {<<user, pass>>} ELSE {}

\* open_health_store: where the history is, if any.
HealthPath(noHealth, path) == IF noHealth THEN {} ELSE IF path # {} THEN path ELSE {"default"}

\* resolve_xdg: an absolute path from the environment, or the place under an absolute home.
BaseDir(xdg, home, fallback) ==
    IF \E d \in xdg : d.absolute THEN xdg
    ELSE {[absolute |-> TRUE, path |-> <<h.path, fallback>>] : h \in {x \in home : x.absolute}}
-----------------------------------------------------------------------------
\* run_config: `config init` and `config path`.
InitWrites(exists, force) == force \/ ~exists
PathLines(noConfig, paths) ==
    IF noConfig THEN <<"no config files in effect">>
    ELSE IF paths = <<>> THEN <<"no config file found">> ELSE paths
=============================================================================
