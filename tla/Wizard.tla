------------------------------- MODULE Wizard -------------------------------
(***************************************************************************)
(* `flx config wizard` (src/cli/wizard.rs): questions whose answers become  *)
(* a configuration file that says only what differs from the defaults.      *)
(* An answer is "" where the user just pressed enter.                       *)
(***************************************************************************)
EXTENDS Config

CONSTANTS KnownProviders    \* the names of the built-in providers

DefaultAnswers ==
    [providers |-> <<>>, countries |-> <<>>, format |-> "default", limit |-> 0,
     min_anonymity |-> {}, types |-> <<"HTTP">>, cache_ttl |-> 15, quiet |-> FALSE]

\* ask and ask_yn: an empty or an unknown answer is the default.
Ask(answer, default) == IF answer = "" THEN default ELSE answer
AskYesNo(answer, default) ==
    CASE answer \in {"y", "yes", "1", "true"} -> TRUE
      [] answer \in {"n", "no", "0", "false"} -> FALSE
      [] OTHER -> default

\* resolve_target: --path, --user, and without questions the project file.
Target(args, choice) ==
    IF args.path # {} THEN CHOOSE p \in args.path : TRUE
    ELSE IF args.user THEN "user"
    ELSE IF args.yes THEN "project"
    ELSE IF Ask(choice, "1") = "2" THEN "user" ELSE "project"

\* run_questions: numbers must be numbers; "all" and "none" ask for nothing.
Questions(raw) ==
    IF raw.limit = "no number" \/ raw.cache_ttl = "no number" THEN {}
    ELSE {[providers |-> IF raw.providers \in {"", "all"} THEN <<>> ELSE raw.list.providers,
           countries |-> IF raw.countries \in {"", "all"} THEN <<>> ELSE raw.list.countries,
           format |-> Ask(raw.format, "default"),
           limit |-> IF raw.limit = "" THEN 0 ELSE raw.number.limit,
           min_anonymity |-> IF raw.anonymity \in {"", "none"} THEN {} ELSE {raw.anonymity},
           types |-> IF raw.types = "" THEN <<"HTTP">> ELSE raw.list.types,
           cache_ttl |-> IF raw.cache_ttl = "" THEN 15 ELSE raw.number.cache_ttl,
           quiet |-> AskYesNo(raw.quiet, FALSE)]}

\* validate: what a file could not say is refused before it is written.
AnswersValid(a) ==
    /\ a.format \in Formats
    /\ a.min_anonymity \subseteq AnonymityNames
    /\ \A i \in DOMAIN a.types : a.types[i] # "no type"
    /\ Range(a.providers) \subseteq KnownProviders

\* build_config: the sections and fields that differ from the defaults.
Differing(a, fields) == {f \in DOMAIN fields : a[fields[f]] # DefaultAnswers[fields[f]]}

BuiltSections ==
    [global |-> [quiet |-> "quiet"],
     fetch |-> [providers |-> "providers", countries |-> "countries", cache_ttl |-> "cache_ttl"],
     output |-> [format |-> "format", limit |-> "limit", min_anonymity |-> "min_anonymity"],
     validate |-> [types |-> "types"]]

FieldValue(a, f) ==
    IF f = "min_anonymity" THEN CHOOSE l \in a.min_anonymity : TRUE ELSE a[f]

BuiltConfig(a) ==
    [table |-> TRUE,
     body |-> [s \in {x \in DOMAIN BuiltSections : Differing(a, BuiltSections[x]) # {}} |->
                 [f \in Differing(a, BuiltSections[s]) |-> FieldValue(a, BuiltSections[s][f])]]]

\* run_wizard: an existing file needs --force or a yes, and a dialogue a last yes.
Outcome(a, args, exists, overwrite, confirm) ==
    CASE ~AnswersValid(a) -> "refused"
      [] exists /\ ~args.force /\ args.yes -> "refused"
      [] exists /\ ~args.force /\ ~args.yes /\ ~AskYesNo(overwrite, FALSE) -> "aborted"
      [] ~args.yes /\ ~AskYesNo(confirm, TRUE) -> "aborted"
      [] OTHER -> "written"
=============================================================================
