---------------------------- MODULE ConfigChecks ----------------------------
(* Config and Wizard: the options of a run, evaluated over all places a value *)
(* can come from and over small sets of answers.                              *)
EXTENDS Sequences

W == INSTANCE Wizard WITH KnownProviders <- {"geonode"}

Says(section, field, v) ==
    [values |-> [s \in {section} |-> [f \in W!Fields(s) |-> IF f = field THEN v ELSE {}]],
     unknown |-> {}]
Given(section, field, source) ==
    [a \in {W!ArgOf[section][field], "verbose"} |->
        IF a = "verbose" THEN [source |-> "default", value |-> FALSE]
        ELSE [source |-> source, value |-> IF source = "default" THEN "default" ELSE "line"]]

\* The line wins over the project file, it over the user file, it over the default: for
\* every field of every section a command has.
ASSUME PrecedenceKept ==
    \A command \in {"grab", "find", "serve"}, source \in {"line", "env", "default"},
      p \in {{}, {"project"}}, u \in {{}, {"user"}} :
        \A section \in W!SectionsOf(command) : \A field \in W!Fields(section) :
            W!Applied(command, Given(section, field, source),
                      W!Merge(Says(section, field, p), Says(section, field, u)), section, field) =
                IF source # "default" THEN "line"
                ELSE IF p # {} THEN "project" ELSE IF u # {} THEN "user" ELSE "default"

\* Every argument of a file has a default, and the wizard, which leaves out what is its own
\* default, has the same ones; no types at all mean HTTP (run_find, run_serve).
ASSUME DefaultsAgree ==
    /\ \A s \in W!Sections : {W!ArgOf[s][f] : f \in W!Fields(s)} = DOMAIN W!Defaults[s]
    /\ \A s \in DOMAIN W!BuiltSections \ {"validate"} : \A f \in DOMAIN W!BuiltSections[s] :
          W!DefaultAnswers[W!BuiltSections[s][f]] = W!Defaults[s][W!ArgOf[s][f]]

\* One argument stands for at most one field of the files a command reads.
ASSUME ArgumentsAreDistinct ==
    \A command \in {"grab", "find", "serve"} :
        \A s, t \in W!SectionsOf(command) : \A f \in W!Fields(s), g \in W!Fields(t) :
            W!ArgOf[s][f] = W!ArgOf[t][g] => s = t /\ f = g

Answers == [providers : {<<>>, <<"geonode">>, <<"nobody">>}, countries : {<<>>, <<"DE">>},
            format : {"default", "csv", "xml"}, limit : {0, 3}, cache_ttl : {15, 0},
            min_anonymity : {{}, {"elite"}, {"best"}}, types : {<<"HTTP">>, <<>>, <<"no type">>},
            quiet : BOOLEAN]

\* What the wizard writes parses, and gives every answer back.
ASSUME WizardRoundTrip ==
    \A a \in {x \in Answers : W!AnswersValid(x)} :
        LET text == W!BuiltConfig(a)
        IN  /\ W!Parses(text)
            /\ \A s \in DOMAIN W!BuiltSections : \A f \in DOMAIN W!BuiltSections[s] :
                  LET said == IF s \in DOMAIN W!Parsed(text).values
                              THEN W!Parsed(text).values[s][f] ELSE {}
                  IN  IF said = {} THEN a[f] = W!DefaultAnswers[f]
                      ELSE said = IF f = "min_anonymity" THEN a[f] ELSE {a[f]}
=============================================================================
