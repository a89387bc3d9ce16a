----------------------------- MODULE MCFindRun -----------------------------
(* FindRun with two candidates and the requests that tell the quota rules   *)
(* apart: capped, overlapping, uncapped, and an AND-group.  The stream of   *)
(* candidates is module Fetcher, which shares no state with it: a behaviour *)
(* runs one or the other.                                                   *)
EXTENDS FindRun, Fetcher, SourceChecks

CONSTANT Components     \* what a behaviour may be: "find", "fetch"

Http(level) == [family |-> "HTTP", level |-> level]
Socks == [family |-> "SOCKS5", level |-> "Unknown"]
Capped(p, n) == [protocol |-> p, capped |-> TRUE, cap |-> n]
Plain(p) == [protocol |-> p, capped |-> FALSE, cap |-> 0]

MCRequests ==
    {[quotas |-> <<Capped(Http("Unknown"), 1), Capped(Socks, 1)>>, groups |-> {}],
     [quotas |-> <<Capped(Http("Elite"), 1), Capped(Http("Unknown"), 1)>>, groups |-> {}],
     [quotas |-> <<Plain(Http("Unknown")), Plain(Socks)>>, groups |-> {}],
     [quotas |-> <<Capped(Socks, 1)>>, groups |-> {{Http("Unknown"), Socks}}],
     [quotas |-> <<>>, groups |-> {{Http("Unknown"), Socks}}]}

MCAdvertised == [c \in Candidates |-> IF c = "c1" THEN {Http("Unknown")} ELSE {Socks}]
MCMeasured == {Http("Elite"), Http("Anonymous"), Socks}

(* Two primary sources of one host, and a fallback source that repeats an   *)
(* endpoint of theirs and whose list is not cached at the start.            *)
MCSource == [s1 |-> [tier |-> "primary", host |-> "h1", url |-> "u1", rows |-> <<"a">>],
             s2 |-> [tier |-> "primary", host |-> "h1", url |-> "u2", rows |-> <<"b", "c">>],
             s3 |-> [tier |-> "fallback", host |-> "h2", url |-> "u3", rows |-> <<"a">>]]

VARIABLE component

runVars == <<component, vars, fetchVars>>

RunInit ==
    /\ component \in Components /\ Init /\ FetchInit
    /\ component = "find" => offline /\ \A u \in Urls : cache[u] = <<>>
    /\ component = "fetch" =>
          /\ cache["u3"] = <<>>
          /\ limit = 0 /\ wanted = {} /\ request = CHOOSE r \in Requests : TRUE

RunNext ==
    /\ UNCHANGED component
    /\ \/ component = "find" /\ Next /\ UNCHANGED fetchVars
       \/ component = "fetch" /\ FetchNext /\ UNCHANGED vars

(* The tasks run and every probe has a deadline; a ready wake-up is polled  *)
(* sooner or later.  Nobody has to press Ctrl+C or to resume a pause.  Of   *)
(* the fetch, something goes on as long as anything can (Running).          *)
Fairness ==
    LET finding == component = "find"
    IN  /\ WF_vars(finding /\ Main) /\ WF_vars(finding /\ Pipeline)
        /\ SF_vars(finding /\ PassCancelled) /\ SF_vars(finding /\ MainWaits)
        /\ WF_fetchVars(component = "fetch" /\ Running)

RunSpec == RunInit /\ [][RunNext]_runVars /\ Fairness
-----------------------------------------------------------------------------
\* RunEnds of a find run (src/cli/main.rs), where that is what runs.
FindEnds == component = "find" => RunEnds

\* EverythingEnds of the candidate stream (src/fetcher), where that is what runs.
FetchEnds == component = "fetch" => EverythingEnds
-----------------------------------------------------------------------------
\* The pure decisions around a run, over all small inputs.
Sel == INSTANCE Selection

Parts == {[protocol |-> p, cap |-> c, limit |-> 2] :
            p \in {{}, {Http("Elite")}, {Socks}}, c \in {"none", "bad", "capped"}}
Tokens == UNION {[1..n -> Parts] : n \in 1..2}
RowOf(types, times, score, country) ==
    [types |-> types, expected |-> <<Socks>>, times |-> times, score |-> score, country |-> country]
SampleRows == {RowOf(<<Http("Elite")>>, <<2, 4>>, {}, {1}), RowOf(<<Socks>>, <<3>>, {5}, {}),
         RowOf(<<Http("Anonymous"), Http("Transparent")>>, <<>>, {7}, {1})}
Tables == UNION {[1..n -> SampleRows] : n \in 0..3}

\* Every part of a valid token is asked for, alone or in a group; a cap stays with its part.
ASSUME TokensAreSplit ==
    \A t \in Tokens : Sel!ValidToken(t) =>
        LET split == Sel!SplitRequests(<<t>>)
        IN  /\ UNION {t[i].protocol : i \in DOMAIN t} =
                    {split.quotas[k].protocol : k \in DOMAIN split.quotas}
                        \cup UNION {Range(split.groups[k]) : k \in DOMAIN split.groups}
            /\ \A k \in DOMAIN split.quotas : split.quotas[k].capped <=> t[1].cap = "capped"

\* Each order is a stable sort of the same rows, and rows without a score come last.
ASSUME RowsAreSorted ==
    \A table \in Tables, key \in {"response", "country", "anonymity", "score"}, by \in {"asc", "desc"} :
        LET out == Sel!SortRows(table, key, by)
            le(a, b) == IF by = "asc" \/ key = "score" THEN Sel!Before(key, by, a, b)
                                                          ELSE Sel!Before(key, by, b, a)
        IN  /\ \A r \in SampleRows : Cardinality({i \in DOMAIN table : table[i] = r}) =
                                 Cardinality({i \in DOMAIN out : out[i] = r})
            /\ \A i \in 1..(Len(out) - 1) : le(out[i], out[i + 1])
            /\ key = "score" => \A i, j \in DOMAIN out : i < j /\ out[j].score # {} => out[i].score # {}

\* Every order of the rows comes out of the shuffle for exactly one sequence of draws.
ASSUME ShuffleIsFair ==
    LET draws == {d \in [1..3 -> 1..3] : d[1] = 1 /\ d[2] <= 2}
    IN  \A table \in Permutations(1..3) :
            Cardinality({d \in draws : Sel!ShuffleRows(<<1, 2, 3>>, d) = table}) = 1

\* The running statistics are those of all samples.
ASSUME StatsOfSamples ==
    \A times \in UNION {[1..n -> 0..2] : n \in 1..3} :
        LET stats == Sel!StatsOf([times |-> times])
        IN  /\ stats.count = Len(times)
            /\ stats.min \in Range(times) /\ stats.max \in Range(times) \cup {0}
            /\ \A i \in DOMAIN times : stats.min <= times[i] /\ times[i] <= stats.max
=============================================================================
