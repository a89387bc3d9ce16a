------------------------------- MODULE MCParts -------------------------------
(* The parts of flx that share no state with one another: a behaviour picks  *)
(* one of them and runs it alone.                                            *)
EXTENDS Health, GeoSync, ParseCache, Tui, Screen, Output, ScreenChecks

\* Two results: the first is faster and has a score, the second has a cell too wide for its
\* column on a narrow screen.  A character is <<letter, upper>>.
Capitals(letters) == [i \in DOMAIN letters |-> <<letters[i], TRUE>>]
AllProtocols == Capitals(<<"h", "t", "t", "p", "+", "h", "t", "t", "p", "s", "+", "s", "o", "c", "k", "s", "5">>)
MCResult(types, rtt, score) ==
    LET plain == <<<<"-", FALSE>>>>
    IN  [cells |-> <<plain, types, plain, plain, plain, plain, plain, plain>>, organization |-> <<>>,
         rtt |-> rtt, country |-> rtt, rank |-> 1, score |-> score]
MCArrivals == <<MCResult(Capitals(<<"h", "t", "t", "p">>), 1, {3}), MCResult(AllProtocols, 2, {})>>
MCTyped == {<<"k", FALSE>>, <<" ", FALSE>>}

MCList == [w1 |-> <<"a", "b">>, w2 |-> <<"c", "d">>, w3 |-> <<"e">>]

\* Grab runs, and find runs with one fallback row: in every format, with every order that
\* makes a difference to it, over a new file, an old one, one to append to, or a pipe.
Found(name, wanted, rank) == [name |-> name, wanted |-> wanted, rank |-> rank]
FirstPass == <<Found("x", TRUE, 3), Found("y", FALSE, 0), Found("z", TRUE, 2), Found("w", TRUE, 1)>>
Targets == {[sink |-> "stdout", append |-> FALSE, before |-> <<>>],
            [sink |-> "file", append |-> FALSE, before |-> <<<<"old">>>>],
            [sink |-> "file", append |-> TRUE, before |-> <<<<"old">>>>],
            [sink |-> "file", append |-> TRUE, before |-> <<>>]}
MCInvocations ==
    {[format |-> format, order |-> by, limit |-> limit, sink |-> target.sink,
      append |-> target.append, before |-> target.before,
      chained |-> mode # "grab", capped |-> mode = "quotas",
      found |-> <<SubSeq(FirstPass, 1, n), IF mode = "grab" THEN <<>> ELSE <<Found("v", TRUE, 0)>> >>] :
        format \in {"lines", "csv", "json", "pac"}, by \in {"none", "key", "score"},
        limit \in {0, 2}, target \in Targets, mode \in {"grab", "find", "quotas"}, n \in {0, 1, 4}}
    \cup
    {[format |-> "lines", order |-> "shuffle", limit |-> limit, sink |-> "file", append |-> FALSE,
      before |-> <<>>, chained |-> FALSE, capped |-> FALSE, found |-> <<FirstPass, <<>> >>] :
        limit \in {0, 2}}

VARIABLE component

vars == <<component, healthVars, geoVars, cacheVars, tuiVars, screenVars, outputVars>>

Init ==
    /\ component \in {"health", "geo", "cache", "tui", "list", "output"}
    /\ HealthInit /\ GeoInit /\ CacheInit /\ TuiInit /\ ScreenInit /\ OutputInit
    /\ component # "geo" => database = Corrupt
    /\ component # "output" => opts = CHOOSE o \in Invocations : TRUE

Next ==
    /\ UNCHANGED component
    /\ \/ /\ component = "health" /\ HealthNext
          /\ UNCHANGED <<geoVars, cacheVars, tuiVars, screenVars, outputVars>>
       \/ /\ component = "geo" /\ GeoNext
          /\ UNCHANGED <<healthVars, cacheVars, tuiVars, screenVars, outputVars>>
       \/ /\ component = "cache" /\ CacheNext
          /\ UNCHANGED <<healthVars, geoVars, tuiVars, screenVars, outputVars>>
       \/ /\ component = "tui" /\ TuiNext
          /\ UNCHANGED <<healthVars, geoVars, cacheVars, screenVars, outputVars>>
       \/ /\ component = "list" /\ ScreenNext
          /\ UNCHANGED <<healthVars, geoVars, cacheVars, tuiVars, outputVars>>
       \/ /\ component = "output" /\ OutputNext
          /\ UNCHANGED <<healthVars, geoVars, cacheVars, tuiVars, screenVars>>

Fairness ==
    /\ WF_tuiVars(component = "tui" /\ Receives)
    /\ \A r \in Runs : SF_tuiVars(component = "tui" /\ Unpaused(r))

Spec == Init /\ [][Next]_vars /\ Fairness
-----------------------------------------------------------------------------
\* RunReachesDone of the screen (src/cli/tui), where that is what runs.
ScreenReachesDone == component = "tui" => RunReachesDone
=============================================================================
