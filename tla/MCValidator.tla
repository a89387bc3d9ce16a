---------------------------- MODULE MCValidator ----------------------------
(* The first proxy is probed for a single type and for a group of two, the  *)
(* second, which does not advertise the type, for the group only.  What a   *)
(* probe does inside is module Probes, which shares no state with it: a     *)
(* behaviour runs one or the other, two probes over two judges.             *)
EXTENDS Validator, Probes, ExchangeChecks, ConfigChecks

MCPlan == <<[proxy |-> "p1", unit |-> "http", slot |-> 0],
            [proxy |-> "p1", unit |-> "both", slot |-> 1],
            [proxy |-> "p1", unit |-> "both", slot |-> 2],
            [proxy |-> "p2", unit |-> "both", slot |-> 1],
            [proxy |-> "p2", unit |-> "both", slot |-> 2]>>

VARIABLE component

runVars == <<component, vars, probeVars>>

RunInit == component \in {"validation", "probes"} /\ Init /\ ProbesInit

RunNext ==
    /\ UNCHANGED component
    /\ \/ component = "validation" /\ Next /\ UNCHANGED probeVars
       \/ component = "probes" /\ ProbesNext /\ UNCHANGED vars

(* Every task is polled again once it can go on, the source ends, and the   *)
(* consumer keeps reading.  Nothing makes the operator resume a pause.      *)
Fairness ==
    LET validating == component = "validation"
    IN  /\ WF_vars(validating /\ Pull) /\ WF_vars(validating /\ Aggregates)
        /\ WF_vars(validating /\ Receive) /\ WF_vars(validating /\ NotifyWaiters)
        /\ \A j \in Jobs : WF_vars(validating /\ Works(j))

RunSpec == RunInit /\ [][RunNext]_runVars /\ Fairness
-----------------------------------------------------------------------------
\* RunEnds of a validation (src/validator/mod.rs, work.rs), where that is what runs.
ValidationEnds == component = "validation" => RunEnds
=============================================================================
