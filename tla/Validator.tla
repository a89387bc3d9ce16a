----------------------------- MODULE Validator -----------------------------
(***************************************************************************)
(* The validation run (ProxyValidator::validate_with_health, PauseGate in   *)
(* src/validator/mod.rs; do_work, do_group_work, aggregate_groups in        *)
(* src/validator/work.rs): a manager turns candidates into jobs and runs a  *)
(* bounded number of them at once, an aggregator joins the members of       *)
(* AND-groups, both hand passing proxies to the consumer over one bounded   *)
(* channel, and a gate holds new probes while the run is paused.            *)
(*                                                                         *)
(* Plan is the stream of jobs the source's candidates turn into: a job with *)
(* slot 0 probes a single type, the jobs of one key with slots 1, 2, ... are *)
(* the members of a group.  What a probe finds out is a free choice.        *)
(***************************************************************************)
EXTENDS SequencesExt, FiniteSetsExt, Integers

CONSTANTS
    Plan,           \* the jobs in the order they are pulled: [proxy, unit, slot]
    Limit,          \* concurrency_limit
    GroupCap,       \* capacity of the channel to the aggregator
    ResultCap,      \* capacity of the channel to the consumer
    MaxPauses       \* bound on the calls of pause

Jobs == DOMAIN Plan
KeyOf(j) == <<Plan[j].proxy, Plan[j].unit>>
Keys == {KeyOf(j) : j \in Jobs}
MembersOf(k) == {j \in Jobs : KeyOf(j) = k}
Member(j) == Plan[j].slot > 0
Units == {Plan[j].unit : j \in Jobs}
SingleUnits == {Plan[j].unit : j \in {i \in Jobs : ~Member(i)}}

ASSUME ValidatorAssumption ==
    /\ Plan \in Seq({Plan[j] : j \in Jobs})
    /\ \A j \in Jobs : IF Member(j)
                       THEN Plan[j].slot = Cardinality({i \in MembersOf(KeyOf(j)) : i <= j})
                       ELSE Plan[j].slot = 0 /\ MembersOf(KeyOf(j)) = {j}
    /\ Limit \in Nat \ {0} /\ GroupCap \in Nat \ {0} /\ ResultCap \in Nat \ {0}
    /\ MaxPauses \in Nat

VARIABLES
    at,             \* the next job to pull
    pc,             \* where each job stands
    found,          \* what the probe of a job found, once it ran
    dead,           \* group_dead: the keys in the map, and whether they are dead
    groupCh,        \* the channel to the aggregator
    states,         \* the aggregator's groups: results of the members so far
    merged,         \* a group the aggregator waits to send, or NoUnit
    results,        \* the channel to the consumer
    total, done, passed,    \* ValidationProgress
    closedGate,     \* the units the probe gate refuses by now (their quota is full)
    paused, resuming, woken, pauses,    \* PauseGate, and the notifications given
    dropped,        \* the consumer dropped the validator
    delivered       \* history: the units received by the consumer, in order

gateVars == <<paused, resuming, pauses>>
counters == <<total, done, passed>>
vars == <<at, pc, found, dead, groupCh, states, merged, results, counters,
          closedGate, gateVars, woken, dropped, delivered>>

NoUnit == <<>>
Places == {"idle", "gate", "registered", "looked", "parked", "probing", "recording",
           "sending", "reporting", "finished"}
Active == Places \ {"idle", "finished"}

In(places) == {j \in Jobs : pc[j] \in places}

TypeOK ==
    /\ at \in 1..(Len(Plan) + 1)
    /\ pc \in [Jobs -> Places] /\ Cardinality(In(Active)) <= Limit
    /\ found \in [Jobs -> {"none", "pass", "fail", "skipped"}]
    /\ dead \in [Keys -> {"absent", "alive", "dead"}]
    /\ groupCh \in Seq(Jobs) /\ Len(groupCh) <= GroupCap
    /\ states \in [Keys -> SUBSET Jobs]
    /\ merged \in Keys \cup {NoUnit}
    /\ results \in Seq(Keys) /\ Len(results) <= ResultCap
    /\ total \in Nat /\ done \in Nat /\ passed \in Nat
    /\ closedGate \subseteq Units /\ dropped \in BOOLEAN
    /\ paused \in BOOLEAN /\ resuming \in BOOLEAN /\ pauses \in 0..MaxPauses
    /\ woken \subseteq Jobs
    /\ delivered \in Seq(Keys)

Init ==
    /\ at = 1
    /\ pc = [j \in Jobs |-> "idle"]
    /\ found = [j \in Jobs |-> "none"]
    /\ dead = [k \in Keys |-> "absent"]
    /\ groupCh = <<>>
    /\ states = [k \in Keys |-> {}]
    /\ merged = NoUnit
    /\ results = <<>> /\ delivered = <<>>
    /\ total = 0 /\ done = 0 /\ passed = 0
    /\ closedGate = {} /\ dropped = FALSE
    /\ paused = FALSE /\ resuming = FALSE /\ pauses = 0 /\ woken = {}
-----------------------------------------------------------------------------
Goes(j, place) == pc' = [pc EXCEPT ![j] = place]

(* The manager pulls the next job when a place is free.  A group counts     *)
(* once, with its first member.                                             *)
Pull ==
    /\ ~dropped
    /\ at <= Len(Plan) /\ Cardinality(In(Active)) < Limit
    /\ Goes(at, "gate")
    /\ total' = IF Plan[at].slot <= 1 THEN total + 1 ELSE total
    /\ at' = at + 1
    /\ UNCHANGED <<found, dead, groupCh, states, merged, results, done, passed, closedGate,
                   gateVars, woken, dropped, delivered>>
-----------------------------------------------------------------------------
(* PauseGate.  A waiter registers for the next wake-up (enable) before it   *)
(* looks at the flag and awaits; resume clears the flag and then wakes      *)
(* whoever is registered, on another thread than the waiter.                *)
Unmoved == UNCHANGED <<at, found, dead, groupCh, states, merged, results,
                       counters, closedGate, dropped, delivered>>

GateRegister(j) ==
    /\ ~dropped /\ pc[j] = "gate"
    /\ Goes(j, "registered")
    /\ UNCHANGED <<gateVars, woken>> /\ Unmoved

GateLooks(j) ==
    /\ ~dropped /\ pc[j] = "registered" /\ paused
    /\ Goes(j, "looked")
    /\ UNCHANGED <<gateVars, woken>> /\ Unmoved

GateParks(j) ==
    /\ ~dropped /\ pc[j] = "looked"
    /\ Goes(j, "parked")
    /\ UNCHANGED <<gateVars, woken>> /\ Unmoved

GateWakes(j) ==
    /\ ~dropped /\ pc[j] = "parked" /\ j \in woken
    /\ Goes(j, "gate")
    /\ woken' = woken \ {j}
    /\ UNCHANGED gateVars /\ Unmoved

Pause ==
    /\ ~dropped /\ ~paused /\ ~resuming /\ pauses < MaxPauses
    /\ paused' = TRUE /\ pauses' = pauses + 1
    /\ UNCHANGED <<pc, resuming, woken>> /\ Unmoved

Resume ==
    /\ ~dropped /\ paused
    /\ paused' = FALSE /\ resuming' = TRUE
    /\ UNCHANGED <<pc, pauses, woken>> /\ Unmoved

NotifyParked ==
    /\ ~dropped /\ resuming
    /\ resuming' = FALSE
    /\ woken' = woken \cup In({"parked"})
    /\ UNCHANGED <<pc, paused, pauses>> /\ Unmoved

NotifyWaiters ==
    /\ ~dropped /\ resuming
    /\ resuming' = FALSE
    /\ woken' = woken \cup In({"registered", "looked", "parked"})
    /\ UNCHANGED <<pc, paused, pauses>> /\ Unmoved

PassesGate(j) == ~dropped /\ pc[j] = "registered" /\ ~paused
-----------------------------------------------------------------------------
(* A job for a single type.                                                 *)
GateClosed(j) ==
    /\ PassesGate(j) /\ ~Member(j) /\ Plan[j].unit \in closedGate
    /\ Goes(j, "finished")
    /\ done' = done + 1
    /\ UNCHANGED <<at, found, dead, groupCh, states, merged, results, total,
                   passed, closedGate, gateVars, woken, dropped, delivered>>

ProbeStarts(j) ==
    /\ PassesGate(j) /\ ~Member(j) /\ Plan[j].unit \notin closedGate
    /\ Goes(j, "probing")
    /\ UNCHANGED <<gateVars, woken>> /\ Unmoved

(* do_work after run_probe: done counts at once; a pass is recorded in the  *)
(* health store before it counts, a failure ends the job.                   *)
SingleEnds(j, verdict) ==
    /\ ~dropped /\ pc[j] = "probing" /\ ~Member(j)
    /\ found' = [found EXCEPT ![j] = verdict]
    /\ Goes(j, IF verdict = "pass" THEN "recording" ELSE "finished")
    /\ done' = done + 1
    /\ UNCHANGED <<at, dead, groupCh, states, merged, results, total, passed,
                   closedGate, gateVars, woken, dropped, delivered>>

Recorded(j) ==
    /\ ~dropped /\ pc[j] = "recording" /\ ~Member(j)
    /\ Goes(j, "sending")
    /\ passed' = passed + 1
    /\ UNCHANGED <<at, found, dead, groupCh, states, merged, results, total,
                   done, closedGate, gateVars, woken, dropped, delivered>>

Sends(j) ==
    /\ ~dropped /\ pc[j] = "sending" /\ Len(results) < ResultCap
    /\ results' = Append(results, KeyOf(j))
    /\ Goes(j, "finished")
    /\ UNCHANGED <<at, found, dead, groupCh, states, merged, counters,
                   closedGate, gateVars, woken, dropped, delivered>>

(* The gate of a requested type closes for good (the consumer's quota).     *)
GateCloses(u) ==
    /\ ~dropped /\ u \notin closedGate
    /\ closedGate' = closedGate \cup {u}
    /\ UNCHANGED <<at, pc, found, dead, groupCh, states, merged, results,
                   counters, gateVars, woken, dropped, delivered>>
-----------------------------------------------------------------------------
(* A member of a group (do_group_work).  It is not asked about by the probe *)
(* gate; it is not probed either once a sibling is known to have failed.    *)
MemberSkipsIfListed(j) ==
    /\ PassesGate(j) /\ Member(j) /\ dead[KeyOf(j)] # "absent"
    /\ found' = [found EXCEPT ![j] = "skipped"]
    /\ Goes(j, "reporting")
    /\ UNCHANGED <<at, dead, groupCh, states, merged, results, counters,
                   closedGate, gateVars, woken, dropped, delivered>>

MemberSkips(j) ==
    /\ PassesGate(j) /\ Member(j) /\ dead[KeyOf(j)] = "dead"
    /\ found' = [found EXCEPT ![j] = "skipped"]
    /\ Goes(j, "reporting")
    /\ UNCHANGED <<at, dead, groupCh, states, merged, results, counters,
                   closedGate, gateVars, woken, dropped, delivered>>

MemberStarts(j) ==
    /\ PassesGate(j) /\ Member(j) /\ dead[KeyOf(j)] # "dead"
    /\ dead' = [dead EXCEPT ![KeyOf(j)] = "alive"]
    /\ Goes(j, "probing")
    /\ UNCHANGED <<at, found, groupCh, states, merged, results, counters,
                   closedGate, gateVars, woken, dropped, delivered>>

(* A failure is written to the health store, an await, before the siblings  *)
(* can see it.                                                              *)
MemberEnds(j, verdict) ==
    /\ ~dropped /\ pc[j] = "probing" /\ Member(j)
    /\ found' = [found EXCEPT ![j] = verdict]
    /\ Goes(j, IF verdict = "pass" THEN "reporting" ELSE "recording")
    /\ UNCHANGED <<at, dead, groupCh, states, merged, results, counters,
                   closedGate, gateVars, woken, dropped, delivered>>

MemberCondemns(j) ==
    /\ ~dropped /\ pc[j] = "recording" /\ Member(j)
    /\ dead' = [dead EXCEPT ![KeyOf(j)] = "dead"]
    /\ Goes(j, "reporting")
    /\ UNCHANGED <<at, found, groupCh, states, merged, results, counters,
                   closedGate, gateVars, woken, dropped, delivered>>

MemberReports(j) ==
    /\ ~dropped /\ pc[j] = "reporting" /\ Len(groupCh) < GroupCap
    /\ groupCh' = Append(groupCh, j)
    /\ Goes(j, "finished")
    /\ UNCHANGED <<at, found, dead, states, merged, results, counters,
                   closedGate, gateVars, woken, dropped, delivered>>
-----------------------------------------------------------------------------
(* aggregate_groups.  The last member to arrive settles its group: the key  *)
(* leaves both maps, done counts, and if every slot passed the merged proxy *)
(* counts as passed and waits for room in the channel to the consumer.      *)
GroupPassesOnAny(members) == \E j \in members : found[j] = "pass"
GroupPasses(members) == \A j \in members : found[j] = "pass"

SettleKeepingTheFlag(k) ==
    /\ states' = [states EXCEPT ![k] = {}]
    /\ done' = done + 1
    /\ IF GroupPasses(MembersOf(k))
       THEN passed' = passed + 1 /\ merged' = k
       ELSE UNCHANGED <<passed, merged>>
    /\ UNCHANGED dead

Settle(k) ==
    /\ states' = [states EXCEPT ![k] = {}]
    /\ dead' = [dead EXCEPT ![k] = "absent"]
    /\ done' = done + 1
    /\ IF GroupPasses(MembersOf(k))
       THEN passed' = passed + 1 /\ merged' = k
       ELSE UNCHANGED <<passed, merged>>

AggregatorReceives ==
    /\ ~dropped /\ merged = NoUnit /\ groupCh # <<>>
    /\ groupCh' = Tail(groupCh)
    /\ LET j == Head(groupCh)
           k == KeyOf(j)
           received == states[k] \cup {j}
       IN IF received = MembersOf(k)
          THEN Settle(k)
          ELSE /\ states' = [states EXCEPT ![k] = received]
               /\ UNCHANGED <<dead, done, passed, merged>>
    /\ UNCHANGED <<at, pc, found, results, total, closedGate, gateVars, woken,
                   dropped, delivered>>

AggregatorSends ==
    /\ ~dropped /\ merged # NoUnit /\ Len(results) < ResultCap
    /\ results' = Append(results, merged)
    /\ merged' = NoUnit
    /\ UNCHANGED <<at, pc, found, dead, groupCh, states, counters, closedGate,
                   gateVars, woken, dropped, delivered>>
-----------------------------------------------------------------------------
(* The consumer: poll_next and get_one receive, Drop aborts both tasks.     *)
Receive ==
    /\ ~dropped /\ results # <<>>
    /\ delivered' = Append(delivered, Head(results))
    /\ results' = Tail(results)
    /\ UNCHANGED <<at, pc, found, dead, groupCh, states, merged, counters,
                   closedGate, gateVars, woken, dropped>>

Drop ==
    /\ ~dropped
    /\ dropped' = TRUE
    /\ UNCHANGED <<at, pc, found, dead, groupCh, states, merged, results,
                   counters, closedGate, gateVars, woken, delivered>>

Works(j) ==
    \/ GateRegister(j) \/ GateLooks(j) \/ GateParks(j) \/ GateWakes(j)
    \/ GateClosed(j) \/ ProbeStarts(j)
    \/ \E verdict \in {"pass", "fail"} : SingleEnds(j, verdict) \/ MemberEnds(j, verdict)
    \/ Recorded(j) \/ Sends(j)
    \/ MemberSkips(j) \/ MemberStarts(j) \/ MemberCondemns(j) \/ MemberReports(j)

Aggregates == AggregatorReceives \/ AggregatorSends

Next ==
    \/ Pull
    \/ \E j \in Jobs : Works(j)
    \/ Aggregates
    \/ Receive \/ Drop
    \/ Pause \/ Resume \/ NotifyWaiters
    \/ \E u \in SingleUnits : GateCloses(u)

Spec == Init /\ [][Next]_vars

-----------------------------------------------------------------------------
Ended ==
    /\ ~dropped
    /\ at > Len(Plan) /\ In(Active) = {}
    /\ groupCh = <<>> /\ merged = NoUnit /\ results = <<>>

HandedOver == delivered \o results \o (IF merged = NoUnit THEN <<>> ELSE <<merged>>)

(* A group reaches the consumer only if every member of it was probed and   *)
(* passed, and no unit of a proxy is delivered twice, in whatever order the *)
(* members finish, skip and report.                                         *)
GroupsAllOrNothing ==
    /\ \A i \in DOMAIN HandedOver : \A j \in MembersOf(HandedOver[i]) : found[j] = "pass"
    /\ IsInjective(HandedOver)

(* A member is spared its probe only because a sibling's probe failed: the  *)
(* shared flag never carries over to another group or another proxy.        *)
SkipsAreExcused ==
    \A j \in Jobs :
        found[j] = "skipped" => \E i \in MembersOf(KeyOf(j)) : found[i] = "fail"

(* When the stream ends every job and group was accounted for, everything   *)
(* that passed was delivered, and neither of the aggregator's maps holds an *)
(* entry any more: an hours-long run leaks none.                            *)
EndsSettled ==
    Ended =>
        /\ done = total /\ passed = Len(delivered)
        /\ \A k \in Keys : states[k] = {} /\ dead[k] = "absent"

(* A run that is not left paused or dropped ends: no worker misses the      *)
(* wake-up of resume, and the workers, the aggregator and the consumer      *)
(* never wait for each other over their two full channels.                  *)
RunEnds == <>[](~paused /\ ~dropped) => <>Ended

=============================================================================
