------------------------------ MODULE ServeRun ------------------------------
(***************************************************************************)
(* `flx serve` (run_serve in src/cli/main.rs): one task feeds the rotation  *)
(* pool from a validation run, pauses the run while the pool is full, and   *)
(* starts over at every refresh; a second task is the endpoint, a third     *)
(* waits for the first ready proxy; Ctrl+C reaches all of them through one  *)
(* watch channel.                                                           *)
(*                                                                         *)
(* The endpoint is here only what run_serve sees of it: a join handle, the  *)
(* reports its relays make to the pool, and whether one of them sits in the *)
(* write that no deadline cuts (Rotator models the inside).  The validation *)
(* run is its gate and whatever can hold a result on the way to the pool:   *)
(* the workers, the channel to the aggregator of AND-groups, the group that *)
(* the aggregator waits to send, and the channel both send to (Validator    *)
(* models the inside); a round may offer any endpoints again.               *)
(***************************************************************************)
EXTENDS RotatorPool

CONSTANTS
    PoolSize,       \* --pool-size, clamped to 1..MAX_POOL_SIZE
    Plan,           \* the jobs of one candidate, in order: 0 for a type probed by
                    \* itself, g for a member of the g-th AND-group
    Workers,        \* probes that run at once
    GroupCap,       \* capacity of the channel to the aggregator
    ResultCap       \* capacity of the channel of validated proxies

ASSUME ServeAssumption ==
    /\ PoolSize \in 1..MaxPoolSize
    /\ Plan \in Seq(Nat) /\ Plan # <<>>
    /\ Workers \in Nat \ {0}
    /\ GroupCap \in Nat \ {0}
    /\ ResultCap \in Nat \ {0}

VARIABLES
    static,         \* candidates come from files: one round only
    run,            \* run_serve: where it stands
    pending,        \* candidates of this round not yet pulled
    upcoming,       \* the next job of the candidate being unfolded, or NoJob
    probing,        \* jobs whose worker has not handed over its result
    groupCh,        \* members of groups on their way to the aggregator
    joined,         \* members it has received of groups that are not complete
    merged,         \* the proxy whose group it waits to send, or NoProxy
    results,        \* validated proxies in the channel
    paused,         \* the gate of this round
    before,         \* history: how many entries the pool held when the round began
    bypass,         \* ready_bypass
    shutdown,       \* shutdown_tx.send(true) happened
    server,         \* the endpoint's task
    stuck,          \* a relay of it sits in a write without a deadline
    handleUsed,     \* its join handle has already returned its result
    live            \* the task waiting for a ready proxy has ended

pipeVars == <<pending, upcoming, probing, groupCh, joined, merged, results>>
streamVars == <<pipeVars, paused, before>>
taskVars == <<server, stuck, live, shutdown>>
vars == <<poolVars, streamVars, taskVars, static, run, bypass, handleUsed>>

RunStates ==
    {"fetching", "opened", "feeding", "checking", "refreshing", "joining",
     "returned", "error", "panicked"}
Ended == {"returned", "error", "panicked"}

Jobs == Proxies \X DOMAIN Plan
NoJob == <<>>

TypeOK ==
    /\ PoolTypeOK
    /\ static \in BOOLEAN
    /\ run \in RunStates
    /\ pending \subseteq Proxies
    /\ upcoming \in Jobs \cup {NoJob}
    /\ probing \subseteq Jobs /\ Cardinality(probing) <= Workers
    /\ groupCh \in Seq(Jobs) /\ Len(groupCh) <= GroupCap
    /\ joined \subseteq Jobs
    /\ merged \in Proxies \cup {NoProxy}
    /\ results \in Seq(Proxies) /\ Len(results) <= ResultCap
    /\ paused \in BOOLEAN
    /\ before \in Nat
    /\ bypass \in BOOLEAN
    /\ shutdown \in BOOLEAN
    /\ server \in {"starting", "running", "done", "failed"}
    /\ stuck \in BOOLEAN
    /\ handleUsed \in BOOLEAN
    /\ live \in BOOLEAN

(* Nothing is picked here, so one strategy stands for both.                 *)
Init ==
    /\ PoolInit
    /\ strategy = "RoundRobin"
    /\ static \in BOOLEAN
    /\ run = "fetching"
    /\ pending = {} /\ upcoming = NoJob /\ probing = {} /\ paused = FALSE
    /\ groupCh = <<>> /\ joined = {} /\ merged = NoProxy /\ results = <<>>
    /\ before = 0
    /\ bypass = FALSE
    /\ shutdown = FALSE
    /\ server = "starting" /\ stuck = FALSE
    /\ handleUsed = FALSE
    /\ live = FALSE
-----------------------------------------------------------------------------
(* serve_should_pause                                                       *)
Full == Len(entries) >= PoolSize

PipeEmpty ==
    /\ upcoming' = NoJob /\ probing' = {}
    /\ groupCh' = <<>> /\ joined' = {} /\ merged' = NoProxy /\ results' = <<>>

(* Dropping the stream aborts the workers and the aggregator.               *)
StreamDropped == pending' = {} /\ PipeEmpty /\ paused' = FALSE /\ UNCHANGED before

(* validated_stream delivered a new round: its workers run already.         *)
RoundStarts ==
    /\ run = "fetching"
    /\ \E offered \in SUBSET Proxies : pending' = offered
    /\ PipeEmpty /\ paused' = FALSE
    /\ before' = Len(entries)
    /\ run' = "opened"
    /\ UNCHANGED <<poolVars, taskVars, static, bypass, handleUsed>>

(* The first look at the pool.  A static pool that is full is done; a live  *)
(* one holds the probes until there is room.                                *)
FirstCheck ==
    /\ run = "opened"
    /\ IF Full /\ static
       THEN StreamDropped /\ bypass' = TRUE /\ run' = "joining"
       ELSE /\ paused' = Full
            /\ run' = "feeding"
            /\ UNCHANGED <<pipeVars, before, bypass>>
    /\ UNCHANGED <<poolVars, taskVars, static, handleUsed>>

(* validated_stream failed (no source, no judge online): run_serve returns. *)
RoundFails ==
    /\ run = "fetching"
    /\ run' = "error"
    /\ UNCHANGED <<poolVars, streamVars, taskVars, static, bypass, handleUsed>>
-----------------------------------------------------------------------------
(* The validation run behind the stream.  Jobs are pulled in order, the     *)
(* jobs of one candidate before those of the next; a type that a candidate  *)
(* does not advertise counts as a probe that fails, and a job that waits at *)
(* the gate as one not yet pulled.                                          *)
StreamOpen == run \in {"opened", "feeding", "checking"}

NextJobs == IF upcoming = NoJob THEN pending \X {1} ELSE {upcoming}

GroupOf(j) == Plan[j[2]]
MembersOf(j) == {k \in Jobs : k[1] = j[1] /\ GroupOf(k) = GroupOf(j)}

ProbeStartsUngated(j) ==
    /\ StreamOpen
    /\ j \in NextJobs
    /\ Cardinality(probing) < Workers
    /\ pending' = pending \ {j[1]}
    /\ upcoming' = IF j[2] < Len(Plan) THEN <<j[1], j[2] + 1>> ELSE NoJob
    /\ probing' = probing \cup {j}
    /\ UNCHANGED <<poolVars, taskVars, static, run, bypass, handleUsed>>
    /\ UNCHANGED <<groupCh, joined, merged, results, paused, before>>

ProbeStarts(j) ==
    /\ StreamOpen /\ ~paused
    /\ j \in NextJobs
    /\ Cardinality(probing) < Workers
    /\ pending' = pending \ {j[1]}
    /\ upcoming' = IF j[2] < Len(Plan) THEN <<j[1], j[2] + 1>> ELSE NoJob
    /\ probing' = probing \cup {j}
    /\ UNCHANGED <<poolVars, taskVars, static, run, bypass, handleUsed>>
    /\ UNCHANGED <<groupCh, joined, merged, results, paused, before>>

Piped(j) ==
    /\ j \in probing
    /\ probing' = probing \ {j}
    /\ UNCHANGED <<poolVars, taskVars, static, run, bypass, handleUsed>>
    /\ UNCHANGED <<pending, upcoming, joined, merged, paused, before>>

ProbeFails(j) ==
    /\ GroupOf(j) = 0
    /\ Piped(j)
    /\ UNCHANGED <<groupCh, results>>

(* A worker whose result does not fit keeps its place until it does.        *)
ProbePasses(j) ==
    /\ GroupOf(j) = 0
    /\ Len(results) < ResultCap
    /\ results' = Append(results, j[1])
    /\ Piped(j)
    /\ UNCHANGED groupCh

(* A member of a group reports whether it passed, failed or was skipped.    *)
MemberReports(j) ==
    /\ GroupOf(j) > 0
    /\ Len(groupCh) < GroupCap
    /\ groupCh' = Append(groupCh, j)
    /\ Piped(j)
    /\ UNCHANGED results

(* aggregate_groups: the last member completes its group, which passes or   *)
(* does not; while a group waits to be sent, nothing is received.           *)
Aggregates ==
    /\ merged = NoProxy
    /\ groupCh # <<>>
    /\ LET j == Head(groupCh)
       IN  IF MembersOf(j) \subseteq joined \cup {j}
           THEN joined' = joined \ MembersOf(j) /\ merged' \in {NoProxy, j[1]}
           ELSE joined' = joined \cup {j} /\ UNCHANGED merged
    /\ groupCh' = Tail(groupCh)
    /\ UNCHANGED <<poolVars, taskVars, static, run, bypass, handleUsed>>
    /\ UNCHANGED <<pending, upcoming, probing, results, paused, before>>

GroupSent ==
    /\ merged # NoProxy
    /\ Len(results) < ResultCap
    /\ results' = Append(results, merged)
    /\ merged' = NoProxy
    /\ UNCHANGED <<poolVars, taskVars, static, run, bypass, handleUsed>>
    /\ UNCHANGED <<pending, upcoming, probing, groupCh, joined, paused, before>>
-----------------------------------------------------------------------------
(* The inner loop: one arm of its select, then the check of the pool size.  *)
FeedProxy ==
    /\ run = "feeding"
    /\ results # <<>>
    /\ Add(Head(results))
    /\ results' = Tail(results)
    /\ run' = "checking"
    /\ UNCHANGED <<taskVars, static, paused, before, bypass, handleUsed>>
    /\ UNCHANGED <<pending, upcoming, probing, groupCh, joined, merged>>

RoomTick ==
    /\ run = "feeding"
    /\ run' = "checking"
    /\ UNCHANGED <<poolVars, streamVars, taskVars, static, bypass, handleUsed>>

LeaveFeedUnready ==
    /\ StreamDropped
    /\ run' = IF static THEN "joining" ELSE "refreshing"
    /\ UNCHANGED bypass

(* Leaving the loop drops the stream and lifts the readiness gate.  The     *)
(* shutdown arm stays ready once it was: the sender of the watch is gone.   *)
LeaveFeed ==
    /\ StreamDropped
    /\ bypass' = TRUE
    /\ run' = IF static THEN "joining" ELSE "refreshing"

KeepsPausing ==
    /\ run = "checking"
    /\ IF Full /\ static
       THEN LeaveFeed
       ELSE /\ paused' = (paused \/ Full)
            /\ run' = "feeding"
            /\ UNCHANGED <<pipeVars, before, bypass>>
    /\ UNCHANGED <<poolVars, taskVars, static, handleUsed>>

CheckRoom ==
    /\ run = "checking"
    /\ IF Full /\ static
       THEN LeaveFeed
       ELSE /\ paused' = Full
            /\ run' = "feeding"
            /\ UNCHANGED <<pipeVars, before, bypass>>
    /\ UNCHANGED <<poolVars, taskVars, static, handleUsed>>

StreamExhausted ==
    /\ run = "feeding"
    /\ pending = {} /\ upcoming = NoJob /\ probing = {}
    /\ groupCh = <<>> /\ merged = NoProxy /\ results = <<>>
    /\ LeaveFeed
    /\ UNCHANGED <<poolVars, taskVars, static, handleUsed>>

StopFeeding ==
    /\ run = "feeding"
    /\ shutdown
    /\ LeaveFeed
    /\ UNCHANGED <<poolVars, taskVars, static, handleUsed>>

(* The arm that polls the endpoint's handle.                                *)
ServerEndedWell ==
    /\ run = "feeding"
    /\ server = "done"
    /\ ~handleUsed
    /\ handleUsed' = TRUE
    /\ LeaveFeed
    /\ UNCHANGED <<poolVars, taskVars, static>>

ServerFailed ==
    /\ run = "feeding"
    /\ server = "failed"
    /\ handleUsed' = TRUE
    /\ run' = "error"
    /\ StreamDropped
    /\ UNCHANGED <<poolVars, taskVars, static, bypass>>

(* A handle that is polled again after it returned panics.                  *)
PolledAgain ==
    /\ run \in {"feeding", "joining"}
    /\ handleUsed
    /\ run' = "panicked"
    /\ StreamDropped
    /\ UNCHANGED <<poolVars, taskVars, static, bypass, handleUsed>>
-----------------------------------------------------------------------------
(* Between the rounds, and at the end.                                      *)
RefreshDue ==
    /\ run = "refreshing"
    /\ run' = "fetching"
    /\ UNCHANGED <<poolVars, streamVars, taskVars, static, bypass, handleUsed>>

RefreshCutByNextRound == shutdown /\ RefreshDue

RefreshCut ==
    /\ run = "refreshing"
    /\ shutdown
    /\ run' = "joining"
    /\ UNCHANGED <<poolVars, streamVars, taskVars, static, bypass, handleUsed>>

JoinLiveOnly ==
    /\ run = "joining"
    /\ ~handleUsed
    /\ live
    /\ handleUsed' = TRUE
    /\ run' = IF server = "failed" THEN "error" ELSE "returned"
    /\ UNCHANGED <<poolVars, streamVars, taskVars, static, bypass>>

JoinTasks ==
    /\ run = "joining"
    /\ ~handleUsed
    /\ server \in {"done", "failed"}
    /\ live
    /\ handleUsed' = TRUE
    /\ run' = IF server = "done" THEN "returned" ELSE "error"
    /\ UNCHANGED <<poolVars, streamVars, taskVars, static, bypass>>
-----------------------------------------------------------------------------
(* The other tasks and the user.                                            *)
CtrlC ==
    /\ ~shutdown
    /\ shutdown' = TRUE
    /\ UNCHANGED <<poolVars, streamVars, static, run, bypass, server, stuck, handleUsed, live>>

ServerGoes(from, to) ==
    /\ run \notin Ended
    /\ server = from
    /\ server' = to
    /\ UNCHANGED <<poolVars, streamVars, static, run, bypass, shutdown, stuck, handleUsed, live>>

ServerStarts == ServerGoes("starting", "running") \/ ServerGoes("starting", "failed")

(* The drain waits for every relay.                                         *)
ServerStops == shutdown /\ ~stuck /\ ServerGoes("running", "done")

(* A relay enters the write without a deadline, or the last one leaves it.  *)
WriteStalls ==
    /\ run \notin Ended
    /\ server = "running"
    /\ stuck' = ~stuck
    /\ UNCHANGED <<poolVars, streamVars, static, run, bypass, shutdown, server, handleUsed, live>>

SeesFirstReady ==
    /\ ~live
    /\ Ready > 0 \/ shutdown
    /\ live' = TRUE
    /\ UNCHANGED <<poolVars, streamVars, static, run, bypass, shutdown, server, stuck, handleUsed>>

(* The endpoint's relays report to the pool.                                *)
RelayReports ==
    /\ server = "running"
    /\ run \notin Ended
    /\ \E p \in Members : ReportSuccess(p) \/ ReportFailure(p)
    /\ UNCHANGED <<streamVars, taskVars, static, run, bypass, handleUsed>>

Cooled ==
    /\ run \notin Ended
    /\ \E i \in DOMAIN entries : CooldownEnds(i)
    /\ UNCHANGED <<streamVars, taskVars, static, run, bypass, handleUsed>>
-----------------------------------------------------------------------------
Feeder ==
    \/ RoundStarts \/ RoundFails \/ FirstCheck
    \/ FeedProxy \/ RoomTick \/ CheckRoom \/ StreamExhausted \/ StopFeeding
    \/ ServerEndedWell \/ ServerFailed \/ PolledAgain
    \/ RefreshDue \/ RefreshCut \/ JoinTasks

Probes ==
    \/ \E j \in Jobs :
        ProbeStarts(j) \/ ProbeFails(j) \/ ProbePasses(j) \/ MemberReports(j)
    \/ Aggregates
    \/ GroupSent

Others ==
    \/ CtrlC
    \/ ServerStarts \/ ServerStops \/ WriteStalls
    \/ SeesFirstReady
    \/ RelayReports
    \/ Cooled

Next == Feeder \/ Probes \/ Others

Spec == Init /\ [][Next]_vars

(* The tasks run, the probes and the fetch have deadlines; select! polls    *)
(* its arms in random order, so an arm that is ready again and again is     *)
(* taken.  After Ctrl+C the endpoint takes no more connections, and each it  *)
(* has is in the write without a deadline once: unless one stays there, the *)
(* endpoint gets to its end.                                                *)
Fairness ==
    /\ WF_vars(Feeder)
    /\ SF_vars(StopFeeding) /\ SF_vars(RefreshCut)
    /\ WF_vars(Probes)
    /\ WF_vars(ServerStarts) /\ SF_vars(ServerStops) /\ WF_vars(SeesFirstReady)

FairSpec == Spec /\ Fairness
-----------------------------------------------------------------------------
(* Whatever may still become an entry: each job, each member on its way to  *)
(* the aggregator and each proxy under way yields one at most.              *)
Waiting == IF merged = NoProxy THEN 0 ELSE 1
UnderWay == Cardinality(probing) + Len(groupCh) + Waiting + Len(results)

Pipeline == Workers + GroupCap + 1 + ResultCap

(* A round takes the pool past its size, or past what it held before if     *)
(* that was more, by no more than the validation run can have under way:    *)
(* the workers, the aggregator and the two channels, however relays evict   *)
(* and the gate opens and closes meanwhile.                                 *)
OvershootBounded ==
    Len(entries) + UnderWay <= (IF before > PoolSize THEN before ELSE PoolSize) + Pipeline

(* A gate closed on a pool that has room again is opened, or the round ends.*)
GateReopens ==
    (paused /\ ~Full) ~> (~paused \/ Full)

(* No client is kept waiting by the readiness gate once the feed is over.   *)
ReadyWhenFeedEnds ==
    run \in {"refreshing", "joining", "returned"} => bypass

(* After Ctrl+C run_serve ends, whatever phase of whatever round it is in,  *)
(* unless a relay of the endpoint it joins stays in the write for good.     *)
CtrlCEndsRun == (shutdown ~> run \in Ended) \/ <>[]stuck

(* run_serve reports success only after Ctrl+C and with the endpoint down.  *)
SuccessMeansDrained ==
    run = "returned" => shutdown /\ server = "done"

(* "graceful Ctrl+C finalization" (README): the run ends by returning.      *)
NeverPanics == run # "panicked"
=============================================================================
