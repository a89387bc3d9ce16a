--------------------------- MODULE ServeRunProofs ---------------------------
(***************************************************************************)
(* The safety of `flx serve`, for every set of endpoints, every pool size,  *)
(* every plan of plain types and AND-groups, any number of workers and any  *)
(* capacity of the two channels.                                            *)
(*                                                                         *)
(* The overshoot of the pool is not inductive by itself: GateTight says     *)
(* what the gate knows about the pool at each point of the feed loop.       *)
(***************************************************************************)
EXTENDS ServeRun, PoolLemmas, FiniteSetTheorems

(* While the gate is open there is room for whatever may still arrive: the  *)
(* pool has room, or one proxy was just added and the check is next, or the *)
(* round has just begun and nothing was added yet.                          *)
GateTight ==
    /\ run = "opened" => Len(entries) <= before
    /\ run = "feeding" /\ ~paused => ~Full
    /\ run = "checking" /\ ~paused => Len(entries) <= PoolSize

PipeInv ==
    /\ pending \subseteq Proxies
    /\ upcoming \in Jobs \cup {NoJob}
    /\ probing \subseteq Jobs
    /\ IsFiniteSet(probing)
    /\ Cardinality(probing) <= Workers
    /\ groupCh \in Seq(Jobs)
    /\ Len(groupCh) <= GroupCap
    /\ joined \subseteq Jobs
    /\ merged \in Proxies \cup {NoProxy}
    /\ results \in Seq(Proxies)
    /\ Len(results) <= ResultCap

StreamInv ==
    /\ PipeInv
    /\ paused \in BOOLEAN
    /\ before \in Nat
    /\ OvershootBounded
    /\ GateTight

TaskInv ==
    /\ cursor \in Nat
    /\ strategy \in Strategies
    /\ static \in BOOLEAN
    /\ run \in RunStates
    /\ bypass \in BOOLEAN
    /\ shutdown \in BOOLEAN
    /\ server \in {"starting", "running", "done", "failed"}
    /\ stuck \in BOOLEAN
    /\ handleUsed \in BOOLEAN
    /\ live \in BOOLEAN
    /\ ReadyWhenFeedEnds
    /\ server = "done" => shutdown
    /\ SuccessMeansDrained

ServeInv == Sound /\ StreamInv /\ TaskInv

(* ServeInv includes the type invariant.                                    *)
LEMMA ServeInvTypes == ServeInv => TypeOK
BY DEF ServeInv, Sound, StreamInv, PipeInv, TaskInv, TypeOK, PoolTypeOK

(* The numbers the arithmetic below is about.                               *)
LEMMA Counts ==
    ASSUME ServeInv
    PROVE  /\ Len(entries) \in Nat
           /\ Len(results) \in Nat /\ Len(results) <= ResultCap
           /\ Len(groupCh) \in Nat /\ Len(groupCh) <= GroupCap
           /\ Cardinality(probing) \in Nat /\ Cardinality(probing) <= Workers
           /\ before \in Nat /\ Waiting \in 0..1
           /\ PoolSize \in Nat /\ Workers \in Nat /\ ResultCap \in Nat /\ GroupCap \in Nat
BY LenProperties, FS_CardinalityType, ServeAssumption, PoolAssumption
   DEF ServeInv, Sound, StreamInv, PipeInv, Waiting

(* UnderWay as a sum of numbers.                                            *)
LEMMA UnderWayIs ==
    ASSUME ServeInv
    PROVE  /\ UnderWay = Cardinality(probing) + Len(groupCh) + Waiting + Len(results)
           /\ UnderWay' = Cardinality(probing') + Len(groupCh') + Waiting' + Len(results')
           /\ UnderWay \in Nat
BY Counts DEF UnderWay

(* An empty validation run has nothing under way.                           *)
LEMMA EmptyPipe ==
    ASSUME PipeEmpty, pending' \subseteq Proxies
    PROVE  PipeInv' /\ UnderWay' = 0
<1>1. IsFiniteSet(probing') /\ Cardinality(probing') = 0
  BY FS_EmptySet DEF PipeEmpty
<1>2. results' \in Seq(Proxies) /\ Len(results') = 0
  BY DEF PipeEmpty
<1>3. groupCh' \in Seq(Jobs) /\ Len(groupCh') = 0
  BY DEF PipeEmpty
<1>4. Workers \in Nat /\ GroupCap \in Nat /\ ResultCap \in Nat
  BY ServeAssumption
<1>5. merged' = NoProxy /\ probing' = {} /\ joined' = {} /\ upcoming' = NoJob
  BY DEF PipeEmpty
<1>6. UnderWay' = 0
  BY <1>1, <1>2, <1>3, <1>5 DEF UnderWay, Waiting
<1> QED
  BY <1>1, <1>2, <1>3, <1>4, <1>5, <1>6 DEF PipeInv
-----------------------------------------------------------------------------
(* The invariant holds before the first round.                              *)
LEMMA InitServe == Init => ServeInv
<1> SUFFICES ASSUME Init PROVE ServeInv
  OBVIOUS
<1>1. entries = <<>> /\ Len(entries) = 0
  BY DEF Init, PoolInit
<1>2. Sound
  BY <1>1, PoolAssumption DEF Sound, Distinct
<1>3. IsFiniteSet(probing) /\ Cardinality(probing) = 0
  BY FS_EmptySet DEF Init
<1>4. /\ results \in Seq(Proxies) /\ Len(results) = 0
      /\ groupCh \in Seq(Jobs) /\ Len(groupCh) = 0
  BY DEF Init
<1>5. StreamInv
  <2>1. /\ PoolSize \in Nat /\ Workers \in Nat /\ ResultCap \in Nat /\ GroupCap \in Nat
        /\ merged = NoProxy /\ before = 0
    BY ServeAssumption, PoolAssumption DEF Init
  <2>2. OvershootBounded
    BY <1>1, <1>3, <1>4, <2>1 DEF OvershootBounded, UnderWay, Waiting, Pipeline
  <2>3. GateTight /\ paused \in BOOLEAN
    BY DEF Init, GateTight
  <2>4. PipeInv
    BY <1>3, <1>4, <2>1 DEF Init, PipeInv
  <2> QED
    BY <2>1, <2>2, <2>3, <2>4 DEF StreamInv
<1>6. TaskInv
  BY DEF Init, PoolInit, TaskInv, Strategies, RunStates, ReadyWhenFeedEnds, SuccessMeansDrained
<1> QED
  BY <1>2, <1>5, <1>6 DEF ServeInv

(* No step lifts the readiness gate again, takes a shutdown back or revives *)
(* the endpoint.                                                            *)
LEMMA TasksKeep == ServeInv /\ Next => TaskInv'
<1> SUFFICES ASSUME ServeInv, Next PROVE TaskInv'
  OBVIOUS
<1> USE DEF ServeInv, TaskInv, ReadyWhenFeedEnds, SuccessMeansDrained, RunStates, Ended
<1>1. CASE Feeder
  <2>1. CASE RoundStarts \/ RoundFails \/ RoomTick
    BY <2>1 DEF RoundStarts, RoundFails, RoomTick, taskVars, poolVars
  <2>2. CASE FeedProxy
    BY <2>2 DEF FeedProxy, taskVars, Add
  <2>3. CASE FirstCheck \/ CheckRoom \/ StreamExhausted \/ StopFeeding \/ ServerEndedWell
    BY <2>3 DEF FirstCheck, CheckRoom, StreamExhausted, StopFeeding, ServerEndedWell, LeaveFeed,
                taskVars, poolVars
  <2>4. CASE ServerFailed \/ PolledAgain \/ RefreshDue \/ RefreshCut \/ JoinTasks
    BY <2>4 DEF ServerFailed, PolledAgain, RefreshDue, RefreshCut, JoinTasks, taskVars, poolVars
  <2> QED
    BY <1>1, <2>1, <2>2, <2>3, <2>4 DEF Feeder
<1>2. CASE Probes
  <2>1. UNCHANGED <<poolVars, taskVars, static, run, bypass, handleUsed>>
    BY <1>2 DEF Probes, ProbeStarts, ProbeFails, ProbePasses, MemberReports, Piped, Aggregates,
                GroupSent
  <2> QED
    BY <2>1 DEF taskVars, poolVars
<1>3. CASE CtrlC \/ ServerStarts \/ ServerStops \/ WriteStalls \/ SeesFirstReady
  <2>1. CASE CtrlC \/ WriteStalls
    BY <2>1 DEF CtrlC, WriteStalls, poolVars
  <2>2. CASE ServerStarts \/ ServerStops
    BY <2>2 DEF ServerStarts, ServerStops, ServerGoes, poolVars
  <2>3. CASE SeesFirstReady
    BY <2>3 DEF SeesFirstReady, poolVars
  <2> QED
    BY <1>3, <2>1, <2>2, <2>3
<1>4. CASE RelayReports \/ Cooled
  BY <1>4 DEF RelayReports, Cooled, ReportSuccess, ReportFailure, CooldownEnds, taskVars
<1> QED
  BY <1>1, <1>2, <1>3, <1>4 DEF Next, Others
-----------------------------------------------------------------------------
(* Steps that leave the stream and the place in the loop alone may move the *)
(* pool as long as it does not grow.                                        *)
LEMMA ShrinkingKeeps ==
    ASSUME ServeInv, Sound', Len(entries') <= Len(entries),
           UNCHANGED <<streamVars, run>>
    PROVE  Sound' /\ StreamInv'
<1>1. Len(entries') \in Nat
  BY LenProperties DEF Sound
<1>2. PipeInv' /\ UnderWay' = UnderWay
  BY DEF ServeInv, StreamInv, PipeInv, UnderWay, Waiting, streamVars, pipeVars
<1>3. UnderWay \in Nat /\ Pipeline \in Nat
  BY Counts, SMTT(30) DEF UnderWay, Pipeline
<1>4. OvershootBounded'
  BY <1>1, <1>2, <1>3, Counts, SMTT(30) DEF ServeInv, StreamInv, OvershootBounded, Pipeline, streamVars
<1>5. GateTight'
  BY <1>1, Counts DEF ServeInv, StreamInv, GateTight, Full, streamVars
<1> QED
  BY <1>2, <1>4, <1>5 DEF ServeInv, StreamInv, streamVars

(* Leaving the loop, and every step outside it: the stream is gone or as it *)
(* was, and the pool stands still.                                          *)
LEMMA DroppedKeeps ==
    ASSUME ServeInv, entries' = entries, StreamDropped,
           run' \notin {"opened", "feeding", "checking"}
    PROVE  Sound' /\ StreamInv'
<1>1. PipeInv' /\ UnderWay' = 0
  BY EmptyPipe DEF StreamDropped
<1>2. UnderWay \in Nat /\ Pipeline \in Nat
  BY Counts, SMTT(30) DEF UnderWay, Pipeline
<1>3. OvershootBounded'
  BY <1>1, <1>2, Counts, SMTT(30) DEF ServeInv, StreamInv, OvershootBounded, Pipeline, StreamDropped
<1>4. Sound'
  BY DEF ServeInv, Sound
<1>5. GateTight'
  BY DEF GateTight
<1>6. paused' \in BOOLEAN /\ before' \in Nat
  BY Counts DEF StreamDropped
<1> QED
  BY <1>1, <1>3, <1>4, <1>5, <1>6 DEF StreamInv

(* A step that goes on outside the loop with the stream as it was.          *)
LEMMA OutsideKeeps ==
    ASSUME ServeInv, entries' = entries, UNCHANGED streamVars,
           run' \notin {"opened", "feeding", "checking"}
    PROVE  Sound' /\ StreamInv'
BY DEF ServeInv, Sound, StreamInv, PipeInv, OvershootBounded, UnderWay, Waiting, Pipeline, GateTight,
       streamVars, pipeVars
-----------------------------------------------------------------------------
(* The feed loop.  FeedProxy moves one proxy from the channel to the pool,  *)
(* and CheckRoom sets the gate by the pool it sees.                         *)
LEMMA GateSetByPool ==
    ASSUME entries' = entries, paused' = Full, run' = "feeding"
    PROVE  GateTight' /\ paused' \in BOOLEAN
<1>1. Full' = Full
  BY DEF Full
<1>2. Full \in BOOLEAN
  BY SMT DEF Full
<1>3. ~paused' => ~Full'
  BY <1>1, Zenon
<1>4. paused' \in BOOLEAN
  BY <1>2, Zenon
<1> QED
  BY <1>3, <1>4 DEF GateTight

(* A round starts with nothing under way, whatever the pool holds.          *)
LEMMA RoundStartsKeeps == ServeInv /\ RoundStarts => Sound' /\ StreamInv'
<1> SUFFICES ASSUME ServeInv, RoundStarts PROVE Sound' /\ StreamInv'
  OBVIOUS
<1>1. entries' = entries /\ before' = Len(entries) /\ run' = "opened" /\ paused' = FALSE
  BY DEF RoundStarts, poolVars
<1>2. PipeInv' /\ UnderWay' = 0
  BY EmptyPipe DEF RoundStarts
<1>3. OvershootBounded' /\ GateTight'
  BY <1>1, <1>2, Counts DEF OvershootBounded, Pipeline, GateTight
<1> QED
  BY <1>1, <1>2, <1>3, Counts DEF ServeInv, Sound, StreamInv

(* The gate is set by the pool the step sees, or the stream is dropped: the *)
(* first look of a round and every check after a turn of the loop.          *)
LEMMA GateKeeps == ServeInv /\ (FirstCheck \/ CheckRoom) => Sound' /\ StreamInv'
<1> SUFFICES ASSUME ServeInv, FirstCheck \/ CheckRoom PROVE Sound' /\ StreamInv'
  OBVIOUS
<1>1. entries' = entries
  BY DEF FirstCheck, CheckRoom, poolVars
<1>2. CASE Full /\ static
  BY <1>1, <1>2, DroppedKeeps DEF FirstCheck, CheckRoom, LeaveFeed
<1>3. CASE ~(Full /\ static)
  <2>1. paused' = Full /\ run' = "feeding" /\ UNCHANGED <<pipeVars, before>>
    BY <1>3 DEF FirstCheck, CheckRoom
  <2>2. GateTight' /\ paused' \in BOOLEAN
    BY <1>1, <2>1, GateSetByPool
  <2>3. PipeInv' /\ UnderWay' = UnderWay
    BY <2>1 DEF ServeInv, StreamInv, PipeInv, UnderWay, Waiting, pipeVars
  <2> QED
    BY <1>1, <2>1, <2>2, <2>3 DEF ServeInv, Sound, StreamInv, OvershootBounded, Pipeline
<1> QED
  BY <1>2, <1>3

(* What the pool gains, the channel loses; the check comes next.            *)
LEMMA FeedProxyKeeps == ServeInv /\ FeedProxy => Sound' /\ StreamInv'
<1> SUFFICES ASSUME ServeInv, FeedProxy PROVE Sound' /\ StreamInv'
  OBVIOUS
<1>1. results \in Seq(Proxies) /\ results # <<>>
  BY DEF ServeInv, StreamInv, PipeInv, FeedProxy
<1>2. /\ Head(results) \in Proxies
      /\ Tail(results) \in Seq(Proxies)
      /\ Len(Tail(results)) = Len(results) - 1
  BY <1>1, HeadTailProperties
<1>3. /\ Sound'
      /\ Len(entries') = Len(entries) \/ Len(entries') = Len(entries) + 1
  BY <1>2, AddGrowsByOne DEF FeedProxy, ServeInv
<1>4. /\ results' = Tail(results) /\ run = "feeding" /\ run' = "checking"
      /\ UNCHANGED <<pending, upcoming, probing, groupCh, joined, merged, paused, before>>
  BY DEF FeedProxy
<1>5. OvershootBounded'
  <2>1. Waiting' = Waiting /\ Pipeline \in Nat
    BY <1>4, Counts DEF Waiting, Pipeline
  <2>2. UnderWay' = UnderWay - 1 /\ UnderWay \in Nat
    BY <1>2, <1>4, <2>1, Counts, UnderWayIs
  <2>3. Len(entries) + UnderWay <= (IF before > PoolSize THEN before ELSE PoolSize) + Pipeline
    BY DEF ServeInv, StreamInv, OvershootBounded
  <2>4. Len(entries') + UnderWay' <= (IF before > PoolSize THEN before ELSE PoolSize) + Pipeline
    BY <1>3, <2>1, <2>2, <2>3, Counts, SMTT(30)
  <2> QED
    BY <1>4, <2>4 DEF OvershootBounded, Pipeline
<1>6. GateTight'
  BY <1>3, <1>4, Counts DEF ServeInv, StreamInv, GateTight, Full
<1>7. PipeInv'
  BY <1>2, <1>4, Counts DEF ServeInv, StreamInv, PipeInv
<1> QED
  BY <1>3, <1>4, <1>5, <1>6, <1>7 DEF ServeInv, StreamInv

(* Every step of run_serve keeps the invariant.                             *)
LEMMA FeederKeeps == ServeInv /\ Feeder => Sound' /\ StreamInv'
<1> SUFFICES ASSUME ServeInv, Feeder PROVE Sound' /\ StreamInv'
  OBVIOUS
<1>1. CASE RoundStarts \/ FirstCheck \/ FeedProxy \/ CheckRoom
  BY <1>1, RoundStartsKeeps, FeedProxyKeeps, GateKeeps
<1>2. CASE RoomTick
  <2>1. run = "feeding" /\ run' = "checking" /\ entries' = entries /\ UNCHANGED streamVars
    BY <1>2 DEF RoomTick, poolVars
  <2>2. GateTight'
    BY <2>1, Counts DEF ServeInv, StreamInv, GateTight, Full, streamVars
  <2> QED
    BY <2>1, <2>2 DEF ServeInv, Sound, StreamInv, PipeInv, OvershootBounded, UnderWay, Waiting,
                      Pipeline, streamVars, pipeVars
<1>3. CASE StreamExhausted \/ StopFeeding \/ ServerEndedWell \/ ServerFailed \/ PolledAgain
  <2>1. /\ entries' = entries /\ StreamDropped
        /\ run' \notin {"opened", "feeding", "checking"}
    BY <1>3 DEF StreamExhausted, StopFeeding, ServerEndedWell, ServerFailed, PolledAgain,
                LeaveFeed, poolVars
  <2> QED
    BY <2>1, DroppedKeeps
<1>4. CASE RoundFails \/ RefreshDue \/ RefreshCut \/ JoinTasks
  <2>1. /\ entries' = entries /\ UNCHANGED streamVars
        /\ run' \notin {"opened", "feeding", "checking"}
    BY <1>4 DEF RoundFails, RefreshDue, RefreshCut, JoinTasks, poolVars
  <2> QED
    BY <2>1, OutsideKeeps
<1> QED
  BY <1>1, <1>2, <1>3, <1>4 DEF Feeder

(* A job starts only while the gate is open, so the pool is within its size *)
(* or as the round found it, and the validation run has room for the job.   *)
LEMMA StartKeeps ==
    ASSUME ServeInv, NEW j \in Jobs, ProbeStarts(j)
    PROVE  PipeInv' /\ OvershootBounded'
<1>1. /\ probing' = probing \cup {j} /\ pending' = pending \ {j[1]}
      /\ upcoming' = IF j[2] < Len(Plan) THEN <<j[1], j[2] + 1>> ELSE NoJob
      /\ entries' = entries
      /\ UNCHANGED <<groupCh, joined, merged, results, before>>
  BY DEF ProbeStarts, poolVars
<1>2. IsFiniteSet(probing') /\ Cardinality(probing') \in Nat
      /\ Cardinality(probing') <= Workers
  <2>1. /\ IsFiniteSet(probing \cup {j})
        /\ Cardinality(probing \cup {j}) =
              IF j \in probing THEN Cardinality(probing) ELSE Cardinality(probing) + 1
    BY FS_AddElement DEF ServeInv, StreamInv, PipeInv
  <2>2. Cardinality(probing) < Workers
    BY DEF ProbeStarts
  <2> QED
    BY <1>1, <2>1, <2>2, Counts
<1>3. upcoming' \in Jobs \cup {NoJob}
  <2>1. j[1] \in Proxies /\ j[2] \in 1..Len(Plan) /\ Len(Plan) \in Nat
    BY ServeAssumption DEF Jobs
  <2>2. CASE j[2] < Len(Plan)
    <3>1. j[2] + 1 \in DOMAIN Plan
      BY <2>1, <2>2, ServeAssumption
    <3> QED
      BY <1>1, <2>1, <2>2, <3>1 DEF Jobs
  <2>3. CASE ~(j[2] < Len(Plan))
    BY <1>1, <2>3
  <2> QED
    BY <2>2, <2>3
<1>4. PipeInv'
  BY <1>1, <1>2, <1>3 DEF ServeInv, StreamInv, PipeInv
<1>5. Len(entries) <= (IF before > PoolSize THEN before ELSE PoolSize)
  BY Counts DEF ProbeStarts, StreamOpen, ServeInv, StreamInv, GateTight, Full
<1>6. UnderWay' <= Pipeline /\ UnderWay' \in Nat
  <2>1. Waiting' = Waiting /\ Len(groupCh') = Len(groupCh) /\ Len(results') = Len(results)
    BY <1>1 DEF Waiting
  <2>2. UnderWay' = Cardinality(probing') + Len(groupCh) + Waiting + Len(results)
    BY <2>1, UnderWayIs
  <2> QED
    BY <1>2, <2>2, Counts, SMTT(30) DEF Pipeline
<1>7. OvershootBounded'
  BY <1>1, <1>5, <1>6, Counts, SMTT(30) DEF OvershootBounded, Pipeline
<1> QED
  BY <1>4, <1>7

(* A worker that is done hands on one result at most.                       *)
LEMMA FinishKeeps ==
    ASSUME ServeInv, NEW j \in Jobs, ProbeFails(j) \/ ProbePasses(j) \/ MemberReports(j)
    PROVE  PipeInv' /\ UnderWay' <= UnderWay /\ UnderWay' \in Nat
<1>1. /\ j \in probing /\ probing' = probing \ {j}
      /\ UNCHANGED <<pending, upcoming, joined, merged>>
  BY DEF ProbeFails, ProbePasses, MemberReports, Piped
<1>2. IsFiniteSet(probing') /\ Cardinality(probing') \in Nat
      /\ Cardinality(probing') = Cardinality(probing) - 1
  BY <1>1, FS_RemoveElement, FS_CardinalityType DEF ServeInv, StreamInv, PipeInv
<1>3. j[1] \in Proxies
  BY DEF Jobs
<1>4. Waiting' = Waiting
  BY <1>1 DEF Waiting
<1>5. /\ results' \in Seq(Proxies) /\ Len(results') \in Nat /\ Len(results') <= ResultCap
      /\ groupCh' \in Seq(Jobs) /\ Len(groupCh') \in Nat /\ Len(groupCh') <= GroupCap
      /\ Len(groupCh') + Len(results') <= Len(groupCh) + Len(results) + 1
  <2>1. CASE ProbeFails(j)
    <3>1. UNCHANGED <<groupCh, results>>
      BY <2>1 DEF ProbeFails
    <3> QED
      BY <3>1, Counts DEF ServeInv, StreamInv, PipeInv
  <2>2. CASE ProbePasses(j)
    <3>1. results' = Append(results, j[1]) /\ Len(results) < ResultCap /\ groupCh' = groupCh
      BY <2>2 DEF ProbePasses
    <3>2. results' \in Seq(Proxies) /\ Len(results') = Len(results) + 1
      BY <1>3, <3>1, AppendProperties DEF ServeInv, StreamInv, PipeInv
    <3>3. groupCh' \in Seq(Jobs)
      BY <3>1 DEF ServeInv, StreamInv, PipeInv
    <3> QED
      BY <3>1, <3>2, <3>3, Counts
  <2>3. CASE MemberReports(j)
    <3>1. groupCh' = Append(groupCh, j) /\ Len(groupCh) < GroupCap /\ results' = results
      BY <2>3 DEF MemberReports
    <3>2. groupCh' \in Seq(Jobs) /\ Len(groupCh') = Len(groupCh) + 1
      BY <3>1, AppendProperties DEF ServeInv, StreamInv, PipeInv
    <3>3. results' \in Seq(Proxies)
      BY <3>1 DEF ServeInv, StreamInv, PipeInv
    <3> QED
      BY <3>1, <3>2, <3>3, Counts
  <2> QED
    BY <2>1, <2>2, <2>3
<1>6. UnderWay' <= UnderWay /\ UnderWay' \in Nat
  <2>1. UnderWay' = (Cardinality(probing) - 1) + Len(groupCh') + Waiting + Len(results')
    BY <1>2, <1>4, UnderWayIs
  <2>2. UnderWay = Cardinality(probing) + Len(groupCh) + Waiting + Len(results)
    BY UnderWayIs
  <2>3. /\ Cardinality(probing) - 1 \in Nat /\ Cardinality(probing) \in Nat
        /\ Waiting \in Nat /\ Len(groupCh) \in Nat /\ Len(results) \in Nat
    BY <1>2, Counts
  <2>4. /\ Len(groupCh') \in Nat /\ Len(results') \in Nat
        /\ Len(groupCh') + Len(results') <= Len(groupCh) + Len(results) + 1
    BY <1>5
  <2> QED
    BY ONLY <2>1, <2>2, <2>3, <2>4, SMTT(30)
<1>7. PipeInv'
  BY <1>1, <1>2, <1>5, Counts DEF ServeInv, StreamInv, PipeInv
<1> QED
  BY <1>6, <1>7

(* Of the members the aggregator receives, only the last of a group makes a *)
(* proxy, and the next is not received before that one is sent.             *)
LEMMA AggregatorKeeps ==
    ASSUME ServeInv, Aggregates \/ GroupSent
    PROVE  PipeInv' /\ UnderWay' <= UnderWay /\ UnderWay' \in Nat
<1>1. CASE Aggregates
  <2>1. groupCh \in Seq(Jobs) /\ groupCh # <<>> /\ merged = NoProxy
    BY <1>1 DEF Aggregates, ServeInv, StreamInv, PipeInv
  <2>2. /\ Head(groupCh) \in Jobs /\ Tail(groupCh) \in Seq(Jobs)
        /\ Len(Tail(groupCh)) = Len(groupCh) - 1
    BY <2>1, HeadTailProperties
  <2>3. Head(groupCh)[1] \in Proxies
    BY <2>2 DEF Jobs
  <2>4. groupCh' = Tail(groupCh) /\ UNCHANGED <<pending, upcoming, probing, results>>
    BY <1>1 DEF Aggregates
  <2>5. joined' \subseteq Jobs /\ merged' \in Proxies \cup {NoProxy}
    <3> DEFINE j == Head(groupCh)
    <3>1. CASE MembersOf(j) \subseteq joined \cup {j}
      BY <1>1, <2>3, <3>1 DEF Aggregates, ServeInv, StreamInv, PipeInv
    <3>2. CASE ~(MembersOf(j) \subseteq joined \cup {j})
      BY <1>1, <2>2, <3>2 DEF Aggregates, ServeInv, StreamInv, PipeInv
    <3> QED
      BY <3>1, <3>2
  <2>6. Waiting' \in 0..1 /\ Waiting = 0
    BY <2>1 DEF Waiting
  <2>7. UnderWay' <= UnderWay /\ UnderWay' \in Nat
    BY <2>2, <2>4, <2>6, Counts, UnderWayIs, SMTT(30)
  <2> QED
    BY <2>1, <2>2, <2>4, <2>5, <2>7, Counts DEF ServeInv, StreamInv, PipeInv
<1>2. CASE GroupSent
  <2>1. /\ merged # NoProxy /\ merged \in Proxies /\ merged' = NoProxy
        /\ results' = Append(results, merged) /\ Len(results) < ResultCap
        /\ UNCHANGED <<pending, upcoming, probing, groupCh, joined>>
    BY <1>2 DEF GroupSent, ServeInv, StreamInv, PipeInv
  <2>2. results' \in Seq(Proxies) /\ Len(results') = Len(results) + 1
    BY <2>1, AppendProperties DEF ServeInv, StreamInv, PipeInv
  <2>3. Waiting' = 0 /\ Waiting = 1
    BY <2>1 DEF Waiting
  <2>4. UnderWay' <= UnderWay /\ UnderWay' \in Nat
    BY <2>1, <2>2, <2>3, Counts, UnderWayIs
  <2> QED
    BY <2>1, <2>2, <2>4, Counts DEF ServeInv, StreamInv, PipeInv
<1> QED
  BY <1>1, <1>2

(* The validation run: it takes on a job while the gate is open, and what   *)
(* it hands on inside never grows.                                          *)
LEMMA ProbesKeep == ServeInv /\ Probes => Sound' /\ StreamInv'
<1> SUFFICES ASSUME ServeInv, Probes PROVE Sound' /\ StreamInv'
  OBVIOUS
<1>1. UNCHANGED <<entries, cursor, strategy, run, paused, before>>
  BY DEF Probes, ProbeStarts, ProbeFails, ProbePasses, MemberReports, Piped, Aggregates,
         GroupSent, poolVars
<1>2. Sound' /\ GateTight' /\ paused' \in BOOLEAN /\ before' \in Nat
  BY <1>1 DEF ServeInv, Sound, StreamInv, GateTight, Full
<1>3. CASE \E j \in Jobs : ProbeStarts(j)
  BY <1>2, <1>3, StartKeeps DEF StreamInv
<1>4. CASE ~\E j \in Jobs : ProbeStarts(j)
  <2>1. PipeInv' /\ UnderWay' <= UnderWay /\ UnderWay' \in Nat
    BY <1>4, FinishKeeps, AggregatorKeeps DEF Probes
  <2>2. UnderWay \in Nat
    BY Counts DEF UnderWay
  <2>3. OvershootBounded'
    BY <1>1, <2>1, <2>2, Counts, SMTT(30) DEF ServeInv, StreamInv, OvershootBounded, Pipeline
  <2> QED
    BY <1>2, <2>1, <2>3 DEF StreamInv
<1> QED
  BY <1>3, <1>4

(* Relays may evict at any moment, but only run_serve makes the pool grow.  *)
LEMMA OthersKeep ==
    ASSUME ServeInv, Others
    PROVE  Sound' /\ StreamInv'
<1>1. UNCHANGED <<streamVars, run>>
  BY DEF Others, CtrlC, ServerStarts, ServerStops, WriteStalls, ServerGoes, SeesFirstReady,
         RelayReports, Cooled
<1>2. CASE entries' = entries
  BY <1>1, <1>2, Counts, ShrinkingKeeps DEF ServeInv, Sound
<1>3. CASE RelayReports
  <2>1. PICK p \in Members : ReportSuccess(p) \/ ReportFailure(p)
    BY <1>3 DEF RelayReports
  <2>2. Sound' /\ Len(entries') <= Len(entries)
    <3>1. CASE ReportSuccess(p)
      BY <3>1, SuccessKeepsSound, Counts DEF ServeInv
    <3>2. CASE ReportFailure(p)
      BY <3>2, FailureKeepsSound DEF ServeInv
    <3> QED
      BY <2>1, <3>1, <3>2
  <2> QED
    BY <1>1, <2>2, ShrinkingKeeps
<1>4. CASE Cooled
  <2>1. Sound' /\ Len(entries') <= Len(entries)
    BY <1>4, CooldownKeepsSound, Counts DEF Cooled, ServeInv
  <2> QED
    BY <1>1, <2>1, ShrinkingKeeps
<1>5. CASE CtrlC \/ ServerStarts \/ ServerStops \/ WriteStalls \/ SeesFirstReady
  BY <1>2, <1>5 DEF CtrlC, ServerStarts, ServerStops, WriteStalls, ServerGoes, SeesFirstReady,
                    poolVars
<1> QED
  BY <1>3, <1>4, <1>5 DEF Others
-----------------------------------------------------------------------------
(* ServeInv holds in every reachable state of run_serve.                    *)
THEOREM ServeInvariant == Spec => []ServeInv
<1>1. ServeInv /\ [Next]_vars => ServeInv'
  <2> SUFFICES ASSUME ServeInv, [Next]_vars PROVE ServeInv'
    OBVIOUS
  <2>1. CASE Next
    BY <2>1, TasksKeep, FeederKeeps, ProbesKeep, OthersKeep DEF Next, ServeInv
  <2>2. CASE UNCHANGED vars
    BY <2>2 DEF vars, poolVars, streamVars, pipeVars, taskVars, ServeInv, Sound, StreamInv,
                PipeInv, TaskInv, OvershootBounded, UnderWay, Waiting, GateTight, Full,
                ReadyWhenFeedEnds, SuccessMeansDrained
  <2> QED
    BY <2>1, <2>2
<1> QED
  BY <1>1, InitServe, PTL DEF Spec

(* Every variable of run_serve keeps its type.                              *)
THEOREM ServeTypes == Spec => []TypeOK
BY ServeInvariant, ServeInvTypes, PTL

(* A round takes the pool beyond --pool-size, or beyond what it held, by no *)
(* more than the workers, the aggregator of AND-groups and the two channels *)
(* can hold (serve_should_pause and the gate of the validation run).        *)
THEOREM OvershootIsBounded == Spec => []OvershootBounded
<1>1. ServeInv => OvershootBounded
  BY DEF ServeInv, StreamInv
<1> QED
  BY <1>1, ServeInvariant, PTL

(* Whenever the feed loop is over, ready_bypass is set.                     *)
THEOREM ReadyAfterFeed == Spec => []ReadyWhenFeedEnds
<1>1. ServeInv => ReadyWhenFeedEnds
  BY DEF ServeInv, TaskInv
<1> QED
  BY <1>1, ServeInvariant, PTL

(* run_serve returns Ok only after Ctrl+C, when the endpoint has drained.   *)
THEOREM SuccessIsDrained == Spec => []SuccessMeansDrained
<1>1. ServeInv => SuccessMeansDrained
  BY DEF ServeInv, TaskInv
<1> QED
  BY <1>1, ServeInvariant, PTL
=============================================================================
