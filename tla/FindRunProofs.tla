--------------------------- MODULE FindRunProofs ---------------------------
(***************************************************************************)
(* The safety of `flx find` over both of its passes, for every source, all  *)
(* TYPES arguments, any limit, any filter and any interleaving of the       *)
(* probes with Ctrl+C and SIGUSR1: the limit is kept, the document of a run *)
(* that ends well is closed, nothing is probed twice, the gate spares only  *)
(* useless probes, and a run that ends short of its quotas asked everybody. *)
(***************************************************************************)
EXTENDS FindRun, SequenceTheorems, FiniteSetTheorems, TLAPS

(***************************************************************************)
(* What holds of the quota decisions for every list of quotas, every state *)
(* of the hits and every proxy (module Quotas): the probe gate skips only  *)
(* what should_emit would refuse, and what is full stays full.             *)
(***************************************************************************)
(* The hits a QuotaEnforcer can hold: counters that never pass their cap.   *)
HitsOf(quotas) ==
    {counts \in [Slots(quotas) -> Nat] : \A i \in Slots(quotas) : quotas[i].capped => counts[i] <= quotas[i].cap}

(* The probe gate is sound: once a requested type is closed, whatever its   *)
(* probe could have reported would not have been written.  It is why the    *)
(* gate may save the probe (is_protocol_closed against should_emit).        *)
THEOREM GateSound ==
    ASSUME NEW quotas \in Seq(Quota), NEW counts \in HitsOf(quotas),
           NEW requested \in Protocol, NEW result \in Protocol,
           Closed(quotas, counts, requested), Satisfies(result, requested)
    PROVE  ~ShouldEmit(quotas, counts, {result})
<1>1. SameFamily(result, requested)
  BY DEF Satisfies
<1>2. PICK n \in Slots(quotas) : SameFamily(quotas[n].protocol, requested)
  BY DEF Closed
<1>3. NamesFamily(quotas, {result})
  BY <1>1, <1>2 DEF NamesFamily, SameFamily
<1>4. ASSUME NEW i \in Slots(quotas), HasRoom(quotas, counts, i), Matches(quotas[i].protocol, result)
      PROVE  FALSE
  <2>1. SameFamily(quotas[i].protocol, requested)
    BY <1>1, <1>4 DEF Matches, SameFamily
  <2>2. QED
    BY <2>1, <1>4 DEF Closed
<1>5. Consumes(quotas, counts, {result}) = {}
  BY <1>4 DEF Consumes
<1>6. QED
  BY <1>3, <1>5 DEF ShouldEmit

(* No hit counter ever passes its cap: should_emit counts only toward       *)
(* quotas that still have room.                                             *)
THEOREM HitsStayCapped ==
    ASSUME NEW quotas \in Seq(Quota), NEW counts \in HitsOf(quotas), NEW carried \in SUBSET Protocol
    PROVE  HitsAfter(quotas, counts, carried) \in HitsOf(quotas)
<1> DEFINE after == HitsAfter(quotas, counts, carried)
<1>1. counts \in [Slots(quotas) -> Nat]
  BY DEF HitsOf
<1>2. \A i \in Slots(quotas) : quotas[i] \in Quota
  BY DEF Slots
<1>3. ASSUME NEW i \in Slots(quotas)
      PROVE  /\ after[i] \in Nat
             /\ quotas[i].capped => after[i] <= quotas[i].cap
  <2>1. counts[i] \in Nat /\ quotas[i].cap \in Nat /\ (quotas[i].capped => counts[i] <= quotas[i].cap)
    BY <1>1, <1>2, <1>3 DEF HitsOf, Quota
  <2>2. CASE quotas[i].capped /\ i \in Consumes(quotas, counts, carried)
    <3>1. counts[i] < quotas[i].cap
      BY <2>2 DEF Consumes, HasRoom
    <3>2. after[i] = counts[i] + 1
      BY <2>2, <1>3 DEF HitsAfter
    <3>3. QED
      BY <3>1, <3>2, <2>1
  <2>3. CASE ~(quotas[i].capped /\ i \in Consumes(quotas, counts, carried))
    <3>1. after[i] = counts[i]
      BY <2>3, <1>3 DEF HitsAfter
    <3>2. QED
      BY <3>1, <2>1
  <2>4. QED
    BY <2>2, <2>3
<1>4. after \in [Slots(quotas) -> Nat]
  BY <1>3 DEF HitsAfter
<1>5. QED
  BY <1>3, <1>4 DEF HitsOf

(* A requested type that the gate has closed stays closed whatever is       *)
(* written afterwards, so a skipped job never has to be reconsidered.       *)
THEOREM ClosedForGood ==
    ASSUME NEW quotas \in Seq(Quota), NEW counts \in HitsOf(quotas),
           NEW requested \in Protocol, NEW carried \in SUBSET Protocol,
           Closed(quotas, counts, requested)
    PROVE  Closed(quotas, HitsAfter(quotas, counts, carried), requested)
<1> DEFINE after == HitsAfter(quotas, counts, carried)
<1>1. ASSUME NEW i \in Slots(quotas), SameFamily(quotas[i].protocol, requested)
      PROVE  ~HasRoom(quotas, after, i)
  <2>1. ~HasRoom(quotas, counts, i)
    BY <1>1 DEF Closed
  <2>2. i \notin Consumes(quotas, counts, carried)
    BY <2>1 DEF Consumes
  <2>3. after[i] = counts[i]
    BY <2>2, <1>1 DEF HitsAfter
  <2>4. QED
    BY <2>1, <2>3 DEF HasRoom
<1>2. QED
  BY <1>1 DEF Closed

(* When the quotas are satisfied the pass may stop: no proxy of a requested *)
(* family would be written any more (is_satisfied against should_emit).     *)
THEOREM SatisfiedRefusesAll ==
    ASSUME NEW quotas \in Seq(Quota), NEW counts \in HitsOf(quotas), NEW hasGroups \in BOOLEAN,
           NEW carried \in SUBSET Protocol,
           Satisfied(quotas, counts, hasGroups), NamesFamily(quotas, carried)
    PROVE  ~ShouldEmit(quotas, counts, carried)
<1>1. \A i \in Slots(quotas) : ~HasRoom(quotas, counts, i)
  BY DEF Satisfied, HasUnfilled, HasUncapped
<1>2. Consumes(quotas, counts, carried) = {}
  BY <1>1 DEF Consumes
<1>3. QED
  BY <1>2 DEF ShouldEmit
-----------------------------------------------------------------------------
(***************************************************************************)
(* The run (module FindRun).                                               *)
(***************************************************************************)

(* Where run_find stands.                                                   *)
PhaseInv ==
    /\ outcome = "running" <=> phase # "ended"
    /\ phase = "starting1" => unread = Candidates /\ probed = {} /\ passed = 0 /\ items = 0 /\ recorded = {}
    /\ phase \notin Passes \cup {"ended"} => jobs = {} /\ flight = {} /\ results = <<>>
    /\ phase \notin {"starting1", "pass1", "ended"} => unread = {}
    /\ phase \in {"starting2", "pass2"} => MayFallback
    /\ IsFiniteSet(flight)

(* The rows of both passes against --limit.  Without quotas the fallback    *)
(* is given what the validated proxies left, which is no more.              *)
LimitInv ==
    /\ limit > 0 => items <= limit
    /\ phase \in {"starting1", "pass1", "deciding"} => rows = items
    /\ phase \in {"starting1", "pass1", "deciding"} => items + Len(results) <= passed
    /\ phase \in {"starting1", "pass1"} /\ limit > 0 => items < limit
    /\ phase \in {"starting2", "pass2"} =>
        /\ rows <= items
        /\ limit > 0 => cap2 > rows /\ (items - rows) + cap2 <= limit
        /\ limit > 0 /\ HasAnyQuota(qs) => (items - rows) + cap2 = limit
        /\ limit = 0 => cap2 = 0

(* The document against the rows of both passes.                            *)
Begun == IF items = 0 THEN "empty" ELSE "open"

DocInv ==
    /\ doc # "broken"
    /\ phase \in {"starting1", "pass1", "starting2", "pass2"} => doc = Begun
    /\ phase = "deciding" => doc = IF MayFallback THEN Begun ELSE "closed"
    /\ outcome = "finished" => doc = "closed"

(* A single job asks a candidate, once, for one requested type: for one it  *)
(* advertises in the first pass, for one it does not in the second.         *)
Offers(c, r) == r \in AdvertisedJobs(qs, Advertised[c])
Lacks(c, r) == r \in MissedJobs(qs, Advertised[c])

Due(c, r) == IF phase = "pass1" THEN Offers(c, r) /\ c \notin unread ELSE Lacks(c, r)

JobsInv ==
    /\ phase \in Passes => \A j \in jobs : ~j.group =>
        \E c \in Candidates, r \in Requested(qs) :
            j = Single(c, r) /\ Due(c, r) /\ <<c, r>> \notin probed
    /\ phase \notin {"pass2", "ended"} =>
        \A c \in Candidates, r \in Requested(qs) :
            <<c, r>> \in probed => Offers(c, r) /\ c \notin unread

(* What has been asked for, or need not be.                                 *)
Asked(c, r) == <<c, r>> \in probed \/ Closed(qs, hits, r)

Short ==
    /\ HasAnyQuota(qs) /\ ~Satisfied(qs, hits, HasGroups)
    /\ limit = 0 \/ items < limit

AskedInv ==
    /\ hits \in HitsOf(qs)
    /\ phase = "pass1" =>
        \A c \in Candidates \ unread, r \in Requested(qs) :
            /\ Lacks(c, r) => c \in recorded
            /\ Offers(c, r) => Asked(c, r) \/ Single(c, r) \in jobs
    /\ phase \in {"deciding", "starting2"} /\ Short =>
        \A c \in Candidates, r \in Requested(qs) : Lacks(c, r) => c \in recorded
    /\ phase \in {"deciding", "starting2", "pass2"} /\ Short =>
        \A c \in Candidates, r \in Requested(qs) : Offers(c, r) => Asked(c, r)
    /\ phase = "pass2" /\ Short =>
        \A c \in Candidates, r \in Requested(qs) :
            Lacks(c, r) => Asked(c, r) \/ Single(c, r) \in jobs
    /\ NothingLeftUnasked

IInv == TypeOK /\ PhaseInv /\ LimitInv /\ DocInv /\ JobsInv /\ AskedInv
-----------------------------------------------------------------------------
(* Types.                                                                   *)

\* The quotas of a request are a sequence of quotas over known types.
LEMMA RequestFacts ==
    ASSUME request \in Requests
    PROVE  qs \in Seq(Quota) /\ Requested(qs) \subseteq Protocol
<1>1. qs \in Seq(Quota)
  BY FindAssumption DEF qs
<1>2. \A i \in Slots(qs) : qs[i] \in Quota
  BY <1>1, ElementOfSeq, LenProperties DEF Slots
<1>3. \A i \in Slots(qs) : qs[i].protocol \in Protocol
  BY <1>2 DEF Quota
<1> QED
  BY <1>1, <1>3 DEF Requested

\* A single job for a candidate and a type is a job.
LEMMA SingleJob ==
    ASSUME NEW c \in Candidates, NEW r \in Protocol
    PROVE  Single(c, r) \in Jobs
BY DEF Single, Jobs

\* The invariant holds before the first pass starts.
LEMMA InitIInv == Init => IInv
<1> SUFFICES ASSUME Init PROVE IInv
  OBVIOUS
<1>1. /\ request \in Requests /\ limit \in 0..MaxLimit /\ wanted \subseteq Candidates
      /\ phase = "starting1" /\ outcome = "running"
      /\ unread = Candidates /\ jobs = {} /\ flight = {} /\ results = <<>> /\ paused = FALSE
      /\ recorded = {} /\ passed = 0
      /\ hits = NoHits(qs) /\ items = 0 /\ rows = 0 /\ doc = "empty"
      /\ cap2 = 0 /\ presses = 0 /\ signals = 0
      /\ permit = FALSE /\ queue = <<>> /\ notified = FALSE /\ spawned = TRUE
      /\ probed = {}
  BY DEF Init
<1>2. MaxLimit \in Nat /\ MaxSignals \in Nat /\ Workers \in Nat /\ ResultCap \in Nat /\ limit \in Nat
  BY <1>1, FindAssumption
<1>3. /\ <<>> \in Seq(Row) /\ Len(<<>>) = 0 /\ Cardinality({}) = 0
  BY FS_EmptySet
<1>4. hits \in HitsOf(qs)
  <2>1. \A i \in Slots(qs) : qs[i] \in Quota
    BY <1>1, RequestFacts, ElementOfSeq, LenProperties DEF Slots
  <2>2. \A i \in Slots(qs) : qs[i].cap \in Nat
    BY <2>1 DEF Quota
  <2> QED
    BY <1>1, <2>2 DEF NoHits, HitsOf
<1>5. TypeOK
  <2>1. hits \in [Slots(qs) -> Nat]
    BY <1>4 DEF HitsOf
  <2>2. phase \in Phases /\ outcome \in Outcomes /\ <<>> \in Seq({"main", "watcher"})
    BY <1>1 DEF Phases, Outcomes
  <2>3. cap2 \in 0..MaxLimit /\ presses \in 0..2 /\ signals \in 0..MaxSignals
    BY <1>1, <1>2
  <2>4. flight \subseteq Jobs /\ Cardinality(flight) <= Workers
    BY <1>1, <1>2, <1>3
  <2>5. results \in Seq(Row) /\ Len(results) <= ResultCap
    BY <1>1, <1>2, <1>3
  <2>6. /\ unread \subseteq Candidates /\ recorded \subseteq Candidates /\ jobs \subseteq Jobs
        /\ passed \in Nat /\ items \in Nat /\ rows \in Nat
    BY <1>1
  <2> QED
    BY <1>1, <2>1, <2>2, <2>3, <2>4, <2>5, <2>6 DEF TypeOK
<1>6. PhaseInv
  BY <1>1, FS_EmptySet DEF PhaseInv, Passes
<1>7. LimitInv
  BY <1>1, <1>2, <1>3 DEF LimitInv
<1>8. DocInv
  BY <1>1 DEF DocInv, Begun
<1>9. JobsInv
  BY <1>1 DEF JobsInv, Passes
<1>10. AskedInv
  BY <1>1, <1>4 DEF AskedInv, NothingLeftUnasked
<1> QED
  BY <1>5, <1>6, <1>7, <1>8, <1>9, <1>10 DEF IInv

(* The Notify: its steps, and the end of a turn, move its waiters.          *)
NotifyType ==
    /\ permit \in BOOLEAN /\ notified \in BOOLEAN /\ spawned \in BOOLEAN
    /\ queue \in Seq({"main", "watcher"})

\* The Notify keeps its type under every step that waits on it or wakes a waiter.
LEMMA NotifySteps ==
    ASSUME NotifyType,
           \/ TurnEnds \/ UNCHANGED notify \/ (Wake /\ UNCHANGED spawned)
           \/ MainWaits \/ WatcherWaits \/ PauseSignal
    PROVE  NotifyType'
<1> USE DEF NotifyType
<1> DEFINE W == {"main", "watcher"}
<1>1. /\ <<>> \in Seq(W)
      /\ \A w \in W : Only(w) \in Seq(W)
      /\ \A w \in W : Append(queue, w) \in Seq(W) /\ Append(Only("main"), w) \in Seq(W)
      /\ queue # <<>> => Tail(queue) \in Seq(W)
  <2>1. ASSUME NEW w \in W
        PROVE  Only(w) \in Seq(W)
    <3>1. <<w>> \in Seq(W) /\ <<>> \in Seq(W)
      OBVIOUS
    <3> QED
      BY <3>1 DEF Only
  <2> QED
    BY <2>1, AppendProperties, HeadTailProperties
<1>2. CASE TurnEnds
  BY <1>1, <1>2 DEF TurnEnds
<1>3. CASE UNCHANGED notify
  BY <1>3 DEF notify
<1>4. CASE Wake /\ UNCHANGED spawned
  BY <1>1, <1>4 DEF Wake
<1>5. CASE MainWaits
  BY <1>1, <1>5 DEF MainWaits
<1>6. CASE WatcherWaits
  BY <1>1, <1>6 DEF WatcherWaits
<1>7. CASE PauseSignal
  BY <1>1, <1>7 DEF PauseSignal
<1> QED
  BY <1>2, <1>3, <1>4, <1>5, <1>6, <1>7

FlowType ==
    /\ unread \subseteq Candidates /\ recorded \subseteq Candidates
    /\ jobs \subseteq Jobs /\ flight \subseteq Jobs
    /\ IsFiniteSet(flight) /\ Cardinality(flight) <= Workers
    /\ results \in Seq(Row) /\ Len(results) <= ResultCap

CountType ==
    /\ passed \in Nat /\ items \in Nat /\ rows \in Nat /\ cap2 \in 0..MaxLimit
    /\ hits \in HitsOf(qs)
    /\ doc \in {"empty", "open", "closed", "broken"}

FixedType ==
    /\ request \in Requests /\ limit \in 0..MaxLimit /\ wanted \subseteq Candidates
    /\ presses \in 0..2 /\ signals \in 0..MaxSignals /\ paused \in BOOLEAN

\* The type invariant is put together from its parts.
LEMMA TypeParts ==
    ASSUME FixedType', NotifyType', FlowType', CountType', phase' \in Phases, outcome' \in Outcomes
    PROVE  TypeOK'
BY DEF TypeOK, FixedType, NotifyType, FlowType, CountType, HitsOf

\* The invariant gives each part of the type invariant.
LEMMA PartTypes ==
    ASSUME IInv
    PROVE  FixedType /\ NotifyType /\ FlowType /\ CountType /\ phase \in Phases /\ outcome \in Outcomes
BY DEF IInv, TypeOK, PhaseInv, AskedInv, FixedType, NotifyType, FlowType, CountType

\* A dropped stream has nothing in flight and nothing buffered.
LEMMA EmptyFlow ==
    ASSUME FlowType, StreamDropped, UNCHANGED recorded
    PROVE  FlowType'
<1>1. /\ IsFiniteSet({}) /\ Cardinality({}) = 0
      /\ <<>> \in Seq(Row) /\ Len(<<>>) = 0
      /\ Workers \in Nat /\ ResultCap \in Nat
  BY FS_EmptySet, FindAssumption
<1> QED
  BY <1>1 DEF StreamDropped, FlowType

\* Taking a result leaves a shorter channel.
LEMMA ShorterResults ==
    ASSUME FlowType, results # <<>>
    PROVE  /\ Tail(results) \in Seq(Row) /\ Len(Tail(results)) = Len(results) - 1
           /\ Len(results) \in Nat /\ Len(Tail(results)) \in Nat
           /\ Len(Tail(results)) <= ResultCap
           /\ Head(results) \in Row
<1>1. results \in Seq(Row) /\ Len(results) \in Nat /\ ResultCap \in Nat /\ Len(results) <= ResultCap
  BY LenProperties, FindAssumption DEF FlowType
<1>2. Tail(results) \in Seq(Row) /\ Len(Tail(results)) = Len(results) - 1 /\ Head(results) \in Row
  BY <1>1, HeadTailProperties
<1>3. Len(Tail(results)) \in Nat
  BY <1>2, LenProperties
<1> QED
  BY <1>1, <1>2, <1>3

\* Reading a candidate keeps workers and channel within their bounds.
LEMMA ReadFlow ==
    ASSUME FixedType, FlowType, NEW c \in unread, Read(c)
    PROVE  FlowType'
<1>1. c \in Candidates /\ unread' = unread \ {c} /\ UNCHANGED <<flight, results>>
  BY DEF Read, FlowType
<1>2. recorded' \subseteq Candidates
  BY <1>1 DEF Read, FlowType
<1>3. \A r \in AdvertisedJobs(qs, Advertised[c]) : Single(c, r) \in Jobs
  BY <1>1, RequestFacts, SingleJob DEF FixedType, AdvertisedJobs
<1>4. \A g \in request.groups : [cand |-> c, types |-> g, group |-> TRUE] \in Jobs
  <2>1. request.groups \subseteq SUBSET Protocol
    BY FindAssumption DEF FixedType
  <2> QED
    BY <1>1, <2>1 DEF Jobs
<1>5. jobs' \subseteq Jobs
  BY <1>3, <1>4 DEF Read, FlowType
<1> QED
  BY <1>1, <1>2, <1>5 DEF FlowType

\* A step of a job keeps workers and channel within their bounds.
LEMMA JobFlow ==
    ASSUME FlowType, NEW j, \/ j \in jobs /\ (GateSkips(j) \/ ProbeStarts(j))
                            \/ j \in flight /\ (ProbeFails(j) \/ ProbePasses(j))
    PROVE  FlowType'
<1> USE DEF FlowType
<1>1. j \in Jobs
  OBVIOUS
<1>2. CASE GateSkips(j)
  BY <1>2 DEF GateSkips
<1>3. CASE ProbeStarts(j)
  <2>1. flight' = flight \cup {j} /\ jobs' = jobs \ {j} /\ UNCHANGED <<unread, recorded, results>>
    BY <1>3 DEF ProbeStarts
  <2>2. IsFiniteSet(flight') /\ Cardinality(flight') <= Workers
    <3>1. Cardinality(flight) \in Nat /\ Cardinality(flight) < Workers /\ Workers \in Nat
      BY <1>3, FS_CardinalityType, FindAssumption DEF ProbeStarts
    <3>2. /\ IsFiniteSet(flight \cup {j})
          /\ Cardinality(flight \cup {j}) \in {Cardinality(flight), Cardinality(flight) + 1}
      BY FS_AddElement
    <3> QED
      BY <2>1, <3>1, <3>2
  <2> QED
    BY <1>1, <2>1, <2>2
<1>4. ASSUME flight' = flight \ {j}
      PROVE  IsFiniteSet(flight') /\ Cardinality(flight') <= Workers
  <2>1. /\ IsFiniteSet(flight') /\ Cardinality(flight') <= Cardinality(flight)
        /\ Cardinality(flight) \in Nat /\ Cardinality(flight') \in Nat
    <3>1. flight' \in SUBSET flight
      BY <1>4
    <3> QED
      BY <3>1, FS_Subset, FS_CardinalityType
  <2> QED
    BY <2>1, FindAssumption
<1>5. CASE ProbeFails(j)
  BY <1>4, <1>5 DEF ProbeFails
<1>6. CASE ProbePasses(j)
  <2>1. PICK carried \in Reports(j.types) :
            results' = Append(results, [cand |-> j.cand, carried |-> carried])
    BY <1>6 DEF ProbePasses
  <2>2. [cand |-> j.cand, carried |-> carried] \in Row
    BY <1>1, FindAssumption DEF Reports, Jobs, Row
  <2>3. Len(results) \in Nat /\ Len(results) < ResultCap /\ ResultCap \in Nat
    BY <1>6, LenProperties, FindAssumption DEF ProbePasses
  <2>4. results' \in Seq(Row) /\ Len(results') <= ResultCap
    BY <2>1, <2>2, <2>3, AppendProperties
  <2> QED
    BY <1>4, <1>6, <2>4 DEF ProbePasses
<1> QED
  BY <1>2, <1>3, <1>5, <1>6
-----------------------------------------------------------------------------
(* Steps that only move the Notify, the gate or the counters of signals,    *)
(* and steps that end the run without its being finished.                   *)

\* What the arguments determine stays while they do.
LEMMA SameRequest ==
    ASSUME UNCHANGED args
    PROVE  /\ qs' = qs /\ HasGroups' = HasGroups /\ MayFallback' = MayFallback
           /\ limit' = limit /\ wanted' = wanted
           /\ \A c, r : (Offers(c, r)' <=> Offers(c, r)) /\ (Lacks(c, r)' <=> Lacks(c, r))
BY DEF args, qs, HasGroups, MayFallback, Offers, Lacks

\* A step that moves neither candidates nor rows keeps the invariant.
LEMMA QuietStep ==
    ASSUME IInv, TypeOK',
           UNCHANGED <<args, phase, outcome, unread, jobs, flight, results, recorded, passed,
                       output, cap2, probed>>
    PROVE  IInv'
<1>1. qs' = qs /\ HasGroups' = HasGroups /\ MayFallback' = MayFallback /\ limit' = limit
  BY SameRequest
<1>2. UNCHANGED <<hits, items, rows, doc, emitted>>
  BY DEF output
<1>3. \A c, r : /\ Offers(c, r)' <=> Offers(c, r)
                /\ Lacks(c, r)' <=> Lacks(c, r)
                /\ Due(c, r)' <=> Due(c, r)
                /\ Asked(c, r)' <=> Asked(c, r)
  BY <1>1, <1>2, SameRequest DEF Due, Asked
<1>4. PhaseInv' /\ LimitInv' /\ DocInv'
  BY <1>1, <1>2 DEF IInv, PhaseInv, LimitInv, DocInv, Begun
<1>5. JobsInv'
  BY <1>1, <1>3 DEF IInv, JobsInv
<1>6. Short' <=> Short
  BY <1>1, <1>2 DEF Short
<1>7. NothingLeftUnasked'
  BY <1>1, <1>2 DEF IInv, AskedInv, NothingLeftUnasked
<1>8. AskedInv'
  BY <1>1, <1>2, <1>3, <1>6, <1>7 DEF IInv, AskedInv
<1> QED
  BY <1>4, <1>5, <1>8 DEF IInv

\* An end that is not a success keeps the invariant: nothing is promised of it.
LEMMA AbortStep ==
    ASSUME IInv, TypeOK', UNCHANGED args,
           phase' = "ended", outcome' \in {"cancelled", "failed", "killed"},
           items' = items, doc' # "broken", hits' \in HitsOf(qs), IsFiniteSet(flight')
    PROVE  IInv'
<1>1. qs' = qs /\ limit' = limit
  BY SameRequest
<1>2. PhaseInv' /\ DocInv'
  BY DEF PhaseInv, DocInv, Passes
<1>3. LimitInv'
  BY <1>1 DEF IInv, LimitInv
<1>4. JobsInv'
  BY DEF JobsInv, Passes
<1>5. AskedInv'
  BY <1>1 DEF AskedInv, NothingLeftUnasked
<1> QED
  BY <1>2, <1>3, <1>4, <1>5 DEF IInv

\* Ctrl+C, SIGUSR1 and the waits on the Notify keep the invariant.
LEMMA SignalSteps ==
    ASSUME IInv, MainWaits \/ WatcherWaits \/ CtrlC \/ PauseSignal
    PROVE  IInv'
<1>1. FixedType /\ NotifyType /\ FlowType /\ CountType /\ phase \in Phases /\ outcome \in Outcomes
  BY PartTypes
<1>2. UNCHANGED <<args, unread, jobs, flight, results, recorded, passed, output, cap2, probed>>
  BY DEF MainWaits, WatcherWaits, CtrlC, PauseSignal, stream
<1>3. FixedType'
  <2>1. presses' \in 0..2
    BY <1>1 DEF MainWaits, WatcherWaits, CtrlC, PauseSignal, FixedType
  <2>2. signals' \in 0..MaxSignals
    BY <1>1, FindAssumption DEF MainWaits, WatcherWaits, CtrlC, PauseSignal, FixedType
  <2>3. paused' \in BOOLEAN
    BY <1>1 DEF MainWaits, WatcherWaits, CtrlC, PauseSignal, stream, FixedType
  <2> QED
    BY <1>1, <1>2, <2>1, <2>2, <2>3 DEF FixedType, args
<1>4. FlowType' /\ CountType'
  BY <1>1, <1>2, SameRequest DEF FlowType, CountType, output
<1>5. CASE UNCHANGED <<phase, outcome>> /\ NotifyType'
  <2>1. TypeOK'
    BY <1>1, <1>3, <1>4, <1>5, TypeParts
  <2> QED
    BY <1>2, <1>5, <2>1, QuietStep
<1>6. CASE CtrlC /\ presses # 0
  <2>1. phase' = "ended" /\ outcome' = "killed" /\ UNCHANGED notify
    BY <1>6 DEF CtrlC
  <2>2. NotifyType'
    BY <1>1, <2>1, NotifySteps
  <2>3. TypeOK'
    BY <1>3, <1>4, <2>1, <2>2, TypeParts DEF Phases, Outcomes
  <2>4. items' = items /\ doc' = doc /\ hits' = hits /\ flight' = flight
    BY <1>2 DEF output
  <2>5. doc # "broken" /\ hits \in HitsOf(qs) /\ IsFiniteSet(flight)
    BY DEF IInv, DocInv, AskedInv, PhaseInv
  <2> QED
    BY <1>2, <2>1, <2>3, <2>4, <2>5, AbortStep
<1>7. CASE CtrlC /\ presses = 0
  <2>1. Wake /\ UNCHANGED <<phase, outcome, spawned>>
    BY <1>7 DEF CtrlC
  <2> QED
    BY <1>1, <1>5, <2>1, NotifySteps
<1>8. CASE MainWaits \/ WatcherWaits \/ PauseSignal
  <2>1. UNCHANGED <<phase, outcome>>
    BY <1>8 DEF MainWaits, WatcherWaits, PauseSignal
  <2> QED
    BY <1>1, <1>5, <1>8, <2>1, NotifySteps
<1> QED
  BY <1>6, <1>7, <1>8
-----------------------------------------------------------------------------
(* The validation run behind a pass.                                        *)

\* The type invariant of a step that leaves arguments and counters of signals alone.
LEMMA StillTyped ==
    ASSUME IInv, FlowType', NotifyType' \/ UNCHANGED notify,
           UNCHANGED <<args, presses, signals, cap2>>, paused' \in BOOLEAN,
           passed' \in Nat, items' \in Nat, rows' \in Nat, hits' \in HitsOf(qs),
           doc' \in {"empty", "open", "closed", "broken"},
           phase' \in Phases, outcome' \in Outcomes
    PROVE  TypeOK'
<1>1. FixedType /\ NotifyType /\ CountType
  BY PartTypes
<1>2. NotifyType'
  BY <1>1, NotifySteps
<1>3. FixedType' /\ CountType'
  BY <1>1, SameRequest DEF FixedType, CountType, args
<1> QED
  BY <1>2, <1>3, TypeParts

\* Reading a candidate in the first pass keeps the invariant.
LEMMA ReadStep ==
    ASSUME IInv, NEW c \in unread, Read(c)
    PROVE  IInv'
<1>1. /\ phase = "pass1" /\ unread' = unread \ {c} /\ c \in Candidates
      /\ UNCHANGED <<args, phase, outcome, flight, results, paused, passed, output, cap2,
                     presses, signals, notify, probed>>
  BY DEF Read, IInv, TypeOK
<1>2. UNCHANGED <<hits, items, rows, doc, emitted>>
  BY <1>1 DEF output
<1>3. qs' = qs /\ HasGroups' = HasGroups /\ MayFallback' = MayFallback /\ limit' = limit
  BY <1>1, SameRequest
<1>4. FixedType /\ FlowType /\ CountType /\ phase \in Phases /\ outcome \in Outcomes
  BY PartTypes
<1>5. TypeOK'
  <2>1. FlowType'
    BY <1>4, ReadFlow
  <2> QED
    BY <1>1, <1>2, <1>4, <2>1, StillTyped DEF CountType, FixedType
<1>6. PhaseInv' /\ LimitInv' /\ DocInv'
  BY <1>1, <1>2, <1>3 DEF IInv, PhaseInv, LimitInv, DocInv, Begun, Passes
<1>7. \A d, r : (Offers(d, r)' <=> Offers(d, r)) /\ (Lacks(d, r)' <=> Lacks(d, r))
                /\ (Asked(d, r)' <=> Asked(d, r))
  BY <1>1, <1>2, <1>3, SameRequest DEF Asked
<1>8. /\ jobs \subseteq jobs' /\ recorded \subseteq recorded'
      /\ \A r \in Requested(qs) : Offers(c, r) => Single(c, r) \in jobs'
      /\ \A r \in Requested(qs) : Lacks(c, r) => c \in recorded'
      /\ \A j \in jobs' : j \in jobs \/ j.group \/ \E r \in Requested(qs) : Offers(c, r) /\ j = Single(c, r)
  <2>1. jobs' = jobs \cup {Single(c, r) : r \in AdvertisedJobs(qs, Advertised[c])}
                     \cup {[cand |-> c, types |-> g, group |-> TRUE] : g \in request.groups}
    BY DEF Read
  <2>2. AdvertisedJobs(qs, Advertised[c]) \subseteq Requested(qs)
    BY DEF AdvertisedJobs
  <2>3. \A g : [cand |-> c, types |-> g, group |-> TRUE].group
    OBVIOUS
  <2>4. \A r \in Requested(qs) : Lacks(c, r) => NeedsMissedProbe(qs, Advertised[c])
    BY DEF Lacks, MissedJobs, NeedsMissedProbe
  <2> QED
    BY <2>1, <2>2, <2>3, <2>4 DEF Read, Offers
<1>9. \A r \in Requested(qs) : <<c, r>> \notin probed
  BY <1>1 DEF IInv, JobsInv
<1>10. JobsInv'
  <2>1. ASSUME NEW j \in jobs', ~j.group
        PROVE  \E d \in Candidates, r \in Requested(qs) :
                    j = Single(d, r) /\ Offers(d, r) /\ d \notin unread' /\ <<d, r>> \notin probed
    <3>1. CASE j \in jobs
      <4>1. PICK d \in Candidates, r \in Requested(qs) :
                j = Single(d, r) /\ Due(d, r) /\ <<d, r>> \notin probed
        BY <1>1, <2>1, <3>1 DEF IInv, JobsInv, Passes
      <4> QED
        BY <1>1, <4>1 DEF Due
    <3>2. CASE j \notin jobs
      BY <1>1, <1>8, <1>9, <2>1, <3>2
    <3> QED
      BY <3>1, <3>2
  <2> QED
    BY <1>1, <1>3, <1>7, <2>1 DEF IInv, JobsInv, Due, Passes
<1>11. AskedInv'
  <2>1. \A d \in Candidates \ unread', r \in Requested(qs) :
            /\ Lacks(d, r) => d \in recorded'
            /\ Offers(d, r) => Asked(d, r) \/ Single(d, r) \in jobs'
    BY <1>1, <1>8 DEF IInv, AskedInv
  <2>2. NothingLeftUnasked'
    BY <1>1 DEF IInv, PhaseInv, NothingLeftUnasked
  <2> QED
    BY <1>1, <1>2, <1>3, <1>7, <2>1, <2>2 DEF IInv, AskedInv
<1> QED
  BY <1>5, <1>6, <1>10, <1>11 DEF IInv

(* A job leaves the list when its probe starts or when it is not wanted any *)
(* more; results come and go.                                               *)
LEMMA DrainStep ==
    ASSUME IInv, TypeOK', phase \in Passes,
           UNCHANGED <<args, phase, outcome, unread, recorded, output, cap2>>,
           jobs' \subseteq jobs, IsFiniteSet(flight'),
           phase = "pass1" => items + Len(results') <= passed',
           \A c \in Candidates, r \in Requested(qs) :
                /\ <<c, r>> \in probed => <<c, r>> \in probed'
                /\ Single(c, r) \in jobs \ jobs' => <<c, r>> \in probed' \/ Closed(qs, hits, r)
                /\ Single(c, r) \in jobs' /\ <<c, r>> \in probed' => <<c, r>> \in probed
                /\ <<c, r>> \in probed' => <<c, r>> \in probed \/ Single(c, r) \in jobs
    PROVE  IInv'
<1>1. /\ qs' = qs /\ HasGroups' = HasGroups /\ MayFallback' = MayFallback /\ limit' = limit
      /\ UNCHANGED <<hits, items, rows, doc, emitted>>
  BY SameRequest DEF output
<1>2. \A c, r : (Offers(c, r)' <=> Offers(c, r)) /\ (Lacks(c, r)' <=> Lacks(c, r))
                /\ (Due(c, r)' <=> Due(c, r))
  BY <1>1, SameRequest DEF Due
<1>3. PhaseInv' /\ DocInv'
  BY <1>1 DEF IInv, PhaseInv, DocInv, Begun, Passes
<1>4. LimitInv'
  BY <1>1 DEF IInv, LimitInv, Passes
<1>5. \A j \in jobs : ~j.group =>
        \E c \in Candidates, r \in Requested(qs) :
            j = Single(c, r) /\ Due(c, r) /\ <<c, r>> \notin probed
  BY DEF IInv, JobsInv
<1>6. JobsInv'
  <2>1. ASSUME NEW j \in jobs', ~j.group
        PROVE  \E c \in Candidates, r \in Requested(qs) :
                    j = Single(c, r) /\ Due(c, r) /\ <<c, r>> \notin probed'
    BY <1>5, <2>1
  <2>2. ASSUME phase = "pass1", NEW c \in Candidates, NEW r \in Requested(qs), <<c, r>> \in probed'
        PROVE  Offers(c, r) /\ c \notin unread
    <3>1. CASE <<c, r>> \in probed
      BY <2>2, <3>1 DEF IInv, JobsInv
    <3>2. CASE Single(c, r) \in jobs
      <4>1. ~Single(c, r).group
        BY DEF Single
      <4>2. PICK d \in Candidates, q \in Requested(qs) : Single(c, r) = Single(d, q) /\ Due(d, q)
        BY <1>5, <3>2, <4>1
      <4>3. c = d /\ r = q
        <5>1. Single(c, r).cand = c /\ Single(d, q).cand = d
          BY DEF Single
        <5>2. Single(c, r).types = {r} /\ Single(d, q).types = {q}
          BY DEF Single
        <5> QED
          BY <4>2, <5>1, <5>2
      <4> QED
        BY <2>2, <4>2, <4>3 DEF Due
    <3> QED
      BY <2>2, <3>1, <3>2
  <2> QED
    BY <1>1, <1>2, <2>1, <2>2 DEF JobsInv, Passes
<1>7. AskedInv'
  <2>1. \A c \in Candidates, r \in Requested(qs) :
            Asked(c, r) \/ Single(c, r) \in jobs => Asked(c, r)' \/ Single(c, r) \in jobs'
    BY <1>1 DEF Asked
  <2>2. \A c \in Candidates, r \in Requested(qs) : Asked(c, r) => Asked(c, r)'
    BY <1>1 DEF Asked
  <2>3. Short' <=> Short
    BY <1>1 DEF Short
  <2>4. NothingLeftUnasked'
    BY DEF IInv, PhaseInv, NothingLeftUnasked, Passes
  <2> QED
    BY <1>1, <1>2, <2>1, <2>2, <2>3, <2>4 DEF IInv, AskedInv, Passes
<1> QED
  BY <1>3, <1>4, <1>6, <1>7 DEF IInv

\* The gate, a probe that starts, fails or passes keep the invariant.
LEMMA JobSteps ==
    ASSUME IInv, NEW j, \/ j \in jobs /\ (GateSkips(j) \/ ProbeStarts(j))
                        \/ j \in flight /\ (ProbeFails(j) \/ ProbePasses(j))
    PROVE  IInv'
<1>1. /\ FixedType /\ FlowType /\ CountType /\ phase \in Phases /\ outcome \in Outcomes
      /\ phase \in Passes
      /\ UNCHANGED <<args, phase, outcome, unread, paused, recorded, output, cap2, presses,
                     signals, notify>>
  BY PartTypes DEF GateSkips, ProbeStarts, ProbeFails, ProbePasses
<1>2. FlowType'
  BY <1>1, JobFlow
<1>3. passed' \in Nat /\ (phase = "pass1" => items + Len(results') <= passed')
  <2>1. passed \in Nat /\ items \in Nat /\ results \in Seq(Row) /\ Len(results) \in Nat
    BY <1>1, LenProperties DEF CountType, FlowType
  <2>2. phase = "pass1" => items + Len(results) <= passed
    BY DEF IInv, LimitInv
  <2>3. CASE UNCHANGED <<passed, results>>
    BY <2>1, <2>2, <2>3
  <2>4. CASE ProbePasses(j)
    <3>1. PICK carried \in Reports(j.types) :
              results' = Append(results, [cand |-> j.cand, carried |-> carried])
      BY <2>4 DEF ProbePasses
    <3>2. j \in Jobs
      BY <1>1, <2>4 DEF ProbePasses, FlowType
    <3>3. [cand |-> j.cand, carried |-> carried] \in Row
      BY <3>2, FindAssumption DEF Reports, Jobs, Row
    <3>4. Len(results') = Len(results) + 1
      BY <2>1, <3>1, <3>3, AppendProperties
    <3> QED
      BY <2>1, <2>2, <2>4, <3>4 DEF ProbePasses
  <2> QED
    BY <2>3, <2>4 DEF GateSkips, ProbeStarts, ProbeFails
<1>4. TypeOK'
  BY <1>1, <1>2, <1>3, StillTyped DEF CountType, FixedType, output
<1>5. /\ jobs' \subseteq jobs /\ IsFiniteSet(flight')
  BY <1>2 DEF GateSkips, ProbeStarts, ProbeFails, ProbePasses, FlowType
<1>6. ASSUME NEW c \in Candidates, NEW r \in Requested(qs)
      PROVE  /\ <<c, r>> \in probed => <<c, r>> \in probed'
             /\ Single(c, r) \in jobs \ jobs' => <<c, r>> \in probed' \/ Closed(qs, hits, r)
             /\ Single(c, r) \in jobs' /\ <<c, r>> \in probed' => <<c, r>> \in probed
             /\ <<c, r>> \in probed' => <<c, r>> \in probed \/ Single(c, r) \in jobs
  <2> DEFINE s == Single(c, r)
  <2>1. s.cand = c /\ s.types = {r} /\ ~s.group
    BY DEF Single
  <2>2. CASE GateSkips(j)
    <3>1. jobs' = jobs \ {j} /\ probed' = probed /\ Gated(j)
      BY <2>2 DEF GateSkips
    <3>2. s = j => Closed(qs, hits, r)
      BY <2>1, <3>1 DEF Gated
    <3> QED
      BY <3>1, <3>2
  <2>3. CASE ProbeStarts(j)
    <3>1. /\ j \in jobs /\ jobs' = jobs \ {j}
          /\ probed' = IF j.group THEN probed ELSE probed \cup {<<j.cand, q>> : q \in j.types}
      BY <2>3 DEF ProbeStarts
    <3>2. CASE j.group
      BY <2>1, <3>1, <3>2
    <3>3. CASE ~j.group
      <4>1. PICK d \in Candidates, q \in Requested(qs) : j = Single(d, q)
        BY <1>1, <3>1, <3>3 DEF IInv, JobsInv
      <4>2. j.cand = d /\ j.types = {q}
        BY <4>1 DEF Single
      <4>3. probed' = probed \cup {<<d, q>>}
        BY <3>1, <3>3, <4>2
      <4>4. <<c, r>> = <<d, q>> => s = j
        BY <4>1
      <4>5. s = j => <<c, r>> = <<d, q>>
        BY <2>1, <4>2
      <4> HIDE DEF s
      <4>6. /\ <<c, r>> \in probed' => <<c, r>> \in probed \/ s = j
            /\ s = j => <<c, r>> \in probed'
        BY <4>3, <4>4, <4>5
      <4> QED
        BY <3>1, <4>3, <4>6 DEF s
    <3> QED
      BY <3>2, <3>3
  <2>4. CASE ProbeFails(j) \/ ProbePasses(j)
    BY <2>4 DEF ProbeFails, ProbePasses
  <2> QED
    BY <2>2, <2>3, <2>4
<1> QED
  BY <1>1, <1>3, <1>4, <1>5, <1>6, DrainStep

\* A result dropped by the filters keeps the invariant.
LEMMA FilterStep ==
    ASSUME IInv, NEW r, FilterDrops(r)
    PROVE  IInv'
<1>1. /\ FixedType /\ FlowType /\ CountType /\ phase \in Phases /\ outcome \in Outcomes
      /\ phase \in Passes /\ results # <<>> /\ results' = Tail(results)
      /\ UNCHANGED <<args, phase, outcome, unread, jobs, flight, paused, recorded, passed, output,
                     cap2, presses, signals, notify, probed>>
  BY PartTypes DEF FilterDrops, TakesNext
<1>2. FlowType' /\ Len(results') = Len(results) - 1 /\ Len(results) \in Nat
  BY <1>1, ShorterResults DEF FlowType
<1>3. phase = "pass1" => items + Len(results') <= passed'
  BY <1>1, <1>2 DEF IInv, LimitInv, CountType
<1>4. TypeOK'
  BY <1>1, <1>2, StillTyped DEF CountType, FixedType, output
<1>5. IsFiniteSet(flight')
  BY <1>2 DEF FlowType
<1> QED
  BY <1>1, <1>3, <1>4, <1>5, DrainStep
-----------------------------------------------------------------------------
(* The turns of process_result.                                             *)

\* A row opens the document or continues it, and the end of a run closes it.
LEMMA BegunOpens ==
    ASSUME NEW n \in Nat
    PROVE  /\ WithRow(IF n = 0 THEN "empty" ELSE "open", n) = "open"
           /\ WithEnd(IF n = 0 THEN "empty" ELSE "open", n) = "closed"
BY DEF WithRow, WithEnd

(* A row charges the quotas: nothing that was closed opens again, and what  *)
(* was satisfied stays so.                                                  *)
LEMMA Charged ==
    ASSUME IInv, NEW carried \in SUBSET Protocol
    PROVE  /\ HitsAfter(qs, hits, carried) \in HitsOf(qs)
           /\ \A r \in Requested(qs) :
                Closed(qs, hits, r) => Closed(qs, HitsAfter(qs, hits, carried), r)
           /\ Satisfied(qs, hits, HasGroups) =>
                Satisfied(qs, HitsAfter(qs, hits, carried), HasGroups)
<1>1. qs \in Seq(Quota) /\ Requested(qs) \subseteq Protocol /\ hits \in HitsOf(qs)
  BY RequestFacts DEF IInv, TypeOK, AskedInv
<1>2. ASSUME Satisfied(qs, hits, HasGroups)
      PROVE  Satisfied(qs, HitsAfter(qs, hits, carried), HasGroups)
  <2>1. \A i \in Slots(qs) : ~HasRoom(qs, hits, i)
    BY <1>2 DEF Satisfied, HasUnfilled, HasUncapped
  <2>2. \A i \in Slots(qs) : HitsAfter(qs, hits, carried)[i] = hits[i]
    BY <2>1 DEF HitsAfter, Consumes
  <2>3. ~HasUnfilled(qs, HitsAfter(qs, hits, carried))
    BY <2>1, <2>2 DEF HasUnfilled, HasRoom
  <2> QED
    BY <1>2, <2>3 DEF Satisfied
<1> QED
  BY <1>1, <1>2, HitsStayCapped, ClosedForGood

(* A turn that goes on, with or without a row.                              *)
LEMMA GoesOnStep ==
    ASSUME IInv, TypeOK', phase \in Passes,
           UNCHANGED <<args, phase, outcome, unread, jobs, flight, recorded, passed, cap2, probed>>,
           Len(results) \in Nat, Len(results') = Len(results) - 1,
           \/ UNCHANGED <<items, rows, doc, hits>>
           \/ /\ items' = items + 1 /\ rows' = rows + 1 /\ doc' = WithRow(doc, items)
              /\ ~(PassLimit > 0 /\ rows + 1 >= PassLimit)
              /\ \E carried \in SUBSET Protocol : hits' = HitsAfter(qs, hits, carried)
    PROVE  IInv'
<1>1. /\ qs' = qs /\ HasGroups' = HasGroups /\ MayFallback' = MayFallback /\ limit' = limit
      /\ \A c, r : /\ Offers(c, r)' <=> Offers(c, r)
                   /\ Lacks(c, r)' <=> Lacks(c, r)
                   /\ Due(c, r)' <=> Due(c, r)
  BY SameRequest DEF Due
<1>2. /\ items \in Nat /\ rows \in Nat /\ passed \in Nat /\ cap2 \in Nat /\ limit \in Nat
  BY FindAssumption DEF IInv, TypeOK
<1>3. PhaseInv'
  BY <1>1 DEF IInv, PhaseInv, Passes
<1>4. DocInv'
  <2>1. doc = Begun /\ outcome # "finished"
    BY DEF IInv, PhaseInv, DocInv, Passes
  <2>2. doc' = Begun'
    BY <1>2, <2>1, BegunOpens DEF Begun
  <2> QED
    BY <2>1, <2>2 DEF DocInv, Begun, Passes
<1>5. LimitInv'
  <2>1. CASE UNCHANGED <<items, rows>>
    BY <1>1, <1>2, <2>1 DEF IInv, LimitInv, Passes
  <2>2. CASE /\ items' = items + 1 /\ rows' = rows + 1
             /\ ~(PassLimit > 0 /\ rows + 1 >= PassLimit)
    BY <1>1, <1>2, <2>2 DEF IInv, LimitInv, Passes, PassLimit
  <2> QED
    BY <2>1, <2>2
<1>6. JobsInv'
  BY <1>1 DEF IInv, JobsInv
<1>7. /\ hits' \in HitsOf(qs)
      /\ \A c \in Candidates, r \in Requested(qs) : Asked(c, r) => Asked(c, r)'
      /\ Short' => Short
  <2>1. CASE UNCHANGED <<items, hits>>
    BY <1>1, <2>1 DEF IInv, AskedInv, Asked, Short
  <2>2. ASSUME items' = items + 1, NEW carried \in SUBSET Protocol,
               hits' = HitsAfter(qs, hits, carried)
        PROVE  /\ hits' \in HitsOf(qs)
               /\ \A c \in Candidates, r \in Requested(qs) : Asked(c, r) => Asked(c, r)'
               /\ Short' => Short
    <3>1. \A r \in Requested(qs) : Closed(qs, hits, r) => Closed(qs, hits', r)
      BY <2>2, Charged
    <3>2. Satisfied(qs, hits, HasGroups) => Satisfied(qs, hits', HasGroups)
      BY <2>2, Charged
    <3>3. Short' => Short
      BY <1>1, <1>2, <2>2, <3>2 DEF Short
    <3> QED
      BY <1>1, <2>2, <3>1, <3>3, Charged DEF Asked
  <2> QED
    BY <2>1, <2>2
<1>8. AskedInv'
  <2>1. NothingLeftUnasked'
    BY DEF IInv, PhaseInv, NothingLeftUnasked, Passes
  <2> QED
    BY <1>1, <1>7, <2>1 DEF IInv, AskedInv, Passes
<1> QED
  BY <1>3, <1>4, <1>5, <1>6, <1>8 DEF IInv

(* An empty channel adds nothing to the written rows: the bound on rows and  *)
(* waiting results becomes the bound on the rows alone.                      *)
LEMMA NothingWaits ==
    \A written, waiting, bound :
        (written \in Nat /\ waiting = 0 /\ written <= bound)
            => written + waiting <= bound
  OBVIOUS

(* The pass ends as it should: the stream is over, or the run has all it    *)
(* wants and is no longer short.                                            *)
LEMMA FinishStep ==
    ASSUME IInv, TypeOK', phase \in Passes,
           UNCHANGED <<args, recorded, passed, cap2, probed>>,
           NEW d, d = (IF items' = 0 THEN "empty" ELSE "open"),
           PassEnds("finished", d, items'),
           \/ items' = items /\ rows' = rows /\ hits' = hits
           \/ /\ items' = items + 1 /\ rows' = rows + 1 /\ results # <<>>
              /\ \E carried \in SUBSET Protocol : hits' = HitsAfter(qs, hits, carried),
           Short' => unread = {} /\ jobs = {}
    PROVE  IInv'
<1>1. /\ qs' = qs /\ HasGroups' = HasGroups /\ MayFallback' = MayFallback /\ limit' = limit
      /\ \A c, r : /\ Offers(c, r)' <=> Offers(c, r)
                   /\ Lacks(c, r)' <=> Lacks(c, r)
  BY SameRequest
<1>2. /\ items \in Nat /\ rows \in Nat /\ passed \in Nat /\ cap2 \in Nat /\ limit \in Nat
      /\ items' \in Nat /\ Len(results) \in Nat /\ (results # <<>> => Len(results) > 0)
  <2>1. results \in Seq(Row)
    BY DEF IInv, TypeOK
  <2>2. Len(results) \in Nat /\ (results # <<>> => Len(results) > 0)
    BY <2>1, LenProperties, EmptySeq
  <2> QED
    BY <2>2, FindAssumption DEF IInv, TypeOK
<1>3. /\ unread' = {} /\ jobs' = {} /\ flight' = {} /\ results' = <<>>
      /\ doc' = IF phase = "pass1" /\ MayFallback THEN d ELSE "closed"
      /\ IF phase = "pass1" THEN phase' = "deciding" /\ outcome' = outcome
                            ELSE phase' = "ended" /\ outcome' = "finished"
  <2>1. WithEnd(d, items') = "closed"
    BY <1>2 DEF WithEnd
  <2> QED
    BY <2>1 DEF PassEnds, StreamDropped, Finalized, LeaveOpen
<1>4. outcome = "running"
  BY DEF IInv, PhaseInv, Passes
<1>5. PhaseInv'
  BY <1>3, <1>4, FS_EmptySet DEF PhaseInv, Passes
<1>6. DocInv'
  BY <1>1, <1>3, <1>4 DEF DocInv, Begun, Passes
<1>7. LimitInv'
  <2>1. Len(<<>>) = 0
    OBVIOUS
  <2>2. CASE phase = "pass1"
    <3>1. /\ rows = items /\ items + Len(results) <= passed
          /\ limit > 0 => items < limit
      BY <2>2 DEF IInv, LimitInv
    <3>2. rows' = items' /\ items' <= passed /\ (limit > 0 => items' <= limit)
      BY <1>2, <3>1
    <3>3. Len(results') = 0 /\ phase' = "deciding" /\ passed' = passed
      BY <1>3, <2>1, <2>2
    <3>4. items' + Len(results') <= passed'
      BY <1>2, <3>2, <3>3, NothingWaits
    <3> QED
      BY <1>1, <3>2, <3>3, <3>4 DEF LimitInv
  <2>3. CASE phase = "pass2"
    BY <1>1, <1>2, <1>3, <2>3 DEF IInv, LimitInv
  <2> QED
    BY <2>2, <2>3 DEF Passes
<1>8. JobsInv'
  BY <1>1, <1>3 DEF IInv, JobsInv, Passes
<1>9. /\ hits' \in HitsOf(qs)
      /\ \A c \in Candidates, r \in Requested(qs) : Asked(c, r) => Asked(c, r)'
      /\ Short' => Short
  <2>1. CASE items' = items /\ hits' = hits
    BY <1>1, <2>1 DEF IInv, AskedInv, Asked, Short
  <2>2. ASSUME items' = items + 1, NEW carried \in SUBSET Protocol,
               hits' = HitsAfter(qs, hits, carried)
        PROVE  /\ hits' \in HitsOf(qs)
               /\ \A c \in Candidates, r \in Requested(qs) : Asked(c, r) => Asked(c, r)'
               /\ Short' => Short
    <3>1. \A r \in Requested(qs) : Closed(qs, hits, r) => Closed(qs, hits', r)
      BY <2>2, Charged
    <3>2. Satisfied(qs, hits, HasGroups) => Satisfied(qs, hits', HasGroups)
      BY <2>2, Charged
    <3>3. Short' => Short
      BY <1>1, <1>2, <2>2, <3>2 DEF Short
    <3> QED
      BY <1>1, <2>2, <3>1, <3>3, Charged DEF Asked
  <2> QED
    BY <2>1, <2>2
<1>10. AskedInv'
  <2>1. \A c \in Candidates, r \in Requested(qs) : Offers(c, r) \/ Lacks(c, r)
    BY DEF Offers, Lacks, AdvertisedJobs, MissedJobs
  <2>2. ASSUME Short', phase = "pass1", NEW c \in Candidates, NEW r \in Requested(qs)
        PROVE  /\ Lacks(c, r) => c \in recorded
               /\ Offers(c, r) => Asked(c, r)
    BY <2>2 DEF IInv, AskedInv
  <2>3. ASSUME Short', phase = "pass2", NEW c \in Candidates, NEW r \in Requested(qs)
        PROVE  Asked(c, r)
    BY <1>9, <2>1, <2>3 DEF IInv, AskedInv
  <2>4. NothingLeftUnasked'
    BY <1>1, <1>3, <1>4, <1>9, <2>3 DEF NothingLeftUnasked, Short, Asked, Passes
  <2> QED
    BY <1>1, <1>3, <1>9, <2>2, <2>4 DEF AskedInv, Passes
<1> QED
  BY <1>5, <1>6, <1>7, <1>8, <1>10 DEF IInv

(* The turns with a row, or a proxy the quotas refuse.                      *)
LEMMA RowSteps ==
    ASSUME IInv, NEW r, QuotaDrops(r) \/ Emit(r) \/ WriteFails(r)
    PROVE  IInv'
<1>1. /\ FixedType /\ NotifyType /\ FlowType /\ CountType /\ phase \in Phases /\ outcome \in Outcomes
      /\ phase \in Passes /\ results # <<>> /\ r = Head(results)
      /\ TurnEnds
      /\ UNCHANGED <<args, recorded, passed, cap2, presses, signals, probed>>
  BY PartTypes DEF QuotaDrops, Emit, WriteFails, TakesNext
<1>2. /\ r.carried \in SUBSET Protocol
      /\ Len(Tail(results)) = Len(results) - 1 /\ Len(results) \in Nat
      /\ Tail(results) \in Seq(Row) /\ Len(Tail(results)) <= ResultCap
  BY <1>1, ShorterResults DEF Row
<1>3. NotifyType' /\ items \in Nat /\ rows \in Nat
  BY <1>1, NotifySteps DEF CountType
<1>4. doc = Begun /\ hits \in HitsOf(qs)
  BY <1>1 DEF IInv, DocInv, Passes, CountType
<1>5. WithRow(doc, items) = "open"
  BY <1>3, <1>4, BegunOpens DEF Begun
<1>6. ASSUME UNCHANGED <<unread, jobs, flight, paused, phase, outcome>>, results' = Tail(results),
             passed' \in Nat, items' \in Nat, rows' \in Nat, hits' \in HitsOf(qs),
             doc' \in {"empty", "open", "closed", "broken"}
      PROVE  TypeOK'
  <2>1. FlowType'
    BY <1>1, <1>2, <1>6 DEF FlowType
  <2> QED
    BY <1>1, <1>3, <1>6, <2>1, StillTyped DEF FixedType
<1>7. ASSUME NEW d, NEW n, NEW result \in {"finished", "failed"}, PassEnds(result, d, n),
             items' \in Nat, rows' \in Nat, hits' \in HitsOf(qs),
             doc' \in {"empty", "open", "closed", "broken"}
      PROVE  TypeOK'
  <2>1. FlowType' /\ paused' = FALSE
    BY <1>1, <1>7, EmptyFlow DEF PassEnds, StreamDropped
  <2>2. phase' \in Phases /\ outcome' \in Outcomes
    BY <1>1, <1>7 DEF PassEnds, Phases, Outcomes
  <2> QED
    BY <1>1, <1>3, <1>7, <2>1, <2>2, StillTyped DEF CountType
<1>8. CASE QuotaDrops(r)
  <2>1. UNCHANGED <<hits, items, rows, emitted>>
    BY <1>8 DEF QuotaDrops
  <2>2. CASE Satisfied(qs, hits, HasGroups)
    <3>1. PassEnds("finished", doc, items')
      BY <1>8, <2>1, <2>2 DEF QuotaDrops
    <3>2. ~Short'
      BY <1>1, <2>1, <2>2, SameRequest DEF Short
    <3>3. doc' \in {"empty", "open", "closed", "broken"}
      BY <1>4, <3>1 DEF PassEnds, Finalized, WithEnd, Begun
    <3>4. TypeOK'
      BY <1>3, <1>4, <1>7, <2>1, <3>1, <3>3
    <3> QED
      BY <1>1, <1>4, <2>1, <3>1, <3>2, <3>4, FinishStep DEF Begun
  <2>3. CASE ~Satisfied(qs, hits, HasGroups)
    <3>1. GoesOn(doc) /\ results' = Tail(results)
      BY <1>8, <2>3 DEF QuotaDrops
    <3>2. UNCHANGED <<unread, jobs, flight, paused, phase, outcome, doc>>
      BY <3>1 DEF GoesOn
    <3>3. TypeOK'
      BY <1>1, <1>3, <1>4, <1>6, <2>1, <3>1, <3>2 DEF CountType
    <3> QED
      BY <1>1, <1>2, <2>1, <3>1, <3>2, <3>3, GoesOnStep
  <2> QED
    BY <2>2, <2>3
<1>9. CASE Emit(r)
  <2>1. /\ items' = items + 1 /\ rows' = rows + 1 /\ hits' = HitsAfter(qs, hits, r.carried)
        /\ items' \in Nat /\ rows' \in Nat /\ hits' \in HitsOf(qs)
    BY <1>2, <1>3, <1>9, Charged DEF Emit
  <2>2. CASE (PassLimit > 0 /\ rows + 1 >= PassLimit) \/ Satisfied(qs, hits', HasGroups)
    <3>1. PassEnds("finished", "open", items')
      BY <1>5, <1>9, <2>1, <2>2 DEF Emit
    <3>2. "open" = IF items' = 0 THEN "empty" ELSE "open"
      BY <1>3, <2>1
    <3>3. ~Short'
      <4>1. CASE Satisfied(qs, hits', HasGroups)
        BY <1>1, <4>1, SameRequest DEF Short
      <4>2. CASE PassLimit > 0 /\ rows + 1 >= PassLimit
        <5>1. cap2 \in Nat /\ limit \in Nat /\ limit' = limit /\ qs' = qs
          BY <1>1, FindAssumption, SameRequest DEF CountType, FixedType
        <5>2. HasAnyQuota(qs) => limit # 0 /\ items' >= limit
          BY <1>1, <1>3, <2>1, <4>2, <5>1 DEF IInv, LimitInv, PassLimit, Passes
        <5> QED
          BY <2>1, <5>1, <5>2 DEF Short
      <4> QED
        BY <2>2, <4>1, <4>2
    <3>4. doc' \in {"empty", "open", "closed", "broken"}
      BY <3>1 DEF PassEnds, Finalized, WithEnd
    <3>5. TypeOK'
      BY <1>7, <2>1, <3>1, <3>4
    <3> QED
      BY <1>1, <1>2, <2>1, <3>1, <3>2, <3>3, <3>5, FinishStep
  <2>3. CASE ~((PassLimit > 0 /\ rows + 1 >= PassLimit) \/ Satisfied(qs, hits', HasGroups))
    <3>1. GoesOn(WithRow(doc, items)) /\ results' = Tail(results)
      BY <1>9, <2>3 DEF Emit
    <3>2. UNCHANGED <<unread, jobs, flight, paused, phase, outcome>> /\ doc' = WithRow(doc, items)
      BY <3>1 DEF GoesOn
    <3>3. TypeOK'
      BY <1>1, <1>5, <1>6, <2>1, <3>1, <3>2 DEF CountType
    <3> QED
      BY <1>1, <1>2, <2>1, <2>3, <3>1, <3>2, <3>3, GoesOnStep
  <2> QED
    BY <2>2, <2>3
<1>10. CASE WriteFails(r)
  <2>1. /\ hits' = HitsAfter(qs, hits, r.carried) /\ hits' \in HitsOf(qs)
        /\ UNCHANGED <<items, rows, emitted>> /\ PassEnds("failed", doc, items)
    BY <1>2, <1>10, Charged DEF WriteFails
  <2>2. WithEnd(doc, items) = "closed"
    BY <1>3, <1>4, BegunOpens DEF Begun
  <2>3. /\ doc' \in {"empty", "open", "closed"}
        /\ phase' = "ended" /\ outcome' = "failed" /\ flight' = {}
    BY <1>4, <2>1, <2>2 DEF PassEnds, StreamDropped, Finalized, Begun
  <2>4. TypeOK'
    BY <1>3, <1>7, <2>1, <2>3
  <2> QED
    BY <1>1, <2>1, <2>3, <2>4, AbortStep, FS_EmptySet
<1> QED
  BY <1>8, <1>9, <1>10

\* The end of a stream and a cancelled pass keep the invariant.
LEMMA PassEndSteps ==
    ASSUME IInv, StreamEnds \/ PassCancelled
    PROVE  IInv'
<1>1. /\ FixedType /\ NotifyType /\ FlowType /\ CountType /\ phase \in Phases /\ outcome \in Outcomes
      /\ phase \in Passes
      /\ UNCHANGED <<args, recorded, passed, hits, items, rows, emitted, cap2, presses, signals,
                     probed>>
      /\ NotifyType'
  BY PartTypes, NotifySteps DEF StreamEnds, PassCancelled
<1>2. doc = Begun /\ hits \in HitsOf(qs) /\ items \in Nat /\ rows \in Nat /\ passed \in Nat
  BY <1>1 DEF IInv, DocInv, Passes, CountType
<1>3. WithEnd(doc, items) = "closed"
  BY <1>2, BegunOpens DEF Begun
<1>4. PICK result \in {"finished", "cancelled"} :
        /\ PassEnds(result, doc, items)
        /\ result = "finished" => unread = {} /\ jobs = {}
  BY DEF StreamEnds, PassCancelled
<1>5. doc' \in {"empty", "open", "closed"} /\ FlowType' /\ paused' = FALSE /\ flight' = {}
  BY <1>1, <1>2, <1>3, <1>4, EmptyFlow DEF PassEnds, StreamDropped, Finalized, Begun
<1>6. phase' \in Phases /\ outcome' \in Outcomes
  BY <1>1, <1>4 DEF PassEnds, Phases, Outcomes
<1>7. TypeOK'
  BY <1>1, <1>2, <1>5, <1>6, StillTyped
<1>8. CASE result = "finished"
  BY <1>1, <1>2, <1>4, <1>7, <1>8, FinishStep DEF Begun
<1>9. CASE result = "cancelled"
  <2>1. phase' = "ended" /\ outcome' = "cancelled"
    BY <1>4, <1>9 DEF PassEnds
  <2> QED
    BY <1>1, <1>2, <1>5, <1>7, <2>1, AbortStep, FS_EmptySet
<1> QED
  BY <1>8, <1>9
-----------------------------------------------------------------------------
(* run_find around its passes.                                              *)

\* The start of either pass, failed or cancelled, keeps the invariant.
LEMMA StartSteps ==
    ASSUME IInv, Start1 \/ StartFails \/ StartCancelled \/ Start2
    PROVE  IInv'
<1>1. /\ FixedType /\ NotifyType /\ FlowType /\ CountType /\ phase \in Phases /\ outcome \in Outcomes
      /\ UNCHANGED <<args, unread, flight, results, paused, recorded, passed, output, cap2,
                     presses, signals, probed>>
      /\ NotifyType'
  BY PartTypes, NotifySteps DEF Start1, StartFails, StartCancelled, Start2, stream
<1>2. UNCHANGED <<hits, items, rows, doc, emitted>>
  BY <1>1 DEF output
<1>3. /\ qs' = qs /\ HasGroups' = HasGroups /\ MayFallback' = MayFallback /\ limit' = limit
      /\ \A c, r : /\ Offers(c, r)' <=> Offers(c, r)
                   /\ Lacks(c, r)' <=> Lacks(c, r)
                   /\ Asked(c, r)' <=> Asked(c, r)
      /\ Short' <=> Short
  BY <1>1, <1>2, SameRequest DEF Asked, Short
<1>4. jobs' \subseteq Jobs
  <2>1. CASE Start2
    <3>1. \A c \in recorded : \A r \in MissedJobs(qs, Advertised[c]) : Single(c, r) \in Jobs
      BY <1>1, RequestFacts, SingleJob DEF FixedType, FlowType, MissedJobs
    <3> QED
      BY <2>1, <3>1 DEF Start2
  <2>2. CASE jobs' = jobs
    BY <1>1, <2>2 DEF FlowType
  <2> QED
    BY <2>1, <2>2 DEF Start1, StartFails, StartCancelled, stream
<1>5. TypeOK'
  <2>1. FlowType'
    BY <1>1, <1>4 DEF FlowType
  <2>2. phase' \in Phases /\ outcome' \in Outcomes
    BY <1>1 DEF Start1, StartFails, StartCancelled, Start2, Phases, Outcomes
  <2> QED
    BY <1>1, <1>2, <2>1, <2>2, StillTyped DEF CountType, FixedType
<1>6. CASE StartFails \/ StartCancelled
  <2>1. phase' = "ended" /\ outcome' \in {"failed", "cancelled"}
    BY <1>6 DEF StartFails, StartCancelled
  <2>2. doc # "broken" /\ hits \in HitsOf(qs) /\ IsFiniteSet(flight)
    BY DEF IInv, DocInv, AskedInv, PhaseInv
  <2> QED
    BY <1>1, <1>2, <1>5, <2>1, <2>2, AbortStep
<1>7. CASE Start1
  <2>1. phase = "starting1" /\ phase' = "pass1" /\ outcome' = outcome /\ jobs' = jobs
    BY <1>7 DEF Start1, stream
  <2>2. /\ unread = Candidates /\ jobs = {} /\ outcome = "running"
    BY <2>1 DEF IInv, PhaseInv, Passes
  <2>3. PhaseInv' /\ LimitInv' /\ DocInv'
    BY <1>1, <1>2, <1>3, <2>1, <2>2 DEF IInv, PhaseInv, LimitInv, DocInv, Begun, Passes
  <2>4. JobsInv'
    BY <1>1, <1>3, <2>1, <2>2 DEF IInv, JobsInv, Passes
  <2>5. AskedInv'
    BY <1>1, <1>2, <1>3, <2>1, <2>2 DEF IInv, AskedInv, NothingLeftUnasked
  <2> QED
    BY <1>5, <2>3, <2>4, <2>5 DEF IInv
<1>8. CASE Start2
  <2>1. /\ phase = "starting2" /\ phase' = "pass2" /\ outcome' = outcome
        /\ jobs' = UNION {{Single(c, r) : r \in MissedJobs(qs, Advertised[c])} : c \in recorded}
    BY <1>8 DEF Start2
  <2>2. /\ outcome = "running" /\ unread = {} /\ recorded \subseteq Candidates
    BY <1>1, <2>1 DEF IInv, PhaseInv, Passes, FlowType
  <2>3. PhaseInv' /\ LimitInv' /\ DocInv'
    BY <1>1, <1>2, <1>3, <2>1, <2>2 DEF IInv, PhaseInv, LimitInv, DocInv, Begun, Passes
  <2>4. \A c, r : ~(Offers(c, r) /\ Lacks(c, r))
    BY DEF Offers, Lacks, AdvertisedJobs, MissedJobs
  <2>5. \A j \in jobs' : \E c \in Candidates, r \in Requested(qs) :
            j = Single(c, r) /\ Lacks(c, r) /\ <<c, r>> \notin probed
    <3>1. ASSUME NEW j \in jobs'
          PROVE  \E c \in Candidates, r \in Requested(qs) :
                    j = Single(c, r) /\ Lacks(c, r) /\ <<c, r>> \notin probed
      <4>1. PICK c \in recorded : \E r \in MissedJobs(qs, Advertised[c]) : j = Single(c, r)
        BY <2>1, <3>1
      <4>2. PICK r \in MissedJobs(qs, Advertised[c]) : j = Single(c, r)
        BY <4>1
      <4>3. c \in Candidates /\ r \in Requested(qs) /\ Lacks(c, r)
        BY <2>2, <4>2 DEF Lacks, MissedJobs
      <4>4. <<c, r>> \notin probed
        BY <2>1, <2>4, <4>3 DEF IInv, JobsInv
      <4> QED
        BY <4>2, <4>3, <4>4
    <3> QED
      BY <3>1
  <2>6. JobsInv'
    BY <1>1, <1>3, <2>1, <2>5 DEF JobsInv, Due, Passes
  <2>7. \A c \in recorded, r \in Requested(qs) : Lacks(c, r) => Single(c, r) \in jobs'
    BY <2>1 DEF Lacks
  <2>8. AskedInv'
    BY <1>1, <1>2, <1>3, <2>1, <2>2, <2>7 DEF IInv, AskedInv, NothingLeftUnasked
  <2> QED
    BY <1>5, <2>3, <2>6, <2>8 DEF IInv
<1> QED
  BY <1>6, <1>7, <1>8

\* The decision for or against the fallback keeps the invariant.
LEMMA DecisionSteps ==
    ASSUME IInv, GoesToPass2 \/ SkipsPass2
    PROVE  IInv'
<1>1. /\ FixedType /\ NotifyType /\ FlowType /\ CountType /\ phase \in Phases /\ outcome \in Outcomes
      /\ phase = "deciding"
      /\ UNCHANGED <<args, stream, recorded, passed, hits, items, emitted, presses, signals, notify,
                     probed>>
      /\ UNCHANGED <<unread, jobs, flight, results, paused>>
  BY PartTypes DEF GoesToPass2, SkipsPass2, stream
<1>2. /\ qs' = qs /\ HasGroups' = HasGroups /\ MayFallback' = MayFallback /\ limit' = limit
      /\ \A c, r : /\ Offers(c, r)' <=> Offers(c, r)
                   /\ Lacks(c, r)' <=> Lacks(c, r)
                   /\ Asked(c, r)' <=> Asked(c, r)
      /\ Short' <=> Short
  BY <1>1, SameRequest DEF Asked, Short
<1>3. /\ items \in Nat /\ rows = items /\ passed \in Nat /\ cap2 \in 0..MaxLimit
      /\ limit \in 0..MaxLimit /\ MaxLimit \in Nat /\ items <= passed
      /\ limit > 0 => items <= limit
  <2>1. results = <<>> /\ Len(<<>>) = 0
    BY <1>1 DEF IInv, PhaseInv, Passes
  <2> QED
    BY <1>1, <2>1, FindAssumption DEF IInv, LimitInv, CountType, FixedType
<1>4. doc = IF MayFallback THEN Begun ELSE "closed"
  BY <1>1 DEF IInv, DocInv
<1>5. /\ outcome = "running" /\ unread = {} /\ jobs = {} /\ flight = {} /\ results = <<>>
      /\ hits \in HitsOf(qs)
  BY <1>1 DEF IInv, PhaseInv, CountType, Passes
<1>6. JobsInv'
  BY <1>1, <1>2, <1>5 DEF IInv, JobsInv, Passes, GoesToPass2, SkipsPass2
<1>7. FlowType'
  BY <1>1 DEF FlowType
<1>8. CASE GoesToPass2
  <2>1. /\ phase' = "starting2" /\ rows' = 0 /\ outcome' = outcome /\ doc' = doc
        /\ cap2' = IF limit = 0 THEN 0 ELSE limit - (IF HasAnyQuota(qs) THEN Emitted1 ELSE passed)
        /\ NeedsFallback(qs, hits, HasGroups, limit, Emitted1, passed)
    BY <1>8 DEF GoesToPass2, Fallback
  <2>2. MayFallback /\ Emitted1 = items
    BY <2>1 DEF NeedsFallback, MayFallback, Emitted1
  <2>3. /\ HasAnyQuota(qs) => limit = 0 \/ items < limit
        /\ ~HasAnyQuota(qs) => limit = 0 \/ passed < limit
    BY <1>3, <2>1, <2>2 DEF NeedsFallback
  <2>4. /\ cap2' \in 0..MaxLimit
        /\ limit = 0 => cap2' = 0
        /\ limit > 0 => cap2' > 0 /\ items + cap2' <= limit
        /\ limit > 0 /\ HasAnyQuota(qs) => items + cap2' = limit
    BY <1>3, <2>1, <2>2, <2>3
  <2>5. TypeOK'
    <3>1. FixedType' /\ CountType'
      BY <1>1, <1>2, <2>1, <2>4 DEF FixedType, CountType, args
    <3>2. NotifyType' /\ phase' \in Phases /\ outcome' \in Outcomes
      BY <1>1, <2>1, NotifySteps DEF Phases
    <3> QED
      BY <1>7, <3>1, <3>2, TypeParts
  <2>6. PhaseInv'
    BY <1>1, <1>2, <1>5, <2>1, <2>2, FS_EmptySet DEF PhaseInv, Passes
  <2>7. LimitInv'
    BY <1>1, <1>2, <1>3, <2>1, <2>4 DEF LimitInv
  <2>8. DocInv'
    BY <1>1, <1>2, <1>4, <1>5, <2>1, <2>2 DEF DocInv, Begun
  <2>9. AskedInv'
    BY <1>1, <1>2, <1>5, <2>1 DEF IInv, AskedInv, NothingLeftUnasked
  <2> QED
    BY <1>6, <2>5, <2>6, <2>7, <2>8, <2>9 DEF IInv
<1>9. CASE SkipsPass2
  <2>1. /\ phase' = "ended" /\ outcome' = "finished" /\ UNCHANGED <<rows, cap2>>
        /\ doc' = IF MayFallback THEN WithEnd(doc, items) ELSE doc
        /\ ~Fallback
    BY <1>9 DEF SkipsPass2
  <2>2. doc' = "closed"
    BY <1>3, <1>4, <2>1, BegunOpens DEF Begun
  <2>3. TypeOK'
    BY <1>1, <1>3, <1>5, <1>7, <2>1, <2>2, StillTyped DEF Phases, Outcomes, FixedType
  <2>4. PhaseInv' /\ DocInv'
    BY <1>5, <1>1, <2>1, <2>2, FS_EmptySet DEF PhaseInv, DocInv, Passes
  <2>5. LimitInv'
    BY <1>1, <1>2, <1>3, <2>1 DEF LimitInv
  <2>6. ASSUME Short, NEW c \in Candidates, NEW r \in Requested(qs)
        PROVE  Asked(c, r)
    <3>1. /\ Requested(qs) # {} /\ Emitted1 = items
          /\ HasUnfilled(qs, hits) \/ HasUncapped(qs) \/ HasGroups
      BY <2>6 DEF Short, Satisfied, Emitted1, MayFallback
    <3>2. NeedsFallback(qs, hits, HasGroups, limit, Emitted1, passed)
      BY <2>6, <3>1 DEF NeedsFallback, Short
    <3>3. recorded = {}
      BY <2>1, <3>2 DEF Fallback
    <3>4. ~Lacks(c, r) /\ (Offers(c, r) => Asked(c, r))
      BY <1>1, <2>6, <3>3 DEF IInv, AskedInv
    <3> QED
      BY <3>4 DEF Offers, Lacks, AdvertisedJobs, MissedJobs
  <2>7. NothingLeftUnasked'
    BY <1>1, <1>2, <2>1, <2>6 DEF NothingLeftUnasked, Short, Asked
  <2>8. AskedInv'
    BY <1>1, <1>2, <1>5, <2>1, <2>7 DEF AskedInv
  <2> QED
    BY <1>6, <2>3, <2>4, <2>5, <2>8 DEF IInv
<1> QED
  BY <1>8, <1>9

\* Every step of run_find keeps the invariant.
LEMMA RunStep == IInv /\ [Next]_vars => IInv'
<1> SUFFICES ASSUME IInv, [Next]_vars PROVE IInv'
  OBVIOUS
<1>1. CASE UNCHANGED vars
  <2>1. /\ UNCHANGED <<args, phase, outcome, unread, jobs, flight, results, recorded, passed,
                       output, cap2, probed>>
        /\ UNCHANGED <<paused, presses, signals, notify>>
    BY <1>1 DEF vars, stream
  <2>2. FlowType' /\ CountType /\ FixedType /\ phase' \in Phases /\ outcome' \in Outcomes
    BY <2>1, PartTypes DEF FlowType
  <2>3. TypeOK'
    BY <2>1, <2>2, StillTyped DEF CountType, FixedType, output
  <2> QED
    BY <2>1, <2>3, QuietStep
<1>2. CASE Main
  BY <1>2, FilterStep, RowSteps, PassEndSteps, StartSteps, DecisionSteps DEF Main, Output
<1>3. CASE Pipeline
  BY <1>3, ReadStep, JobSteps DEF Pipeline
<1> QED
  BY <1>1, <1>2, <1>3, SignalSteps DEF Next

(* The inductive invariant of a find run.                                   *)
THEOREM RunInvariant == Spec => []IInv
BY InitIInv, RunStep, PTL DEF Spec

(* Every variable of run_find keeps its type.                               *)
THEOREM RunTypes == Spec => []TypeOK
<1>1. IInv => TypeOK
  BY DEF IInv
<1> QED
  BY <1>1, RunInvariant, PTL

(* Both passes together write no more rows than --limit (run_find,          *)
(* process_result).                                                         *)
THEOREM LimitIsKept == Spec => []LimitKept
<1>1. IInv => LimitKept
  BY DEF IInv, LimitInv, LimitKept
<1> QED
  BY <1>1, RunInvariant, PTL

(* A run that ends well leaves one closed JSON document                     *)
(* (finalize_json_output, close_chained_json).                              *)
THEOREM DocumentIsClosed == Spec => []FinishedDocumentClosed
<1>1. IInv => FinishedDocumentClosed
  BY DEF IInv, DocInv, FinishedDocumentClosed
<1> QED
  BY <1>1, RunInvariant, PTL

(* A run with quotas that ends short asked every candidate for every type   *)
(* it could still use (needs_fallback, needs_missed_probe).                 *)
THEOREM EverythingIsAsked == Spec => []NothingLeftUnasked
<1>1. IInv => NothingLeftUnasked
  BY DEF IInv, AskedInv
<1> QED
  BY <1>1, RunInvariant, PTL

(* No candidate is probed twice for one type (singleton_jobs of both        *)
(* passes).                                                                 *)
THEOREM NothingIsProbedTwice == Spec => NothingProbedTwice
<1>1. ASSUME IInv, NEW j \in jobs, ProbeStarts(j), ~j.group, NEW r \in j.types
      PROVE  <<j.cand, r>> \notin probed
  <2>1. phase \in Passes
    BY <1>1 DEF ProbeStarts
  <2>2. PICK c \in Candidates, q \in Requested(qs) : j = Single(c, q) /\ <<c, q>> \notin probed
    BY <1>1, <2>1 DEF IInv, JobsInv
  <2> QED
    BY <1>1, <2>2 DEF Single
<1>2. IInv => [\A j \in jobs : ProbeStarts(j) /\ ~j.group =>
                    \A r \in j.types : <<j.cand, r>> \notin probed]_vars
  BY <1>1
<1> QED
  BY <1>2, RunInvariant, PTL DEF NothingProbedTwice

(* The probe gate skips a probe only when the quotas would drop whatever it *)
(* could report (is_protocol_closed against should_emit).                   *)
THEOREM GateSparesOnlyUseless == Spec => GateSkipsNothingWanted
<1>1. ASSUME IInv, NEW j \in jobs, GateSkips(j), NEW carried \in Reports(j.types)
      PROVE  ~ShouldEmit(qs, hits, carried)
  <2>1. phase \in Passes /\ Gated(j) /\ ~j.group
    BY <1>1 DEF GateSkips, Gated
  <2>2. PICK c \in Candidates, r \in Requested(qs) : j = Single(c, r)
    BY <1>1, <2>1 DEF IInv, JobsInv
  <2>3. j.types = {r} /\ Closed(qs, hits, r)
    BY <2>1, <2>2 DEF Gated, Single
  <2>4. /\ \E p \in carried : SameFamily(p, r)
        /\ \A p \in carried : SameFamily(p, r)
    BY <1>1, <2>3 DEF Reports, Satisfies
  <2>5. NamesFamily(qs, carried)
    BY <2>3, <2>4 DEF Closed, NamesFamily, SameFamily
  <2>6. Consumes(qs, hits, carried) = {}
    BY <2>3, <2>4 DEF Closed, Consumes, Matches, SameFamily
  <2> QED
    BY <2>5, <2>6 DEF ShouldEmit
<1>2. IInv => [\A j \in jobs : GateSkips(j) =>
                    \A carried \in Reports(j.types) : ~ShouldEmit(qs, hits, carried)]_vars
  BY <1>1
<1> QED
  BY <1>2, RunInvariant, PTL DEF GateSkipsNothingWanted
-----------------------------------------------------------------------------
(* The rows of a family whose quotas are all capped, against the hits.       *)
CountedOn(f) == Units([i \in QuotasOn(f) |-> hits[i]])
AllCapped(f) == QuotasOn(f) # {} /\ \A i \in QuotasOn(f) : qs[i].capped

\* Each row of the family took a unit of a quota on it, which is inductive under IInv.
RowsInv ==
    /\ emitted \in Seq(SUBSET Protocol)
    /\ \A f \in Families : AllCapped(f) => Cardinality(RowsOf(f)) <= Cardinality(CountedOn(f))

\* Finitely many counters make finitely many units.
LEMMA UnitsFinite ==
    ASSUME NEW S, IsFiniteSet(S), NEW n \in [S -> Nat]
    PROVE  IsFiniteSet(Units(n)) /\ Cardinality(Units(n)) \in Nat
<1> DEFINE f == [i \in S |-> {i} \X (1..n[i])]
           T == {{i} \X (1..n[i]) : i \in S}
<1>1. f \in Surjection(S, T)
  BY DEF Surjection
<1>2. IsFiniteSet(T)
  <2> HIDE DEF f, T
  <2> QED
    BY <1>1, FS_Surjection
<1>3. ASSUME NEW i \in S
      PROVE  IsFiniteSet({i} \X (1..n[i]))
  <2>1. n[i] \in Int /\ 1 \in Int
    OBVIOUS
  <2>2. IsFiniteSet(1..n[i])
    BY <2>1, FS_Interval
  <2> QED
    BY <2>2, FS_Singleton, FS_Product
<1>4. IsFiniteSet(UNION T)
  <2>1. \A t \in T : IsFiniteSet(t)
    BY <1>3
  <2> HIDE DEF T
  <2> QED
    BY <1>2, <2>1, FS_UNION
<1>5. Units(n) = UNION T
  BY DEF Units
<1> QED
  BY <1>4, <1>5, FS_CardinalityType

\* Counters that are nowhere less count as many units at least, and more if one is more.
LEMMA UnitsGrow ==
    ASSUME NEW S, IsFiniteSet(S), NEW n \in [S -> Nat], NEW m \in [S -> Nat],
           \A i \in S : n[i] <= m[i]
    PROVE  /\ Cardinality(Units(n)) <= Cardinality(Units(m))
           /\ (\E i \in S : n[i] < m[i]) => Cardinality(Units(n)) + 1 <= Cardinality(Units(m))
<1>1. /\ IsFiniteSet(Units(n)) /\ IsFiniteSet(Units(m))
      /\ Cardinality(Units(n)) \in Nat /\ Cardinality(Units(m)) \in Nat
  BY UnitsFinite
<1>2. Units(n) \subseteq Units(m)
  <2> SUFFICES ASSUME NEW i \in S, NEW u \in {i} \X (1..n[i])
               PROVE  u \in Units(m)
    BY DEF Units
  <2>1. n[i] \in Nat /\ m[i] \in Nat /\ n[i] <= m[i]
    OBVIOUS
  <2>2. 1..n[i] \subseteq 1..m[i]
    BY <2>1
  <2>3. u \in {i} \X (1..m[i])
    BY <2>2
  <2> QED
    BY <2>3 DEF Units
<1>3. Cardinality(Units(n)) <= Cardinality(Units(m))
  BY <1>1, <1>2, FS_Subset
<1>4. ASSUME NEW i \in S, n[i] < m[i]
      PROVE  Cardinality(Units(n)) + 1 <= Cardinality(Units(m))
  <2> DEFINE u == <<i, m[i]>>
  <2>1. n[i] \in Nat /\ m[i] \in Nat
    OBVIOUS
  <2>2. m[i] \in 1..m[i] /\ m[i] \notin 1..n[i]
    BY <1>4, <2>1
  <2>3. u \in Units(m)
    BY <2>2 DEF Units
  <2>4. u \notin Units(n)
    BY <2>2 DEF Units
  <2> HIDE DEF u
  <2>5. Cardinality(Units(n) \cup {u}) = Cardinality(Units(n)) + 1
    BY <1>1, <2>4, FS_AddElement
  <2>6. Units(n) \cup {u} \in SUBSET Units(m)
    BY <1>2, <2>3
  <2>7. Cardinality(Units(n) \cup {u}) <= Cardinality(Units(m))
    BY <1>1, <2>6, FS_Subset
  <2> QED
    BY <2>5, <2>7
<1> QED
  BY <1>3, <1>4

\* The quotas on a family are finitely many, with counters and caps.
LEMMA QuotaFacts ==
    ASSUME IInv, NEW f
    PROVE  /\ IsFiniteSet(QuotasOn(f))
           /\ [i \in QuotasOn(f) |-> hits[i]] \in [QuotasOn(f) -> Nat]
           /\ [i \in QuotasOn(f) |-> qs[i].cap] \in [QuotasOn(f) -> Nat]
           /\ QuotasOn(f) \subseteq Slots(qs) /\ hits \in HitsOf(qs) /\ qs \in Seq(Quota)
<1>1. qs \in Seq(Quota) /\ hits \in HitsOf(qs) /\ hits \in [Slots(qs) -> Nat]
  BY RequestFacts DEF IInv, TypeOK, AskedInv
<1>2. Slots(qs) = 1..Len(qs) /\ Len(qs) \in Nat /\ \A i \in Slots(qs) : qs[i] \in Quota
  BY <1>1, LenProperties, ElementOfSeq DEF Slots
<1>3. IsFiniteSet(Slots(qs))
  <2>1. 1 \in Int /\ Len(qs) \in Int
    BY <1>2
  <2> QED
    BY <1>2, <2>1, FS_Interval
<1>4. QuotasOn(f) \in SUBSET Slots(qs)
  BY DEF QuotasOn
<1>5. IsFiniteSet(QuotasOn(f))
  BY <1>3, <1>4, FS_Subset
<1>6. \A i \in QuotasOn(f) : hits[i] \in Nat /\ qs[i].cap \in Nat
  BY <1>1, <1>2, <1>4 DEF Quota
<1> QED
  BY <1>1, <1>4, <1>5, <1>6

\* Before the first row.
LEMMA RowsInitially == Init => RowsInv
<1> SUFFICES ASSUME Init
             PROVE  RowsInv
  OBVIOUS
<1>1. emitted = <<>> /\ IInv
  BY InitIInv DEF Init
<1>2. emitted \in Seq(SUBSET Protocol) /\ DOMAIN emitted = {}
  BY <1>1, EmptySeq
<1>3. ASSUME NEW f \in Families
      PROVE  Cardinality(RowsOf(f)) <= Cardinality(CountedOn(f))
  <2>1. RowsOf(f) = {}
    BY <1>2 DEF RowsOf
  <2>2. Cardinality(CountedOn(f)) \in Nat
    BY <1>1, QuotaFacts, UnitsFinite DEF CountedOn
  <2> QED
    BY <2>1, <2>2, FS_EmptySet
<1> QED
  BY <1>2, <1>3 DEF RowsInv

\* Writing a row, or failing to, counts it: each row of one type takes a unit of a quota on its family.
LEMMA RowCounts ==
    ASSUME IInv, RowsInv, NEW carried \in SUBSET Protocol, ShouldEmit(qs, hits, carried),
           UNCHANGED args, hits' = HitsAfter(qs, hits, carried),
           emitted' = emitted \/ emitted' = Append(emitted, carried)
    PROVE  RowsInv'
<1>1. qs' = qs /\ emitted \in Seq(SUBSET Protocol)
  BY DEF args, qs, RowsInv
<1>2. emitted' \in Seq(SUBSET Protocol)
  BY <1>1, AppendProperties
<1>3. ASSUME NEW f \in Families, AllCapped(f)
      PROVE  Cardinality(RowsOf(f)') <= Cardinality(CountedOn(f)')
  <2> DEFINE S == QuotasOn(f)
             n == [i \in S |-> hits[i]]
             m == [i \in S |-> hits'[i]]
  <2>1. /\ IsFiniteSet(S) /\ n \in [S -> Nat]
        /\ S \subseteq Slots(qs) /\ hits \in HitsOf(qs) /\ qs \in Seq(Quota)
    BY QuotaFacts
  <2>2. hits' \in HitsOf(qs)
    BY <2>1, HitsStayCapped
  <2>3. m \in [S -> Nat]
    BY <2>1, <2>2 DEF HitsOf
  <2>4. \A i \in S : n[i] <= m[i]
    <3> TAKE i \in S
    <3>1. hits'[i] = hits[i] \/ hits'[i] = hits[i] + 1
      BY <2>1 DEF HitsAfter
    <3>2. n[i] = hits[i] /\ m[i] = hits'[i] /\ n[i] \in Nat /\ m[i] \in Nat
      BY <2>1, <2>3
    <3> HIDE DEF n, m
    <3> QED
      BY <3>1, <3>2
  <2>5. /\ CountedOn(f) = Units(n) /\ CountedOn(f)' = Units(m)
    BY <1>1 DEF CountedOn, QuotasOn
  <2>6. Cardinality(Units(n)) \in Nat /\ Cardinality(Units(m)) \in Nat
    BY <2>1, <2>3, UnitsFinite
  <2>7. Cardinality(RowsOf(f)) <= Cardinality(Units(n))
    BY <1>3, <2>5 DEF RowsInv
  <2>8. DOMAIN emitted = 1..Len(emitted) /\ Len(emitted) \in Nat
    BY <1>1, LenProperties
  <2>9. IsFiniteSet(RowsOf(f)) /\ Cardinality(RowsOf(f)) \in Nat
    <3>1. 1 \in Int /\ Len(emitted) \in Int
      BY <2>8
    <3>2. IsFiniteSet(1..Len(emitted)) /\ RowsOf(f) \in SUBSET (1..Len(emitted))
      BY <2>8, <3>1, FS_Interval DEF RowsOf
    <3> QED
      BY <3>2, FS_Subset, FS_CardinalityType
  <2>10. CASE RowsOf(f)' = RowsOf(f)
    <3>1. Cardinality(Units(n)) <= Cardinality(Units(m))
      <4> HIDE DEF n, m, S
      <4> QED
        BY <2>1, <2>3, <2>4, UnitsGrow
    <3> HIDE DEF n, m
    <3> QED
      BY <2>5, <2>6, <2>7, <2>9, <2>10, <3>1
  <2>11. CASE RowsOf(f)' # RowsOf(f)
    <3>1. emitted' = Append(emitted, carried)
      BY <2>11 DEF RowsOf
    <3>2. /\ DOMAIN emitted' = 1..(Len(emitted) + 1)
          /\ \A k \in 1..Len(emitted) : emitted'[k] = emitted[k]
          /\ emitted'[Len(emitted) + 1] = carried
      BY <1>1, <2>8, <3>1, AppendProperties, LenProperties
    <3>3. \E p \in carried : carried = {p} /\ p.family = f
      <4>1. SUFFICES ASSUME ~(\E p \in carried : carried = {p} /\ p.family = f)
                     PROVE  RowsOf(f)' = RowsOf(f)
        BY <2>11
      <4>2. \A k \in 1..(Len(emitted) + 1) : k \in 1..Len(emitted) \/ k = Len(emitted) + 1
        BY <2>8
      <4>3. 1..Len(emitted) \subseteq 1..(Len(emitted) + 1)
        BY <2>8
      <4> QED
        BY <2>8, <3>2, <4>1, <4>2, <4>3 DEF RowsOf
    <3>4. RowsOf(f)' \subseteq RowsOf(f) \cup {Len(emitted) + 1}
      <4>1. \A k \in 1..(Len(emitted) + 1) : k \in 1..Len(emitted) \/ k = Len(emitted) + 1
        BY <2>8
      <4> QED
        BY <2>8, <3>2, <4>1 DEF RowsOf
    <3>5. Cardinality(RowsOf(f)') <= Cardinality(RowsOf(f)) + 1 /\ Cardinality(RowsOf(f)') \in Nat
      <4> DEFINE R == RowsOf(f)
                 T == RowsOf(f)'
                 x == Len(emitted) + 1
      <4>1. IsFiniteSet(R) /\ T \subseteq R \cup {x} /\ Cardinality(R) \in Nat
        BY <2>9, <3>4
      <4> HIDE DEF R, T, x
      <4>2. IsFiniteSet(R \cup {x}) /\ Cardinality(R \cup {x}) <= Cardinality(R) + 1
        BY <4>1, FS_AddElement
      <4>3. IsFiniteSet(T) /\ Cardinality(T) <= Cardinality(R \cup {x})
        BY <4>1, <4>2, FS_Subset
      <4>4. Cardinality(T) \in Nat /\ Cardinality(R \cup {x}) \in Nat
        BY <4>2, <4>3, FS_CardinalityType
      <4>5. Cardinality(T) <= Cardinality(R) + 1
        BY <4>1, <4>2, <4>3, <4>4
      <4> QED
        BY <4>4, <4>5 DEF R, T
    <3>6. \E i \in S : n[i] < m[i]
      <4>2. PICK p \in carried : carried = {p} /\ p.family = f
        BY <3>3
      <4>3. p \in Protocol /\ p.family = f
        BY <4>2
      <4>4. PICK j \in S : TRUE
        BY <1>3 DEF AllCapped
      <4>5. NamesFamily(qs, carried)
        BY <2>1, <4>2, <4>3, <4>4 DEF NamesFamily, SameFamily, QuotasOn
      <4>6. PICK i \in Consumes(qs, hits, carried) : TRUE
        BY <4>5 DEF ShouldEmit
      <4>7. i \in Slots(qs) /\ qs[i].protocol.family = f
        BY <4>2, <4>3, <4>6 DEF Consumes, Matches, SameFamily
      <4>8. i \in S /\ qs[i].capped
        BY <1>3, <4>7 DEF AllCapped, QuotasOn
      <4>9. hits'[i] = hits[i] + 1
        BY <4>6, <4>7, <4>8 DEF HitsAfter
      <4>10. n[i] = hits[i] /\ m[i] = hits'[i] /\ n[i] \in Nat
        BY <2>1, <4>8
      <4> HIDE DEF n, m
      <4>11. n[i] < m[i]
        BY <4>9, <4>10
      <4> QED
        BY <4>8, <4>11
    <3>7. Cardinality(Units(n)) + 1 <= Cardinality(Units(m))
      <4> HIDE DEF n, m, S
      <4> QED
        BY <2>1, <2>3, <2>4, <3>6, UnitsGrow
    <3> HIDE DEF n, m
    <3> QED
      BY <2>5, <2>6, <2>7, <2>9, <3>5, <3>7
  <2> QED
    BY <2>10, <2>11
<1>4. \A f \in Families : AllCapped(f)' <=> AllCapped(f)
  BY <1>1 DEF AllCapped, QuotasOn
<1> QED
  BY <1>2, <1>3, <1>4 DEF RowsInv

\* Every other step writes nothing and charges nothing.
LEMMA RowsStep == IInv /\ RowsInv /\ [Next]_vars => RowsInv'
<1> SUFFICES ASSUME IInv, RowsInv, [Next]_vars
             PROVE  RowsInv'
  OBVIOUS
<1>1. CASE UNCHANGED <<args, hits, emitted>>
  <2>1. qs' = qs
    BY <1>1 DEF args, qs
  <2>2. \A f : /\ QuotasOn(f)' = QuotasOn(f) /\ RowsOf(f)' = RowsOf(f)
               /\ CountedOn(f)' = CountedOn(f) /\ (AllCapped(f)' <=> AllCapped(f))
    BY <1>1, <2>1 DEF QuotasOn, RowsOf, CountedOn, AllCapped
  <2> QED
    BY <1>1, <2>2 DEF RowsInv
<1>2. ASSUME NEW r \in Range(results), Emit(r) \/ WriteFails(r)
      PROVE  RowsInv'
  <2>1. r.carried \in SUBSET Protocol
    <3>1. results \in Seq(Row) /\ results # <<>> /\ r = Head(results)
      BY <1>2 DEF IInv, TypeOK, Emit, WriteFails, TakesNext
    <3>2. r \in Row
      BY <3>1, HeadTailProperties
    <3> QED
      BY <3>2 DEF Row
  <2>2. /\ UNCHANGED args /\ ShouldEmit(qs, hits, r.carried)
        /\ hits' = HitsAfter(qs, hits, r.carried)
        /\ emitted' = emitted \/ emitted' = Append(emitted, r.carried)
    BY <1>2 DEF Emit, WriteFails
  <2> QED
    BY <2>1, <2>2, RowCounts
<1>3. CASE UNCHANGED vars
  BY <1>1, <1>3 DEF vars, output
<1>4. CASE Main
  <2>1. ASSUME NEW r \in Range(results), FilterDrops(r) \/ QuotaDrops(r)
        PROVE  UNCHANGED <<args, hits, emitted>>
    BY <2>1 DEF FilterDrops, QuotaDrops, output
  <2>2. CASE Output
    BY <1>1, <1>2, <2>1, <2>2 DEF Output
  <2>3. CASE StreamEnds \/ PassCancelled
    BY <1>1, <2>3 DEF StreamEnds, PassCancelled
  <2>4. CASE Start1 \/ StartFails \/ StartCancelled \/ GoesToPass2 \/ SkipsPass2 \/ Start2
    BY <1>1, <2>4 DEF Start1, StartFails, StartCancelled, GoesToPass2, SkipsPass2, Start2, output
  <2> QED
    BY <1>4, <2>2, <2>3, <2>4 DEF Main
<1>5. CASE Pipeline
  BY <1>1, <1>5 DEF Pipeline, Read, GateSkips, ProbeStarts, ProbeFails, ProbePasses, output
<1>6. CASE MainWaits \/ WatcherWaits \/ CtrlC \/ PauseSignal
  BY <1>1, <1>6 DEF MainWaits, WatcherWaits, CtrlC, PauseSignal, output
<1> QED
  BY <1>3, <1>4, <1>5, <1>6 DEF Next

(* The rows of a family with caps are no more than the caps add up to, over *)
(* both passes, whatever probes are in flight when a quota fills            *)
(* (should_emit, QuotaEnforcer).                                            *)
THEOREM CapsAreKept == Spec => []CapsKept
<1>1. ASSUME IInv, RowsInv, NEW f \in Families, AllCapped(f)
      PROVE  Cardinality(RowsOf(f)) <= Cardinality(Units([i \in QuotasOn(f) |-> qs[i].cap]))
  <2> DEFINE S == QuotasOn(f)
             n == [i \in S |-> hits[i]]
             m == [i \in S |-> qs[i].cap]
  <2>1. /\ IsFiniteSet(S) /\ n \in [S -> Nat] /\ m \in [S -> Nat]
        /\ S \subseteq Slots(qs) /\ hits \in HitsOf(qs)
    BY <1>1, QuotaFacts
  <2>2. \A i \in S : n[i] <= m[i]
    BY <1>1, <2>1 DEF AllCapped, HitsOf
  <2>3. Cardinality(RowsOf(f)) <= Cardinality(Units(n))
    BY <1>1 DEF RowsInv, CountedOn
  <2> HIDE DEF n, m, S
  <2>4. Cardinality(Units(n)) <= Cardinality(Units(m))
    BY <2>1, <2>2, UnitsGrow
  <2>5. Cardinality(Units(n)) \in Nat /\ Cardinality(Units(m)) \in Nat
    BY <2>1, UnitsFinite
  <2>6. IsFiniteSet(RowsOf(f)) /\ Cardinality(RowsOf(f)) \in Nat
    <3>1. DOMAIN emitted = 1..Len(emitted) /\ 1 \in Int /\ Len(emitted) \in Int
      BY <1>1, LenProperties DEF RowsInv
    <3>2. IsFiniteSet(1..Len(emitted)) /\ RowsOf(f) \in SUBSET (1..Len(emitted))
      BY <3>1, FS_Interval DEF RowsOf
    <3> QED
      BY <3>2, FS_Subset, FS_CardinalityType
  <2>7. Cardinality(RowsOf(f)) <= Cardinality(Units(m))
    BY <2>3, <2>4, <2>5, <2>6
  <2> QED
    BY <2>7 DEF m, S
<1>2. IInv /\ RowsInv => CapsKept
  BY <1>1 DEF CapsKept, AllCapped
<1> QED
  BY <1>2, RunInvariant, RowsInitially, RowsStep, PTL DEF Spec
=============================================================================
