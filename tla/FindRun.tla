------------------------------ MODULE FindRun ------------------------------
(***************************************************************************)
(* `flx find` (run_find in src/cli/main.rs with process_result in           *)
(* src/cli/output.rs): validate the candidates for the types they           *)
(* advertise, write the rows that filters and quotas let through, and, if   *)
(* that was not enough, probe the recorded candidates for the other types   *)
(* and go on with the same document.                                        *)
(*                                                                         *)
(* The output is a JSON file written as the rows arrive (no --sort, no      *)
(* --shuffle).  Ctrl+C is a tokio Notify, which keeps one permit and wakes  *)
(* its oldest waiter; the SIGUSR1 watcher waits on the same Notify as the   *)
(* main task does.                                                          *)
(***************************************************************************)
EXTENDS Quotas, SequencesExt

CONSTANTS
    Candidates,     \* the endpoints of the source
    Requests,       \* the TYPES to try: records of quotas and AND-groups
    Advertised,     \* the protocols each candidate advertises
    Measured,       \* the protocols a probe can report
    MaxLimit,       \* bound on --limit (0 is no limit)
    Workers,        \* probes that run at once
    ResultCap,      \* capacity of the channel of validated proxies
    MaxSignals      \* bound on the SIGUSR1 signals

ASSUME FindAssumption ==
    /\ \A rq \in Requests : rq.quotas \in Seq(Quota) /\ rq.groups \subseteq SUBSET Protocol
    /\ Advertised \in [Candidates -> SUBSET Protocol]
    /\ Measured \subseteq Protocol
    /\ MaxLimit \in Nat /\ MaxSignals \in Nat
    /\ Workers \in Nat \ {0} /\ ResultCap \in Nat \ {0}

VARIABLES
    request, limit, wanted,     \* the arguments: types, --limit, the filters' choice
    phase,          \* run_find: where it stands
    outcome,        \* how it ended
    unread,         \* candidates the source still holds
    jobs,           \* jobs of this pass not yet pulled
    flight,         \* jobs being probed
    results,        \* validated proxies in the channel
    paused,         \* the gate of this pass
    recorded,       \* candidates kept for the fallback
    passed,         \* passed counter of the first pass
    hits,           \* QuotaEnforcer::hits
    items, rows,    \* rows written by all passes, by this pass
    doc,            \* the JSON document in the file
    cap2,           \* the limit left to the fallback
    presses, signals,           \* Ctrl+C presses, SIGUSR1 signals
    permit, queue, notified,    \* the Notify: permit, waiters, a wake-up main has not seen
    spawned,        \* the watcher has not yet reached its first wait
    probed,         \* history: the candidates probed for a requested type, with the type
    emitted         \* history: the carried types of every row

args == <<request, limit, wanted>>
stream == <<unread, jobs, flight, results, paused>>
output == <<hits, items, rows, doc, emitted>>
notify == <<permit, queue, notified, spawned>>
vars == <<args, phase, outcome, stream, recorded, passed, output, cap2, presses, signals,
          notify, probed>>

Phases == {"starting1", "pass1", "deciding", "starting2", "pass2", "ended"}
Outcomes == {"running", "finished", "cancelled", "failed", "killed"}
Passes == {"pass1", "pass2"}

qs == request.quotas
HasGroups == request.groups # {}
MayFallback == Requested(qs) # {}

(* A job asks one candidate for one type, or for all types of a group.      *)
Jobs == [cand : Candidates, types : SUBSET Protocol, group : BOOLEAN]
Row == [cand : Candidates, carried : SUBSET Protocol]

TypeOK ==
    /\ request \in Requests /\ limit \in 0..MaxLimit /\ wanted \subseteq Candidates
    /\ phase \in Phases /\ outcome \in Outcomes
    /\ unread \subseteq Candidates /\ recorded \subseteq Candidates
    /\ jobs \subseteq Jobs
    /\ flight \subseteq Jobs /\ Cardinality(flight) <= Workers
    /\ results \in Seq(Row) /\ Len(results) <= ResultCap
    /\ paused \in BOOLEAN
    /\ passed \in Nat /\ items \in Nat /\ rows \in Nat /\ cap2 \in 0..MaxLimit
    /\ hits \in [Slots(qs) -> Nat]
    /\ doc \in {"empty", "open", "closed", "broken"}
    /\ presses \in 0..2 /\ signals \in 0..MaxSignals
    /\ permit \in BOOLEAN /\ notified \in BOOLEAN /\ spawned \in BOOLEAN
    /\ queue \in Seq({"main", "watcher"})

Init ==
    /\ request \in Requests /\ limit \in 0..MaxLimit /\ wanted \in SUBSET Candidates
    /\ phase = "starting1" /\ outcome = "running"
    /\ unread = Candidates /\ jobs = {} /\ flight = {} /\ results = <<>> /\ paused = FALSE
    /\ recorded = {} /\ passed = 0
    /\ hits = NoHits(qs) /\ items = 0 /\ rows = 0 /\ doc = "empty" /\ emitted = <<>>
    /\ cap2 = 0
    /\ presses = 0 /\ signals = 0
    /\ permit = FALSE /\ queue = <<>> /\ notified = FALSE /\ spawned = TRUE
    /\ probed = {}
-----------------------------------------------------------------------------
(* The Notify.  The main task registers anew in each turn of its selects; a *)
(* turn that ends otherwise gives its place up, and passes on a wake-up it  *)
(* had been given.                                                          *)
Wake ==
    IF queue = <<>>
    THEN permit' = TRUE /\ UNCHANGED <<queue, notified>>
    ELSE /\ notified' = (notified \/ Head(queue) = "main")
         /\ queue' = Tail(queue)
         /\ UNCHANGED permit

Only(waiter) == IF Contains(queue, waiter) THEN <<waiter>> ELSE <<>>

TurnEnds ==
    /\ queue' = IF notified THEN <<>> ELSE Only("watcher")
    /\ permit' = (permit \/ (notified /\ queue = <<>>))
    /\ notified' = FALSE
    /\ UNCHANGED spawned

WaitsForCancel == {"starting1", "pass1", "starting2", "pass2"}

MainWaits ==
    /\ phase \in WaitsForCancel /\ ~notified /\ ~Contains(queue, "main")
    /\ IF permit
       THEN permit' = FALSE /\ notified' = TRUE /\ UNCHANGED queue
       ELSE queue' = Append(queue, "main") /\ UNCHANGED <<permit, notified>>
    /\ UNCHANGED <<args, phase, outcome, stream, recorded, passed, output, cap2, presses,
                   signals, spawned, probed>>

WatcherWaits ==
    /\ phase # "ended" /\ spawned
    /\ spawned' = FALSE
    /\ IF permit
       THEN permit' = FALSE /\ UNCHANGED queue
       ELSE queue' = Append(queue, "watcher") /\ UNCHANGED permit
    /\ UNCHANGED <<args, phase, outcome, stream, recorded, passed, output, cap2, presses,
                   signals, notified, probed>>

(* The first press asks, the second exits the process.                      *)
CtrlC ==
    /\ phase # "ended" /\ presses < 2
    /\ presses' = presses + 1
    /\ IF presses = 0
       THEN Wake /\ UNCHANGED <<phase, outcome, spawned>>
       ELSE phase' = "ended" /\ outcome' = "killed" /\ UNCHANGED notify
    /\ UNCHANGED <<args, stream, recorded, passed, output, cap2, signals, probed>>

(* SIGUSR1 toggles the gate of the pass that runs; the watcher then waits   *)
(* again, behind the main task.                                             *)
PauseSignal ==
    /\ phase # "ended" /\ signals < MaxSignals
    /\ Contains(queue, "watcher")
    /\ signals' = signals + 1
    /\ paused' = IF phase \in Passes THEN ~paused ELSE paused
    /\ queue' = Append(Only("main"), "watcher")
    /\ UNCHANGED <<args, phase, outcome, unread, jobs, flight, results, recorded, passed,
                   output, cap2, presses, permit, notified, spawned, probed>>
-----------------------------------------------------------------------------
(* The validation run behind a pass.  The recorder sees a candidate when it *)
(* is read; its jobs follow.                                                *)
Single(c, r) == [cand |-> c, types |-> {r}, group |-> FALSE]

Read(c) ==
    /\ phase = "pass1" /\ c \in unread
    /\ unread' = unread \ {c}
    /\ recorded' = IF NeedsMissedProbe(qs, Advertised[c]) THEN recorded \cup {c} ELSE recorded
    /\ jobs' = jobs \cup {Single(c, r) : r \in AdvertisedJobs(qs, Advertised[c])}
                    \cup {[cand |-> c, types |-> g, group |-> TRUE] : g \in request.groups}
    /\ UNCHANGED <<args, phase, outcome, flight, results, paused, passed, output, cap2,
                   presses, signals, notify, probed>>

(* The probe gate: a family whose quotas are all full is not probed.        *)
Gated(j) == HasAnyQuota(qs) /\ ~j.group /\ \A r \in j.types : Closed(qs, hits, r)

GateHolds(j) == Gated(j) /\ j \in jobs /\ UNCHANGED vars

GateSkips(j) ==
    /\ phase \in Passes /\ ~paused
    /\ j \in jobs /\ Gated(j)
    /\ jobs' = jobs \ {j}
    /\ UNCHANGED <<args, phase, outcome, unread, flight, results, paused, recorded, passed,
                   output, cap2, presses, signals, notify, probed>>

ProbeStarts(j) ==
    /\ phase \in Passes /\ ~paused
    /\ j \in jobs /\ ~Gated(j)
    /\ Cardinality(flight) < Workers
    /\ jobs' = jobs \ {j}
    /\ flight' = flight \cup {j}
    /\ probed' = IF j.group THEN probed ELSE probed \cup {<<j.cand, r>> : r \in j.types}
    /\ UNCHANGED <<args, phase, outcome, unread, results, paused, recorded, passed, output,
                   cap2, presses, signals, notify>>

ProbeFails(j) ==
    /\ phase \in Passes /\ j \in flight
    /\ flight' = flight \ {j}
    /\ UNCHANGED <<args, phase, outcome, unread, jobs, results, paused, recorded, passed,
                   output, cap2, presses, signals, notify, probed>>

(* What a passing probe of these types can report: one protocol for each.   *)
Reports(types) ==
    {carried \in SUBSET Measured :
        /\ \A t \in types : \E p \in carried : Satisfies(p, t)
        /\ \A p \in carried : \E t \in types : Satisfies(p, t)
        /\ Cardinality(carried) <= Cardinality(types)}

ProbePasses(j) ==
    /\ phase \in Passes /\ j \in flight
    /\ Len(results) < ResultCap
    /\ flight' = flight \ {j}
    /\ passed' = IF phase = "pass1" THEN passed + 1 ELSE passed
    /\ \E carried \in Reports(j.types) :
            results' = Append(results, [cand |-> j.cand, carried |-> carried])
    /\ UNCHANGED <<args, phase, outcome, unread, jobs, paused, recorded, output, cap2,
                   presses, signals, notify, probed>>
-----------------------------------------------------------------------------
(* process_result: one turn of its loop takes one validated proxy.          *)
LeaveOpen == phase = "pass1" /\ MayFallback
PassLimit == IF phase = "pass1" THEN limit ELSE cap2

(* The document after one more row, and after its end: the first row opens  *)
(* it; an end without rows writes an empty array.                           *)
WithRow(d, n) == IF d = (IF n = 0 THEN "empty" ELSE "open") THEN "open" ELSE "broken"
WithEnd(d, n) == IF d = (IF n = 0 THEN "empty" ELSE "open") THEN "closed" ELSE "broken"

NeverLeftOpen(result, d, n) ==
    IF n = 0 /\ phase = "pass1" /\ MayFallback THEN d ELSE WithEnd(d, n)

(* finalize_json_output: a pass that another one may continue leaves the    *)
(* document open, and one without rows does not begin it.                   *)
Finalized(result, d, n) ==
    IF LeaveOpen /\ (result = "finished" \/ n = 0) THEN d ELSE WithEnd(d, n)

StreamDropped ==
    unread' = {} /\ jobs' = {} /\ flight' = {} /\ results' = <<>> /\ paused' = FALSE

(* The pass ends with document d of n rows; run_find returns at once unless *)
(* it was the first pass and finished.                                      *)
PassEnds(result, d, n) ==
    /\ doc' = Finalized(result, d, n)
    /\ StreamDropped
    /\ IF phase = "pass1" /\ result = "finished"
       THEN phase' = "deciding" /\ UNCHANGED outcome
       ELSE phase' = "ended" /\ outcome' = result

GoesOn(d) == doc' = d /\ UNCHANGED <<unread, jobs, flight, paused, phase, outcome>>

TakesNext(r) ==
    /\ phase \in Passes
    /\ results # <<>>
    /\ r = Head(results)

(* A proxy the filters reject does not end the turn.                        *)
FilterDrops(r) ==
    /\ TakesNext(r) /\ r.cand \notin wanted
    /\ results' = Tail(results)
    /\ UNCHANGED <<args, phase, outcome, unread, jobs, flight, paused, recorded, passed,
                   output, cap2, presses, signals, notify, probed>>

QuotaDrops(r) ==
    /\ TakesNext(r) /\ r.cand \in wanted
    /\ ~ShouldEmit(qs, hits, r.carried)
    /\ TurnEnds
    /\ IF Satisfied(qs, hits, HasGroups)
       THEN PassEnds("finished", doc, items)
       ELSE GoesOn(doc) /\ results' = Tail(results)
    /\ UNCHANGED <<args, recorded, passed, hits, items, rows, emitted, cap2, presses, signals,
                   probed>>

EmitPastLimit(r) ==
    /\ TakesNext(r) /\ r.cand \in wanted
    /\ ShouldEmit(qs, hits, r.carried)
    /\ hits' = HitsAfter(qs, hits, r.carried)
    /\ items' = items + 1 /\ rows' = rows + 1
    /\ emitted' = Append(emitted, r.carried)
    /\ TurnEnds
    /\ IF \/ PassLimit > 0 /\ rows > PassLimit
          \/ Satisfied(qs, hits', HasGroups)
       THEN PassEnds("finished", WithRow(doc, items), items + 1)
       ELSE GoesOn(WithRow(doc, items)) /\ results' = Tail(results)
    /\ UNCHANGED <<args, recorded, passed, cap2, presses, signals, probed>>

(* The row is written; --limit or full quotas end the pass.                 *)
Emit(r) ==
    /\ TakesNext(r) /\ r.cand \in wanted
    /\ ShouldEmit(qs, hits, r.carried)
    /\ hits' = HitsAfter(qs, hits, r.carried)
    /\ items' = items + 1 /\ rows' = rows + 1
    /\ emitted' = Append(emitted, r.carried)
    /\ TurnEnds
    /\ IF \/ PassLimit > 0 /\ rows + 1 >= PassLimit
          \/ Satisfied(qs, hits', HasGroups)
       THEN PassEnds("finished", WithRow(doc, items), items + 1)
       ELSE GoesOn(WithRow(doc, items)) /\ results' = Tail(results)
    /\ UNCHANGED <<args, recorded, passed, cap2, presses, signals, probed>>

(* Writing the row fails: the quota was charged, the row is not there.      *)
WriteFails(r) ==
    /\ TakesNext(r) /\ r.cand \in wanted
    /\ ShouldEmit(qs, hits, r.carried)
    /\ hits' = HitsAfter(qs, hits, r.carried)
    /\ TurnEnds
    /\ PassEnds("failed", doc, items)
    /\ UNCHANGED <<args, recorded, passed, items, rows, emitted, cap2, presses, signals, probed>>

StreamEnds ==
    /\ phase \in Passes
    /\ unread = {} /\ jobs = {} /\ flight = {} /\ results = <<>>
    /\ TurnEnds
    /\ PassEnds("finished", doc, items)
    /\ UNCHANGED <<args, recorded, passed, hits, items, rows, emitted, cap2, presses, signals,
                   probed>>

(* The main task sees the wake-up of Ctrl+C during a pass.                  *)
PassCancelled ==
    /\ phase \in Passes /\ notified
    /\ PassEnds("cancelled", doc, items)
    /\ UNCHANGED <<args, recorded, passed, hits, items, rows, emitted, cap2, presses, signals,
                   notify, probed>>
-----------------------------------------------------------------------------
(* run_find around the passes.                                              *)
Start1 ==
    /\ phase = "starting1"
    /\ phase' = "pass1"
    /\ TurnEnds
    /\ UNCHANGED <<args, outcome, stream, recorded, passed, output, cap2, presses, signals,
                   probed>>

(* No candidates, no judge online: `?` returns the error.                   *)
StartFails ==
    /\ phase \in {"starting1", "starting2"}
    /\ phase' = "ended" /\ outcome' = "failed"
    /\ UNCHANGED <<args, stream, recorded, passed, output, cap2, presses, signals, notify, probed>>

StartCancelled ==
    /\ phase \in {"starting1", "starting2"} /\ notified
    /\ phase' = "ended" /\ outcome' = "cancelled"
    /\ UNCHANGED <<args, stream, recorded, passed, output, cap2, presses, signals, notify, probed>>

Emitted1 == IF MayFallback THEN items ELSE passed

Fallback == NeedsFallback(qs, hits, HasGroups, limit, Emitted1, passed) /\ recorded # {}

GoesToPass2 ==
    /\ phase = "deciding" /\ Fallback
    /\ phase' = "starting2"
    /\ cap2' = IF limit = 0 THEN 0 ELSE limit - (IF HasAnyQuota(qs) THEN Emitted1 ELSE passed)
    /\ rows' = 0
    /\ UNCHANGED <<args, outcome, stream, recorded, passed, hits, items, doc, emitted, presses,
                   signals, notify, probed>>

SkipsPass2 ==
    /\ phase = "deciding" /\ ~Fallback
    /\ phase' = "ended" /\ outcome' = "finished"
    /\ doc' = IF MayFallback THEN WithEnd(doc, items) ELSE doc
    /\ UNCHANGED <<args, stream, recorded, passed, hits, items, rows, emitted, cap2, presses,
                   signals, notify, probed>>

Start2Everything ==
    /\ phase = "starting2"
    /\ phase' = "pass2"
    /\ jobs' = {Single(c, r) : c \in recorded, r \in Requested(qs)}
    /\ TurnEnds
    /\ UNCHANGED <<args, outcome, unread, flight, results, paused, recorded, passed, output,
                   cap2, presses, signals, probed>>

(* The fallback pass asks the recorded candidates for the types they do not *)
(* advertise.                                                               *)
Start2 ==
    /\ phase = "starting2"
    /\ phase' = "pass2"
    /\ jobs' = UNION {{Single(c, r) : r \in MissedJobs(qs, Advertised[c])} : c \in recorded}
    /\ TurnEnds
    /\ UNCHANGED <<args, outcome, unread, flight, results, paused, recorded, passed, output,
                   cap2, presses, signals, probed>>
-----------------------------------------------------------------------------
Output == \E r \in Range(results) : FilterDrops(r) \/ QuotaDrops(r) \/ Emit(r) \/ WriteFails(r)

Main ==
    \/ Output \/ StreamEnds \/ PassCancelled
    \/ Start1 \/ StartFails \/ StartCancelled \/ GoesToPass2 \/ SkipsPass2 \/ Start2

Pipeline ==
    \/ \E c \in unread : Read(c)
    \/ \E j \in jobs : GateSkips(j) \/ ProbeStarts(j)
    \/ \E j \in flight : ProbeFails(j) \/ ProbePasses(j)

Next ==
    \/ Main \/ MainWaits
    \/ Pipeline
    \/ WatcherWaits \/ CtrlC \/ PauseSignal

Spec == Init /\ [][Next]_vars
-----------------------------------------------------------------------------
(* Both passes together never write more rows than --limit.                 *)
LimitKept == limit > 0 => items <= limit

(* The rows that carry one type, of that family, and the quotas on it.      *)
RowsOf(f) == {k \in DOMAIN emitted : \E p \in emitted[k] : emitted[k] = {p} /\ p.family = f}
QuotasOn(f) == {i \in Slots(qs) : qs[i].protocol.family = f}

(* As many units as the counters add up to.                                 *)
Units(counter) == UNION {{i} \X (1..counter[i]) : i \in DOMAIN counter}

(* In a family whose quotas are all capped, no more rows are written than   *)
(* the caps add up to, though probes in flight pass after the gate closed   *)
(* and the second pass goes on with the hits of the first.                  *)
CapsKept ==
    \A f \in Families :
        (QuotasOn(f) # {} /\ \A i \in QuotasOn(f) : qs[i].capped) =>
            Cardinality(RowsOf(f)) <= Cardinality(Units([i \in QuotasOn(f) |-> qs[i].cap]))

(* A run that ends well leaves one closed JSON document, whether it took    *)
(* one pass or two and whichever of them had rows.                          *)
FinishedDocumentClosed ==
    /\ outcome = "finished" => doc = "closed"
    /\ doc # "broken"

(* No candidate is probed twice for one requested type: the fallback pass   *)
(* asks only what the first one did not.                                    *)
NothingProbedTwice ==
    [][\A j \in jobs : ProbeStarts(j) /\ ~j.group =>
            \A r \in j.types : <<j.cand, r>> \notin probed]_vars

(* The gate skips only what could not be written any more: whatever the     *)
(* probe would have reported, the quotas would have dropped.                *)
GateSkipsNothingWanted ==
    [][\A j \in jobs : GateSkips(j) =>
            \A carried \in Reports(j.types) : ~ShouldEmit(qs, hits, carried)]_vars

(* With quotas, a run that ends short of them and of --limit has asked every *)
(* candidate for every requested type whose quotas were still open.          *)
NothingLeftUnasked ==
    outcome = "finished" /\ HasAnyQuota(qs) /\ (limit = 0 \/ items < limit)
        /\ ~Satisfied(qs, hits, HasGroups) =>
            \A c \in Candidates, r \in Requested(qs) : <<c, r>> \in probed \/ Closed(qs, hits, r)

(* Every run ends, unless it stays paused.                                  *)
RunEnds == <>[](~paused) => <>(phase = "ended")

(* "graceful Ctrl+C finalization" (README): Ctrl+C leaves what was written  *)
(* as a closed document.                                                    *)
CancelledDocumentClosed ==
    outcome = "cancelled" /\ items > 0 => doc = "closed"

(* "graceful Ctrl+C finalization" (README): one press ends the run, even a  *)
(* paused one.                                                              *)
CtrlCEndsRun == presses > 0 ~> phase = "ended"
=============================================================================
