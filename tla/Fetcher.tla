------------------------------- MODULE Fetcher -------------------------------
(***************************************************************************)
(* The candidate stream (ProxyFetcher in src/fetcher/mod.rs, spawn_phase     *)
(* and do_work in src/fetcher/phase.rs, DedupTable in src/fetcher/dedup.rs). *)
(* A coordinator scrapes the primary sources and, if they do not yield       *)
(* enough, the fallback sources; every source has a task, and the body it    *)
(* fetched has a parser on a blocking thread that outlives an abort of its   *)
(* task.  All rows go over one bounded channel to one consumer, which drops  *)
(* duplicates and unwanted countries and tells the coordinator to stop once  *)
(* it accepted enough.                                                       *)
(***************************************************************************)
EXTENDS SequencesExt, FiniteSetsExt, Integers

CONSTANTS
    Source,         \* per source: [tier, host, url, rows]
    Capacity,       \* FETCH_CHANNEL_CAPACITY
    Threshold,      \* fallback_threshold, or NoThreshold
    FallbackTimed,  \* fallback_phase_timeout is set
    Concurrency,    \* concurrency_limit
    HostLimit,      \* DEFAULT_HOST_CONCURRENCY_LIMIT
    MaxAttempts,    \* MAX_FETCH_ATTEMPTS
    DedupCapacity,  \* MAX_DEDUP_ENDPOINTS
    Wanted          \* the rows the country filters let through

Sources == DOMAIN Source
Tier(t) == {s \in Sources : Source[s].tier = t}
Rows(s) == Source[s].rows
Urls == {Source[s].url : s \in Sources}
Hosts == {Source[s].host : s \in Sources}
AllRows == UNION {ToSet(Rows(s)) : s \in Sources}
NoThreshold == -1

ASSUME FetcherAssumption ==
    /\ Capacity \in Nat \ {0} /\ Threshold \in Nat \union {NoThreshold}
    /\ FallbackTimed \in BOOLEAN
    /\ Concurrency \in Nat \ {0} /\ HostLimit \in Nat \ {0}
    /\ MaxAttempts \in Nat \ {0} /\ DedupCapacity \in Nat \ {0}
    /\ \A s \in Sources : Source[s].tier \in {"primary", "fallback"} /\ Rows(s) \in Seq(AllRows)
    /\ \A s, t \in Sources : Source[s].url = Source[t].url => Rows(s) = Rows(t)

VARIABLES
    task,           \* where the task of each source stands
    tries,          \* fetch attempts left to each task
    parser,         \* the parser of each source: row to send next, 0 if none runs
    parsed,         \* how many rows the finished parser of each source returned
    sent,           \* the next cached row each task sends
    chan,           \* the channel to the consumer
    open,           \* the consumer still holds the fetcher
    prefetched,     \* at most one row taken from the channel ahead of time
    seen, order,    \* DedupTable
    inserted,       \* history: the rows that entered the DedupTable
    accepted,       \* rows given to the consumer
    stop,           \* the value of the watch channel
    coord,          \* where the coordinator stands
    cache,          \* the rows cached per URL, <<>> if none
    offline,        \* Config::offline of this run
    ended,          \* the consumer saw the end of the stream
    cut             \* history: some task was aborted or stopped early

taskVars == <<task, tries, parser, parsed, sent, cache>>
readVars == <<prefetched, seen, order, inserted, accepted, stop, ended>>
fetchVars == <<taskVars, chan, open, readVars, coord, offline, cut>>

Resting == {"unborn", "done", "failed", "aborted"}
Alive(S) == \E s \in S : task[s] \notin Resting
Parsing == {s \in Sources : parser[s] > 0}

FetchInit ==
    /\ task = [s \in Sources |-> IF s \in Tier("primary") THEN "spawned" ELSE "unborn"]
    /\ tries = [s \in Sources |-> MaxAttempts]
    /\ parser = [s \in Sources |-> 0] /\ parsed = [s \in Sources |-> 0]
    /\ sent = [s \in Sources |-> 1]
    /\ chan = <<>> /\ open = TRUE /\ prefetched = <<>>
    /\ seen = {} /\ order = <<>> /\ inserted = <<>> /\ accepted = 0
    /\ stop = FALSE /\ coord = "primary" /\ ended = FALSE /\ cut = FALSE
    /\ \E U \in SUBSET Urls : cache = [u \in Urls |->
            IF u \in U THEN Rows(CHOOSE s \in Sources : Source[s].url = u) ELSE <<>>]
    /\ offline \in BOOLEAN
-----------------------------------------------------------------------------
(* do_work, one task per source.                                             *)

Moves(s, from, to) == task[s] = from /\ task' = [task EXCEPT ![s] = to]
OnlyTask == UNCHANGED <<tries, parser, parsed, sent, cache, chan, open, readVars, coord, offline>>

Begin(s) ==
    /\ Moves(s, "spawned", IF stop THEN "done" ELSE "loading")
    /\ cut' = (cut \/ stop)
    /\ OnlyTask

\* load_rows answered: replay the rows, give up offline, or queue for the network.
Load(s) ==
    LET hit == cache[Source[s].url] # <<>>
    IN  /\ Moves(s, "loading", IF hit THEN (IF stop THEN "done" ELSE "replaying")
                              ELSE IF offline THEN "done" ELSE "queued")
        /\ cut' = (cut \/ (hit /\ stop) \/ (~hit /\ offline))
        /\ OnlyTask

\* Mutant: a task that tries again keeps the permit of its host.
OnHostKept(h) ==
    {s \in Sources : /\ Source[s].host = h
                     /\ \/ task[s] \in {"hosted", "fetching"}
                        \/ task[s] = "queued" /\ tries[s] < MaxAttempts}

\* A request holds a permit of its host while it waits for one of the run.
OnHost(h) == {s \in Sources : Source[s].host = h /\ task[s] \in {"hosted", "fetching"}}
Fetching == {s \in Sources : task[s] = "fetching"}

AcquireHost(s) ==
    /\ Cardinality(OnHost(Source[s].host)) < HostLimit
    /\ Moves(s, "queued", "hosted")
    /\ OnlyTask /\ UNCHANGED cut

AcquireGlobal(s) ==
    /\ Cardinality(Fetching) < Concurrency
    /\ Moves(s, "hosted", "fetching")
    /\ OnlyTask /\ UNCHANGED cut

\* The body arrived: a parser thread starts to send its rows.
Fetch(s) ==
    /\ Moves(s, "fetching", "parsing")
    /\ parser' = [parser EXCEPT ![s] = 1]
    /\ UNCHANGED <<tries, parsed, sent, cache, chan, open, readVars, coord, offline, cut>>

\* A transient failure is tried again after giving both permits back.
FetchFails(s) ==
    /\ \/ tries[s] > 1 /\ Moves(s, "fetching", "queued")
       \/ Moves(s, "fetching", "failed")
    /\ tries' = [tries EXCEPT ![s] = @ - 1]
    /\ UNCHANGED <<parser, parsed, sent, cache, chan, open, readVars, coord, offline, cut>>

\* blocking_send waits for room and fails once the receiver is closed, which ends the
\* parse; a parse that got to the last row is complete.
ParserSends(s) ==
    /\ parser[s] \in 1..Len(Rows(s))
    /\ open /\ Len(chan) < Capacity
    /\ chan' = Append(chan, Rows(s)[parser[s]])
    /\ parser' = [parser EXCEPT ![s] = @ + 1]
    /\ UNCHANGED <<task, tries, parsed, sent, cache, open, readVars, coord, offline, cut>>

\* Mutant: a parse cut by the closed channel counts as complete.
ParserEndsComplete(s, closed) ==
    /\ parser[s] > 0 /\ closed = (parser[s] <= Len(Rows(s)))
    /\ closed => ~open
    /\ parser' = [parser EXCEPT ![s] = 0]
    /\ parsed' = [parsed EXCEPT ![s] = IF closed THEN parser[s] ELSE Len(Rows(s))]
    /\ task' = [task EXCEPT ![s] = IF @ = "parsing" THEN "storing" ELSE @]
    /\ UNCHANGED <<tries, sent, cache, chan, open, readVars, coord, offline, cut>>

\* A parse that was cut has collected the row it could not send.
ParserEnds(s, closed) ==
    /\ parser[s] > 0 /\ closed = (parser[s] <= Len(Rows(s)))
    /\ closed => ~open
    /\ parser' = [parser EXCEPT ![s] = 0]
    /\ parsed' = [parsed EXCEPT ![s] = IF closed THEN parser[s] ELSE Len(Rows(s))]
    /\ task' = [task EXCEPT ![s] = IF @ # "parsing" THEN @ ELSE IF closed THEN "done" ELSE "storing"]
    /\ UNCHANGED <<tries, sent, cache, chan, open, readVars, coord, offline, cut>>

\* The list cannot be read on: the rows sent so far stay sent, and the task fails.
ParserFails(s) ==
    /\ parser[s] > 0
    /\ parser' = [parser EXCEPT ![s] = 0]
    /\ task' = [task EXCEPT ![s] = IF @ = "parsing" THEN "failed" ELSE @]
    /\ UNCHANGED <<tries, parsed, sent, cache, chan, open, readVars, coord, offline, cut>>

\* store_rows: the rows the parser returned, or nothing if the file cannot be written.
Store(s) ==
    /\ Moves(s, "storing", "done")
    /\ \/ cache' = [cache EXCEPT ![Source[s].url] = SubSeq(Rows(s), 1, parsed[s])]
       \/ UNCHANGED cache
    /\ UNCHANGED <<tries, parser, parsed, sent, chan, open, readVars, coord, offline, cut>>

Replay(s) ==
    LET list == cache[Source[s].url]
    IN  /\ task[s] = "replaying"
        /\ \/ /\ sent[s] <= Len(list) /\ open /\ Len(chan) < Capacity
              /\ chan' = Append(chan, list[sent[s]])
              /\ sent' = [sent EXCEPT ![s] = @ + 1] /\ UNCHANGED task
           \/ /\ sent[s] > Len(list) \/ ~open
              /\ task' = [task EXCEPT ![s] = "done"] /\ UNCHANGED <<sent, chan>>
        /\ UNCHANGED <<tries, parser, parsed, cache, open, readVars, coord, offline, cut>>
-----------------------------------------------------------------------------
(* The coordinator.  Aborting a task does not stop its parser.               *)

Aborted(S) == [s \in Sources |-> IF s \in S /\ task[s] \notin Resting THEN "aborted" ELSE task[s]]
Aborts(S) == task' = Aborted(S) /\ cut' = (cut \/ Alive(S))
OnlyCoord == UNCHANGED <<tries, parser, parsed, sent, cache, chan, open, readVars, offline>>

\* The primary phase ends when its tasks are joined, after the grace period, or on stop.
PrimaryEnds ==
    /\ coord = "primary" /\ coord' = "deciding"
    /\ \/ ~Alive(Tier("primary")) /\ UNCHANGED <<task, cut>>
       \/ UNCHANGED <<task, cut>>
       \/ stop /\ Aborts(Tier("primary"))
    /\ OnlyCoord

\* Mutant: the rows the filters dropped count as well.
EnoughSeen == Threshold # NoThreshold /\ Len(inserted) >= Threshold

Enough == Threshold # NoThreshold /\ accepted >= Threshold

SkipFallback ==
    /\ coord = "deciding" /\ (stop \/ Enough)
    /\ coord' = "ended" /\ Aborts(Tier("primary"))
    /\ OnlyCoord

StartFallback ==
    /\ coord = "deciding" /\ ~stop /\ ~Enough
    /\ task' = [s \in Sources |-> IF task[s] = "unborn" THEN "spawned" ELSE task[s]]
    /\ coord' = "both"
    /\ OnlyCoord /\ UNCHANGED cut

\* Both phases run until the primary one is joined, aborted by its timeout, or stopped.
PrimaryOver ==
    /\ coord = "both"
    /\ \/ coord' = "fallback" /\ ~Alive(Tier("primary")) /\ UNCHANGED <<task, cut>>
       \/ coord' = "fallback" /\ Aborts(Tier("primary"))
       \/ coord' = "ended" /\ stop /\ Aborts(Sources)
    /\ OnlyCoord

FallbackOver ==
    /\ coord = "fallback" /\ coord' = "ended"
    /\ \/ ~Alive(Tier("fallback")) /\ UNCHANGED <<task, cut>>
       \/ (FallbackTimed \/ stop) /\ Aborts(Tier("fallback"))
    /\ OnlyCoord

\* The runtime drops the aborted coordinator, and with it the tasks of both phases.
Cancelled ==
    /\ coord = "cancelled" /\ coord' = "ended"
    /\ Aborts(Sources)
    /\ OnlyCoord
-----------------------------------------------------------------------------
(* The consumer.                                                             *)

\* DedupTable::insert: a ring of the newest endpoints.
Remember(row) ==
    LET full == Cardinality(seen) = DedupCapacity
    IN  /\ seen' = (IF full THEN seen \ {Head(order)} ELSE seen) \union {row}
        /\ order' = Append(IF full THEN Tail(order) ELSE order, row)
        /\ inserted' = Append(inserted, row)

FirstRow(row) == IF prefetched # <<>> THEN prefetched = <<row>> ELSE chan # <<>> /\ row = Head(chan)
Rest == IF prefetched # <<>> THEN chan ELSE Tail(chan)

\* A row that is not given out: the consumer goes on with the next one.
Reject(row) ==
    /\ open /\ FirstRow(row)
    /\ IF row \in seen THEN UNCHANGED <<seen, order, inserted>>
       ELSE row \notin Wanted /\ Remember(row)
    /\ prefetched' = <<>> /\ chan' = Rest
    /\ UNCHANGED <<taskVars, open, accepted, stop, ended, coord, offline, cut>>

\* Mutant: the row taken ahead is thrown away.
AcceptForgets(row) ==
    /\ open /\ FirstRow(row) /\ row \notin seen /\ row \in Wanted
    /\ Remember(row)
    /\ accepted' = accepted + 1
    /\ stop' = (stop \/ (Threshold # NoThreshold /\ accepted + 1 >= Threshold))
    /\ prefetched' = <<>> /\ chan' = (IF Rest = <<>> THEN <<>> ELSE Tail(Rest))
    /\ UNCHANGED <<taskVars, open, ended, coord, offline, cut>>

\* A row that is given out; the next one, if there, is taken from the channel at once,
\* and the first row to reach the threshold stops the coordinator.
Accept(row) ==
    /\ open /\ FirstRow(row) /\ row \notin seen /\ row \in Wanted
    /\ Remember(row)
    /\ accepted' = accepted + 1
    /\ stop' = (stop \/ (Threshold # NoThreshold /\ accepted + 1 >= Threshold))
    /\ prefetched' = (IF Rest = <<>> THEN <<>> ELSE <<Head(Rest)>>)
    /\ chan' = (IF Rest = <<>> THEN <<>> ELSE Tail(Rest))
    /\ UNCHANGED <<taskVars, open, ended, coord, offline, cut>>

\* recv gives None once every sender is gone: coordinator, tasks and parsers.
EndOfStream ==
    /\ open /\ ~ended /\ prefetched = <<>> /\ chan = <<>>
    /\ coord = "ended" /\ ~Alive(Sources) /\ Parsing = {}
    /\ ended' = TRUE
    /\ UNCHANGED <<taskVars, chan, open, prefetched, seen, order, inserted, accepted, stop, coord, offline, cut>>

\* Drop closes the receiver and asks for the abort of the coordinator.
DropFetcher ==
    /\ open /\ open' = FALSE
    /\ coord' = IF coord = "ended" THEN coord ELSE "cancelled"
    /\ chan' = <<>> /\ prefetched' = <<>>
    /\ UNCHANGED <<taskVars, seen, order, inserted, accepted, stop, ended, offline, cut>>

TaskStep(s) ==
    \/ Begin(s) \/ Load(s) \/ AcquireHost(s) \/ AcquireGlobal(s)
    \/ Fetch(s) \/ FetchFails(s) \/ Store(s) \/ Replay(s)
ParserStep(s) == ParserSends(s) \/ ParserEnds(s, FALSE) \/ ParserEnds(s, TRUE) \/ ParserFails(s)
CoordStep == PrimaryEnds \/ SkipFallback \/ StartFallback \/ PrimaryOver \/ FallbackOver \/ Cancelled
Consume == EndOfStream \/ \E row \in AllRows : Reject(row) \/ Accept(row)

FetchNext ==
    \/ \E s \in Sources : TaskStep(s) \/ ParserStep(s)
    \/ CoordStep \/ Consume \/ DropFetcher

FetchSpec == FetchInit /\ [][FetchNext]_fetchVars

\* The runtime does not stop while a task or a thread can run, a request ends by its
\* timeout, and the consumer goes on reading unless it drops the fetcher.
Running == CoordStep \/ Consume \/ \E s \in Sources : TaskStep(s) \/ ParserStep(s)
-----------------------------------------------------------------------------
(* Properties.                                                               *)

Stages == Resting \cup {"spawned", "loading", "replaying", "queued", "hosted", "fetching", "parsing", "storing"}

FetchTypeOK ==
    /\ task \in [Sources -> Stages]
    /\ tries \in [Sources -> 0..MaxAttempts]
    /\ parser \in [Sources -> Nat] /\ parsed \in [Sources -> Nat] /\ sent \in [Sources -> Nat \ {0}]
    /\ chan \in Seq(AllRows) /\ Len(chan) <= Capacity
    /\ prefetched \in Seq(AllRows) /\ Len(prefetched) <= 1
    /\ seen \subseteq AllRows /\ order \in Seq(AllRows) /\ inserted \in Seq(AllRows)
    /\ accepted \in Nat
    /\ coord \in {"primary", "deciding", "both", "fallback", "ended", "cancelled"}
    /\ cache \in [Urls -> Seq(AllRows)]
    /\ open \in BOOLEAN /\ stop \in BOOLEAN /\ offline \in BOOLEAN /\ ended \in BOOLEAN /\ cut \in BOOLEAN

\* The end of the stream means that everything was read: unless a task was cut short or
\* failed, every wanted row of every source was handed to the consumer.
NothingLost ==
    ended /\ ~cut /\ (\A s \in Sources : task[s] = "done") => AllRows \subseteq ToSet(inserted)

\* The cache holds whole lists only, although a drop or a stop may cut a parse anywhere.
CachedMeansComplete ==
    \A s \in Sources : cache[Source[s].url] \in {<<>>, Rows(s)}

\* A stream that ends short of the threshold has started every source: neither filtered nor
\* repeated rows count as found (mod.rs:257).
FallbackWhenShort ==
    ended /\ Threshold # NoThreshold /\ accepted < Threshold => \A s \in Sources : task[s] # "unborn"

\* Whatever is aborted, blocked on a full channel or dropped, tasks, parsers and the
\* coordinator end, and a consumer that keeps reading sees the end of the stream.
EverythingEnds ==
    <>[](coord = "ended" /\ ~Alive(Sources) /\ Parsing = {} /\ (ended \/ ~open))
=============================================================================
