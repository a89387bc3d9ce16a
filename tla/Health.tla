------------------------------- MODULE Health -------------------------------
(***************************************************************************)
(* The health store (src/health.rs, src/file_util.rs): a file of one JSON   *)
(* line per probe, appended under a lock by all probes of the process, and  *)
(* statistics in memory that a restart rebuilds from the file.  A write is  *)
(* handed to the blocking pool, which goes on with it although the recorder *)
(* is cut at an await: a dropped validator cancels its recorders, and the   *)
(* store goes on with the next pass.  A write may be cut by a full disk, by *)
(* a crash, or refused because the runtime shuts down; the last one poisons *)
(* the handle.                                                              *)
(***************************************************************************)
EXTENDS SequencesExt, FiniteSetsExt, Integers

CONSTANTS
    Recorders,      \* the workers that record probes
    RecordsEach,    \* bound: records per worker
    MaxFaults,      \* bound: cut writes, refused writes and crashes together
    MaxDrops        \* bound: validators dropped with recorders under way

Nobody == "nobody"

ASSUME HealthAssumption ==
    /\ IsFiniteSet(Recorders) /\ Nobody \notin Recorders
    /\ RecordsEach \in Nat \ {0} /\ MaxFaults \in Nat /\ MaxDrops \in Nat

VARIABLES
    lines,      \* the ended lines of the file, each a sequence of pieces
    tail,       \* the pieces after the last line end
    memory,     \* the records HealthStore.state has counted
    writer,     \* who holds the writer lock, or Nobody
    handle,     \* "good", or "poisoned" by a refused write
    inflight,   \* the write the handle waits for: [state, of], or NoWrite
    recorder,   \* per recorder: [pc, n], the stage of its n-th record
    acked,      \* history: the records whose call returned Ok
    torn,       \* history: appends that left a line without its end
    drops,      \* history: validators dropped with recorders under way
    faults

healthVars == <<lines, tail, memory, writer, handle, inflight, recorder, acked, torn, drops, faults>>

Records == Recorders \X (1..RecordsEach)
RecordOf(p) == <<p, recorder[p].n>>
NoWrite == [state |-> "none", of |-> <<>>]

HealthInit ==
    /\ lines = <<>> /\ tail = <<>> /\ memory = {} /\ writer = Nobody /\ handle = "good" /\ inflight = NoWrite
    /\ recorder = [p \in Recorders |-> [pc |-> "idle", n |-> 0]]
    /\ acked = {} /\ torn = 0 /\ drops = 0 /\ faults = 0

\* load_state: a line counts if it is one whole record and nothing else.
Decoded == {r \in Records :
              \E i \in DOMAIN lines : lines[i] \in {<<<<r, "all">>>>, <<<<r, "front">>, <<r, "rest">>>>}}

At(p, pc) == recorder[p].pc = pc
Goto(p, pc) == recorder' = [recorder EXCEPT ![p].pc = pc]
Fault == faults < MaxFaults /\ faults' = faults + 1
FileSame == UNCHANGED <<lines, tail>>
HistorySame == UNCHANGED <<memory, acked, torn, drops>>
Unlocks == writer' = Nobody /\ inflight' = NoWrite

RecordStarts(p) ==
    /\ At(p, "idle") /\ recorder[p].n < RecordsEach
    /\ recorder' = [recorder EXCEPT ![p] = [pc |-> "append", n |-> @.n + 1]]
    /\ FileSame /\ HistorySame /\ UNCHANGED <<writer, handle, inflight, faults>>

\* append: "append" is the first try, "again" the one after the handle was replaced.
LocksWriter(p) ==
    /\ writer = Nobody
    /\ \/ At(p, "append") /\ Goto(p, "writing")
       \/ At(p, "again") /\ Goto(p, "rewriting")
    /\ writer' = p
    /\ FileSame /\ HistorySame /\ UNCHANGED <<handle, inflight, faults>>

\* The handle takes a write when the one before it, of a cancelled recorder, is through.
Writing(p) == writer = p /\ recorder[p].pc \in {"writing", "rewriting"}
Ready == handle = "good" /\ inflight.state \in {"none", "done"}

HandsOver(p) ==
    /\ Writing(p) /\ Ready
    /\ inflight' = [state |-> "queued", of |-> RecordOf(p)] /\ Goto(p, "flushing")
    /\ FileSame /\ HistorySame /\ UNCHANGED <<writer, handle, faults>>

\* The write of a cancelled recorder failed: this recorder gets its error.
PreviousFailed(p) ==
    /\ Writing(p) /\ handle = "good" /\ inflight.state = "failed"
    /\ Goto(p, "idle") /\ Unlocks
    /\ FileSame /\ HistorySame /\ UNCHANGED <<handle, faults>>

\* The runtime shuts down: nothing is written and the handle is poisoned.  The first try
\* asks for a new handle, the second one gives up.
WriteRefused(p) ==
    /\ Writing(p) /\ Ready /\ Fault
    /\ handle' = "poisoned" /\ Unlocks
    /\ Goto(p, IF At(p, "writing") THEN "reopen" ELSE "idle")
    /\ FileSame /\ HistorySame

\* reopen_after_shutdown: the new handle is there, or cannot be opened either.  A poisoned
\* handle has no write under way, so nothing is left with the old one.
Reopens(p) ==
    /\ At(p, "reopen")
    /\ \/ writer = Nobody /\ handle' = "good" /\ Goto(p, "again")
       \/ Goto(p, "idle") /\ UNCHANGED handle
    /\ FileSame /\ HistorySame /\ UNCHANGED <<writer, inflight, faults>>

\* The blocking pool's part.  A write adds a piece to the open line; the line end comes
\* with the last piece.
PoolMoves(state) == inflight' = [inflight EXCEPT !.state = state]
PoolOnly == HistorySame /\ UNCHANGED <<writer, handle, recorder>>
Adds(piece) == tail' = Append(tail, <<inflight.of, piece>>) /\ UNCHANGED lines
Ends(piece) == lines' = Append(lines, Append(tail, <<inflight.of, piece>>)) /\ tail' = <<>>

PoolWritesAll == inflight.state = "queued" /\ Ends("all") /\ PoolMoves("done") /\ PoolOnly /\ UNCHANGED faults

PoolWritesFront == inflight.state = "queued" /\ Fault /\ Adds("front") /\ PoolMoves("half") /\ PoolOnly

PoolWritesRest == inflight.state = "half" /\ Ends("rest") /\ PoolMoves("done") /\ PoolOnly /\ UNCHANGED faults

\* The disk is full, at once or after the front.
PoolFails ==
    /\ \/ inflight.state = "queued" /\ Fault /\ UNCHANGED torn
       \/ inflight.state = "half" /\ torn' = torn + 1 /\ UNCHANGED faults
    /\ PoolMoves("failed")
    /\ FileSame /\ UNCHANGED <<memory, acked, drops, writer, handle, recorder>>

\* flush tells that the write is through, and the record is counted: no await between.
Flushes(p) ==
    /\ At(p, "flushing") /\ inflight.state = "done"
    /\ Goto(p, "idle") /\ Unlocks
    /\ memory' = memory \union {RecordOf(p)} /\ acked' = acked \union {RecordOf(p)}
    /\ FileSame /\ UNCHANGED <<handle, torn, drops, faults>>

\* Mutant: the failed append is not reported to the caller.
FlushFailsQuietly(p) ==
    /\ At(p, "flushing") /\ inflight.state = "failed"
    /\ Goto(p, "idle") /\ Unlocks
    /\ memory' = memory \union {RecordOf(p)} /\ acked' = acked \union {RecordOf(p)}
    /\ FileSame /\ UNCHANGED <<handle, torn, drops, faults>>

\* The write failed: the caller gets the error.
FlushFails(p) ==
    /\ At(p, "flushing") /\ inflight.state = "failed"
    /\ Goto(p, "idle") /\ Unlocks
    /\ FileSame /\ HistorySame /\ UNCHANGED <<handle, faults>>

\* The recorders in S end where they are, their lock is free, and the write stays with the handle.
Cut(S) ==
    /\ S # {} /\ \A p \in S : ~At(p, "idle")
    /\ recorder' = [p \in Recorders |-> IF p \in S THEN [recorder[p] EXCEPT !.pc = "idle"] ELSE recorder[p]]
    /\ writer' = IF writer \in S THEN Nobody ELSE writer
    /\ FileSame /\ UNCHANGED <<memory, acked, torn, handle, inflight, faults>>

\* A validator is dropped: its manager task is aborted with the recorders it runs.
ValidatorDropped(S) == drops < MaxDrops /\ drops' = drops + 1 /\ Cut(S)

\* A recorder that comes between the refused write and the new handle panics: its manager
\* unwinds with all the recorders it runs.
MeetsPoison(S) == writer \in S /\ Writing(writer) /\ handle = "poisoned" /\ Cut(S) /\ UNCHANGED drops

\* The process ends anywhere, the store is opened again.
Restarts ==
    /\ Fault
    /\ torn' = IF inflight.state = "half" THEN torn + 1 ELSE torn
    /\ memory' = Decoded /\ handle' = "good" /\ Unlocks
    /\ recorder' = [p \in Recorders |-> [recorder[p] EXCEPT !.pc = "idle"]]
    /\ FileSame /\ UNCHANGED <<acked, drops>>

HealthNext ==
    \/ \E p \in Recorders :
        \/ RecordStarts(p) \/ LocksWriter(p) \/ HandsOver(p) \/ PreviousFailed(p) \/ WriteRefused(p)
        \/ Reopens(p) \/ Flushes(p) \/ FlushFails(p)
    \/ PoolWritesAll \/ PoolWritesFront \/ PoolWritesRest \/ PoolFails
    \/ \E S \in SUBSET Recorders : ValidatorDropped(S) \/ MeetsPoison(S)
    \/ Restarts

HealthSpec == HealthInit /\ [][HealthNext]_healthVars
-----------------------------------------------------------------------------
LinePieces == Records \X {"all", "front", "rest"}
RecorderStages == {"idle", "append", "writing", "flushing", "reopen", "again", "rewriting"}
WriteStates == {"none", "queued", "half", "done", "failed"}

HealthTypeOK ==
    /\ lines \in Seq(Seq(LinePieces)) /\ tail \in Seq(LinePieces)
    /\ memory \subseteq Records /\ acked \subseteq Records
    /\ writer \in Recorders \cup {Nobody} /\ handle \in {"good", "poisoned"}
    /\ inflight \in [state : WriteStates \ {"none"}, of : Records] \cup {NoWrite}
    /\ recorder \in [Recorders -> [pc : RecorderStages, n : 0..RecordsEach]]
    /\ torn \in Nat /\ drops \in 0..MaxDrops /\ faults \in 0..MaxFaults

\* The records of the calls that wait for their write.
Awaited == {r \in Records : At(r[1], "flushing") /\ recorder[r[1]].n = r[2]}

\* A record reported as written survives a restart, but for the one that a torn line before
\* it swallows: every torn append costs at most one later record, of the file and of the
\* statistics in memory.  The other way round, what is in the file is counted when its call
\* returns (health.rs:211), but for the record whose recorder a dropped validator cancels
\* between the hand-over and the end of its write (validator/mod.rs:706): every drop costs
\* the statistics of this process at most one record.
TornAppendCostsOne ==
    /\ Cardinality(acked \ Decoded) <= torn
    /\ Cardinality(memory \ Decoded) <= torn
    /\ Cardinality((Decoded \ memory) \ Awaited) <= drops
=============================================================================
