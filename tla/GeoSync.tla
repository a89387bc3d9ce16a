------------------------------ MODULE GeoSync ------------------------------
(***************************************************************************)
(* A GeoLite2 database and its revision marker (src/geolookup/mod.rs),      *)
(* shared by the flx processes of a machine: sync_one asks the mirror for a *)
(* newer revision than the marker's, ensure_database downloads a missing    *)
(* database and removes a corrupt one.  The file lock covers a download     *)
(* from its first byte to the rename, and neither the marker nor the        *)
(* removal.                                                                 *)
(***************************************************************************)
EXTENDS FiniteSetsExt, Integers

CONSTANTS
    Processes,
    MaxRevision,    \* bound: the revisions the mirror publishes
    MaxRuns         \* bound: the runs of each process

NoProcess == "no process"

ASSUME GeoAssumption ==
    /\ IsFiniteSet(Processes) /\ NoProcess \notin Processes
    /\ MaxRevision \in Nat \ {0} /\ MaxRuns \in Nat

VARIABLES
    mirror,     \* the revision the mirror serves
    database,   \* the file at its path: Missing, Corrupt or a revision
    partial,    \* its temporary file: Missing, Corrupt while it is written, or a revision
    marker,     \* the revision in the marker, or Missing
    markerTmp,  \* the temporary file of the marker
    geoLock,    \* the process that holds the download lock, or NoProcess
    process,    \* per process: [pc, op, rev, runs]
    legacy,     \* the same pair of files where older releases kept them: [database, marker]
    overlapped  \* history: two processes have been at work at the same time

geoVars == <<mirror, database, partial, marker, markerTmp, geoLock, process, legacy, overlapped>>

Missing == 0
Corrupt == -1
Working == {p \in Processes : process[p].pc # "rest"}

GeoInit ==
    /\ mirror = 1
    /\ \/ database = Corrupt /\ legacy = [database |-> Missing, marker |-> Missing]
       \/ database = Missing /\ legacy = [database |-> 1, marker |-> 1]
    /\ partial = Missing
    /\ marker = Missing /\ markerTmp = Missing /\ geoLock = NoProcess
    /\ process = [p \in Processes |-> [pc |-> "rest", op |-> "ensure", rev |-> Missing, runs |-> 0]]
    /\ overlapped = FALSE

ProcessAt(p, pc) == process[p].pc = pc
ProcessTo(p, pc) == process' = [process EXCEPT ![p].pc = pc]
FilesSame == UNCHANGED <<database, partial, marker, markerTmp>>
RestSame == UNCHANGED <<mirror, legacy, overlapped>>

GeoStarts(p, op) ==
    /\ ProcessAt(p, "rest") /\ process[p].runs < MaxRuns
    /\ process' = [process EXCEPT ![p] = [pc |-> "migrate", op |-> op, rev |-> Missing, runs |-> @.runs + 1]]
    /\ overlapped' = (overlapped \/ Working # {})
    /\ FilesSame /\ UNCHANGED <<mirror, geoLock, legacy>>

\* migrate_legacy_database: the database if there is none yet, then its marker.
Migrates(p) ==
    /\ ProcessAt(p, "migrate")
    /\ IF database = Missing /\ legacy.database # Missing
       THEN /\ database' = legacy.database /\ legacy' = [legacy EXCEPT !.database = Missing]
            /\ ProcessTo(p, "migrateMarker")
       ELSE ProcessTo(p, "begin") /\ UNCHANGED <<database, legacy>>
    /\ UNCHANGED <<mirror, partial, marker, markerTmp, geoLock, overlapped>>

MigratesMarker(p) ==
    /\ ProcessAt(p, "migrateMarker") /\ ProcessTo(p, "begin")
    /\ IF marker = Missing /\ legacy.marker # Missing
       THEN marker' = legacy.marker /\ legacy' = [legacy EXCEPT !.marker = Missing]
       ELSE UNCHANGED <<marker, legacy>>
    /\ UNCHANGED <<mirror, database, partial, markerTmp, geoLock, overlapped>>

\* The revision asked about is the marker's, read now, if the database opens.
Begins(p) ==
    /\ ProcessAt(p, "begin")
    /\ process' = [process EXCEPT
          ![p].pc = IF process[p].op = "sync" \/ database = Missing THEN "ask" ELSE "open",
          ![p].rev = IF process[p].op = "sync" /\ database > Missing THEN marker ELSE Missing]
    /\ FilesSame /\ RestSame /\ UNCHANGED geoLock

\* fetch_database: not modified, or a response that is the revision of this moment.
Asks(p) ==
    /\ ProcessAt(p, "ask")
    /\ IF process[p].rev = mirror THEN ProcessTo(p, "rest")
       ELSE process' = [process EXCEPT ![p].pc = "lock", ![p].rev = mirror]
    /\ FilesSame /\ RestSame /\ UNCHANGED geoLock

\* The mirror cannot be reached, or the lock is not free in five seconds.
GivesUpEarly(p) ==
    /\ process[p].pc \in {"ask", "lock"} /\ ProcessTo(p, "rest")
    /\ FilesSame /\ RestSame /\ UNCHANGED geoLock

LocksPart(p) ==
    /\ ProcessAt(p, "lock") /\ geoLock = NoProcess
    /\ geoLock' = p /\ partial' = Corrupt /\ ProcessTo(p, "body")
    /\ RestSame /\ UNCHANGED <<database, marker, markerTmp>>

BodyEnds(p) ==
    /\ ProcessAt(p, "body")
    /\ partial' = process[p].rev /\ ProcessTo(p, "install")
    /\ RestSame /\ UNCHANGED <<database, marker, markerTmp, geoLock>>

\* The stream broke or the file is no database: the partial file goes, the lock too.
BodyFails(p) ==
    /\ process[p].pc \in {"body", "install"}
    /\ partial' = Missing /\ geoLock' = NoProcess /\ ProcessTo(p, "rest")
    /\ RestSame /\ UNCHANGED <<database, marker, markerTmp>>

Installs(p) ==
    /\ ProcessAt(p, "install")
    /\ database' = partial /\ partial' = Missing /\ geoLock' = NoProcess
    /\ ProcessTo(p, IF process[p].op = "sync" THEN "mark" ELSE "open")
    /\ RestSame /\ UNCHANGED <<marker, markerTmp>>

\* Mutant: the marker is due as soon as the mirror has answered.
MarksEarly(p) ==
    /\ process[p].pc \in {"lock", "mark"} /\ process[p].op = "sync"
    /\ markerTmp' = process[p].rev
    /\ ProcessTo(p, "renameMarker")
    /\ RestSame /\ UNCHANGED <<database, partial, marker, geoLock>>

\* write_synced_etag, outside the lock: write, then rename whatever is there by then.
Marks(p) ==
    /\ ProcessAt(p, "mark")
    /\ markerTmp' = process[p].rev /\ ProcessTo(p, "renameMarker")
    /\ RestSame /\ UNCHANGED <<database, partial, marker, geoLock>>

RenamesMarker(p) ==
    /\ ProcessAt(p, "renameMarker") /\ ProcessTo(p, "rest")
    /\ IF markerTmp = Missing THEN UNCHANGED <<marker, markerTmp>>
       ELSE marker' = markerTmp /\ markerTmp' = Missing
    /\ RestSame /\ UNCHANGED <<database, partial, geoLock>>

\* ensure_database: an unreadable file is removed in a step of its own.
Opens(p) ==
    /\ ProcessAt(p, "open")
    /\ ProcessTo(p, IF database = Corrupt THEN "remove" ELSE "rest")
    /\ FilesSame /\ RestSame /\ UNCHANGED geoLock

Removes(p) ==
    /\ ProcessAt(p, "remove") /\ ProcessTo(p, "rest")
    /\ database' = Missing
    /\ RestSame /\ UNCHANGED <<partial, marker, markerTmp, geoLock>>

\* A process may end anywhere; the system gives its lock back.
Dies(p) ==
    /\ ~ProcessAt(p, "rest") /\ ProcessTo(p, "rest")
    /\ geoLock' = IF geoLock = p THEN NoProcess ELSE geoLock
    /\ FilesSame /\ RestSame

MirrorMoves ==
    /\ mirror < MaxRevision /\ mirror' = mirror + 1
    /\ FilesSame /\ UNCHANGED <<geoLock, process, legacy, overlapped>>

GeoNext ==
    \/ \E p \in Processes :
        \/ GeoStarts(p, "sync") \/ GeoStarts(p, "ensure")
        \/ Migrates(p) \/ MigratesMarker(p) \/ Begins(p) \/ Asks(p) \/ GivesUpEarly(p)
        \/ LocksPart(p) \/ BodyEnds(p) \/ BodyFails(p) \/ Installs(p)
        \/ Marks(p) \/ RenamesMarker(p) \/ Opens(p) \/ Removes(p) \/ Dies(p)
    \/ MirrorMoves

GeoSpec == GeoInit /\ [][GeoNext]_geoVars
-----------------------------------------------------------------------------
GeoStages ==
    {"rest", "migrate", "migrateMarker", "begin", "ask", "lock", "body", "install", "mark", "renameMarker",
     "open", "remove"}

GeoTypeOK ==
    /\ mirror \in 1..MaxRevision
    /\ database \in (0..MaxRevision) \cup {Corrupt} /\ partial \in (0..MaxRevision) \cup {Corrupt}
    /\ marker \in 0..MaxRevision /\ markerTmp \in 0..MaxRevision
    /\ geoLock \in Processes \cup {NoProcess}
    /\ process \in [Processes -> [pc : GeoStages, op : {"sync", "ensure"}, rev : 0..MaxRevision, runs : 0..MaxRuns]]
    /\ legacy \in [database : {Missing, 1}, marker : {Missing, 1}]
    /\ overlapped \in BOOLEAN

\* The marker names a revision newer than a database that opens only if two processes were
\* at work at once (geolookup/mod.rs:503): a crash or a failure alone never hides an update.
StaleOnlyByOverlap == database > Missing /\ marker > database => overlapped
=============================================================================
