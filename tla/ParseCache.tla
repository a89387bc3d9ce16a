----------------------------- MODULE ParseCache -----------------------------
(***************************************************************************)
(* The cache of parsed rows (src/fetcher/cache.rs) for one URL: tasks of    *)
(* one process write the same temporary file and rename it into place,      *)
(* readers decode what is there and remember it by its modification time.   *)
(* The file is not synced: a power failure may leave any prefix of it.      *)
(***************************************************************************)
EXTENDS SequencesExt, FiniteSetsExt, Integers

CONSTANTS
    List,       \* per writing task: the rows it stores, each row only in one list
    Ttl,        \* the age up to which rows are served
    LastTick    \* bound: the clock

Storers == DOMAIN List

ASSUME CacheAssumption ==
    /\ Ttl \in Nat /\ LastTick \in Nat
    /\ \A w \in Storers : List[w] \in Seq(ToSet(List[w])) \ {<<>>}
    /\ \A v, w \in Storers : v # w => ToSet(List[v]) \cap ToSet(List[w]) = {}

VARIABLES
    clock,
    file,       \* the content and modification time of each inode written so far
    named,      \* the inodes the names "tmp" and "path" stand for, 0 if none
    storer,     \* per writing task: [pc, inode], where store_rows stands
    loader,     \* the reading task: [pc, mtime, at], where load_rows stands
    remembered, \* MEMO: the rows and modification time of path, or NoMemo
    placed,     \* history: when each list last came to be what path holds
    mixed,      \* history: a write over the rows of another task was cut
    served      \* history: [rows, age] of the last answer, or NoAnswer

cacheVars == <<clock, file, named, storer, loader, remembered, placed, mixed, served>>

NoMemo == [rows |-> <<>>, mtime |-> -1]
NoAnswer == [rows |-> <<>>, age |-> 0]
Blank == [count |-> 0, rows |-> <<>>, mtime |-> 0]

CacheInit ==
    /\ clock = 0 /\ file = <<>> /\ named = [tmp |-> 0, path |-> 0]
    /\ storer = [w \in Storers |-> [pc |-> "start", inode |-> 0]]
    /\ loader = [pc |-> "rest", mtime |-> 0, at |-> 0]
    /\ remembered = NoMemo /\ placed = [w \in Storers |-> 0] /\ mixed = FALSE /\ served = NoAnswer

StorerTo(w, pc) == storer' = [storer EXCEPT ![w].pc = pc]
LoaderSame == UNCHANGED <<loader, remembered, served>>

\* The rows of an inode after `rows` were written over its beginning.
Overlay(i, rows) == rows \o SubSeq(file[i].rows, Len(rows) + 1, Len(file[i].rows))

\* tokio::fs::write opens and truncates the file of that name, or makes one.
OpensTmp(w) ==
    /\ storer[w].pc = "start"
    /\ LET i == IF named.tmp = 0 THEN Len(file) + 1 ELSE named.tmp
           blank == [Blank EXCEPT !.mtime = clock]
       IN  /\ file' = IF i > Len(file) THEN Append(file, blank) ELSE [file EXCEPT ![i] = blank]
           /\ named' = [named EXCEPT !.tmp = i]
           /\ storer' = [storer EXCEPT ![w] = [pc |-> "write", inode |-> i]]
    /\ LoaderSame /\ UNCHANGED <<clock, placed, mixed>>

\* The body goes over what another task has written since, whose tail stays.
WritesTmp(w) ==
    /\ storer[w].pc = "write"
    /\ LET i == storer[w].inode
       IN  file' = [file EXCEPT ![i] = [count |-> Len(List[w]), rows |-> Overlay(i, List[w]), mtime |-> clock]]
    /\ placed' = IF storer[w].inode = named.path THEN [placed EXCEPT ![w] = clock] ELSE placed
    /\ StorerTo(w, "rename")
    /\ LoaderSame /\ UNCHANGED <<clock, named, mixed>>

\* A full disk: the header and a part of the rows are written, the temporary file stays.
WriteCut(w) ==
    /\ storer[w].pc = "write"
    /\ LET i == storer[w].inode
       IN  /\ file' = [file EXCEPT ![i] = [count |-> Len(List[w]), rows |-> Overlay(i, Front(List[w])), mtime |-> clock]]
           /\ mixed' = (mixed \/ file[i].rows # <<>>)
    /\ StorerTo(w, "done")
    /\ LoaderSame /\ UNCHANGED <<clock, named, placed>>

\* Mutant: a body that ends early gives the rows it has.
DecodeSome(f) == SubSeq(f.rows, 1, IF f.count < Len(f.rows) THEN f.count ELSE Len(f.rows))

\* decode_rows: as many rows as the header counts, or none; what follows is ignored.
Decode(f) == IF Len(f.rows) < f.count THEN <<>> ELSE SubSeq(f.rows, 1, f.count)

\* The rename takes whatever has the name; without one it fails and nothing is removed.
RenamesTmp(w) ==
    /\ storer[w].pc = "rename" /\ StorerTo(w, "done")
    /\ named' = IF named.tmp = 0 THEN named ELSE [tmp |-> 0, path |-> named.tmp]
    /\ placed' = [v \in Storers |-> IF named.tmp # 0 /\ Decode(file[named.tmp]) = List[v] THEN clock ELSE placed[v]]
    /\ LoaderSame /\ UNCHANGED <<clock, file, mixed>>

Path == file[named.path]

\* The metadata is read first: too old is a miss and forgets, a known time is a hit.
StatsPath ==
    /\ loader.pc = "rest" /\ named.path # 0
    /\ IF clock - Path.mtime > Ttl
       THEN remembered' = NoMemo /\ UNCHANGED <<loader, served>>
       ELSE loader' = [pc |-> "recall", mtime |-> Path.mtime, at |-> clock] /\ UNCHANGED <<remembered, served>>
    /\ UNCHANGED <<clock, file, named, storer, placed, mixed>>

\* How long before the look at the file the list that holds these rows took its place.
AgeOf(rows) == LET w == CHOOSE v \in Storers : Last(rows) \in ToSet(List[v]) IN loader.at - placed[w]

Recalls ==
    /\ loader.pc = "recall"
    /\ IF remembered.mtime = loader.mtime
       THEN served' = [rows |-> remembered.rows, age |-> AgeOf(remembered.rows)] /\ loader' = [loader EXCEPT !.pc = "rest"]
       ELSE loader' = [loader EXCEPT !.pc = "read"] /\ UNCHANGED served
    /\ UNCHANGED <<clock, file, named, storer, remembered, placed, mixed>>

ReadsPath ==
    /\ loader.pc = "read" /\ loader' = [loader EXCEPT !.pc = "rest"]
    /\ LET rows == Decode(Path)
       IN  IF rows = <<>> THEN UNCHANGED <<remembered, served>>
           ELSE /\ remembered' = [rows |-> rows, mtime |-> loader.mtime]
                /\ served' = [rows |-> rows, age |-> AgeOf(rows)]
    /\ UNCHANGED <<clock, file, named, storer, placed, mixed>>

\* The power fails: of the file in place a prefix may be left, and the process starts anew.
PowerFails ==
    /\ \E n \in 0..IF named.path = 0 THEN 0 ELSE Len(Path.rows) :
         file' = IF named.path = 0 THEN file ELSE [file EXCEPT ![named.path].rows = SubSeq(@, 1, n)]
    /\ storer' = [w \in Storers |-> [storer[w] EXCEPT !.pc = IF @ = "start" THEN @ ELSE "done"]]
    /\ loader' = [loader EXCEPT !.pc = "rest"] /\ remembered' = NoMemo
    /\ named' = [named EXCEPT !.tmp = 0]
    /\ UNCHANGED <<clock, placed, mixed, served>>

CacheTick ==
    /\ clock < LastTick /\ clock' = clock + 1
    /\ UNCHANGED <<file, named, storer, loader, remembered, placed, mixed, served>>

CacheNext ==
    \/ \E w \in Storers : OpensTmp(w) \/ WritesTmp(w) \/ WriteCut(w) \/ RenamesTmp(w)
    \/ StatsPath \/ Recalls \/ ReadsPath \/ PowerFails \/ CacheTick

CacheSpec == CacheInit /\ [][CacheNext]_cacheVars
-----------------------------------------------------------------------------
StoredRows == UNION {ToSet(List[w]) : w \in Storers}
Instants == 0..LastTick
CachedFiles == [count : Nat, rows : Seq(StoredRows), mtime : Instants]

CacheTypeOK ==
    /\ clock \in Instants /\ placed \in [Storers -> Instants] /\ mixed \in BOOLEAN
    /\ file \in Seq(CachedFiles)
    /\ named \in [tmp : 0..Len(file), path : 0..Len(file)]
    /\ storer \in [Storers -> [pc : {"start", "write", "rename", "done"}, inode : 0..Len(file)]]
    /\ loader \in [pc : {"rest", "recall", "read"}, mtime : Instants, at : Instants]
    /\ remembered \in [rows : Seq(StoredRows), mtime : Instants \cup {-1}]
    /\ served \in [rows : Seq(StoredRows), age : Int]

\* What load_rows serves is one whole stored list that took its place no longer ago than the time
\* to live, although tasks share the temporary file, write it after it was renamed into place, and
\* the power may fail: only a write cut over the rows of another task mixes two lists (cache.rs:157).
\* How long the list waited for its rename does not count: between the look at the metadata and
\* the read, the rename may bring a file older than the one looked at (cache.rs:117).
ServesStoredLists ==
    \/ served = NoAnswer \/ mixed
    \/ served.age <= Ttl /\ \E w \in Storers : served.rows = List[w]
=============================================================================
