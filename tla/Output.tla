------------------------------- MODULE Output -------------------------------
(***************************************************************************)
(* Writing the rows of `flx grab` and `flx find` (process_result and        *)
(* close_chained_json in src/cli/output.rs, called by run_grab and, for its *)
(* two passes, by run_find in src/cli/main.rs): collect and arrange the     *)
(* rows if an order was asked for, then write them to a file through a      *)
(* buffer, or to the standard output, in one of the formats.                *)
(*                                                                         *)
(* A row is what the source yields, with whether the filters want it and    *)
(* its rank in the order.  Quotas refuse nothing here (FindRun has them);   *)
(* that some were given matters to the fallback.                            *)
(***************************************************************************)
EXTENDS SequencesExt, FiniteSetsExt, Integers

CONSTANTS
    Invocations,    \* the options of a run with what it finds, see Invocation
    BufferRoom      \* the writes BUFFER holds before it pours them into the file

Row == [name : STRING, wanted : BOOLEAN, rank : Nat]

\* What a document is made of.
Token == {<<"old">>, <<"header">>, <<"[">>, <<",">>, <<"]">>}
            \cup ({"row"} \X Row) \cup ({"function"} \X Seq(Row))

(* format: "lines" stands for the formats without a frame, "json" for both    *)
(* framed ones; chained: run_find may start a fallback pass; found: the rows  *)
(* of each pass; before: what the file holds already.                         *)
Invocation ==
    [format : {"lines", "csv", "json", "pac"}, sink : {"file", "stdout"},
     order : {"none", "key", "score", "shuffle"}, limit : Nat, append : BOOLEAN,
     chained : BOOLEAN, capped : BOOLEAN, found : [1..2 -> Seq(Row)], before : Seq(Token)]

ASSUME OutputAssumption ==
    /\ Invocations \subseteq Invocation
    /\ \A o \in Invocations : o.capped => o.chained
    /\ BufferRoom \in Nat \ {0}

VARIABLES
    opts,       \* the invocation
    at,         \* where process_result or run_find stands
    pass,       \* 1, or 2 in the fallback pass
    supply,     \* the rows the source of the loop still holds
    taken,      \* rows this pass has read from the validator or fetcher
    held,       \* rows collected in memory
    cap,        \* the limit of this pass
    items,      \* item_count, and JsonDoc over both passes
    ink,        \* [sheet, buffer, waiting, lost]: what arrived, what waits in how many
                \* writes, an error not yet seen
    fault,      \* "none", or from now on "full" or (a pipe) "closed"
    failed,     \* write_error
    stopped,    \* cancelled
    result,     \* how the run ended
    emitted,    \* history: the rows each pass handed to the writer
    kept        \* history: the rows collected when Ctrl+C came

progress == <<pass, taken, cap, items>>
outputVars == <<opts, at, progress, supply, held, ink, fault, failed, stopped, result, emitted, kept>>

OutputInit ==
    /\ opts \in Invocations
    /\ at = "open" /\ pass = 1 /\ supply = opts.found[1] /\ taken = 0 /\ held = <<>>
    /\ cap = opts.limit /\ items = 0
    /\ ink = [sheet |-> opts.before, buffer |-> <<>>, waiting |-> 0, lost |-> FALSE]
    /\ fault = "none" /\ failed = FALSE /\ stopped = FALSE /\ result = "none"
    /\ emitted = <<<<>>, <<>>>> /\ kept = <<>>
-----------------------------------------------------------------------------
(* Writing.  A file takes what the buffer pours into it on another thread,   *)
(* so a write that fails is noticed by the next one.                         *)

ToFile == opts.sink = "file"

Poured(i) ==
    IF i.lost \/ fault = "full" THEN [i EXCEPT !.buffer = <<>>, !.waiting = 0, !.lost = ~i.lost]
    ELSE [i EXCEPT !.buffer = <<>>, !.waiting = 0, !.sheet = @ \o i.buffer]

Buffered(i, text) == [i EXCEPT !.buffer = @ \o text, !.waiting = @ + 1]

\* write_all: a write goes to the buffer, which pours out first when it is full.
Writes(i, text) ==
    IF ~ToFile
    THEN IF fault = "none" \/ text = <<>> THEN [to |-> "ok", ink |-> [i EXCEPT !.sheet = @ \o text]]
         ELSE [to |-> fault, ink |-> i]
    ELSE IF i.waiting < BufferRoom THEN [to |-> "ok", ink |-> Buffered(i, text)]
    ELSE IF i.lost THEN [to |-> "full", ink |-> [i EXCEPT !.lost = FALSE]]
    ELSE [to |-> "ok", ink |-> Buffered(Poured(i), text)]

\* flush: its error is dropped, with what the buffer held.
Flushed(i) == [Poured(i) EXCEPT !.lost = FALSE]

EndsAs(how) == at' = "done" /\ result' = how

\* How process_result ends, and what run_find makes of it.
Outcome(bad) == IF stopped THEN "cancelled" ELSE IF bad THEN "error" ELSE "finished"
Leaves(how) ==
    IF opts.chained /\ pass = 1 /\ how = "finished" THEN at' = "between" /\ UNCHANGED result
    ELSE EndsAs(how)
-----------------------------------------------------------------------------
(* run_find decides whether a fallback pass is due.  Probes that passed and  *)
(* were never read count as passed.                                          *)

Q == INSTANCE Quotas WITH Families <- {"HTTP"}, Levels <- {"Unknown"}
Requested ==
    <<[protocol |-> [family |-> "HTTP", level |-> "Unknown"], capped |-> opts.capped, cap |-> 9]>>
Short(passed) == Q!NeedsFallback(Requested, Q!NoHits(Requested), FALSE, opts.limit, items, passed)
Passed == taken..Len(opts.found[1])
ChainOver == \E passed \in Passed : ~Short(passed) \/ opts.found[2] = <<>>
-----------------------------------------------------------------------------
(* The rows to write: as they come, or all of them in order.                 *)

Ordered == opts.order # "none"

\* The places of a list in an order: each stands where the number of those that come no later says.
Ranked(places, order) ==
    [k \in 1..Cardinality(places) |->
        CHOOSE i \in places : Cardinality({j \in places : <<j, i>> \in order}) = k]

\* filter.matches: the rows that are wanted, as they came.
WantedIn(list) == {i \in DOMAIN list : list[i].wanted}
AsTheyCame(list) == {p \in (DOMAIN list) \X (DOMAIN list) : p[1] <= p[2]}
Matching(list) ==
    LET places == Ranked(WantedIn(list), AsTheyCame(list))
    IN  [k \in DOMAIN places |-> list[places[k]]]

\* sort_proxies: rows of one rank stay as they came.
ByRank(list) ==
    {p \in (DOMAIN list) \X (DOMAIN list) :
        LET a == list[p[1]].rank  b == list[p[2]].rank IN a < b \/ (a = b /\ p[1] <= p[2])}
InOrder(list) ==
    LET places == Ranked(DOMAIN list, ByRank(list))
    IN  [k \in DOMAIN places |-> list[places[k]]]

Arranged(list) ==
    IF opts.order = "shuffle" THEN {[i \in DOMAIN list |-> list[p[i]]] : p \in Bijection(DOMAIN list, DOMAIN list)}
    ELSE {InOrder(list)}

OpensOutput ==
    /\ at = "open"
    /\ IF opts.append /\ opts.format = "json"
       THEN EndsAs("error") /\ UNCHANGED ink
       ELSE /\ at' = IF Ordered THEN "collect" ELSE "header"
            /\ ink' = IF ToFile /\ ~opts.append /\ pass = 1 THEN [ink EXCEPT !.sheet = <<>>] ELSE ink
            /\ UNCHANGED result
    /\ UNCHANGED <<opts, progress, supply, held, fault, failed, stopped, emitted, kept>>

OpenFails ==
    /\ at = "open" \/ (at = "between" /\ opts.format = "json" /\ ChainOver)
    /\ ToFile /\ EndsAs("error")
    /\ UNCHANGED <<opts, progress, supply, held, ink, fault, failed, stopped, emitted, kept>>

\* The collected rows replace the source.
Arrange(list) ==
    /\ at' = "header" /\ held' = <<>>
    /\ supply' \in Arranged(list)

\* Mutant: rows sorted by score are cut before they are sorted.
CollectFullByLimit(list) == cap > 0 /\ Len(list) >= cap
CollectFull(list) == opts.order # "score" /\ cap > 0 /\ Len(list) >= cap

Collects ==
    /\ at = "collect" /\ supply # <<>>
    /\ LET list == held \o Matching(<<Head(supply)>>)
       IN  IF CollectFull(list) THEN Arrange(list)
           ELSE held' = list /\ supply' = Tail(supply) /\ UNCHANGED at
    /\ taken' = taken + 1
    /\ UNCHANGED <<opts, pass, cap, items, ink, fault, failed, stopped, result, emitted, kept>>

CollectEnds ==
    /\ at = "collect" /\ supply = <<>> /\ Arrange(held)
    /\ UNCHANGED <<opts, progress, ink, fault, failed, stopped, result, emitted, kept>>

CollectCut ==
    /\ at = "collect" /\ Arrange(held)
    /\ stopped' = TRUE /\ kept' = held
    /\ UNCHANGED <<opts, progress, ink, fault, failed, result, emitted>>
-----------------------------------------------------------------------------
(* The header, then one row after the other; or all of them as one function. *)

Headed == opts.format = "csv" /\ pass = 1 /\ ~(ToFile /\ opts.append /\ ink.sheet # <<>>)

Heads ==
    /\ at = "header"
    /\ LET write == Writes(ink, <<<<"header">>>>)
       IN  IF Headed
           THEN /\ ink' = write.ink /\ failed' = (write.to = "full")
                /\ IF write.to = "closed" THEN Leaves("finished") ELSE at' = "rows" /\ UNCHANGED result
           ELSE /\ at' = IF opts.format = "pac" THEN "gather" ELSE "rows"
                /\ UNCHANGED <<ink, failed, result>>
    /\ UNCHANGED <<opts, progress, supply, held, fault, stopped, emitted, kept>>

\* filter_map and the read of the loop; a row of the buffer was counted when it was collected.
Reads ==
    /\ supply # <<>> /\ supply' = Tail(supply)
    /\ taken' = IF Ordered THEN taken ELSE taken + 1

Separated(row) ==
    (IF opts.format = "json" THEN <<<<IF items = 0 THEN "[" ELSE ",">>>> ELSE <<>>) \o <<<<"row", row>>>>

Skips ==
    /\ at \in {"rows", "gather"} /\ Reads /\ ~Head(supply).wanted
    /\ UNCHANGED <<opts, at, pass, cap, items, held, ink, fault, failed, stopped, result, emitted, kept>>

Emits ==
    /\ at = "rows" /\ Reads /\ Head(supply).wanted
    /\ LET write == Writes(ink, Separated(Head(supply)))
           list == Append(emitted[pass], Head(supply))
       IN  /\ ink' = write.ink
           /\ IF write.to = "ok"
              THEN /\ items' = items + 1 /\ emitted' = [emitted EXCEPT ![pass] = list]
                   /\ at' = IF cap > 0 /\ Len(list) >= cap THEN "close" ELSE "rows"
                   /\ UNCHANGED failed
              ELSE /\ at' = "close" /\ failed' = (failed \/ write.to = "full")
                   /\ UNCHANGED <<items, emitted>>
    /\ UNCHANGED <<opts, pass, cap, held, fault, stopped, result, kept>>

Gathers ==
    /\ at = "gather" /\ Reads /\ Head(supply).wanted
    /\ held' = Append(held, Head(supply))
    /\ emitted' = [emitted EXCEPT ![pass] = held']
    /\ at' = IF cap > 0 /\ Len(held') >= cap THEN "close" ELSE "gather"
    /\ UNCHANGED <<opts, pass, cap, items, ink, fault, failed, stopped, result, kept>>

RowsEnd ==
    /\ at \in {"rows", "gather"} /\ supply = <<>> /\ at' = "close"
    /\ UNCHANGED <<opts, progress, supply, held, ink, fault, failed, stopped, result, emitted, kept>>

\* Ctrl+C is looked at until it has come once.
RowsCut ==
    /\ at \in {"rows", "gather"} /\ ~stopped /\ stopped' = TRUE /\ at' = "close"
    /\ UNCHANGED <<opts, progress, supply, held, ink, fault, failed, result, emitted, kept>>
-----------------------------------------------------------------------------
(* The end of a pass: the closing bracket, unless the next pass goes on with *)
(* the document, and the flush.                                              *)

Empty == <<<<"[">>, <<"]">>>>
Closer ==
    IF opts.chained /\ pass = 1 /\ ~stopped /\ ~failed THEN <<>>
    ELSE IF items > 0 THEN <<<<"]">>>>
    ELSE IF opts.chained /\ pass = 1 THEN <<>> ELSE Empty

Closes ==
    /\ at = "close" /\ opts.format # "pac"
    /\ LET write == IF opts.format = "json" THEN Writes(ink, Closer) ELSE [to |-> "ok", ink |-> ink]
       IN  /\ ink' = Flushed(write.ink) /\ failed' = (failed \/ write.to # "ok")
           /\ Leaves(Outcome(failed'))
    /\ UNCHANGED <<opts, progress, supply, held, fault, stopped, emitted, kept>>

\* render_pac, left out if the run was cut; a failed write returns without a flush.
ClosesPac ==
    /\ at = "close" /\ opts.format = "pac"
    /\ LET write == IF stopped THEN [to |-> "ok", ink |-> ink] ELSE Writes(ink, <<<<"function", held>>>>)
       IN  /\ ink' = IF write.to = "ok" THEN Flushed(write.ink) ELSE write.ink
           /\ Leaves(Outcome(write.to = "full"))
    /\ UNCHANGED <<opts, progress, supply, held, fault, failed, stopped, emitted, kept>>
-----------------------------------------------------------------------------
(* run_find between the passes.                                             *)

ClosesChain ==
    /\ at = "between" /\ ChainOver
    /\ LET write == IF opts.format = "json"
                    THEN Writes(ink, IF items > 0 THEN <<<<"]">>>> ELSE Empty)
                    ELSE [to |-> "ok", ink |-> ink]
       IN  /\ ink' = IF write.to = "ok" THEN Flushed(write.ink) ELSE ink
           /\ EndsAs(IF write.to = "ok" THEN "finished" ELSE "error")
    /\ UNCHANGED <<opts, progress, supply, held, fault, failed, stopped, emitted, kept>>

GoesOn ==
    /\ at = "between"
    /\ \E passed \in Passed :
        /\ Short(passed)
        /\ cap' = IF opts.limit = 0 THEN 0
                  ELSE Max({0, opts.limit - (IF opts.capped THEN items ELSE passed)})
    /\ at' = "open" /\ pass' = 2 /\ supply' = opts.found[2] /\ taken' = 0 /\ held' = <<>>
    /\ failed' = FALSE /\ stopped' = FALSE
    /\ UNCHANGED <<opts, items, ink, fault, result, emitted, kept>>

\* Ctrl+C during the preflight of the fallback pass, or no judge online.
NotStarted(how) ==
    /\ at = "between" /\ (\E passed \in Passed : Short(passed))
    /\ EndsAs(how) /\ stopped' = (how = "cancelled")
    /\ UNCHANGED <<opts, progress, supply, held, ink, fault, failed, emitted, kept>>

Breaks(kind) ==
    /\ fault = "none" /\ at # "done" /\ (kind = "closed" => ~ToFile) /\ fault' = kind
    /\ UNCHANGED <<opts, at, progress, supply, held, ink, failed, stopped, result, emitted, kept>>

OutputNext ==
    \/ OpensOutput \/ OpenFails
    \/ Collects \/ CollectEnds \/ CollectCut
    \/ Heads \/ Skips \/ Emits \/ Gathers \/ RowsEnd \/ RowsCut
    \/ Closes \/ ClosesPac
    \/ ClosesChain \/ GoesOn \/ \E how \in {"cancelled", "error"} : NotStarted(how)
    \/ \E kind \in {"full", "closed"} : Breaks(kind)

OutputSpec == OutputInit /\ [][OutputNext]_outputVars
-----------------------------------------------------------------------------
(* Properties.                                                               *)

OutputTypeOK ==
    /\ opts \in Invocations /\ pass \in 1..2
    /\ at \in {"open", "collect", "header", "rows", "gather", "close", "between", "done"}
    /\ supply \in Seq(Row) /\ held \in Seq(Row) /\ kept \in Seq(Row) /\ emitted \in [1..2 -> Seq(Row)]
    /\ taken \in Nat /\ cap \in Nat /\ items \in Nat
    /\ ink \in [sheet : Seq(Token), buffer : Seq(Token), waiting : Nat, lost : BOOLEAN]
    /\ fault \in {"none", "full", "closed"} /\ failed \in BOOLEAN /\ stopped \in BOOLEAN
    /\ result \in {"none", "finished", "cancelled", "error"}

Existing == IF ToFile /\ ~opts.append THEN <<>> ELSE opts.before
Written == emitted[1] \o emitted[2]

InRows(list) == [i \in DOMAIN list |-> <<"row", list[i]>>]
Unclosed(list) ==
    [n \in 1..(2 * Len(list)) |->
        IF n % 2 = 0 THEN <<"row", list[n \div 2]>> ELSE <<IF n = 1 THEN "[" ELSE ",">>]
Framed(list) == IF list = <<>> THEN Empty ELSE Unclosed(list) \o <<<<"]">>>>
Document(list) ==
    CASE opts.format = "lines" -> InRows(list)
      [] opts.format = "csv" -> (IF ToFile /\ Existing # <<>> THEN <<>> ELSE <<<<"header">>>>) \o InRows(list)
      [] opts.format = "json" -> Framed(list)
      [] opts.format = "pac" -> <<<<"function", list>>>>

FirstOf(list, n) == IF n > 0 /\ n < Len(list) THEN SubSeq(list, 1, n) ELSE list
Chosen(p) ==
    LET wanted == Matching(opts.found[p])
        limit == IF p = 1 THEN opts.limit ELSE cap
    IN  IF opts.order = "score" THEN {FirstOf(InOrder(wanted), limit)}
        ELSE IF Ordered THEN Arranged(FirstOf(wanted, limit)) ELSE {FirstOf(wanted, limit)}

OnePac == opts.format = "pac" => pass = 1

\* What stands in the file is one document of the rows that were written, after what it held:
\* whole, with the rows that order and limit promise, when the run finished; closed, with
\* every row collected by then, when Ctrl+C ended it (but for the fallback that had not
\* started); and the front part of it when the disk filled up or the reader went away.
\* PAC is excepted twice: after Ctrl+C nothing of the document need be there, as the one
\* function is written after the stream and a cut run leaves it out (output.rs:429); and of
\* two passes nothing is said, they write two functions (PacOffersEveryProxy).
DocumentAsPromised ==
    at = "done" /\ OnePac =>
        LET whole == Existing \o Document(Written)
        IN  /\ result = "finished" /\ fault = "none" =>
                /\ ink.sheet = whole /\ \A p \in 1..pass : emitted[p] \in Chosen(p)
                /\ opts.limit > 0 => Len(Written) <= opts.limit
            /\ result = "cancelled" /\ fault = "none" /\ opts.format # "pac" =>
                /\ kept # <<>> => emitted[pass] \in {FirstOf(list, cap) : list \in Arranged(kept)}
                /\ \/ ink.sheet = whole
                   \/ opts.chained /\ pass = 1 /\ opts.format = "json" /\ ink.sheet = Existing \o Unclosed(Written)
            /\ ink.sheet = opts.before \/ IsPrefix(ink.sheet, whole)

\* A PAC file, in which the last FindProxyForURL is the one that counts, offers every proxy
\* that was found (README.md:90, render_pac).
PacOffersEveryProxy ==
    result = "finished" /\ fault = "none" /\ opts.format = "pac" => Last(ink.sheet) = <<"function", Written>>
=============================================================================
