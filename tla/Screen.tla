------------------------------- MODULE Screen -------------------------------
(***************************************************************************)
(* Browsing the results while they arrive (src/cli/tui/app.rs): the rows in *)
(* their order of arrival, the list of those that are shown, computed anew  *)
(* by every tick and by the keys that change what it depends on, and the    *)
(* selection, a place in that list.  A key does what the key map says of it *)
(* (module Keys).  Module Tui has the runs and the other overlays.          *)
(***************************************************************************)
EXTENDS Listing, Keys

CONSTANTS
    Arrivals,       \* the rows of a run, in the order they arrive
    Typed,          \* the characters typed into the filter
    MaxFilter,      \* bound: length of the filter
    MaxCount,       \* bound: the row number typed
    PageRows,       \* PAGE_ROWS
    ScreenWidth, ScreenHeight,
    Ellipsis        \* bytes of the ellipsis: 3, or 1 in ASCII

ASSUME ScreenAssumption ==
    /\ MaxFilter \in Nat /\ MaxCount \in Nat /\ PageRows \in Nat \ {0}
    /\ ScreenWidth \in Nat /\ ScreenWidth >= MinWidth /\ ScreenHeight \in Nat /\ ScreenHeight >= MinHeight
    /\ Ellipsis \in {1, 3}
    /\ Arrivals \in Seq(ToSet(Arrivals))

VARIABLES
    arrived,    \* the number of rows
    view,       \* [filter, sort, order]
    listed,     \* visible: the rows shown, as of the last refresh
    selected,   \* the place selected, from 0
    follow,     \* whether the selection goes to the last row with every tick
    prompt,     \* while a filter is typed, the one to go back to; else empty
    detail,     \* the drill-down is open
    pending,    \* pending_g: a first g was pressed
    count,      \* the row number typed so far, if any
    live        \* the run goes on

typing == <<pending, count>>
screenVars == <<arrived, view, listed, selected, follow, prompt, detail, typing, live>>

RowsOf(n) == SubSeq(Arrivals, 1, n)

ScreenInit ==
    /\ arrived = 0 /\ listed = <<>> /\ selected = 0 /\ follow = TRUE
    /\ view = [filter |-> <<>>, sort |-> "none", order |-> "asc"]
    /\ prompt = {} /\ detail = FALSE /\ pending = FALSE /\ count = {}
    /\ live = TRUE

\* on_engine_event: rows wait for the next tick to be shown.
RowArrives ==
    /\ arrived < Len(Arrivals) /\ arrived' = arrived + 1
    /\ UNCHANGED <<view, listed, selected, follow, prompt, detail, typing, live>>

RunOver ==
    /\ live /\ live' = FALSE
    /\ UNCHANGED <<arrived, view, listed, selected, follow, prompt, detail, typing>>

\* on_tick, whatever is open
Ticks ==
    /\ listed' = Visible(RowsOf(arrived), view)
    /\ selected' = IF follow /\ live /\ listed' # <<>> THEN Len(listed') - 1
                   ELSE ClampSelection(selected, Len(listed'))
    /\ UNCHANGED <<arrived, view, follow, prompt, detail, typing, live>>
-----------------------------------------------------------------------------
(* Keys: what a press does now, and what every press does first.             *)
Keyboard == Named \cup (UNION {Keymap[i].keys : i \in DOMAIN Keymap} \ {"printable"})
Meanings ==
    LET context(running, prompted, once, counting) ==
            [screen |-> IF running THEN "running" ELSE "done", help |-> FALSE, confirm |-> FALSE,
             purpose |-> IF prompted THEN {"filter"} ELSE {},
             pending |-> once, count |-> IF counting THEN {0} ELSE {}]
        actions(c) == UNION {ActionFor(key, context(c[1], c[2], c[3], c[4])) : key \in Keyboard}
    IN  UNION {{c} \X actions(c) : c \in BOOLEAN \X BOOLEAN \X BOOLEAN \X BOOLEAN}
Does(action) == <<<<live, prompt # {}, pending, count # {}>>, action>> \in Meanings

Forgets == pending' = FALSE /\ count' = {}
Refreshed == listed' = Visible(RowsOf(arrived), view')
FromTheTop == follow' = FALSE /\ selected' = 0
Stays == selected' = ClampSelection(selected, Len(listed)) /\ UNCHANGED <<listed, follow>>

ChangesOrder ==
    /\ \/ Does("SortCycle") /\ view' = [view EXCEPT !.sort = CycleSort(@)]
       \/ Does("OrderToggle") /\ view' = [view EXCEPT !.order = IF @ = "asc" THEN "desc" ELSE "asc"]
    /\ Forgets /\ FromTheTop /\ Refreshed
    /\ UNCHANGED <<arrived, prompt, detail, live>>

\* Mutant: the list of the old filter is kept until the next tick.
ClearsFilterLater ==
    /\ Does("ClearFilter") /\ Forgets /\ FromTheTop
    /\ view' = [view EXCEPT !.filter = <<>>]
    /\ UNCHANGED <<arrived, listed, prompt, detail, live>>

ClearsFilter ==
    /\ Does("ClearFilter") /\ view' = [view EXCEPT !.filter = <<>>]
    /\ Forgets /\ FromTheTop /\ Refreshed
    /\ UNCHANGED <<arrived, prompt, detail, live>>

\* Where a movement goes, and whether it goes on with the rows that arrive.  The drill-down
\* scrolls itself instead, but for a row number.
MovesSelection ==
    LET rows == Len(listed)
        goes(to, on) == selected' = ClampSelection(IF to < 0 THEN 0 ELSE to, rows) /\ follow' = on
        down(n) == goes(selected + n, rows > 0 /\ selected + n + 1 >= rows)
    IN  /\ Forgets
        /\ \/ ~detail /\ Does("ScrollUp") /\ goes(selected - 1, FALSE)
           \/ ~detail /\ Does("PageUp") /\ goes(selected - PageRows, FALSE)
           \/ ~detail /\ Does("ScrollDown") /\ down(1)
           \/ ~detail /\ Does("PageDown") /\ down(PageRows)
           \/ ~detail /\ Does("GotoTop") /\ goes(0, FALSE)
           \/ ~detail /\ Does("GotoBottom") /\ goes(rows - 1, TRUE)
           \/ Does("GotoCount") /\ \E n \in count : goes(n - 1, FALSE)
        /\ prompt = {} /\ UNCHANGED <<arrived, view, listed, prompt, detail, live>>

\* push_count
TypesDigit ==
    /\ Does("Count")
    /\ \E d \in 0..9 :
          LET n == d + 10 * (IF count = {} THEN 0 ELSE CHOOSE m \in count : TRUE)
          IN  n <= MaxCount /\ count' = {n}
    /\ pending' = FALSE
    /\ Stays /\ UNCHANGED <<arrived, view, prompt, detail, live>>

\* The first g of two; it drops the number typed before it.
TypesG ==
    /\ Does("PrefixG") /\ pending' = TRUE /\ count' = {}
    /\ Stays /\ UNCHANGED <<arrived, view, prompt, detail, live>>

\* handle_mouse: a click on a row when nothing covers the list.  It is no key and drops no number;
\* the wheel is the arrow keys.
Clicks ==
    /\ prompt = {} /\ ~detail
    /\ \E line \in 0..(ScreenHeight - 1) : \E i \in RowAt(line, ScreenHeight, selected, Len(listed)) :
          selected' = i
    /\ follow' = FALSE
    /\ UNCHANGED <<arrived, view, listed, prompt, detail, typing, live>>

TogglesDetail ==
    /\ \/ Does("DrillIn") /\ detail' = TRUE
       \/ Does("ToggleDetail") /\ detail' = ~detail
       \/ Does("Back") /\ detail /\ detail' = FALSE
    /\ Forgets /\ Stays /\ UNCHANGED <<arrived, view, prompt, live>>

OpensFilter ==
    /\ Does("EditFilter") /\ prompt' = {view.filter}
    /\ Forgets /\ Stays /\ UNCHANGED <<arrived, view, detail, live>>

\* refresh_filter_input: every character typed or deleted filters at once.
TypesFilter ==
    /\ \/ /\ Does("Text") /\ Len(view.filter) < MaxFilter
          /\ \E c \in Typed : view' = [view EXCEPT !.filter = Append(@, c)]
       \/ Does("Backspace") /\ view' = [view EXCEPT !.filter = IF @ = <<>> THEN @ ELSE Front(@)]
    /\ Forgets /\ FromTheTop /\ Refreshed
    /\ UNCHANGED <<arrived, prompt, detail, live>>

SubmitsFilter ==
    /\ Does("Submit") /\ prompt' = {} /\ view' = [view EXCEPT !.filter = Trimmed(@)]
    /\ Forgets /\ FromTheTop /\ Refreshed
    /\ UNCHANGED <<arrived, detail, live>>

\* Esc goes back to the filter the prompt was opened with.
LeavesFilter ==
    /\ Does("Cancel") /\ \E original \in prompt : view' = [view EXCEPT !.filter = original]
    /\ prompt' = {} /\ Forgets /\ Refreshed
    /\ UNCHANGED <<arrived, selected, follow, detail, live>>

\* begin_run keeps the filter, the order and the drill-down.
StartsAgain ==
    /\ Does("Rerun")
    /\ arrived' = 0 /\ listed' = <<>> /\ selected' = 0
    /\ follow' = TRUE /\ Forgets /\ live' = TRUE
    /\ UNCHANGED <<view, prompt, detail>>

ScreenNext ==
    \/ RowArrives \/ RunOver \/ Ticks
    \/ ChangesOrder \/ ClearsFilter \/ MovesSelection \/ TypesDigit \/ TypesG \/ Clicks
    \/ TogglesDetail \/ OpensFilter \/ TypesFilter \/ SubmitsFilter \/ LeavesFilter \/ StartsAgain

ScreenSpec == ScreenInit /\ [][ScreenNext]_screenVars
-----------------------------------------------------------------------------
ScreenTypeOK ==
    /\ arrived \in 0..Len(Arrivals)
    /\ view \in [filter : Seq(Typed), sort : ToSet(SortKeys), order : {"asc", "desc"}]
    /\ selected \in Nat /\ count \subseteq 0..MaxCount /\ prompt \subseteq Seq(Typed)
    /\ follow \in BOOLEAN /\ detail \in BOOLEAN /\ pending \in BOOLEAN /\ live \in BOOLEAN

\* What is on the screen, exported and opened is the list of one moment, in the order and under
\* the filter that the title names, and the selection is a row of it: the drawing takes
\* rows[visible[position]] unchecked (ui.rs:342), and `visible' may be older than the rows.
FrameMatchesView ==
    /\ \E n \in 0..arrived : listed = Visible(RowsOf(n), view)
    /\ selected <= Len(listed) /\ (selected = Len(listed) => selected = 0)

\* "Byte range inside that cell" (view.rs:406): the mark of a match starts and ends between the
\* characters of what is drawn.
MarksInsideCells ==
    LET fitted == FitColumns(ScreenWidth, Len(listed))
        shown == Window(selected, TableHeight(ScreenHeight), Len(listed))
    IN  \A position \in shown.from..(shown.to - 1), c \in DOMAIN fitted \ {1} :
            MarksFit(Arrivals[listed[position + 1]], view.filter, c - 1, fitted[c], Ellipsis)
=============================================================================
