------------------------------ MODULE Listing ------------------------------
(***************************************************************************)
(* What the table of results shows (src/cli/tui/view.rs and the drawing of  *)
(* src/cli/tui/ui.rs): which rows, in which order, in which columns, and    *)
(* what is marked in them.                                                  *)
(*                                                                         *)
(* A text is a sequence of characters <<letter, upper>>.  A row is          *)
(*   [cells, organization, rtt, country, rank, score]                       *)
(* with eight cells of ASCII text, the values it is ordered by and an       *)
(* optional score, a set of at most one element.  Positions count from 0.   *)
(***************************************************************************)
EXTENDS Integers, SequencesExt, FiniteSetsExt, Functions

\* case_of, chars_eq: one capital in the filter makes all of it exact.
Exact(filter) == \E i \in DOMAIN filter : filter[i][2]
SameChar(a, b, exact) == a[1] = b[1] /\ (exact => a[2] = b[2])

\* find_match: the first place where the text has the filter, as [begin, end).
MatchAt(text, filter, k) ==
    /\ k + Len(filter) <= Len(text)
    /\ \A i \in DOMAIN filter : SameChar(text[k + i], filter[i], Exact(filter))
FindMatch(text, filter) ==
    {[begin |-> k, end |-> k + Len(filter)] :
        k \in {k \in 0..Len(text) : /\ filter # <<>> /\ MatchAt(text, filter, k)
                                    /\ \A n \in 0..(k - 1) : ~MatchAt(text, filter, n)}}

\* matches_filter also looks at the organization, which no column shows; find_hit takes the
\* first cell that matches, shown or not.
MatchesFilter(row, filter) ==
    \/ \E c \in DOMAIN row.cells : FindMatch(row.cells[c], filter) # {}
    \/ FindMatch(row.organization, filter) # {}
FindHit(row, filter) ==
    LET hits == {c \in DOMAIN row.cells : FindMatch(row.cells[c], filter) # {}}
    IN  {[column |-> c, range |-> r] :
            c \in {c \in hits : \A n \in hits : c <= n},
            r \in UNION {FindMatch(row.cells[c], filter) : c \in hits}}

\* What a submitted filter loses: the blanks around it.
Trimmed(text) ==
    LET kept == {i \in DOMAIN text : text[i][1] # " "}
    IN  IF kept = {} THEN <<>> ELSE SubSeq(text, Min(kept), Max(kept))

SortKeys == <<"none", "response", "country", "anonymity", "score">>
CycleSort(key) == SortKeys[((CHOOSE i \in DOMAIN SortKeys : SortKeys[i] = key) % 5) + 1]

\* compare: rows without a score come last in either order.
Before(key, order, a, b) ==
    LET up(x, y) == IF order = "asc" THEN x <= y ELSE y <= x
    IN  CASE key = "none" -> TRUE
          [] key = "response" -> up(a.rtt, b.rtt)
          [] key = "country" -> up(a.country, b.country)
          [] key = "anonymity" -> up(a.rank, b.rank)
          [] key = "score" -> \/ b.score = {}
                              \/ \E x \in a.score, y \in b.score : up(x, y)

\* Rows that tie stand as they arrived: the sort is stable.
Precedes(view, rows, i, j) ==
    /\ Before(view.sort, view.order, rows[i], rows[j])
    /\ Before(view.sort, view.order, rows[j], rows[i]) => i < j

\* visible: the rows that pass, each at the place that the number of those before it says.
Passing(rows, filter) == {i \in DOMAIN rows : filter = <<>> \/ MatchesFilter(rows[i], filter)}
Visible(rows, view) ==
    LET passing == Passing(rows, view.filter)
    IN  [k \in 1..Cardinality(passing) |->
            CHOOSE i \in passing : Cardinality({n \in passing : Precedes(view, rows, n, i)}) = k - 1]

\* clamp_selection
ClampSelection(selected, len) == IF len = 0 THEN 0 ELSE IF selected >= len THEN len - 1 ELSE selected

\* window: the rows on the screen, [from, to).
Window(selected, height, len) ==
    LET at == ClampSelection(selected, len)
        from == IF at >= height THEN at + 1 - height ELSE 0
    IN  IF len = 0 \/ height = 0 THEN [from |-> 0, to |-> 0]
        ELSE [from |-> from, to |-> IF from + height <= len THEN from + height ELSE len]
-----------------------------------------------------------------------------
(* The columns: the floor, the usual and the largest width; the rank at which *)
(* one is hidden and the rank at which it grows, 0 for never.                 *)
Column(min, preferred, max, hide, grow) ==
    [min |-> min, preferred |-> preferred, max |-> max, hide |-> hide, grow |-> grow]
Columns ==
    <<Column(2, 2, 6, 0, 0), Column(15, 21, 45, 0, 1), Column(5, 14, 22, 0, 2),
      Column(4, 6, 8, 0, 3), Column(2, 4, 4, 0, 0), Column(4, 12, 14, 3, 4),
      Column(3, 8, 10, 1, 5), Column(5, 8, 9, 0, 0), Column(1, 4, 6, 2, 0)>>

\* ordinal_width: the digits of the number of rows, within the floor and ceiling.
OrdinalWidth(rows) ==
    LET wide == {d \in 2..6 : rows >= 10 ^ (d - 1)}
    IN  CHOOSE d \in wide \cup {2} : \A e \in wide \cup {2} : e <= d

Total(widths, shown) == SumFunctionOnSet(widths, shown) + Cardinality(shown) - 1

\* fit_columns: columns are hidden in the order of their rank until the rest has room, ...
Shown(widths, available) ==
    LET without(k) == {c \in DOMAIN Columns : Columns[c].hide \notin 1..k}
        enough == {k \in 0..3 : Total(widths, without(k)) <= available}
    IN  without(IF enough = {} THEN 3 ELSE CHOOSE k \in enough : \A n \in enough : k <= n)

\* ... and the width that is missing is taken from the last in rank first, or the spare width
\* given to the first: each column moves as far as it may before the next one does.
Share(amount, room, before) ==
    LET left == amount - before IN IF left <= 0 THEN 0 ELSE IF left < room THEN left ELSE room
Fitted(widths, shown, available) ==
    LET movable == {c \in shown : Columns[c].grow > 0}
        floor == [c \in movable |-> widths[c] - Columns[c].min]
        room == [c \in movable |-> Columns[c].max - widths[c]]
        later(c) == {n \in movable : Columns[n].grow > Columns[c].grow}
        earlier(c) == {n \in movable : Columns[n].grow < Columns[c].grow}
        missing == Total(widths, shown) - available
    IN  [c \in shown |->
            IF c \notin movable THEN widths[c]
            ELSE widths[c] - Share(missing, floor[c], SumFunctionOnSet(floor, later(c)))
                           + Share(-missing, room[c], SumFunctionOnSet(room, earlier(c)))]

FitColumns(available, rows) ==
    LET widths == [c \in DOMAIN Columns |-> IF c = 1 THEN OrdinalWidth(rows) ELSE Columns[c].preferred]
    IN  Fitted(widths, Shown(widths, available), available)

\* compute_layout, table_rows: a header, two lines of status, the table with its head, a footer.
MinWidth == 60
MinHeight == 12
TableHeight(height) == height - 5

\* row_at: the row a click lands on.
RowAt(line, height, selected, len) ==
    LET from == Window(selected, TableHeight(height), len).from
    IN  {i \in {from + n - 4 : n \in {line} \cap (4..(height - 2))} : i < len}
-----------------------------------------------------------------------------
(* What is drawn of a text: cut to its column, with an ellipsis of one cell   *)
(* that is one byte or three; and the part that is marked as the match.       *)
ClampCells(text, width, ellipsis) ==
    IF Len(text) <= width THEN [kept |-> Len(text), bytes |-> Len(text)]
    ELSE IF width = 0 THEN [kept |-> 0, bytes |-> 0]
    ELSE [kept |-> width - 1, bytes |-> width - 1 + ellipsis]

\* Where a byte string may be split: not within the ellipsis.
Boundaries(drawn) == (0..drawn.kept) \cup {drawn.bytes}

\* body_cell: the mark is made where the range ends within the drawn text.
Marked(row, filter, column, width, ellipsis) ==
    {h.range : h \in {h \in FindHit(row, filter) :
        /\ h.column = column
        /\ h.range.end <= ClampCells(row.cells[column], width, ellipsis).bytes}}

\* The slices of body_cell, which panic off a boundary.
MarksFit(row, filter, column, width, ellipsis) ==
    \A r \in Marked(row, filter, column, width, ellipsis) :
        {r.begin, r.end} \subseteq Boundaries(ClampCells(row.cells[column], width, ellipsis))

\* progress_label: the longest form with room; the counts alone whether they have it or not.
Label(counts, percent, rate, budget) ==
    IF counts + 2 + percent + 2 + rate <= budget THEN counts + 2 + percent + 2 + rate
    ELSE IF counts + 2 + percent <= budget THEN counts + 2 + percent
    ELSE counts

\* progress_spans: the bar takes a quarter of the line within its bounds, or what is left.
Strip(width, split, counts, percent, rate) ==
    LET share == IF width \div 4 < 10 THEN 10 ELSE IF width \div 4 > 24 THEN 24 ELSE width \div 4
        spare(n) == IF n < 0 THEN 0 ELSE n
        label == Label(counts, percent, rate, spare(width - (share + 3 + split)))
        left == spare(width - (label + split + 3))
    IN  [bar |-> IF share < left THEN share ELSE left, label |-> label, split |-> split]

\* render_help, render_detail: how far an overlay is scrolled, whatever was asked for.
Scrolled(asked, total, height) ==
    LET most == IF total > height THEN total - height ELSE 0
    IN  IF asked < most THEN asked ELSE most

\* popup_area: centred, and never larger than the screen.
Popup(available, size) ==
    LET taken == IF size < available THEN size ELSE available
    IN  [at |-> (available - taken) \div 2, size |-> taken]
=============================================================================
