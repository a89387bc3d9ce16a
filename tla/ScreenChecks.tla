---------------------------- MODULE ScreenChecks ----------------------------
(* Listing evaluated over all sizes of a terminal and over small lists, and   *)
(* Keys over all keys and contexts.                                           *)
EXTENDS Integers, SequencesExt

L == INSTANCE Listing
K == INSTANCE Keys

\* The columns of the table fill the line exactly at every width on which the screen is drawn,
\* each within its floor and ceiling (fit_columns), for any number of rows.
ASSUME ColumnsFillTheLine ==
    \A available \in L!MinWidth..220, rows \in {0, 99, 100, 9999, 100000} :
        LET fitted == L!FitColumns(available, rows)
            most == L!Total([c \in DOMAIN L!Columns |-> L!Columns[c].max], DOMAIN fitted)
        IN  /\ \A c \in DOMAIN fitted : fitted[c] \in L!Columns[c].min..L!Columns[c].max
            /\ {c \in DOMAIN L!Columns : L!Columns[c].hide = 0} \subseteq DOMAIN fitted
            /\ \/ L!Total(fitted, DOMAIN fitted) = available
               \/ \A c \in DOMAIN fitted : L!Columns[c].grow > 0 => fitted[c] = L!Columns[c].max

\* A column is never hidden while a wider screen has it hidden no more (hide_rank).
ASSUME WiderShowsMore ==
    \A available \in L!MinWidth..219 :
        DOMAIN L!FitColumns(available, 0) \subseteq DOMAIN L!FitColumns(available + 1, 0)

\* The rows on the screen hold the selection and leave no line empty that a row could fill, and
\* a click on a line selects the row that is drawn there (window, row_at).
ASSUME ClickSelectsWhatIsDrawn ==
    \A height \in L!MinHeight..16, len \in 0..14 : \A selected \in 0..(IF len = 0 THEN 0 ELSE len - 1) :
        LET shown == L!Window(selected, L!TableHeight(height), len)
            rows == L!TableHeight(height)
        IN  /\ len > 0 => selected \in shown.from..(shown.to - 1)
            /\ shown.to - shown.from = IF len < rows THEN len ELSE rows
            /\ \A line \in 0..(height - 1) :
                  \A i \in L!RowAt(line, height, selected, len) : i >= shown.from /\ i < shown.to
            /\ \A i \in shown.from..(shown.to - 1) :
                  i \in L!RowAt(4 + i - shown.from, height, selected, len)

Letters == {<<"a", FALSE>>, <<"a", TRUE>>, <<"b", FALSE>>}
Words(n) == UNION {[1..k -> Letters] : k \in 0..n}
Lower(text) == [i \in DOMAIN text |-> <<text[i][1], FALSE>>]

\* A match is the first place that fits; a filter with a capital matches less than the same
\* filter without, and an empty one marks nothing (find_match).
ASSUME SmartCase ==
    \A text \in Words(3), filter \in Words(2) :
        LET found == L!FindMatch(text, filter)
            folded == L!FindMatch(text, Lower(filter))
        IN  /\ found # {} => folded # {}
            /\ \A m \in found : \A n \in folded : n.begin <= m.begin
            /\ \A m \in found : m.end <= Len(text) /\ m.end - m.begin = Len(filter) /\ filter # <<>>
            /\ L!Exact(filter) => \A m \in found : SubSeq(text, m.begin + 1, m.end) = filter

SampleRow(n, score) ==
    [cells |-> [c \in 1..8 |-> <<>>], organization |-> <<>>, rtt |-> n, country |-> n, rank |-> n,
     score |-> score]
SampleRows == {SampleRow(1, {}), SampleRow(1, {5}), SampleRow(2, {5}), SampleRow(2, {7})}

\* A stable sort by insertion: each row goes behind those that may stand before it.
Inserted(rows, key, order) ==
    FoldLeft(LAMBDA sorted, i :
                 InsertAt(sorted, Len(SelectSeq(sorted, LAMBDA n : L!Before(key, order, rows[n], rows[i]))) + 1, i),
             <<>>, [i \in DOMAIN rows |-> i])

\* The list shows every row once, as sorting by insertion has them; and rows without a score come
\* last under either order (visible, compare).
ASSUME ListIsSorted ==
    \A rows \in UNION {[1..n -> SampleRows] : n \in 0..3}, order \in {"asc", "desc"} :
        \A key \in {L!SortKeys[i] : i \in DOMAIN L!SortKeys} :
            LET list == L!Visible(rows, [filter |-> <<>>, sort |-> key, order |-> order])
            IN  /\ list = Inserted(rows, key, order)
                /\ key = "score" => \A i, j \in DOMAIN list :
                      rows[list[i]].score = {} /\ rows[list[j]].score # {} => j < i

\* The line of progress fits the screen whatever its numbers, as long as the counts do
\* (progress_spans, progress_label).
ASSUME ProgressFits ==
    \A width \in {60, 61, 80, 120}, split \in {0, 9, 30}, counts \in {3, 13, 27},
       percent \in {2, 4}, rate \in {0, 8, 60} :
        LET strip == L!Strip(width, split, counts, percent, rate)
        IN  counts + split + 3 <= width => strip.bar + 3 + strip.label + strip.split <= width

\* An overlay lies within the screen, and shows its last line when it is scrolled as far as
\* possible (popup_area, render_help).
ASSUME OverlaysFit ==
    \A available, size \in 0..20 :
        LET box == L!Popup(available, size)
        IN  /\ box.at >= 0 /\ box.at + box.size <= available
            /\ \A asked \in {0, 3, 65535}, total \in 0..12 : 
                  LET at == L!Scrolled(asked, total, box.size)
                  IN  at <= asked /\ (total > 0 => at < total \/ box.size = 0)
                      /\ (asked >= total => at + box.size >= total)
-----------------------------------------------------------------------------
AllKeys == K!Named \cup UNION {K!Keymap[i].keys : i \in DOMAIN K!Keymap}
Overlays == {o \in [purpose : {{}, {"filter"}, {"format"}, {"path"}}, help : BOOLEAN, confirm : BOOLEAN] :
                o.help => ~o.confirm /\ o.purpose = {}}
Contexts ==
    {[screen |-> screen, purpose |-> o.purpose, help |-> o.help, confirm |-> o.confirm,
      pending |-> pending, count |-> count] :
        screen \in {"running", "done"}, o \in Overlays, pending \in BOOLEAN, count \in {{}, {7}}}

\* No key of the map is shadowed by an earlier row: wherever the scope of a row applies, each of
\* its keys is claimed by that row (binding_for).
ASSUME NoBindingIsDead ==
    \A i \in DOMAIN K!Keymap, context \in Contexts :
        K!Applies(K!Keymap[i].scope, context) =>
            \A key \in K!Keymap[i].keys \ {"printable"} : K!BindingFor(key, context) = {i}

\* What the footer offers is what the key does (hints, action_for), and it offers something
\* wherever no number is being typed.
ASSUME FooterTellsTheTruth ==
    \A context \in Contexts :
        /\ \A i \in K!Hints(context) : \A key \in K!Keymap[i].keys :
              K!ActionFor(key, context) = {K!Keymap[i].action}
        /\ K!Hints(context) = {} <=> context.count # {}

\* The help panel prints every binding, each under one heading (HELP_GROUPS, bindings_on).
ASSUME HelpIsComplete ==
    LET groups == <<"screen", "running", "done", "input", "confirm", "help">>
    IN  \A i \in DOMAIN K!Keymap : \E g \in DOMAIN groups :
            {h \in DOMAIN groups : i \in K!BindingsOn(groups[h])} = {g}

\* A key pressed over an overlay runs no command of the screen behind it: the help panel and a
\* question take every key, a prompt takes every character (action_for).
ASSUME OverlaysTakeTheKeys ==
    \A context \in Contexts, key \in AllKeys :
        LET commands == {K!Keymap[i].action : i \in {n \in DOMAIN K!Keymap :
                            K!Keymap[n].scope \in {"screen", "running", "done"}}}
                        \ {"ToggleHelp", "ScrollUp", "ScrollDown"}
            meant == K!ActionFor(key, context)
        IN  /\ context.confirm \/ context.help => meant # {} /\ meant \cap commands = {}
            /\ context.purpose # {} /\ ~context.pending /\ context.count = {} => meant \cap commands = {}
            /\ (context.purpose # {} /\ ~context.confirm /\ ~context.pending /\ context.count = {}
                /\ key \notin K!Named) => meant = {"Text"}

\* Letters mean nothing with Ctrl or Alt held, but Ctrl+C is heard in either case (resolve_key).
ASSUME ModifiersAreNoLetters ==
    \A press, ctrl, alt \in BOOLEAN, code \in {"c", "C", "p", "up"} :
        LET keys == K!Resolve([press |-> press, ctrl |-> ctrl, alt |-> alt, code |-> code])
        IN  /\ ctrl \/ alt \/ ~press => keys \cap {"c", "C", "p", "up"} = {}
            /\ press /\ ctrl /\ code \in {"c", "C"} <=> keys = {"ctrl c"}
=============================================================================
