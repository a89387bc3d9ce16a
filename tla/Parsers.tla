------------------------------ MODULE Parsers ------------------------------
(***************************************************************************)
(* What the parsers of proxy lists pick out of a body                       *)
(* (src/providers/parsers.rs).  An optional value is a set of at most one   *)
(* element.  A text is what the parsers can read in it,                     *)
(*   [ip : an address, port, last : numbers ("last": of its last word),     *)
(*    protocol : a known name, level : an anonymity, yes : BOOLEAN],        *)
(* and a parsed row is <<ip, port, protocol>> with an optional protocol.    *)
(***************************************************************************)
EXTENDS Integers, SequencesExt

ValidPort(n) == n \in 1..65535
Rows(ips, ports, protocol) == {<<ip, port, protocol>> : ip \in ips, port \in {p \in ports : ValidPort(p)}}

\* A visitor that takes `room' rows and says "stop" with the last of them.
Visited(rows, room) == SubSeq(rows, 1, IF room < Len(rows) THEN room ELSE Len(rows))

AllRows(items, rowsOf(_)) == FlattenSeq([i \in DOMAIN items |-> rowsOf(items[i])])

\* visit_plaintext, visit_regex_pairs, visit_base64_rows: one pair for each line or match
\* that can be read as one.
PairRow(text) == SetToSeq(Rows(text.ip, text.port, {}))
VisitPairs(texts, room) == Visited(AllRows(texts, PairRow), room)
-----------------------------------------------------------------------------
(* HTML: a header cell is the set `is' of the column names it equals and the *)
(* set `has' of those it contains.                                           *)
ColumnNames ==
    [ip |-> <<"ip address", "ip">>, port |-> <<"port">>,
     protocol |-> <<"version", "type", "protocol">>, https |-> <<"https">>,
     anonymity |-> <<"anonymity">>]

First(indices) == {n \in indices : \A m \in indices : n <= m}

\* find_column: the first name that is a cell, or else the first cell that contains a name.
FindColumn(header, column) ==
    LET names == ColumnNames[column]
        equal(name) == {i \in DOMAIN header : name \in header[i].is}
        known == {k \in DOMAIN names : equal(names[k]) # {}}
        inside == {i \in DOMAIN header : header[i].has \cap ToSet(names) # {}}
    IN  IF known = {} THEN First(inside)
        ELSE First(equal(names[CHOOSE k \in known : \A m \in known : k <= m]))

\* header_columns: without a header the address is in the first cell, the port in the next.
Columns(header) ==
    [column \in DOMAIN ColumnNames |->
        IF FindColumn(header, column) # {} THEN FindColumn(header, column)
        ELSE CASE column = "ip" -> {1} [] column = "port" -> {2} [] OTHER -> {}]

\* A cell is read for the first column that claims it, in this order.
ColumnOrder == <<"ip", "port", "protocol", "https", "anonymity">>
Role(columns, i) ==
    {ColumnOrder[k] : k \in {n \in DOMAIN ColumnOrder :
        i \in columns[ColumnOrder[n]] /\ \A m \in 1..(n - 1) : i \notin columns[ColumnOrder[m]]}}
CellOf(columns, row, column) == {row[i] : i \in {k \in DOMAIN row : column \in Role(columns, k)}}

\* parse_port: the whole cell, or its last word.
PortOf(cell) == IF cell.port # {} THEN cell.port ELSE cell.last

WithLevel(protocol, level) ==
    IF protocol.family \in {"HTTP", "HTTPS"} THEN [protocol EXCEPT !.level = level] ELSE protocol

TableProtocol(columns, row) ==
    LET named == UNION {c.protocol : c \in CellOf(columns, row, "protocol")}
        secure == {[family |-> "HTTPS", level |-> "Unknown"] :
                      c \in {x \in CellOf(columns, row, "https") : x.yes}}
        base == IF named # {} THEN named ELSE secure
        levels == {c.level : c \in CellOf(columns, row, "anonymity")}
    IN  IF levels = {} THEN base ELSE {WithLevel(p, l) : p \in base, l \in levels}

TableRow(columns, row) ==
    SetToSeq(Rows(UNION {c.ip : c \in CellOf(columns, row, "ip")},
                  UNION {PortOf(c) : c \in CellOf(columns, row, "port")},
                  TableProtocol(columns, row)))

\* visit_html_table: every table has a header of its own.
VisitTables(tables, room) ==
    Visited(AllRows(tables, LAMBDA t : AllRows(t.rows, LAMBDA r : TableRow(Columns(t.header), r))),
            room)
-----------------------------------------------------------------------------
(* JSON is parsed as it is read: a body that breaks has given the rows before *)
(* the break.  A node is [kind, members, items, cut], where `members' are the *)
(* pairs of an object in their order and `cut' says that the text ends there. *)
Broken == [kind |-> "broken"]

ChildrenOf(node, key) ==
    IF node.kind # "object" THEN <<Broken>>
    ELSE LET named == SelectSeq(node.members, LAMBDA m : m.key = key)
         IN  [i \in DOMAIN named |-> named[i].value] \o (IF node.cut THEN <<Broken>> ELSE <<>>)

\* visit_json_rows_path: every member with the name, should one come twice.
ArraysAt(document, path) ==
    FoldLeft(LAMBDA nodes, key : AllRows(nodes, LAMBDA n : ChildrenOf(n, key)), <<document>>, path)

ElementsOf(node) ==
    IF node.kind # "array" THEN <<Broken>>
    ELSE node.items \o (IF node.cut THEN <<Broken>> ELSE <<>>)

Elements(document, path) == AllRows(ArraysAt(document, path), ElementsOf)

\* visit_json_row: a schema has a protocol field, a field of many, or a fixed protocol.
JsonRow(row, schema) ==
    LET with(protocol) == SetToSeq(Rows(row.ip, row.port, protocol))
    IN  CASE schema.kind = "one" -> IF row.protocol = {} THEN <<>> ELSE with(row.protocol)
          [] schema.kind = "many" ->
               IF ~row.listed THEN <<>>
               ELSE IF row.protocols = <<>> THEN with(schema.fixed)
               ELSE AllRows(row.protocols, LAMBDA p : with({p}))
          [] schema.kind = "fixed" -> with(schema.fixed)

\* visit_json_rows_with: the rows the visitor saw, and whether the parser reports success; a
\* visitor that stops is no error.
VisitJson(document, path, schema, room) ==
    LET elements == Elements(document, path)
        whole == {n \in 0..Len(elements) : \A i \in 1..n : elements[i] # Broken}
        sound == SubSeq(elements, 1, CHOOSE n \in whole : \A m \in whole : m <= n)
        rows == AllRows(sound, LAMBDA r : JsonRow(r, schema))
    IN  [rows |-> Visited(rows, room), ok |-> Len(rows) >= room \/ Len(sound) = Len(elements)]

\* visit_json_strings: an array of pairs.
VisitStrings(document, room) ==
    VisitJson(document, <<>>, [kind |-> "fixed", fixed |-> {}], room)
=============================================================================
