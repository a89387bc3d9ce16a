---------------------------- MODULE SourceChecks ----------------------------
(* Providers and Parsers evaluated over all small bodies, chunkings, answers *)
(* and expressions.                                                          *)
EXTENDS Naturals, Sequences

P == INSTANCE Providers
Cat == INSTANCE Catalogue

\* Every schema built into flx is one its builder accepts, so no `expect' of a provider panics,
\* and the paths of address and port are never empty, so no list fails to compile.
ASSUME StaticSchemasBuild ==
    /\ Len(Cat!Names) = Len(Cat!Lists) /\ Len(Cat!GithubRaw) = 45
    /\ \A i \in DOMAIN Cat!Lists, n \in 1..45 : n \in DOMAIN Cat!Lists[i] =>
          /\ Cat!Lists[i][n].types # {}
          /\ Cat!Lists[i][n].mode = "json rows" => Cat!SchemaBuilds(Cat!Lists[i][n].schema)

ProviderSets == {{}, {"stormsia"}, {"geonode", "stormsia"}, {"geonode", "github-raw"}, {"custom"}}

\* Every list of a selected provider is asked in exactly one phase, and a source of the user's
\* own is never left out nor put off.
ASSUME EverySourceIsScheduled ==
    \A include, exclude \in ProviderSets, custom \in 0..2 : Cat!Accepted(include, custom) =>
        LET providers == Cat!Providers(include, exclude, custom)
            count(tier) == Len(Cat!Scheduled(tier, providers, {}))
        IN  /\ count("primary") + count("fallback") =
                  P!FoldLeft(LAMBDA sum, n : sum + Len(Cat!SourcesOf(n)), 0, providers)
            /\ count("primary") >= custom
            /\ include \cap exclude = {} /\ include # {} =>
                  P!ToSet(providers) = (include \ {"custom"}) \cup (IF custom > 0 THEN {"custom"} ELSE {})

JsonOf(ip, port) ==
    [ip |-> ip, port |-> port, protocol |-> {}, protocols |-> <<>>, listed |-> FALSE]
JsonRows == {JsonOf({"a"}, {80}), JsonOf({}, {80}), JsonOf({"b"}, {0}),
             [JsonOf({"c"}, {1}) EXCEPT !.protocols = <<"SOCKS4", "SOCKS5">>, !.listed = TRUE],
             [JsonOf({"d"}, {1}) EXCEPT !.protocol = {"HTTP"}, !.listed = TRUE]}
JsonArrays == [kind : {"array"}, items : UNION {[1..n -> JsonRows] : n \in 0..2}, cut : BOOLEAN]
Member(key, value) == [key |-> key, value |-> value]
JsonBodies ==
    JsonArrays \cup [kind : {"object"}, cut : BOOLEAN,
                     members : {<<Member("rows", a)>> : a \in JsonArrays}
                        \cup {<<Member("rows", a), Member("rows", [kind |-> "other"])>> : a \in JsonArrays}]
Schemas == {[kind |-> "one"], [kind |-> "many", fixed |-> {}], [kind |-> "fixed", fixed |-> {"HTTP"}]}

\* A visitor that stops gets the first rows of all, and its stop is never an error; a parser
\* that fails has given the rows before the break (visit_json_rows_with).
ASSUME StopsAreNoErrors ==
    \A d \in JsonBodies, path \in {<<>>, <<"rows">>}, schema \in Schemas, room \in 1..3 :
        LET all == P!VisitJson(d, path, schema, 100)
            some == P!VisitJson(d, path, schema, room)
        IN  /\ P!IsPrefix(some.rows, all.rows)
            /\ Len(some.rows) = room => some.ok
            /\ Len(some.rows) < room => some = all

Cell(ip, port, last) ==
    [ip |-> ip, port |-> port, last |-> last, protocol |-> {}, level |-> "Unknown", yes |-> FALSE]
Cells == {Cell({"a"}, {}, {}), Cell({}, {80}, {80}), Cell({}, {}, {90}),
          [Cell({}, {}, {}) EXCEPT !.level = "Elite"], [Cell({}, {}, {}) EXCEPT !.yes = TRUE],
          [Cell({}, {}, {}) EXCEPT !.protocol = {[family |-> "SOCKS4", level |-> "Unknown"]}]}
Heading(is, has) == [is |-> is, has |-> has]
Headings == {Heading({"ip"}, {"ip"}), Heading({}, {"ip"}), Heading({"port"}, {"port"}),
             Heading({"type"}, {"type"}), Heading({"https"}, {"https"}), Heading({}, {})}
ThreeOf(S) == [1..3 -> S]

\* No cell is read for two columns; a row is one proxy at most, with the address and the port
\* of cells of that row, and only an HTTP proxy carries a level (visit_html_table).
ASSUME TablesAreRead ==
    \A header \in ThreeOf(Headings), row \in ThreeOf(Cells) :
        LET columns == P!Columns(header)
            out == P!VisitTables(<<[header |-> header, rows |-> <<row>>]>>, 9)
        IN  /\ \A i \in 1..3 : P!Cardinality(P!Role(columns, i)) <= 1
            /\ Len(out) <= 1
            /\ \A n \in DOMAIN out :
                  /\ \E i, k \in 1..3 : i # k /\ out[n][1] \in row[i].ip
                                              /\ out[n][2] \in row[k].port \cup row[k].last
                  /\ \A p \in out[n][3] : p.level # "Unknown" => p.family \in {"HTTP", "HTTPS"}

ByteKinds == {"a", "2", "3", "4", "c"}

\* However a body is cut into chunks, its text is that of the whole, and no more than three
\* bytes ever wait (append_utf8).
ASSUME ChunksDoNotMatter ==
    \A bytes \in UNION {[1..n -> ByteKinds] : n \in 0..5} : \A i, j \in 0..Len(bytes) :
        i <= j =>
            LET chunks == <<SubSeq(bytes, 1, i), SubSeq(bytes, i + 1, j), SubSeq(bytes, j + 1, Len(bytes))>>
                state == P!Collect(chunks)
            IN  /\ P!Finished(state) = IF P!Decode(bytes).valid = Len(bytes) THEN {bytes} ELSE {}
                /\ Len(state.pending) <= 3

Pages == {"u1", "u2", "u3"}
Answers == {[status |-> 200, location |-> {}], [status |-> 304, location |-> {}],
            [status |-> 404, location |-> {"u1"}]}
           \cup {[status |-> 302, location |-> {u}] : u \in Pages \cup {"invalid"}}

\* A download ends, asks no address twice and follows no more redirects than allowed.
ASSUME DownloadsEnd ==
    \A answers \in [Pages -> Answers], max \in 0..3 :
        LET walk == P!Walk("u1", answers, max)
        IN  /\ walk.outcome # "going"
            /\ walk.redirects <= max
            /\ walk.outcome \in {"answer", "status"} => P!Cardinality(walk.visited) = walk.redirects + 1

Methods == {[method |-> "repeat", count |-> 2], [method |-> "split", separator |-> {}],
            [method |-> "split", separator |-> {1}], [method |-> "reverse"],
            [method |-> "join", separator |-> <<1, 1>>], [method |-> "substring", from |-> 3, to |-> 1],
            [method |-> "concat", args |-> <<<<2, 2>>>>], [method |-> "map", offset |-> 1]}

\* An address that is computed never grows past the bound, or what was written out
\* (MAX_EVAL_LEN).
ASSUME DecodedIsBounded ==
    \A n \in 0..5, calls \in UNION {[1..k -> Methods] : k \in 0..3} :
        LET text == [i \in 1..n |-> i]
            codes == [i \in 1..n |-> [code |-> {i}, chars |-> <<i, i>>]]
        IN  \A v \in P!Evaluate(P!Text(text), calls, 4, 4) \cup P!Evaluate(P!List(codes), calls, 4, 4) :
                Len(v.parts) <= (IF n > 4 THEN n ELSE 4)
=============================================================================
