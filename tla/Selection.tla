----------------------------- MODULE Selection -----------------------------
(***************************************************************************)
(* What the TYPES arguments ask for, which rows the filters keep and in     *)
(* which order they are put out (src/cli/quotas.rs, src/cli/filters.rs,     *)
(* src/filters.rs, src/proxy/models.rs).                                    *)
(*                                                                         *)
(* An optional value is a set of at most one element.  A token is the       *)
(* sequence of its "+" parts, a part [protocol, cap, limit] holds what could *)
(* be parsed: {} where the text is no protocol; the cap is "none" without   *)
(* "=", "bad" if what follows "=" is no positive number, else "capped" and  *)
(* the limit counts.  A row is                                              *)
(*   [types, expected : Seq(Protocol), times : Seq(Nat),                    *)
(*    score, country : SUBSET Nat]                                          *)
(***************************************************************************)
EXTENDS Quotas, SequencesExt

\* parse_single_type: one part without "+".
ParseSingle(part) ==
    IF part.protocol = {} \/ part.cap = "bad" THEN {}
    ELSE {[protocol |-> CHOOSE p \in part.protocol : TRUE,
           capped |-> part.cap = "capped", cap |-> part.limit]}

\* is_valid_type_value
ValidToken(token) ==
    \A i \in DOMAIN token :
        ParseSingle(token[i]) # {} /\ (Len(token) > 1 => token[i].cap = "none")

Uncapped(protocol) == [protocol |-> protocol, capped |-> FALSE, cap |-> 0]

\* The parts of a group that can be parsed, each once, in the order given.
GroupParts(token) ==
    LET add(parts, part) ==
            IF part.protocol = {} \/ Contains(parts, CHOOSE p \in part.protocol : TRUE)
            THEN parts ELSE Append(parts, CHOOSE p \in part.protocol : TRUE)
    IN  FoldLeft(add, <<>>, token)

Parsed(token) == SelectSeq(token, LAMBDA part : part.protocol # {})

\* split_type_requests: the singles with their quotas, and the AND-groups.
SplitRequests(tokens) ==
    LET split(sofar, token) ==
            IF Len(token) = 1
            THEN [sofar EXCEPT !.quotas = @ \o SetToSeq(ParseSingle(token[1]))]
            ELSE IF \E i \in DOMAIN token : token[i].cap # "none" THEN sofar
            ELSE CASE Len(Parsed(token)) = 0 -> sofar
                   [] Len(Parsed(token)) = 1 ->
                        [sofar EXCEPT !.quotas = Append(@, Uncapped(GroupParts(token)[1]))]
                   [] OTHER -> [sofar EXCEPT !.groups = Append(@, GroupParts(token))]
    IN  FoldLeft(split, [quotas |-> <<>>, groups |-> <<>>], tokens)

\* The protocols that --exclude-type takes from its tokens: Protocol::from_str knows
\* neither groups nor quotas, and what it does not know is dropped.
ExcludedBy(tokens) ==
    UNION {token[1].protocol : token \in
        {t \in Range(tokens) : Len(t) = 1 /\ t[1].cap = "none"}}
-----------------------------------------------------------------------------
\* RuntimeStats: the samples of one proxy.
NoStats == [count |-> 0, total |-> 0, min |-> 0, max |-> 0]

RecordTime(stats, t) ==
    [count |-> stats.count + 1, total |-> stats.total + t,
     min |-> IF stats.count = 0 \/ t < stats.min THEN t ELSE stats.min,
     max |-> IF t > stats.max THEN t ELSE stats.max]

StatsOf(row) == FoldLeft(RecordTime, NoStats, row.times)

\* Proxy::with_expected_types: an endpoint nobody has probed.
NewRow(expected) ==
    [types |-> <<>>, expected |-> expected, times |-> <<>>, score |-> {}, country |-> {}]

\* Proxy::validation_probe: what a probe works on keeps the samples, not the types.
ProbeRow(row) == [row EXCEPT !.types = <<>>, !.expected = <<>>]

\* The mean as a fraction; that of no samples is 0.
Average(row) ==
    IF row.times = <<>> THEN <<0, 1>> ELSE <<StatsOf(row).total, StatsOf(row).count>>

Leq(a, b) == a[1] * b[2] <= b[1] * a[2]

\* Anonymity::rank: "Unknown" is the highest.
Rank(level) ==
    CASE level = "Transparent" -> 0 [] level = "Anonymous" -> 1
      [] level = "Elite" -> 2 [] level = "Unknown" -> 3

LevelsOf(row) == {row.types[i].level : i \in {k \in DOMAIN row.types : row.types[k].family \in {"HTTP", "HTTPS"}}}

\* proxy_anonymity_rank: the best level, and that of a proxy without any is "Unknown".
RowRank(row) ==
    IF LevelsOf(row) = {} THEN Rank("Unknown")
    ELSE CHOOSE n \in {Rank(l) : l \in LevelsOf(row)} : \A l \in LevelsOf(row) : Rank(l) <= n

\* is_excluded: by family, of the validated types or else of the advertised ones.
Excluded(protocols, row) ==
    \E p \in Range(IF row.types = <<>> THEN row.expected ELSE row.types), x \in protocols :
        SameFamily(p, x)

\* ProxyFilter::matches
Keeps(options, row) ==
    /\ \A level \in options.minAnonymity : RowRank(row) >= Rank(level)
    /\ options.levels # {} => options.levels \intersect LevelsOf(row) # {}
    /\ \A least \in options.minScore : \E s \in row.score : s >= least
    /\ \A t \in options.minTime : Leq(<<t, 1>>, Average(row))
    /\ \A t \in options.maxTime : Leq(Average(row), <<t, 1>>)
    /\ ~Excluded(options.excluded, row)
-----------------------------------------------------------------------------
\* A missing country comes first.
CountryLeq(a, b) == \A x \in a.country : \E y \in b.country : x <= y

\* A row without a score comes last in both directions.
ScoreLeq(a, b, order) ==
    \A y \in b.score : \E x \in a.score : IF order = "asc" THEN x <= y ELSE y <= x

\* The comparisons of sort_proxies: a may stand before b.
Before(key, order, a, b) ==
    CASE key = "response" -> Leq(Average(a), Average(b))
      [] key = "country" -> CountryLeq(a, b)
      [] key = "anonymity" -> RowRank(a) <= RowRank(b)
      [] key = "score" -> ScoreLeq(a, b, order)

\* A stable sort: each row goes behind the rows that may stand before it.
StableSort(rows, le(_, _)) ==
    LET place(sorted, row) ==
            LET n == Len(SelectSeq(sorted, LAMBDA x : le(x, row)))
            IN  InsertAt(sorted, n + 1, row)
    IN  FoldLeft(place, <<>>, rows)

\* sort_proxies: descending is the reverse of ascending, but for scores.
SortRows(rows, key, order) ==
    LET ascending == StableSort(rows, LAMBDA a, b : Before(key, order, a, b))
    IN  IF order = "desc" /\ key # "score" THEN Reverse(ascending) ELSE ascending

\* shuffle_proxies: from the last place to the second, swap with a place drawn up to it.
ShuffleRows(rows, draw) ==
    LET swap(i, s) == [s EXCEPT ![i] = s[draw[i]], ![draw[i]] = s[i]]
    IN  FoldLeft(LAMBDA s, k : swap(Len(rows) + 1 - k, s), rows,
                 [k \in 1..(Len(rows) - 1) |-> k])

\* BufferedStream: everything is read before the first row comes out.
Buffered(rows, finish, draw) ==
    IF finish.kind = "shuffle" THEN ShuffleRows(rows, draw)
    ELSE SortRows(rows, finish.key, finish.order)
=============================================================================
