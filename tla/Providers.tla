----------------------------- MODULE Providers -----------------------------
(***************************************************************************)
(* How a source is downloaded and what its rows become                      *)
(* (src/providers/mod.rs, src/providers/proxynova.rs).                      *)
(***************************************************************************)
EXTENDS Parsers, FiniteSetsExt

\* scrape_with and visit: a row's own protocol, or the defaults of its source.
RowTypes(row, defaults) == IF row[3] # {} THEN row[3] ELSE defaults
-----------------------------------------------------------------------------
(* ProxyProvider::fetch follows redirects, each URL once.  A response is      *)
(*   [status, location, declared, body], with an optional location (invalid   *)
(* when it cannot be joined) and declared length.                             *)
IsRedirect(response) == response.status \in 300..399 /\ response.location # {}

\* One request: the walk goes on, or stops with an outcome.
Step(walk, answers, max) ==
    LET response == answers[walk.url]
        target == CHOOSE t \in response.location : TRUE
    IN  IF walk.outcome # "going" THEN walk
        ELSE IF walk.url \in walk.visited THEN [walk EXCEPT !.outcome = "loop"]
        ELSE IF ~IsRedirect(response)
        THEN [walk EXCEPT !.visited = @ \cup {walk.url},
                          !.outcome = IF response.status \in 200..299 THEN "answer" ELSE "status"]
        ELSE IF target = "invalid" \/ walk.redirects + 1 > max
        THEN [walk EXCEPT !.visited = @ \cup {walk.url},
                          !.outcome = IF target = "invalid" THEN "invalid" ELSE "too many"]
        ELSE [walk EXCEPT !.visited = @ \cup {walk.url}, !.url = target, !.redirects = @ + 1]

Walk(first, answers, max) ==
    FoldLeft(LAMBDA walk, n : Step(walk, answers, max),
             [url |-> first, visited |-> {}, redirects |-> 0, outcome |-> "going"],
             [n \in 1..(max + 2) |-> n])

\* The length is checked as declared and again as decoded, after each chunk.
WithinLimit(declared, sizes, limit) ==
    /\ \A n \in declared : n <= limit
    /\ \A k \in 0..Len(sizes) : FoldLeft(LAMBDA a, b : a + b, 0, SubSeq(sizes, 1, k)) <= limit

\* BodyDecoder::new
KnownEncoding(encoding) == encoding \in {"none", "", "identity", "gzip", "x-gzip"}
-----------------------------------------------------------------------------
(* Utf8Collector: chunks cut characters anywhere, up to three bytes of one wait *)
(* for the next chunk.  A byte is "a", a continuation "c", or the lead "2", "3" *)
(* or "4" of a character of that many bytes.                                    *)
Width(byte) == CASE byte = "a" -> 1 [] byte = "2" -> 2 [] byte = "3" -> 3 [] byte = "4" -> 4 [] OTHER -> 0

\* str::from_utf8: the bytes that are valid, and whether what follows is only unfinished.
Decode(bytes) ==
    LET charAt(i) == i + Width(bytes[i]) - 1
        whole(i) == /\ Width(bytes[i]) > 0 /\ charAt(i) <= Len(bytes)
                    /\ \A k \in (i + 1)..charAt(i) : bytes[k] = "c"
        step(upTo, i) == IF i = upTo + 1 /\ whole(i) THEN charAt(i) ELSE upTo
        valid == FoldLeft(step, 0, [i \in DOMAIN bytes |-> i])
        tail == SubSeq(bytes, valid + 1, Len(bytes))
    IN  [valid |-> valid,
         unfinished |-> /\ tail # <<>> /\ Width(tail[1]) > Len(tail)
                        /\ \A k \in 2..Len(tail) : tail[k] = "c"]

\* append_utf8
AppendUtf8(state, chunk) ==
    LET bytes == state.pending \o chunk
        decoded == Decode(bytes)
    IN  IF ~state.ok THEN state
        ELSE IF decoded.valid = Len(bytes) \/ decoded.unfinished
        THEN [ok |-> TRUE, content |-> state.content \o SubSeq(bytes, 1, decoded.valid),
              pending |-> SubSeq(bytes, decoded.valid + 1, Len(bytes))]
        ELSE [state EXCEPT !.ok = FALSE]

Collect(chunks) == FoldLeft(AppendUtf8, [ok |-> TRUE, content |-> <<>>, pending |-> <<>>], chunks)

\* finish: the text, unless a character is still unfinished.
Finished(state) == IF state.ok /\ state.pending = <<>> THEN {state.content} ELSE {}
-----------------------------------------------------------------------------
(* decode_proxynova_ip: an address may be an expression of string methods.  A  *)
(* value is [kind : "text" | "list", parts], where the parts of a text are its  *)
(* characters and those of a list its elements, [code, chars] with a code where *)
(* the element is a number; what fails is the empty set.                        *)
Text(chars) == [kind |-> "text", parts |-> chars]
List(items) == [kind |-> "list", parts |-> items]
Piece(chars) == [code |-> {}, chars |-> chars]

Clamp(n, len) == IF n < 0 THEN 0 ELSE IF n > len THEN len ELSE n
Substring(chars, from, to) ==
    LET a == Clamp(from, Len(chars))
        b == Clamp(to, Len(chars))
    IN  SubSeq(chars, (IF a <= b THEN a ELSE b) + 1, IF a <= b THEN b ELSE a)

Repeated(chars, n) == FlattenSeq([i \in 1..n |-> chars])

\* str::split: every character by itself, or at each character that separates.
Pieces(chars, separator) ==
    IF separator = {} THEN [i \in DOMAIN chars |-> Piece(<<chars[i]>>)]
    ELSE FoldLeft(LAMBDA out, c : IF c \in separator THEN Append(out, Piece(<<>>))
                                  ELSE [out EXCEPT ![Len(out)].chars = Append(@, c)],
                  <<Piece(<<>>)>>, chars)

Joined(items, separator) ==
    FlattenSeq([i \in DOMAIN items |-> (IF i = 1 THEN <<>> ELSE separator) \o items[i].chars])

\* String.fromCharCode of each number less the offset; a code that is no character is left out.
FromCodes(items, offset) ==
    SelectSeq([i \in DOMAIN items |-> (CHOOSE n \in items[i].code : TRUE) - offset],
              LAMBDA n : n \in 0..1114111 /\ n \notin 55296..57343)

OnText(value, results) == IF value.kind = "text" THEN results ELSE {}
AtMost(chars, max) == IF Len(chars) <= max THEN {Text(chars)} ELSE {}

\* apply_substring, apply_repeat, apply_split, apply_reverse, apply_join, apply_concat and
\* apply_map; a text joins as itself.
Apply(call, value, max, maxCodes) ==
    CASE call.method = "substring" ->
           OnText(value, {Text(Substring(value.parts, call.from, call.to))})
      [] call.method = "repeat" ->
           OnText(value, IF call.count < 0 THEN {} ELSE AtMost(Repeated(value.parts, call.count), max))
      [] call.method = "split" ->
           OnText(value, {List(Pieces(value.parts, call.separator))})
      [] call.method = "reverse" ->
           IF value.kind = "list" THEN {List(Reverse(value.parts))} ELSE {}
      [] call.method = "join" ->
           IF value.kind = "text" THEN {value} ELSE AtMost(Joined(value.parts, call.separator), max)
      [] call.method = "concat" ->
           OnText(value, IF call.args = <<>> THEN {value}
                         ELSE AtMost(value.parts \o FlattenSeq(call.args), max))
      [] call.method = "map" ->
           IF value.kind = "list" /\ \A i \in DOMAIN value.parts : value.parts[i].code # {}
           THEN AtMost(FromCodes(value.parts, call.offset), maxCodes)
           ELSE {}
      [] OTHER -> {}

\* parse_expr: the methods one after the other; only a text is an address.
Evaluate(primary, calls, max, maxCodes) ==
    LET apply(values, call) == UNION {Apply(call, v, max, maxCodes) : v \in values}
    IN  {v \in FoldLeft(apply, {primary}, calls) : v.kind = "text"}
=============================================================================
