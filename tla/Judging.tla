------------------------------ MODULE Judging ------------------------------
(***************************************************************************)
(* How the answer of a judge becomes an anonymity level                     *)
(* (src/validator/checker/support.rs, src/validator/tunnel/tls.rs).         *)
(*                                                                         *)
(* Of the text of an answer only the marks the code searches for matter:    *)
(* the echoed token, the forwarded cookie and referer, the own address and  *)
(* the names of proxy headers.  An answer is                                *)
(*   [status : Nat, text : BOOLEAN  (its headers are text),                 *)
(*    head : SUBSET Marks           (marks in the headers),                 *)
(*    chunks : Seq([size : Nat, marks : SUBSET Marks]),                     *)
(*    end : "closed" | "broken" | "late"],                                  *)
(* where a mark that spans chunks belongs to the chunk that completes it.   *)
(***************************************************************************)
EXTENDS Naturals, SequencesExt

Marks == {"token", "cookie", "referer", "own ip", "proxy header"}

\* What a probe was told to insist on.
Wanted(cookies, referer) ==
    {m \in {"cookie", "referer"} : (m = "cookie" /\ cookies) \/ (m = "referer" /\ referer)}

Size(chunks) == FoldLeft(LAMBDA n, c : n + c.size, 0, chunks)
Found(chunks) == UNION {chunks[i].marks : i \in DOMAIN chunks}

\* ValidationTarget::online
JudgeUrl(url) == url.parses /\ url.scheme \in {"http", "https"} /\ url.host

\* classify_anonymity
Classify(found) ==
    IF "own ip" \in found THEN "Transparent"
    ELSE IF "proxy header" \in found THEN "Anonymous" ELSE "Elite"

\* read_bounded_body: all of the body, or an error.
BoundedBody(answer, limit) ==
    IF answer.end = "closed" /\ Size(answer.chunks) <= limit
    THEN {Found(answer.chunks)} ELSE {}

\* to_raw_response: the headers count as part of the text, but not for the limit.
WholeText(answer, limit) ==
    IF answer.text THEN {answer.head \cup b : b \in BoundedBody(answer, limit)} ELSE {}

\* The chunks after which nothing more can change the verdict: the lengths of the prefixes
\* that hold everything the probe looks for.
Enough(answer, wanted) ==
    {k \in DOMAIN answer.chunks :
        {"token", "own ip"} \cup wanted \subseteq answer.head \cup Found(SubSeq(answer.chunks, 1, k))}

\* to_raw_response_early_exit
EarlyText(answer, wanted, limit) ==
    IF ~answer.text THEN {}
    ELSE IF Enough(answer, wanted) = {} THEN WholeText(answer, limit)
    ELSE LET read == SubSeq(answer.chunks, 1, CHOOSE k \in Enough(answer, wanted) :
                                                \A n \in Enough(answer, wanted) : k <= n)
         IN  IF Size(read) <= limit THEN {answer.head \cup Found(read)} ELSE {}

(* support_http, after the exchange: "blamed" puts the judge into its cooldown, *)
(* "passed over" tries the next one, anything else is the level.  The own       *)
(* address is "known", or looked up now: "found" or "failed".                   *)
HttpVerdict(answer, wanted, ownIp, limit) ==
    LET text == IF ownIp = "known" THEN EarlyText(answer, wanted, limit)
                                   ELSE WholeText(answer, limit)
        found == UNION text
    IN  IF answer.status \notin 200..299 THEN "blamed"
        ELSE IF text = {} THEN "passed over"
        ELSE IF "token" \notin found THEN "blamed"
        ELSE IF ~(wanted \subseteq found) THEN "passed over"
        ELSE IF ownIp = "failed" THEN "Unknown" ELSE Classify(found)

(* The same question asked through a tunnel: over TLS (verify_tls_judge) only the  *)
(* body is searched, else (verify_judge) everything that came until the connection *)
(* was closed, which the limit bounds as well.                                     *)
TunnelText(answer, tls, headSize, limit) ==
    IF tls THEN BoundedBody(answer, limit)
    ELSE IF headSize > limit THEN {}
    ELSE {answer.head \cup b : b \in BoundedBody(answer, limit - headSize)}

TunnelAccepts(answer, wanted, tls, headSize, limit) ==
    /\ answer.status = 200
    /\ \E found \in TunnelText(answer, tls, headSize, limit) : {"token"} \cup wanted \subseteq found

\* verify_online: what makes a judge one.
JudgeVerifies(answer, limit) ==
    /\ answer.status \in 200..299
    /\ \E found \in BoundedBody(answer, limit) : "token" \in found
=============================================================================
