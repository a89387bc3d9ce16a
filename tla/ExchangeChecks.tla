--------------------------- MODULE ExchangeChecks ---------------------------
(* Judging and Handshakes: what one exchange decides, evaluated over all      *)
(* small answers and replies.                                                 *)
EXTENDS Integers, Sequences

J == INSTANCE Judging
H == INSTANCE Handshakes

MaxBody == 3
Chunks == [size : 1..2, marks : SUBSET {"token", "cookie", "own ip", "proxy header"}]
Replies ==
    [status : {200, 204, 404}, text : BOOLEAN, head : {{}, {"proxy header"}},
     chunks : UNION {[1..n -> Chunks] : n \in 0..2}, end : {"closed", "late"}]

\* Stopping early gives the verdict of the whole answer, and one more: an answer that is too
\* long or late still shows a transparent proxy (to_raw_response_early_exit).
ASSUME EarlyExitAgrees ==
    \A answer \in Replies, cookies \in BOOLEAN :
        LET wanted == J!Wanted(cookies, FALSE)
            early == J!HttpVerdict(answer, wanted, "known", MaxBody)
        IN  \/ early = J!HttpVerdict(answer, wanted, "found", MaxBody)
            \/ early = "Transparent" /\ J!WholeText(answer, MaxBody) = {}

\* No level is read off an answer that is no judge's: whatever the own address, a level
\* needs the token, and a tunnel over TLS asks no less of a judge than its preflight.
ASSUME LevelsNeedTheToken ==
    \A answer \in Replies, lookup \in {"known", "found", "failed"} :
        LET tunnel == J!TunnelAccepts(answer, {}, TRUE, 0, MaxBody)
        IN  /\ J!HttpVerdict(answer, {}, lookup, MaxBody) \notin {"blamed", "passed over"} =>
                  "token" \in answer.head \cup J!Found(answer.chunks)
            /\ tunnel => J!JudgeVerifies(answer, MaxBody)

Bytes == {"r", "n", "x"}
Heads == UNION {[1..n -> Bytes] : n \in 0..7}

\* Both readers of a CONNECT answer stop at the same byte and keep the same limit.
ASSUME HeadReadersAgree == \A in \in Heads : H!HeadByBytes(in, 5) = H!HeadByLines(in, 5)

Addresses == {<<1, 9, 9, 9, 9>>, <<3, 0>>, <<3, 2, 9, 9>>} \cup {<<4>> \o [i \in 1..16 |-> 9]}
Auths == {{}, {[user |-> 1, pass |-> 255]}, {[user |-> 0, pass |-> 1]}, {[user |-> 1, pass |-> 256]}}
Granted(auth) == IF auth = {} THEN <<5, 0>> ELSE <<5, 2, 1, 0>>

\* A SOCKS5 reply is consumed to its last byte: what the judge sends next is left over, for
\* every type of address, and a proxy that wants other credentials is refused.
ASSUME RepliesAreConsumed ==
    \A address \in Addresses, auth \in Auths, other \in Auths, next \in {<<>>, <<7, 7>>} :
        LET reply == Granted(other) \o <<5, 0, 0>> \o address \o <<0, 80>> \o next
        IN  H!Socks5Leaves(auth, [kind |-> "name", length |-> 255, text |-> "host"], {80}, reply) =
                IF Granted(other) = Granted(auth) /\ \A a \in auth : H!UserPass(a)
                THEN {next} ELSE {}
=============================================================================
