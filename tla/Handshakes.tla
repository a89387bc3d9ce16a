----------------------------- MODULE Handshakes -----------------------------
(***************************************************************************)
(* How a tunnel through a proxy is opened: once for the clients of the      *)
(* library (src/negotiators, src/proxy/client.rs) and once for the probes   *)
(* (src/validator/tunnel).  A reply is the sequence of bytes the proxy      *)
(* sends until it closes; a handshake leaves what follows its own reply, in *)
(* a set that is empty when it fails.                                       *)
(***************************************************************************)
EXTENDS Integers, SequencesExt

\* read_exact of n bytes: what follows them.
Skip(in, n) == IF Len(in) >= n THEN {SubSeq(in, n + 1, Len(in))} ELSE {}

\* The port a target has without saying so.
TargetPort(uri) ==
    IF uri.port # {} THEN uri.port
    ELSE CASE uri.scheme = "http" -> {80} [] uri.scheme = "https" -> {443} [] OTHER -> {}

\* ProxyAuth::socks5_user_pass: both fields have a length byte, and none may be empty.
UserPass(auth) == auth.user \in 1..255 /\ auth.pass \in 1..255
-----------------------------------------------------------------------------
\* SOCKS4: the user is a string of at most 255 bytes, a name goes behind 0.0.0.1.
Socks4Request(host, port, user) ==
    IF user > 255 THEN {}
    ELSE {<<"4", "1", port, IF host.kind = "v4" THEN "address" ELSE "0.0.0.1", user, "0">> \o
             (IF host.kind = "v4" THEN <<>> ELSE <<host.text, "0">>)}

Socks4Leaves(in) ==
    IF Len(in) >= 8 /\ in[1] = 0 /\ in[2] = 90 THEN Skip(in, 8) ELSE {}

\* SOCKS5: the offered methods, and the only one that is taken.
Socks5Offer(auth) == IF auth = {} THEN <<5, 1, 0>> ELSE <<5, 2, 0, 2>>

MethodLeaves(auth, in) ==
    IF auth = {}
    THEN IF IsPrefix(<<5, 0>>, in) THEN Skip(in, 2) ELSE {}
    ELSE IF (\A a \in auth : UserPass(a)) /\ IsPrefix(<<5, 2, 1, 0>>, in)
         THEN Skip(in, 4) ELSE {}

\* A name has a length byte; ATYP 1, 4 or 3.
Socks5Request(host, port) ==
    CASE host.kind = "v4" -> {<<5, 1, 0, 1, host.text, port>>}
      [] host.kind = "v6" -> {<<5, 1, 0, 4, host.text, port>>}
      [] host.kind = "name" ->
           IF host.length > 255 THEN {} ELSE {<<5, 1, 0, 3, host.length, host.text, port>>}

\* The bound address in the reply: its type says how long it is.
AddressLength(in) ==
    CASE in[4] = 1 -> {4}
      [] in[4] = 4 -> {16}
      [] in[4] = 3 -> IF Len(in) >= 5 THEN {1 + in[5]} ELSE {}
      [] OTHER -> {}

RequestLeaves(in) ==
    IF Len(in) >= 4 /\ in[1] = 5 /\ in[2] = 0
    THEN UNION {Skip(in, 4 + n + 2) : n \in AddressLength(in)} ELSE {}

\* Socks5Negotiator asks for the port only after the methods, the probe has it before.
Socks5Leaves(auth, host, port, in) ==
    UNION {IF port = {} \/ Socks5Request(host, port) = {} THEN {} ELSE RequestLeaves(rest) :
              rest \in MethodLeaves(auth, in)}
-----------------------------------------------------------------------------
(* CONNECT: the head of the answer is read up to its empty line, of at most   *)
(* `limit' bytes; a byte is "r", "n" or any other.                            *)
EmptyLine == <<"r", "n", "r", "n">>
EndsHead(in, n) == n >= 4 /\ SubSeq(in, n - 3, n) = EmptyLine

\* HttpsNegotiator: byte by byte.
HeadByBytes(in, limit) ==
    LET ends == {n \in 1..Len(in) : EndsHead(in, n)}
    IN  {n \in ends : n <= limit /\ \A m \in ends : n <= m}

\* read_http_headers: line by line.
LineEnds(in) == {n \in 1..Len(in) : in[n] = "n" \/ n = Len(in)}
HeadByLines(in, limit) ==
    LET ends == {n \in LineEnds(in) : EndsHead(in, n)}
    IN  {n \in ends : (\A m \in ends : n <= m) /\ (\A m \in LineEnds(in) : m <= n => m <= limit)}

ConnectLeaves(in, status, limit) ==
    IF status = 200 THEN UNION {Skip(in, n) : n \in HeadByLines(in, limit)} ELSE {}

\* What the target of CONNECT is called; an IPv6 host goes into brackets.
Authority(host, port) ==
    IF host.kind = "v6" THEN <<"[", host.text, "]", port>> ELSE <<host.text, port>>

\* CONNECT:n asks the judge's host for port n, not for the judge's own.
ConnectTarget(protocol, target) ==
    IF protocol.family = "CONNECT" THEN Authority(target.host, protocol.port)
    ELSE Authority(target.host, target.port)
-----------------------------------------------------------------------------
\* probe_once: the steps of a probe, each under the deadline of the whole attempt.
ProbeSteps(family, scheme) ==
    <<"tcp",
      CASE family \in {"HTTPS", "CONNECT"} -> "connect" [] family = "SOCKS4" -> "socks4"
        [] family = "SOCKS5" -> "socks5",
      IF scheme = "https" THEN "tls judge" ELSE "judge">>

\* send_with_auth: the steps of a request through a proxy, one deadline for all.
UsesTls(negotiator, scheme) == negotiator = "HTTPS" \/ scheme = "https"

RequestSteps(negotiator, scheme) ==
    <<"tcp">> \o (IF negotiator = "none" THEN <<>> ELSE <<negotiator>>) \o
    (IF UsesTls(negotiator, scheme) THEN <<"tls">> ELSE <<>>) \o <<"handshake", "driver", "send">>

\* The step a run of them ends in: the first that fails or that the budget does not allow.
EndsIn(steps, takes, fails, budget) ==
    LET spent(i) == FoldLeft(LAMBDA n, s : n + takes[s], 0, SubSeq(steps, 1, i))
        bad == {i \in DOMAIN steps : steps[i] \in fails \/ spent(i) > budget}
    IN  IF bad = {} THEN "done" ELSE steps[CHOOSE i \in bad : \A j \in bad : i <= j]

\* The task that drives the connection lives as long as its owner, at most the linger time.
DriverAlive(started, now, owned, linger) == owned /\ now - started < linger

\* ProxyRuntimes::apply: a probe that took no time leaves no sample.
Sampled(times, average) == IF average > 0 THEN Append(times, average) ELSE times

\* build_client_config: what an insecure run accepts.
CertAccepted(insecure, valid) == insecure \/ valid
=============================================================================
