------------------------------ MODULE Rotator ------------------------------
(***************************************************************************)
(* The rotating endpoint: Rotator::run_until_shutdown, its accept loop and *)
(* one task per connection (src/rotator/mod.rs, src/rotator/server.rs).     *)
(*                                                                         *)
(* The feeder (Add, force_ready), the clients, the upstreams and Ctrl+C are *)
(* the environment.  A connection between two awaits is one action; the     *)
(* deadlines are the actions that end a phase whatever the peer does.  The  *)
(* one await without a deadline is the write of the request bytes to the    *)
(* upstream, and Fairness leaves exactly that one to the upstream.          *)
(***************************************************************************)
EXTENDS RotatorPool

CONSTANTS
    MaxConns,       \* bound on the accepted connections
    MinReady        \* ready_target: proxies to wait for before accepting

ASSUME RotatorAssumption ==
    /\ MaxConns \in Nat
    /\ MinReady \in Nat

VARIABLES
    server,         \* run_until_shutdown: where it stands
    bypass,         \* ready_bypass
    shutdown,       \* the shutdown watch was set
    conn,           \* the connection tasks
    failRun,        \* history: failed relays through a proxy since its last good one
    tally           \* history: round-robin picks of a proxy since the pool last changed

serverVars == <<server, bypass, shutdown>>
vars == <<entries, cursor, strategy, server, bypass, shutdown, conn, failRun, tally>>

Conns == 1..MaxConns
Phases == {"new", "head", "opening", "sending", "relaying", "closed"}
Lent == {"opening", "sending", "relaying"}
ServerStates == {"binding", "waiting", "accepting", "draining", "done", "failed"}

TypeOK ==
    /\ PoolTypeOK
    /\ server \in ServerStates
    /\ bypass \in BOOLEAN
    /\ shutdown \in BOOLEAN
    /\ conn \in [Conns -> [pc : Phases, proxy : Proxies \cup {NoProxy}]]
    /\ failRun \in [Proxies -> 0..MaxFailures]
    /\ tally \in [Proxies -> Nat]

NoPicks == [p \in Proxies |-> 0]

Init ==
    /\ PoolInit
    /\ server = "binding"
    /\ bypass = FALSE
    /\ shutdown = FALSE
    /\ conn = [c \in Conns |-> [pc |-> "new", proxy |-> NoProxy]]
    /\ failRun = [p \in Proxies |-> 0]
    /\ tally = NoPicks
-----------------------------------------------------------------------------
(* Which proxies a scan meets, and in which order: what a pick depends on.  *)
Shape == [i \in DOMAIN entries |-> <<entries[i].proxy, entries[i].cooling>>]

Retally == tally' = IF Shape' = Shape THEN tally ELSE NoPicks

OpenConns == {c \in Conns : conn[c].pc \notin {"new", "closed"}}

Close(c) == conn' = [conn EXCEPT ![c] = [pc |-> "closed", proxy |-> NoProxy]]

-----------------------------------------------------------------------------
(* The feeder and Ctrl+C.                                                   *)
Feed(p) ==
    /\ Add(p)
    /\ Retally
    /\ UNCHANGED <<server, bypass, shutdown, conn, failRun>>

ForceReady ==
    /\ ~bypass
    /\ bypass' = TRUE
    /\ UNCHANGED <<entries, cursor, strategy, server, shutdown, conn, failRun, tally>>

Shutdown ==
    /\ ~shutdown
    /\ shutdown' = TRUE
    /\ UNCHANGED <<entries, cursor, strategy, server, bypass, conn, failRun, tally>>

Cooled(i) ==
    /\ CooldownEnds(i)
    /\ Retally
    /\ UNCHANGED <<server, bypass, shutdown, conn, failRun>>
-----------------------------------------------------------------------------
(* run_until_shutdown: bind, wait for the pool, accept, drain.              *)
ServerGoes(from, to) ==
    /\ server = from
    /\ server' = to
    /\ UNCHANGED <<entries, cursor, strategy, bypass, shutdown, conn, failRun, tally>>

Bind == ServerGoes("binding", "waiting") \/ ServerGoes("binding", "failed")

(* wait_for_ready polls the pool and the bypass, for at most two minutes;   *)
(* it does not look at the shutdown.                                        *)
PoolReady == (bypass \/ Ready >= MinReady) /\ ServerGoes("waiting", "accepting")
ReadyWaitTimesOut == ServerGoes("waiting", "accepting")

(* accept_loop: the select may still accept after the shutdown was set.     *)
Accept(c) ==
    /\ server = "accepting"
    /\ conn[c].pc = "new"
    /\ \A d \in 1..(c - 1) : conn[d].pc # "new"
    /\ conn' = [conn EXCEPT ![c].pc = "head"]
    /\ UNCHANGED <<entries, cursor, strategy, server, bypass, shutdown, failRun, tally>>

StopAcceptingOnAccept ==
    /\ shutdown
    /\ \E c \in Conns : conn[c].pc = "new"
    /\ ServerGoes("accepting", "draining")

StopAccepting == shutdown /\ ServerGoes("accepting", "draining")

DrainedWithoutJoin == ServerGoes("draining", "done")

Drained == OpenConns = {} /\ ServerGoes("draining", "done")
-----------------------------------------------------------------------------
(* handle_connection: a head that is late, malformed or not authorized is   *)
(* answered and the connection closed without touching the pool.            *)
RejectHead(c) ==
    /\ conn[c].pc = "head"
    /\ Close(c)
    /\ UNCHANGED <<entries, cursor, strategy, server, bypass, shutdown, failRun, tally>>

(* An accepted head picks an upstream and starts to open it.                *)
PickUpstream(c, p) ==
    /\ conn[c].pc = "head"
    /\ p # NoProxy
    /\ Pick(p)
    /\ conn' = [conn EXCEPT ![c] = [pc |-> "opening", proxy |-> p]]
    /\ tally' = [tally EXCEPT ![p] = IF strategy = "RoundRobin" THEN @ + 1 ELSE @]
    /\ UNCHANGED <<server, bypass, shutdown, failRun>>

(* Nothing to pick: the client gets 503.                                    *)
RefuseNoProxy(c) ==
    /\ conn[c].pc = "head"
    /\ Pick(NoProxy)
    /\ Close(c)
    /\ UNCHANGED <<server, bypass, shutdown, failRun, tally>>

(* open_upstream connected and shook hands within the deadline.  A tunnel   *)
(* without buffered bytes has nothing to write and goes on to the relay.    *)
UpstreamOpened(c) ==
    /\ conn[c].pc = "opening"
    /\ \E next \in {"sending", "relaying"} : conn' = [conn EXCEPT ![c].pc = next]
    /\ UNCHANGED <<entries, cursor, strategy, server, bypass, shutdown, failRun, tally>>

RequestSent(c) ==
    /\ conn[c].pc = "sending"
    /\ conn' = [conn EXCEPT ![c].pc = "relaying"]
    /\ UNCHANGED <<entries, cursor, strategy, server, bypass, shutdown, failRun, tally>>

GoodRelayUncleared(c) ==
    /\ UNCHANGED <<entries, cursor, strategy>>
    /\ failRun' = [failRun EXCEPT ![conn[c].proxy] = 0]

(* A relay that ran to its end, or broke, clears the streak of its proxy.   *)
ReportGood(c) ==
    /\ ReportSuccess(conn[c].proxy)
    /\ failRun' = [failRun EXCEPT ![conn[c].proxy] = 0]

ReportBad(c) ==
    /\ ReportFailure(conn[c].proxy)
    /\ failRun' = [failRun EXCEPT ![conn[c].proxy] =
                        IF @ < MaxFailures THEN @ + 1 ELSE @]

RelayEnds(c) ==
    /\ conn[c].pc = "relaying"
    /\ ReportGood(c)
    /\ Close(c)
    /\ Retally
    /\ UNCHANGED <<server, bypass, shutdown>>

(* The upstream could not be opened, the request not written, or the relay  *)
(* outlived the deadline: the failure counts against the proxy.             *)
FailsIn(c, phase) ==
    /\ conn[c].pc = phase
    /\ ReportBad(c)
    /\ Close(c)
    /\ Retally
    /\ UNCHANGED <<server, bypass, shutdown>>

OpenFails(c) == FailsIn(c, "opening")
SendFails(c) == FailsIn(c, "sending")
RelayTimesOut(c) == FailsIn(c, "relaying")
-----------------------------------------------------------------------------
Environment ==
    \/ ForceReady \/ Shutdown
    \/ \E p \in Proxies : Feed(p)
    \/ \E i \in DOMAIN entries : Cooled(i)

Serving ==
    \/ Bind \/ PoolReady \/ ReadyWaitTimesOut \/ StopAccepting \/ Drained
    \/ \E c \in Conns : Accept(c)

HeadStep(c) ==
    \/ RejectHead(c) \/ RefuseNoProxy(c)
    \/ \E p \in Proxies : PickUpstream(c, p)

(* The steps a deadline forces.                                             *)
TimedStep(c) ==
    HeadStep(c) \/ UpstreamOpened(c) \/ OpenFails(c) \/ RelayEnds(c) \/ RelayTimesOut(c)

(* The steps only the upstream's socket can bring about.                    *)
UntimedStep(c) == RequestSent(c) \/ SendFails(c)

Next ==
    \/ Environment
    \/ Serving
    \/ \E c \in Conns : TimedStep(c) \/ UntimedStep(c)

Spec == Init /\ [][Next]_vars

(* The runtime polls a ready task again, and the deadlines fire; nothing    *)
(* makes an upstream read what was sent to it.                              *)
Fairness ==
    /\ WF_vars(Bind) /\ WF_vars(ReadyWaitTimesOut)
    /\ WF_vars(StopAccepting) /\ WF_vars(Drained)
    /\ \A c \in Conns : WF_vars(TimedStep(c))

FairSpec == Spec /\ Fairness
-----------------------------------------------------------------------------
(* Pool soundness: the endpoints in the pool are pairwise distinct and the  *)
(* vector never outgrows MAX_POOL_SIZE, however adds, evictions by          *)
(* swap_remove and late reports interleave.                                 *)
PoolSound ==
    /\ Len(entries) <= MaxPoolSize
    /\ \A i, j \in DOMAIN entries : entries[i].proxy = entries[j].proxy => i = j

(* A pooled proxy is never charged with more failures than the connections  *)
(* through it really had since the last good relay, whichever incarnation   *)
(* of the entry they picked.                                                *)
ChargesBacked ==
    \A i \in DOMAIN entries : entries[i].failures <= failRun[entries[i].proxy]

(* A proxy leaves the pool only when the last MAX_CONSECUTIVE_FAILURES      *)
(* relays through it all failed.                                            *)
EvictionEarned ==
    [][\A p \in Members \ Members' : failRun'[p] = MaxFailures]_vars

(* A client is refused for want of a proxy only if no entry was outside its *)
(* cooldown at that moment, wherever the scan started.                      *)
RefusedOnlyIfNoneReady ==
    [][(\E c \in Conns : RefuseNoProxy(c)) => Ready = 0]_vars

(* While the pool stands still with every entry ready, RoundRobin spreads   *)
(* the picks: no entry is ahead of another by more than one.                *)
RoundRobinBalanced ==
    (strategy = "RoundRobin" /\ Ready = Len(entries)) =>
        \A p, q \in Members : tally[p] <= tally[q] + 1

(* run_until_shutdown returns only after the last accepted connection has   *)
(* closed: the drain cuts nothing off.                                      *)
DrainCutsNothingOff ==
    server = "done" => OpenConns = {}

(* After Ctrl+C the endpoint stops, unless a connection sits in the one     *)
(* await without a deadline.                                                *)
StopsUnlessWriteStalls ==
    shutdown ~> (server \in {"done", "failed"} \/ \E c \in Conns : conn[c].pc = "sending")

(* "Every relay phase is deadline-bounded, so the drain always terminates"  *)
(* (server.rs): what the comment on accept_loop says.                       *)
DrainAlwaysTerminates ==
    shutdown ~> server \in {"done", "failed"}

(* The pool, seen through its members and the connections that hold one.    *)
StandingOf(p) ==
    IF p \in Members
    THEN [failures |-> entries[PositionOf(p)].failures, cooling |-> entries[PositionOf(p)].cooling]
    ELSE [failures |-> -1, cooling |-> FALSE]

HoldersOf(p) == {c \in Conns : conn[c].pc \in Lent /\ conn[c].proxy = p}

Contract == INSTANCE PoolContract WITH
    standing <- [p \in Proxies |-> StandingOf(p)],
    holders <- [p \in Proxies |-> HoldersOf(p)]

(* The endpoint implements the lending contract of PoolContract.            *)
ImplementsContract == Contract!Spec
=============================================================================
