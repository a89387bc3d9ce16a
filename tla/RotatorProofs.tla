---------------------------- MODULE RotatorProofs ----------------------------
(***************************************************************************)
(* The safety of the rotating endpoint, for every set of endpoints, every   *)
(* pool size, every failure limit and any number of connections.            *)
(*                                                                         *)
(* The invariant that is inductive is IInv: the type invariant, the         *)
(* soundness of the pool, the backing of its charges by the connections'    *)
(* history, and that exactly the connections in a Lent phase hold a proxy.  *)
(***************************************************************************)
EXTENDS Rotator, PoolLemmas, WellFoundedInduction, FiniteSetTheorems

ProxyHeld ==
    \A c \in Conns : conn[c].pc \in Lent => conn[c].proxy \in Proxies

IInv == TypeOK /\ PoolSound /\ ChargesBacked /\ ProxyHeld

-----------------------------------------------------------------------------
(* What the pool's part of the invariant says of a state.                   *)
PoolInv(es, runs) ==
    /\ es \in Seq(Entry)
    /\ Len(es) <= MaxPoolSize
    /\ Distinct(es)
    /\ runs \in [Proxies -> 0..MaxFailures]
    /\ Backed(es, runs)

(* IInv gives the pool's part of it, with the vector's slots as an interval. *)
LEMMA PoolInvOf ==
    ASSUME IInv
    PROVE  PoolInv(entries, failRun) /\ DOMAIN entries = 1..Len(entries)
<1>1. DOMAIN entries = 1..Len(entries)
  BY LenProperties DEF IInv, TypeOK, PoolTypeOK
<1> QED
  BY <1>1 DEF IInv, TypeOK, PoolTypeOK, PoolSound, ChargesBacked, PoolInv, Distinct, Backed

(* The pool's part gives back the invariants the runs check.                *)
LEMMA PoolInvGives ==
    ASSUME PoolInv(entries, failRun)
    PROVE  /\ entries \in Seq(Entry)
           /\ PoolSound
           /\ ChargesBacked
           /\ failRun \in [Proxies -> 0..MaxFailures]
<1>1. DOMAIN entries = 1..Len(entries)
  BY LenProperties DEF PoolInv
<1> QED
  BY <1>1 DEF PoolSound, ChargesBacked, PoolInv, Distinct, Backed

(* RotatorPool::add keeps the pool's part of the invariant.                 *)
LEMMA AddKeeps ==
    ASSUME IInv, NEW p \in Proxies, Add(p)
    PROVE  PoolInv(entries', failRun)
<1> USE PoolInvOf
<1>1. CASE Len(entries) >= MaxPoolSize \/ p \in Members
  BY <1>1 DEF Add
<1>2. CASE ~(Len(entries) >= MaxPoolSize \/ p \in Members)
  <2> DEFINE e == [proxy |-> p, failures |-> 0, cooling |-> FALSE]
  <2>1. e \in Entry /\ e.proxy = p /\ e.failures = 0
    BY PoolAssumption DEF Entry
  <2>2. entries' = Append(entries, e)
    BY <1>2 DEF Add
  <2>3. \A i \in 1..Len(entries) : entries[i].proxy # e.proxy
    BY <1>2, <2>1 DEF Members
  <2>4. Len(Append(entries, e)) = Len(entries) + 1 /\ Len(entries) \in Nat
    BY <2>1 DEF PoolInv
  <2>5. Len(Append(entries, e)) <= MaxPoolSize
    BY <1>2, <2>4, PoolAssumption
  <2> HIDE DEF e
  <2> QED
    BY <2>1, <2>2, <2>3, <2>5, AppendSound, AppendBacked DEF PoolInv
<1> QED
  BY <1>1, <1>2

(* The end of a cooldown keeps the pool's part of the invariant.            *)
LEMMA CooldownKeeps ==
    ASSUME IInv, NEW i \in DOMAIN entries, CooldownEnds(i)
    PROVE  PoolInv(entries', failRun)
<1> USE PoolInvOf
<1> DEFINE e == [entries[i] EXCEPT !.cooling = FALSE]
<1>1. entries[i] \in Entry
  BY ElementOfSeq DEF PoolInv
<1>2. e \in Entry /\ e.proxy = entries[i].proxy /\ e.failures = entries[i].failures
  BY <1>1 DEF Entry
<1>3. entries' = [entries EXCEPT ![i] = e]
  BY DEF CooldownEnds
<1> HIDE DEF e
<1>4. e.failures <= failRun[e.proxy]
  BY <1>2 DEF PoolInv, Backed
<1> QED
  BY <1>2, <1>3, <1>4, UpdateSound, UpdateBacked DEF PoolInv

(* A good relay clears the charge and the history of its proxy together.    *)
LEMMA ReportGoodKeeps ==
    ASSUME IInv, NEW c \in Conns, conn[c].pc \in Lent, ReportGood(c)
    PROVE  PoolInv(entries', failRun')
<1> USE PoolInvOf
<1> DEFINE p == conn[c].proxy
<1>1. p \in Proxies
  BY DEF IInv, ProxyHeld
<1>2. /\ failRun' = [failRun EXCEPT ![p] = 0]
      /\ failRun' \in [Proxies -> 0..MaxFailures]
      /\ failRun'[p] = 0
      /\ \A q \in Proxies : q # p => failRun'[q] = failRun[q]
  BY <1>1, PoolAssumption DEF ReportGood, PoolInv
<1>3. CASE p \notin Members
  <2>1. entries' = entries
    BY <1>3 DEF ReportGood, ReportSuccess
  <2>2. \A i \in 1..Len(entries) : entries[i].proxy \in Proxies /\ entries[i].proxy # p
    BY <1>3, ElementOfSeq, EntryFields DEF Members, PoolInv
  <2> QED
    BY <1>2, <2>1, <2>2 DEF PoolInv, Backed
<1>4. CASE p \in Members
  <2> DEFINE i == PositionOf(p)
             e == [entries[i] EXCEPT !.failures = 0, !.cooling = FALSE]
  <2>1. i \in 1..Len(entries) /\ entries[i].proxy = p
    BY <1>4, PositionFacts DEF PoolInv
  <2>2. entries[i] \in Entry
    BY <2>1, ElementOfSeq DEF PoolInv
  <2>3. e \in Entry /\ e.proxy = entries[i].proxy /\ e.failures = 0
    BY <2>2, ClearedEntry
  <2>4. entries' = [entries EXCEPT ![i] = e]
    BY <1>4 DEF ReportGood, ReportSuccess
  <2> HIDE DEF e, i
  <2>5. e.failures <= failRun'[e.proxy]
    BY <1>2, <2>1, <2>3
  <2>6. \A q \in Proxies : q # e.proxy => failRun'[q] = failRun[q]
    BY <1>2, <2>1, <2>3
  <2>7. entries' \in Seq(Entry) /\ Len(entries') = Len(entries) /\ Distinct(entries')
    BY <2>1, <2>3, <2>4, UpdateSound DEF PoolInv
  <2>8. Backed(entries', failRun')
    <3>1. entries \in Seq(Entry) /\ Distinct(entries) /\ Backed(entries, failRun)
      BY DEF PoolInv
    <3>2. Backed([entries EXCEPT ![i] = e], failRun')
      BY ONLY <2>1, <2>3, <2>5, <2>6, <3>1, UpdateBacked
    <3> QED
      BY <2>4, <3>2
  <2> QED
    BY <1>2, <2>7, <2>8 DEF PoolInv
<1> QED
  BY <1>3, <1>4

(* A failure report keeps the pool sound, and it removes a proxy only when  *)
(* the connections' history holds the full run of failures.                 *)
LEMMA ReportBadKeeps ==
    ASSUME IInv, NEW c \in Conns, conn[c].pc \in Lent, ReportBad(c)
    PROVE  /\ PoolInv(entries', failRun')
           /\ \A q \in Members \ Members' : failRun'[q] = MaxFailures
<1> USE PoolInvOf
<1> DEFINE p == conn[c].proxy
           run == IF failRun[p] < MaxFailures THEN failRun[p] + 1 ELSE failRun[p]
<1>1. p \in Proxies
  BY DEF IInv, ProxyHeld
<1>2. /\ failRun[p] \in 0..MaxFailures
      /\ run \in 0..MaxFailures
      /\ failRun' = [failRun EXCEPT ![p] = run]
  BY <1>1, PoolAssumption DEF ReportBad, PoolInv
<1>3. /\ failRun' \in [Proxies -> 0..MaxFailures]
      /\ failRun'[p] = run
      /\ \A q \in Proxies : q # p => failRun'[q] = failRun[q]
  BY <1>1, <1>2 DEF PoolInv
<1>4. CASE p \notin Members
  <2>1. entries' = entries /\ Members' = Members
    BY <1>4 DEF ReportBad, ReportFailure, Members
  <2>2. \A i \in 1..Len(entries) : entries[i].proxy \in Proxies /\ entries[i].proxy # p
    BY <1>4, ElementOfSeq, EntryFields DEF Members, PoolInv
  <2> QED
    BY <1>3, <2>1, <2>2 DEF PoolInv, Backed
<1>5. CASE p \in Members
  <2> DEFINE i == PositionOf(p)
             f == entries[i].failures + 1
  <2>1. i \in 1..Len(entries) /\ entries[i].proxy = p
    BY <1>5, PositionFacts DEF PoolInv
  <2>2. entries[i] \in Entry
    BY <2>1, ElementOfSeq DEF PoolInv
  <2>3. entries[i].failures \in 0..(MaxFailures - 1) /\ entries[i].failures <= failRun[p]
    BY <2>1, <2>2, EntryFields DEF PoolInv, Backed
  <2>4. CASE f >= MaxFailures
    <3>1. entries' = SwapRemove(entries, i)
      BY <1>5, <2>4 DEF ReportBad, ReportFailure
    <3> HIDE DEF i
    <3>2. run = MaxFailures
      BY <1>2, <2>3, <2>4, PoolAssumption
    <3>3. /\ entries' \in Seq(Entry) /\ Distinct(entries') /\ Len(entries') = Len(entries) - 1
          /\ \A k \in 1..Len(entries') :
                /\ entries'[k].proxy # p
                /\ \E j \in 1..Len(entries) : entries'[k] = entries[j]
          /\ \A j \in 1..Len(entries) : j # i => \E k \in 1..Len(entries') : entries'[k] = entries[j]
      <4>1. entries \in Seq(Entry) /\ Distinct(entries)
        BY DEF PoolInv
      <4> DEFINE t == SwapRemove(entries, i)
      <4>2. /\ t \in Seq(Entry) /\ Distinct(t) /\ Len(t) = Len(entries) - 1
            /\ \A k \in 1..Len(t) :
                /\ t[k].proxy # entries[i].proxy
                /\ \E j \in 1..Len(entries) : t[k] = entries[j]
            /\ \A j \in 1..Len(entries) : j # i => \E k \in 1..Len(t) : t[k] = entries[j]
        BY <2>1, <4>1, RemoveSound
      <4> HIDE DEF t
      <4>3. entries' = t
        BY <3>1 DEF t
      <4> QED
        BY <2>1, <4>2, <4>3
    <3>4. Len(entries') <= MaxPoolSize
      BY <3>3, LenProperties, PoolAssumption DEF PoolInv
    <3>5. Backed(entries', failRun')
      <4>1. ASSUME NEW k \in 1..Len(entries')
            PROVE  entries'[k].failures <= failRun'[entries'[k].proxy]
        <5>1. PICK j \in 1..Len(entries) : entries'[k] = entries[j]
          BY <3>3
        <5>2. entries[j].proxy \in Proxies /\ entries[j].proxy # p
          BY <3>3, <5>1, ElementOfSeq, EntryFields DEF PoolInv
        <5> QED
          BY <1>3, <5>1, <5>2 DEF PoolInv, Backed
      <4> QED
        BY <4>1 DEF Backed
    <3>6. ASSUME NEW q \in Members, q \notin Members'
          PROVE  failRun'[q] = MaxFailures
      <4>1. PICK j \in 1..Len(entries) : entries[j].proxy = q
        BY <3>6 DEF Members
      <4>2. DOMAIN entries' = 1..Len(entries')
        BY <3>3, LenProperties
      <4>3. j = i
        BY <3>3, <3>6, <4>1, <4>2 DEF Members
      <4> QED
        BY <1>3, <2>1, <3>2, <4>1, <4>3
    <3> QED
      BY <1>3, <3>3, <3>4, <3>5, <3>6 DEF PoolInv
  <2>5. CASE ~(f >= MaxFailures)
    <3> DEFINE e == [entries[i] EXCEPT !.failures = f, !.cooling = TRUE]
    <3>1. entries' = [entries EXCEPT ![i] = e]
      BY <1>5, <2>5 DEF ReportBad, ReportFailure
    <3>2. f \in 0..(MaxFailures - 1)
      BY <2>3, <2>5, PoolAssumption
    <3>3. e \in Entry /\ e.proxy = entries[i].proxy /\ e.failures = f
      BY <2>2, <3>2 DEF Entry
    <3>4. f <= run
      BY <1>2, <2>3, <2>5, PoolAssumption
    <3> HIDE DEF e, i, f, run
    <3>5. PoolInv(entries', failRun')
      <4>1. e.failures <= failRun'[e.proxy]
        BY <1>3, <2>1, <3>3, <3>4
      <4>2. \A q \in Proxies : q # e.proxy => failRun'[q] = failRun[q]
        BY <1>3, <2>1, <3>3
      <4>3. entries' \in Seq(Entry) /\ Len(entries') = Len(entries) /\ Distinct(entries')
        BY <2>1, <3>1, <3>3, UpdateSound DEF PoolInv
      <4>4. Backed(entries', failRun')
        <5>1. entries \in Seq(Entry) /\ Distinct(entries) /\ Backed(entries, failRun)
          BY DEF PoolInv
        <5>2. Backed([entries EXCEPT ![i] = e], failRun')
          BY ONLY <2>1, <3>3, <4>1, <4>2, <5>1, UpdateBacked
        <5> QED
          BY <3>1, <5>2
      <4> QED
        BY <1>3, <4>3, <4>4 DEF PoolInv
    <3>6. Members \subseteq Members'
      <4>1. /\ Len(entries') = Len(entries)
            /\ \A j \in 1..Len(entries) : entries'[j].proxy = entries[j].proxy
            /\ DOMAIN entries' = 1..Len(entries)
        BY <2>1, <3>1, <3>3, ExceptSeq DEF PoolInv
      <4> QED
        BY <4>1 DEF Members
    <3> QED
      BY <3>5, <3>6
  <2> QED
    BY <2>4, <2>5
<1> QED
  BY <1>4, <1>5
-----------------------------------------------------------------------------
(* What the rest of the invariant says: the server, the connections and the *)
(* round-robin tally.                                                       *)
TaskInv ==
    /\ cursor \in Nat
    /\ strategy \in Strategies
    /\ server \in ServerStates
    /\ bypass \in BOOLEAN
    /\ shutdown \in BOOLEAN
    /\ conn \in [Conns -> [pc : Phases, proxy : Proxies \cup {NoProxy}]]
    /\ tally \in [Proxies -> Nat]
    /\ ProxyHeld

(* The two parts are the whole invariant.                                   *)
LEMMA IInvSplit == IInv <=> PoolInv(entries, failRun) /\ TaskInv
<1>1. IInv => PoolInv(entries, failRun) /\ TaskInv
  BY PoolInvOf DEF IInv, TypeOK, PoolTypeOK, TaskInv
<1>2. PoolInv(entries, failRun) /\ TaskInv => IInv
  BY PoolInvGives DEF IInv, TypeOK, PoolTypeOK, TaskInv
<1> QED
  BY <1>1, <1>2

(* The same of the next state.                                              *)
LEMMA IInvJoins ==
    ASSUME PoolInv(entries', failRun'), TaskInv'
    PROVE  IInv'
<1>1. DOMAIN entries' = 1..Len(entries')
  BY LenProperties DEF PoolInv
<1>2. TypeOK'
  BY DEF PoolInv, TaskInv, TypeOK, PoolTypeOK
<1>3. PoolSound'
  BY <1>1 DEF PoolSound, PoolInv, Distinct
<1>4. ChargesBacked'
  BY <1>1 DEF ChargesBacked, PoolInv, Backed
<1>5. ProxyHeld'
  BY DEF TaskInv
<1> QED
  BY <1>2, <1>3, <1>4, <1>5 DEF IInv

(* A step that leaves the pool and the history alone keeps the pool's part. *)
LEMMA PoolKept ==
    ASSUME IInv, UNCHANGED <<entries, failRun>>
    PROVE  PoolInv(entries', failRun')
BY PoolInvOf

(* The tally keeps its type, whether it is kept or cleared.                 *)
LEMMA RetallyKeeps ==
    ASSUME TaskInv, Retally
    PROVE  tally' \in [Proxies -> Nat]
BY DEF TaskInv, Retally, NoPicks

(* Moving one connection to a phase keeps the connections well formed, if   *)
(* a phase in Lent comes with a proxy.                                      *)
LEMMA ConnMoves ==
    ASSUME TaskInv, NEW c \in Conns, NEW r \in [pc : Phases, proxy : Proxies \cup {NoProxy}],
           r.pc \in Lent => r.proxy \in Proxies,
           conn' = [conn EXCEPT ![c] = r]
    PROVE  conn' \in [Conns -> [pc : Phases, proxy : Proxies \cup {NoProxy}]] /\ ProxyHeld'
BY DEF TaskInv, ProxyHeld

(* A connection that goes on with the proxy it holds.                       *)
LEMMA PhaseMoves ==
    ASSUME TaskInv, NEW c \in Conns, NEW next \in Phases,
           next \in Lent => conn[c].proxy \in Proxies,
           conn' = [conn EXCEPT ![c].pc = next]
    PROVE  conn' \in [Conns -> [pc : Phases, proxy : Proxies \cup {NoProxy}]] /\ ProxyHeld'
<1> DEFINE r == [conn[c] EXCEPT !.pc = next]
<1>1. /\ r \in [pc : Phases, proxy : Proxies \cup {NoProxy}]
      /\ r.pc \in Lent => r.proxy \in Proxies
  BY DEF TaskInv
<1>2. conn' = [conn EXCEPT ![c] = r]
  OBVIOUS
<1> QED
  BY <1>1, <1>2, ConnMoves

(* A connection that closes holds nothing.                                  *)
LEMMA CloseMoves ==
    ASSUME TaskInv, NEW c \in Conns, Close(c)
    PROVE  conn' \in [Conns -> [pc : Phases, proxy : Proxies \cup {NoProxy}]] /\ ProxyHeld'
<1>1. /\ [pc |-> "closed", proxy |-> NoProxy] \in [pc : Phases, proxy : Proxies \cup {NoProxy}]
      /\ "closed" \notin Lent
  BY DEF Phases, Lent
<1> QED
  BY <1>1, ConnMoves DEF Close

(* The invariant holds of the empty pool and the unbound endpoint.          *)
LEMMA InitHolds == Init => IInv
<1> SUFFICES ASSUME Init PROVE IInv
  OBVIOUS
<1>1. 0 \in 0..MaxFailures /\ <<>> \in Seq(Entry) /\ Len(<<>>) = 0
  BY PoolAssumption, EmptySeq
<1>2. PoolInv(entries, failRun)
  BY <1>1, PoolAssumption DEF Init, PoolInit, PoolInv, Distinct, Backed
<1>3. TaskInv
  BY DEF Init, PoolInit, TaskInv, Strategies, ServerStates, Phases, NoPicks, ProxyHeld, Lent
<1> QED
  BY <1>2, <1>3, IInvSplit

(* The environment's steps.                                                 *)
LEMMA EnvironmentKeeps == IInv /\ Environment => IInv'
<1> SUFFICES ASSUME IInv, Environment PROVE IInv'
  OBVIOUS
<1>0. TaskInv
  BY IInvSplit
<1> USE <1>0, IInvJoins, PoolKept
<1>1. CASE ForceReady \/ Shutdown
  BY <1>1 DEF ForceReady, Shutdown, TaskInv, ProxyHeld
<1>2. ASSUME NEW p \in Proxies, Feed(p) PROVE IInv'
  <2>1. PoolInv(entries', failRun')
    BY <1>2, AddKeeps DEF Feed
  <2>2. TaskInv'
    BY <1>2, RetallyKeeps DEF Feed, Add, TaskInv, ProxyHeld
  <2> QED
    BY <2>1, <2>2
<1>3. ASSUME NEW i \in DOMAIN entries, Cooled(i) PROVE IInv'
  <2>1. PoolInv(entries', failRun')
    BY <1>3, CooldownKeeps DEF Cooled
  <2>2. TaskInv'
    BY <1>3, RetallyKeeps DEF Cooled, CooldownEnds, TaskInv, ProxyHeld
  <2> QED
    BY <2>1, <2>2
<1> QED
  BY <1>1, <1>2, <1>3 DEF Environment

(* The server's steps.                                                      *)
LEMMA ServingKeeps == IInv /\ Serving => IInv'
<1> SUFFICES ASSUME IInv, Serving PROVE IInv'
  OBVIOUS
<1>0. TaskInv
  BY IInvSplit
<1> USE <1>0, IInvJoins, PoolKept
<1>1. ASSUME NEW from \in ServerStates, NEW to \in ServerStates, ServerGoes(from, to)
      PROVE  IInv'
  BY <1>1 DEF ServerGoes, TaskInv, ProxyHeld
<1>2. ASSUME NEW c \in Conns, Accept(c) PROVE IInv'
  <2>1. "head" \in Phases /\ "head" \notin Lent
    BY DEF Phases, Lent
  <2>2. conn' \in [Conns -> [pc : Phases, proxy : Proxies \cup {NoProxy}]] /\ ProxyHeld'
    BY <1>2, <2>1, PhaseMoves DEF Accept
  <2>3. PoolInv(entries', failRun') /\ TaskInv'
    BY <1>2, <2>2 DEF Accept, TaskInv
  <2> QED
    BY <2>3
<1>3. {"binding", "waiting", "accepting", "draining", "done", "failed"} = ServerStates
  BY DEF ServerStates
<1> QED
  BY <1>1, <1>2, <1>3
     DEF Serving, Bind, PoolReady, ReadyWaitTimesOut, StopAccepting, Drained

(* The steps of a connection that leave the pool's entries alone.           *)
LEMMA QuietStepsKeep ==
    ASSUME IInv, NEW c \in Conns,
           \/ RejectHead(c) \/ RefuseNoProxy(c) \/ UpstreamOpened(c) \/ RequestSent(c)
           \/ \E p \in Proxies : PickUpstream(c, p)
    PROVE  IInv'
<1>0. TaskInv
  BY IInvSplit
<1> USE <1>0, IInvJoins, PoolKept
<1>1. CASE RejectHead(c)
  BY <1>1, CloseMoves DEF RejectHead, TaskInv
<1>2. CASE RefuseNoProxy(c)
  BY <1>2, CloseMoves DEF RefuseNoProxy, Pick, TaskInv
<1>3. CASE UpstreamOpened(c)
  <2>1. PICK next \in {"sending", "relaying"} : conn' = [conn EXCEPT ![c].pc = next]
    BY <1>3 DEF UpstreamOpened
  <2>2. next \in Phases /\ conn[c].proxy \in Proxies
    BY <1>3, <2>1 DEF UpstreamOpened, Phases, Lent, TaskInv, ProxyHeld
  <2>3. conn' \in [Conns -> [pc : Phases, proxy : Proxies \cup {NoProxy}]] /\ ProxyHeld'
    BY <2>1, <2>2, PhaseMoves
  <2> QED
    BY <1>3, <2>3 DEF UpstreamOpened, TaskInv
<1>4. CASE RequestSent(c)
  <2>1. "relaying" \in Phases /\ conn[c].proxy \in Proxies
    BY <1>4 DEF RequestSent, Phases, Lent, TaskInv, ProxyHeld
  <2>2. conn' \in [Conns -> [pc : Phases, proxy : Proxies \cup {NoProxy}]] /\ ProxyHeld'
    BY <1>4, <2>1, PhaseMoves DEF RequestSent
  <2> QED
    BY <1>4, <2>2 DEF RequestSent, TaskInv
<1>5. ASSUME NEW p \in Proxies, PickUpstream(c, p) PROVE IInv'
  <2>1. [pc |-> "opening", proxy |-> p] \in [pc : Phases, proxy : Proxies \cup {NoProxy}]
    BY DEF Phases
  <2>2. conn' \in [Conns -> [pc : Phases, proxy : Proxies \cup {NoProxy}]] /\ ProxyHeld'
    BY <1>5, <2>1, ConnMoves DEF PickUpstream
  <2>3. tally' \in [Proxies -> Nat] /\ cursor' \in Nat
    BY <1>5 DEF PickUpstream, Pick, TaskInv
  <2>4. UNCHANGED <<entries, strategy, server, bypass, shutdown, failRun>>
    BY <1>5 DEF PickUpstream, Pick
  <2> QED
    BY <2>2, <2>3, <2>4 DEF TaskInv
<1> QED
  BY <1>1, <1>2, <1>3, <1>4, <1>5

(* The steps of a connection that report to the pool.                       *)
LEMMA ReportingStepsKeep ==
    ASSUME IInv, NEW c \in Conns,
           RelayEnds(c) \/ OpenFails(c) \/ SendFails(c) \/ RelayTimesOut(c)
    PROVE  /\ IInv'
           /\ \A p \in Members \ Members' : failRun'[p] = MaxFailures
<1>0. TaskInv
  BY IInvSplit
<1> USE <1>0, IInvJoins, PoolKept
<1>1. CASE RelayEnds(c)
  <2>1. PoolInv(entries', failRun')
    BY <1>1, ReportGoodKeeps DEF RelayEnds, Lent
  <2>2. TaskInv'
    BY <1>1, CloseMoves, RetallyKeeps DEF RelayEnds, ReportGood, ReportSuccess, TaskInv
  <2>3. Members \subseteq Members'
    <3>1. CASE conn[c].proxy \notin Members
      BY <1>1, <3>1 DEF RelayEnds, ReportGood, ReportSuccess, Members
    <3>2. CASE conn[c].proxy \in Members
      <4> DEFINE i == PositionOf(conn[c].proxy)
                 e == [entries[i] EXCEPT !.failures = 0, !.cooling = FALSE]
      <4>1. i \in 1..Len(entries) /\ entries \in Seq(Entry) /\ DOMAIN entries = 1..Len(entries)
        BY <3>2, PositionFacts, PoolInvOf DEF IInv, PoolInv
      <4>2. e \in Entry /\ e.proxy = entries[i].proxy
        BY <4>1, ElementOfSeq, ClearedEntry
      <4>3. entries' = [entries EXCEPT ![i] = e]
        BY <1>1, <3>2 DEF RelayEnds, ReportGood, ReportSuccess
      <4> HIDE DEF i, e
      <4>4. /\ DOMAIN entries' = DOMAIN entries
            /\ \A j \in DOMAIN entries : entries'[j].proxy = entries[j].proxy
        BY <4>1, <4>2, <4>3
      <4> QED
        BY <4>4 DEF Members
    <3> QED
      BY <3>1, <3>2
  <2> QED
    BY <2>1, <2>2, <2>3
<1>2. ASSUME NEW phase \in Lent, FailsIn(c, phase)
      PROVE  /\ IInv'
             /\ \A p \in Members \ Members' : failRun'[p] = MaxFailures
  <2>1. /\ PoolInv(entries', failRun')
        /\ \A p \in Members \ Members' : failRun'[p] = MaxFailures
    BY <1>2, ReportBadKeeps DEF FailsIn
  <2>2. TaskInv'
    BY <1>2, CloseMoves, RetallyKeeps DEF FailsIn, ReportBad, ReportFailure, TaskInv
  <2> QED
    BY <2>1, <2>2
<1> QED
  BY <1>1, <1>2 DEF OpenFails, SendFails, RelayTimesOut, Lent

(* Every step keeps the invariant.                                          *)
LEMMA NextKeeps == IInv /\ [Next]_vars => IInv'
<1> SUFFICES ASSUME IInv, [Next]_vars PROVE IInv'
  OBVIOUS
<1>1. CASE UNCHANGED vars
  BY <1>1, IInvSplit, IInvJoins, PoolKept DEF vars, TaskInv, ProxyHeld
<1>2. CASE Environment
  BY <1>2, EnvironmentKeeps
<1>3. CASE Serving
  BY <1>3, ServingKeeps
<1>4. ASSUME NEW c \in Conns, TimedStep(c) \/ UntimedStep(c) PROVE IInv'
  BY <1>4, QuietStepsKeep, ReportingStepsKeep DEF TimedStep, UntimedStep, HeadStep
<1> QED
  BY <1>1, <1>2, <1>3, <1>4 DEF Next

(* The invariant holds in every reachable state of the rotating endpoint.   *)
THEOREM InductiveInvariant == Spec => []IInv
<1>1. Init => IInv
  BY InitHolds
<1>2. IInv /\ [Next]_vars => IInv'
  BY NextKeeps
<1> QED
  BY <1>1, <1>2, PTL DEF Spec
-----------------------------------------------------------------------------
(* The state keeps its types, whatever the endpoints and the clients do.    *)
THEOREM TypeCorrect == Spec => []TypeOK
<1>1. IInv => TypeOK
  BY DEF IInv
<1> QED
  BY <1>1, InductiveInvariant, PTL

(* The pool never holds an endpoint twice nor outgrows MAX_POOL_SIZE (add,  *)
(* swap_remove in report_failure).                                          *)
THEOREM PoolIsSound == Spec => []PoolSound
<1>1. IInv => PoolSound
  BY DEF IInv
<1> QED
  BY <1>1, InductiveInvariant, PTL

(* No entry is charged with more failures than its endpoint had relays fail *)
(* since its last good one (report_success, report_failure, add).           *)
THEOREM ChargesAreBacked == Spec => []ChargesBacked
<1>1. IInv => ChargesBacked
  BY DEF IInv
<1> QED
  BY <1>1, InductiveInvariant, PTL
-----------------------------------------------------------------------------
(* A step that does not report a failure takes no endpoint out of the pool. *)
LEMMA OthersEvictNothing ==
    ASSUME IInv, Environment \/ Serving
                 \/ \E c \in Conns : \/ RejectHead(c) \/ RefuseNoProxy(c) \/ UpstreamOpened(c)
                                     \/ RequestSent(c) \/ \E p \in Proxies : PickUpstream(c, p)
    PROVE  Members \subseteq Members'
<1>1. DOMAIN entries = 1..Len(entries) /\ entries \in Seq(Entry)
  BY PoolInvOf DEF PoolInv
<1>2. CASE entries' = entries
  BY <1>2 DEF Members
<1>3. ASSUME NEW p \in Proxies, Add(p) PROVE Members \subseteq Members'
  <2>1. CASE entries' = entries
    BY <2>1 DEF Members
  <2>2. CASE entries' # entries
    <3> DEFINE e == [proxy |-> p, failures |-> 0, cooling |-> FALSE]
    <3>1. entries' = Append(entries, e) /\ e \in Entry
      BY <1>3, <2>2, PoolAssumption DEF Add, Entry
    <3> HIDE DEF e
    <3>2. DOMAIN entries \subseteq DOMAIN entries' /\ \A j \in DOMAIN entries : entries'[j] = entries[j]
      BY <1>1, <3>1, AppendProperties
    <3> QED
      BY <3>2 DEF Members
  <2> QED
    BY <2>1, <2>2
<1>4. ASSUME NEW i \in DOMAIN entries, CooldownEnds(i) PROVE Members \subseteq Members'
  <2>1. entries[i] \in Entry
    BY <1>1, ElementOfSeq
  <2> DEFINE e == [entries[i] EXCEPT !.cooling = FALSE]
  <2>2. e.proxy = entries[i].proxy
    BY <2>1 DEF Entry
  <2>3. entries' = [entries EXCEPT ![i] = e]
    BY <1>4 DEF CooldownEnds
  <2> HIDE DEF e
  <2>4. DOMAIN entries' = DOMAIN entries /\ \A j \in DOMAIN entries : entries'[j].proxy = entries[j].proxy
    BY <2>2, <2>3
  <2> QED
    BY <2>4 DEF Members
<1> QED
  BY <1>2, <1>3, <1>4
     DEF Environment, ForceReady, Shutdown, Feed, Cooled, Serving, Bind, PoolReady,
         ReadyWaitTimesOut, StopAccepting, Drained, ServerGoes, Accept, RejectHead,
         RefuseNoProxy, UpstreamOpened, RequestSent, PickUpstream, Pick

(* A proxy is evicted only after MAX_CONSECUTIVE_FAILURES failed relays in  *)
(* a row (report_failure), however its reports interleave with adds.        *)
THEOREM EvictionsAreEarned == Spec => EvictionEarned
<1>1. IInv /\ [Next]_vars => [\A p \in Members \ Members' : failRun'[p] = MaxFailures]_vars
  <2> SUFFICES ASSUME IInv, Next
               PROVE  \A p \in Members \ Members' : failRun'[p] = MaxFailures
    BY DEF vars
  <2>1. CASE Environment \/ Serving
    BY <2>1, OthersEvictNothing
  <2>2. ASSUME NEW c \in Conns, TimedStep(c) \/ UntimedStep(c)
        PROVE  \A p \in Members \ Members' : failRun'[p] = MaxFailures
    <3>1. CASE RelayEnds(c) \/ OpenFails(c) \/ SendFails(c) \/ RelayTimesOut(c)
      BY <3>1, ReportingStepsKeep
    <3>2. CASE \/ RejectHead(c) \/ RefuseNoProxy(c) \/ UpstreamOpened(c) \/ RequestSent(c)
               \/ \E p \in Proxies : PickUpstream(c, p)
      BY <3>2, OthersEvictNothing
    <3> QED
      BY <2>2, <3>1, <3>2 DEF TimedStep, UntimedStep, HeadStep
  <2> QED
    BY <2>1, <2>2 DEF Next
<1> QED
  BY <1>1, InductiveInvariant, PTL DEF Spec, EvictionEarned
-----------------------------------------------------------------------------
(* When run_until_shutdown has returned, no connection is left to cut off:  *)
(* nothing is accepted after the drain, and the drain waited for the rest.  *)
THEOREM DrainIsGraceful == Spec => []DrainCutsNothingOff
<1>1. Init => DrainCutsNothingOff
  BY DEF Init, DrainCutsNothingOff
<1>2. DrainCutsNothingOff /\ IInv /\ [Next]_vars => DrainCutsNothingOff'
  <2> SUFFICES ASSUME DrainCutsNothingOff, IInv, [Next]_vars, server' = "done"
               PROVE  OpenConns' = {}
    BY DEF DrainCutsNothingOff
  <2>1. CASE UNCHANGED vars
    BY <2>1 DEF DrainCutsNothingOff, OpenConns, vars
  <2>2. CASE Environment
    BY <2>2 DEF Environment, ForceReady, Shutdown, Feed, Cooled, DrainCutsNothingOff, OpenConns
  <2>3. CASE Serving
    BY <2>3 DEF Serving, Bind, PoolReady, ReadyWaitTimesOut, StopAccepting, Drained, ServerGoes,
                Accept, OpenConns
  <2>4. ASSUME NEW c \in Conns, TimedStep(c) \/ UntimedStep(c) PROVE FALSE
    <3>1. c \in OpenConns /\ server = server'
      BY <2>4 DEF TimedStep, UntimedStep, HeadStep, RejectHead, RefuseNoProxy, PickUpstream,
                  UpstreamOpened, OpenFails, SendFails, RelayEnds, RelayTimesOut, RequestSent,
                  FailsIn, OpenConns
    <3> QED
      BY <3>1 DEF DrainCutsNothingOff
  <2> QED
    BY <2>1, <2>2, <2>3, <2>4 DEF Next
<1> QED
  BY <1>1, <1>2, InductiveInvariant, PTL DEF Spec
-----------------------------------------------------------------------------
(***************************************************************************)
(* The rotating endpoint implements the lending contract of its pool, for  *)
(* every set of endpoints, pool size, failure limit and number of          *)
(* connections: a step of Rotator is a step of PoolContract or none.  And  *)
(* a pick is fair: it lends whenever something is ready, and takes turns.  *)
(***************************************************************************)
(* The contract's view of a state.                                          *)
Standings == [p \in Proxies |-> StandingOf(p)]
Holders == [p \in Proxies |-> HoldersOf(p)]

NoStanding == [failures |-> -1, cooling |-> FALSE]
StandingIn(e) == [failures |-> e.failures, cooling |-> e.cooling]

(* The same view of any vector.                                             *)
Position(es, p) ==
    CHOOSE i \in DOMAIN es :
        /\ es[i].proxy = p
        /\ \A j \in DOMAIN es : es[j].proxy = p => i <= j
Standing(es, p) ==
    IF p \in {es[i].proxy : i \in DOMAIN es} THEN StandingIn(es[Position(es, p)]) ELSE NoStanding
Table(es) == [p \in Proxies |-> Standing(es, p)]

(* The view of the endpoint is that of its vector, before and after a step. *)
LEMMA ViewOfEntries == Standings = Table(entries) /\ Standings' = Table(entries')
BY DEF Standings, StandingOf, Table, Standing, StandingIn, NoStanding, Position, PositionOf, Members
-----------------------------------------------------------------------------
(* The standing of a proxy is that of its only entry, or there is none.     *)
LEMMA StandingFacts ==
    ASSUME NEW es \in Seq(Entry), Distinct(es), NEW p
    PROVE  /\ \A i \in 1..Len(es) : es[i].proxy = p => Standing(es, p) = StandingIn(es[i])
           /\ (\A i \in 1..Len(es) : es[i].proxy # p) => Standing(es, p) = NoStanding
<1>1. DOMAIN es = 1..Len(es) /\ Len(es) \in Nat
  BY LenProperties
<1>2. ASSUME NEW i \in 1..Len(es), es[i].proxy = p
      PROVE  Standing(es, p) = StandingIn(es[i])
  <2>1. \A j \in DOMAIN es : es[j].proxy = p => j = i
    BY <1>1, <1>2 DEF Distinct
  <2>2. /\ i \in DOMAIN es /\ es[i].proxy = p
        /\ \A j \in DOMAIN es : es[j].proxy = p => i <= j
    BY <1>1, <1>2, <2>1
  <2>3. Position(es, p) = i
    BY <2>1, <2>2 DEF Position
  <2> QED
    BY <2>2, <2>3 DEF Standing
<1>3. (\A i \in 1..Len(es) : es[i].proxy # p) => Standing(es, p) = NoStanding
  BY <1>1 DEF Standing
<1> QED
  BY <1>2, <1>3

(* A table that agrees with another but for one proxy.                      *)
LEMMA TableChanges ==
    ASSUME NEW es, NEW t, NEW p \in Proxies, NEW s,
           Standing(t, p) = s,
           \A q \in Proxies : q # p => Standing(t, q) = Standing(es, q)
    PROVE  Table(t) = [Table(es) EXCEPT ![p] = s]
BY DEF Table

(* A new entry gives its proxy a standing.                                  *)
LEMMA AppendTable ==
    ASSUME NEW es \in Seq(Entry), Distinct(es), NEW e \in Entry,
           \A i \in 1..Len(es) : es[i].proxy # e.proxy
    PROVE  Table(Append(es, e)) = [Table(es) EXCEPT ![e.proxy] = StandingIn(e)]
<1> DEFINE t == Append(es, e)
<1>1. t \in Seq(Entry) /\ Distinct(t)
  BY AppendSound
<1>2. /\ Len(es) \in Nat /\ Len(t) = Len(es) + 1 /\ t[Len(es) + 1] = e
      /\ \A i \in 1..Len(es) : t[i] = es[i]
  BY LenProperties, AppendProperties
<1> HIDE DEF t
<1>3. e.proxy \in Proxies
  BY EntryFields
<1>4. Standing(t, e.proxy) = StandingIn(e)
  <2>1. Len(es) + 1 \in 1..Len(t)
    BY <1>2
  <2> QED
    BY <1>1, <1>2, <2>1, StandingFacts
<1>5. ASSUME NEW q \in Proxies, q # e.proxy
      PROVE  Standing(t, q) = Standing(es, q)
  <2>1. CASE \E i \in 1..Len(es) : es[i].proxy = q
    <3>1. PICK i \in 1..Len(es) : es[i].proxy = q
      BY <2>1
    <3>2. i \in 1..Len(t) /\ t[i] = es[i]
      BY <1>2
    <3> QED
      BY <1>1, <3>1, <3>2, StandingFacts
  <2>2. CASE \A i \in 1..Len(es) : es[i].proxy # q
    <3>1. \A i \in 1..Len(t) : i = Len(es) + 1 \/ i \in 1..Len(es)
      BY <1>2
    <3>2. \A i \in 1..Len(t) : t[i].proxy # q
      BY <1>2, <1>5, <2>2, <3>1
    <3> QED
      BY <1>1, <2>2, <3>2, StandingFacts
  <2> QED
    BY <2>1, <2>2
<1> QED
  BY <1>3, <1>4, <1>5, TableChanges DEF t

(* Rewriting an entry in place changes the standing of its proxy only.      *)
LEMMA UpdateTable ==
    ASSUME NEW es \in Seq(Entry), Distinct(es), NEW i \in 1..Len(es), NEW e \in Entry,
           e.proxy = es[i].proxy
    PROVE  Table([es EXCEPT ![i] = e]) = [Table(es) EXCEPT ![e.proxy] = StandingIn(e)]
<1> DEFINE t == [es EXCEPT ![i] = e]
<1>1. t \in Seq(Entry) /\ Distinct(t) /\ Len(t) = Len(es)
  BY UpdateSound
<1>2. \A j \in 1..Len(es) : t[j] = IF j = i THEN e ELSE es[j]
  BY ExceptSeq
<1> HIDE DEF t
<1>3. e.proxy \in Proxies
  BY EntryFields
<1>4. Standing(t, e.proxy) = StandingIn(e)
  BY <1>1, <1>2, StandingFacts
<1>5. ASSUME NEW q \in Proxies, q # e.proxy
      PROVE  Standing(t, q) = Standing(es, q)
  <2>1. CASE \E j \in 1..Len(es) : es[j].proxy = q
    <3>1. PICK j \in 1..Len(es) : es[j].proxy = q
      BY <2>1
    <3>2. j \in 1..Len(t) /\ t[j] = es[j]
      BY <1>1, <1>2, <1>5, <3>1
    <3> QED
      BY <1>1, <3>1, <3>2, StandingFacts
  <2>2. CASE \A j \in 1..Len(es) : es[j].proxy # q
    <3>1. \A j \in 1..Len(t) : t[j].proxy # q
      BY <1>1, <1>2, <1>5, <2>2
    <3> QED
      BY <1>1, <2>2, <3>1, StandingFacts
  <2> QED
    BY <2>1, <2>2
<1>6. Table(t) = [Table(es) EXCEPT ![e.proxy] = StandingIn(e)]
  <2> DEFINE p == e.proxy
             s == StandingIn(e)
  <2>1. p \in Proxies /\ Standing(t, p) = s /\ \A q \in Proxies : q # p => Standing(t, q) = Standing(es, q)
    BY <1>3, <1>4, <1>5
  <2> HIDE DEF p, s
  <2>2. Table(t) = [Table(es) EXCEPT ![p] = s]
    BY ONLY <2>1, TableChanges
  <2> QED
    BY <2>2 DEF p, s
<1> QED
  BY <1>6 DEF t

(* swap_remove takes the standing of the removed proxy, and only that.      *)
LEMMA RemoveTable ==
    ASSUME NEW es \in Seq(Entry), Distinct(es), NEW i \in 1..Len(es)
    PROVE  Table(SwapRemove(es, i)) = [Table(es) EXCEPT ![es[i].proxy] = NoStanding]
<1> DEFINE t == SwapRemove(es, i)
           p == es[i].proxy
<1>1. /\ t \in Seq(Entry) /\ Distinct(t)
      /\ \A k \in 1..Len(t) :
            /\ t[k].proxy # p
            /\ \E j \in 1..Len(es) : t[k] = es[j]
      /\ \A j \in 1..Len(es) : j # i => \E k \in 1..Len(t) : t[k] = es[j]
  BY RemoveSound
<1>2. p \in Proxies
  BY ElementOfSeq, EntryFields
<1> HIDE DEF t
<1>3. Standing(t, p) = NoStanding
  BY <1>1, StandingFacts
<1>4. ASSUME NEW q \in Proxies, q # p
      PROVE  Standing(t, q) = Standing(es, q)
  <2>1. CASE \E j \in 1..Len(es) : es[j].proxy = q
    <3>1. PICK j \in 1..Len(es) : es[j].proxy = q
      BY <2>1
    <3>2. PICK k \in 1..Len(t) : t[k] = es[j]
      BY <1>1, <1>4, <3>1
    <3> QED
      BY <1>1, <3>1, <3>2, StandingFacts
  <2>2. CASE \A j \in 1..Len(es) : es[j].proxy # q
    <3>1. \A k \in 1..Len(t) : t[k].proxy # q
      BY <1>1, <2>2
    <3> QED
      BY <1>1, <2>2, <3>1, StandingFacts
  <2> QED
    BY <2>1, <2>2
<1> HIDE DEF p
<1>5. Table(t) = [Table(es) EXCEPT ![p] = NoStanding]
  BY ONLY <1>2, <1>3, <1>4, TableChanges
<1> QED
  BY <1>5 DEF t, p
-----------------------------------------------------------------------------
(* The holders change with the connections only.                            *)
Conn == [pc : Phases, proxy : Proxies \cup {NoProxy}]

(* A connection that neither takes nor gives back.                          *)
LEMMA HoldersStay ==
    ASSUME TaskInv, NEW c \in Conns, NEW r \in Conn, conn' = [conn EXCEPT ![c] = r],
           r.pc \in Lent <=> conn[c].pc \in Lent,
           r.pc \in Lent => r.proxy = conn[c].proxy
    PROVE  Holders' = Holders
<1>1. \A p \in Proxies : HoldersOf(p)' = HoldersOf(p)
  BY DEF HoldersOf, TaskInv
<1> QED
  BY <1>1 DEF Holders

(* A connection that takes a proxy.                                         *)
LEMMA HoldersGain ==
    ASSUME TaskInv, NEW c \in Conns, NEW r \in Conn, conn' = [conn EXCEPT ![c] = r],
           conn[c].pc \notin Lent, r.pc \in Lent, r.proxy \in Proxies
    PROVE  /\ Holders' = [Holders EXCEPT ![r.proxy] = @ \cup {c}]
           /\ \A q \in Proxies : c \notin Holders[q]
<1>1. HoldersOf(r.proxy)' = HoldersOf(r.proxy) \cup {c}
  BY DEF HoldersOf, TaskInv
<1>2. \A p \in Proxies : p # r.proxy => HoldersOf(p)' = HoldersOf(p)
  BY DEF HoldersOf, TaskInv
<1>3. \A q \in Proxies : c \notin HoldersOf(q)
  BY DEF HoldersOf
<1> QED
  BY <1>1, <1>2, <1>3 DEF Holders

(* A connection that closes gives back what it held.                        *)
LEMMA HoldersLose ==
    ASSUME TaskInv, NEW c \in Conns, conn[c].pc \in Lent, Close(c)
    PROVE  /\ conn[c].proxy \in Proxies
           /\ c \in Holders[conn[c].proxy]
           /\ Holders' = [Holders EXCEPT ![conn[c].proxy] = @ \ {c}]
<1>0. conn[c].proxy \in Proxies
  BY DEF TaskInv, ProxyHeld
<1>1. PICK p \in Proxies : p = conn[c].proxy
  BY <1>0
<1>2. conn'[c].pc \notin Lent /\ \A d \in Conns : d # c => conn'[d] = conn[d]
  BY DEF TaskInv, Close, Lent
<1>3. HoldersOf(p)' = HoldersOf(p) \ {c}
  BY <1>2 DEF HoldersOf
<1>4. c \in HoldersOf(p)
  BY <1>1 DEF HoldersOf
<1>5. \A q \in Proxies : q # p => HoldersOf(q)' = HoldersOf(q)
  BY <1>1, <1>2 DEF HoldersOf
<1>6. c \in Holders[p]
  BY <1>4 DEF Holders
<1>7. Holders' = [Holders EXCEPT ![p] = @ \ {c}]
  BY <1>3, <1>5 DEF Holders
<1> QED
  BY <1>1, <1>6, <1>7

(* A connection that closes without a proxy gives nothing back.             *)
LEMMA HoldersOfRefused ==
    ASSUME TaskInv, NEW c \in Conns, conn[c].pc \notin Lent, Close(c)
    PROVE  Holders' = Holders
<1>1. [pc |-> "closed", proxy |-> NoProxy] \in Conn /\ "closed" \notin Lent
  BY DEF Conn, Phases, Lent
<1> QED
  BY <1>1, HoldersStay DEF Close
-----------------------------------------------------------------------------
(* What the pool's methods do to the standings.                             *)

(* The standing of a member is that of its entry.                           *)
LEMMA MemberStanding ==
    ASSUME IInv, NEW p \in Members
    PROVE  LET i == PositionOf(p)
           IN  /\ i \in 1..Len(entries) /\ entries[i] \in Entry /\ entries[i].proxy = p
               /\ p \in Proxies
               /\ Standings[p] = StandingIn(entries[i]) /\ Standings[p] # NoStanding
<1> DEFINE i == PositionOf(p)
<1>1. entries \in Seq(Entry) /\ Distinct(entries)
  BY PoolInvOf DEF PoolInv
<1>2. i \in 1..Len(entries) /\ entries[i].proxy = p
  BY <1>1, PositionFacts
<1> HIDE DEF i
<1>3. entries[i] \in Entry
  BY <1>1, <1>2, ElementOfSeq
<1>4. p \in Proxies /\ entries[i].failures \in 0..(MaxFailures - 1)
  BY <1>2, <1>3, EntryFields
<1>5. Standings[p] = StandingIn(entries[i])
  BY <1>1, <1>2, <1>4, StandingFacts, ViewOfEntries DEF Table
<1>6. StandingIn(entries[i]).failures # -1
  BY <1>4, PoolAssumption DEF StandingIn
<1>7. StandingIn(entries[i]) # NoStanding
  BY <1>6 DEF NoStanding
<1> QED
  BY <1>2, <1>3, <1>4, <1>5, <1>7 DEF i

(* A proxy outside the pool has no standing.                                *)
LEMMA StrangerStanding ==
    ASSUME IInv, NEW p \in Proxies, p \notin Members
    PROVE  Standings[p] = NoStanding
BY DEF Standings, StandingOf, NoStanding

(* Feeding the pool admits a proxy or changes nothing (add).                *)
LEMMA AddAdmits ==
    ASSUME IInv, NEW p \in Proxies, Add(p)
    PROVE  \/ Standings' = Standings
           \/ /\ Standings[p] = NoStanding
              /\ Standings' = [Standings EXCEPT ![p] = [failures |-> 0, cooling |-> FALSE]]
<1>1. CASE Len(entries) >= MaxPoolSize \/ p \in Members
  <2>1. entries' = entries
    BY <1>1 DEF Add
  <2> QED
    BY <2>1, ViewOfEntries
<1>2. CASE ~(Len(entries) >= MaxPoolSize \/ p \in Members)
  <2> DEFINE e == [proxy |-> p, failures |-> 0, cooling |-> FALSE]
  <2>1. e \in Entry /\ e.proxy = p
    BY PoolAssumption DEF Entry
  <2>2. entries \in Seq(Entry) /\ Distinct(entries) /\ DOMAIN entries = 1..Len(entries)
    BY PoolInvOf DEF PoolInv
  <2>3. \A i \in 1..Len(entries) : entries[i].proxy # e.proxy
    BY <1>2, <2>1, <2>2 DEF Members
  <2>4. entries' = Append(entries, e)
    BY <1>2 DEF Add
  <2>5. StandingIn(e) = [failures |-> 0, cooling |-> FALSE]
    BY DEF StandingIn
  <2> HIDE DEF e
  <2>6. Table(entries') = [Table(entries) EXCEPT ![p] = StandingIn(e)]
    BY <2>1, <2>2, <2>3, <2>4, AppendTable
  <2> QED
    BY <1>2, <2>5, <2>6, StrangerStanding, ViewOfEntries
<1> QED
  BY <1>1, <1>2

(* A rewritten entry changes the standing of its proxy only.                *)
LEMMA RewriteChanges ==
    ASSUME IInv, NEW i \in 1..Len(entries), NEW e \in Entry, e.proxy = entries[i].proxy,
           entries' = [entries EXCEPT ![i] = e]
    PROVE  Standings' = [Standings EXCEPT ![e.proxy] = StandingIn(e)]
<1>1. entries \in Seq(Entry) /\ Distinct(entries)
  BY PoolInvOf DEF PoolInv
<1> QED
  BY <1>1, UpdateTable, ViewOfEntries

(* The end of a cooldown.                                                   *)
LEMMA CooldownCools ==
    ASSUME IInv, NEW i \in DOMAIN entries, CooldownEnds(i)
    PROVE  LET p == entries[i].proxy
           IN  /\ p \in Proxies /\ Standings[p] # NoStanding /\ Standings[p].cooling
               /\ Standings' = [Standings EXCEPT ![p].cooling = FALSE]
<1> DEFINE p == entries[i].proxy
           e == [entries[i] EXCEPT !.cooling = FALSE]
<1>1. entries \in Seq(Entry) /\ Distinct(entries) /\ i \in 1..Len(entries)
  BY PoolInvOf DEF PoolInv
<1>2. entries[i] \in Entry
  BY <1>1, ElementOfSeq
<1>3. e \in Entry /\ e.proxy = p /\ e.failures = entries[i].failures /\ e.cooling = FALSE
  BY <1>2 DEF Entry
<1>4. p \in Members /\ PositionOf(p) = i
  BY <1>1, PositionFacts DEF Members
<1>5. entries' = [entries EXCEPT ![i] = e]
  BY DEF CooldownEnds
<1>6. StandingIn(entries[i]).cooling
  BY DEF CooldownEnds, StandingIn
<1>7. /\ p \in Proxies /\ Standings[p] # NoStanding
      /\ Standings[p] = StandingIn(entries[i])
  BY <1>4, MemberStanding
<1> HIDE DEF e
<1>8. Standings' = [Standings EXCEPT ![p] = StandingIn(e)]
  BY <1>1, <1>3, <1>5, RewriteChanges
<1>9. StandingIn(e) = [StandingIn(entries[i]) EXCEPT !.cooling = FALSE]
  <2> DEFINE T == [failures : 0..(MaxFailures - 1), cooling : BOOLEAN]
  <2>1. \A s \in T : LET d == [s EXCEPT !.cooling = FALSE]
                     IN  d \in T /\ d.failures = s.failures /\ d.cooling = FALSE
    OBVIOUS
  <2>2. \A s, d \in T : s.failures = d.failures /\ s.cooling = d.cooling => s = d
    OBVIOUS
  <2>3. StandingIn(e) \in T /\ StandingIn(entries[i]) \in T
    BY <1>2, <1>3, EntryFields DEF StandingIn
  <2>4. /\ StandingIn(e).failures = StandingIn(entries[i]).failures
        /\ StandingIn(e).cooling = FALSE
    BY <1>3 DEF StandingIn
  <2> HIDE DEF T
  <2>5. PICK d \in T : d = [StandingIn(entries[i]) EXCEPT !.cooling = FALSE]
    BY <2>1, <2>3, Zenon
  <2>6. d.failures = StandingIn(entries[i]).failures /\ d.cooling = FALSE
    BY <2>1, <2>3, <2>5, Zenon
  <2>7. StandingIn(e).failures = d.failures /\ StandingIn(e).cooling = d.cooling
    BY <2>4, <2>6, Zenon
  <2> QED
    BY <2>2, <2>3, <2>5, <2>7, Zenon
<1> QED
  BY <1>6, <1>7, <1>8, <1>9

FreshStanding == [failures |-> 0, cooling |-> FALSE]

(* Good reports clear the standing of a pooled proxy (report_success).      *)
LEMMA SuccessClears ==
    ASSUME IInv, NEW p \in Proxies, ReportSuccess(p)
    PROVE  Standings' = [Standings EXCEPT ![p] =
                            IF Standings[p] # NoStanding THEN FreshStanding ELSE NoStanding]
<1>1. CASE p \notin Members
  <2>1. entries' = entries
    BY <1>1 DEF ReportSuccess
  <2>2. Standings' = Standings /\ Standings[p] = NoStanding
    BY <1>1, <2>1, ViewOfEntries, StrangerStanding
  <2> QED
    BY <2>2 DEF Standings
<1>2. CASE p \in Members
  <2> DEFINE i == PositionOf(p)
             e == [entries[i] EXCEPT !.failures = 0, !.cooling = FALSE]
  <2>1. /\ i \in 1..Len(entries) /\ entries[i] \in Entry /\ entries[i].proxy = p
        /\ Standings[p] # NoStanding
    BY <1>2, MemberStanding
  <2>2. e \in Entry /\ e.proxy = p /\ e.failures = 0
    BY <2>1, ClearedEntry
  <2>3. e.cooling = FALSE
    BY <2>1 DEF Entry
  <2>4. entries' = [entries EXCEPT ![i] = e]
    BY <1>2 DEF ReportSuccess
  <2> HIDE DEF e, i
  <2>5. Standings' = [Standings EXCEPT ![p] = StandingIn(e)]
    BY <2>1, <2>2, <2>4, RewriteChanges
  <2>6. StandingIn(e) = FreshStanding
    BY <2>2, <2>3 DEF StandingIn, FreshStanding
  <2> QED
    BY <2>1, <2>5, <2>6
<1> QED
  BY <1>1, <1>2

(* Bad reports charge a pooled proxy, or evict it (report_failure).         *)
LEMMA FailureCharges ==
    ASSUME IInv, NEW p \in Proxies, ReportFailure(p)
    PROVE  Standings' = [Standings EXCEPT ![p] =
                            IF Standings[p] # NoStanding /\ Standings[p].failures + 1 < MaxFailures
                            THEN [failures |-> Standings[p].failures + 1, cooling |-> TRUE]
                            ELSE NoStanding]
<1>1. CASE p \notin Members
  <2>1. entries' = entries
    BY <1>1 DEF ReportFailure
  <2>2. Standings' = Standings /\ Standings[p] = NoStanding
    BY <1>1, <2>1, ViewOfEntries, StrangerStanding
  <2> QED
    BY <2>2 DEF Standings
<1>2. CASE p \in Members
  <2> DEFINE i == PositionOf(p)
             f == entries[i].failures + 1
  <2>1. /\ i \in 1..Len(entries) /\ entries[i] \in Entry /\ entries[i].proxy = p
        /\ Standings[p] = StandingIn(entries[i]) /\ Standings[p] # NoStanding
    BY <1>2, MemberStanding
  <2>2. entries[i].failures \in 0..(MaxFailures - 1)
    BY <2>1, EntryFields
  <2>3. Standings[p].failures + 1 = f
    BY <2>1 DEF StandingIn
  <2>4. CASE f >= MaxFailures
    <3>1. entries' = SwapRemove(entries, i)
      BY <1>2, <2>4 DEF ReportFailure
    <3>2. ~(f < MaxFailures)
      BY <2>2, <2>4, PoolAssumption
    <3> HIDE DEF i, f
    <3>3. entries \in Seq(Entry) /\ Distinct(entries)
      BY PoolInvOf DEF PoolInv
    <3>4. Table(entries') = [Table(entries) EXCEPT ![p] = NoStanding]
      BY <2>1, <3>1, <3>3, RemoveTable
    <3> QED
      BY <2>3, <3>2, <3>4, ViewOfEntries
  <2>5. CASE ~(f >= MaxFailures)
    <3> DEFINE e == [entries[i] EXCEPT !.failures = f, !.cooling = TRUE]
    <3>1. entries' = [entries EXCEPT ![i] = e]
      BY <1>2, <2>5 DEF ReportFailure
    <3>2. f \in 0..(MaxFailures - 1) /\ f < MaxFailures
      BY <2>2, <2>5, PoolAssumption
    <3>3. e \in Entry /\ e.proxy = p /\ e.failures = f
      BY <2>1, <3>2 DEF Entry
    <3>4. e.cooling = TRUE
      BY <2>1 DEF Entry
    <3> HIDE DEF e, i, f
    <3>5. Standings' = [Standings EXCEPT ![p] = StandingIn(e)]
      BY <2>1, <3>1, <3>3, RewriteChanges
    <3>6. StandingIn(e) = [failures |-> f, cooling |-> TRUE]
      BY <3>3, <3>4 DEF StandingIn
    <3> QED
      BY <2>1, <2>3, <3>2, <3>5, <3>6
  <2> QED
    BY <2>4, <2>5
<1> QED
  BY <1>1, <1>2
-----------------------------------------------------------------------------
(* A scan visits slots of the pool.                                         *)
LEMMA SlotInPool == \A a, n \in Nat : n > 0 => (a % n) + 1 \in 1..n
OBVIOUS

(* A set of offsets that is not empty has a first one.                      *)
LEMMA FirstOffset ==
    ASSUME NEW S \in SUBSET Nat, S # {}
    PROVE  \E o \in S : \A k \in S : o <= k
<1> DEFINE R == {pair \in Nat \X Nat : pair[1] < pair[2]}
<1>1. \A x, y \in Nat : <<y, x>> \in R <=> y < x
  OBVIOUS
<1>2. IsWellFoundedOn(R, Nat)
  BY NatLessThanWellFounded DEF OpToRel
<1> HIDE DEF R
<1>3. PICK x \in S : \A y \in S : ~(<<y, x>> \in R)
  BY <1>2, WFMin
<1>4. ASSUME NEW y \in S
      PROVE  x <= y
  <2>1. x \in Nat /\ y \in Nat /\ ~(<<y, x>> \in R)
    BY <1>3
  <2>2. ~(y < x)
    BY <1>1, <2>1
  <2> QED
    BY <2>1, <2>2
<1> QED
  BY <1>4

(* What pick returns is in the pool and not cooling down.                   *)
LEMMA PickIsReady ==
    ASSUME IInv, NEW p \in Proxies, Pick(p)
    PROVE  p \in Members /\ ~Standings[p].cooling
<1>1. p # NoProxy
  BY PoolAssumption
<1>2. /\ entries \in Seq(Entry) /\ Distinct(entries) /\ cursor \in Nat
      /\ DOMAIN entries = 1..Len(entries) /\ Len(entries) \in Nat
  BY PoolInvOf, IInvSplit, LenProperties DEF PoolInv, TaskInv
<1>3. entries # <<>> /\ \E start \in Starts : p = ScanFrom(start)
  BY <1>1 DEF Pick
<1>4. Len(entries) > 0
  BY <1>2, <1>3, EmptySeq
<1>5. PICK start \in Starts : p = ScanFrom(start)
  BY <1>3
<1>6. start \in Nat
  BY <1>2, <1>4 DEF Starts
<1> DEFINE hits == {o \in 0..(Len(entries) - 1) : Available(entries[Slot(start, o)])}
<1>7. hits # {} /\ p = entries[Slot(start, CHOOSE o \in hits : \A k \in hits : o <= k)].proxy
  BY <1>1, <1>5 DEF ScanFrom
<1>8. hits \in SUBSET Nat
  BY <1>2
<1>9. PICK o \in hits : p = entries[Slot(start, o)].proxy
  BY <1>7, <1>8, FirstOffset
<1>10. o \in Nat /\ Available(entries[Slot(start, o)])
  BY <1>2, <1>9
<1> HIDE DEF hits
<1>11. Slot(start, o) \in 1..Len(entries)
  BY <1>2, <1>4, <1>6, <1>10, SlotInPool DEF Slot
<1>12. p \in Members
  BY <1>2, <1>9, <1>11 DEF Members
<1>13. Slot(start, o) = PositionOf(p)
  BY <1>2, <1>9, <1>11, <1>12, PositionFacts
<1>14. Standings[p] = StandingIn(entries[Slot(start, o)])
  BY <1>12, <1>13, MemberStanding
<1> QED
  BY <1>10, <1>12, <1>14 DEF Available, StandingIn
-----------------------------------------------------------------------------
(* A scan that starts anywhere in the pool visits every slot.               *)
LEMMA SlotsAreVisited ==
    ASSUME NEW n \in Nat, NEW start \in 0..(n - 1), NEW i \in 1..n
    PROVE  \E o \in 0..(n - 1) : ((start + o) % n) + 1 = i
<1>1. \A a \in 0..(n - 1) : a % n = a /\ (a + n) % n = a
  OBVIOUS
<1>2. CASE start <= i - 1
  <2>1. (i - 1) - start \in 0..(n - 1) /\ start + ((i - 1) - start) = i - 1 /\ i - 1 \in 0..(n - 1)
    BY <1>2
  <2>2. ((start + ((i - 1) - start)) % n) + 1 = i
    BY <1>1, <2>1
  <2> QED
    BY <2>1, <2>2
<1>3. CASE ~(start <= i - 1)
  <2> DEFINE o == ((i - 1) - start) + n
  <2>1. o \in 0..(n - 1) /\ start + o = (i - 1) + n /\ i - 1 \in 0..(n - 1)
    BY <1>3
  <2> HIDE DEF o
  <2>2. ((start + o) % n) + 1 = i
    BY <1>1, <2>1
  <2> QED
    BY <2>1, <2>2
<1> QED
  BY <1>2, <1>3

(* pick returns nothing only if nothing is ready.                           *)
LEMMA NothingPicked ==
    ASSUME IInv, Pick(NoProxy)
    PROVE  Ready = 0 /\ \A i \in 1..Len(entries) : ~Available(entries[i])
<1>1. /\ entries \in Seq(Entry) /\ cursor \in Nat
      /\ DOMAIN entries = 1..Len(entries) /\ Len(entries) \in Nat
  BY PoolInvOf, IInvSplit, LenProperties DEF PoolInv, TaskInv
<1>2. ASSUME NEW i \in 1..Len(entries)
      PROVE  ~Available(entries[i])
  <2>1. entries # <<>> /\ Len(entries) > 0
    BY <1>1, <1>2
  <2>2. PICK start \in Starts : NoProxy = ScanFrom(start)
    BY <2>1 DEF Pick
  <2>3. start \in 0..(Len(entries) - 1)
    BY <1>1, <2>1 DEF Starts
  <2> DEFINE hits == {o \in 0..(Len(entries) - 1) : Available(entries[Slot(start, o)])}
  <2>4. hits = {}
    <3> SUFFICES ASSUME hits # {} PROVE FALSE
      OBVIOUS
    <3>1. NoProxy = entries[Slot(start, CHOOSE o \in hits : \A k \in hits : o <= k)].proxy
      BY <2>2 DEF ScanFrom
    <3>2. hits \in SUBSET Nat
      BY <1>1
    <3>3. PICK o \in hits : NoProxy = entries[Slot(start, o)].proxy
      BY <3>1, <3>2, FirstOffset
    <3>4. Slot(start, o) \in 1..Len(entries)
      BY <1>1, <2>1, <2>3, <3>3, SlotInPool DEF Slot
    <3> QED
      BY <1>1, <3>3, <3>4, ElementOfSeq, EntryFields, PoolAssumption
  <2>5. PICK o \in 0..(Len(entries) - 1) : Slot(start, o) = i
    BY <1>1, <2>3, SlotsAreVisited DEF Slot
  <2> QED
    BY <2>4, <2>5
<1>3. {i \in DOMAIN entries : Available(entries[i])} = {}
  BY <1>1, <1>2
<1> QED
  BY <1>2, <1>3, FS_EmptySet DEF Ready

(* A client is refused for want of a proxy only if every entry is cooling   *)
(* down, wherever the scan starts and however the vector shrank since the   *)
(* last one (pick).                                                         *)
THEOREM RefusalsAreJustified == Spec => RefusedOnlyIfNoneReady
<1>1. IInv /\ [Next]_vars => [(\E c \in Conns : RefuseNoProxy(c)) => Ready = 0]_vars
  BY NothingPicked DEF RefuseNoProxy
<1> QED
  BY <1>1, InductiveInvariant, PTL DEF Spec, RefusedOnlyIfNoneReady
-----------------------------------------------------------------------------
(* Turns.  Slot i is Ahead(n, r, i) turns after the next one, slot r + 1.   *)
Ahead(n, r, i) == IF i - 1 >= r THEN i - 1 - r ELSE i - 1 - r + n

AllReady(es) == \A i \in 1..Len(es) : ~es[i].cooling

(* Every slot was picked q times, the last k of them once more.             *)
SpreadBy(es, r, tl, q, k) ==
    \A i \in 1..Len(es) :
        tl[es[i].proxy] = IF Ahead(Len(es), r, i) < Len(es) - k THEN q ELSE q + 1

Spread(es, r, tl) == \E q \in Nat : \E k \in 0..(Len(es) - 1) : SpreadBy(es, r, tl, q, k)

BalanceInv ==
    strategy = "RoundRobin" /\ AllReady(entries) /\ entries # <<>>
        => Spread(entries, cursor % Len(entries), tally)

(* A number is a multiple and a remainder, in one way.                      *)
LEMMA Quotient ==
    \A n \in Nat \ {0} : \A a \in Nat :
        a % n \in 0..(n - 1) /\ \E q \in Nat : a = q * n + (a % n)
<1> TAKE n \in Nat \ {0}
<1> TAKE a \in Nat
<1>1. a % n \in 0..(n - 1)
  OBVIOUS
<1>2. a = (a \div n) * n + (a % n) /\ a \div n \in Nat
  OBVIOUS
<1> QED
  BY <1>1, <1>2

(* That way is unique.                                                      *)
LEMMA OneQuotient ==
    \A n \in Nat \ {0} : \A a, b \in Nat : \A i, j \in 0..(n - 1) : a * n + i = b * n + j => i = j
OBVIOUS

(* The counter moves on by one slot, and from the last one to the first.    *)
LEMMA NextTurn ==
    ASSUME NEW n \in Nat \ {0}, NEW a \in Nat
    PROVE  /\ a % n \in 0..(n - 1)
           /\ (a + 1) % n = IF (a % n) + 1 = n THEN 0 ELSE (a % n) + 1
<1>1. PICK r \in 0..(n - 1), q \in Nat : r = a % n /\ a = q * n + r
  BY Quotient
<1>2. PICK t \in 0..(n - 1), u \in Nat : t = (a + 1) % n /\ a + 1 = u * n + t
  <2> DEFINE b == a + 1
  <2>1. b \in Nat
    OBVIOUS
  <2> HIDE DEF b
  <2>2. \E t \in 0..(n - 1), u \in Nat : t = b % n /\ b = u * n + t
    BY <2>1, Quotient
  <2> QED
    BY <2>2 DEF b
<1>3. CASE r + 1 = n
  <2>1. q + 1 \in Nat /\ 0 \in 0..(n - 1) /\ (q + 1) * n + 0 = u * n + t
    BY <1>1, <1>2, <1>3
  <2>2. 0 = t
    BY <2>1, OneQuotient
  <2> QED
    BY <1>1, <1>2, <1>3, <2>2
<1>4. CASE r + 1 # n
  <2>1. r + 1 \in 0..(n - 1) /\ q * n + (r + 1) = u * n + t
    BY <1>1, <1>2, <1>4
  <2>2. r + 1 = t
    BY <2>1, OneQuotient
  <2> QED
    BY <1>1, <1>2, <1>4, <2>2
<1> QED
  BY <1>3, <1>4

(* A fresh tally is even.                                                   *)
LEMMA FreshSpread ==
    ASSUME NEW es \in Seq(Entry), es # <<>>, NEW r \in 0..(Len(es) - 1)
    PROVE  Spread(es, r, NoPicks)
<1>1. \A i \in 1..Len(es) : NoPicks[es[i].proxy] = 0
  BY ElementOfSeq, EntryFields DEF NoPicks
<1>2. Len(es) \in Nat /\ 0 \in 0..(Len(es) - 1)
  BY LenProperties
<1>3. SpreadBy(es, r, NoPicks, 0, 0)
  <2>1. \A i \in 1..Len(es) : Ahead(Len(es), r, i) < Len(es) - 0
    BY <1>2 DEF Ahead
  <2> QED
    BY <1>1, <2>1 DEF SpreadBy
<1> QED
  BY <1>2, <1>3 DEF Spread

(* A pick of the slot whose turn it is keeps the tally even.                *)
LEMMA TurnSpread ==
    ASSUME NEW es \in Seq(Entry), Distinct(es), NEW r \in 0..(Len(es) - 1),
           NEW tl \in [Proxies -> Nat], Spread(es, r, tl),
           NEW s, s = IF r + 1 = Len(es) THEN 0 ELSE r + 1,
           NEW tl2, tl2 = [tl EXCEPT ![es[r + 1].proxy] = @ + 1]
    PROVE  Spread(es, s, tl2)
<1> DEFINE n == Len(es)
<1>1. n \in Nat /\ n > 0 /\ r + 1 \in 1..n
  BY LenProperties
<1>2. PICK q \in Nat, k \in 0..(n - 1) : SpreadBy(es, r, tl, q, k)
  BY DEF Spread
<1>3. \A i \in 1..n : es[i].proxy \in Proxies
  BY ElementOfSeq, EntryFields
<1>4. tl2[es[r + 1].proxy] = q + 1
  <2>1. Ahead(n, r, r + 1) = 0
    BY <1>1 DEF Ahead
  <2>2. tl[es[r + 1].proxy] = q
    BY <1>1, <1>2, <2>1 DEF SpreadBy
  <2> QED
    BY <1>1, <1>3, <2>2
<1>5. ASSUME NEW i \in 1..n, i # r + 1
      PROVE  tl2[es[i].proxy] = IF Ahead(n, r, i) < n - k THEN q ELSE q + 1
  <2>1. es[i].proxy # es[r + 1].proxy
    BY <1>1, <1>5 DEF Distinct
  <2>2. tl2[es[i].proxy] = tl[es[i].proxy]
    BY <1>1, <1>3, <2>1
  <2> QED
    BY <1>2, <2>2 DEF SpreadBy
<1>6. /\ \A i \in 1..n : i # r + 1 => Ahead(n, s, i) = Ahead(n, r, i) - 1 /\ Ahead(n, r, i) \in 1..(n - 1)
      /\ Ahead(n, s, r + 1) = n - 1
  BY <1>1 DEF Ahead
<1> HIDE DEF n
<1>7. CASE k + 1 < n
  <2>1. \A i \in 1..n : tl2[es[i].proxy] = IF Ahead(n, s, i) < n - (k + 1) THEN q ELSE q + 1
    <3>1. ASSUME NEW i \in 1..n, i # r + 1
          PROVE  tl2[es[i].proxy] = IF Ahead(n, s, i) < n - (k + 1) THEN q ELSE q + 1
      BY <1>1, <1>5, <1>6, <3>1
    <3>2. ~(Ahead(n, s, r + 1) < n - (k + 1))
      BY <1>1, <1>6
    <3> QED
      BY <1>4, <3>1, <3>2
  <2>2. k + 1 \in 0..(n - 1)
    BY <1>1, <1>7
  <2> QED
    BY <2>1, <2>2 DEF Spread, SpreadBy, n
<1>8. CASE ~(k + 1 < n)
  <2>1. k = n - 1
    BY <1>1, <1>8
  <2>2. \A i \in 1..n : tl2[es[i].proxy] = q + 1
    <3>1. ASSUME NEW i \in 1..n, i # r + 1
          PROVE  tl2[es[i].proxy] = q + 1
      <4>1. ~(Ahead(n, r, i) < n - k)
        BY <1>1, <1>6, <2>1, <3>1
      <4> QED
        BY <1>5, <3>1, <4>1
    <3> QED
      BY <1>4, <3>1
  <2>3. \A i \in 1..n : Ahead(n, s, i) < n - 0
    <3>1. ASSUME NEW i \in 1..n, i # r + 1
          PROVE  Ahead(n, s, i) < n - 0
      BY <1>1, <1>6, <3>1
    <3>2. Ahead(n, s, r + 1) < n - 0
      BY <1>1, <1>6
    <3> QED
      BY <3>1, <3>2
  <2>4. SpreadBy(es, s, tl2, q + 1, 0)
    BY <2>2, <2>3 DEF SpreadBy, n
  <2>5. q + 1 \in Nat /\ 0 \in 0..(Len(es) - 1)
    BY <1>1 DEF n
  <2> QED
    BY <2>4, <2>5 DEF Spread
<1> QED
  BY <1>7, <1>8

(* An interval from 1 ends in one place.                                    *)
LEMMA SameInterval ==
    ASSUME NEW m \in Nat, NEW n \in Nat, 1..m = 1..n
    PROVE  m = n
<1>1. m > 0 => m \in 1..n
  <2>1. m > 0 => m \in 1..m
    OBVIOUS
  <2> QED
    BY <2>1
<1>2. n > 0 => n \in 1..m
  <2>1. n > 0 => n \in 1..n
    OBVIOUS
  <2> QED
    BY <2>1
<1> QED
  BY <1>1, <1>2

(* The same proxies in the same slots have the same turns.                  *)
LEMMA SameSpread ==
    ASSUME NEW es, NEW t, NEW r, NEW tl, Spread(es, r, tl), Len(t) = Len(es),
           \A i \in 1..Len(es) : t[i].proxy = es[i].proxy
    PROVE  Spread(t, r, tl)
BY DEF Spread, SpreadBy

(* A step that leaves the counter alone and starts the tally anew where the *)
(* pool changes.                                                            *)
LEMMA RetallyBalanced ==
    ASSUME IInv, IInv', BalanceInv, Retally, UNCHANGED <<cursor, strategy>>
    PROVE  BalanceInv'
<1>1. /\ entries \in Seq(Entry) /\ entries' \in Seq(Entry) /\ cursor \in Nat
      /\ DOMAIN entries = 1..Len(entries) /\ DOMAIN entries' = 1..Len(entries')
      /\ Len(entries) \in Nat /\ Len(entries') \in Nat
  BY LenProperties DEF IInv, TypeOK, PoolTypeOK
<1> SUFFICES ASSUME strategy = "RoundRobin", AllReady(entries'), entries' # <<>>
             PROVE  Spread(entries', cursor % Len(entries'), tally')
  BY DEF BalanceInv
<1>2. CASE Shape' # Shape
  <2>1. tally' = NoPicks /\ Len(entries') \in Nat \ {0}
    BY <1>1, <1>2 DEF Retally, NoPicks
  <2>2. cursor % Len(entries') \in 0..(Len(entries') - 1)
    BY <1>1, <2>1, Quotient
  <2> QED
    BY <1>1, <2>1, <2>2, FreshSpread
<1>3. CASE Shape' = Shape
  <2>1. DOMAIN entries' = DOMAIN entries
    BY <1>3 DEF Shape
  <2>2. Len(entries') = Len(entries)
    BY <1>1, <2>1, SameInterval
  <2>3. \A i \in 1..Len(entries) :
            entries'[i].proxy = entries[i].proxy /\ entries'[i].cooling = entries[i].cooling
    <3>1. ASSUME NEW i \in DOMAIN entries
          PROVE  entries'[i].proxy = entries[i].proxy /\ entries'[i].cooling = entries[i].cooling
      <4>1. Shape[i] = <<entries[i].proxy, entries[i].cooling>>
        BY DEF Shape
      <4>2. Shape'[i] = <<entries'[i].proxy, entries'[i].cooling>>
        BY <2>1 DEF Shape
      <4> QED
        BY <1>3, <4>1, <4>2
    <3> QED
      BY <1>1, <3>1
  <2>4. tally' = tally
    BY <1>3 DEF Retally
  <2>5. AllReady(entries) /\ entries # <<>>
    BY <1>1, <2>2, <2>3 DEF AllReady
  <2>6. Spread(entries, cursor % Len(entries'), tally')
    BY <2>2, <2>4, <2>5 DEF BalanceInv
  <2> QED
    BY <2>2, <2>3, <2>6, SameSpread
<1> QED
  BY <1>2, <1>3

(* With everything ready, the pick is the slot the counter points at.       *)
LEMMA PickTakesTurn ==
    ASSUME IInv, strategy = "RoundRobin", AllReady(entries), NEW p \in Proxies, Pick(p)
    PROVE  /\ entries # <<>> /\ cursor' = cursor + 1
           /\ p = entries[(cursor % Len(entries)) + 1].proxy
<1>1. /\ entries \in Seq(Entry) /\ cursor \in Nat /\ Len(entries) \in Nat
  BY LenProperties DEF IInv, TypeOK, PoolTypeOK
<1>2. /\ entries # <<>> /\ cursor' = cursor + 1
      /\ p = ScanFrom(cursor % Len(entries))
  BY PoolAssumption DEF Pick, Starts
<1>3. Len(entries) \in Nat \ {0}
  BY <1>1, <1>2, EmptySeq
<1> DEFINE r == cursor % Len(entries)
           hits == {o \in 0..(Len(entries) - 1) : Available(entries[Slot(r, o)])}
<1>4. r \in 0..(Len(entries) - 1)
  BY <1>1, <1>3, Quotient
<1>5. hits = 0..(Len(entries) - 1)
  <2>1. ASSUME NEW o \in 0..(Len(entries) - 1)
        PROVE  Slot(r, o) \in 1..Len(entries)
    BY <1>3, <1>4, SlotInPool DEF Slot
  <2> QED
    BY <2>1 DEF AllReady, Available
<1>6. p = entries[Slot(r, CHOOSE o \in hits : \A k \in hits : o <= k)].proxy
  <2>1. 0 \in hits
    BY <1>3, <1>5
  <2> QED
    BY <1>2, <2>1 DEF ScanFrom
<1> HIDE DEF hits
<1>7. (CHOOSE o \in hits : \A k \in hits : o <= k) = 0
  BY <1>3, <1>5
<1>8. Slot(r, 0) = r + 1
  <2>1. r + 0 = r /\ r % Len(entries) = r
    BY <1>3, <1>4
  <2> HIDE DEF r
  <2> QED
    BY <2>1 DEF Slot
<1> QED
  BY <1>2, <1>6, <1>7, <1>8

(* A pick keeps the balance.                                                *)
LEMMA PickBalanced ==
    ASSUME IInv, BalanceInv, NEW c \in Conns, NEW p \in Proxies, PickUpstream(c, p)
    PROVE  BalanceInv'
<1>1. /\ entries \in Seq(Entry) /\ Distinct(entries) /\ cursor \in Nat
      /\ tally \in [Proxies -> Nat] /\ Len(entries) \in Nat
  BY PoolInvOf, IInvSplit, LenProperties DEF PoolInv, TaskInv
<1>2. entries' = entries /\ strategy' = strategy
  BY DEF PickUpstream, Pick
<1> SUFFICES ASSUME strategy = "RoundRobin", AllReady(entries), entries # <<>>
             PROVE  Spread(entries, cursor' % Len(entries), tally')
  BY <1>2 DEF BalanceInv
<1>3. cursor' = cursor + 1 /\ p = entries[(cursor % Len(entries)) + 1].proxy
  BY PickTakesTurn DEF PickUpstream
<1>4. tally' = [tally EXCEPT ![p] = @ + 1]
  BY DEF PickUpstream
<1>5. Len(entries) \in Nat \ {0}
  BY <1>1, EmptySeq
<1>6. PICK r \in 0..(Len(entries) - 1) : r = cursor % Len(entries)
  BY <1>1, <1>5, Quotient
<1>7. cursor' % Len(entries) = IF r + 1 = Len(entries) THEN 0 ELSE r + 1
  BY <1>1, <1>3, <1>5, <1>6, NextTurn
<1>8. Spread(entries, r, tally)
  BY <1>6 DEF BalanceInv
<1> QED
  BY <1>1, <1>3, <1>4, <1>6, <1>7, <1>8, TurnSpread

(* Every step keeps the balance.                                            *)
LEMMA BalanceStep ==
    ASSUME IInv, IInv', BalanceInv, [Next]_vars
    PROVE  BalanceInv'
<1>1. ASSUME UNCHANGED <<entries, cursor, strategy, tally>> PROVE BalanceInv'
  BY <1>1 DEF BalanceInv
<1>2. CASE UNCHANGED vars
  BY <1>1, <1>2 DEF vars
<1>3. CASE Environment
  <2>1. CASE ForceReady \/ Shutdown
    BY <1>1, <2>1 DEF ForceReady, Shutdown
  <2>2. ASSUME NEW p \in Proxies, Feed(p) PROVE BalanceInv'
    BY <2>2, RetallyBalanced DEF Feed, Add
  <2>3. ASSUME NEW i \in DOMAIN entries, Cooled(i) PROVE BalanceInv'
    BY <2>3, RetallyBalanced DEF Cooled, CooldownEnds
  <2> QED
    BY <1>3, <2>1, <2>2, <2>3 DEF Environment
<1>4. CASE Serving
  BY <1>1, <1>4 DEF Serving, Bind, PoolReady, ReadyWaitTimesOut, StopAccepting, Drained,
                    ServerGoes, Accept
<1>5. ASSUME NEW c \in Conns, TimedStep(c) \/ UntimedStep(c) PROVE BalanceInv'
  <2>1. CASE RejectHead(c) \/ UpstreamOpened(c) \/ RequestSent(c)
    BY <1>1, <2>1 DEF RejectHead, UpstreamOpened, RequestSent
  <2>2. CASE RefuseNoProxy(c)
    <3>1. entries' = entries /\ \A i \in 1..Len(entries) : entries[i].cooling
      BY <2>2, NothingPicked DEF RefuseNoProxy, Pick, Available
    <3>2. entries # <<>> => Len(entries) \in Nat \ {0}
      BY LenProperties, EmptySeq DEF IInv, TypeOK, PoolTypeOK
    <3>3. ~(AllReady(entries) /\ entries # <<>>)
      BY <3>1, <3>2 DEF AllReady
    <3> QED
      BY <3>1, <3>3 DEF BalanceInv
  <2>3. ASSUME NEW p \in Proxies, PickUpstream(c, p) PROVE BalanceInv'
    BY <2>3, PickBalanced
  <2>4. CASE RelayEnds(c)
    BY <2>4, RetallyBalanced DEF RelayEnds, ReportGood, ReportSuccess
  <2>5. CASE OpenFails(c) \/ SendFails(c) \/ RelayTimesOut(c)
    BY <2>5, RetallyBalanced
       DEF OpenFails, SendFails, RelayTimesOut, FailsIn, ReportBad, ReportFailure
  <2> QED
    BY <1>5, <2>1, <2>2, <2>3, <2>4, <2>5 DEF TimedStep, UntimedStep, HeadStep
<1> QED
  BY <1>2, <1>3, <1>4, <1>5 DEF Next

(* While the pool stands still with every entry ready, RoundRobin spreads   *)
(* the picks evenly (pick): the counter wraps from the last slot to the     *)
(* first, for any size of the pool.                                         *)
THEOREM PicksAreBalanced == Spec => []RoundRobinBalanced
<1>1. Init => BalanceInv
  BY DEF Init, PoolInit, BalanceInv
<1>2. IInv /\ BalanceInv => RoundRobinBalanced
  <2> SUFFICES ASSUME IInv, BalanceInv, strategy = "RoundRobin", Ready = Len(entries),
                      NEW p \in Members, NEW t \in Members
               PROVE  tally[p] <= tally[t] + 1
    BY DEF RoundRobinBalanced
  <2>1. /\ entries \in Seq(Entry) /\ DOMAIN entries = 1..Len(entries) /\ Len(entries) \in Nat
    BY LenProperties DEF IInv, TypeOK, PoolTypeOK
  <2>2. AllReady(entries)
    <3> DEFINE S == 1..Len(entries)
               T == {i \in S : Available(entries[i])}
    <3>1. IsFiniteSet(S) /\ Cardinality(S) = Len(entries)
      <4>1. PICK n \in Int : n = Len(entries)
        BY <2>1
      <4>2. IsFiniteSet(1..n) /\ Cardinality(1..n) = IF 1 > n THEN 0 ELSE n - 1 + 1
        BY ONLY n \in Int, FS_Interval
      <4>3. (IF 1 > n THEN 0 ELSE n - 1 + 1) = n
        BY <2>1, <4>1, SMTT(30)
      <4> QED
        BY <4>1, <4>2, <4>3
    <3>2. T \in SUBSET S /\ Cardinality(T) = Len(entries)
      BY <2>1 DEF Ready
    <3> HIDE DEF S, T
    <3>3. S = T
      BY <3>1, <3>2, FS_Subset
    <3> QED
      BY <3>3 DEF S, T, AllReady, Available
  <2>3. PICK i, j \in 1..Len(entries) : p = entries[i].proxy /\ t = entries[j].proxy
    BY <2>1 DEF Members
  <2>4. Spread(entries, cursor % Len(entries), tally)
    BY <2>1, <2>2, <2>3, EmptySeq DEF BalanceInv
  <2>5. PICK q \in Nat : tally[p] \in {q, q + 1} /\ tally[t] \in {q, q + 1}
    BY <2>3, <2>4 DEF Spread, SpreadBy
  <2> QED
    BY <2>5
<1> QED
  BY <1>1, <1>2, BalanceStep, InductiveInvariant, PTL DEF Spec
-----------------------------------------------------------------------------
(* The contract, in terms of the view.                                      *)

Stutters == Standings' = Standings /\ Holders' = Holders

(* The variables of the contract, as the endpoint defines them.             *)
LEMMA ViewOfContract ==
    /\ Contract!vars = <<Standings, Holders>>
    /\ Contract!vars' = <<Standings', Holders'>>
BY DEF Contract!vars, Standings, Holders

(* A step that touches neither vector nor connections does not show.        *)
LEMMA UnseenStutters ==
    ASSUME UNCHANGED <<entries, conn>>
    PROVE  Stutters
BY DEF Stutters, Standings, StandingOf, Holders, HoldersOf, Members, PositionOf

(* The feeder and time admit and cool, or do not show.                      *)
LEMMA EnvironmentMaps ==
    ASSUME IInv, Environment
    PROVE  Contract!Next \/ Stutters
<1>1. CASE ForceReady \/ Shutdown
  BY <1>1, UnseenStutters DEF ForceReady, Shutdown
<1>2. ASSUME NEW p \in Proxies, Feed(p) PROVE Contract!Next \/ Stutters
  <2>1. Holders' = Holders
    BY <1>2 DEF Feed, Holders, HoldersOf
  <2>2. CASE Standings' = Standings
    BY <2>1, <2>2 DEF Stutters
  <2>3. CASE /\ Standings[p] = NoStanding
             /\ Standings' = [Standings EXCEPT ![p] = [failures |-> 0, cooling |-> FALSE]]
    <3>1. Contract!Admit(p)
      BY <2>1, <2>3 DEF Contract!Admit, Contract!Pooled, Contract!Absent, Contract!Fresh,
                        Standings, Holders, NoStanding
    <3> QED
      BY <3>1 DEF Contract!Next
  <2> QED
    BY <1>2, <2>2, <2>3, AddAdmits DEF Feed
<1>3. ASSUME NEW i \in DOMAIN entries, Cooled(i) PROVE Contract!Next \/ Stutters
  <2>1. PICK p : p = entries[i].proxy
    OBVIOUS
  <2>2. /\ p \in Proxies /\ Standings[p] # NoStanding /\ Standings[p].cooling
        /\ Standings' = [Standings EXCEPT ![p].cooling = FALSE]
    BY <1>3, <2>1, CooldownCools DEF Cooled
  <2>3. Holders' = Holders
    BY <1>3 DEF Cooled, Holders, HoldersOf
  <2>4. Contract!Cool(p)
    BY <2>2, <2>3 DEF Contract!Cool, Contract!Pooled, Contract!Absent,
                      Standings, Holders, NoStanding
  <2> QED
    BY <2>2, <2>4 DEF Contract!Next
<1> QED
  BY <1>1, <1>2, <1>3 DEF Environment

(* What the listener does does not show.                                    *)
LEMMA ServingMaps ==
    ASSUME IInv, Serving
    PROVE  Stutters
<1>0. TaskInv
  BY IInvSplit
<1>1. ASSUME NEW c \in Conns, Accept(c) PROVE Stutters
  <2> DEFINE r == [conn[c] EXCEPT !.pc = "head"]
  <2>1. /\ r \in Conn /\ r.pc \notin Lent /\ conn[c].pc \notin Lent
        /\ conn' = [conn EXCEPT ![c] = r]
    BY <1>0, <1>1 DEF Accept, TaskInv, Conn, Phases, Lent
  <2> HIDE DEF r
  <2>2. Holders' = Holders
    BY <1>0, <2>1, HoldersStay
  <2>3. Standings' = Standings
    BY <1>1, ViewOfEntries DEF Accept
  <2> QED
    BY <2>2, <2>3 DEF Stutters
<1>2. CASE Bind \/ PoolReady \/ ReadyWaitTimesOut \/ StopAccepting \/ Drained
  BY <1>2, UnseenStutters
     DEF Bind, PoolReady, ReadyWaitTimesOut, StopAccepting, Drained, ServerGoes
<1> QED
  BY <1>1, <1>2 DEF Serving

(* A connection that refuses, or goes on with what it holds.                *)
LEMMA QuietStepsStutter ==
    ASSUME IInv, NEW c \in Conns,
           RejectHead(c) \/ RefuseNoProxy(c) \/ UpstreamOpened(c) \/ RequestSent(c)
    PROVE  Stutters
<1>0. TaskInv
  BY IInvSplit
<1>1. Standings' = Standings
  BY ViewOfEntries DEF RejectHead, RefuseNoProxy, Pick, UpstreamOpened, RequestSent
<1>2. CASE RejectHead(c) \/ RefuseNoProxy(c)
  <2>1. conn[c].pc \notin Lent /\ Close(c)
    BY <1>2 DEF RejectHead, RefuseNoProxy, Lent
  <2> QED
    BY <1>0, <1>1, <2>1, HoldersOfRefused DEF Stutters
<1>3. CASE UpstreamOpened(c) \/ RequestSent(c)
  <2>1. PICK next \in {"sending", "relaying"} : conn' = [conn EXCEPT ![c].pc = next]
    BY <1>3 DEF UpstreamOpened, RequestSent
  <2> DEFINE r == [conn[c] EXCEPT !.pc = next]
  <2>2. conn[c].pc \in Lent /\ conn' = [conn EXCEPT ![c] = r]
    BY <1>3, <2>1 DEF UpstreamOpened, RequestSent, Lent
  <2>3. r \in Conn /\ r.pc \in Lent /\ r.proxy = conn[c].proxy
    BY <1>0, <2>1 DEF TaskInv, Conn, Phases, Lent
  <2> HIDE DEF r
  <2> QED
    BY <1>0, <1>1, <2>2, <2>3, HoldersStay DEF Stutters
<1> QED
  BY <1>2, <1>3

(* A pick lends.                                                            *)
LEMMA PickLends ==
    ASSUME IInv, NEW c \in Conns, NEW p \in Proxies, PickUpstream(c, p)
    PROVE  Contract!Lend(p, c)
<1>0. TaskInv
  BY IInvSplit
<1> DEFINE r == [pc |-> "opening", proxy |-> p]
<1>1. /\ r \in Conn /\ r.pc \in Lent /\ r.proxy = p /\ conn[c].pc \notin Lent
      /\ conn' = [conn EXCEPT ![c] = r]
  BY DEF PickUpstream, Conn, Phases, Lent
<1> HIDE DEF r
<1>2. /\ Holders' = [Holders EXCEPT ![p] = @ \cup {c}]
      /\ \A q \in Proxies : c \notin Holders[q]
  BY <1>0, <1>1, HoldersGain
<1>3. Standings' = Standings
  BY ViewOfEntries DEF PickUpstream, Pick
<1>4. Standings[p] # NoStanding /\ ~Standings[p].cooling
  BY PickIsReady, MemberStanding DEF PickUpstream
<1> QED
  BY <1>2, <1>3, <1>4
     DEF Contract!Lend, Contract!Pooled, Contract!Absent, Standings, Holders, NoStanding

(* A report gives back.                                                     *)
LEMMA ReportsReturn ==
    ASSUME IInv, NEW c \in Conns,
           RelayEnds(c) \/ OpenFails(c) \/ SendFails(c) \/ RelayTimesOut(c)
    PROVE  \E p \in Proxies : Contract!ReturnGood(p, c) \/ Contract!ReturnBad(p, c)
<1>0. TaskInv
  BY IInvSplit
<1>1. conn[c].pc \in Lent /\ Close(c)
  BY DEF RelayEnds, OpenFails, SendFails, RelayTimesOut, FailsIn, Lent
<1>2. PICK p \in Proxies : p = conn[c].proxy
  BY <1>0, <1>1, HoldersLose
<1>3. c \in Holders[p] /\ Holders' = [Holders EXCEPT ![p] = @ \ {c}]
  BY <1>0, <1>1, <1>2, HoldersLose
<1>4. CASE RelayEnds(c)
  <2>1. Standings' = [Standings EXCEPT ![p] =
                        IF Standings[p] # NoStanding THEN FreshStanding ELSE NoStanding]
    BY <1>2, <1>4, SuccessClears DEF RelayEnds, ReportGood
  <2>2. Contract!ReturnGood(p, c)
    BY <1>3, <2>1 DEF Contract!ReturnGood, Contract!Pooled, Contract!Absent, Contract!Fresh,
                      Standings, Holders, NoStanding, FreshStanding
  <2> QED
    BY <2>2
<1>5. CASE OpenFails(c) \/ SendFails(c) \/ RelayTimesOut(c)
  <2>1. Standings' = [Standings EXCEPT ![p] =
                        IF Standings[p] # NoStanding /\ Standings[p].failures + 1 < MaxFailures
                        THEN [failures |-> Standings[p].failures + 1, cooling |-> TRUE]
                        ELSE NoStanding]
    BY <1>2, <1>5, FailureCharges DEF OpenFails, SendFails, RelayTimesOut, FailsIn, ReportBad
  <2>2. Contract!ReturnBad(p, c)
    BY <1>3, <2>1 DEF Contract!ReturnBad, Contract!Pooled, Contract!Absent,
                      Standings, Holders, NoStanding
  <2> QED
    BY <2>2
<1> QED
  BY <1>4, <1>5
-----------------------------------------------------------------------------
(* The endpoint implements the lending contract: whatever is evicted, moved *)
(* by swap_remove or added again between a pick and its report, a borrower  *)
(* changes the standing of the proxy it borrowed, and of no other           *)
(* (rotator/pool.rs).                                                       *)
THEOREM ContractImplemented == Spec => ImplementsContract
<1>1. Init => Contract!Init
  <2> SUFFICES ASSUME Init PROVE Contract!Init
    OBVIOUS
  <2>1. DOMAIN entries = {} /\ Members = {}
    BY DEF Init, PoolInit, Members
  <2>2. \A c \in Conns : conn[c].pc \notin Lent
    BY DEF Init, Lent
  <2> QED
    BY <2>1, <2>2 DEF Contract!Init, Contract!Absent, StandingOf, HoldersOf
<1>2. IInv /\ [Next]_vars => [Contract!Next]_(Contract!vars)
  <2> SUFFICES ASSUME IInv, [Next]_vars
               PROVE  Contract!Next \/ Stutters
    BY ViewOfContract DEF Stutters
  <2>1. CASE UNCHANGED vars
    BY <2>1, UnseenStutters DEF vars
  <2>2. CASE Environment \/ Serving
    BY <2>2, EnvironmentMaps, ServingMaps
  <2>3. ASSUME NEW c \in Conns, TimedStep(c) \/ UntimedStep(c)
        PROVE  Contract!Next \/ Stutters
    <3>1. CASE RelayEnds(c) \/ OpenFails(c) \/ SendFails(c) \/ RelayTimesOut(c)
      BY <3>1, ReportsReturn DEF Contract!Next
    <3>2. CASE RejectHead(c) \/ RefuseNoProxy(c) \/ UpstreamOpened(c) \/ RequestSent(c)
      BY <3>2, QuietStepsStutter
    <3>3. CASE \E p \in Proxies : PickUpstream(c, p)
      BY <3>3, PickLends DEF Contract!Next
    <3> QED
      BY <2>3, <3>1, <3>2, <3>3 DEF TimedStep, UntimedStep, HeadStep
  <2> QED
    BY <2>1, <2>2, <2>3 DEF Next
<1> QED
  BY <1>1, <1>2, InductiveInvariant, PTL DEF Spec, ImplementsContract, Contract!Spec
=============================================================================
