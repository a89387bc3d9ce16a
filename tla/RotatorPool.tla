---------------------------- MODULE RotatorPool ----------------------------
(***************************************************************************)
(* The pool of validated upstreams that `flx serve` rotates over           *)
(* (src/rotator/pool.rs).  The entries sit behind one mutex, so each        *)
(* method is one atomic action; the module defines the methods and leaves   *)
(* the callers to Rotator and ServeRun.                                     *)
(*                                                                         *)
(* A proxy stands for its endpoint text, the key every method searches by.  *)
(* An entry's cooldown instant is abstracted to whether it still lies in    *)
(* the future: CooldownEnds is the passage of time.                         *)
(***************************************************************************)
EXTENDS Integers, Sequences, FiniteSets

CONSTANTS
    Proxies,        \* the endpoints the validator may deliver
    NoProxy,        \* what pick returns when it finds nothing
    MaxPoolSize,    \* MAX_POOL_SIZE
    MaxFailures     \* MAX_CONSECUTIVE_FAILURES

ASSUME PoolAssumption ==
    /\ NoProxy \notin Proxies
    /\ MaxPoolSize \in Nat \ {0}
    /\ MaxFailures \in Nat \ {0}

VARIABLES
    entries,        \* the vector of pool entries, in insertion order
    cursor,         \* the round-robin counter
    strategy        \* chosen once, when the pool is created

poolVars == <<entries, cursor, strategy>>

Strategies == {"RoundRobin", "Random"}
Entry == [proxy : Proxies, failures : 0..(MaxFailures - 1), cooling : BOOLEAN]

PoolTypeOK ==
    /\ entries \in Seq(Entry)
    /\ cursor \in Nat
    /\ strategy \in Strategies

PoolInit ==
    /\ entries = <<>>
    /\ cursor = 0
    /\ strategy \in Strategies
-----------------------------------------------------------------------------
Available(e) == ~e.cooling

Members == {entries[i].proxy : i \in DOMAIN entries}

(* RotatorPool::ready: entries outside their cooldown.                      *)
Ready == Cardinality({i \in DOMAIN entries : Available(entries[i])})

(* The first entry of a proxy, as `iter().position` finds it.               *)
PositionOf(p) ==
    CHOOSE i \in DOMAIN entries :
        /\ entries[i].proxy = p
        /\ \A j \in DOMAIN entries : entries[j].proxy = p => i <= j

SwapRemoveOfLast(s, i) == SubSeq(s, 1, Len(s) - 1)

(* Vec::swap_remove: the last entry takes the place of the removed one.     *)
SwapRemove(s, i) == SubSeq([s EXCEPT ![i] = s[Len(s)]], 1, Len(s) - 1)
-----------------------------------------------------------------------------
AddWithoutDuplicateTest(p) ==
    /\ entries' = IF Len(entries) >= MaxPoolSize
                  THEN entries
                  ELSE Append(entries, [proxy |-> p, failures |-> 0, cooling |-> FALSE])
    /\ UNCHANGED <<cursor, strategy>>

(* RotatorPool::add: a full pool and a known endpoint are refused.          *)
Add(p) ==
    /\ entries' = IF Len(entries) >= MaxPoolSize \/ p \in Members
                  THEN entries
                  ELSE Append(entries, [proxy |-> p, failures |-> 0, cooling |-> FALSE])
    /\ UNCHANGED <<cursor, strategy>>

(* Where a scan may start: the counter for RoundRobin, anywhere for Random. *)
Starts ==
    IF strategy = "RoundRobin" THEN {cursor % Len(entries)} ELSE 0..(Len(entries) - 1)

SlotWithoutWrap(start, offset) ==
    IF start + offset < Len(entries) THEN start + offset + 1 ELSE Len(entries)

(* The slots a scan from `start` visits, in order: it wraps around.         *)
Slot(start, offset) == ((start + offset) % Len(entries)) + 1

ScanFrom(start) ==
    LET hits == {o \in 0..(Len(entries) - 1) : Available(entries[Slot(start, o)])}
    IN  IF hits = {}
        THEN NoProxy
        ELSE entries[Slot(start, CHOOSE o \in hits : \A k \in hits : o <= k)].proxy

PickWithoutAdvance(p) ==
    /\ IF entries = <<>> THEN p = NoProxy ELSE \E start \in Starts : p = ScanFrom(start)
    /\ UNCHANGED poolVars

(* RotatorPool::pick returning p.  An empty pool returns before the counter *)
(* moves; otherwise a RoundRobin pick advances it even if nothing is ready. *)
Pick(p) ==
    /\ \/ /\ entries = <<>>
          /\ p = NoProxy
          /\ UNCHANGED cursor
       \/ /\ entries # <<>>
          /\ \E start \in Starts : p = ScanFrom(start)
          /\ cursor' = IF strategy = "RoundRobin" THEN cursor + 1 ELSE cursor
    /\ UNCHANGED <<entries, strategy>>

ClearCooldownOnly(p) ==
    /\ entries' = IF p \in Members
                  THEN [entries EXCEPT ![PositionOf(p)].cooling = FALSE]
                  ELSE entries
    /\ UNCHANGED <<cursor, strategy>>

(* RotatorPool::report_success: the streak ends; an unknown proxy is        *)
(* ignored.                                                                 *)
ReportSuccess(p) ==
    /\ entries' = IF p \in Members
                  THEN [entries EXCEPT ![PositionOf(p)] =
                            [@ EXCEPT !.failures = 0, !.cooling = FALSE]]
                  ELSE entries
    /\ UNCHANGED <<cursor, strategy>>

(* RotatorPool::report_failure: the last permitted failure evicts, an       *)
(* earlier one cools the entry down; an evicted proxy is ignored.           *)
ReportFailure(p) ==
    /\ IF p \in Members
       THEN LET i == PositionOf(p)
                f == entries[i].failures + 1
            IN  entries' = IF f >= MaxFailures
                           THEN SwapRemove(entries, i)
                           ELSE [entries EXCEPT ![i] =
                                    [@ EXCEPT !.failures = f, !.cooling = TRUE]]
       ELSE entries' = entries
    /\ UNCHANGED <<cursor, strategy>>

(* The cooldown instant of slot i passes.                                   *)
CooldownEnds(i) ==
    /\ entries[i].cooling
    /\ entries' = [entries EXCEPT ![i].cooling = FALSE]
    /\ UNCHANGED <<cursor, strategy>>
=============================================================================
