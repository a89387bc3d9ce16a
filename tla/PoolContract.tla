---------------------------- MODULE PoolContract ----------------------------
(***************************************************************************)
(* What the rotating pool promises, without its vector, its cursor or its  *)
(* lock: proxies are lent to connections while they are healthy, and a      *)
(* connection that gives one back changes the standing of that proxy only.  *)
(* Rotator implements this specification.                                   *)
(***************************************************************************)
EXTENDS Integers

CONSTANTS Proxies, Conns, MaxFailures

VARIABLES
    standing,       \* Absent, or the failures and cooldown of a pooled proxy
    holders         \* the connections each proxy is lent to

vars == <<standing, holders>>

Absent == [failures |-> -1, cooling |-> FALSE]
Fresh == [failures |-> 0, cooling |-> FALSE]
Pooled(p) == standing[p] # Absent

Init ==
    /\ standing = [p \in Proxies |-> Absent]
    /\ holders = [p \in Proxies |-> {}]

Admit(p) ==
    /\ ~Pooled(p)
    /\ standing' = [standing EXCEPT ![p] = Fresh]
    /\ UNCHANGED holders

Lend(p, c) ==
    /\ Pooled(p)
    /\ ~standing[p].cooling
    /\ \A q \in Proxies : c \notin holders[q]
    /\ holders' = [holders EXCEPT ![p] = @ \cup {c}]
    /\ UNCHANGED standing

ReturnGood(p, c) ==
    /\ c \in holders[p]
    /\ holders' = [holders EXCEPT ![p] = @ \ {c}]
    /\ standing' = [standing EXCEPT ![p] = IF Pooled(p) THEN Fresh ELSE Absent]

ReturnBad(p, c) ==
    /\ c \in holders[p]
    /\ holders' = [holders EXCEPT ![p] = @ \ {c}]
    /\ standing' = [standing EXCEPT ![p] =
            IF Pooled(p) /\ @.failures + 1 < MaxFailures
            THEN [failures |-> @.failures + 1, cooling |-> TRUE]
            ELSE Absent]

Cool(p) ==
    /\ Pooled(p)
    /\ standing[p].cooling
    /\ standing' = [standing EXCEPT ![p].cooling = FALSE]
    /\ UNCHANGED holders

Next ==
    \E p \in Proxies :
        \/ Admit(p)
        \/ Cool(p)
        \/ \E c \in Conns : Lend(p, c) \/ ReturnGood(p, c) \/ ReturnBad(p, c)

Spec == Init /\ [][Next]_vars
=============================================================================
