------------------------------- MODULE Probes -------------------------------
(***************************************************************************)
(* Judges and probes: the preflight that fills the judge pool               *)
(* (JudgePool::build in src/validator/checker/judge_pool.rs, preflight_pool *)
(* in src/validator/mod.rs), and the probes that share the pool             *)
(* (support_http in src/validator/checker/support.rs, support_tunnel in     *)
(* src/validator/tunnel/mod.rs).  A probe takes a snapshot of candidates,   *)
(* asks them through its proxy in turn under a deadline and a budget, and   *)
(* parks a judge that failed for every later probe.                         *)
(*                                                                         *)
(* Time passes in ticks.  A timer that ran out fires before the next tick.  *)
(* A sound proxy relays every judge within the deadline; what any other     *)
(* proxy does is a free choice.                                             *)
(***************************************************************************)
EXTENDS SequencesExt, FiniteSetsExt, Integers

CONSTANTS
    Judges,             \* the URLs of the pool
    Probers,            \* the probes running at once
    Sound,              \* the workers whose proxies relay every judge in time
    Kinds,              \* what probes ask for: "http", "https", "socks"
    Timeout,            \* request_timeout
    MaxAttempts,        \* max_attempts
    RetryDelay,         \* retry_delay
    Cooldown,           \* JUDGE_FAILURE_COOLDOWN
    PreflightRetries,   \* PREFLIGHT_RETRIES
    CursorCycle         \* bound: the cursor counts modulo a multiple of every pool size

ASSUME ProbesAssumption ==
    /\ IsFiniteSet(Judges) /\ Judges # {} /\ IsFiniteSet(Probers) /\ Sound \subseteq Probers
    /\ Kinds \subseteq {"http", "https", "socks"}
    /\ Timeout \in Nat \ {0} /\ MaxAttempts \in Nat \ {0} /\ Cooldown \in Nat
    /\ RetryDelay \in Nat /\ PreflightRetries \in Nat
    /\ CursorCycle \in Nat \ {0} /\ \A n \in 1..Cardinality(Judges) : CursorCycle % n = 0

VARIABLES
    preflight,      \* what the preflight of each judge came to
    build,          \* where preflight_pool stands
    retries,        \* preflight attempts left
    pool,           \* JudgePool.judges: the judges that passed, in that order
    cursor,         \* JudgePool.cursor
    cooling,        \* ticks until cooldown_until_ms of each judge
    ownIp,          \* MY_IP_CACHE is filled
    probe           \* the state of each worker's probe

poolVars == <<preflight, build, retries, pool>>
health == <<cursor, cooling>>
probeVars == <<poolVars, health, ownIp, probe>>

Budget == Timeout * MaxAttempts
Least(a, b) == IF a <= b THEN a ELSE b

Idle == [pc |-> "idle"]

ProbesInit ==
    /\ preflight = [j \in Judges |-> "asked"] /\ build = "asking"
    /\ retries = PreflightRetries /\ pool = <<>> /\ cursor = 0
    /\ cooling = [j \in Judges |-> 0]
    /\ ownIp = FALSE /\ probe = [w \in Probers |-> Idle]
-----------------------------------------------------------------------------
(* The preflight: every judge is asked at once; build returns with the first *)
(* that passes, the others go on reporting to the same pool.                 *)

JudgePasses(j) ==
    /\ preflight[j] = "asked"
    /\ preflight' = [preflight EXCEPT ![j] = "passed"]
    /\ pool' = Append(pool, j)
    /\ UNCHANGED <<build, retries, health, ownIp, probe>>

JudgeDropped(j) ==
    /\ preflight[j] = "asked"
    /\ preflight' = [preflight EXCEPT ![j] = "dropped"]
    /\ UNCHANGED <<build, retries, pool, health, ownIp, probe>>

AllDropped == pool = <<>> /\ \A j \in Judges : preflight[j] = "dropped"

Built ==
    /\ build = "asking" /\ pool # <<>>
    /\ build' = "ready"
    /\ UNCHANGED <<preflight, retries, pool, health, ownIp, probe>>

BuiltAgain ==
    /\ build = "asking" /\ AllDropped /\ retries > 0
    /\ retries' = retries - 1 /\ preflight' = [j \in Judges |-> "asked"]
    /\ UNCHANGED <<build, pool, health, ownIp, probe>>

NotBuilt ==
    /\ build = "asking" /\ AllDropped /\ retries = 0
    /\ build' = "failed"
    /\ UNCHANGED <<preflight, retries, pool, health, ownIp, probe>>

\* The lookup of the own address that validate_with_health starts.
OwnIpKnown ==
    /\ ~ownIp /\ ownIp' = TRUE
    /\ UNCHANGED <<poolVars, health, probe>>
-----------------------------------------------------------------------------
(* candidates: the judges that are not cooling, or the next one in turn if   *)
(* all are.  They are sorted by smoothed round-trip time, ties in any order;  *)
(* the times are left out, so any order may come up.                          *)

Ready == {j \in ToSet(pool) : cooling[j] = 0}
\* Mutant: nobody is asked while all judges cool down.
NoFallback == {}
Fallback == IF Ready = {} /\ pool # <<>> THEN {pool[(cursor % Len(pool)) + 1]} ELSE {}
Candidates == SetToSeqs(Ready \union Fallback)

Probing(w) == probe[w].pc \notin {"idle", "gave up"}
GoTo(w, p) == probe' = [probe EXCEPT ![w] = p]

(* The attempt loop counts one offset per candidate and attempt.  Between    *)
(* two waits it runs on without one: Onward is where it waits next.          *)

\* Mutant: the attempts are not multiplied by the candidates.
TotalOfRounds(p) == MaxAttempts
Total(p) == MaxAttempts * Len(p.judges)
JudgeAt(p, o) == p.judges[(o % Len(p.judges)) + 1]
Target(p) == JudgeAt(p, p.offset)
Broke(p) == p.spent >= Budget
\* Mutant: every request gets the full timeout.
RequestLimitOfTimeout(p) == Timeout
RequestLimit(p) == Least(Budget - p.spent, Timeout)
NewRound(p, o) == o > 0 /\ o < Total(p) /\ o % Len(p.judges) = 0 /\ RetryDelay > 0
GaveUp(p) == [p EXCEPT !.pc = "gave up"]

\* A tunnel looks at the budget before it skips a judge, an HTTP probe after.
Breaks(p, o) == Broke(p) /\ (p.kind = "http" => JudgeAt(p, o) \notin p.failed)

Asks(p, o) ==
    [p EXCEPT !.pc = "asking", !.offset = o, !.waited = 0, !.limit = RequestLimit(p),
              !.asked[JudgeAt(p, o)] = @ + 1]

\* From offset o on: skip the judges that failed, up to the end, the delay before a new
\* round, the end of the budget, or a judge to ask.
Onward(p, o) ==
    LET k == Min({Total(p)} \union {i \in o..(Total(p) - 1) :
                    NewRound(p, i) \/ Breaks(p, i) \/ JudgeAt(p, i) \notin p.failed})
    IN  IF NewRound(p, k) THEN [p EXCEPT !.pc = "sleeping", !.offset = k, !.waited = 0]
        ELSE IF k = Total(p) \/ Breaks(p, k) THEN GaveUp(p)
        ELSE Asks(p, k)

Start(w, kind) ==
    /\ build = "ready" /\ probe[w].pc = "idle"
    /\ \E s \in Candidates :
        GoTo(w, Onward([pc |-> "start", kind |-> kind, judges |-> s, failed |-> {},
                        offset |-> 0, spent |-> 0, waited |-> 0, limit |-> 0,
                        asked |-> [j \in ToSet(s) |-> 0]], 0))
    /\ cursor' = IF Fallback = {} THEN cursor ELSE (cursor + 1) % CursorCycle
    /\ UNCHANGED <<poolVars, cooling, ownIp>>

\* After the delay the loop is at the first judge of the new round.
Wakes(w) ==
    LET p == probe[w]
    IN  /\ p.pc = "sleeping" /\ p.waited = RetryDelay
        /\ GoTo(w, IF Breaks(p, p.offset) THEN GaveUp(p)
                   ELSE IF Target(p) \in p.failed THEN Onward(p, p.offset + 1)
                   ELSE Asks(p, p.offset))
        /\ UNCHANGED <<poolVars, health, ownIp>>

NeedsOwnIp(p) == p.kind # "socks"
Verified(p) == [p EXCEPT !.pc = "verified"]

\* The judge echoed the token (and report_success took the time it needed).
Answered(w) ==
    LET p == probe[w]
    IN  /\ p.pc = "asking" /\ (p.waited < p.limit \/ w \in Sound)
        /\ GoTo(w, IF NeedsOwnIp(p) /\ ~ownIp THEN Verified(p) ELSE Idle)
        /\ UNCHANGED <<poolVars, health, ownIp>>

\* The anonymity level needs the own address; without it by the deadline, or when the
\* lookup fails, the probe passes with an unknown level.
Classified(w) ==
    /\ probe[w].pc = "verified"
    /\ GoTo(w, Idle)
    /\ UNCHANGED <<poolVars, health, ownIp>>

\* Mutant: the deadline of a request is not applied.
FailedUntimed(w) ==
    LET p == probe[w]
    IN  /\ p.pc = "asking" /\ w \notin Sound /\ p.waited < p.limit
        /\ cooling' = [cooling EXCEPT ![Target(p)] = Cooldown]
        /\ GoTo(w, Onward([p EXCEPT !.failed = @ \union {Target(p)}], p.offset + 1))
        /\ UNCHANGED <<poolVars, cursor, ownIp>>

\* No answer, a bad status, a foreign body, or the deadline: the judge cools down for
\* everyone and this probe does not ask it again.
Failed(w) ==
    LET p == probe[w]
    IN  /\ p.pc = "asking" /\ w \notin Sound
        /\ cooling' = [cooling EXCEPT ![Target(p)] = Cooldown]
        /\ GoTo(w, Onward([p EXCEPT !.failed = @ \union {Target(p)}], p.offset + 1))
        /\ UNCHANGED <<poolVars, cursor, ownIp>>

\* An HTTP answer that cannot be read or lacks a header the proxy had to forward: the
\* judge is not blamed and stays in line for the next round.
Unusable(w) ==
    LET p == probe[w]
    IN  /\ p.pc = "asking" /\ w \notin Sound /\ p.kind = "http"
        /\ GoTo(w, Onward(p, p.offset + 1))
        /\ UNCHANGED <<poolVars, health, ownIp>>

Collected(w) ==
    /\ probe[w].pc = "gave up"
    /\ GoTo(w, Idle)
    /\ UNCHANGED <<poolVars, health, ownIp>>

\* Nothing waits beyond its timer.
MayWait(p) ==
    CASE p.pc = "asking"   -> p.waited < p.limit
      [] p.pc = "verified" -> p.waited < p.limit /\ ~ownIp
      [] p.pc = "sleeping" -> p.waited < RetryDelay
      [] p.pc = "idle"     -> TRUE
      [] OTHER             -> FALSE

Aged(p) == IF p.pc = "idle" THEN p ELSE [p EXCEPT !.waited = @ + 1, !.spent = @ + 1]

Tick ==
    /\ \A w \in Probers : MayWait(probe[w])
    /\ cooling' = [j \in Judges |-> IF cooling[j] = 0 THEN 0 ELSE cooling[j] - 1]
    /\ probe' = [w \in Probers |-> Aged(probe[w])]
    /\ UNCHANGED <<poolVars, cursor, ownIp>>

Settles == Built \/ BuiltAgain \/ NotBuilt
Step(w) ==
    Wakes(w) \/ Answered(w) \/ Classified(w) \/ Failed(w) \/ Unusable(w) \/ Collected(w)

ProbesNext ==
    \/ \E j \in Judges : JudgePasses(j) \/ JudgeDropped(j)
    \/ Settles \/ OwnIpKnown \/ Tick
    \/ \E w \in Probers : Step(w) \/ \E kind \in Kinds : Start(w, kind)

ProbesSpec == ProbesInit /\ [][ProbesNext]_probeVars
-----------------------------------------------------------------------------
(* Properties.                                                               *)

ProbesTypeOK ==
    /\ preflight \in [Judges -> {"asked", "passed", "dropped"}]
    /\ build \in {"asking", "ready", "failed"}
    /\ pool \in Seq(Judges) /\ IsInjective(pool)
    /\ cursor \in 0..(CursorCycle - 1)
    /\ cooling \in [Judges -> 0..Cooldown]
    /\ \A w \in Probers : Probing(w) =>
        /\ probe[w].judges \in Seq(ToSet(pool)) /\ probe[w].failed \subseteq ToSet(probe[w].judges)
        /\ probe[w].waited \in 0..(Timeout + RetryDelay)

\* A proxy that relays every judge in time passes, however many dead proxies have parked
\* the shared judges meanwhile (judge_pool.rs:136) and whether or not the own address is
\* known by the deadline.
SoundProxyPasses == \A w \in Sound : probe[w].pc # "gave up"

\* A probe gives up only when its budget is spent or when every candidate failed through
\* this proxy or was asked as often as max_attempts allows.
GivesUpWithCause ==
    \A w \in Probers : probe[w].pc = "gave up" =>
        LET p == probe[w]
        IN  \/ p.spent >= Budget
            \/ \A j \in ToSet(p.judges) : p.asked[j] >= 1 /\ (j \in p.failed \/ p.asked[j] = MaxAttempts)

\* A probe asks for no longer than its budget, and holds its worker for no longer than
\* the budget and the delays between rounds: one delay for a tunnel, which looks at the
\* budget every round, all of them for HTTP.
EndsInBudget ==
    \A w \in Probers : Probing(w) =>
        probe[w].spent <= IF probe[w].pc # "sleeping" THEN Budget
                          ELSE Budget + RetryDelay * (IF probe[w].kind = "http" THEN MaxAttempts - 1 ELSE 1)

\* A deadline that has passed is acted upon: where a timer holds time up, the probe it
\* belongs to has a step to take, so no silent proxy keeps a worker (with EndsInBudget).
DeadlinesFire == \A w \in Probers : ~MayWait(probe[w]) => ENABLED Step(w)
=============================================================================
