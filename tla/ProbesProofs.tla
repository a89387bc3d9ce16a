---------------------------- MODULE ProbesProofs ----------------------------
(***************************************************************************)
(* What holds of the probes for any number of judges, any number of probes  *)
(* at once and every setting of timeout, attempts and delays: a sound proxy *)
(* passes, a probe gives up only with cause, and it ends within its budget. *)
(***************************************************************************)
EXTENDS Probes, SequenceTheorems, FiniteSetTheorems, WellFoundedInduction, TLAPS

(* Arithmetic of offsets: offset a * n + i is attempt a of judge i of n.     *)

\* A budget of whole timeouts is positive, and so is a total of whole rounds.
LEMMA ProductPositive == \A a, b \in Nat \ {0} : a * b \in Nat \ {0}
OBVIOUS

\* Every offset is a round and a place in it.
LEMMA Division ==
    \A n \in Nat \ {0} : \A o \in Nat :
        o % n \in 0..(n - 1) /\ \E q \in Nat : o = q * n + (o % n)
<1> TAKE n \in Nat \ {0}
<1> TAKE o \in Nat
<1>1. o % n \in 0..(n - 1)
  OBVIOUS
<1>2. o = (o \div n) * n + (o % n) /\ o \div n \in Nat
  OBVIOUS
<1> QED
  BY <1>1, <1>2

\* An offset before a round belongs to an earlier round.
LEMMA Below ==
    \A n \in Nat \ {0} : \A a, b \in Int : \A i \in 0..(n - 1) : a * n + i < b * n => a < b
OBVIOUS

\* An offset at a round or behind it belongs to no earlier round.
LEMMA Above ==
    \A n \in Nat \ {0} : \A a, b \in Int : \A i \in 0..(n - 1) : b * n <= a * n + i => b <= a
OBVIOUS

\* One round less counts one turn of each judge less.
LEMMA OneRoundLess ==
    \A a \in Nat, n \in Nat \ {0}, d \in Int :
        /\ a * n + d \in Int /\ (a - 1) * n + d \in Int
        /\ a * n + d = ((a - 1) * n + d) + n
OBVIOUS

\* Round and place of an offset are unique.
LEMMA SameOffset ==
    \A n \in Nat \ {0} : \A a, b \in Nat : \A i, j \in 0..(n - 1) :
        a * n + i = b * n + j => a = b /\ i = j
OBVIOUS

\* The remainder of an offset is its place.
LEMMA Remainder ==
    \A n \in Nat \ {0} : \A a \in Nat : \A i \in 0..(n - 1) :
        a * n + i \in Nat /\ (a * n + i) % n = i
<1> TAKE n \in Nat \ {0}
<1> TAKE a \in Nat
<1> TAKE i \in 0..(n - 1)
<1> DEFINE r == (a * n + i) % n
<1>1. a * n + i \in Nat
  OBVIOUS
<1>2. r \in 0..(n - 1) /\ \E q \in Nat : a * n + i = q * n + r
  BY <1>1, Division
<1> HIDE DEF r
<1>3. PICK q \in Nat : a * n + i = q * n + r
  BY <1>2
<1>4. r = i
  BY <1>2, <1>3, SameOffset
<1> QED
  BY <1>1, <1>4 DEF r

\* More delays take no less time.
LEMMA Monotone == \A d, a, b \in Nat : a <= b => d * a <= d * b
OBVIOUS

(* Min of a set of natural numbers is its least element.                     *)
LEMMA MinFacts ==
    ASSUME NEW S \in SUBSET Nat, S # {}
    PROVE  Min(S) \in S /\ \A y \in S : Min(S) <= y
<1> DEFINE R == {pair \in Nat \X Nat : pair[1] < pair[2]}
<1>1. \A x, y \in Nat : <<y, x>> \in R <=> y < x
  OBVIOUS
<1>2. IsWellFoundedOn(R, Nat)
  BY NatLessThanWellFounded DEF OpToRel
<1> HIDE DEF R
<1>3. PICK x \in S : \A y \in S : ~(<<y, x>> \in R)
  BY <1>2, WFMin
<1>4. ASSUME NEW y \in S
      PROVE  x <= y
  <2>1. x \in Nat /\ y \in Nat /\ ~(<<y, x>> \in R)
    BY <1>3
  <2>2. ~(y < x)
    BY <1>1, <2>1
  <2> QED
    BY <2>1, <2>2
<1> QED
  BY <1>4 DEF Min
-----------------------------------------------------------------------------
(* The inductive invariant.                                                  *)

Tallies == UNION {[S -> Nat] : S \in SUBSET Judges}
ProbeState ==
    [pc : {"start", "asking", "verified", "sleeping", "gave up"}, kind : Kinds,
     judges : Seq(Judges), failed : SUBSET Judges,
     offset : Nat, spent : Nat, waited : Nat, limit : Nat, asked : Tallies]

\* The candidates of a probe: at least one, and each once.
Listed(p) ==
    /\ p \in ProbeState
    /\ p.judges # <<>> /\ IsInjective(p.judges)
    /\ p.failed \subseteq ToSet(p.judges) /\ p.asked \in [ToSet(p.judges) -> Nat]

\* Before offset o, each judge was asked in every round so far unless it failed.
Counted(p, o) ==
    \A i \in 1..Len(p.judges) :
        LET a == p.asked[p.judges[i]]
        IN  IF p.judges[i] \in p.failed THEN a >= 1
            ELSE (a - 1) * Len(p.judges) + (i - 1) < o /\ o <= a * Len(p.judges) + (i - 1)

\* An HTTP probe may have slept beyond its budget, once per round before offset o.
Late(p, o) ==
    \/ p.spent <= Budget
    \/ /\ p.kind = "http"
       /\ \E q \in Nat : q * Len(p.judges) < o /\ p.spent <= Budget + RetryDelay * q

InTime(p) == p.waited <= p.limit /\ p.limit <= Timeout /\ p.spent + p.limit <= Budget + p.waited

Asking(p) == p.pc = "asking" /\ p.offset < Total(p) /\ Counted(p, p.offset + 1) /\ InTime(p)
Waiting(p) == p.pc = "verified" /\ InTime(p)
Sleeping(p) ==
    /\ p.pc = "sleeping" /\ p.waited <= RetryDelay
    /\ Counted(p, p.offset)
    /\ \E q \in 1..(MaxAttempts - 1) :
        /\ p.offset = q * Len(p.judges)
        /\ p.spent <= Budget + (IF p.kind = "http" THEN RetryDelay * (q - 1) ELSE 0) + p.waited
Stopped(p) ==
    /\ p.pc = "gave up"
    /\ \/ p.spent >= Budget
       \/ \A j \in ToSet(p.judges) :
            p.asked[j] >= 1 /\ (j \in p.failed \/ p.asked[j] = MaxAttempts)

Running(p) == Listed(p) /\ (Asking(p) \/ Waiting(p) \/ Sleeping(p) \/ Stopped(p))

PoolInv ==
    /\ preflight \in [Judges -> {"asked", "passed", "dropped"}]
    /\ build \in {"asking", "ready", "failed"}
    /\ pool \in Seq(Judges) /\ IsInjective(pool)
    /\ cursor \in 0..(CursorCycle - 1) /\ cooling \in [Judges -> 0..Cooldown]
    /\ \A j \in Judges : preflight[j] = "asked" => j \notin ToSet(pool)
    /\ build = "ready" => pool # <<>>

ProbesInv ==
    /\ probe = [w \in Probers |-> probe[w]]
    /\ \A w \in Probers :
        \/ probe[w] = Idle
        \/ Running(probe[w]) /\ ToSet(probe[w].judges) \subseteq ToSet(pool)

SoundInv == \A w \in Sound : probe[w].pc \in {"idle", "asking", "verified"}

IInv == PoolInv /\ ProbesInv /\ SoundInv
-----------------------------------------------------------------------------
(* A sequence over a set is one over every set that holds its members.       *)
LEMMA SeqOfMembers ==
    ASSUME NEW S, NEW T, NEW s \in Seq(S), ToSet(s) \subseteq T
    PROVE  s \in Seq(T)
<1>1. s \in [1..Len(s) -> S] /\ Len(s) \in Nat /\ DOMAIN s = 1..Len(s)
  BY LenProperties
<1>2. \A i \in 1..Len(s) : s[i] \in T
  BY <1>1 DEF ToSet
<1>3. s \in [1..Len(s) -> T]
  BY <1>1, <1>2
<1> QED
  BY <1>1, <1>3, SeqDef

(* The constants and the numbers of a probe.                                 *)
LEMMA Numbers ==
    ASSUME NEW p, Listed(p)
    PROVE  /\ Len(p.judges) \in Nat \ {0} /\ DOMAIN p.judges = 1..Len(p.judges)
           /\ MaxAttempts \in Nat \ {0} /\ Timeout \in Nat \ {0} /\ RetryDelay \in Nat
           /\ Budget \in Nat \ {0} /\ Total(p) \in Nat \ {0}
           /\ p.offset \in Nat /\ p.spent \in Nat /\ p.waited \in Nat /\ p.limit \in Nat
           /\ \A i \in 1..Len(p.judges) :
                p.judges[i] \in ToSet(p.judges) /\ p.asked[p.judges[i]] \in Nat
<1>1. p.judges \in Seq(Judges) /\ p.judges # <<>>
  BY DEF Listed, ProbeState
<1>2. Len(p.judges) \in Nat \ {0} /\ DOMAIN p.judges = 1..Len(p.judges)
  BY <1>1, LenProperties, EmptySeq
<1>3. MaxAttempts \in Nat \ {0} /\ Timeout \in Nat \ {0} /\ RetryDelay \in Nat
  BY ProbesAssumption
<1>4. Budget \in Nat \ {0} /\ Total(p) \in Nat \ {0}
  BY <1>2, <1>3, ProductPositive DEF Budget, Total
<1>5. \A i \in 1..Len(p.judges) : p.judges[i] \in ToSet(p.judges)
  BY <1>2 DEF ToSet
<1>6. p.asked \in [ToSet(p.judges) -> Nat]
  BY DEF Listed
<1>7. p.offset \in Nat /\ p.spent \in Nat /\ p.waited \in Nat /\ p.limit \in Nat
  BY DEF Listed, ProbeState
<1> QED
  BY <1>2, <1>3, <1>4, <1>5, <1>6, <1>7

(* The judge at an offset is the one of its place in the round.              *)
LEMMA PlaceInRound ==
    ASSUME NEW p, Listed(p), NEW o \in Nat
    PROVE  /\ \E i \in 1..Len(p.judges), q \in Nat :
                o = q * Len(p.judges) + (i - 1) /\ JudgeAt(p, o) = p.judges[i]
           /\ JudgeAt(p, o) \in ToSet(p.judges)
<1> DEFINE n == Len(p.judges)
           r == o % n
<1>1. n \in Nat \ {0} /\ \A i \in 1..n : p.judges[i] \in ToSet(p.judges)
  BY Numbers
<1>2. r \in 0..(n - 1) /\ \E q \in Nat : o = q * n + r
  BY <1>1, Division
<1>3. JudgeAt(p, o) = p.judges[r + 1]
  BY DEF JudgeAt
<1> HIDE DEF n, r
<1>4. r + 1 \in 1..n /\ (r + 1) - 1 = r
  BY <1>1, <1>2
<1>5. JudgeAt(p, o) \in ToSet(p.judges)
  BY <1>1, <1>3, <1>4
<1>6. \E i \in 1..n, q \in Nat : o = q * n + (i - 1) /\ JudgeAt(p, o) = p.judges[i]
  BY <1>2, <1>3, <1>4
<1> QED
  BY <1>5, <1>6 DEF n

\* The judge at place i of any round is judge i.
LEMMA JudgeOfAttempt ==
    ASSUME NEW p, Listed(p), NEW a \in Nat, NEW i \in 1..Len(p.judges)
    PROVE  /\ a * Len(p.judges) + (i - 1) \in Nat
           /\ JudgeAt(p, a * Len(p.judges) + (i - 1)) = p.judges[i]
<1> DEFINE n == Len(p.judges)
           m == a * n + (i - 1)
<1>1. n \in Nat \ {0} /\ i - 1 \in 0..(n - 1)
  BY Numbers
<1>2. m \in Nat /\ m % n = i - 1
  <2> HIDE DEF n
  <2> QED
    BY <1>1, Remainder
<1>3. (i - 1) + 1 = i
  BY <1>1
<1> HIDE DEF m
<1>4. JudgeAt(p, m) = p.judges[i]
  BY <1>2, <1>3 DEF JudgeAt
<1> QED
  BY <1>2, <1>4 DEF m
-----------------------------------------------------------------------------
(* What the attempt loop does between two waits.                             *)

\* Skipping offsets whose judges failed keeps the count.
LEMMA SkippingCounts ==
    ASSUME NEW p, Listed(p), NEW o \in Nat, NEW k \in Nat, o <= k, Counted(p, o),
           \A i \in o..(k - 1) : JudgeAt(p, i) \in p.failed
    PROVE  Counted(p, k)
<1> DEFINE n == Len(p.judges)
<1>1. n \in Nat \ {0} /\ \A i \in 1..n : p.asked[p.judges[i]] \in Nat
  BY Numbers
<1>2. ASSUME NEW i \in 1..n, p.judges[i] \notin p.failed
      PROVE  /\ (p.asked[p.judges[i]] - 1) * n + (i - 1) < k
             /\ k <= p.asked[p.judges[i]] * n + (i - 1)
  <2> DEFINE a == p.asked[p.judges[i]]
             m == a * n + (i - 1)
             b == (a - 1) * n + (i - 1)
  <2>1. a \in Nat /\ n \in Nat /\ i \in Nat
    BY <1>1
  <2>2. m \in Nat /\ JudgeAt(p, m) = p.judges[i]
    BY <2>1, JudgeOfAttempt
  <2>3. b < o /\ o <= m
    BY <1>2 DEF Counted
  <2>4. b \in Int
    BY <2>1
  <2> HIDE DEF m, b, a, n
  <2>5. k <= m
    <3>1. SUFFICES ASSUME m < k PROVE FALSE
      BY <2>2
    <3>2. m \in o..(k - 1)
      BY <2>2, <2>3, <3>1
    <3> QED
      BY <1>2, <2>2, <3>2
  <2>6. b < k
    BY <2>3, <2>4
  <2> QED
    BY <2>5, <2>6 DEF m, b, a
<1> QED
  BY <1>2 DEF Counted

\* At the end of the last round every judge failed or was asked in each round.
LEMMA AllAsked ==
    ASSUME NEW p, Listed(p), Counted(p, Total(p)), NEW j \in ToSet(p.judges)
    PROVE  p.asked[j] >= 1 /\ (j \in p.failed \/ p.asked[j] = MaxAttempts)
<1> DEFINE n == Len(p.judges)
<1>1. n \in Nat \ {0} /\ MaxAttempts \in Nat \ {0} /\ DOMAIN p.judges = 1..n
  BY Numbers
<1>2. PICK i \in 1..n : j = p.judges[i]
  BY <1>1 DEF ToSet
<1> DEFINE a == p.asked[j]
<1>3. a \in Nat
  BY <1>2, Numbers
<1>4. CASE j \in p.failed
  BY <1>2, <1>4 DEF Counted
<1>5. CASE j \notin p.failed
  <2>1. (a - 1) * n + (i - 1) < MaxAttempts * n /\ MaxAttempts * n <= a * n + (i - 1)
    BY <1>2, <1>5 DEF Counted, Total
  <2>2. i - 1 \in 0..(n - 1) /\ a - 1 \in Int /\ MaxAttempts \in Int
    BY <1>1, <1>3
  <2> HIDE DEF a, n
  <2>3. a - 1 < MaxAttempts
    BY <1>1, <2>1, <2>2, Below
  <2>4. MaxAttempts <= a
    BY <1>1, <1>3, <2>1, <2>2, Above
  <2>5. a = MaxAttempts /\ a >= 1
    BY <1>1, <1>3, <2>3, <2>4
  <2> QED
    BY <2>5 DEF a
<1> QED
  BY <1>4, <1>5

\* The state of a probe that asks its next judge.
NextAsk(p, o, l, t) ==
    [p EXCEPT !.pc = "asking", !.offset = o, !.waited = 0, !.limit = l, !.asked = t]

\* The fields of a probe that asks its next judge.
LEMMA AskedFields ==
    ASSUME NEW p, NEW o \in Nat, NEW t, NEW q,
           p \in ProbeState, RequestLimit(p) \in Nat, t \in Tallies,
           q = NextAsk(p, o, RequestLimit(p), t)
    PROVE  /\ q \in ProbeState
           /\ q.pc = "asking" /\ q.kind = p.kind /\ q.judges = p.judges
           /\ q.failed = p.failed /\ q.offset = o /\ q.spent = p.spent
           /\ q.waited = 0 /\ q.limit = RequestLimit(p) /\ q.asked = t
BY DEF ProbeState, NextAsk

\* A judge is asked while there is budget left: the probe stays within it.
LEMMA AskingStep ==
    ASSUME NEW p, Listed(p), NEW o \in Nat, o < Total(p), Counted(p, o),
           JudgeAt(p, o) \notin p.failed, ~Broke(p)
    PROVE  /\ Running(Asks(p, o)) /\ Asks(p, o).pc = "asking"
           /\ Asks(p, o).judges = p.judges
<1> DEFINE q == Asks(p, o)
           j == JudgeAt(p, o)
           n == Len(p.judges)
<1>1. /\ n \in Nat \ {0} /\ Budget \in Nat \ {0} /\ Timeout \in Nat \ {0}
      /\ p.spent \in Nat /\ \A i \in 1..n : p.asked[p.judges[i]] \in Nat
      /\ DOMAIN p.judges = 1..n
  BY Numbers
<1>2. PICK i0 \in 1..n, r0 \in Nat : o = r0 * n + (i0 - 1) /\ j = p.judges[i0]
  BY PlaceInRound
<1>3. j \in ToSet(p.judges)
  BY PlaceInRound
<1>4. RequestLimit(p) \in Nat /\ RequestLimit(p) <= Timeout /\ p.spent + RequestLimit(p) <= Budget
  BY <1>1 DEF RequestLimit, Least, Broke
<1>5. p \in ProbeState /\ p.asked \in [ToSet(p.judges) -> Nat] /\ p.judges \in Seq(Judges)
  BY DEF Listed, ProbeState
<1> DEFINE t == [p.asked EXCEPT ![j] = p.asked[j] + 1]
<1>6. t \in [ToSet(p.judges) -> Nat] /\ t \in Tallies
  <2>1. p.asked[j] + 1 \in Nat
    BY <1>3, <1>5
  <2>2. t \in [ToSet(p.judges) -> Nat]
    BY <1>3, <1>5, <2>1
  <2>3. ToSet(p.judges) \subseteq Judges
    BY <1>1, <1>5, ElementOfSeq DEF ToSet
  <2> QED
    BY <2>2, <2>3 DEF Tallies
<1>7. /\ q \in ProbeState
      /\ q.pc = "asking" /\ q.kind = p.kind /\ q.judges = p.judges /\ q.failed = p.failed
      /\ q.offset = o /\ q.spent = p.spent /\ q.waited = 0 /\ q.limit = RequestLimit(p)
      /\ q.asked = t
  <2>1. q = NextAsk(p, o, RequestLimit(p), t)
    BY DEF Asks, NextAsk
  <2>2. p \in ProbeState /\ o \in Nat /\ RequestLimit(p) \in Nat /\ t \in Tallies
    BY <1>4, <1>5, <1>6
  <2> HIDE DEF q, t
  <2> QED
    BY <2>1, <2>2, AskedFields
<1>8. Listed(q)
  BY <1>6, <1>7 DEF Listed
<1>9. Counted(q, o + 1)
  <2>1. ASSUME NEW i \in 1..n
        PROVE  LET a == q.asked[p.judges[i]]
               IN  IF p.judges[i] \in p.failed THEN a >= 1
                   ELSE (a - 1) * n + (i - 1) < o + 1 /\ o + 1 <= a * n + (i - 1)
    <3> DEFINE a == p.asked[p.judges[i]]
               b == a * n + (i - 1)
               c == (a - 1) * n + (i - 1)
    <3>1. a \in Nat /\ n \in Nat \ {0} /\ i - 1 \in 0..(n - 1) /\ i0 - 1 \in 0..(n - 1)
      BY <1>1
    <3>2. IF p.judges[i] \in p.failed THEN a >= 1 ELSE c < o /\ o <= b
      BY DEF Counted
    <3>3. b \in Int /\ c \in Int /\ b = c + n
      <4> HIDE DEF a, n
      <4>1. i - 1 \in Int
        BY <3>1
      <4> QED
        BY <3>1, <4>1, OneRoundLess
    <3>4. p.judges[i] \in ToSet(p.judges)
      BY Numbers
    <3>5. CASE i = i0
      <4>1. q.asked[p.judges[i]] = a + 1 /\ p.judges[i] \notin p.failed
        BY <1>2, <1>3, <1>5, <1>7, <3>5
      <4>2. (a + 1) - 1 = a /\ (a + 1) * n + (i - 1) = b + n
        BY <3>1
      <4>3. a = r0
        <5>1. c < o /\ o <= b /\ o = r0 * n + (i - 1)
          BY <1>2, <3>2, <3>5, <4>1
        <5>2. a - 1 < r0 /\ r0 <= a
          <6> HIDE DEF a, n
          <6>1. a - 1 \in Int /\ a \in Int /\ r0 \in Int /\ n \in Nat \ {0} /\ i \in Int
            BY <3>1
          <6>2. (a - 1) * n < r0 * n /\ r0 * n <= a * n
            BY <5>1, <6>1
          <6>3. 0 \in 0..(n - 1)
            BY <6>1
          <6>4. \A x, y \in Int : (x * n < y * n => x < y) /\ (y * n <= x * n => y <= x)
            BY <6>1
          <6> QED
            BY <6>1, <6>2, <6>4
        <5> QED
          BY <3>1, <5>2
      <4>4. b = o
        BY <1>2, <3>5, <4>3
      <4> HIDE DEF a, b, c, n, q
      <4>5. b < o + 1 /\ o + 1 <= b + n
        BY <3>1, <3>3, <4>4
      <4> QED
        BY <4>1, <4>2, <4>5 DEF b
    <3>6. CASE i # i0
      <4>1. p.judges[i] # j
        BY <1>1, <1>2, <3>6 DEF Listed, IsInjective
      <4>2. q.asked[p.judges[i]] = a
        BY <1>3, <1>5, <1>7, <3>4, <4>1
      <4>3. o # b
        <5> HIDE DEF a, n, c
        <5> QED
          BY <1>2, <3>1, <3>6, SameOffset
      <4>4. IF p.judges[i] \in p.failed THEN a >= 1 ELSE c < o + 1 /\ o + 1 <= b
        <5> HIDE DEF a, b, c, n, q
        <5> QED
          BY <3>2, <3>3, <4>3
      <4> QED
        BY <4>2, <4>4
    <3> QED
      BY <3>5, <3>6
  <2> QED
    BY <1>7, <2>1 DEF Counted
<1>10. q.offset < Total(q) /\ InTime(q)
  BY <1>1, <1>4, <1>7 DEF Total, InTime
<1> QED
  BY <1>7, <1>8, <1>9, <1>10 DEF Running, Asking
\* Steps that change only some fields keep the candidates.
LEMMA Relisted ==
    ASSUME NEW p, Listed(p), NEW q, q \in ProbeState,
           q.judges = p.judges, q.asked = p.asked, q.failed \subseteq ToSet(p.judges)
    PROVE  Listed(q)
BY DEF Listed

AsleepAt(p, k) == [p EXCEPT !.pc = "sleeping", !.offset = k, !.waited = 0]

\* The fields of a probe that sleeps before a round.
LEMMA SleepFields ==
    ASSUME NEW p, p \in ProbeState, NEW k \in Nat, NEW q, q = AsleepAt(p, k)
    PROVE  /\ q \in ProbeState
           /\ q.pc = "sleeping" /\ q.kind = p.kind /\ q.judges = p.judges
           /\ q.failed = p.failed /\ q.offset = k /\ q.spent = p.spent
           /\ q.waited = 0 /\ q.asked = p.asked
BY DEF ProbeState, AsleepAt

\* The fields of a probe that gave up.
LEMMA StopFields ==
    ASSUME NEW p, p \in ProbeState, NEW q, q = GaveUp(p)
    PROVE  /\ q \in ProbeState
           /\ q.pc = "gave up" /\ q.judges = p.judges /\ q.failed = p.failed
           /\ q.spent = p.spent /\ q.asked = p.asked
BY DEF ProbeState, GaveUp

\* A probe stops with cause: without budget, or behind its last offset.
LEMMA StopStep ==
    ASSUME NEW p, Listed(p), Broke(p) \/ Counted(p, Total(p)), NEW q, q = GaveUp(p)
    PROVE  Running(q) /\ q.judges = p.judges /\ q.pc = "gave up"
<1>1. p \in ProbeState /\ p.failed \subseteq ToSet(p.judges)
  BY DEF Listed
<1>2. /\ q \in ProbeState
      /\ q.pc = "gave up" /\ q.judges = p.judges /\ q.failed = p.failed
      /\ q.spent = p.spent /\ q.asked = p.asked
  BY <1>1, StopFields
<1>3. Listed(q)
  BY <1>1, <1>2, Relisted
<1>4. Stopped(q)
  <2>1. CASE Broke(p)
    BY <1>2, <2>1 DEF Broke, Stopped
  <2>2. CASE Counted(p, Total(p))
    <3>1. \A j \in ToSet(p.judges) :
            p.asked[j] >= 1 /\ (j \in p.failed \/ p.asked[j] = MaxAttempts)
      BY <2>2, AllAsked
    <3> QED
      BY <1>2, <3>1 DEF Stopped
  <2> QED
    BY <2>1, <2>2
<1> QED
  BY <1>2, <1>3, <1>4 DEF Running

\* A probe sleeps before a round that is not its first, one delay per round.
LEMMA SleepStep ==
    ASSUME NEW p, Listed(p), NEW o \in Nat, NEW k \in Nat, o <= k, Late(p, o),
           NewRound(p, k), Counted(p, k), NEW q, q = AsleepAt(p, k)
    PROVE  Running(q) /\ q.judges = p.judges /\ q.pc = "sleeping"
<1> DEFINE n == Len(p.judges)
<1>1. /\ n \in Nat \ {0} /\ MaxAttempts \in Nat \ {0} /\ RetryDelay \in Nat
      /\ Budget \in Nat \ {0} /\ p.spent \in Nat
  BY Numbers
<1>2. p \in ProbeState /\ p.failed \subseteq ToSet(p.judges)
  BY DEF Listed
<1>3. /\ q \in ProbeState
      /\ q.pc = "sleeping" /\ q.kind = p.kind /\ q.judges = p.judges
      /\ q.failed = p.failed /\ q.offset = k /\ q.spent = p.spent
      /\ q.waited = 0 /\ q.asked = p.asked
  BY <1>2, SleepFields
<1>4. Listed(q)
  BY <1>2, <1>3, Relisted
<1>5. k > 0 /\ k < MaxAttempts * n /\ k % n = 0
  BY DEF NewRound, Total
<1> HIDE DEF n
<1>6. PICK r \in Nat : k = r * n
  <2>1. PICK r \in Nat : k = r * n + (k % n)
    BY <1>1, Division
  <2>2. k = r * n
    BY <1>1, <1>5, <2>1
  <2> QED
    BY <2>2
<1>7. r \in 1..(MaxAttempts - 1)
  <2>1. r # 0
    BY <1>1, <1>5, <1>6
  <2>2. r < MaxAttempts
    <3>1. r * n + 0 < MaxAttempts * n /\ 0 \in 0..(n - 1)
      BY <1>1, <1>5, <1>6
    <3> QED
      BY <1>1, <3>1, Below
  <2> QED
    BY <1>1, <2>1, <2>2
<1>8. p.spent <= Budget + (IF p.kind = "http" THEN RetryDelay * (r - 1) ELSE 0)
  <2>1. CASE p.spent <= Budget
    <3>1. RetryDelay * (r - 1) \in Nat
      BY <1>1, <1>7
    <3> QED
      BY <1>1, <2>1, <3>1
  <2>2. ASSUME p.kind = "http", NEW m \in Nat, m * n < o, p.spent <= Budget + RetryDelay * m
        PROVE  p.spent <= Budget + RetryDelay * (r - 1)
    <3>1. m < r
      <4>1. m * n + 0 < r * n /\ 0 \in 0..(n - 1)
        <5>1. m * n \in Nat /\ n - 1 \in Nat
          BY <1>1
        <5> QED
          BY <1>6, <2>2, <5>1
      <4> QED
        BY <1>1, <4>1, Below
    <3>2. m <= r - 1 /\ r - 1 \in Nat
      BY <1>7, <3>1
    <3>3. RetryDelay * m <= RetryDelay * (r - 1)
      BY <1>1, <3>2, Monotone
    <3>4. RetryDelay * m \in Nat /\ RetryDelay * (r - 1) \in Nat
      BY <1>1, <3>2
    <3> QED
      BY <1>1, <2>2, <3>3, <3>4
  <2> QED
    BY <2>1, <2>2 DEF Late, n
<1>9. Counted(q, q.offset)
  BY <1>3 DEF Counted
<1>10. Sleeping(q)
  <2>1. q.spent <= Budget + (IF q.kind = "http" THEN RetryDelay * (r - 1) ELSE 0) + q.waited
    <3>1. RetryDelay * (r - 1) \in Nat
      BY <1>1, <1>7
    <3> QED
      BY <1>1, <1>3, <1>8, <3>1
  <2> QED
    BY <1>1, <1>3, <1>6, <1>7, <1>9, <2>1 DEF Sleeping, n
<1> QED
  BY <1>3, <1>4, <1>10 DEF Running
\* The offsets at which the loop stops to look: where it goes is the least of them.
Stops(p, o) ==
    {Total(p)} \union
    {i \in o..(Total(p) - 1) : NewRound(p, i) \/ Breaks(p, i) \/ JudgeAt(p, i) \notin p.failed}

\* The least stop: every offset before it belongs to a judge that failed.
LEMMA NextStop ==
    ASSUME NEW p, Listed(p), NEW o \in Nat, o <= Total(p), NEW k, k = Min(Stops(p, o))
    PROVE  /\ k \in Nat /\ o <= k /\ k <= Total(p) /\ k \in Stops(p, o)
           /\ \A i \in o..(k - 1) : JudgeAt(p, i) \in p.failed
           /\ \A y \in Stops(p, o) : k <= y
<1>1. Total(p) \in Nat \ {0}
  BY Numbers
<1>2. Stops(p, o) \in SUBSET Nat /\ Stops(p, o) # {} /\ \A y \in Stops(p, o) : o <= y /\ y <= Total(p)
  BY <1>1 DEF Stops
<1>3. k \in Stops(p, o) /\ \A y \in Stops(p, o) : k <= y
  BY <1>2, MinFacts
<1>4. k \in Nat /\ o <= k /\ k <= Total(p)
  BY <1>2, <1>3
<1>5. ASSUME NEW i \in o..(k - 1)
      PROVE  JudgeAt(p, i) \in p.failed
  <2>1. i \in o..(Total(p) - 1) /\ ~(k <= i)
    BY <1>1, <1>4
  <2>2. i \notin Stops(p, o)
    BY <1>3, <2>1
  <2> QED
    BY <2>1, <2>2 DEF Stops
<1> QED
  BY <1>3, <1>4, <1>5

\* What the loop does at its next stop.
LEMMA OnwardCases ==
    ASSUME NEW p, NEW o, NEW k, k = Min(Stops(p, o)), NEW q, q = Onward(p, o)
    PROVE  q = IF NewRound(p, k) THEN AsleepAt(p, k)
               ELSE IF k = Total(p) \/ Breaks(p, k) THEN GaveUp(p)
               ELSE Asks(p, k)
BY DEF Onward, Stops, AsleepAt

\* From any offset the loop goes on to a state that keeps the count and the budget.
LEMMA Continue ==
    ASSUME NEW p, Listed(p), NEW o \in Nat, o <= Total(p), Counted(p, o), Late(p, o),
           NEW q, q = Onward(p, o)
    PROVE  Running(q) /\ q.judges = p.judges
<1>1. PICK k : k = Min(Stops(p, o))
  OBVIOUS
<1>2. /\ k \in Nat /\ o <= k /\ k <= Total(p) /\ k \in Stops(p, o)
      /\ \A i \in o..(k - 1) : JudgeAt(p, i) \in p.failed
  BY <1>1, NextStop
<1>3. Counted(p, k)
  BY <1>2, SkippingCounts
<1>4. q = IF NewRound(p, k) THEN AsleepAt(p, k)
          ELSE IF k = Total(p) \/ Breaks(p, k) THEN GaveUp(p)
          ELSE Asks(p, k)
  BY <1>1, OnwardCases
<1>5. CASE NewRound(p, k)
  BY <1>2, <1>3, <1>4, <1>5, SleepStep
<1>6. CASE ~NewRound(p, k) /\ (k = Total(p) \/ Breaks(p, k))
  <2>1. Broke(p) \/ Counted(p, Total(p))
    BY <1>3, <1>6 DEF Breaks
  <2>2. q = GaveUp(p)
    BY <1>4, <1>6
  <2> QED
    BY <2>1, <2>2, StopStep
<1>7. CASE ~NewRound(p, k) /\ k # Total(p) /\ ~Breaks(p, k)
  <2>1. k < Total(p)
    BY <1>2, <1>7, Numbers
  <2>2. JudgeAt(p, k) \notin p.failed
    BY <1>2, <1>7 DEF Stops
  <2>3. ~Broke(p)
    BY <1>7, <2>2 DEF Breaks
  <2>4. q = Asks(p, k)
    BY <1>4, <1>7
  <2> QED
    BY <1>2, <1>3, <2>1, <2>2, <2>3, <2>4, AskingStep
<1> QED
  BY <1>5, <1>6, <1>7

\* A probe that starts asks its first candidate.
LEMMA FirstAsk ==
    ASSUME NEW p, Listed(p), p.failed = {}, p.spent = 0, Counted(p, 0),
           NEW q, q = Onward(p, 0)
    PROVE  Running(q) /\ q.judges = p.judges /\ q.pc = "asking"
<1>1. PICK k : k = Min(Stops(p, 0))
  OBVIOUS
<1>2. Total(p) \in Nat \ {0} /\ Budget \in Nat \ {0}
  BY Numbers
<1>3. k \in Nat /\ \A y \in Stops(p, 0) : k <= y
  BY <1>1, <1>2, NextStop
<1>4. 0 \in Stops(p, 0)
  <2>1. 0 \in 0..(Total(p) - 1)
    BY <1>2
  <2> QED
    BY <2>1 DEF Stops
<1>5. k = 0
  BY <1>3, <1>4
<1>6. ~NewRound(p, 0) /\ 0 # Total(p) /\ ~Broke(p)
  BY <1>2 DEF NewRound, Broke
<1>7. q = Asks(p, 0)
  <2>1. ~Breaks(p, 0)
    BY <1>6 DEF Breaks
  <2>2. q = IF NewRound(p, k) THEN AsleepAt(p, k)
            ELSE IF k = Total(p) \/ Breaks(p, k) THEN GaveUp(p)
            ELSE Asks(p, k)
    BY <1>1, OnwardCases
  <2> QED
    BY <1>5, <1>6, <2>1, <2>2
<1>8. 0 < Total(p) /\ JudgeAt(p, 0) \notin p.failed
  BY <1>2
<1> QED
  BY <1>6, <1>7, <1>8, AskingStep
-----------------------------------------------------------------------------
(* The steps of one probe.                                                   *)

\* A probe whose request is under its limit has not overspent.
LEMMA AskingInBudget ==
    ASSUME NEW p, Listed(p), InTime(p)
    PROVE  p.spent <= Budget
BY Numbers DEF InTime

\* Unusable: on to the next offset, with the judge still in line.
LEMMA PassedOver ==
    ASSUME NEW p, Listed(p), Asking(p), NEW q, q = Onward(p, p.offset + 1)
    PROVE  Running(q) /\ q.judges = p.judges
<1>1. p.offset + 1 \in Nat /\ p.offset + 1 <= Total(p)
  BY Numbers DEF Asking
<1>2. Late(p, p.offset + 1) /\ Counted(p, p.offset + 1)
  BY AskingInBudget DEF Asking, Late
<1> QED
  BY <1>1, <1>2, Continue

\* Failed: the judge joins the local skip set; it was asked at least once.
Blamed(p) == [p EXCEPT !.failed = @ \union {Target(p)}]

\* The fields of a probe whose judge failed.
LEMMA BlamedFields ==
    ASSUME NEW p, p \in ProbeState, Target(p) \in Judges, NEW b, b = Blamed(p)
    PROVE  /\ b \in ProbeState
           /\ b.failed = p.failed \union {Target(p)} /\ b.judges = p.judges
           /\ b.asked = p.asked /\ b.offset = p.offset /\ b.spent = p.spent
BY DEF ProbeState, Blamed

\* From a failed judge the loop goes on to a good state.
LEMMA BlamedStep ==
    ASSUME NEW p, Listed(p), Asking(p), NEW q, q = Onward(Blamed(p), p.offset + 1)
    PROVE  Running(q) /\ q.judges = p.judges
<1> DEFINE n == Len(p.judges)
           o == p.offset
<1>1. /\ n \in Nat \ {0} /\ o \in Nat /\ o < Total(p) /\ Total(p) \in Nat
      /\ DOMAIN p.judges = 1..n
  BY Numbers DEF Asking
<1>2. PICK i0 \in 1..n, r0 \in Nat : o = r0 * n + (i0 - 1) /\ Target(p) = p.judges[i0]
  BY <1>1, PlaceInRound DEF Target
<1>3. p \in ProbeState /\ p.failed \subseteq ToSet(p.judges) /\ p.judges \in Seq(Judges)
  BY DEF Listed, ProbeState
<1>4. Target(p) \in ToSet(p.judges) /\ Target(p) \in Judges
  <2>1. p.judges[i0] \in Judges
    BY <1>3, ElementOfSeq
  <2> QED
    BY <1>2, <2>1, Numbers
<1>5. PICK b : b = Blamed(p)
  OBVIOUS
<1>6. /\ b \in ProbeState
      /\ b.failed = p.failed \union {Target(p)} /\ b.judges = p.judges
      /\ b.asked = p.asked /\ b.offset = p.offset /\ b.spent = p.spent
  BY <1>3, <1>4, <1>5, BlamedFields
<1>7. Listed(b)
  BY <1>3, <1>4, <1>6, Relisted
<1>8. p.asked[Target(p)] >= 1
  <2> DEFINE a == p.asked[p.judges[i0]]
  <2>1. a \in Nat /\ i0 \in Nat /\ r0 * n \in Nat
    BY <1>1, Numbers
  <2>2. Target(p) \notin p.failed => o + 1 <= a * n + (i0 - 1)
    BY <1>2 DEF Asking, Counted
  <2>3. Target(p) \in p.failed => a >= 1
    BY <1>2 DEF Asking, Counted
  <2>4. a = 0 => a * n = 0
    BY <1>1
  <2> HIDE DEF a, n, o
  <2>5. ASSUME a = 0 PROVE Target(p) \in p.failed
    BY <1>1, <1>2, <2>1, <2>2, <2>4, <2>5
  <2>6. a >= 1
    BY <2>1, <2>3, <2>5
  <2> QED
    BY <1>2, <2>6 DEF a
<1>9. Counted(b, o + 1)
  <2>1. Counted(p, o + 1)
    BY DEF Asking
  <2> HIDE DEF o
  <2> QED
    BY <1>6, <1>8, <2>1 DEF Counted
<1>10. Late(b, o + 1) /\ Total(b) = Total(p)
  BY <1>6, AskingInBudget DEF Asking, Late, Total
<1>11. o + 1 \in Nat /\ o + 1 <= Total(p)
  BY <1>1
<1> HIDE DEF o
<1>12. Running(q) /\ q.judges = b.judges
  <2>1. q = Onward(b, o + 1)
    BY <1>5 DEF o
  <2> QED
    BY <1>7, <1>9, <1>10, <1>11, <2>1, Continue
<1> QED
  BY <1>6, <1>12

\* Wakes: a tunnel looks at its budget first, an HTTP probe when the judge did not fail.
LEMMA WakingStep ==
    ASSUME NEW p, Listed(p), Sleeping(p), p.waited = RetryDelay, NEW q,
           q = IF Breaks(p, p.offset) THEN GaveUp(p)
               ELSE IF Target(p) \in p.failed THEN Onward(p, p.offset + 1)
               ELSE Asks(p, p.offset)
    PROVE  Running(q) /\ q.judges = p.judges
<1> DEFINE n == Len(p.judges)
           o == p.offset
<1>1. /\ n \in Nat \ {0} /\ o \in Nat /\ p.spent \in Nat /\ Budget \in Nat
      /\ MaxAttempts \in Nat \ {0} /\ RetryDelay \in Nat /\ Total(p) = MaxAttempts * n
  BY Numbers DEF Total
<1>2. PICK r \in 1..(MaxAttempts - 1) :
            /\ o = r * n
            /\ p.spent <= Budget + (IF p.kind = "http" THEN RetryDelay * (r - 1) ELSE 0) + RetryDelay
  BY DEF Sleeping
<1>3. Counted(p, o)
  BY DEF Sleeping
<1> HIDE DEF n, o
<1>4. o < Total(p)
  BY <1>1, <1>2
<1>5. CASE Breaks(p, o)
  BY <1>5, StopStep DEF Breaks, o
<1>6. CASE ~Breaks(p, o) /\ Target(p) \in p.failed
  <2>1. o + 1 \in Nat /\ o <= o + 1 /\ o + 1 <= Total(p) /\ Total(p) \in Nat
    BY <1>1, <1>4, Numbers
  <2>2. \A i \in o..(o + 1 - 1) : JudgeAt(p, i) \in p.failed
    <3>1. \A i \in o..(o + 1 - 1) : i = o
      BY <1>1
    <3>2. JudgeAt(p, o) \in p.failed
      BY <1>6 DEF Target, o
    <3> QED
      BY <3>1, <3>2
  <2>3. Counted(p, o + 1)
    BY <1>1, <1>3, <2>1, <2>2, SkippingCounts
  <2>4. Late(p, o + 1)
    <3>1. CASE p.kind # "http"
      BY <1>1, <1>6, <3>1 DEF Breaks, Broke, Late
    <3>2. CASE p.kind = "http"
      <4>1. r \in Nat /\ r * n < o + 1
        BY <1>1, <1>2
      <4>2. p.spent <= Budget + RetryDelay * r
        <5>1. RetryDelay * (r - 1) + RetryDelay = RetryDelay * r
          BY <1>1, <4>1
        <5>2. RetryDelay * (r - 1) \in Int /\ RetryDelay * r \in Int
          BY <1>1, <4>1
        <5> QED
          BY <1>1, <1>2, <3>2, <5>1, <5>2
      <4> QED
        BY <3>2, <4>1, <4>2 DEF Late, n
    <3> QED
      BY <3>1, <3>2
  <2>5. q = Onward(p, o + 1)
    BY <1>6 DEF o
  <2> QED
    BY <2>1, <2>3, <2>4, <2>5, Continue
<1>7. CASE ~Breaks(p, o) /\ Target(p) \notin p.failed
  <2>1. JudgeAt(p, o) \notin p.failed
    BY <1>7 DEF Target, o
  <2>2. ~Broke(p)
    BY <1>7, <2>1 DEF Breaks
  <2>3. q = Asks(p, o)
    BY <1>7 DEF o
  <2> QED
    BY <1>1, <1>3, <1>4, <2>1, <2>2, <2>3, AskingStep
<1> QED
  BY <1>5, <1>6, <1>7

\* Answered without the own address at hand: the probe waits for it under its deadline.
LEMMA VerifiedStep ==
    ASSUME NEW p, Listed(p), Asking(p), NEW q, q = Verified(p)
    PROVE  Running(q) /\ q.judges = p.judges /\ q.pc = "verified"
<1>1. p \in ProbeState /\ p.failed \subseteq ToSet(p.judges)
  BY DEF Listed
<1>2. /\ q \in ProbeState /\ q.pc = "verified" /\ q.judges = p.judges
      /\ q.failed = p.failed /\ q.asked = p.asked
      /\ q.spent = p.spent /\ q.waited = p.waited /\ q.limit = p.limit
  BY <1>1 DEF Verified, ProbeState
<1>3. Listed(q)
  BY <1>1, <1>2, Relisted
<1>4. InTime(q)
  BY <1>2 DEF Asking, InTime
<1> QED
  BY <1>2, <1>3, <1>4 DEF Running, Waiting

\* Tick: a timer that has not run out still holds.
LaterBy(p, waited, spent) == [p EXCEPT !.waited = waited, !.spent = spent]

\* The fields of a probe one tick later.
LEMMA AgedFields ==
    ASSUME NEW p, p \in ProbeState, NEW m \in Nat, NEW n \in Nat, NEW q, q = LaterBy(p, m, n)
    PROVE  /\ q \in ProbeState /\ q.pc = p.pc /\ q.kind = p.kind /\ q.judges = p.judges
           /\ q.failed = p.failed /\ q.asked = p.asked /\ q.offset = p.offset
           /\ q.limit = p.limit /\ q.spent = n /\ q.waited = m
BY DEF ProbeState, LaterBy

\* A tick keeps the state of a probe good.
LEMMA AgedStep ==
    ASSUME NEW p, Running(p), MayWait(p), NEW q, q = Aged(p)
    PROVE  Running(q) /\ q.judges = p.judges /\ q.pc = p.pc
<1>1. Listed(p) /\ p \in ProbeState /\ p.failed \subseteq ToSet(p.judges)
  BY DEF Running, Listed
<1>2. /\ p.waited \in Nat /\ p.limit \in Nat /\ p.spent \in Nat /\ Budget \in Nat
      /\ Timeout \in Nat /\ RetryDelay \in Nat /\ MaxAttempts \in Nat
  BY <1>1, Numbers
<1>3. p.pc \in {"asking", "verified", "sleeping", "gave up"}
  BY DEF Running, Asking, Waiting, Sleeping, Stopped
<1>4. PICK m \in Nat, n \in Nat : m = p.waited + 1 /\ n = p.spent + 1 /\ q = LaterBy(p, m, n)
  <2>1. p.pc # "idle"
    BY <1>3
  <2>2. q = [p EXCEPT !.waited = p.waited + 1, !.spent = p.spent + 1]
    BY <2>1 DEF Aged
  <2>3. q = LaterBy(p, p.waited + 1, p.spent + 1)
    BY <2>2 DEF LaterBy
  <2>4. p.waited + 1 \in Nat /\ p.spent + 1 \in Nat
    BY <1>2
  <2> QED
    BY <2>3, <2>4
<1>5. /\ q \in ProbeState /\ q.pc = p.pc /\ q.kind = p.kind /\ q.judges = p.judges
      /\ q.failed = p.failed /\ q.asked = p.asked /\ q.offset = p.offset
      /\ q.limit = p.limit /\ q.spent = p.spent + 1 /\ q.waited = p.waited + 1
  <2>1. /\ q \in ProbeState /\ q.pc = p.pc /\ q.kind = p.kind /\ q.judges = p.judges
        /\ q.failed = p.failed /\ q.asked = p.asked /\ q.offset = p.offset
        /\ q.limit = p.limit /\ q.spent = n /\ q.waited = m
    <3>1. p \in ProbeState /\ q = LaterBy(p, m, n)
      BY <1>1, <1>4
    <3> QED
      BY <3>1, AgedFields, SMTT(30)
  <2> QED
    BY <1>4, <2>1
<1>6. Listed(q)
  BY <1>1, <1>5, Relisted
<1>7. CASE p.pc = "asking"
  <2>1. Asking(p) /\ p.waited < p.limit
    BY <1>7 DEF Running, Asking, Waiting, Sleeping, Stopped, MayWait
  <2>2. InTime(q)
    BY <1>2, <1>5, <2>1 DEF Asking, InTime
  <2>3. Counted(q, q.offset + 1) /\ q.offset < Total(q)
    BY <1>5, <2>1 DEF Asking, Counted, Total
  <2> QED
    BY <1>5, <1>6, <1>7, <2>2, <2>3 DEF Running, Asking
<1>8. CASE p.pc = "verified"
  <2>1. InTime(p) /\ p.waited < p.limit
    BY <1>8 DEF Running, Asking, Waiting, Sleeping, Stopped, MayWait
  <2>2. InTime(q)
    BY <1>2, <1>5, <2>1 DEF InTime
  <2> QED
    BY <1>5, <1>6, <1>8, <2>2 DEF Running, Waiting
<1>9. CASE p.pc = "sleeping"
  <2>1. Sleeping(p) /\ p.waited < RetryDelay
    BY <1>9 DEF Running, Asking, Waiting, Sleeping, Stopped, MayWait
  <2>2. PICK r \in 1..(MaxAttempts - 1) :
            /\ p.offset = r * Len(p.judges)
            /\ p.spent <= Budget + (IF p.kind = "http" THEN RetryDelay * (r - 1) ELSE 0) + p.waited
    BY <2>1 DEF Sleeping
  <2>3. q.spent <= Budget + (IF q.kind = "http" THEN RetryDelay * (r - 1) ELSE 0) + q.waited
    <3> DEFINE late == IF p.kind = "http" THEN RetryDelay * (r - 1) ELSE 0
    <3>1. late \in Int /\ p.spent <= Budget + late + p.waited
      BY <1>2, <2>2
    <3> HIDE DEF late
    <3>2. p.spent + 1 <= Budget + late + (p.waited + 1)
      BY <1>2, <3>1
    <3> QED
      BY <1>5, <3>2 DEF late
  <2>4. q.waited <= RetryDelay /\ q.offset = r * Len(q.judges)
    BY <1>2, <1>5, <2>1, <2>2
  <2>5. Counted(q, q.offset)
    BY <1>5, <2>1 DEF Sleeping, Counted
  <2> QED
    BY <1>5, <1>6, <1>9, <2>3, <2>4, <2>5 DEF Running, Sleeping
<1>10. CASE p.pc = "gave up"
  BY <1>10 DEF MayWait
<1> QED
  BY <1>3, <1>5, <1>7, <1>8, <1>9, <1>10
-----------------------------------------------------------------------------
(* The invariant is inductive.                                               *)

\* The invariant holds before the preflight.
LEMMA InitInv == ProbesInit => IInv
<1> SUFFICES ASSUME ProbesInit PROVE IInv
  OBVIOUS
<1>1. pool = <<>> /\ pool \in Seq(Judges) /\ DOMAIN pool = {} /\ ToSet(pool) = {}
  <2>1. pool = <<>> /\ pool \in Seq(Judges)
    BY EmptySeq DEF ProbesInit
  <2>2. DOMAIN pool = {}
    BY <2>1
  <2> QED
    BY <2>1, <2>2 DEF ToSet
<1>2. PoolInv
  <2>1. IsInjective(pool)
    BY <1>1 DEF IsInjective
  <2>2. cursor \in 0..(CursorCycle - 1)
    BY ProbesAssumption DEF ProbesInit
  <2>3. cooling \in [Judges -> 0..Cooldown]
    BY ProbesAssumption DEF ProbesInit
  <2> QED
    BY <1>1, <2>1, <2>2, <2>3 DEF ProbesInit, PoolInv
<1>3. ProbesInv
  BY DEF ProbesInit, ProbesInv
<1>4. SoundInv
  BY ProbesAssumption DEF ProbesInit, SoundInv, Idle
<1> QED
  BY <1>2, <1>3, <1>4 DEF IInv

\* The preflight and the lookup of the own address leave the probes alone.
LEMMA ProbesStandStill ==
    ASSUME ProbesInv, SoundInv, UNCHANGED probe, ToSet(pool) \subseteq ToSet(pool')
    PROVE  ProbesInv' /\ SoundInv'
<1>1. probe' = [w \in Probers |-> probe'[w]] /\ probe' = probe
  BY DEF ProbesInv
<1>2. ASSUME NEW w \in Probers
      PROVE  \/ probe'[w] = Idle
             \/ Running(probe'[w]) /\ ToSet(probe'[w].judges) \subseteq ToSet(pool')
  BY <1>1 DEF ProbesInv
<1>3. ProbesInv'
  BY <1>1, <1>2 DEF ProbesInv, Running, Listed, Asking, Waiting, Sleeping, Stopped, Counted, InTime
<1>4. SoundInv'
  BY <1>1 DEF SoundInv
<1> QED
  BY <1>3, <1>4

\* A judge that passes the preflight joins the pool once.
LEMMA PassesStep ==
    ASSUME IInv, NEW j \in Judges, JudgePasses(j)
    PROVE  IInv'
<1>1. /\ pool \in Seq(Judges) /\ IsInjective(pool)
      /\ DOMAIN pool = 1..Len(pool) /\ Len(pool) \in Nat
      /\ j \notin ToSet(pool)
  BY LenProperties DEF IInv, PoolInv, JudgePasses
<1>2. /\ pool' \in Seq(Judges) /\ pool' # <<>> /\ Len(pool') = Len(pool) + 1
      /\ DOMAIN pool' = 1..Len(pool')
      /\ \A i \in 1..Len(pool) : pool'[i] = pool[i]
      /\ pool'[Len(pool) + 1] = j
  BY <1>1, AppendProperties, LenProperties DEF JudgePasses
<1>3. ToSet(pool') = ToSet(pool) \union {j}
  <2>1. ASSUME NEW x \in ToSet(pool')
        PROVE  x \in ToSet(pool) \union {j}
    BY <1>1, <1>2 DEF ToSet
  <2>2. ASSUME NEW x \in ToSet(pool)
        PROVE  x \in ToSet(pool')
    <3>1. PICK i \in 1..Len(pool) : x = pool[i]
      BY <1>1 DEF ToSet
    <3>2. i \in DOMAIN pool' /\ x = pool'[i]
      BY <1>1, <1>2, <3>1
    <3> QED
      BY <3>2 DEF ToSet
  <2>3. j \in ToSet(pool')
    <3>1. Len(pool) + 1 \in DOMAIN pool'
      BY <1>1, <1>2
    <3> QED
      BY <1>2, <3>1 DEF ToSet
  <2> QED
    BY <2>1, <2>2, <2>3
<1>4. IsInjective(pool')
  <2>1. SUFFICES ASSUME NEW a \in 1..Len(pool'), NEW b \in 1..Len(pool'), pool'[a] = pool'[b]
                 PROVE  a = b
    BY <1>2 DEF IsInjective
  <2>2. \A i \in 1..Len(pool) : pool[i] # j
    BY <1>1 DEF ToSet
  <2>3. a \in 1..Len(pool) \/ a = Len(pool) + 1
    BY <1>1, <1>2
  <2>4. b \in 1..Len(pool) \/ b = Len(pool) + 1
    BY <1>1, <1>2
  <2> QED
    BY <1>1, <1>2, <2>1, <2>2, <2>3, <2>4 DEF IsInjective
<1>5. \A i \in Judges : preflight'[i] = "asked" => i \notin ToSet(pool')
  <2>1. preflight' = [preflight EXCEPT ![j] = "passed"] /\ preflight \in [Judges -> {"asked", "passed", "dropped"}]
    BY DEF JudgePasses, IInv, PoolInv
  <2> QED
    BY <1>3, <2>1 DEF IInv, PoolInv
<1>6. PoolInv'
  BY <1>2, <1>4, <1>5 DEF IInv, PoolInv, JudgePasses, health
<1> QED
  BY <1>3, <1>6, ProbesStandStill DEF IInv, JudgePasses

\* The rest of the preflight and the own address keep the invariant.
LEMMA PreflightStep ==
    ASSUME IInv, (\E j \in Judges : JudgeDropped(j)) \/ Settles \/ OwnIpKnown
    PROVE  IInv'
<1>1. UNCHANGED <<pool, probe>>
  BY DEF JudgeDropped, Settles, Built, BuiltAgain, NotBuilt, OwnIpKnown, poolVars
<1>2. PoolInv'
  <2>1. CASE \E j \in Judges : JudgeDropped(j)
    BY <2>1 DEF IInv, PoolInv, JudgeDropped, health
  <2>2. CASE Built \/ NotBuilt
    BY <2>2 DEF IInv, PoolInv, Built, NotBuilt, health
  <2>3. CASE BuiltAgain
    <3>1. ToSet(pool) = {}
      BY <2>3 DEF BuiltAgain, AllDropped, ToSet
    <3>2. preflight' \in [Judges -> {"asked", "passed", "dropped"}]
      BY <2>3 DEF BuiltAgain
    <3> QED
      BY <1>1, <2>3, <3>1, <3>2 DEF IInv, PoolInv, BuiltAgain, health
  <2>4. CASE OwnIpKnown
    BY <2>4 DEF IInv, PoolInv, OwnIpKnown, poolVars, health
  <2> QED
    BY <2>1, <2>2, <2>3, <2>4 DEF Settles
<1>3. ToSet(pool) \subseteq ToSet(pool')
  BY <1>1
<1> QED
  BY <1>1, <1>2, <1>3, ProbesStandStill DEF IInv

\* A probe moves; the others and the pool stay.
LEMMA OneProbeMoves ==
    ASSUME IInv, NEW w \in Probers, NEW q, GoTo(w, q), UNCHANGED poolVars,
           q = Idle \/ (Running(q) /\ ToSet(q.judges) \subseteq ToSet(pool)),
           w \in Sound => q.pc \in {"idle", "asking", "verified"}
    PROVE  ProbesInv' /\ SoundInv'
<1>1. UNCHANGED pool
  BY DEF poolVars
<1>2. probe = [v \in Probers |-> probe[v]] /\ probe' = [probe EXCEPT ![w] = q]
  BY DEF IInv, ProbesInv, GoTo
<1>3. probe' = [v \in Probers |-> probe'[v]]
  BY <1>2
<1>4. \A v \in Probers : probe'[v] = IF v = w THEN q ELSE probe[v]
  BY <1>2
<1>5. ProbesInv'
  <2>1. ASSUME NEW v \in Probers
        PROVE  \/ probe'[v] = Idle
               \/ Running(probe'[v]) /\ ToSet(probe'[v].judges) \subseteq ToSet(pool)
    BY <1>4 DEF IInv, ProbesInv
  <2> QED
    BY <1>1, <1>3, <2>1 DEF ProbesInv, Running, Listed, Asking, Waiting, Sleeping, Stopped, Counted, InTime
<1>6. SoundInv'
  BY <1>4, ProbesAssumption DEF IInv, SoundInv
<1> QED
  BY <1>5, <1>6
\* While the pool holds a judge, a probe gets at least one candidate, and each once.
LEMMA CandidateFacts ==
    ASSUME IInv, build = "ready", NEW s \in Candidates
    PROVE  s \in Seq(Judges) /\ s # <<>> /\ IsInjective(s) /\ ToSet(s) \subseteq ToSet(pool)
<1> DEFINE C == Ready \union Fallback
           c == Cardinality(C)
<1>1. /\ pool \in Seq(Judges) /\ pool # <<>> /\ Len(pool) \in Nat \ {0}
      /\ DOMAIN pool = 1..Len(pool) /\ cursor \in Nat
  BY EmptySeq, LenProperties, ProbesAssumption DEF IInv, PoolInv
<1>2. ToSet(pool) \subseteq Judges
  BY <1>1, ElementOfSeq DEF ToSet
<1>3. pool[(cursor % Len(pool)) + 1] \in ToSet(pool)
  <2>1. (cursor % Len(pool)) + 1 \in 1..Len(pool)
    BY <1>1
  <2> QED
    BY <1>1, <2>1 DEF ToSet
<1>4. C \subseteq ToSet(pool) /\ C # {}
  BY <1>1, <1>3 DEF Ready, Fallback
<1>5. c \in Nat \ {0}
  <2>1. IsFiniteSet(C)
    BY <1>2, <1>4, FS_Subset, ProbesAssumption
  <2> QED
    BY <1>4, <2>1, FS_CardinalityType, FS_EmptySet
<1>6. s \in [1..c -> C] /\ \A i, j \in 1..c : i # j => s[i] # s[j]
  BY DEF Candidates, SetToSeqs
<1> HIDE DEF c, C
<1>7. s \in [1..c -> Judges] /\ DOMAIN s = 1..c
  BY <1>2, <1>4, <1>6
<1>8. s \in Seq(Judges)
  BY <1>5, <1>7, SeqDef
<1>9. s # <<>>
  <2>1. 1 \in DOMAIN s
    BY <1>5, <1>7
  <2>2. DOMAIN <<>> = {}
    OBVIOUS
  <2> QED
    BY <2>1, <2>2
<1>10. IsInjective(s)
  BY <1>6, <1>7 DEF IsInjective
<1>11. ToSet(s) \subseteq ToSet(pool)
  BY <1>4, <1>6, <1>7 DEF ToSet
<1> QED
  BY <1>8, <1>9, <1>10, <1>11

\* The state in which the attempt loop is entered.
Entered(kind, s) ==
    [pc |-> "start", kind |-> kind, judges |-> s, failed |-> {},
     offset |-> 0, spent |-> 0, waited |-> 0, limit |-> 0, asked |-> [j \in ToSet(s) |-> 0]]

\* A probe that enters the loop has asked nobody and spent nothing.
LEMMA EnteredFacts ==
    ASSUME NEW kind \in Kinds, NEW s \in Seq(Judges), s # <<>>, IsInjective(s),
           NEW p, p = Entered(kind, s)
    PROVE  /\ Listed(p) /\ p.failed = {} /\ p.spent = 0 /\ p.judges = s
           /\ Counted(p, 0)
<1>1. Len(s) \in Nat \ {0} /\ DOMAIN s = 1..Len(s)
  BY EmptySeq, LenProperties
<1>2. PICK t : t = [j \in ToSet(s) |-> 0]
  OBVIOUS
<1>3. t \in [ToSet(s) -> Nat] /\ t \in Tallies
  <2>1. ToSet(s) \subseteq Judges
    BY <1>1, ElementOfSeq DEF ToSet
  <2>2. t \in [ToSet(s) -> Nat]
    BY <1>2
  <2> QED
    BY <2>1, <2>2 DEF Tallies
<1>4. p = [pc |-> "start", kind |-> kind, judges |-> s, failed |-> {},
           offset |-> 0, spent |-> 0, waited |-> 0, limit |-> 0, asked |-> t]
  BY <1>2 DEF Entered
<1>5. p \in ProbeState
  BY <1>3, <1>4 DEF ProbeState
<1>6. p.failed = {} /\ p.spent = 0 /\ p.judges = s /\ p.asked = t
  BY <1>4
<1>7. Listed(p)
  BY <1>3, <1>5, <1>6 DEF Listed
<1>8. Counted(p, 0)
  <2>1. ASSUME NEW i \in 1..Len(s)
        PROVE  (0 - 1) * Len(s) + (i - 1) < 0 /\ 0 <= 0 * Len(s) + (i - 1)
    BY <1>1
  <2>2. \A i \in 1..Len(s) : p.asked[p.judges[i]] = 0
    BY <1>1, <1>2, <1>6 DEF ToSet
  <2> QED
    BY <1>6, <2>1, <2>2 DEF Counted
<1> QED
  BY <1>6, <1>7, <1>8

\* The start of a probe keeps the invariant.
LEMMA StartStep ==
    ASSUME IInv, NEW w \in Probers, NEW kind \in Kinds, Start(w, kind)
    PROVE  IInv'
<1>1. PICK s \in Candidates : GoTo(w, Onward(Entered(kind, s), 0))
  BY DEF Start, Entered
<1>2. build = "ready" /\ UNCHANGED <<poolVars, cooling>>
  BY DEF Start
<1>3. s \in Seq(Judges) /\ s # <<>> /\ IsInjective(s) /\ ToSet(s) \subseteq ToSet(pool)
  BY <1>2, CandidateFacts
<1>4. PICK p : p = Entered(kind, s)
  OBVIOUS
<1>5. PICK q : q = Onward(p, 0)
  OBVIOUS
<1>6. Listed(p) /\ p.failed = {} /\ p.spent = 0 /\ p.judges = s /\ Counted(p, 0)
  BY <1>3, <1>4, EnteredFacts
<1>7. Running(q) /\ q.judges = s /\ q.pc = "asking"
  BY <1>5, <1>6, FirstAsk
<1>8. ProbesInv' /\ SoundInv'
  <2>1. GoTo(w, q)
    BY <1>1, <1>4, <1>5
  <2> QED
    BY <1>2, <1>3, <1>7, <2>1, OneProbeMoves
<1>9. PoolInv'
  <2>1. cursor' \in 0..(CursorCycle - 1)
    <3>1. cursor \in 0..(CursorCycle - 1) /\ CursorCycle \in Nat \ {0}
      BY ProbesAssumption DEF IInv, PoolInv
    <3>2. cursor' = cursor \/ cursor' = (cursor + 1) % CursorCycle
      BY DEF Start
    <3> QED
      BY <3>1, <3>2
  <2> QED
    BY <1>2, <2>1 DEF IInv, PoolInv, poolVars
<1> QED
  BY <1>8, <1>9 DEF IInv

\* A step of one probe leaves the pool alone but for the cooldowns.
LEMMA PoolStaysSound ==
    ASSUME PoolInv, UNCHANGED <<poolVars, cursor>>, cooling' \in [Judges -> 0..Cooldown]
    PROVE  PoolInv'
BY DEF PoolInv, poolVars

\* Every step of a running probe keeps the invariant.
LEMMA ProbeStep ==
    ASSUME IInv, NEW w \in Probers, Step(w)
    PROVE  IInv'
<1>1. PICK p : p = probe[w]
  OBVIOUS
<1>2. p = Idle \/ (Running(p) /\ ToSet(p.judges) \subseteq ToSet(pool))
  BY <1>1 DEF IInv, ProbesInv
<1>3. p.pc # "idle" => Running(p) /\ Listed(p) /\ ToSet(p.judges) \subseteq ToSet(pool)
  BY <1>2 DEF Idle, Running
<1>4. w \in Sound => p.pc \in {"idle", "asking", "verified"}
  BY <1>1 DEF IInv, SoundInv
<1>5. cooling \in [Judges -> 0..Cooldown] /\ PoolInv
  BY DEF IInv, PoolInv
<1>6. Idle.pc = "idle"
  BY DEF Idle
<1>7. CASE Wakes(w)
  <2>1. PICK q : /\ GoTo(w, q)
                 /\ q = IF Breaks(p, p.offset) THEN GaveUp(p)
                        ELSE IF Target(p) \in p.failed THEN Onward(p, p.offset + 1)
                        ELSE Asks(p, p.offset)
    BY <1>1, <1>7 DEF Wakes
  <2>2. p.pc = "sleeping" /\ p.waited = RetryDelay /\ UNCHANGED <<poolVars, health>>
    BY <1>1, <1>7 DEF Wakes
  <2>3. Listed(p) /\ Sleeping(p) /\ ToSet(p.judges) \subseteq ToSet(pool)
    BY <1>3, <2>2 DEF Running, Asking, Waiting, Stopped
  <2>4. Running(q) /\ q.judges = p.judges
    BY <2>1, <2>2, <2>3, WakingStep
  <2>5. w \notin Sound
    BY <1>4, <2>2
  <2> QED
    BY <1>5, <2>1, <2>2, <2>3, <2>4, <2>5, OneProbeMoves, PoolStaysSound DEF IInv, health
<1>8. CASE Answered(w)
  <2>1. p.pc = "asking" /\ UNCHANGED <<poolVars, health>>
    BY <1>1, <1>8 DEF Answered
  <2>2. Listed(p) /\ Asking(p) /\ ToSet(p.judges) \subseteq ToSet(pool)
    BY <1>3, <2>1 DEF Running, Sleeping, Waiting, Stopped
  <2>3. PICK q : GoTo(w, q) /\ (q = Verified(p) \/ q = Idle)
    BY <1>1, <1>8 DEF Answered
  <2>4. q = Verified(p) => Running(q) /\ q.judges = p.judges /\ q.pc = "verified"
    BY <2>2, VerifiedStep
  <2>5. ProbesInv' /\ SoundInv'
    BY <1>6, <2>1, <2>2, <2>3, <2>4, OneProbeMoves
  <2> QED
    BY <1>5, <2>1, <2>5, PoolStaysSound DEF IInv, health
<1>9. CASE Classified(w) \/ Collected(w)
  <2>1. GoTo(w, Idle) /\ UNCHANGED <<poolVars, health>>
    BY <1>9 DEF Classified, Collected
  <2>2. ProbesInv' /\ SoundInv'
    BY <1>6, <2>1, OneProbeMoves
  <2> QED
    BY <1>5, <2>1, <2>2, PoolStaysSound DEF IInv, health
<1>10. CASE Failed(w)
  <2>1. /\ p.pc = "asking" /\ w \notin Sound /\ UNCHANGED <<poolVars, cursor>>
        /\ cooling' = [cooling EXCEPT ![Target(p)] = Cooldown]
    BY <1>1, <1>10 DEF Failed
  <2>2. Listed(p) /\ Asking(p) /\ ToSet(p.judges) \subseteq ToSet(pool)
    BY <1>3, <2>1 DEF Running, Sleeping, Waiting, Stopped
  <2>3. PICK q : GoTo(w, q) /\ q = Onward(Blamed(p), p.offset + 1)
    BY <1>1, <1>10 DEF Failed, Blamed
  <2>4. Running(q) /\ q.judges = p.judges
    BY <2>2, <2>3, BlamedStep
  <2>5. ProbesInv' /\ SoundInv'
    BY <2>1, <2>2, <2>3, <2>4, OneProbeMoves
  <2>6. cooling' \in [Judges -> 0..Cooldown]
    <3>1. Cooldown \in 0..Cooldown
      BY ProbesAssumption
    <3> QED
      BY <1>5, <2>1, <3>1
  <2> QED
    BY <1>5, <2>1, <2>5, <2>6, PoolStaysSound DEF IInv
<1>11. CASE Unusable(w)
  <2>1. p.pc = "asking" /\ w \notin Sound /\ UNCHANGED <<poolVars, health>>
    BY <1>1, <1>11 DEF Unusable
  <2>2. Listed(p) /\ Asking(p) /\ ToSet(p.judges) \subseteq ToSet(pool)
    BY <1>3, <2>1 DEF Running, Sleeping, Waiting, Stopped
  <2>3. PICK q : GoTo(w, q) /\ q = Onward(p, p.offset + 1)
    BY <1>1, <1>11 DEF Unusable
  <2>4. Running(q) /\ q.judges = p.judges
    BY <2>2, <2>3, PassedOver
  <2>5. ProbesInv' /\ SoundInv'
    BY <2>1, <2>2, <2>3, <2>4, OneProbeMoves
  <2> QED
    BY <1>5, <2>1, <2>5, PoolStaysSound DEF IInv, health
<1> QED
  BY <1>7, <1>8, <1>9, <1>10, <1>11 DEF Step

\* The passing of time keeps the invariant.
LEMMA TickStep ==
    ASSUME IInv, Tick
    PROVE  IInv'
<1>1. /\ UNCHANGED <<poolVars, cursor>> /\ UNCHANGED pool
      /\ probe' = [w \in Probers |-> Aged(probe[w])]
  BY DEF Tick, poolVars
<1>2. ASSUME NEW w \in Probers
      PROVE  /\ \/ probe'[w] = Idle
                \/ Running(probe'[w]) /\ ToSet(probe'[w].judges) \subseteq ToSet(pool)
             /\ w \in Sound => probe'[w].pc \in {"idle", "asking", "verified"}
  <2>1. PICK p, q : p = probe[w] /\ q = probe'[w] /\ q = Aged(p)
    BY <1>1
  <2>2. p = Idle \/ (Running(p) /\ ToSet(p.judges) \subseteq ToSet(pool))
    BY <2>1 DEF IInv, ProbesInv
  <2>3. (w \in Sound => p.pc \in {"idle", "asking", "verified"}) /\ MayWait(p)
    BY <2>1 DEF IInv, SoundInv, Tick
  <2>4. CASE p = Idle
    BY <2>1, <2>3, <2>4 DEF Aged, Idle
  <2>5. CASE Running(p) /\ ToSet(p.judges) \subseteq ToSet(pool)
    <3>1. Running(q) /\ q.judges = p.judges /\ q.pc = p.pc
      BY <2>1, <2>3, <2>5, AgedStep
    <3> QED
      BY <2>1, <2>3, <2>5, <3>1
  <2> QED
    BY <2>2, <2>4, <2>5
<1>3. ProbesInv'
  <2>1. probe' = [w \in Probers |-> probe'[w]]
    BY <1>1
  <2> QED
    BY <1>1, <1>2, <2>1
        DEF ProbesInv, Running, Listed, Asking, Waiting, Sleeping, Stopped, Counted, InTime
<1>4. SoundInv'
  BY <1>2, ProbesAssumption DEF SoundInv
<1>5. cooling' \in [Judges -> 0..Cooldown]
  <2>1. cooling \in [Judges -> 0..Cooldown] /\ Cooldown \in Nat
    BY ProbesAssumption DEF IInv, PoolInv
  <2>2. cooling' = [j \in Judges |-> IF cooling[j] = 0 THEN 0 ELSE cooling[j] - 1]
    BY DEF Tick
  <2>3. ASSUME NEW j \in Judges
        PROVE  (IF cooling[j] = 0 THEN 0 ELSE cooling[j] - 1) \in 0..Cooldown
    <3>1. cooling[j] \in 0..Cooldown
      BY <2>1
    <3> QED
      BY <2>1, <3>1
  <2> QED
    BY <2>2, <2>3
<1> QED
  BY <1>1, <1>3, <1>4, <1>5, PoolStaysSound DEF IInv

\* A probe that is not idle runs on candidates of the pool.
LEMMA ActiveProbe ==
    ASSUME IInv, NEW w \in Probers, NEW p, p = probe[w], p.pc # "idle"
    PROVE  Running(p) /\ Listed(p) /\ ToSet(p.judges) \subseteq ToSet(pool)
<1>1. p = Idle \/ (Running(p) /\ ToSet(p.judges) \subseteq ToSet(pool))
  BY DEF IInv, ProbesInv
<1>2. Idle.pc = "idle"
  BY DEF Idle
<1>3. Running(p) => Listed(p)
  BY DEF Running
<1> QED
  BY <1>1, <1>2, <1>3
-----------------------------------------------------------------------------
(* The theorems.                                                             *)

(* The invariant holds in every reachable state of preflight and probes: it  *)
(* counts for every judge the rounds in which it was asked, and bounds the   *)
(* time spent by the budget and the delays slept so far.                     *)
THEOREM ProbesInvariant == ProbesSpec => []IInv
<1>1. ProbesInit => IInv
  BY InitInv
<1>2. IInv /\ [ProbesNext]_probeVars => IInv'
  <2>1. SUFFICES ASSUME IInv, [ProbesNext]_probeVars PROVE IInv'
    OBVIOUS
  <2>2. CASE UNCHANGED probeVars
    <3>1. PoolInv'
      BY <2>1, <2>2 DEF IInv, PoolInv, probeVars, poolVars, health
    <3>2. UNCHANGED <<probe, pool>>
      BY <2>2 DEF probeVars, poolVars
    <3>3. ToSet(pool) \subseteq ToSet(pool')
      BY <3>2
    <3> QED
      BY <2>1, <3>1, <3>2, <3>3, ProbesStandStill DEF IInv
  <2>3. CASE \E j \in Judges : JudgePasses(j)
    BY <2>1, <2>3, PassesStep
  <2>4. CASE (\E j \in Judges : JudgeDropped(j)) \/ Settles \/ OwnIpKnown
    BY <2>1, <2>4, PreflightStep
  <2>5. CASE Tick
    BY <2>1, <2>5, TickStep
  <2>6. CASE \E w \in Probers : Step(w)
    BY <2>1, <2>6, ProbeStep
  <2>7. CASE \E w \in Probers : \E kind \in Kinds : Start(w, kind)
    BY <2>1, <2>7, StartStep
  <2> QED
    BY <2>1, <2>2, <2>3, <2>4, <2>5, <2>6, <2>7 DEF ProbesNext
<1> QED
  BY <1>1, <1>2, PTL DEF ProbesSpec

(* Every variable keeps its type; the candidates of a probe are judges of    *)
(* the pool, and its timer never runs past the deadline and the delay.       *)
THEOREM ProbesTypes == ProbesSpec => []ProbesTypeOK
<1>1. IInv => ProbesTypeOK
  <2>1. SUFFICES ASSUME IInv PROVE ProbesTypeOK
    OBVIOUS
  <2>2. ASSUME NEW w \in Probers, Probing(w)
        PROVE  /\ probe[w].judges \in Seq(ToSet(pool)) /\ probe[w].failed \subseteq ToSet(probe[w].judges)
               /\ probe[w].waited \in 0..(Timeout + RetryDelay)
    <3>1. PICK p : p = probe[w]
      OBVIOUS
    <3>2. p.pc \notin {"idle", "gave up"}
      BY <2>2, <3>1 DEF Probing
    <3>3. Running(p) /\ ToSet(p.judges) \subseteq ToSet(pool)
      BY <2>1, <3>1, <3>2, ActiveProbe
    <3>4. Listed(p) /\ p.judges \in Seq(Judges) /\ p.failed \subseteq ToSet(p.judges)
      BY <3>3 DEF Running, Listed, ProbeState
    <3>5. p.judges \in Seq(ToSet(pool))
      BY <3>3, <3>4, SeqOfMembers
    <3>6. p.waited \in 0..(Timeout + RetryDelay)
      <4>1. p.waited \in Nat /\ p.limit \in Nat /\ Timeout \in Nat /\ RetryDelay \in Nat
        BY <3>4, Numbers
      <4>2. (p.waited <= p.limit /\ p.limit <= Timeout) \/ p.waited <= RetryDelay
        BY <3>2, <3>3 DEF Running, Asking, Waiting, Sleeping, Stopped, InTime
      <4> QED
        BY <4>1, <4>2
    <3> QED
      BY <3>1, <3>4, <3>5, <3>6
  <2> QED
    BY <2>1, <2>2 DEF IInv, PoolInv, ProbesTypeOK
<1> QED
  BY <1>1, ProbesInvariant, PTL

(* A proxy that relays every judge in time passes, for any number of probes  *)
(* that park the judges it needs: the candidates always hold one to ask, and *)
(* the budget of a fresh probe is never spent (candidates, support_http).    *)
THEOREM SoundPasses == ProbesSpec => []SoundProxyPasses
<1>1. IInv => SoundProxyPasses
  BY DEF IInv, SoundInv, SoundProxyPasses
<1> QED
  BY <1>1, ProbesInvariant, PTL

(* A probe gives up only on a spent budget, or when each of its judges       *)
(* failed or was asked max_attempts times: no offset of the loop is lost.    *)
THEOREM StopsWithCause == ProbesSpec => []GivesUpWithCause
<1>1. IInv => GivesUpWithCause
  <2>1. SUFFICES ASSUME IInv, NEW w \in Probers, probe[w].pc = "gave up"
                 PROVE  Stopped(probe[w])
    BY DEF GivesUpWithCause, Stopped
  <2>2. PICK p : p = probe[w]
    OBVIOUS
  <2>3. Running(p)
    BY <2>1, <2>2, ActiveProbe
  <2> QED
    BY <2>1, <2>2, <2>3 DEF Running, Asking, Waiting, Sleeping
<1> QED
  BY <1>1, ProbesInvariant, PTL

(* A probe holds its worker for no longer than its budget and the delays     *)
(* between its rounds, whatever its proxy does.                              *)
THEOREM StaysInBudget == ProbesSpec => []EndsInBudget
<1>1. IInv => EndsInBudget
  <2>1. SUFFICES ASSUME IInv, NEW w \in Probers, Probing(w)
                 PROVE  probe[w].spent <= IF probe[w].pc # "sleeping" THEN Budget
                          ELSE Budget + RetryDelay * (IF probe[w].kind = "http" THEN MaxAttempts - 1 ELSE 1)
    BY DEF EndsInBudget
  <2>2. PICK p : p = probe[w]
    OBVIOUS
  <2>3. p.pc \notin {"idle", "gave up"}
    BY <2>1, <2>2 DEF Probing
  <2>4. Running(p) /\ Listed(p)
    BY <2>1, <2>2, <2>3, ActiveProbe
  <2>5. CASE p.pc # "sleeping"
    <3>1. InTime(p)
      BY <2>3, <2>4, <2>5 DEF Running, Asking, Waiting, Sleeping, Stopped
    <3> QED
      BY <2>2, <2>4, <2>5, <3>1, AskingInBudget
  <2>6. CASE p.pc = "sleeping"
    <3>1. Sleeping(p)
      BY <2>4, <2>6 DEF Running, Asking, Waiting, Stopped
    <3>2. /\ p.spent \in Nat /\ p.waited \in Nat /\ p.waited <= RetryDelay /\ RetryDelay \in Nat
          /\ Budget \in Nat /\ MaxAttempts \in Nat \ {0}
      BY <2>4, <3>1, Numbers DEF Sleeping
    <3>3. PICK r \in 1..(MaxAttempts - 1) :
            p.spent <= Budget + (IF p.kind = "http" THEN RetryDelay * (r - 1) ELSE 0) + p.waited
      BY <3>1 DEF Sleeping
    <3>4. CASE p.kind = "http"
      <4>1. RetryDelay * (r - 1) + RetryDelay = RetryDelay * r
        BY <3>2
      <4>2. RetryDelay * r <= RetryDelay * (MaxAttempts - 1)
        BY <3>2, Monotone
      <4>3. /\ RetryDelay * (r - 1) \in Int /\ RetryDelay * r \in Int
            /\ RetryDelay * (MaxAttempts - 1) \in Int
        BY <3>2
      <4>4. p.spent <= Budget + RetryDelay * (MaxAttempts - 1)
        BY <3>2, <3>3, <3>4, <4>1, <4>2, <4>3
      <4> QED
        BY <2>2, <2>6, <3>4, <4>4
    <3>5. CASE p.kind # "http"
      <4>1. p.spent <= Budget + RetryDelay * 1
        BY <3>2, <3>3, <3>5
      <4> QED
        BY <2>2, <2>6, <3>5, <4>1
    <3> QED
      BY <3>4, <3>5
  <2> QED
    BY <2>5, <2>6
<1> QED
  BY <1>1, ProbesInvariant, PTL
-----------------------------------------------------------------------------
(* DeadlinesFire without ENABLED: the step a probe takes when its timer has  *)
(* run out, written as the state it leads to.                                *)
NextOf(w) ==
    LET p == probe[w]
    IN  IF p.pc = "sleeping"
        THEN IF Breaks(p, p.offset) THEN GaveUp(p)
             ELSE IF Target(p) \in p.failed THEN Onward(p, p.offset + 1) ELSE Asks(p, p.offset)
        ELSE IF p.pc # "asking" THEN Idle
        ELSE IF w \in Sound THEN (IF NeedsOwnIp(p) /\ ~ownIp THEN Verified(p) ELSE Idle)
        ELSE Onward([p EXCEPT !.failed = @ \union {Target(p)}], p.offset + 1)
CoolingNext(w) ==
    IF probe[w].pc = "asking" /\ w \notin Sound
    THEN [cooling EXCEPT ![Target(probe[w])] = Cooldown] ELSE cooling

\* Where a probe can be held by its timer.
LEMMA TimerStates ==
    ASSUME IInv, NEW w \in Probers, NEW p, p = probe[w], ~MayWait(p)
    PROVE  \/ p.pc \in {"asking", "verified", "gave up"}
           \/ p.pc = "sleeping" /\ p.waited = RetryDelay
<1>1. p.pc # "idle"
  BY DEF MayWait
<1>2. Running(p) /\ Listed(p)
  BY <1>1, ActiveProbe
<1>3. p.waited \in Nat /\ RetryDelay \in Nat
  BY <1>2, Numbers DEF Listed, ProbeState
<1>4. p.pc \in {"asking", "verified", "gave up"} \/ (p.pc = "sleeping" /\ p.waited <= RetryDelay)
  BY <1>2 DEF Running, Asking, Waiting, Sleeping, Stopped
<1>5. p.pc = "sleeping" => ~(p.waited < RetryDelay)
  BY DEF MayWait
<1>6. p.waited <= RetryDelay /\ ~(p.waited < RetryDelay) => p.waited = RetryDelay
  BY <1>3
<1> QED
  BY <1>4, <1>5, <1>6

\* Wherever a timer of a probe holds time up, a step of that probe leads to NextOf: a request
\* whose deadline passed ends, a delay that is over is woken from, at any length of either.
THEOREM DeadlineServed ==
    ASSUME IInv, NEW w \in Probers, ~MayWait(probe[w]),
           probe' = [probe EXCEPT ![w] = NextOf(w)], cooling' = CoolingNext(w),
           UNCHANGED <<poolVars, cursor, ownIp>>
    PROVE  Step(w)
<1>1. PICK p : p = probe[w]
  OBVIOUS
<1>2. \/ p.pc = "asking" \/ p.pc = "verified" \/ p.pc = "gave up"
      \/ p.pc = "sleeping" /\ p.waited = RetryDelay
  BY <1>1, TimerStates
<1>3. CASE p.pc = "asking" /\ w \in Sound
  <2>1. NextOf(w) = IF NeedsOwnIp(p) /\ ~ownIp THEN Verified(p) ELSE Idle
    BY <1>1, <1>3 DEF NextOf
  <2>2. cooling' = cooling
    BY <1>1, <1>3 DEF CoolingNext
  <2>3. Answered(w)
    BY <1>1, <1>3, <2>1, <2>2 DEF Answered, GoTo, health
  <2> QED
    BY <2>3 DEF Step
<1>4. CASE p.pc = "asking" /\ w \notin Sound
  <2>1. NextOf(w) = Onward([p EXCEPT !.failed = @ \union {Target(p)}], p.offset + 1)
    BY <1>1, <1>4 DEF NextOf
  <2>2. cooling' = [cooling EXCEPT ![Target(p)] = Cooldown]
    BY <1>1, <1>4 DEF CoolingNext
  <2>3. Failed(w)
    BY <1>1, <1>4, <2>1, <2>2 DEF Failed, GoTo
  <2> QED
    BY <2>3 DEF Step
<1>5. CASE p.pc = "verified"
  <2>1. NextOf(w) = Idle /\ cooling' = cooling
    BY <1>1, <1>5 DEF NextOf, CoolingNext
  <2>2. Classified(w)
    BY <1>1, <1>5, <2>1 DEF Classified, GoTo, health
  <2> QED
    BY <2>2 DEF Step
<1>6. CASE p.pc = "gave up"
  <2>1. NextOf(w) = Idle /\ cooling' = cooling
    BY <1>1, <1>6 DEF NextOf, CoolingNext
  <2>2. Collected(w)
    BY <1>1, <1>6, <2>1 DEF Collected, GoTo, health
  <2> QED
    BY <2>2 DEF Step
<1>7. CASE p.pc = "sleeping" /\ p.waited = RetryDelay
  <2>1. NextOf(w) = IF Breaks(p, p.offset) THEN GaveUp(p)
                    ELSE IF Target(p) \in p.failed THEN Onward(p, p.offset + 1) ELSE Asks(p, p.offset)
    BY <1>1, <1>7 DEF NextOf
  <2>2. cooling' = cooling
    BY <1>1, <1>7 DEF CoolingNext
  <2>3. Wakes(w)
    BY <1>1, <1>7, <2>1, <2>2 DEF Wakes, GoTo, health
  <2> QED
    BY <2>3 DEF Step
<1> QED
  BY <1>2, <1>3, <1>4, <1>5, <1>6, <1>7
=============================================================================
