----------------------------- MODULE PoolLemmas -----------------------------
(***************************************************************************)
(* What the methods of the rotation pool do to its vector: the lemmas that  *)
(* the proofs about the endpoint and about the serve run both rest on.      *)
(***************************************************************************)
EXTENDS RotatorPool, SequenceTheorems, TLAPS

Distinct(es) == \A i, j \in 1..Len(es) : es[i].proxy = es[j].proxy => i = j
Backed(es, runs) == \A i \in 1..Len(es) : es[i].failures <= runs[es[i].proxy]

(* The length SubSeq gives for a vector without its last entry.             *)
LEMMA ShorterByOne ==
    \A n \in Nat : n >= 1 => (IF 1 <= n - 1 THEN (n - 1) - 1 + 1 ELSE 0) = n - 1
OBVIOUS

(* swap_remove shortens the pool by one, and every entry it leaves is an    *)
(* entry of the old pool that is not the removed one.                       *)
LEMMA SwapRemoveFacts ==
    ASSUME NEW S, NEW s \in Seq(S), NEW i \in 1..Len(s)
    PROVE  /\ SwapRemove(s, i) \in Seq(S)
           /\ Len(SwapRemove(s, i)) = Len(s) - 1
           /\ \A k \in 1..(Len(s) - 1) :
                SwapRemove(s, i)[k] = IF k = i THEN s[Len(s)] ELSE s[k]
<1> DEFINE t == [s EXCEPT ![i] = s[Len(s)]]
<1>1. Len(s) \in Nat /\ Len(s) >= 1
  BY LenProperties
<1>2. s[Len(s)] \in S
  BY <1>1, ElementOfSeq
<1>3. /\ t \in Seq(S)
      /\ Len(t) = Len(s)
      /\ \A j \in 1..Len(s) : t[j] = IF j = i THEN s[Len(s)] ELSE s[j]
  BY <1>2, ExceptSeq
<1>4. \A j \in 1..(Len(s) - 1) : t[j] \in S
  BY <1>1, <1>3, ElementOfSeq
<1>5. /\ SubSeq(t, 1, Len(s) - 1) \in Seq(S)
      /\ Len(SubSeq(t, 1, Len(s) - 1)) = Len(s) - 1
      /\ \A j \in 1..(Len(s) - 1) : SubSeq(t, 1, Len(s) - 1)[j] = t[j]
  <2> HIDE DEF t
  <2>1. /\ SubSeq(t, 1, Len(s) - 1) \in Seq(S)
        /\ Len(SubSeq(t, 1, Len(s) - 1)) =
                IF 1 <= Len(s) - 1 THEN (Len(s) - 1) - 1 + 1 ELSE 0
        /\ \A j \in 1..((Len(s) - 1) - 1 + 1) :
                SubSeq(t, 1, Len(s) - 1)[j] = t[1 + j - 1]
    BY <1>1, <1>4, SubSeqProperties
  <2>2. ASSUME NEW j \in 1..(Len(s) - 1)
        PROVE  SubSeq(t, 1, Len(s) - 1)[j] = t[j]
    <3>1. j \in 1..((Len(s) - 1) - 1 + 1) /\ 1 + j - 1 = j
      BY <1>1
    <3> QED
      BY <2>1, <3>1
  <2>3. Len(SubSeq(t, 1, Len(s) - 1)) = Len(s) - 1
    BY <1>1, <2>1, ShorterByOne
  <2> QED
    BY <2>1, <2>2, <2>3
<1> QED
  BY <1>1, <1>3, <1>5 DEF SwapRemove

(* The position of a member is a slot that holds it.                        *)
LEMMA PositionFacts ==
    ASSUME entries \in Seq(Entry), Distinct(entries), NEW p \in Members
    PROVE  /\ PositionOf(p) \in 1..Len(entries)
           /\ entries[PositionOf(p)].proxy = p
           /\ \A j \in 1..Len(entries) : entries[j].proxy = p => j = PositionOf(p)
<1>1. DOMAIN entries = 1..Len(entries)
  BY LenProperties
<1>2. PICK i \in 1..Len(entries) : entries[i].proxy = p
  BY <1>1 DEF Members
<1>3. \A j \in 1..Len(entries) : entries[j].proxy = p => j = i
  BY <1>1, <1>2 DEF Distinct
<1>4. /\ PositionOf(p) \in 1..Len(entries)
      /\ entries[PositionOf(p)].proxy = p
  <2>1. /\ i \in DOMAIN entries
        /\ \A j \in DOMAIN entries : entries[j].proxy = p => i <= j
    BY <1>1, <1>2, <1>3
  <2> QED
    BY <1>1, <1>2, <2>1 DEF PositionOf
<1> QED
  BY <1>3, <1>4
-----------------------------------------------------------------------------
(* The fields of an entry, for the provers that do not open records.        *)
LEMMA EntryFields ==
    ASSUME NEW e \in Entry
    PROVE  e.proxy \in Proxies /\ e.failures \in 0..(MaxFailures - 1) /\ e.cooling \in BOOLEAN
BY DEF Entry

(* report_success leaves an entry of the same proxy without failures.       *)
LEMMA ClearedEntry ==
    ASSUME NEW e \in Entry
    PROVE  LET d == [e EXCEPT !.failures = 0, !.cooling = FALSE]
           IN  d \in Entry /\ d.proxy = e.proxy /\ d.failures = 0
<1>1. 0 \in 0..(MaxFailures - 1)
  BY PoolAssumption
<1> QED
  BY <1>1 DEF Entry

(* Adding an unknown endpoint keeps the endpoints distinct.                 *)
LEMMA AppendSound ==
    ASSUME NEW es \in Seq(Entry), Distinct(es), NEW e \in Entry,
           \A i \in 1..Len(es) : es[i].proxy # e.proxy
    PROVE  Append(es, e) \in Seq(Entry) /\ Distinct(Append(es, e))
BY DEF Distinct

(* A new entry is charged with nothing, so its charge is backed.            *)
LEMMA AppendBacked ==
    ASSUME NEW es \in Seq(Entry), NEW runs \in [Proxies -> 0..MaxFailures], Backed(es, runs),
           NEW e \in Entry, e.failures = 0
    PROVE  Backed(Append(es, e), runs)
<1>1. runs[e.proxy] \in 0..MaxFailures
  BY EntryFields
<1> QED
  BY <1>1, PoolAssumption DEF Backed

(* Rewriting an entry in place keeps the endpoints distinct.                *)
LEMMA UpdateSound ==
    ASSUME NEW es \in Seq(Entry), Distinct(es), NEW i \in 1..Len(es), NEW e \in Entry,
           e.proxy = es[i].proxy
    PROVE  LET t == [es EXCEPT ![i] = e]
           IN  t \in Seq(Entry) /\ Len(t) = Len(es) /\ Distinct(t)
<1>1. /\ [es EXCEPT ![i] = e] \in Seq(Entry)
      /\ Len([es EXCEPT ![i] = e]) = Len(es)
      /\ \A j \in 1..Len(es) : [es EXCEPT ![i] = e][j] = IF j = i THEN e ELSE es[j]
  BY ExceptSeq
<1> QED
  BY <1>1 DEF Distinct

(* After the update of the only entry of a proxy, the charges are backed if *)
(* that entry is, and the history of the other proxies did not shrink.      *)
LEMMA UpdateBacked ==
    ASSUME NEW es \in Seq(Entry), Distinct(es), NEW i \in 1..Len(es), NEW e \in Entry,
           e.proxy = es[i].proxy, NEW runs, NEW runs2, Backed(es, runs),
           e.failures <= runs2[e.proxy],
           \A p \in Proxies : p # e.proxy => runs2[p] = runs[p]
    PROVE  Backed([es EXCEPT ![i] = e], runs2)
<1>1. /\ Len([es EXCEPT ![i] = e]) = Len(es)
      /\ \A j \in 1..Len(es) : [es EXCEPT ![i] = e][j] = IF j = i THEN e ELSE es[j]
  BY ExceptSeq
<1>2. ASSUME NEW j \in 1..Len(es), j # i
      PROVE  es[j].failures <= runs2[es[j].proxy]
  <2>1. es[j].proxy \in Proxies /\ es[j].proxy # e.proxy
    BY <1>2, ElementOfSeq, EntryFields DEF Distinct
  <2> QED
    BY <2>1 DEF Backed
<1> QED
  BY <1>1, <1>2 DEF Backed

(* swap_remove takes exactly the removed endpoint out of the pool.          *)
LEMMA RemoveSound ==
    ASSUME NEW es \in Seq(Entry), Distinct(es), NEW i \in 1..Len(es)
    PROVE  LET t == SwapRemove(es, i)
           IN  /\ t \in Seq(Entry) /\ Distinct(t) /\ Len(t) = Len(es) - 1
               /\ \A k \in 1..Len(t) :
                    /\ t[k].proxy # es[i].proxy
                    /\ \E j \in 1..Len(es) : t[k] = es[j]
               /\ \A j \in 1..Len(es) : j # i => \E k \in 1..Len(t) : t[k] = es[j]
<1> DEFINE t == SwapRemove(es, i)
<1>1. /\ t \in Seq(Entry)
      /\ Len(t) = Len(es) - 1
      /\ \A k \in 1..(Len(es) - 1) : t[k] = IF k = i THEN es[Len(es)] ELSE es[k]
  BY SwapRemoveFacts
<1>2. Len(es) \in Nat /\ Len(es) >= 1 /\ Len(es) \in 1..Len(es)
  BY LenProperties
<1> DEFINE Old(k) == IF k = i THEN Len(es) ELSE k
<1>3. \A k \in 1..(Len(es) - 1) : Old(k) \in 1..Len(es) /\ Old(k) # i /\ t[k] = es[Old(k)]
  BY <1>1, <1>2
<1>4. \A k, l \in 1..(Len(es) - 1) : Old(k) = Old(l) => k = l
  BY <1>2
<1>5. 1..Len(t) = 1..(Len(es) - 1)
  BY <1>1
<1> HIDE DEF t, Old
<1>6. Distinct(t)
  <2>1. ASSUME NEW k \in 1..Len(t), NEW l \in 1..Len(t), t[k].proxy = t[l].proxy
        PROVE  k = l
    <3>1. es[Old(k)].proxy = es[Old(l)].proxy
      BY <1>3, <1>5, <2>1
    <3>2. Old(k) = Old(l)
      BY <1>3, <1>5, <3>1 DEF Distinct
    <3> QED
      BY <1>4, <1>5, <3>2
  <2> QED
    BY <2>1 DEF Distinct
<1>7. \A k \in 1..Len(t) : t[k].proxy # es[i].proxy /\ \E j \in 1..Len(es) : t[k] = es[j]
  BY <1>3, <1>5 DEF Distinct
<1>8. ASSUME NEW j \in 1..Len(es), j # i
      PROVE  \E k \in 1..Len(t) : t[k] = es[j]
  <2>1. CASE j = Len(es)
    <3>1. i \in 1..(Len(es) - 1) /\ Old(i) = j
      BY <1>2, <1>8, <2>1 DEF Old
    <3> QED
      BY <1>3, <1>5, <3>1
  <2>2. CASE j # Len(es)
    <3>1. j \in 1..(Len(es) - 1) /\ Old(j) = j
      BY <1>2, <1>8, <2>2 DEF Old
    <3> QED
      BY <1>3, <1>5, <3>1
  <2> QED
    BY <2>1, <2>2
<1> QED
  BY <1>1, <1>6, <1>7, <1>8 DEF t
-----------------------------------------------------------------------------
(* Each method keeps the vector sound, and says how its length moves.       *)
Sound ==
    /\ entries \in Seq(Entry)
    /\ Distinct(entries)
    /\ Len(entries) <= MaxPoolSize

(* RotatorPool::add grows the vector by one entry or not at all.            *)
LEMMA AddGrowsByOne ==
    ASSUME Sound, NEW p \in Proxies, Add(p)
    PROVE  /\ Sound'
           /\ Len(entries') = Len(entries) \/ Len(entries') = Len(entries) + 1
<1>1. CASE Len(entries) >= MaxPoolSize \/ p \in Members
  BY <1>1 DEF Add, Sound
<1>2. CASE ~(Len(entries) >= MaxPoolSize \/ p \in Members)
  <2> DEFINE e == [proxy |-> p, failures |-> 0, cooling |-> FALSE]
  <2>1. e \in Entry /\ e.proxy = p
    BY PoolAssumption DEF Entry
  <2>2. entries' = Append(entries, e)
    BY <1>2 DEF Add
  <2>3. DOMAIN entries = 1..Len(entries) /\ Len(entries) \in Nat
    BY LenProperties DEF Sound
  <2>4. \A i \in 1..Len(entries) : entries[i].proxy # e.proxy
    BY <1>2, <2>1, <2>3 DEF Members
  <2>5. Len(Append(entries, e)) = Len(entries) + 1
    BY <2>1 DEF Sound
  <2>6. Len(Append(entries, e)) <= MaxPoolSize
    BY <1>2, <2>3, <2>5, PoolAssumption
  <2> HIDE DEF e
  <2> QED
    BY <2>1, <2>2, <2>4, <2>5, <2>6, AppendSound DEF Sound
<1> QED
  BY <1>1, <1>2

(* What the three methods that rewrite one entry have in common.            *)
LEMMA RewriteKeepsSound ==
    ASSUME Sound, NEW i \in 1..Len(entries), NEW e \in Entry, e.proxy = entries[i].proxy,
           entries' = [entries EXCEPT ![i] = e]
    PROVE  Sound' /\ Len(entries') = Len(entries)
BY UpdateSound DEF Sound

(* The end of a cooldown leaves the length as it is.                        *)
LEMMA CooldownKeepsSound ==
    ASSUME Sound, NEW i \in DOMAIN entries, CooldownEnds(i)
    PROVE  Sound' /\ Len(entries') = Len(entries)
<1> DEFINE e == [entries[i] EXCEPT !.cooling = FALSE]
<1>1. i \in 1..Len(entries) /\ entries[i] \in Entry
  BY LenProperties, ElementOfSeq DEF Sound
<1>2. e \in Entry /\ e.proxy = entries[i].proxy
  BY <1>1 DEF Entry
<1>3. entries' = [entries EXCEPT ![i] = e]
  BY DEF CooldownEnds
<1> HIDE DEF e
<1> QED
  BY <1>1, <1>2, <1>3, RewriteKeepsSound

(* RotatorPool::report_success leaves the length as it is.                  *)
LEMMA SuccessKeepsSound ==
    ASSUME Sound, NEW p \in Members, ReportSuccess(p)
    PROVE  Sound' /\ Len(entries') = Len(entries)
<1> DEFINE i == PositionOf(p)
           e == [entries[i] EXCEPT !.failures = 0, !.cooling = FALSE]
<1>1. i \in 1..Len(entries)
  BY PositionFacts DEF Sound
<1>2. entries[i] \in Entry
  BY <1>1, ElementOfSeq DEF Sound
<1>3. e \in Entry /\ e.proxy = entries[i].proxy
  BY <1>2, ClearedEntry
<1>4. entries' = [entries EXCEPT ![i] = e]
  BY DEF ReportSuccess
<1> HIDE DEF e, i
<1> QED
  BY <1>1, <1>3, <1>4, RewriteKeepsSound

(* RotatorPool::report_failure never makes the vector longer.               *)
LEMMA FailureKeepsSound ==
    ASSUME Sound, NEW p \in Members, ReportFailure(p)
    PROVE  Sound' /\ Len(entries') <= Len(entries)
<1> DEFINE i == PositionOf(p)
           f == entries[i].failures + 1
<1>1. i \in 1..Len(entries) /\ Len(entries) \in Nat
  BY PositionFacts, LenProperties DEF Sound
<1>2. entries[i] \in Entry
  BY <1>1, ElementOfSeq DEF Sound
<1>3. CASE f >= MaxFailures
  <2>1. entries' = SwapRemove(entries, i)
    BY <1>3 DEF ReportFailure
  <2> HIDE DEF i
  <2>2. entries' \in Seq(Entry) /\ Distinct(entries') /\ Len(entries') = Len(entries) - 1
    BY <1>1, <2>1, RemoveSound DEF Sound
  <2> QED
    BY <1>1, <2>2, PoolAssumption DEF Sound
<1>4. CASE ~(f >= MaxFailures)
  <2> DEFINE e == [entries[i] EXCEPT !.failures = f, !.cooling = TRUE]
  <2>1. entries' = [entries EXCEPT ![i] = e]
    BY <1>4 DEF ReportFailure
  <2>2. f \in 0..(MaxFailures - 1)
    BY <1>2, <1>4, EntryFields, PoolAssumption
  <2>3. e \in Entry /\ e.proxy = entries[i].proxy
    BY <1>2, <2>2 DEF Entry
  <2> HIDE DEF e, i, f
  <2>4. Sound' /\ Len(entries') = Len(entries)
    BY <1>1, <2>1, <2>3, RewriteKeepsSound
  <2> QED
    BY <1>1, <2>4
<1> QED
  BY <1>3, <1>4
=============================================================================
