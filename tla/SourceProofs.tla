---------------------------- MODULE SourceProofs ----------------------------
(***************************************************************************)
(* The safety of what `flx` reads its proxies from and keeps on disk: the  *)
(* fetch that fills the table, the score files of the judges, the          *)
(* downloads of the geo databases and the cache of parsed lists. For every *)
(* number of sources, processes, recorders and storers, every list and     *)
(* every bound.                                                            *)
(*                                                                         *)
(* Each part has the inductive invariant of its module; the parts share    *)
(* nothing but the lemmas on the elements of a sequence.                   *)
(***************************************************************************)
EXTENDS Fetcher, Health, GeoSync, ParseCache,
        SequenceTheorems, FiniteSetTheorems, WellFoundedInduction, TLAPS

(***************************************************************************)
(* The fetch (module Fetcher).                                             *)
(***************************************************************************)
\* The rows that have left their source: in the channel, taken ahead, or in the table's history.
InHand == ToSet(chan) \cup ToSet(prefetched) \cup ToSet(inserted)

\* The table is a ring of distinct rows that have all been inserted, never above its capacity.
RingInv ==
    /\ seen = ToSet(order) /\ IsInjective(order)
    /\ IsFiniteSet(seen) /\ Cardinality(seen) <= DedupCapacity
    /\ seen \subseteq ToSet(inserted)

\* A parser runs for a task that waits for it or was aborted; a list to be stored is whole.
StageInv ==
    \A s \in Sources :
        /\ tries[s] = 0 => task[s] = "failed"
        /\ parser[s] <= Len(Rows(s)) + 1
        /\ parser[s] > 0 => task[s] \in {"parsing", "aborted"}
        /\ task[s] = "parsing" => parser[s] > 0
        /\ task[s] = "storing" => parsed[s] = Len(Rows(s))
        /\ task[s] \in {"unborn", "spawned", "loading"} => sent[s] = 1
        /\ task[s] = "replaying" => cache[Source[s].url] = Rows(s)

\* What a source has sent is in hand, and an undisturbed source that is done has sent all of it.
FlowInv ==
    open => \A s \in Sources :
        /\ \A i \in 1..Len(Rows(s)) : i < parser[s] => Rows(s)[i] \in InHand
        /\ task[s] = "replaying" => \A i \in 1..Len(Rows(s)) : i < sent[s] => Rows(s)[i] \in InHand
        /\ task[s] = "storing" \/ (task[s] = "done" /\ ~cut) => ToSet(Rows(s)) \subseteq InHand

\* The coordinator ends without the fallback only on the threshold, unless it was cancelled.
PhaseInv ==
    /\ stop => Enough
    /\ coord \in {"both", "fallback"} => \A s \in Sources : task[s] # "unborn"
    /\ coord = "ended" /\ (open \/ ended) => Enough \/ \A s \in Sources : task[s] # "unborn"
    /\ coord = "cancelled" => ~open

\* After the end of the stream nothing moves.
EndInv ==
    ended => /\ coord = "ended" /\ ~Alive(Sources) /\ Parsing = {}
             /\ chan = <<>> /\ prefetched = <<>>

\* The inductive invariant.
FetchInv ==
    FetchTypeOK /\ RingInv /\ StageInv /\ CachedMeansComplete /\ FlowInv /\ PhaseInv /\ EndInv /\ NothingLost
-----------------------------------------------------------------------------
(* Sets of the elements of a sequence.                                       *)

\* The empty sequence has no element,
LEMMA EmptyToSet == ToSet(<<>>) = {}
BY EmptySeq DEF ToSet

\* a sequence of one has that one,
LEMMA SingleToSet == \A x : ToSet(<<x>>) = {x}
BY DEF ToSet

\* Append adds its argument,
LEMMA AppendToSet ==
    ASSUME NEW S, NEW q \in Seq(S), NEW x \in S
    PROVE  ToSet(Append(q, x)) = ToSet(q) \cup {x}
<1>1. /\ DOMAIN Append(q, x) = 1..(Len(q) + 1) /\ DOMAIN q = 1..Len(q) /\ Len(q) \in Nat
      /\ \A i \in 1..Len(q) : Append(q, x)[i] = q[i]
      /\ Append(q, x)[Len(q) + 1] = x
  BY AppendProperties, LenProperties
<1>2. 1..(Len(q) + 1) = (1..Len(q)) \cup {Len(q) + 1}
  BY <1>1
<1> QED
  BY <1>1, <1>2 DEF ToSet

\* A new element keeps the elements distinct.
LEMMA InjectiveAppend ==
    ASSUME NEW S, NEW q \in Seq(S), NEW x \in S, IsInjective(q), x \notin ToSet(q)
    PROVE  IsInjective(Append(q, x))
<1>1. /\ DOMAIN Append(q, x) = 1..(Len(q) + 1) /\ DOMAIN q = 1..Len(q) /\ Len(q) \in Nat
      /\ \A i \in 1..Len(q) : Append(q, x)[i] = q[i]
      /\ Append(q, x)[Len(q) + 1] = x
  BY AppendProperties, LenProperties
<1>2. SUFFICES ASSUME NEW i \in 1..(Len(q) + 1), NEW j \in 1..(Len(q) + 1),
                      Append(q, x)[i] = Append(q, x)[j]
               PROVE  i = j
  BY <1>1 DEF IsInjective
<1>3. \A k \in 1..Len(q) : q[k] # x
  BY <1>1 DEF ToSet
<1>4. \A k \in 1..(Len(q) + 1) : k \in 1..Len(q) \/ k = Len(q) + 1
  BY <1>1
<1> QED
  BY <1>1, <1>2, <1>3, <1>4 DEF IsInjective

\* the head and the elements of the tail are all there are,
LEMMA HeadTailToSet ==
    ASSUME NEW S, NEW q \in Seq(S), q # <<>>
    PROVE  ToSet(q) = {Head(q)} \cup ToSet(Tail(q))
<1>1. /\ DOMAIN q = 1..Len(q) /\ Len(q) \in Nat \ {0} /\ Head(q) = q[1]
      /\ DOMAIN Tail(q) = 1..(Len(q) - 1)
      /\ \A i \in 1..(Len(q) - 1) : Tail(q)[i] = q[i + 1]
  BY HeadTailProperties, LenProperties, EmptySeq
<1>2. \A i \in 1..Len(q) : i = 1 \/ i - 1 \in 1..(Len(q) - 1)
  BY <1>1
<1>3. \A i \in 1..Len(q) : q[i] = Head(q) \/ q[i] \in ToSet(Tail(q))
  <2> TAKE i \in 1..Len(q)
  <2>1. CASE i = 1
    BY <1>1, <2>1
  <2>2. CASE i - 1 \in 1..(Len(q) - 1)
    <3>1. Tail(q)[i - 1] = q[i]
      BY <1>1, <2>2
    <3> QED
      BY <1>1, <2>2, <3>1 DEF ToSet
  <2> QED
    BY <1>2, <2>1, <2>2
<1>4. \A i \in 1..(Len(q) - 1) : i + 1 \in 1..Len(q)
  BY <1>1
<1> QED
  BY <1>1, <1>3, <1>4 DEF ToSet

\* and the elements are of the type of the sequence.
LEMMA TypedToSet ==
    ASSUME NEW S, NEW q \in Seq(S)
    PROVE  ToSet(q) \subseteq S
BY DEF ToSet

\* What FetcherAssumption says of one source.
LEMMA SourceFacts ==
    ASSUME NEW s \in Sources
    PROVE  /\ Rows(s) \in Seq(AllRows) /\ Len(Rows(s)) \in Nat
           /\ \A i \in 1..Len(Rows(s)) : Rows(s)[i] \in AllRows
           /\ Source[s].url \in Urls
           /\ \A t \in Sources : Source[s].url = Source[t].url => Rows(s) = Rows(t)
BY FetcherAssumption DEF Urls
\* What is left of distinct elements is distinct, and from the first.
LEMMA InjectiveTail ==
    ASSUME NEW S, NEW q \in Seq(S), q # <<>>, IsInjective(q)
    PROVE  IsInjective(Tail(q)) /\ Head(q) \notin ToSet(Tail(q))
<1>1. /\ DOMAIN q = 1..Len(q) /\ Len(q) \in Nat \ {0} /\ Head(q) = q[1]
      /\ DOMAIN Tail(q) = 1..(Len(q) - 1)
      /\ \A i \in 1..(Len(q) - 1) : Tail(q)[i] = q[i + 1]
  BY HeadTailProperties, LenProperties, EmptySeq
<1>2. \A i, j \in 1..Len(q) : q[i] = q[j] => i = j
  BY <1>1 DEF IsInjective
<1>3. \A i \in 1..(Len(q) - 1) : i + 1 \in 1..Len(q) /\ i + 1 # 1
  BY <1>1
<1>4. \A i, j \in 1..(Len(q) - 1) : Tail(q)[i] = Tail(q)[j] => i = j
  BY <1>1, <1>2, <1>3
<1>5. \A i \in 1..(Len(q) - 1) : Tail(q)[i] # Head(q)
  BY <1>1, <1>2, <1>3
<1> QED
  BY <1>1, <1>4, <1>5 DEF IsInjective, ToSet
-----------------------------------------------------------------------------
(* The table of the newest endpoints.                                        *)

\* DedupTable::insert keeps the ring.
LEMMA RememberKeepsRing ==
    ASSUME FetchTypeOK, RingInv, NEW row \in AllRows, row \notin seen, Remember(row)
    PROVE  /\ RingInv' /\ seen' \subseteq AllRows /\ order' \in Seq(AllRows)
           /\ inserted' \in Seq(AllRows) /\ ToSet(inserted') = ToSet(inserted) \cup {row}
<1>1. /\ order \in Seq(AllRows) /\ inserted \in Seq(AllRows) /\ seen \subseteq AllRows
      /\ seen = ToSet(order) /\ IsInjective(order) /\ IsFiniteSet(seen)
      /\ Cardinality(seen) <= DedupCapacity /\ seen \subseteq ToSet(inserted)
  BY DEF FetchTypeOK, RingInv
<1>2. inserted' = Append(inserted, row)
  BY DEF Remember
<1>3. inserted' \in Seq(AllRows) /\ ToSet(inserted') = ToSet(inserted) \cup {row}
  BY <1>1, <1>2, AppendToSet
<1>4. Cardinality(seen) \in Nat /\ DedupCapacity \in Nat \ {0}
  BY <1>1, FS_CardinalityType, FetcherAssumption
<1>5. CASE Cardinality(seen) = DedupCapacity
  <2>1. seen' = (seen \ {Head(order)}) \cup {row} /\ order' = Append(Tail(order), row)
    BY <1>5 DEF Remember
  <2>2. order # <<>>
    BY <1>1, <1>4, <1>5, EmptyToSet, FS_EmptySet
  <2>3. /\ Tail(order) \in Seq(AllRows) /\ Head(order) \in AllRows
        /\ ToSet(order) = {Head(order)} \cup ToSet(Tail(order))
    BY <1>1, <2>2, HeadTailProperties, HeadTailToSet
  <2>4. IsInjective(Tail(order)) /\ Head(order) \notin ToSet(Tail(order))
    BY <1>1, <2>2, InjectiveTail
  <2>5. seen \ {Head(order)} = ToSet(Tail(order))
    BY <1>1, <2>3, <2>4
  <2>6. /\ IsFiniteSet(seen \ {Head(order)})
        /\ Cardinality(seen \ {Head(order)}) = Cardinality(seen) - 1
    BY <1>1, <2>3, FS_RemoveElement
  <2>7. /\ IsFiniteSet(seen')
        /\ Cardinality(seen') = Cardinality(seen \ {Head(order)}) + 1
    BY <2>1, <2>6, FS_AddElement
  <2>8. order' \in Seq(AllRows) /\ ToSet(order') = seen'
    <3> DEFINE rest == Tail(order)
    <3>1. rest \in Seq(AllRows)
      BY <2>3
    <3> HIDE DEF rest
    <3>2. ToSet(Append(rest, row)) = ToSet(rest) \cup {row} /\ Append(rest, row) \in Seq(AllRows)
      BY <3>1, AppendToSet, AppendProperties
    <3> QED
      BY <2>1, <2>5, <3>2 DEF rest
  <2>9. IsInjective(order')
    <3>1. row \notin ToSet(Tail(order))
      BY <2>5
    <3>2. IsInjective(Append(Tail(order), row))
      BY <2>3, <2>4, <3>1, InjectiveAppend
    <3> QED
      BY <2>1, <3>2
  <2> QED
    BY <1>1, <1>3, <1>4, <2>1, <2>3, <2>6, <2>7, <2>8, <2>9 DEF RingInv
<1>6. CASE Cardinality(seen) # DedupCapacity
  <2>1. seen' = seen \cup {row} /\ order' = Append(order, row)
    BY <1>6 DEF Remember
  <2>2. IsFiniteSet(seen') /\ Cardinality(seen') = Cardinality(seen) + 1
    BY <1>1, <2>1, FS_AddElement
  <2>3. order' \in Seq(AllRows) /\ ToSet(order') = seen'
    BY <1>1, <2>1, AppendToSet
  <2>4. IsInjective(order')
    BY <1>1, <2>1, InjectiveAppend
  <2> QED
    BY <1>1, <1>3, <1>4, <1>6, <2>1, <2>2, <2>3, <2>4 DEF RingInv
<1> QED
  BY <1>5, <1>6
-----------------------------------------------------------------------------
(* The tasks.                                                                *)

\* The stages of a task that moves.
LEMMA MovesFacts ==
    ASSUME NEW s \in Sources, NEW from, NEW to, FetchTypeOK, Moves(s, from, to)
    PROVE  /\ task[s] = from /\ task'[s] = to
           /\ \A t \in Sources : t # s => task'[t] = task[t]
           /\ to \in Stages => task' \in [Sources -> Stages]
BY DEF Moves, FetchTypeOK

\* A step that only moves a task, and may note that it was cut short.
LEMMA OnlyTaskKeeps ==
    ASSUME FetchInv, NEW s \in Sources, NEW from, NEW to \in Stages \ {"unborn", "storing", "parsing", "failed"},
           Moves(s, from, to), OnlyTask, cut' \in BOOLEAN, cut => cut',
           from \notin Resting \cup {"parsing"},
           to \in {"spawned", "loading"} => sent[s] = 1,
           to = "replaying" => cache[Source[s].url] = Rows(s) /\ sent[s] = 1,
           to = "done" => cut'
    PROVE  FetchInv'
<1>1. /\ task[s] = from /\ task'[s] = to
      /\ \A t \in Sources : t # s => task'[t] = task[t]
      /\ task' \in [Sources -> Stages]
  BY MovesFacts DEF FetchInv
<1>2. UNCHANGED <<tries, parser, parsed, sent, cache, chan, open, readVars, coord, offline>>
  BY DEF OnlyTask
<1>3. FetchTypeOK'
  BY <1>1, <1>2 DEF FetchInv, FetchTypeOK, readVars
<1>4. RingInv' /\ CachedMeansComplete'
  BY <1>2 DEF FetchInv, RingInv, CachedMeansComplete, readVars
<1>5. StageInv'
  BY <1>1, <1>2, SMTT(30) DEF FetchInv, StageInv, FetchTypeOK, Resting
<1>6. InHand' = InHand
  BY <1>2 DEF InHand, readVars
<1>7. FlowInv'
  <2> SUFFICES ASSUME open', NEW t \in Sources
               PROVE  /\ \A i \in 1..Len(Rows(t)) : i < parser'[t] => Rows(t)[i] \in InHand'
                      /\ task'[t] = "replaying" =>
                            \A i \in 1..Len(Rows(t)) : i < sent'[t] => Rows(t)[i] \in InHand'
                      /\ task'[t] = "storing" \/ (task'[t] = "done" /\ ~cut')
                            => ToSet(Rows(t)) \subseteq InHand'
    BY DEF FlowInv
  <2>1. /\ \A i \in 1..Len(Rows(t)) : i < parser[t] => Rows(t)[i] \in InHand
        /\ task[t] = "replaying" => \A i \in 1..Len(Rows(t)) : i < sent[t] => Rows(t)[i] \in InHand
        /\ task[t] = "storing" \/ (task[t] = "done" /\ ~cut) => ToSet(Rows(t)) \subseteq InHand
    BY <1>2 DEF FetchInv, FlowInv
  <2>2. \A i \in 1..Len(Rows(t)) : i < parser'[t] => Rows(t)[i] \in InHand'
    BY <1>2, <1>6, <2>1
  <2>3. task'[t] = "storing" \/ (task'[t] = "done" /\ ~cut') => ToSet(Rows(t)) \subseteq InHand'
    BY <1>1, <1>6, <2>1
  <2>4. task'[t] = "replaying" => \A i \in 1..Len(Rows(t)) : i < sent'[t] => Rows(t)[i] \in InHand'
    <3>1. CASE t = s
      BY <1>1, <1>2, <3>1
    <3>2. CASE t # s
      BY <1>1, <1>2, <1>6, <2>1, <3>2
    <3> QED
      BY <3>1, <3>2
  <2> QED
    BY <2>2, <2>3, <2>4
<1>8. PhaseInv'
  BY <1>1, <1>2 DEF FetchInv, PhaseInv, Enough, Resting, readVars
<1>9. ~ended
  BY <1>1 DEF FetchInv, EndInv, Alive
<1>10. EndInv' /\ NothingLost'
  BY <1>2, <1>9 DEF EndInv, NothingLost, readVars
<1> QED
  BY <1>3, <1>4, <1>5, <1>7, <1>8, <1>10 DEF FetchInv

\* The steps of tasks and parsers leave the consumer and the coordinator alone.
LEMMA ProducerKeeps ==
    ASSUME FetchInv, ~ended, UNCHANGED <<open, readVars, coord, offline>>,
           FetchTypeOK', StageInv', CachedMeansComplete', FlowInv',
           \A t \in Sources : task[t] # "unborn" => task'[t] # "unborn"
    PROVE  FetchInv'
<1>1. RingInv'
  BY DEF FetchInv, RingInv, readVars
<1>2. PhaseInv'
  BY DEF FetchInv, PhaseInv, Enough, readVars
<1>3. EndInv' /\ NothingLost'
  BY DEF EndInv, NothingLost, readVars
<1> QED
  BY <1>1, <1>2, <1>3 DEF FetchInv

\* A source that runs is not of an ended stream.
LEMMA RunningNotEnded ==
    ASSUME FetchInv, NEW s \in Sources, task[s] \notin Resting \/ parser[s] > 0
    PROVE  ~ended
BY DEF FetchInv, EndInv, Alive, Parsing

\* A task that starts, waits or finds its list in the cache keeps the invariant.
LEMMA BeginKeeps ==
    ASSUME FetchInv, NEW s \in Sources, Begin(s) \/ Load(s) \/ AcquireHost(s) \/ AcquireGlobal(s)
    PROVE  FetchInv'
<1>1. /\ cache[Source[s].url] \in {<<>>, Rows(s)}
      /\ task[s] \in {"spawned", "loading"} => sent[s] = 1
      /\ stop \in BOOLEAN /\ cut \in BOOLEAN /\ offline \in BOOLEAN
  BY DEF FetchInv, StageInv, CachedMeansComplete, FetchTypeOK
<1>2. CASE Begin(s)
  <2> DEFINE to == IF stop THEN "done" ELSE "loading"
  <2>1. /\ Moves(s, "spawned", to) /\ OnlyTask /\ cut' = (cut \/ stop) /\ task[s] = "spawned"
    BY <1>2 DEF Begin, Moves
  <2>2. to \in Stages \ {"unborn", "storing", "parsing", "failed"}
    BY DEF Stages, Resting
  <2>3. /\ "spawned" \notin Resting \cup {"parsing"} /\ cut' \in BOOLEAN /\ (cut => cut')
        /\ (to \in {"spawned", "loading"} => sent[s] = 1)
        /\ to # "replaying" /\ (to = "done" => cut')
    BY <1>1, <2>1 DEF Resting
  <2> HIDE DEF to
  <2> QED
    BY <2>1, <2>2, <2>3, OnlyTaskKeeps
<1>3. CASE Load(s)
  <2> DEFINE hit == cache[Source[s].url] # <<>>
             to == IF hit THEN (IF stop THEN "done" ELSE "replaying")
                   ELSE IF offline THEN "done" ELSE "queued"
  <2>1. /\ Moves(s, "loading", to) /\ OnlyTask /\ cut' = (cut \/ (hit /\ stop) \/ (~hit /\ offline))
        /\ task[s] = "loading"
    BY <1>3 DEF Load, Moves
  <2>2. to \in Stages \ {"unborn", "storing", "parsing", "failed"}
    BY DEF Stages, Resting
  <2>3. /\ "loading" \notin Resting \cup {"parsing"} /\ cut' \in BOOLEAN /\ (cut => cut')
        /\ to \notin {"spawned", "loading"}
        /\ (to = "replaying" => cache[Source[s].url] = Rows(s) /\ sent[s] = 1) /\ (to = "done" => cut')
    BY <1>1, <2>1 DEF Resting
  <2> HIDE DEF to
  <2> QED
    BY <2>1, <2>2, <2>3, OnlyTaskKeeps
<1>4. CASE AcquireHost(s) \/ AcquireGlobal(s)
  <2>1. /\ OnlyTask /\ cut' = cut
        /\ Moves(s, "queued", "hosted") \/ Moves(s, "hosted", "fetching")
    BY <1>4 DEF AcquireHost, AcquireGlobal
  <2>2. {"hosted", "fetching"} \subseteq Stages \ {"unborn", "storing", "parsing", "failed"}
    BY DEF Stages, Resting
  <2>3. {"queued", "hosted"} \cap (Resting \cup {"parsing"}) = {}
    BY DEF Resting
  <2> QED
    BY <1>1, <2>1, <2>2, <2>3, OnlyTaskKeeps
<1> QED
  BY <1>2, <1>3, <1>4

\* A request that is answered, retried or given up keeps the invariant.
LEMMA FetchKeeps ==
    ASSUME FetchInv, NEW s \in Sources, Fetch(s) \/ FetchFails(s)
    PROVE  FetchInv'
<1>1. /\ UNCHANGED <<parsed, sent, cache, chan, open, readVars, coord, offline, cut>>
      /\ task[s] = "fetching"
      /\ \A t \in Sources : t # s => task'[t] = task[t] /\ parser'[t] = parser[t] /\ tries'[t] = tries[t]
      /\ \/ task'[s] = "parsing" /\ parser'[s] = 1 /\ tries'[s] = tries[s]
         \/ task'[s] = "queued" /\ tries[s] > 1 /\ tries'[s] = tries[s] - 1 /\ parser'[s] = parser[s]
         \/ task'[s] = "failed" /\ tries'[s] = tries[s] - 1 /\ parser'[s] = parser[s]
  BY DEF Fetch, FetchFails, Moves, FetchInv, FetchTypeOK
<1>2. /\ tries \in [Sources -> 0..MaxAttempts] /\ tries[s] \in 1..MaxAttempts /\ MaxAttempts \in Nat
      /\ parser[s] = 0
  <2>1. /\ tries \in [Sources -> 0..MaxAttempts] /\ MaxAttempts \in Nat
        /\ tries[s] # 0 /\ ~(parser[s] > 0) /\ parser[s] \in Nat
    BY <1>1, FetcherAssumption DEF FetchInv, FetchTypeOK, StageInv
  <2> QED
    BY <2>1
<1>3. FetchTypeOK'
  <2>1. task' \in [Sources -> Stages]
    BY DEF Fetch, FetchFails, Moves, FetchInv, FetchTypeOK, Stages, Resting
  <2>2. tries' \in [Sources -> 0..MaxAttempts]
    <3>1. tries' = tries \/ tries' = [tries EXCEPT ![s] = tries[s] - 1]
      BY DEF Fetch, FetchFails
    <3> QED
      BY <1>2, <3>1
  <2>3. parser' \in [Sources -> Nat]
    <3>1. parser \in [Sources -> Nat]
      BY DEF FetchInv, FetchTypeOK
    <3>2. parser' = parser \/ parser' = [parser EXCEPT ![s] = 1]
      BY DEF Fetch, FetchFails
    <3> QED
      BY <3>1, <3>2
  <2> QED
    BY <1>1, <2>1, <2>2, <2>3 DEF FetchInv, FetchTypeOK, readVars
<1>4. StageInv'
  <2> SUFFICES ASSUME NEW t \in Sources
               PROVE  /\ tries'[t] = 0 => task'[t] = "failed"
                      /\ parser'[t] <= Len(Rows(t)) + 1
                      /\ parser'[t] > 0 => task'[t] \in {"parsing", "aborted"}
                      /\ task'[t] = "parsing" => parser'[t] > 0
                      /\ task'[t] = "storing" => parsed'[t] = Len(Rows(t))
                      /\ task'[t] \in {"unborn", "spawned", "loading"} => sent'[t] = 1
                      /\ task'[t] = "replaying" => cache'[Source[t].url] = Rows(t)
    BY DEF StageInv
  <2>1. CASE t = s
    BY <1>1, <1>2, <2>1, SourceFacts
  <2>2. CASE t # s
    BY <1>1, <2>2 DEF FetchInv, StageInv
  <2> QED
    BY <2>1, <2>2
<1>5. InHand' = InHand /\ CachedMeansComplete'
  BY <1>1 DEF InHand, readVars, FetchInv, CachedMeansComplete
<1>6. FlowInv'
  <2>1. open' = open /\ cut' = cut /\ sent' = sent
    BY <1>1
  <2>2. SUFFICES ASSUME open, NEW t \in Sources
                 PROVE  /\ \A i \in 1..Len(Rows(t)) : i < parser'[t] => Rows(t)[i] \in InHand
                        /\ task'[t] = "replaying" =>
                              \A i \in 1..Len(Rows(t)) : i < sent[t] => Rows(t)[i] \in InHand
                        /\ task'[t] = "storing" \/ (task'[t] = "done" /\ ~cut)
                              => ToSet(Rows(t)) \subseteq InHand
    BY <1>5, <2>1 DEF FlowInv
  <2>3. CASE t = s
    BY <1>1, <1>2, <2>3
  <2>4. CASE t # s
    BY <1>1, <2>2, <2>4 DEF FetchInv, FlowInv
  <2> QED
    BY <2>3, <2>4
<1>7. ~ended /\ \A t \in Sources : task[t] # "unborn" => task'[t] # "unborn"
  BY <1>1, RunningNotEnded DEF Resting
<1> QED
  BY <1>1, <1>3, <1>4, <1>5, <1>6, <1>7, ProducerKeeps

\* What the invariant says of one source.
LEMMA StageFacts ==
    ASSUME FetchInv, NEW s \in Sources
    PROVE  /\ tries[s] = 0 => task[s] = "failed"
           /\ parser[s] \in Nat /\ (task[s] \notin {"parsing", "aborted"} => parser[s] = 0)
           /\ cache[Source[s].url] \in {<<>>, Rows(s)}
           /\ task[s] = "replaying" => cache[Source[s].url] = Rows(s)
<1>1. /\ tries[s] = 0 => task[s] = "failed"
      /\ parser[s] > 0 => task[s] \in {"parsing", "aborted"}
      /\ task[s] = "replaying" => cache[Source[s].url] = Rows(s)
  BY DEF FetchInv, StageInv
<1>2. parser[s] \in Nat /\ cache[Source[s].url] \in {<<>>, Rows(s)}
  BY DEF FetchInv, FetchTypeOK, CachedMeansComplete
<1> QED
  BY <1>1, <1>2

\* Appending a row to the channel adds it to the rows in hand.
LEMMA SendingGrows ==
    ASSUME FetchTypeOK, NEW row \in AllRows, chan' = Append(chan, row), UNCHANGED readVars
    PROVE  InHand' = InHand \cup {row} /\ chan' \in Seq(AllRows) /\ Len(chan') = Len(chan) + 1
<1>1. chan \in Seq(AllRows)
  BY DEF FetchTypeOK
<1>2. ToSet(Append(chan, row)) = ToSet(chan) \cup {row}
  BY <1>1, AppendToSet
<1> QED
  BY <1>1, <1>2, AppendProperties DEF InHand, readVars

\* A parser sends its next row.
LEMMA ParserSendsKeeps ==
    ASSUME FetchInv, NEW s \in Sources, ParserSends(s)
    PROVE  FetchInv'
<1> DEFINE row == Rows(s)[parser[s]]
<1>1. /\ parser[s] \in 1..Len(Rows(s)) /\ open /\ Len(chan) < Capacity
      /\ chan' = Append(chan, row) /\ parser' = [parser EXCEPT ![s] = parser[s] + 1]
      /\ UNCHANGED <<task, tries, parsed, sent, cache, open, readVars, coord, offline, cut>>
  BY DEF ParserSends
<1>2. /\ row \in AllRows /\ FetchTypeOK /\ Len(Rows(s)) \in Nat /\ parser \in [Sources -> Nat]
      /\ Capacity \in Nat /\ Len(chan) \in Nat
  BY <1>1, SourceFacts, FetcherAssumption, LenProperties DEF FetchInv, FetchTypeOK
<1> HIDE DEF row
<1>3. InHand' = InHand \cup {row} /\ chan' \in Seq(AllRows) /\ Len(chan') <= Capacity
  <2>1. InHand' = InHand \cup {row} /\ chan' \in Seq(AllRows) /\ Len(chan') = Len(chan) + 1
    BY <1>1, <1>2, SendingGrows
  <2> QED
    BY <1>1, <1>2, <2>1
<1>4. /\ parser'[s] = parser[s] + 1 /\ parser' \in [Sources -> Nat]
      /\ \A t \in Sources : t # s => parser'[t] = parser[t]
  BY <1>1, <1>2
<1>5. FetchTypeOK'
  BY <1>1, <1>3, <1>4 DEF FetchInv, FetchTypeOK, readVars
<1>6. StageInv' /\ CachedMeansComplete'
  <2>1. CachedMeansComplete'
    BY <1>1 DEF FetchInv, CachedMeansComplete
  <2>2. task[s] \in {"parsing", "aborted"}
    BY <1>1 DEF FetchInv, StageInv
  <2>3. SUFFICES ASSUME NEW t \in Sources
                 PROVE  /\ tries'[t] = 0 => task'[t] = "failed"
                        /\ parser'[t] <= Len(Rows(t)) + 1
                        /\ parser'[t] > 0 => task'[t] \in {"parsing", "aborted"}
                        /\ task'[t] = "parsing" => parser'[t] > 0
                        /\ task'[t] = "storing" => parsed'[t] = Len(Rows(t))
                        /\ task'[t] \in {"unborn", "spawned", "loading"} => sent'[t] = 1
                        /\ task'[t] = "replaying" => cache'[Source[t].url] = Rows(t)
    BY <2>1 DEF StageInv
  <2>4. CASE t = s
    BY <1>1, <1>2, <1>4, <2>2, <2>4 DEF FetchInv, StageInv
  <2>5. CASE t # s
    BY <1>1, <1>4, <2>5 DEF FetchInv, StageInv
  <2> QED
    BY <2>4, <2>5
<1>7. FlowInv'
  <2>1. SUFFICES ASSUME NEW t \in Sources
                 PROVE  /\ \A i \in 1..Len(Rows(t)) : i < parser'[t] => Rows(t)[i] \in InHand'
                        /\ task'[t] = "replaying" =>
                              \A i \in 1..Len(Rows(t)) : i < sent'[t] => Rows(t)[i] \in InHand'
                        /\ task'[t] = "storing" \/ (task'[t] = "done" /\ ~cut')
                              => ToSet(Rows(t)) \subseteq InHand'
    BY DEF FlowInv
  <2>2. /\ \A i \in 1..Len(Rows(t)) : i < parser[t] => Rows(t)[i] \in InHand
        /\ task[t] = "replaying" => \A i \in 1..Len(Rows(t)) : i < sent[t] => Rows(t)[i] \in InHand
        /\ task[t] = "storing" \/ (task[t] = "done" /\ ~cut) => ToSet(Rows(t)) \subseteq InHand
    BY <1>1 DEF FetchInv, FlowInv
  <2>3. ASSUME NEW i \in 1..Len(Rows(t)), i < parser'[t]
        PROVE  Rows(t)[i] \in InHand'
    <3>1. CASE t = s /\ i = parser[s]
      BY <1>3, <3>1 DEF row
    <3>2. CASE ~(t = s /\ i = parser[s])
      <4>1. i < parser[t]
        BY <1>2, <1>4, <2>3, <3>2
      <4> QED
        BY <1>3, <2>2, <4>1
    <3> QED
      BY <3>1, <3>2
  <2> QED
    BY <1>1, <1>3, <2>2, <2>3
<1>8. ~ended
  BY <1>1, RunningNotEnded
<1> QED
  BY <1>1, <1>5, <1>6, <1>7, <1>8, ProducerKeeps

\* A parse ends, whole or cut by the closed channel.
LEMMA ParserEndsKeeps ==
    ASSUME FetchInv, NEW s \in Sources, NEW closed \in BOOLEAN, ParserEnds(s, closed)
    PROVE  FetchInv'
<1>1. /\ parser[s] > 0 /\ closed = (parser[s] <= Len(Rows(s))) /\ (closed => ~open)
      /\ UNCHANGED <<tries, sent, cache, chan, open, readVars, coord, offline, cut>>
  BY DEF ParserEnds
<1>2. FetchTypeOK /\ task \in [Sources -> Stages] /\ parser \in [Sources -> Nat]
      /\ parsed \in [Sources -> Nat] /\ Len(Rows(s)) \in Nat /\ parser[s] <= Len(Rows(s)) + 1
      /\ task[s] \in {"parsing", "aborted"}
  BY <1>1, SourceFacts DEF FetchInv, FetchTypeOK, StageInv
<1>3. /\ parser'[s] = 0 /\ parser' \in [Sources -> Nat]
      /\ parsed'[s] = (IF closed THEN parser[s] ELSE Len(Rows(s))) /\ parsed' \in [Sources -> Nat]
      /\ task'[s] = (IF task[s] # "parsing" THEN task[s] ELSE IF closed THEN "done" ELSE "storing")
      /\ task' \in [Sources -> Stages]
      /\ \A t \in Sources : t # s => parser'[t] = parser[t] /\ parsed'[t] = parsed[t] /\ task'[t] = task[t]
  BY <1>2 DEF ParserEnds, Stages, Resting
<1>4. FetchTypeOK'
  BY <1>1, <1>3 DEF FetchInv, FetchTypeOK, readVars
<1>5. CachedMeansComplete' /\ InHand' = InHand
  BY <1>1 DEF FetchInv, CachedMeansComplete, InHand, readVars
<1>6. StageInv'
  <2>1. SUFFICES ASSUME NEW t \in Sources
                 PROVE  /\ tries'[t] = 0 => task'[t] = "failed"
                        /\ parser'[t] <= Len(Rows(t)) + 1
                        /\ parser'[t] > 0 => task'[t] \in {"parsing", "aborted"}
                        /\ task'[t] = "parsing" => parser'[t] > 0
                        /\ task'[t] = "storing" => parsed'[t] = Len(Rows(t))
                        /\ task'[t] \in {"unborn", "spawned", "loading"} => sent'[t] = 1
                        /\ task'[t] = "replaying" => cache'[Source[t].url] = Rows(t)
    BY DEF StageInv
  <2>2. tries[t] = 0 => task[t] = "failed"
    BY DEF FetchInv, StageInv
  <2>3. CASE t = s
    BY <1>1, <1>2, <1>3, <2>2, <2>3 
  <2>4. CASE t # s
    BY <1>1, <1>3, <2>4 DEF FetchInv, StageInv
  <2> QED
    BY <2>3, <2>4
<1>7. FlowInv'
  <2>1. SUFFICES ASSUME open, NEW t \in Sources
                 PROVE  /\ \A i \in 1..Len(Rows(t)) : i < parser'[t] => Rows(t)[i] \in InHand
                        /\ task'[t] = "replaying" =>
                              \A i \in 1..Len(Rows(t)) : i < sent[t] => Rows(t)[i] \in InHand
                        /\ task'[t] = "storing" \/ (task'[t] = "done" /\ ~cut)
                              => ToSet(Rows(t)) \subseteq InHand
    BY <1>1, <1>5 DEF FlowInv
  <2>2. /\ \A i \in 1..Len(Rows(t)) : i < parser[t] => Rows(t)[i] \in InHand
        /\ task[t] = "replaying" => \A i \in 1..Len(Rows(t)) : i < sent[t] => Rows(t)[i] \in InHand
        /\ task[t] = "storing" \/ (task[t] = "done" /\ ~cut) => ToSet(Rows(t)) \subseteq InHand
    BY <1>1, <2>1 DEF FetchInv, FlowInv
  <2>3. CASE t = s
    <3>1. parser[s] = Len(Rows(s)) + 1 /\ closed = FALSE
      <4>1. closed = FALSE
        BY <1>1, <2>1
      <4>2. ~(parser[s] <= Len(Rows(s)))
        BY <1>1, <4>1
      <4> QED
        BY <1>2, <4>1, <4>2
    <3>2. \A i \in 1..Len(Rows(s)) : Rows(s)[i] \in InHand
      <4>1. \A i \in 1..Len(Rows(s)) : i < parser[s]
        BY <1>2, <3>1
      <4> QED
        BY <2>2, <2>3, <4>1
    <3>3. ToSet(Rows(s)) \subseteq InHand
      BY <3>2, SourceFacts DEF ToSet
    <3> QED
      BY <1>2, <1>3, <2>3, <3>2, <3>3
  <2>4. CASE t # s
    BY <1>3, <2>2, <2>4
  <2> QED
    BY <2>3, <2>4
<1>8. ~ended /\ \A t \in Sources : task[t] # "unborn" => task'[t] # "unborn"
  BY <1>1, <1>2, <1>3, RunningNotEnded
<1> QED
  BY <1>1, <1>4, <1>5, <1>6, <1>7, <1>8, ProducerKeeps

\* A parse that fails leaves what it sent, and a failed task.
LEMMA ParserFailsKeeps ==
    ASSUME FetchInv, NEW s \in Sources, ParserFails(s)
    PROVE  FetchInv'
<1>1. parser[s] > 0 /\ UNCHANGED <<tries, parsed, sent, cache, chan, open, readVars, coord, offline, cut>>
  BY DEF ParserFails
<1>2. FetchTypeOK /\ task \in [Sources -> Stages] /\ parser \in [Sources -> Nat]
      /\ Len(Rows(s)) \in Nat /\ task[s] \in {"parsing", "aborted"}
  BY <1>1, SourceFacts DEF FetchInv, FetchTypeOK, StageInv
<1>3. /\ parser'[s] = 0 /\ parser' \in [Sources -> Nat]
      /\ task'[s] \in {"failed", "aborted"} /\ task' \in [Sources -> Stages]
      /\ \A t \in Sources : t # s => parser'[t] = parser[t] /\ task'[t] = task[t]
  BY <1>2 DEF ParserFails, Stages, Resting
<1>4. FetchTypeOK'
  BY <1>1, <1>3 DEF FetchInv, FetchTypeOK, readVars
<1>5. CachedMeansComplete' /\ InHand' = InHand
  BY <1>1 DEF FetchInv, CachedMeansComplete, InHand, readVars
<1>6. StageInv'
  <2>1. \A t \in Sources : tries[t] = 0 => task[t] = "failed"
    BY DEF FetchInv, StageInv
  <2>2. ASSUME NEW t \in Sources
        PROVE  /\ tries'[t] = 0 => task'[t] = "failed"
               /\ parser'[t] <= Len(Rows(t)) + 1
               /\ parser'[t] > 0 => task'[t] \in {"parsing", "aborted"}
               /\ task'[t] = "parsing" => parser'[t] > 0
               /\ task'[t] = "storing" => parsed'[t] = Len(Rows(t))
               /\ task'[t] \in {"unborn", "spawned", "loading"} => sent'[t] = 1
               /\ task'[t] = "replaying" => cache'[Source[t].url] = Rows(t)
    <3>1. CASE t = s
      BY <1>1, <1>2, <1>3, <2>1, <3>1
    <3>2. CASE t # s
      BY <1>1, <1>3, <3>2 DEF FetchInv, StageInv
    <3> QED
      BY <3>1, <3>2
  <2> QED
    BY <2>2 DEF StageInv
<1>7. FlowInv'
  <2>1. ASSUME open, NEW t \in Sources
        PROVE  /\ \A i \in 1..Len(Rows(t)) : i < parser'[t] => Rows(t)[i] \in InHand
               /\ task'[t] = "replaying" =>
                     \A i \in 1..Len(Rows(t)) : i < sent[t] => Rows(t)[i] \in InHand
               /\ task'[t] = "storing" \/ (task'[t] = "done" /\ ~cut) => ToSet(Rows(t)) \subseteq InHand
    <3>1. CASE t = s
      BY <1>3, <3>1
    <3>2. CASE t # s
      BY <1>3, <2>1, <3>2 DEF FetchInv, FlowInv
    <3> QED
      BY <3>1, <3>2
  <2> QED
    BY <1>1, <1>5, <2>1 DEF FlowInv
<1>8. ~ended /\ \A t \in Sources : task[t] # "unborn" => task'[t] # "unborn"
  BY <1>1, <1>2, <1>3, RunningNotEnded
<1> QED
  BY <1>1, <1>4, <1>5, <1>6, <1>7, <1>8, ProducerKeeps

\* A whole list goes to the cache, or nothing.
LEMMA StoreKeeps ==
    ASSUME FetchInv, NEW s \in Sources, Store(s)
    PROVE  FetchInv'
<1>1. /\ UNCHANGED <<tries, parser, parsed, sent, chan, open, readVars, coord, offline, cut>>
      /\ task[s] = "storing" /\ task'[s] = "done" /\ task' \in [Sources -> Stages]
      /\ \A t \in Sources : t # s => task'[t] = task[t]
  BY DEF Store, Moves, FetchInv, FetchTypeOK, Stages, Resting
<1>2. /\ cache \in [Urls -> Seq(AllRows)] /\ parsed[s] = Len(Rows(s)) /\ Source[s].url \in Urls
      /\ Rows(s) \in Seq(AllRows) /\ Len(Rows(s)) \in Nat /\ parser \in [Sources -> Nat]
  BY <1>1, SourceFacts DEF FetchInv, FetchTypeOK, StageInv
<1>3. SubSeq(Rows(s), 1, parsed[s]) = Rows(s)
  <2> DEFINE list == Rows(s)
  <2>1. list \in Seq(AllRows) /\ parsed[s] = Len(list)
    BY <1>2
  <2> HIDE DEF list
  <2>2. SubSeq(list, 1, Len(list)) = list
    <3>1. Len(list) \in Nat /\ \A i \in 1..Len(list) : list[i] \in AllRows
      BY <2>1, LenProperties
    <3>2. SubSeq(list, 1, Len(list)) \in Seq(AllRows) /\ Len(SubSeq(list, 1, Len(list))) = Len(list)
      BY <2>1, <3>1, SubSeqProperties, LenProperties
    <3>3. \A i \in 1..Len(list) : SubSeq(list, 1, Len(list))[i] = list[i]
      BY <2>1, <3>1, SubSeqProperties
    <3> QED
      BY <2>1, <3>2, <3>3, SeqEqual
  <2> QED
    BY <2>1, <2>2 DEF list
<1>4. cache' = cache \/ cache' = [cache EXCEPT ![Source[s].url] = Rows(s)]
  BY <1>3 DEF Store
<1>5. /\ cache' \in [Urls -> Seq(AllRows)]
      /\ \A t \in Sources : cache'[Source[t].url] \in {cache[Source[t].url], Rows(t)}
  BY <1>2, <1>4, SourceFacts
<1>6. FetchTypeOK'
  BY <1>1, <1>5 DEF FetchInv, FetchTypeOK, readVars
<1>7. CachedMeansComplete' /\ InHand' = InHand
  BY <1>1, <1>5 DEF FetchInv, CachedMeansComplete, InHand, readVars
<1>8. parser[s] = 0 /\ tries[s] # 0
  BY <1>1, StageFacts
<1>9. StageInv'
  <2>1. SUFFICES ASSUME NEW t \in Sources
                 PROVE  /\ tries'[t] = 0 => task'[t] = "failed"
                        /\ parser'[t] <= Len(Rows(t)) + 1
                        /\ parser'[t] > 0 => task'[t] \in {"parsing", "aborted"}
                        /\ task'[t] = "parsing" => parser'[t] > 0
                        /\ task'[t] = "storing" => parsed'[t] = Len(Rows(t))
                        /\ task'[t] \in {"unborn", "spawned", "loading"} => sent'[t] = 1
                        /\ task'[t] = "replaying" => cache'[Source[t].url] = Rows(t)
    BY DEF StageInv
  <2>2. CASE t = s
    BY <1>1, <1>2, <1>8, <2>2
  <2>3. CASE t # s
    BY <1>1, <1>5, <2>3 DEF FetchInv, StageInv
  <2> QED
    BY <2>2, <2>3
<1>10. FlowInv'
  <2>1. SUFFICES ASSUME open, NEW t \in Sources
                 PROVE  /\ \A i \in 1..Len(Rows(t)) : i < parser[t] => Rows(t)[i] \in InHand
                        /\ task'[t] = "replaying" =>
                              \A i \in 1..Len(Rows(t)) : i < sent[t] => Rows(t)[i] \in InHand
                        /\ task'[t] = "storing" \/ (task'[t] = "done" /\ ~cut)
                              => ToSet(Rows(t)) \subseteq InHand
    BY <1>1, <1>7 DEF FlowInv
  <2>2. /\ \A i \in 1..Len(Rows(t)) : i < parser[t] => Rows(t)[i] \in InHand
        /\ task[t] = "replaying" => \A i \in 1..Len(Rows(t)) : i < sent[t] => Rows(t)[i] \in InHand
        /\ task[t] = "storing" \/ (task[t] = "done" /\ ~cut) => ToSet(Rows(t)) \subseteq InHand
    BY <2>1 DEF FetchInv, FlowInv
  <2> QED
    BY <1>1, <2>2
<1>11. ~ended /\ \A t \in Sources : task[t] # "unborn" => task'[t] # "unborn"
  BY <1>1, RunningNotEnded DEF Resting
<1> QED
  BY <1>1, <1>6, <1>7, <1>9, <1>10, <1>11, ProducerKeeps

\* A cached list is replayed row by row; it is done after the last one.
LEMMA ReplayKeeps ==
    ASSUME FetchInv, NEW s \in Sources, Replay(s)
    PROVE  FetchInv'
<1>1. /\ UNCHANGED <<tries, parser, parsed, cache, open, readVars, coord, offline, cut>>
      /\ task[s] = "replaying" /\ cache[Source[s].url] = Rows(s)
      /\ FetchTypeOK /\ task \in [Sources -> Stages] /\ sent \in [Sources -> Nat \ {0}]
      /\ Len(Rows(s)) \in Nat /\ Len(chan) \in Nat /\ Capacity \in Nat
      /\ parser[s] = 0 /\ tries[s] # 0
  <2>1. task[s] = "replaying" /\ UNCHANGED <<tries, parser, parsed, cache, open, readVars, coord, offline, cut>>
    BY DEF Replay
  <2>2. FetchTypeOK /\ task \in [Sources -> Stages] /\ sent \in [Sources -> Nat \ {0}]
        /\ Len(chan) \in Nat
    BY LenProperties DEF FetchInv, FetchTypeOK
  <2> QED
    BY <2>1, <2>2, StageFacts, SourceFacts, FetcherAssumption
<1>2. /\ \A t \in Sources : t # s => sent'[t] = sent[t] /\ task'[t] = task[t]
      /\ sent' \in [Sources -> Nat \ {0}] /\ task' \in [Sources -> Stages]
      /\ \/ /\ sent[s] <= Len(Rows(s)) /\ open /\ Len(chan) < Capacity
            /\ chan' = Append(chan, Rows(s)[sent[s]])
            /\ sent'[s] = sent[s] + 1 /\ task' = task
         \/ /\ sent[s] > Len(Rows(s)) \/ ~open
            /\ task'[s] = "done" /\ sent' = sent /\ chan' = chan
  <2>1. CASE /\ sent[s] <= Len(Rows(s)) /\ open /\ Len(chan) < Capacity
             /\ chan' = Append(chan, Rows(s)[sent[s]])
             /\ sent' = [sent EXCEPT ![s] = sent[s] + 1] /\ task' = task
    BY <1>1, <2>1
  <2>2. CASE /\ sent[s] > Len(Rows(s)) \/ ~open
             /\ task' = [task EXCEPT ![s] = "done"] /\ sent' = sent /\ chan' = chan
    BY <1>1, <2>2 DEF Stages, Resting
  <2> QED
    BY <1>1, <2>1, <2>2 DEF Replay
<1>3. /\ InHand \subseteq InHand' /\ chan' \in Seq(AllRows) /\ Len(chan') <= Capacity
      /\ sent'[s] = sent[s] + 1 => Rows(s)[sent[s]] \in InHand'
  <2>1. CASE chan' = chan /\ sent' = sent
    BY <1>1, <2>1 DEF InHand, readVars, FetchTypeOK
  <2>2. CASE sent[s] <= Len(Rows(s)) /\ Len(chan) < Capacity /\ chan' = Append(chan, Rows(s)[sent[s]])
    <3> DEFINE row == Rows(s)[sent[s]]
    <3>1. row \in AllRows
      BY <1>1, <2>2, SourceFacts
    <3> HIDE DEF row
    <3>2. InHand' = InHand \cup {row} /\ chan' \in Seq(AllRows) /\ Len(chan') = Len(chan) + 1
      BY <1>1, <2>2, <3>1, SendingGrows DEF row
    <3> QED
      BY <1>1, <2>2, <3>2 DEF row
  <2> QED
    BY <1>2, <2>1, <2>2
<1>4. FetchTypeOK'
  BY <1>1, <1>2, <1>3 DEF FetchTypeOK, readVars
<1>5. CachedMeansComplete'
  BY <1>1 DEF FetchInv, CachedMeansComplete
<1>6. StageInv'
  <2>1. SUFFICES ASSUME NEW t \in Sources
                 PROVE  /\ tries'[t] = 0 => task'[t] = "failed"
                        /\ parser'[t] <= Len(Rows(t)) + 1
                        /\ parser'[t] > 0 => task'[t] \in {"parsing", "aborted"}
                        /\ task'[t] = "parsing" => parser'[t] > 0
                        /\ task'[t] = "storing" => parsed'[t] = Len(Rows(t))
                        /\ task'[t] \in {"unborn", "spawned", "loading"} => sent'[t] = 1
                        /\ task'[t] = "replaying" => cache'[Source[t].url] = Rows(t)
    BY DEF StageInv
  <2>2. CASE t = s
    BY <1>1, <1>2, <2>2
  <2>3. CASE t # s
    BY <1>1, <1>2, <2>3 DEF FetchInv, StageInv
  <2> QED
    BY <2>2, <2>3
<1>7. FlowInv'
  <2>1. SUFFICES ASSUME open, NEW t \in Sources
                 PROVE  /\ \A i \in 1..Len(Rows(t)) : i < parser[t] => Rows(t)[i] \in InHand'
                        /\ task'[t] = "replaying" =>
                              \A i \in 1..Len(Rows(t)) : i < sent'[t] => Rows(t)[i] \in InHand'
                        /\ task'[t] = "storing" \/ (task'[t] = "done" /\ ~cut)
                              => ToSet(Rows(t)) \subseteq InHand'
    BY <1>1 DEF FlowInv
  <2>2. /\ \A i \in 1..Len(Rows(t)) : i < parser[t] => Rows(t)[i] \in InHand
        /\ task[t] = "replaying" => \A i \in 1..Len(Rows(t)) : i < sent[t] => Rows(t)[i] \in InHand
        /\ task[t] = "storing" \/ (task[t] = "done" /\ ~cut) => ToSet(Rows(t)) \subseteq InHand
    BY <2>1 DEF FetchInv, FlowInv
  <2>3. CASE t # s
    BY <1>2, <1>3, <2>2, <2>3
  <2>4. CASE t = s
    <3>1. \A i \in 1..Len(Rows(s)) : i < sent[s] => Rows(s)[i] \in InHand'
      BY <1>1, <1>3, <2>2, <2>4
    <3>2. CASE sent'[s] = sent[s] + 1 /\ task' = task
      <4>1. \A i \in 1..Len(Rows(s)) : i < sent'[s] => i < sent[s] \/ i = sent[s]
        BY <1>1, <3>2
      <4> QED
        BY <1>1, <1>3, <2>2, <2>4, <3>1, <3>2, <4>1
    <3>3. CASE sent[s] > Len(Rows(s)) /\ task'[s] = "done" /\ sent' = sent
      <4>1. \A i \in 1..Len(Rows(s)) : Rows(s)[i] \in InHand'
        BY <1>1, <3>1, <3>3
      <4>2. ToSet(Rows(s)) \subseteq InHand'
        BY <4>1, SourceFacts DEF ToSet
      <4> QED
        BY <1>1, <1>3, <2>2, <2>4, <3>3, <4>2
    <3> QED
      BY <1>2, <2>1, <3>2, <3>3
  <2> QED
    BY <2>3, <2>4
<1>8. ~ended /\ \A t \in Sources : task[t] # "unborn" => task'[t] # "unborn"
  BY <1>1, <1>2, RunningNotEnded DEF Resting
<1> QED
  BY <1>1, <1>4, <1>5, <1>6, <1>7, <1>8, ProducerKeeps
-----------------------------------------------------------------------------
(* The coordinator.                                                          *)

\* A step of the coordinator aborts tasks that run, or starts those that did not.
Coordinates ==
    /\ OnlyCoord /\ task' \in [Sources -> Stages] /\ cut' \in BOOLEAN /\ (cut => cut')
    /\ coord' \in {"deciding", "both", "fallback", "ended"}
    /\ \A t \in Sources : \/ task'[t] = task[t]
                          \/ task[t] \notin Resting /\ task'[t] = "aborted" /\ cut'
                          \/ task[t] = "unborn" /\ task'[t] = "spawned"

\* Such a step keeps the invariant when it keeps what is known of the phases.
LEMMA CoordinatorKeeps ==
    ASSUME FetchInv, Coordinates, ~ended, PhaseInv'
    PROVE  FetchInv'
<1>1. UNCHANGED <<tries, parser, parsed, sent, cache, chan, open, readVars, offline>>
  BY DEF Coordinates, OnlyCoord
<1>2. FetchTypeOK'
  BY <1>1 DEF Coordinates, FetchInv, FetchTypeOK, readVars
<1>3. RingInv' /\ CachedMeansComplete' /\ InHand' = InHand
  BY <1>1 DEF FetchInv, RingInv, CachedMeansComplete, InHand, readVars
<1>4. StageInv'
  <2>1. SUFFICES ASSUME NEW t \in Sources
                 PROVE  /\ tries'[t] = 0 => task'[t] = "failed"
                        /\ parser'[t] <= Len(Rows(t)) + 1
                        /\ parser'[t] > 0 => task'[t] \in {"parsing", "aborted"}
                        /\ task'[t] = "parsing" => parser'[t] > 0
                        /\ task'[t] = "storing" => parsed'[t] = Len(Rows(t))
                        /\ task'[t] \in {"unborn", "spawned", "loading"} => sent'[t] = 1
                        /\ task'[t] = "replaying" => cache'[Source[t].url] = Rows(t)
    BY DEF StageInv
  <2>2. /\ tries[t] = 0 => task[t] = "failed"
        /\ parser[t] <= Len(Rows(t)) + 1
        /\ parser[t] > 0 => task[t] \in {"parsing", "aborted"}
        /\ task[t] = "parsing" => parser[t] > 0
        /\ task[t] = "storing" => parsed[t] = Len(Rows(t))
        /\ task[t] \in {"unborn", "spawned", "loading"} => sent[t] = 1
        /\ task[t] = "replaying" => cache[Source[t].url] = Rows(t)
    BY DEF FetchInv, StageInv
  <2>3. \/ task'[t] = task[t]
        \/ task[t] \notin Resting /\ task'[t] = "aborted"
        \/ task[t] = "unborn" /\ task'[t] = "spawned"
    BY DEF Coordinates
  <2> QED
    BY <1>1, <2>2, <2>3 DEF Resting
<1>5. FlowInv'
  <2>1. SUFFICES ASSUME open, NEW t \in Sources
                 PROVE  /\ \A i \in 1..Len(Rows(t)) : i < parser[t] => Rows(t)[i] \in InHand
                        /\ task'[t] = "replaying" =>
                              \A i \in 1..Len(Rows(t)) : i < sent[t] => Rows(t)[i] \in InHand
                        /\ task'[t] = "storing" \/ (task'[t] = "done" /\ ~cut')
                              => ToSet(Rows(t)) \subseteq InHand
    BY <1>1, <1>3 DEF FlowInv
  <2>2. /\ \A i \in 1..Len(Rows(t)) : i < parser[t] => Rows(t)[i] \in InHand
        /\ task[t] = "replaying" => \A i \in 1..Len(Rows(t)) : i < sent[t] => Rows(t)[i] \in InHand
        /\ task[t] = "storing" \/ (task[t] = "done" /\ ~cut) => ToSet(Rows(t)) \subseteq InHand
    BY <2>1 DEF FetchInv, FlowInv
  <2> QED
    BY <2>2 DEF Coordinates
<1>6. EndInv' /\ NothingLost'
  BY <1>1 DEF EndInv, NothingLost, readVars
<1> QED
  BY <1>2, <1>3, <1>4, <1>5, <1>6 DEF FetchInv

\* What an abort does.
LEMMA AbortsFacts ==
    ASSUME FetchTypeOK, NEW S \in SUBSET Sources, Aborts(S)
    PROVE  /\ task' \in [Sources -> Stages] /\ cut' \in BOOLEAN /\ (cut => cut')
           /\ \A t \in Sources : \/ task'[t] = task[t]
                                 \/ task[t] \notin Resting /\ task'[t] = "aborted" /\ cut'
<1>1. task' = [s \in Sources |-> IF s \in S /\ task[s] \notin Resting THEN "aborted" ELSE task[s]]
  BY DEF Aborts, Aborted
<1>2. cut' = (cut \/ Alive(S)) /\ cut \in BOOLEAN /\ task \in [Sources -> Stages]
  BY DEF Aborts, FetchTypeOK
<1>3. cut' \in BOOLEAN /\ (cut => cut')
  BY <1>2
<1>4. ASSUME NEW t \in Sources, task'[t] # task[t]
      PROVE  task[t] \notin Resting /\ task'[t] = "aborted" /\ cut'
  <2>1. t \in S /\ task[t] \notin Resting /\ task'[t] = "aborted"
    BY <1>1, <1>4
  <2>2. Alive(S)
    BY <2>1 DEF Alive
  <2> QED
    BY <1>2, <2>1, <2>2
<1>5. task' \in [Sources -> Stages]
  BY <1>1, <1>2 DEF Stages, Resting
<1> QED
  BY <1>3, <1>4, <1>5

\* The steps of the coordinator.
LEMMA CoordKeeps ==
    ASSUME FetchInv, CoordStep
    PROVE  FetchInv'
<1>1. ~ended /\ coord # "ended"
  BY DEF FetchInv, EndInv, CoordStep, PrimaryEnds, SkipFallback, StartFallback, PrimaryOver, FallbackOver, Cancelled
<1>2. OnlyCoord /\ UNCHANGED <<open, accepted, stop, ended>>
  BY DEF CoordStep, PrimaryEnds, SkipFallback, StartFallback, PrimaryOver, FallbackOver, Cancelled, OnlyCoord, readVars
<1>3. FetchTypeOK /\ PhaseInv /\ cut \in BOOLEAN /\ task \in [Sources -> Stages]
  BY DEF FetchInv, FetchTypeOK
<1>4. \A S \in SUBSET Sources : Aborts(S) =>
          /\ task' \in [Sources -> Stages] /\ cut' \in BOOLEAN /\ (cut => cut')
          /\ \A t \in Sources : \/ task'[t] = task[t]
                                \/ task[t] \notin Resting /\ task'[t] = "aborted" /\ cut'
  BY <1>3, AbortsFacts
<1>5. \A X : Tier(X) \in SUBSET Sources
  BY DEF Tier
<1>6. Coordinates
  <2>1. CASE PrimaryEnds
    <3>1. UNCHANGED <<task, cut>> \/ Aborts(Tier("primary"))
      BY <2>1 DEF PrimaryEnds
    <3> QED
      BY <1>2, <1>3, <1>4, <1>5, <2>1, <3>1 DEF PrimaryEnds, Coordinates
  <2>2. CASE SkipFallback
    BY <1>2, <1>4, <1>5, <2>2 DEF SkipFallback, Coordinates
  <2>3. CASE StartFallback
    BY <1>2, <1>3, <2>3 DEF StartFallback, Coordinates, Stages
  <2>4. CASE PrimaryOver
    <3>1. UNCHANGED <<task, cut>> \/ Aborts(Tier("primary")) \/ Aborts(Sources)
      BY <2>4 DEF PrimaryOver
    <3> QED
      BY <1>2, <1>3, <1>4, <1>5, <2>4, <3>1 DEF PrimaryOver, Coordinates
  <2>5. CASE FallbackOver
    <3>1. UNCHANGED <<task, cut>> \/ Aborts(Tier("fallback"))
      BY <2>5 DEF FallbackOver
    <3> QED
      BY <1>2, <1>3, <1>4, <1>5, <2>5, <3>1 DEF FallbackOver, Coordinates
  <2>6. CASE Cancelled
    BY <1>2, <1>4, <2>6 DEF Cancelled, Coordinates
  <2> QED
    BY <2>1, <2>2, <2>3, <2>4, <2>5, <2>6 DEF CoordStep
<1>7. \A t \in Sources : task[t] # "unborn" => task'[t] # "unborn"
  BY <1>6 DEF Coordinates
<1>8. PhaseInv'
  <2>1. stop' => Enough'
    BY <1>2, <1>3 DEF PhaseInv, Enough
  <2>2. coord' # "cancelled"
    BY <1>6 DEF Coordinates
  <2>3. CASE PrimaryEnds
    BY <2>1, <2>2, <2>3 DEF PrimaryEnds, PhaseInv
  <2>4. CASE SkipFallback
    BY <1>2, <1>3, <2>1, <2>4 DEF SkipFallback, PhaseInv, Enough
  <2>5. CASE StartFallback
    <3>1. coord' = "both" /\ \A t \in Sources : task'[t] # "unborn"
      BY <2>5 DEF StartFallback
    <3> QED
      BY <2>1, <3>1 DEF PhaseInv
  <2>6. CASE PrimaryOver \/ FallbackOver
    <3>1. \A t \in Sources : task[t] # "unborn"
      BY <1>3, <2>6 DEF PhaseInv, PrimaryOver, FallbackOver
    <3> QED
      BY <1>7, <2>1, <2>2, <3>1 DEF PhaseInv
  <2>7. CASE Cancelled
    BY <1>1, <1>2, <1>3, <2>1, <2>7 DEF Cancelled, PhaseInv
  <2> QED
    BY <2>3, <2>4, <2>5, <2>6, <2>7 DEF CoordStep
<1> QED
  BY <1>1, <1>6, <1>8, CoordinatorKeeps
-----------------------------------------------------------------------------
(* The consumer.                                                             *)

\* The row the consumer takes, and what is left.
LEMMA TakenRow ==
    ASSUME FetchTypeOK, NEW row \in AllRows, FirstRow(row)
    PROVE  /\ Rest \in Seq(AllRows) /\ Len(Rest) <= Capacity
           /\ ToSet(chan) \cup ToSet(prefetched) = {row} \cup ToSet(Rest)
           /\ Rest # <<>> => /\ Head(Rest) \in AllRows /\ Tail(Rest) \in Seq(AllRows)
                             /\ Len(Tail(Rest)) <= Capacity
                             /\ ToSet(Rest) = {Head(Rest)} \cup ToSet(Tail(Rest))
<1>1. chan \in Seq(AllRows) /\ Len(chan) <= Capacity /\ Capacity \in Nat /\ prefetched \in Seq(AllRows)
  BY FetcherAssumption DEF FetchTypeOK
<1>2. Rest \in Seq(AllRows) /\ Len(Rest) <= Capacity /\ ToSet(chan) \cup ToSet(prefetched) = {row} \cup ToSet(Rest)
  <2>1. CASE prefetched # <<>>
    BY <1>1, <2>1, SingleToSet DEF FirstRow, Rest
  <2>2. CASE prefetched = <<>>
    <3>1. chan # <<>> /\ row = Head(chan) /\ Rest = Tail(chan)
      BY <2>2 DEF FirstRow, Rest
    <3>2. ToSet(chan) = {row} \cup ToSet(Tail(chan))
      BY <1>1, <3>1, HeadTailToSet
    <3>3. Tail(chan) \in Seq(AllRows) /\ Len(Tail(chan)) <= Capacity
      BY <1>1, <3>1, HeadTailProperties, LenProperties
    <3> QED
      BY <2>2, <3>1, <3>2, <3>3, EmptyToSet
  <2> QED
    BY <2>1, <2>2
<1>3. ASSUME Rest # <<>>
      PROVE  /\ Head(Rest) \in AllRows /\ Tail(Rest) \in Seq(AllRows)
             /\ Len(Tail(Rest)) <= Capacity
             /\ ToSet(Rest) = {Head(Rest)} \cup ToSet(Tail(Rest))
  <2> DEFINE q == Rest
  <2>1. q \in Seq(AllRows) /\ q # <<>> /\ Len(q) <= Capacity
    BY <1>2, <1>3
  <2> HIDE DEF q
  <2>2. /\ Head(q) \in AllRows /\ Tail(q) \in Seq(AllRows) /\ Len(Tail(q)) <= Capacity
        /\ ToSet(q) = {Head(q)} \cup ToSet(Tail(q))
    BY <1>1, <2>1, HeadTailProperties, LenProperties, HeadTailToSet
  <2> QED
    BY <2>2 DEF q
<1> QED
  BY <1>2, <1>3

\* A row that is taken stays in hand, in the history of the table.
LEMMA ConsumerKeeps ==
    ASSUME FetchInv, open, UNCHANGED <<taskVars, open, ended, coord, offline, cut>>, ~ended,
           FetchTypeOK', RingInv', InHand \subseteq InHand', PhaseInv'
    PROVE  FetchInv'
<1>1. StageInv' /\ CachedMeansComplete'
  BY DEF FetchInv, StageInv, CachedMeansComplete, taskVars
<1>2. FlowInv'
  <2>1. SUFFICES ASSUME NEW t \in Sources
                 PROVE  /\ \A i \in 1..Len(Rows(t)) : i < parser[t] => Rows(t)[i] \in InHand'
                        /\ task[t] = "replaying" =>
                              \A i \in 1..Len(Rows(t)) : i < sent[t] => Rows(t)[i] \in InHand'
                        /\ task[t] = "storing" \/ (task[t] = "done" /\ ~cut)
                              => ToSet(Rows(t)) \subseteq InHand'
    BY DEF FlowInv, taskVars
  <2>2. /\ \A i \in 1..Len(Rows(t)) : i < parser[t] => Rows(t)[i] \in InHand
        /\ task[t] = "replaying" => \A i \in 1..Len(Rows(t)) : i < sent[t] => Rows(t)[i] \in InHand
        /\ task[t] = "storing" \/ (task[t] = "done" /\ ~cut) => ToSet(Rows(t)) \subseteq InHand
    BY DEF FetchInv, FlowInv
  <2> QED
    BY <2>2
<1>3. EndInv' /\ NothingLost'
  BY DEF EndInv, NothingLost
<1> QED
  BY <1>1, <1>2, <1>3 DEF FetchInv

\* A repeated or unwanted row is taken and the next one waits.
LEMMA RejectKeeps ==
    ASSUME FetchInv, NEW row \in AllRows, Reject(row)
    PROVE  FetchInv'
<1>1. /\ open /\ FirstRow(row) /\ prefetched' = <<>> /\ chan' = Rest
      /\ UNCHANGED <<taskVars, open, accepted, stop, ended, coord, offline, cut>>
      /\ \/ row \in seen /\ UNCHANGED <<seen, order, inserted>>
         \/ row \notin seen /\ Remember(row)
  BY DEF Reject
<1>2. FetchTypeOK /\ RingInv
  BY DEF FetchInv
<1>3. /\ Rest \in Seq(AllRows) /\ Len(Rest) <= Capacity
      /\ ToSet(chan) \cup ToSet(prefetched) = {row} \cup ToSet(Rest)
  BY <1>1, <1>2, TakenRow
<1>4. /\ RingInv' /\ seen' \subseteq AllRows /\ order' \in Seq(AllRows) /\ inserted' \in Seq(AllRows)
      /\ ToSet(inserted) \cup {row} \subseteq ToSet(inserted')
  <2>1. CASE row \in seen /\ UNCHANGED <<seen, order, inserted>>
    BY <1>2, <2>1 DEF RingInv, FetchTypeOK
  <2>2. CASE row \notin seen /\ Remember(row)
    BY <1>2, <2>2, RememberKeepsRing
  <2> QED
    BY <1>1, <2>1, <2>2
<1>5. FetchTypeOK'
  <2>1. prefetched' \in Seq(AllRows) /\ Len(prefetched') <= 1
    BY <1>1, EmptySeq
  <2> QED
    BY <1>1, <1>2, <1>3, <1>4, <2>1 DEF FetchTypeOK, taskVars
<1>6. InHand \subseteq InHand'
  BY <1>1, <1>3, <1>4 DEF InHand
<1>7. ~ended
  BY <1>1 DEF FetchInv, EndInv, FirstRow
<1>8. PhaseInv'
  BY <1>1 DEF FetchInv, PhaseInv, Enough, taskVars
<1> QED
  BY <1>1, <1>4, <1>5, <1>6, <1>7, <1>8, ConsumerKeeps

\* A new row is handed out, and the next one is taken at once.
LEMMA AcceptKeeps ==
    ASSUME FetchInv, NEW row \in AllRows, Accept(row)
    PROVE  FetchInv'
<1>1. /\ open /\ FirstRow(row) /\ row \notin seen /\ Remember(row) /\ accepted' = accepted + 1
      /\ stop' = (stop \/ (Threshold # NoThreshold /\ accepted + 1 >= Threshold))
      /\ prefetched' = (IF Rest = <<>> THEN <<>> ELSE <<Head(Rest)>>)
      /\ chan' = (IF Rest = <<>> THEN <<>> ELSE Tail(Rest))
      /\ UNCHANGED <<taskVars, open, ended, coord, offline, cut>>
  BY DEF Accept
<1>2. FetchTypeOK /\ RingInv
  BY DEF FetchInv
<1>3. /\ Rest \in Seq(AllRows) /\ Len(Rest) <= Capacity
      /\ ToSet(chan) \cup ToSet(prefetched) = {row} \cup ToSet(Rest)
      /\ Rest # <<>> => /\ Head(Rest) \in AllRows /\ Tail(Rest) \in Seq(AllRows)
                        /\ Len(Tail(Rest)) <= Capacity
                        /\ ToSet(Rest) = {Head(Rest)} \cup ToSet(Tail(Rest))
  BY <1>1, <1>2, TakenRow
<1>4. /\ RingInv' /\ seen' \subseteq AllRows /\ order' \in Seq(AllRows) /\ inserted' \in Seq(AllRows)
      /\ ToSet(inserted') = ToSet(inserted) \cup {row}
  BY <1>1, <1>2, RememberKeepsRing
<1>5. /\ prefetched' \in Seq(AllRows) /\ Len(prefetched') <= 1
      /\ chan' \in Seq(AllRows) /\ Len(chan') <= Capacity
      /\ ToSet(chan') \cup ToSet(prefetched') = ToSet(Rest)
  <2>1. CASE Rest = <<>>
    BY <1>1, <1>3, <2>1, EmptySeq, EmptyToSet, FetcherAssumption
  <2>2. CASE Rest # <<>>
    <3> DEFINE h == Head(Rest)
    <3>1. h \in AllRows /\ prefetched' = <<h>> /\ chan' = Tail(Rest) /\ ToSet(Rest) = {h} \cup ToSet(Tail(Rest))
      BY <1>1, <1>3, <2>2
    <3> HIDE DEF h
    <3>2. <<h>> \in Seq(AllRows) /\ Len(<<h>>) = 1 /\ ToSet(<<h>>) = {h}
      BY <3>1, SingleToSet
    <3> QED
      BY <1>3, <2>2, <3>1, <3>2
  <2> QED
    BY <2>1, <2>2
<1>6. FetchTypeOK'
  BY <1>1, <1>2, <1>4, <1>5 DEF FetchTypeOK, taskVars
<1>7. InHand \subseteq InHand'
  BY <1>3, <1>4, <1>5 DEF InHand
<1>8. ~ended
  BY <1>1 DEF FetchInv, EndInv, FirstRow
<1>9. PhaseInv'
  <2>1. accepted \in Nat /\ Threshold \in Nat \cup {NoThreshold} /\ stop \in BOOLEAN
    BY <1>2, FetcherAssumption DEF FetchTypeOK
  <2>2. Enough => Enough'
    BY <1>1, <2>1 DEF Enough
  <2>3. stop' => Enough'
    BY <1>1, <2>1, <2>2 DEF FetchInv, PhaseInv, Enough
  <2> QED
    BY <1>1, <2>2, <2>3 DEF FetchInv, PhaseInv, taskVars
<1> QED
  BY <1>1, <1>4, <1>6, <1>7, <1>8, <1>9, ConsumerKeeps

\* At the end of the stream everything in hand has been inserted.
LEMMA EndOfStreamKeeps ==
    ASSUME FetchInv, EndOfStream
    PROVE  FetchInv'
<1>1. /\ open /\ prefetched = <<>> /\ chan = <<>> /\ coord = "ended" /\ ~Alive(Sources) /\ Parsing = {}
      /\ ended' = TRUE
      /\ UNCHANGED <<taskVars, chan, open, prefetched, seen, order, inserted, accepted, stop, coord, offline, cut>>
  BY DEF EndOfStream
<1>2. FetchTypeOK' /\ RingInv' /\ StageInv' /\ CachedMeansComplete'
  BY <1>1 DEF FetchInv, FetchTypeOK, RingInv, StageInv, CachedMeansComplete, taskVars
<1>3. InHand' = InHand /\ InHand = ToSet(inserted)
  BY <1>1, EmptyToSet DEF InHand
<1>4. FlowInv'
  BY <1>1, <1>3 DEF FetchInv, FlowInv, taskVars
<1>5. PhaseInv'
  BY <1>1 DEF FetchInv, PhaseInv, Enough, taskVars
<1>6. EndInv'
  BY <1>1 DEF EndInv, Alive, Parsing, taskVars
<1>7. NothingLost'
  <2>1. SUFFICES ASSUME ~cut, \A s \in Sources : task[s] = "done"
                 PROVE  AllRows \subseteq ToSet(inserted)
    BY <1>1 DEF NothingLost, taskVars
  <2>2. \A s \in Sources : ToSet(Rows(s)) \subseteq InHand
    BY <1>1, <2>1 DEF FetchInv, FlowInv
  <2> QED
    BY <1>3, <2>2 DEF AllRows
<1> QED
  BY <1>2, <1>4, <1>5, <1>6, <1>7 DEF FetchInv

\* A dropped fetcher takes nothing any more, and what was said stays said.
LEMMA DropKeeps ==
    ASSUME FetchInv, DropFetcher
    PROVE  FetchInv'
<1>1. /\ open /\ open' = FALSE /\ chan' = <<>> /\ prefetched' = <<>>
      /\ coord' = (IF coord = "ended" THEN coord ELSE "cancelled")
      /\ UNCHANGED <<taskVars, seen, order, inserted, accepted, stop, ended, offline, cut>>
  BY DEF DropFetcher
<1>2. FetchTypeOK'
  <2>1. /\ chan' \in Seq(AllRows) /\ Len(chan') <= Capacity
        /\ prefetched' \in Seq(AllRows) /\ Len(prefetched') <= 1
    BY <1>1, EmptySeq, FetcherAssumption
  <2> QED
    BY <1>1, <2>1 DEF FetchInv, FetchTypeOK, taskVars
<1>3. RingInv' /\ StageInv' /\ CachedMeansComplete' /\ FlowInv'
  BY <1>1 DEF FetchInv, RingInv, StageInv, CachedMeansComplete, FlowInv, taskVars
<1>4. PhaseInv' /\ EndInv'
  BY <1>1 DEF FetchInv, PhaseInv, EndInv, Enough, Alive, Parsing, taskVars
<1>5. NothingLost'
  BY <1>1 DEF FetchInv, NothingLost, taskVars
<1> QED
  BY <1>2, <1>3, <1>4, <1>5 DEF FetchInv
-----------------------------------------------------------------------------
(* The theorems.                                                             *)

\* A fetcher starts with nothing in hand and a cache of whole lists.
LEMMA FetchInitially == FetchInit => FetchInv
<1> SUFFICES ASSUME FetchInit
             PROVE  FetchInv
  OBVIOUS
<1>1. PICK U \in SUBSET Urls : cache = [u \in Urls |->
          IF u \in U THEN Rows(CHOOSE s \in Sources : Source[s].url = u) ELSE <<>>]
  BY DEF FetchInit
<1>2. \A u \in Urls : (CHOOSE s \in Sources : Source[s].url = u) \in Sources
                      /\ Source[CHOOSE s \in Sources : Source[s].url = u].url = u
  BY DEF Urls
<1>3. cache \in [Urls -> Seq(AllRows)]
  BY <1>1, <1>2, SourceFacts, EmptySeq
<1>4. CachedMeansComplete
  <2>1. SUFFICES ASSUME NEW t \in Sources, cache[Source[t].url] # <<>>
                 PROVE  cache[Source[t].url] = Rows(t)
    BY DEF CachedMeansComplete
  <2> DEFINE c == CHOOSE s \in Sources : Source[s].url = Source[t].url
  <2>2. c \in Sources /\ Source[c].url = Source[t].url
    BY <1>2, SourceFacts
  <2>3. cache[Source[t].url] = Rows(c)
    BY <1>1, <2>1, SourceFacts
  <2> HIDE DEF c
  <2> QED
    BY <2>2, <2>3, SourceFacts
<1>5. /\ task \in [Sources -> Stages] /\ \A s \in Sources : task[s] \in {"spawned", "unborn"}
      /\ tries = [s \in Sources |-> MaxAttempts] /\ MaxAttempts \in Nat \ {0}
      /\ parser = [s \in Sources |-> 0] /\ parsed = [s \in Sources |-> 0]
      /\ sent = [s \in Sources |-> 1]
      /\ chan = <<>> /\ prefetched = <<>> /\ inserted = <<>> /\ order = <<>> /\ seen = {}
      /\ open = TRUE /\ accepted = 0 /\ stop = FALSE /\ coord = "primary" /\ ended = FALSE /\ cut = FALSE
      /\ offline \in BOOLEAN
  BY FetcherAssumption DEF FetchInit, Stages, Resting
<1>6. FetchTypeOK
  <2>1. /\ tries \in [Sources -> 0..MaxAttempts]
        /\ parser \in [Sources -> Nat] /\ parsed \in [Sources -> Nat] /\ sent \in [Sources -> Nat \ {0}]
    BY <1>5
  <2>2. <<>> \in Seq(AllRows) /\ Len(<<>>) = 0 /\ Capacity \in Nat
    BY EmptySeq, FetcherAssumption
  <2>3. /\ chan \in Seq(AllRows) /\ Len(chan) <= Capacity
        /\ prefetched \in Seq(AllRows) /\ Len(prefetched) <= 1
        /\ seen \subseteq AllRows /\ order \in Seq(AllRows) /\ inserted \in Seq(AllRows)
    BY <1>5, <2>2
  <2> QED
    BY <1>3, <1>5, <2>1, <2>3 DEF FetchTypeOK
<1>7. RingInv
  <2>1. IsInjective(<<>>)
    BY EmptySeq DEF IsInjective
  <2> QED
    BY <1>5, <2>1, EmptyToSet, FS_EmptySet, FetcherAssumption DEF RingInv
<1>8. StageInv /\ FlowInv
  <2>1. ASSUME NEW s \in Sources
        PROVE  /\ tries[s] # 0 /\ parser[s] = 0 /\ sent[s] = 1 /\ task[s] \in {"spawned", "unborn"}
               /\ Len(Rows(s)) \in Nat
    BY <1>5, SourceFacts
  <2>2. StageInv
    BY <2>1 DEF StageInv
  <2>3. FlowInv
    <3>1. \A s \in Sources : \A i \in 1..Len(Rows(s)) : ~(i < parser[s])
      BY <2>1
    <3> QED
      BY <2>1, <3>1 DEF FlowInv
  <2> QED
    BY <2>2, <2>3
<1>9. PhaseInv /\ EndInv /\ NothingLost
  BY <1>5 DEF PhaseInv, EndInv, NothingLost
<1> QED
  BY <1>4, <1>6, <1>7, <1>8, <1>9 DEF FetchInv

\* Every step keeps the invariant.
LEMMA FetchStepKeeps == FetchInv /\ [FetchNext]_fetchVars => FetchInv'
<1> SUFFICES ASSUME FetchInv, [FetchNext]_fetchVars
             PROVE  FetchInv'
  OBVIOUS
<1>1. ASSUME NEW s \in Sources, TaskStep(s)
      PROVE  FetchInv'
  BY <1>1, BeginKeeps, FetchKeeps, StoreKeeps, ReplayKeeps DEF TaskStep
<1>2. ASSUME NEW s \in Sources, ParserStep(s)
      PROVE  FetchInv'
  BY <1>2, ParserSendsKeeps, ParserEndsKeeps, ParserFailsKeeps DEF ParserStep
<1>3. CASE CoordStep
  BY <1>3, CoordKeeps
<1>4. CASE Consume
  BY <1>4, RejectKeeps, AcceptKeeps, EndOfStreamKeeps DEF Consume
<1>5. CASE DropFetcher
  BY <1>5, DropKeeps
<1>6. CASE UNCHANGED fetchVars
  BY <1>6 DEF fetchVars, taskVars, readVars, FetchInv, FetchTypeOK, RingInv, StageInv, CachedMeansComplete,
       FlowInv, PhaseInv, EndInv, NothingLost, Enough, Alive, Parsing, InHand
<1> QED
  BY <1>1, <1>2, <1>3, <1>4, <1>5, <1>6 DEF FetchNext

\* The invariant of a fetch: the ring, the stages, the flow of the rows and the phases.
THEOREM FetchInvariant == FetchSpec => []FetchInv
BY FetchInitially, FetchStepKeeps, PTL DEF FetchSpec

\* The state of the fetcher has its types, the channel within its capacity.
THEOREM FetchTypes == FetchSpec => []FetchTypeOK
<1>1. FetchInv => FetchTypeOK
  BY DEF FetchInv
<1> QED
  BY <1>1, FetchInvariant, PTL

\* A stream that ends undisturbed has handed every row of every source to the consumer.
THEOREM StreamLosesNothing == FetchSpec => []NothingLost
<1>1. FetchInv => NothingLost
  BY DEF FetchInv
<1> QED
  BY <1>1, FetchInvariant, PTL

\* Only whole lists are ever cached.
THEOREM CacheHoldsWholeLists == FetchSpec => []CachedMeansComplete
<1>1. FetchInv => CachedMeansComplete
  BY DEF FetchInv
<1> QED
  BY <1>1, FetchInvariant, PTL

\* A stream that ends below the threshold has started every source.
THEOREM ShortStreamsFellBack == FetchSpec => []FallbackWhenShort
<1>1. FetchInv => FallbackWhenShort
  <2> SUFFICES ASSUME FetchInv, ended, Threshold # NoThreshold, accepted < Threshold
               PROVE  \A s \in Sources : task[s] # "unborn"
    BY DEF FallbackWhenShort
  <2>1. accepted \in Nat /\ Threshold \in Nat
    BY FetcherAssumption DEF FetchInv, FetchTypeOK
  <2>2. ~Enough
    BY <2>1 DEF Enough
  <2> QED
    BY <2>2 DEF FetchInv, PhaseInv, EndInv
<1> QED
  BY <1>1, FetchInvariant, PTL
-----------------------------------------------------------------------------
(***************************************************************************)
(* The score file (module Health).                                         *)
(***************************************************************************)
\* A line is read back as a record, or not at all.
IsLineOf(line, r) == line = <<<<r, "all">>>> \/ line = <<<<r, "front">>, <<r, "rest">>>>
TornLines == {i \in 1..Len(lines) : \A r \in Records : ~IsLineOf(lines[i], r)}
LastPiece(line) == line[Len(line)]

\* The open line starts with what an earlier, failed append left.
HalfWritten == inflight.state = "half"
Dangling == IF HalfWritten THEN Len(tail) > 1 ELSE Len(tail) > 0

\* The lock is held by the recorder that writes, only a begun record is written, and the
\* recorder that waits for a write waits for its own.
Holding == {"writing", "rewriting", "flushing"}
LockInv ==
    \A p \in Recorders :
        /\ writer = p <=> recorder[p].pc \in Holding
        /\ recorder[p].pc # "idle" => recorder[p].n > 0
        /\ At(p, "flushing") => inflight.state # "none" /\ inflight.of = RecordOf(p)

\* The open line ends with the piece that is half way, and what is not through is not a line.
WriteInv ==
    /\ HalfWritten => Len(tail) > 0 /\ tail[Len(tail)] = <<inflight.of, "front">>
    /\ inflight.state \in {"queued", "half", "failed"} => inflight.of \notin Decoded

\* A record is handed over once: the recorder that is before its write has no line of it.
HandedOver(r) ==
    /\ r[2] <= recorder[r[1]].n
    /\ r[2] = recorder[r[1]].n => recorder[r[1]].pc \in {"idle", "flushing"}
HandedInv ==
    /\ \A r \in Decoded : HandedOver(r)
    /\ inflight.state # "none" => HandedOver(inflight.of)

\* Every record that was counted, or is about to be, ended a line.
EndsLine(r) == \E i \in 1..Len(lines) : LastPiece(lines[i])[1] = r
EndedInv ==
    /\ \A i \in 1..Len(lines) : Len(lines[i]) > 0
    /\ \A r \in acked \cup memory : EndsLine(r)
    /\ inflight.state = "done" => EndsLine(inflight.of)

\* A torn append spoils the line of one record, or stands in the open line.
TornInv ==
    Cardinality(TornLines) + (IF Dangling THEN 1 ELSE 0) <= torn

\* What is in the file, or on its way, is counted or about to be, but for one record per drop.
OnItsWay == IF inflight.state \in {"queued", "half"} THEN {inflight.of} ELSE {}
Uncounted == ((Decoded \cup OnItsWay) \ memory) \ Awaited
CountedInv == Cardinality(Uncounted) <= drops

\* The inductive invariant.
HealthInv == HealthTypeOK /\ LockInv /\ WriteInv /\ HandedInv /\ EndedInv /\ TornInv /\ CountedInv

\* The states of one recorder, and of the write the handle waits for.
RecorderStates == [pc : RecorderStages, n : 0..RecordsEach]
Writes == [state : WriteStates \ {"none"}, of : Records]

\* A line of a record ends with a piece of it.
LEMMA LineEndsWithRecord ==
    ASSUME NEW line, NEW r, IsLineOf(line, r)
    PROVE  LastPiece(line)[1] = r
<1>1. CASE line = <<<<r, "all">>>>
  BY <1>1 DEF LastPiece
<1>2. CASE line = <<<<r, "front">>, <<r, "rest">>>>
  BY <1>2 DEF LastPiece
<1> QED
  BY <1>1, <1>2 DEF IsLineOf

\* Sequences of one and of two elements.
LEMMA ShortSequences ==
    ASSUME NEW S, NEW q \in Seq(S)
    PROVE  /\ Len(q) = 1 => q = <<q[1]>>
           /\ Len(q) = 2 => q = <<q[1], q[2]>>
<1>1. q \in [1..Len(q) -> S]
  BY LenProperties
<1>2. ASSUME Len(q) = 1
      PROVE  q = <<q[1]>>
  <2>1. q = [i \in 1..1 |-> q[i]]
    BY <1>1, <1>2
  <2>2. <<q[1]>> = [i \in 1..1 |-> q[i]]
    OBVIOUS
  <2> QED
    BY <2>1, <2>2
<1>3. ASSUME Len(q) = 2
      PROVE  q = <<q[1], q[2]>>
  <2>1. q = [i \in 1..2 |-> q[i]]
    BY <1>1, <1>3
  <2>2. <<q[1], q[2]>> = [i \in 1..2 |-> q[i]]
    OBVIOUS
  <2> QED
    BY <2>1, <2>2
<1> QED
  BY <1>2, <1>3

\* The torn lines are counted by a number.
LEMMA TornLinesFinite ==
    ASSUME HealthTypeOK
    PROVE  IsFiniteSet(TornLines) /\ Cardinality(TornLines) \in Nat /\ Len(lines) \in Nat /\ Len(tail) \in Nat
<1>1. Len(lines) \in Nat /\ Len(tail) \in Nat
  BY LenProperties DEF HealthTypeOK
<1>2. IsFiniteSet(1..Len(lines))
  BY <1>1, FS_Interval
<1>3. IsFiniteSet(TornLines)
  BY <1>2, FS_Subset DEF TornLines
<1> QED
  BY <1>1, <1>3, FS_CardinalityType

\* The uncounted records are counted by a number.
LEMMA UncountedFinite ==
    ASSUME HealthTypeOK
    PROVE  IsFiniteSet(Uncounted) /\ Cardinality(Uncounted) \in Nat /\ IsFiniteSet(Records) /\ Uncounted \subseteq Records
<1>1. IsFiniteSet(Records)
  <2>1. IsFiniteSet(Recorders) /\ IsFiniteSet(1..RecordsEach)
    BY HealthAssumption, FS_Interval
  <2> QED
    BY <2>1, FS_Product DEF Records
<1>2. Uncounted \subseteq Records
  <2>1. inflight.state \in {"queued", "half"} => inflight.of \in Records
    BY DEF HealthTypeOK, NoWrite
  <2> QED
    BY <2>1 DEF Uncounted, OnItsWay, Decoded
<1>3. IsFiniteSet(Uncounted)
  BY <1>1, <1>2, FS_Subset
<1> QED
  BY <1>1, <1>2, <1>3, FS_CardinalityType

\* The record of a recorder that is not idle, and the one the handle writes.
LEMMA RecordTyped ==
    ASSUME HealthInv, NEW p \in Recorders, recorder[p].pc # "idle"
    PROVE  /\ RecordOf(p) \in Records /\ RecordOf(p)[1] = p /\ RecordOf(p)[2] = recorder[p].n
<1>1. recorder[p].n \in 0..RecordsEach /\ recorder[p].n > 0 /\ RecordsEach \in Nat
  BY HealthAssumption DEF HealthInv, HealthTypeOK, LockInv
<1>2. recorder[p].n \in 1..RecordsEach
  BY <1>1
<1> QED
  BY <1>2 DEF RecordOf, Records

LEMMA WriteTyped ==
    ASSUME HealthInv
    PROVE  /\ inflight.state \in WriteStates /\ (inflight.state = "none" <=> inflight = NoWrite)
           /\ inflight.state # "none" =>
                /\ inflight \in Writes /\ inflight.of \in Records
                /\ \A k \in {"all", "front", "rest"} : <<inflight.of, k>> \in LinePieces
BY DEF HealthInv, HealthTypeOK, NoWrite, Writes, WriteStates, LinePieces

\* Moving one recorder.
LEMMA MovesRecorder ==
    ASSUME HealthInv, NEW p \in Recorders, NEW e \in RecorderStates, recorder' = [recorder EXCEPT ![p] = e]
    PROVE  /\ recorder' \in [Recorders -> RecorderStates] /\ recorder'[p] = e
           /\ \A q \in Recorders : q # p => recorder'[q] = recorder[q]
BY DEF HealthInv, HealthTypeOK, RecorderStates

\* Going to a stage keeps the number of the record.
LEMMA GotoFacts ==
    ASSUME HealthInv, NEW p \in Recorders, NEW pc \in RecorderStages, Goto(p, pc)
    PROVE  \E e \in RecorderStates : /\ e.pc = pc /\ e.n = recorder[p].n
                                     /\ recorder' = [recorder EXCEPT ![p] = e]
<1> DEFINE e == [recorder[p] EXCEPT !.pc = pc]
<1>1. recorder[p] \in RecorderStates
  BY DEF HealthInv, HealthTypeOK, RecorderStates
<1>2. e \in RecorderStates /\ e.pc = pc /\ e.n = recorder[p].n
  BY <1>1 DEF RecorderStates
<1>3. recorder' = [recorder EXCEPT ![p] = e]
  BY DEF Goto
<1> HIDE DEF e
<1> QED
  BY <1>2, <1>3

\* What a step of a recorder may do to the write of the handle: nothing, take its outcome,
\* or hand over the record of that recorder.
WriteStep(p, e) ==
    \/ inflight' = inflight
    \/ inflight.state \notin {"queued", "half"} /\ inflight' = NoWrite /\ writer = p
    \/ /\ inflight.state \notin {"queued", "half"} /\ inflight' = [state |-> "queued", of |-> RecordOf(p)] /\ writer = p
       /\ recorder[p].pc \in {"writing", "rewriting"} /\ e.pc = "flushing"

\* What a step of a recorder may do to its stage.
StageStep(p, e) ==
    /\ e.pc # "idle" => e.n > 0
    /\ \/ e.n = recorder[p].n /\ (recorder[p].pc \in {"idle", "flushing"} => e.pc = "idle")
       \/ e.n = recorder[p].n + 1 /\ recorder[p].pc = "idle" /\ e.pc = "append"
    /\ \/ e.pc \in Holding /\ writer' = p /\ writer \in {Nobody, p}
       \/ e.pc \notin Holding /\ writer' = (IF writer = p THEN Nobody ELSE writer)
    /\ e.pc = "flushing" => inflight' = [state |-> "queued", of |-> RecordOf(p)] /\ e.n = recorder[p].n
    /\ recorder[p].pc = "flushing" => inflight' = NoWrite

\* Which records a step of a recorder may count: its own, at the end of its write.
CountStep(p) ==
    /\ UNCHANGED <<torn, drops>>
    /\ \/ UNCHANGED <<memory, acked>> /\ (At(p, "flushing") => inflight.state = "failed")
       \/ /\ At(p, "flushing") /\ inflight.state = "done"
          /\ memory' = memory \cup {RecordOf(p)} /\ acked' = acked \cup {RecordOf(p)}

\* A step of one recorder that leaves the file alone.
LEMMA RecorderKeeps ==
    ASSUME HealthInv, NEW p \in Recorders, NEW e \in RecorderStates, recorder' = [recorder EXCEPT ![p] = e],
           WriteStep(p, e), StageStep(p, e), CountStep(p), FileSame,
           handle' \in {"good", "poisoned"}, faults' \in 0..MaxFaults
    PROVE  HealthInv'
<1>1. /\ recorder' \in [Recorders -> RecorderStates] /\ recorder'[p] = e
      /\ \A q \in Recorders : q # p => recorder'[q] = recorder[q]
  BY MovesRecorder
<1>2. /\ lines' = lines /\ tail' = tail /\ torn' = torn /\ drops' = drops
      /\ TornLines' = TornLines /\ Decoded' = Decoded /\ \A r : EndsLine(r)' <=> EndsLine(r)
  BY DEF FileSame, CountStep, TornLines, Decoded, EndsLine
<1>3. Nobody \notin Recorders /\ recorder[p] \in RecorderStates /\ recorder[p].n \in Nat /\ recorder[p].n + 1 > recorder[p].n
  BY HealthAssumption DEF HealthInv, HealthTypeOK, RecorderStates
<1>4. /\ At(p, "flushing") => writer = p /\ inflight.of = RecordOf(p) /\ inflight.state # "none" /\ RecordOf(p) \in Records
      /\ inflight' = [state |-> "queued", of |-> RecordOf(p)] /\ inflight' # inflight =>
            RecordOf(p) \in Records /\ RecordOf(p)[1] = p /\ RecordOf(p)[2] = recorder[p].n
  <2>1. At(p, "flushing") => writer = p /\ inflight.of = RecordOf(p) /\ inflight.state # "none"
    BY DEF HealthInv, LockInv, At, Holding
  <2>2. NoWrite # [state |-> "queued", of |-> RecordOf(p)]
    BY DEF NoWrite
  <2>3. inflight' = [state |-> "queued", of |-> RecordOf(p)] /\ inflight' # inflight => recorder[p].pc # "idle"
    BY <2>2 DEF WriteStep
  <2>4. recorder[p].pc # "idle" => RecordOf(p) \in Records /\ RecordOf(p)[1] = p /\ RecordOf(p)[2] = recorder[p].n
    BY RecordTyped
  <2> QED
    BY <2>1, <2>3, <2>4 DEF At
<1>5. HealthTypeOK'
  <2>1. inflight' \in [state : WriteStates \ {"none"}, of : Records] \cup {NoWrite}
    BY <1>4 DEF WriteStep, HealthInv, HealthTypeOK, WriteStates
  <2>2. memory' \subseteq Records /\ acked' \subseteq Records
    BY <1>4 DEF CountStep, HealthInv, HealthTypeOK
  <2>3. writer' \in Recorders \cup {Nobody}
    BY DEF StageStep, HealthInv, HealthTypeOK
  <2> QED
    BY <1>1, <1>2, <2>1, <2>2, <2>3 DEF HealthInv, HealthTypeOK, RecorderStates
<1>6. LockInv'
  <2>1. SUFFICES ASSUME NEW q \in Recorders
                 PROVE  /\ writer' = q <=> recorder'[q].pc \in Holding
                        /\ recorder'[q].pc # "idle" => recorder'[q].n > 0
                        /\ At(q, "flushing")' => inflight'.state # "none" /\ inflight'.of = RecordOf(q)'
    BY DEF LockInv
  <2>2. /\ writer = q <=> recorder[q].pc \in Holding
        /\ recorder[q].pc # "idle" => recorder[q].n > 0
        /\ At(q, "flushing") => inflight.state # "none" /\ inflight.of = RecordOf(q)
    BY DEF HealthInv, LockInv
  <2>3. CASE q = p
    <3>1. writer' = q <=> recorder'[q].pc \in Holding
      BY <1>1, <1>3, <2>3 DEF StageStep
    <3>2. At(q, "flushing")' => inflight'.state # "none" /\ inflight'.of = RecordOf(q)'
      BY <1>1, <2>3 DEF StageStep, At, RecordOf
    <3> QED
      BY <1>1, <2>3, <3>1, <3>2 DEF StageStep
  <2>4. CASE q # p
    <3>1. writer' = q <=> recorder'[q].pc \in Holding
      BY <1>1, <1>3, <2>2, <2>4 DEF StageStep
    <3>2. At(q, "flushing")' => inflight' = inflight
      BY <1>1, <2>2, <2>4 DEF At, Holding, WriteStep
    <3>3. At(q, "flushing")' => inflight'.state # "none" /\ inflight'.of = RecordOf(q)'
      BY <1>1, <2>2, <2>4, <3>2 DEF At, RecordOf
    <3> QED
      BY <1>1, <2>2, <2>4, <3>1, <3>3
  <2> QED
    BY <2>3, <2>4
<1>7. HalfWritten' <=> HalfWritten
  BY DEF HalfWritten, WriteStep, NoWrite
<1>8. HandedInv'
  <2>1. ASSUME NEW r \in Records, HandedOver(r)
        PROVE  HandedOver(r)'
    <3>1. r[1] \in Recorders /\ r[2] \in Nat
      BY HealthAssumption DEF Records
    <3>2. CASE r[1] = p
      BY <1>1, <1>3, <2>1, <3>1, <3>2 DEF HandedOver, StageStep
    <3>3. CASE r[1] # p
      BY <1>1, <2>1, <3>1, <3>3 DEF HandedOver
    <3> QED
      BY <3>2, <3>3
  <2>2. ASSUME inflight'.state # "none"
        PROVE  HandedOver(inflight.of)'
    <3>1. CASE inflight' = inflight
      BY <2>1, <2>2, <3>1, WriteTyped DEF HealthInv, HandedInv
    <3>2. CASE inflight' # inflight
      <4>1. inflight' = [state |-> "queued", of |-> RecordOf(p)] /\ e.pc = "flushing"
        BY <2>2, <3>2 DEF WriteStep, NoWrite
      <4>2. e.n = recorder[p].n
        BY <4>1 DEF StageStep
      <4> QED
        BY <1>1, <1>3, <1>4, <3>2, <4>1, <4>2 DEF HandedOver
    <3> QED
      BY <3>1, <3>2
  <2>3. Decoded \subseteq Records
    BY DEF Decoded
  <2> QED
    BY <1>2, <2>1, <2>2, <2>3 DEF HealthInv, HandedInv
<1>9. WriteInv'
  <2>1. CASE inflight' = inflight
    BY <1>2, <2>1 DEF HealthInv, WriteInv, HalfWritten
  <2>2. CASE inflight' = NoWrite
    BY <2>2 DEF WriteInv, HalfWritten, NoWrite
  <2>3. CASE inflight' # inflight /\ inflight' # NoWrite
    <3>1. inflight' = [state |-> "queued", of |-> RecordOf(p)] /\ recorder[p].pc \in {"writing", "rewriting"}
      BY <2>3 DEF WriteStep
    <3>2. RecordOf(p) \notin Decoded
      BY <1>3, <1>4, <2>3, <3>1 DEF HealthInv, HandedInv, HandedOver
    <3> QED
      BY <1>2, <3>1, <3>2 DEF WriteInv, HalfWritten
  <2> QED
    BY <2>1, <2>2, <2>3
<1>10. EndedInv'
  <2>1. \A r \in acked' \cup memory' : EndsLine(r)
    BY <1>4 DEF CountStep, HealthInv, EndedInv
  <2>2. inflight'.state = "done" => inflight' = inflight
    BY DEF WriteStep, NoWrite
  <2> QED
    BY <1>2, <2>1, <2>2 DEF HealthInv, EndedInv
<1>11. TornInv'
  <2>1. Dangling' <=> Dangling
    BY <1>2, <1>7 DEF Dangling
  <2> QED
    BY <1>2, <2>1 DEF HealthInv, TornInv
<1>12. CountedInv'
  <2>1. ASSUME NEW r \in Uncounted'
        PROVE  r \in Uncounted
    <3>1. r \in Decoded \cup OnItsWay' /\ r \notin memory' /\ r \notin Awaited' /\ r \in Records /\ r[1] \in Recorders
      <4>1. r \in Records
        <5>1. inflight'.state \in {"queued", "half"} => inflight'.of \in Records
          BY <1>5 DEF HealthTypeOK, NoWrite
        <5>2. Decoded' \subseteq Records
          BY <1>2 DEF Decoded
        <5> QED
          BY <2>1, <5>1, <5>2 DEF Uncounted, OnItsWay
      <4> QED
        BY <1>2, <2>1, <4>1 DEF Uncounted, Records
    <3>2. r \in Decoded \cup OnItsWay
      <4>1. CASE inflight' = inflight
        BY <3>1, <4>1 DEF OnItsWay
      <4>2. CASE inflight' = NoWrite
        BY <3>1, <4>2 DEF OnItsWay, NoWrite
      <4>3. CASE inflight' # inflight /\ inflight' # NoWrite
        <5>1. inflight' = [state |-> "queued", of |-> RecordOf(p)] /\ e.pc = "flushing"
          BY <4>3 DEF WriteStep
        <5>2. RecordOf(p) \in Awaited'
          BY <1>1, <1>4, <4>3, <5>1 DEF Awaited, At, StageStep
        <5>3. r \notin OnItsWay'
          BY <3>1, <5>1, <5>2 DEF OnItsWay
        <5> QED
          BY <3>1, <5>3
      <4> QED
        BY <4>1, <4>2, <4>3
    <3>3. r \notin memory
      BY <3>1 DEF CountStep
    <3>4. r \notin Awaited
      <4>1. SUFFICES ASSUME At(r[1], "flushing"), recorder[r[1]].n = r[2]
                     PROVE  FALSE
        BY DEF Awaited
      <4>2. r[1] = p
        BY <1>1, <3>1, <4>1 DEF Awaited, At
      <4>3. r = RecordOf(p)
        BY <3>1, <4>1, <4>2 DEF RecordOf, Records
      <4>4. inflight.state = "failed" /\ inflight' = NoWrite
        BY <3>1, <4>1, <4>2, <4>3 DEF CountStep, StageStep, At
      <4>5. r \notin Decoded /\ r \notin OnItsWay'
        BY <1>4, <4>1, <4>2, <4>3, <4>4 DEF HealthInv, WriteInv, OnItsWay, NoWrite
      <4> QED
        BY <3>1, <4>5
    <3> QED
      BY <3>2, <3>3, <3>4 DEF Uncounted
  <2>2. IsFiniteSet(Uncounted) /\ Cardinality(Uncounted) \in Nat
    BY UncountedFinite DEF HealthInv
  <2>3. Cardinality(Uncounted') <= Cardinality(Uncounted) /\ Cardinality(Uncounted') \in Nat
    BY <2>1, <2>2, FS_Subset, FS_CardinalityType
  <2> QED
    BY <1>2, <2>2, <2>3 DEF HealthInv, CountedInv, HealthTypeOK
<1> QED
  BY <1>5, <1>6, <1>8, <1>9, <1>10, <1>11, <1>12 DEF HealthInv

\* The steps of a recorder.
LEMMA RecorderSteps ==
    ASSUME HealthInv, NEW p \in Recorders,
           \/ RecordStarts(p) \/ LocksWriter(p) \/ HandsOver(p) \/ PreviousFailed(p) \/ WriteRefused(p)
           \/ Reopens(p) \/ Flushes(p) \/ FlushFails(p)
    PROVE  HealthInv'
<1>1. /\ recorder[p] \in RecorderStates /\ RecordsEach \in Nat /\ faults \in 0..MaxFaults /\ MaxFaults \in Nat
      /\ handle \in {"good", "poisoned"} /\ Nobody \notin Recorders
  BY HealthAssumption DEF HealthInv, HealthTypeOK, RecorderStates
<1>2. Fault => faults' \in 0..MaxFaults
  BY <1>1 DEF Fault
<1>3. /\ recorder[p].pc # "idle" => recorder[p].n > 0
      /\ writer = p <=> recorder[p].pc \in Holding
  BY DEF HealthInv, LockInv
<1>4. CASE RecordStarts(p)
  <2> DEFINE e == [pc |-> "append", n |-> recorder[p].n + 1]
  <2>1. recorder[p].n \in 0..RecordsEach /\ recorder[p].n < RecordsEach
    BY <1>1, <1>4 DEF RecordStarts, RecorderStates
  <2>2. e \in RecorderStates /\ e.pc = "append" /\ e.n > 0 /\ e.n = recorder[p].n + 1
    BY <1>1, <2>1 DEF RecorderStates, RecorderStages
  <2>3. /\ recorder' = [recorder EXCEPT ![p] = e] /\ recorder[p].pc = "idle"
        /\ FileSame /\ HistorySame /\ UNCHANGED <<writer, handle, inflight, faults>>
    BY <1>4 DEF RecordStarts, At
  <2> HIDE DEF e
  <2>4. WriteStep(p, e) /\ StageStep(p, e) /\ CountStep(p)
    BY <1>3, <2>2, <2>3 DEF WriteStep, StageStep, CountStep, HistorySame, Holding, At
  <2> QED
    BY <1>1, <2>2, <2>3, <2>4, RecorderKeeps
<1>5. CASE LocksWriter(p)
  <2>1. PICK pc \in {"writing", "rewriting"} : Goto(p, pc) /\ recorder[p].pc \in {"append", "again"}
    BY <1>5 DEF LocksWriter, At
  <2>2. PICK e \in RecorderStates : e.pc = pc /\ e.n = recorder[p].n /\ recorder' = [recorder EXCEPT ![p] = e]
    BY <2>1, GotoFacts DEF RecorderStages
  <2>3. writer = Nobody /\ writer' = p /\ FileSame /\ HistorySame /\ UNCHANGED <<handle, inflight, faults>>
    BY <1>5 DEF LocksWriter
  <2>4. WriteStep(p, e) /\ StageStep(p, e) /\ CountStep(p)
    BY <1>3, <2>1, <2>2, <2>3 DEF WriteStep, StageStep, CountStep, HistorySame, Holding, At
  <2> QED
    BY <1>1, <2>2, <2>3, <2>4, RecorderKeeps
<1>6. CASE HandsOver(p)
  <2>1. /\ writer = p /\ recorder[p].pc \in {"writing", "rewriting"} /\ inflight.state \notin {"queued", "half"}
        /\ inflight' = [state |-> "queued", of |-> RecordOf(p)] /\ Goto(p, "flushing")
        /\ FileSame /\ HistorySame /\ UNCHANGED <<writer, handle, faults>>
    BY <1>6 DEF HandsOver, Writing, Ready
  <2>2. PICK e \in RecorderStates : e.pc = "flushing" /\ e.n = recorder[p].n /\ recorder' = [recorder EXCEPT ![p] = e]
    BY <2>1, GotoFacts DEF RecorderStages
  <2>3. WriteStep(p, e) /\ StageStep(p, e) /\ CountStep(p)
    BY <1>3, <2>1, <2>2 DEF WriteStep, StageStep, CountStep, HistorySame, Holding, At
  <2> QED
    BY <1>1, <2>1, <2>2, <2>3, RecorderKeeps
<1>7. CASE PreviousFailed(p) \/ WriteRefused(p)
  <2>1. PICK pc \in {"idle", "reopen"} : Goto(p, pc)
    BY <1>7 DEF PreviousFailed, WriteRefused
  <2>2. PICK e \in RecorderStates : e.pc = pc /\ e.n = recorder[p].n /\ recorder' = [recorder EXCEPT ![p] = e]
    BY <2>1, GotoFacts DEF RecorderStages
  <2>3. /\ writer = p /\ recorder[p].pc \in {"writing", "rewriting"} /\ inflight.state \notin {"queued", "half"}
        /\ inflight' = NoWrite /\ writer' = Nobody /\ FileSame /\ HistorySame
        /\ handle' \in {"good", "poisoned"} /\ faults' \in 0..MaxFaults
    BY <1>1, <1>2, <1>7 DEF PreviousFailed, WriteRefused, Writing, Ready, Unlocks
  <2>4. WriteStep(p, e) /\ StageStep(p, e) /\ CountStep(p)
    BY <1>3, <2>1, <2>2, <2>3 DEF WriteStep, StageStep, CountStep, HistorySame, Holding, At
  <2> QED
    BY <2>2, <2>3, <2>4, RecorderKeeps
<1>8. CASE Reopens(p)
  <2>1. PICK pc \in {"again", "idle"} : Goto(p, pc) /\ recorder[p].pc = "reopen"
    BY <1>8 DEF Reopens, At
  <2>2. PICK e \in RecorderStates : e.pc = pc /\ e.n = recorder[p].n /\ recorder' = [recorder EXCEPT ![p] = e]
    BY <2>1, GotoFacts DEF RecorderStages
  <2>3. /\ UNCHANGED <<writer, inflight, faults>> /\ FileSame /\ HistorySame /\ handle' \in {"good", "poisoned"}
    BY <1>1, <1>8 DEF Reopens
  <2>4. WriteStep(p, e) /\ StageStep(p, e) /\ CountStep(p)
    BY <1>3, <2>1, <2>2, <2>3 DEF WriteStep, StageStep, CountStep, HistorySame, Holding, At
  <2> QED
    BY <1>1, <2>2, <2>3, <2>4, RecorderKeeps
<1>9. CASE Flushes(p) \/ FlushFails(p)
  <2>1. /\ Goto(p, "idle") /\ recorder[p].pc = "flushing" /\ inflight.state \in {"done", "failed"}
        /\ inflight' = NoWrite /\ writer' = Nobody /\ FileSame /\ UNCHANGED <<handle, faults>>
    BY <1>9 DEF Flushes, FlushFails, At, Unlocks
  <2>2. PICK e \in RecorderStates : e.pc = "idle" /\ e.n = recorder[p].n /\ recorder' = [recorder EXCEPT ![p] = e]
    BY <2>1, GotoFacts DEF RecorderStages
  <2>3. CountStep(p)
    BY <1>9 DEF Flushes, FlushFails, CountStep, HistorySame
  <2>4. WriteStep(p, e) /\ StageStep(p, e)
    BY <1>3, <2>1, <2>2 DEF WriteStep, StageStep, Holding
  <2> QED
    BY <1>1, <2>1, <2>2, <2>3, <2>4, RecorderKeeps
<1> QED
  BY <1>4, <1>5, <1>6, <1>7, <1>8, <1>9

\* Recorders that are cut leave at most one write without a recorder.
LEMMA CutKeeps ==
    ASSUME HealthInv, NEW S \in SUBSET Recorders, ValidatorDropped(S) \/ MeetsPoison(S)
    PROVE  HealthInv'
<1>1. /\ Cut(S) /\ FileSame /\ UNCHANGED <<memory, acked, torn, handle, inflight, faults>>
      /\ writer' = (IF writer \in S THEN Nobody ELSE writer)
      /\ recorder' = [p \in Recorders |-> IF p \in S THEN [recorder[p] EXCEPT !.pc = "idle"] ELSE recorder[p]]
  BY DEF ValidatorDropped, MeetsPoison, Cut
<1>2. /\ recorder' \in [Recorders -> RecorderStates]
      /\ \A p \in Recorders : recorder'[p].n = recorder[p].n
      /\ \A p \in S : recorder'[p].pc = "idle"
      /\ \A p \in Recorders \ S : recorder'[p] = recorder[p]
  <2>1. \A p \in Recorders : recorder[p] \in RecorderStates
    BY DEF HealthInv, HealthTypeOK, RecorderStates
  <2>2. \A p \in Recorders : /\ [recorder[p] EXCEPT !.pc = "idle"] \in RecorderStates
                             /\ [recorder[p] EXCEPT !.pc = "idle"].pc = "idle"
                             /\ [recorder[p] EXCEPT !.pc = "idle"].n = recorder[p].n
    BY <2>1 DEF RecorderStates, RecorderStages
  <2> QED
    BY <1>1, <2>1, <2>2
<1>3. /\ lines' = lines /\ tail' = tail /\ inflight' = inflight /\ memory' = memory /\ acked' = acked /\ torn' = torn
      /\ TornLines' = TornLines /\ Decoded' = Decoded /\ \A r : EndsLine(r)' <=> EndsLine(r)
  BY <1>1 DEF FileSame, TornLines, Decoded, EndsLine
<1>4. drops \in 0..MaxDrops /\ drops' \in 0..MaxDrops /\ MaxDrops \in Nat
      /\ (drops' = drops + 1 \/ (drops' = drops /\ MeetsPoison(S)))
  BY HealthAssumption DEF HealthInv, HealthTypeOK, ValidatorDropped, MeetsPoison
<1>5. HealthTypeOK'
  BY <1>1, <1>2, <1>3, <1>4 DEF HealthInv, HealthTypeOK, RecorderStates
<1>6. LockInv'
  <2>1. SUFFICES ASSUME NEW q \in Recorders
                 PROVE  /\ writer' = q <=> recorder'[q].pc \in Holding
                        /\ recorder'[q].pc # "idle" => recorder'[q].n > 0
                        /\ At(q, "flushing")' => inflight'.state # "none" /\ inflight'.of = RecordOf(q)'
    BY DEF LockInv
  <2>2. /\ writer = q <=> recorder[q].pc \in Holding
        /\ recorder[q].pc # "idle" => recorder[q].n > 0
        /\ At(q, "flushing") => inflight.state # "none" /\ inflight.of = RecordOf(q)
        /\ Nobody # q
    BY HealthAssumption DEF HealthInv, LockInv
  <2>3. CASE q \in S
    BY <1>1, <1>2, <2>2, <2>3 DEF At, Holding
  <2>4. CASE q \notin S
    BY <1>1, <1>2, <1>3, <2>2, <2>4 DEF At, RecordOf
  <2> QED
    BY <2>3, <2>4
<1>7. WriteInv' /\ EndedInv' /\ TornInv'
  BY <1>3 DEF HealthInv, WriteInv, EndedInv, TornInv, HalfWritten, Dangling
<1>8. HandedInv'
  <2>1. ASSUME NEW r \in Records, HandedOver(r)
        PROVE  HandedOver(r)'
    BY <1>2, <2>1 DEF HandedOver, Records
  <2>2. Decoded \subseteq Records /\ (inflight.state # "none" => inflight.of \in Records)
    BY WriteTyped DEF Decoded
  <2>3. inflight.state # "none" => HandedOver(inflight.of)'
    BY <1>2, <1>3, <2>2 DEF HealthInv, HandedInv, HandedOver, Records
  <2> QED
    BY <1>3, <2>1, <2>2, <2>3 DEF HealthInv, HandedInv
<1>9. CountedInv'
  <2> DEFINE lost == IF \E p \in S : At(p, "flushing") THEN {inflight.of} ELSE {}
  <2>1. OnItsWay' = OnItsWay
    BY <1>3 DEF OnItsWay
  <2>2. ASSUME NEW r \in Uncounted', r \notin Uncounted
        PROVE  r \in lost
    <3>1. r \in Awaited /\ r \notin Awaited'
      BY <1>3, <2>1, <2>2 DEF Uncounted
    <3>2. r \in Records /\ r[1] \in Recorders /\ At(r[1], "flushing") /\ recorder[r[1]].n = r[2]
      BY <3>1 DEF Awaited, Records
    <3>3. r[1] \in S
      BY <1>2, <3>1, <3>2 DEF Awaited, At
    <3>4. r = RecordOf(r[1])
      BY <3>2 DEF RecordOf, Records
    <3>5. inflight.of = RecordOf(r[1])
      BY <3>2 DEF HealthInv, LockInv
    <3> QED
      BY <3>2, <3>3, <3>4, <3>5
  <2>3. IsFiniteSet(Uncounted) /\ Cardinality(Uncounted) \in Nat /\ Cardinality(Uncounted) <= drops
    BY UncountedFinite DEF HealthInv, CountedInv
  <2>4. CASE MeetsPoison(S) /\ drops' = drops
    <3>1. ~\E p \in S : At(p, "flushing")
      BY <2>4 DEF MeetsPoison, Writing, HealthInv, LockInv, Holding, At
    <3>2. Uncounted' \subseteq Uncounted
      BY <2>2, <3>1
    <3>3. Cardinality(Uncounted') <= Cardinality(Uncounted) /\ Cardinality(Uncounted') \in Nat
      BY <2>3, <3>2, FS_Subset, FS_CardinalityType
    <3> QED
      BY <1>4, <2>3, <2>4, <3>3 DEF CountedInv
  <2>5. CASE drops' = drops + 1
    <3>1. Uncounted' \subseteq Uncounted \cup {inflight.of}
      BY <2>2
    <3>2. /\ IsFiniteSet(Uncounted \cup {inflight.of}) /\ Cardinality(Uncounted \cup {inflight.of}) <= Cardinality(Uncounted) + 1
          /\ Cardinality(Uncounted \cup {inflight.of}) \in Nat
      <4>1. CASE inflight.of \in Uncounted
        <5>1. Uncounted \cup {inflight.of} = Uncounted
          BY <4>1
        <5> QED
          BY <2>3, <5>1
      <4>2. CASE inflight.of \notin Uncounted
        <5>1. /\ IsFiniteSet(Uncounted \cup {inflight.of})
              /\ Cardinality(Uncounted \cup {inflight.of}) = Cardinality(Uncounted) + 1
          BY <2>3, <4>2, FS_AddElement
        <5> QED
          BY <2>3, <5>1
      <4> QED
        BY <4>1, <4>2
    <3>3. Cardinality(Uncounted') <= Cardinality(Uncounted \cup {inflight.of}) /\ Cardinality(Uncounted') \in Nat
      BY <3>1, <3>2, FS_Subset, FS_CardinalityType
    <3> QED
      BY <1>4, <2>3, <2>5, <3>2, <3>3 DEF CountedInv
  <2> QED
    BY <1>4, <2>4, <2>5
<1> QED
  BY <1>5, <1>6, <1>7, <1>8, <1>9 DEF HealthInv

\* What the pool does to the write, and to nothing else but the file.
PoolStep(state) ==
    /\ inflight' = [inflight EXCEPT !.state = state]
    /\ UNCHANGED <<memory, acked, drops, writer, handle, recorder>>

\* The parts of the invariant that a step of the pool keeps whatever it writes.
LEMMA PoolKeeps ==
    ASSUME HealthInv, NEW state \in WriteStates \ {"none"}, PoolStep(state), inflight.state # "none",
           state \in {"queued", "half"} => inflight.state \in {"queued", "half"},
           Decoded' \subseteq Decoded \cup OnItsWay, OnItsWay # {} => OnItsWay = {inflight.of}
    PROVE  /\ inflight'.state = state /\ inflight'.of = inflight.of /\ inflight' \in Writes
           /\ LockInv' /\ HandedInv' /\ CountedInv'
<1>1. /\ inflight'.state = state /\ inflight'.of = inflight.of /\ inflight' \in Writes /\ inflight.of \in Records
      /\ UNCHANGED <<memory, acked, drops, writer, handle, recorder>>
  BY WriteTyped DEF PoolStep, Writes
<1>2. LockInv'
  BY <1>1 DEF HealthInv, LockInv, At, RecordOf
<1>3. HandedInv'
  <2>1. ASSUME NEW r \in Decoded'
        PROVE  HandedOver(r)
    BY <2>1 DEF HealthInv, HandedInv, OnItsWay
  <2>2. \A r : HandedOver(r)' <=> HandedOver(r)
    BY <1>1 DEF HandedOver
  <2>3. HandedOver(inflight.of)' <=> HandedOver(inflight.of)
    BY <1>1 DEF HandedOver
  <2> QED
    BY <1>1, <2>1, <2>2, <2>3 DEF HealthInv, HandedInv
<1>4. CountedInv'
  <2>1. Awaited' = Awaited
    BY <1>1 DEF Awaited, At
  <2>2. OnItsWay' \subseteq OnItsWay
    BY <1>1 DEF OnItsWay
  <2>3. Uncounted' \subseteq Uncounted
    BY <1>1, <2>1, <2>2 DEF Uncounted
  <2>4. IsFiniteSet(Uncounted) /\ Cardinality(Uncounted) \in Nat /\ Cardinality(Uncounted) <= drops /\ drops \in Nat
    BY UncountedFinite, HealthAssumption DEF HealthInv, CountedInv, HealthTypeOK
  <2>5. Cardinality(Uncounted') <= Cardinality(Uncounted) /\ Cardinality(Uncounted') \in Nat
    BY <2>3, <2>4, FS_Subset, FS_CardinalityType
  <2> QED
    BY <1>1, <2>4, <2>5 DEF CountedInv
<1> QED
  BY <1>1, <1>2, <1>3, <1>4

\* A line that ends: of one record, unless a torn append stood before it.
LEMMA LineEndsKeeps ==
    ASSUME HealthInv, PoolWritesAll \/ PoolWritesRest
    PROVE  HealthInv'
<1> DEFINE kind == IF inflight.state = "half" THEN "rest" ELSE "all"
           r == inflight.of
           piece == <<r, kind>>
           line == Append(tail, piece)
<1>1. /\ lines \in Seq(Seq(LinePieces)) /\ tail \in Seq(LinePieces) /\ Len(lines) \in Nat /\ Len(tail) \in Nat
  BY LenProperties DEF HealthInv, HealthTypeOK
<1>2. /\ inflight.state \in {"queued", "half"} /\ PoolStep("done") /\ UNCHANGED <<torn, faults>>
      /\ lines' = Append(lines, line) /\ tail' = <<>>
  BY DEF PoolWritesAll, PoolWritesRest, PoolStep, PoolMoves, PoolOnly, HistorySame, Ends
<1>3. piece \in LinePieces /\ r \in Records /\ piece[1] = r /\ piece[2] = kind
  BY <1>2, WriteTyped
<1>4. HalfWritten => Len(tail) > 0 /\ tail[Len(tail)] = <<r, "front">>
  BY DEF HealthInv, WriteInv
<1>5. kind = (IF HalfWritten THEN "rest" ELSE "all")
  BY DEF HalfWritten
<1>6. OnItsWay = {r}
  BY <1>2 DEF OnItsWay
<1> HIDE DEF piece, r, kind
<1>7. /\ line \in Seq(LinePieces) /\ Len(line) = Len(tail) + 1 /\ line[Len(tail) + 1] = piece
      /\ \A i \in 1..Len(tail) : line[i] = tail[i]
  BY <1>1, <1>3, AppendProperties
<1>8. ~Dangling => IsLineOf(line, r)
  <2>1. SUFFICES ASSUME ~Dangling
                 PROVE  IsLineOf(line, r)
    OBVIOUS
  <2>2. CASE HalfWritten
    <3>1. Len(tail) = 1 /\ tail[1] = <<r, "front">> /\ kind = "rest"
      <4>1. Len(tail) > 0 /\ tail[Len(tail)] = <<r, "front">> /\ kind = "rest"
        BY <1>4, <1>5, <2>2
      <4>2. ~(Len(tail) > 1)
        BY <2>1, <2>2 DEF Dangling
      <4>3. Len(tail) = 1
        <5> DEFINE n == Len(tail)
        <5>1. n \in Nat /\ n > 0 /\ ~(n > 1)
          BY <1>1, <4>1, <4>2
        <5> HIDE DEF n
        <5>2. n = 1
          BY <5>1
        <5> QED
          BY <5>2 DEF n
      <4> QED
        BY <4>1, <4>3
    <3>2. Len(line) = 2 /\ line[1] = <<r, "front">> /\ line[2] = <<r, "rest">>
      BY <1>7, <3>1 DEF piece
    <3>3. line = <<<<r, "front">>, <<r, "rest">>>>
      BY <1>7, <3>2, ShortSequences
    <3> QED
      BY <3>3 DEF IsLineOf
  <2>3. CASE ~HalfWritten
    <3>1. Len(tail) = 0 /\ kind = "all"
      BY <1>1, <1>5, <2>1, <2>3 DEF Dangling
    <3>2. Len(line) = 1 /\ line[1] = <<r, "all">>
      BY <1>7, <3>1 DEF piece
    <3>3. line = <<<<r, "all">>>>
      BY <1>7, <3>2, ShortSequences
    <3> QED
      BY <3>3 DEF IsLineOf
  <2> QED
    BY <2>2, <2>3
<1>9. LastPiece(line) = piece /\ Len(line) > 0
  BY <1>1, <1>7 DEF LastPiece
<1> HIDE DEF line
<1>10. /\ lines' \in Seq(Seq(LinePieces)) /\ Len(lines') = Len(lines) + 1 /\ lines'[Len(lines) + 1] = line
       /\ \A i \in 1..Len(lines) : lines'[i] = lines[i]
       /\ \A i \in 1..Len(lines') : i \in 1..Len(lines) \/ i = Len(lines) + 1
       /\ \A i \in 1..Len(lines) : i \in 1..Len(lines')
       /\ Len(lines) + 1 \in 1..Len(lines')
       /\ DOMAIN lines = 1..Len(lines) /\ DOMAIN lines' = 1..Len(lines')
  <2>1. /\ lines' \in Seq(Seq(LinePieces)) /\ Len(lines') = Len(lines) + 1 /\ lines'[Len(lines) + 1] = line
        /\ \A i \in 1..Len(lines) : lines'[i] = lines[i]
    BY <1>1, <1>2, <1>7, AppendProperties DEF line
  <2> QED
    BY <1>1, <2>1, LenProperties
<1>11. Decoded' \subseteq Decoded \cup OnItsWay
  <2>1. SUFFICES ASSUME NEW s \in Decoded'
                 PROVE  s \in Decoded \cup {r}
    BY <1>6
  <2>2. PICK i \in 1..Len(lines') : IsLineOf(lines'[i], s)
    BY <1>10, <2>1 DEF Decoded, IsLineOf
  <2>3. CASE i = Len(lines) + 1
    <3>1. LastPiece(line)[1] = s
      BY <1>10, <2>2, <2>3, LineEndsWithRecord
    <3> QED
      BY <1>3, <1>9, <3>1
  <2>4. CASE i \in 1..Len(lines)
    BY <1>10, <2>1, <2>2, <2>4 DEF Decoded, IsLineOf
  <2> QED
    BY <1>10, <2>3, <2>4
<1>12. /\ inflight'.state = "done" /\ inflight'.of = r /\ inflight' \in Writes
       /\ LockInv' /\ HandedInv' /\ CountedInv'
  BY <1>2, <1>6, <1>11, PoolKeeps DEF r, WriteStates
<1>13. HealthTypeOK'
  BY <1>2, <1>10, <1>12, EmptySeq DEF HealthInv, HealthTypeOK, PoolStep, Writes
<1>14. WriteInv'
  BY <1>12 DEF WriteInv, HalfWritten
<1>15. EndedInv'
  <2>1. \A i \in 1..Len(lines') : Len(lines'[i]) > 0
    BY <1>9, <1>10 DEF HealthInv, EndedInv
  <2>2. EndsLine(inflight.of)'
    BY <1>3, <1>9, <1>10, <1>12 DEF EndsLine
  <2>3. ASSUME NEW s, EndsLine(s)
        PROVE  EndsLine(s)'
    BY <1>10, <2>3 DEF EndsLine
  <2> QED
    BY <1>2, <2>1, <2>2, <2>3 DEF HealthInv, EndedInv, PoolStep
<1>16. TornInv'
  <2>1. ~Dangling'
    <3>1. Len(tail') = 0
      BY <1>2, EmptySeq
    <3> QED
      BY <3>1 DEF Dangling
  <2>2. IsFiniteSet(TornLines) /\ Cardinality(TornLines) \in Nat /\ torn \in Nat
        /\ Cardinality(TornLines) + (IF Dangling THEN 1 ELSE 0) <= torn
    BY TornLinesFinite DEF HealthInv, TornInv, HealthTypeOK
  <2>3. TornLines' \subseteq TornLines \cup {Len(lines) + 1}
    BY <1>10 DEF TornLines
  <2>4. CASE Dangling
    <3>1. /\ IsFiniteSet(TornLines \cup {Len(lines) + 1})
          /\ Cardinality(TornLines \cup {Len(lines) + 1}) <= Cardinality(TornLines) + 1
      <4> DEFINE x == Len(lines) + 1
      <4>1. x \notin TornLines
        BY <1>1 DEF TornLines
      <4> HIDE DEF x
      <4>2. IsFiniteSet(TornLines \cup {x}) /\ Cardinality(TornLines \cup {x}) = Cardinality(TornLines) + 1
        BY <2>2, <4>1, FS_AddElement
      <4> QED
        BY <2>2, <4>2 DEF x
    <3>2. Cardinality(TornLines') <= Cardinality(TornLines \cup {Len(lines) + 1})
          /\ IsFiniteSet(TornLines')
      BY <2>3, <3>1, FS_Subset
    <3>3. Cardinality(TornLines') \in Nat /\ Cardinality(TornLines \cup {Len(lines) + 1}) \in Nat
      BY <3>1, <3>2, FS_CardinalityType
    <3> QED
      BY <1>2, <2>1, <2>2, <2>4, <3>1, <3>2, <3>3 DEF TornInv
  <2>5. CASE ~Dangling
    <3>1. TornLines' \subseteq TornLines
      BY <1>3, <1>8, <1>10, <2>3, <2>5 DEF TornLines
    <3>2. Cardinality(TornLines') <= Cardinality(TornLines) /\ IsFiniteSet(TornLines')
      BY <2>2, <3>1, FS_Subset
    <3>3. Cardinality(TornLines') \in Nat
      BY <3>2, FS_CardinalityType
    <3> QED
      BY <1>2, <2>1, <2>2, <2>5, <3>2, <3>3 DEF TornInv
  <2> QED
    BY <2>4, <2>5
<1> QED
  BY <1>12, <1>13, <1>14, <1>15, <1>16 DEF HealthInv

\* The front of a line: the append is half way.
LEMMA WritesFrontKeeps ==
    ASSUME HealthInv, PoolWritesFront
    PROVE  HealthInv'
<1> DEFINE piece == <<inflight.of, "front">>
<1>1. /\ inflight.state = "queued" /\ PoolStep("half") /\ Fault
      /\ tail' = Append(tail, piece) /\ lines' = lines /\ torn' = torn
  BY DEF PoolWritesFront, PoolStep, PoolMoves, PoolOnly, HistorySame, Adds
<1>2. piece \in LinePieces /\ tail \in Seq(LinePieces) /\ Len(tail) \in Nat
      /\ faults \in 0..MaxFaults /\ MaxFaults \in Nat
  BY <1>1, WriteTyped, LenProperties, HealthAssumption DEF HealthInv, HealthTypeOK
<1>3. TornLines' = TornLines /\ Decoded' = Decoded /\ \A r : EndsLine(r)' <=> EndsLine(r)
  BY <1>1 DEF TornLines, Decoded, EndsLine
<1>4. /\ inflight'.state = "half" /\ inflight'.of = inflight.of /\ inflight' \in Writes
      /\ LockInv' /\ HandedInv' /\ CountedInv'
  <2>1. OnItsWay = {inflight.of}
    BY <1>1 DEF OnItsWay
  <2> QED
    BY <1>1, <1>3, <2>1, PoolKeeps DEF WriteStates
<1> HIDE DEF piece
<1>5. tail' \in Seq(LinePieces) /\ Len(tail') = Len(tail) + 1 /\ tail'[Len(tail')] = piece
  BY <1>1, <1>2, AppendProperties
<1>6. HealthTypeOK'
  BY <1>1, <1>2, <1>4, <1>5 DEF HealthInv, HealthTypeOK, PoolStep, Writes, Fault
<1>7. WriteInv'
  BY <1>1, <1>2, <1>3, <1>4, <1>5 DEF HealthInv, WriteInv, HalfWritten, piece
<1>8. EndedInv'
  BY <1>1, <1>3, <1>4 DEF HealthInv, EndedInv, PoolStep
<1>9. TornInv'
  <2>1. ~HalfWritten /\ HalfWritten'
    BY <1>1, <1>4 DEF HalfWritten
  <2>2. Dangling' <=> Dangling
    BY <1>2, <1>5, <2>1 DEF Dangling
  <2> QED
    BY <1>1, <1>3, <2>2 DEF HealthInv, TornInv
<1> QED
  BY <1>4, <1>6, <1>7, <1>8, <1>9 DEF HealthInv

\* A failed write leaves at most one torn line open.
LEMMA PoolFailsKeeps ==
    ASSUME HealthInv, PoolFails
    PROVE  HealthInv'
<1>1. /\ PoolStep("failed") /\ lines' = lines /\ tail' = tail /\ inflight.state \in {"queued", "half"}
      /\ torn' = (IF HalfWritten THEN torn + 1 ELSE torn) /\ faults' \in 0..MaxFaults /\ torn \in Nat
  BY HealthAssumption DEF PoolFails, PoolStep, PoolMoves, FileSame, HalfWritten, Fault, HealthInv, HealthTypeOK
<1>2. TornLines' = TornLines /\ Decoded' = Decoded /\ \A r : EndsLine(r)' <=> EndsLine(r)
  BY <1>1 DEF TornLines, Decoded, EndsLine
<1>3. /\ inflight'.state = "failed" /\ inflight'.of = inflight.of /\ inflight' \in Writes
      /\ LockInv' /\ HandedInv' /\ CountedInv'
  <2>1. OnItsWay = {inflight.of}
    BY <1>1 DEF OnItsWay
  <2> QED
    BY <1>1, <1>2, <2>1, PoolKeeps DEF WriteStates
<1>4. HealthTypeOK'
  BY <1>1, <1>3 DEF HealthInv, HealthTypeOK, PoolStep, Writes
<1>5. WriteInv'
  BY <1>1, <1>2, <1>3 DEF HealthInv, WriteInv, HalfWritten
<1>6. EndedInv'
  BY <1>1, <1>2, <1>3 DEF HealthInv, EndedInv, PoolStep
<1>7. TornInv'
  <2>1. Cardinality(TornLines) \in Nat /\ Cardinality(TornLines) + (IF Dangling THEN 1 ELSE 0) <= torn
    BY TornLinesFinite DEF HealthInv, TornInv
  <2>2. ~HalfWritten'
    BY <1>3 DEF HalfWritten
  <2>3. CASE HalfWritten
    BY <1>1, <1>2, <2>1, <2>3 DEF TornInv
  <2>4. CASE ~HalfWritten
    <3>1. Dangling' <=> Dangling
      BY <1>1, <2>2, <2>4 DEF Dangling
    <3> QED
      BY <1>1, <1>2, <2>1, <2>4, <3>1 DEF TornInv
  <2> QED
    BY <2>3, <2>4
<1> QED
  BY <1>3, <1>4, <1>5, <1>6, <1>7 DEF HealthInv

\* A restart counts what the file gives, and tears the line that was half written.
LEMMA RestartsKeeps ==
    ASSUME HealthInv, Restarts
    PROVE  HealthInv'
<1>1. /\ torn' = (IF HalfWritten THEN torn + 1 ELSE torn) /\ Fault
      /\ memory' = Decoded /\ writer' = Nobody /\ handle' = "good" /\ inflight' = NoWrite /\ acked' = acked /\ drops' = drops
      /\ recorder' = [p \in Recorders |-> [recorder[p] EXCEPT !.pc = "idle"]]
      /\ lines' = lines /\ tail' = tail
  BY DEF Restarts, HalfWritten, FileSame, Unlocks
<1>2. /\ recorder' \in [Recorders -> RecorderStates]
      /\ \A p \in Recorders : recorder'[p].pc = "idle" /\ recorder'[p].n = recorder[p].n
  <2>1. \A p \in Recorders : recorder[p] \in RecorderStates
    BY DEF HealthInv, HealthTypeOK, RecorderStates
  <2>2. \A p \in Recorders : /\ [recorder[p] EXCEPT !.pc = "idle"] \in RecorderStates
                             /\ [recorder[p] EXCEPT !.pc = "idle"].pc = "idle"
                             /\ [recorder[p] EXCEPT !.pc = "idle"].n = recorder[p].n
    BY <2>1 DEF RecorderStates, RecorderStages
  <2> QED
    BY <1>1, <2>2
<1>3. TornLines' = TornLines /\ Decoded' = Decoded /\ \A r : EndsLine(r)' <=> EndsLine(r)
  BY <1>1 DEF TornLines, Decoded, EndsLine
<1>4. HealthTypeOK'
  <2>1. faults' \in 0..MaxFaults /\ torn' \in Nat /\ Decoded \subseteq Records
    BY <1>1, HealthAssumption DEF HealthInv, HealthTypeOK, Fault, Decoded
  <2> QED
    BY <1>1, <1>2, <2>1 DEF HealthInv, HealthTypeOK, RecorderStates
<1>5. LockInv'
  BY <1>1, <1>2, HealthAssumption DEF LockInv, At, Holding
<1>6. WriteInv' /\ HandedInv'
  <2>1. WriteInv'
    BY <1>1 DEF WriteInv, HalfWritten, NoWrite
  <2>2. \A r \in Decoded : HandedOver(r)'
    BY <1>2 DEF HandedOver, HealthInv, HandedInv, Decoded, Records
  <2> QED
    BY <1>1, <1>3, <2>1, <2>2 DEF HandedInv, NoWrite
<1>7. EndedInv'
  <2>1. ASSUME NEW s \in Decoded
        PROVE  EndsLine(s)
    <3>1. PICK i \in DOMAIN lines : IsLineOf(lines[i], s)
      BY <2>1 DEF Decoded, IsLineOf
    <3>2. LastPiece(lines[i])[1] = s
      BY <3>1, LineEndsWithRecord
    <3>3. DOMAIN lines = 1..Len(lines)
      BY LenProperties DEF HealthInv, HealthTypeOK
    <3> QED
      BY <3>1, <3>2, <3>3 DEF EndsLine
  <2> QED
    BY <1>1, <1>3, <2>1 DEF HealthInv, EndedInv, NoWrite
<1>8. TornInv'
  <2>1. ~HalfWritten'
    BY <1>1 DEF HalfWritten, NoWrite
  <2>2. Cardinality(TornLines) \in Nat /\ torn \in Nat /\ Cardinality(TornLines) + (IF Dangling THEN 1 ELSE 0) <= torn
    BY TornLinesFinite DEF HealthInv, TornInv, HealthTypeOK
  <2>3. CASE HalfWritten
    BY <1>1, <1>3, <2>2, <2>3 DEF TornInv
  <2>4. CASE ~HalfWritten
    <3>1. Dangling' <=> Dangling
      BY <1>1, <2>1, <2>4 DEF Dangling
    <3> QED
      BY <1>1, <1>3, <2>2, <2>4, <3>1 DEF TornInv
  <2> QED
    BY <2>3, <2>4
<1>9. CountedInv'
  <2>1. Uncounted' = {}
    BY <1>1, <1>3 DEF Uncounted, OnItsWay, NoWrite
  <2>2. Cardinality({}) = 0 /\ drops' \in Nat
    BY <1>1, FS_EmptySet, HealthAssumption DEF HealthInv, HealthTypeOK
  <2> QED
    BY <2>1, <2>2 DEF CountedInv
<1> QED
  BY <1>4, <1>5, <1>6, <1>7, <1>8, <1>9 DEF HealthInv
-----------------------------------------------------------------------------
(* The theorems.                                                             *)

\* An empty file is counted.
LEMMA HealthInitially == HealthInit => HealthInv
<1> SUFFICES ASSUME HealthInit
             PROVE  HealthInv
  OBVIOUS
<1>1. /\ lines = <<>> /\ tail = <<>> /\ memory = {} /\ writer = Nobody /\ handle = "good" /\ inflight = NoWrite
      /\ recorder \in [Recorders -> RecorderStates] /\ \A p \in Recorders : recorder[p].pc = "idle"
      /\ acked = {} /\ torn = 0 /\ drops = 0 /\ faults = 0
      /\ MaxFaults \in Nat /\ MaxDrops \in Nat /\ Nobody \notin Recorders
  BY HealthAssumption DEF HealthInit, RecorderStates, RecorderStages
<1>2. <<>> \in Seq(Seq(LinePieces)) /\ <<>> \in Seq(LinePieces) /\ Len(<<>>) = 0 /\ DOMAIN <<>> = {}
  BY EmptySeq
<1>3. HealthTypeOK
  BY <1>1, <1>2 DEF HealthTypeOK, RecorderStates
<1>4. LockInv
  BY <1>1 DEF LockInv, At, Holding
<1>5. Decoded = {} /\ TornLines = {} /\ ~Dangling
  BY <1>1, <1>2 DEF Decoded, TornLines, Dangling
<1>6. WriteInv /\ HandedInv /\ EndedInv
  BY <1>1, <1>2, <1>5 DEF WriteInv, HandedInv, EndedInv, HalfWritten, NoWrite
<1>7. TornInv
  BY <1>1, <1>5, FS_EmptySet DEF TornInv
<1>8. CountedInv
  <2>1. Uncounted = {}
    BY <1>1, <1>5 DEF Uncounted, OnItsWay, NoWrite
  <2> QED
    BY <1>1, <2>1, FS_EmptySet DEF CountedInv
<1> QED
  BY <1>3, <1>4, <1>6, <1>7, <1>8 DEF HealthInv

\* Every step keeps the invariant.
LEMMA HealthStepKeeps == HealthInv /\ [HealthNext]_healthVars => HealthInv'
<1> SUFFICES ASSUME HealthInv, [HealthNext]_healthVars
             PROVE  HealthInv'
  OBVIOUS
<1>1. ASSUME NEW p \in Recorders,
             \/ RecordStarts(p) \/ LocksWriter(p) \/ HandsOver(p) \/ PreviousFailed(p) \/ WriteRefused(p)
             \/ Reopens(p) \/ Flushes(p) \/ FlushFails(p)
      PROVE  HealthInv'
  BY <1>1, RecorderSteps
<1>2. CASE PoolWritesAll \/ PoolWritesRest
  BY <1>2, LineEndsKeeps
<1>3. CASE PoolWritesFront
  BY <1>3, WritesFrontKeeps
<1>4. CASE PoolFails
  BY <1>4, PoolFailsKeeps
<1>5. ASSUME NEW S \in SUBSET Recorders, ValidatorDropped(S) \/ MeetsPoison(S)
      PROVE  HealthInv'
  BY <1>5, CutKeeps
<1>6. CASE Restarts
  BY <1>6, RestartsKeeps
<1>7. CASE UNCHANGED healthVars
  BY <1>7 DEF healthVars, HealthInv, HealthTypeOK, LockInv, WriteInv, HandedInv, HandedOver, EndedInv, EndsLine, TornInv,
       CountedInv, Uncounted, OnItsWay, Awaited, Decoded, TornLines, Dangling, HalfWritten, At, RecordOf
<1> QED
  BY <1>1, <1>2, <1>3, <1>4, <1>5, <1>6, <1>7 DEF HealthNext

\* The invariant of the health store: the lock and the write it guards, the lines that ended,
\* the torn ones, and what is not counted.
THEOREM HealthInvariant == HealthSpec => []HealthInv
BY HealthInitially, HealthStepKeeps, PTL DEF HealthSpec

\* The state of the health store has its types.
THEOREM HealthTypes == HealthSpec => []HealthTypeOK
<1>1. HealthInv => HealthTypeOK
  BY DEF HealthInv
<1> QED
  BY <1>1, HealthInvariant, PTL

\* A set of records that each ended a torn line is no larger than the torn lines.
LEMMA LostRecords ==
    ASSUME HealthInv, NEW R, R \subseteq Records,
           \A r \in R : r \notin Decoded /\ EndsLine(r)
    PROVE  Cardinality(R) <= torn
<1> DEFINE f == [i \in TornLines |-> LastPiece(lines[i])[1]]
           T == {f[i] : i \in TornLines}
<1>1. /\ IsFiniteSet(TornLines) /\ Cardinality(TornLines) \in Nat /\ torn \in Nat
      /\ Cardinality(TornLines) <= torn /\ DOMAIN lines = 1..Len(lines)
  <2>1. IsFiniteSet(TornLines) /\ Cardinality(TornLines) \in Nat
    BY TornLinesFinite DEF HealthInv
  <2>2. torn \in Nat /\ Cardinality(TornLines) + (IF Dangling THEN 1 ELSE 0) <= torn
    BY DEF HealthInv, HealthTypeOK, TornInv
  <2>3. DOMAIN lines = 1..Len(lines)
    BY LenProperties DEF HealthInv, HealthTypeOK
  <2> QED
    BY <2>1, <2>2, <2>3
<1>2. ASSUME NEW r \in R
      PROVE  r \in T
  <2>1. PICK i \in 1..Len(lines) : LastPiece(lines[i])[1] = r
    BY DEF EndsLine
  <2>2. ASSUME NEW s \in Records, IsLineOf(lines[i], s)
        PROVE  FALSE
    <3>1. LastPiece(lines[i])[1] = s
      BY <2>2, LineEndsWithRecord
    <3>2. s \in Decoded
      BY <1>1, <2>2 DEF Decoded, IsLineOf
    <3> QED
      BY <2>1, <3>1, <3>2
  <2>3. i \in TornLines
    BY <2>2 DEF TornLines
  <2> QED
    BY <2>1, <2>3
<1>3. f \in Surjection(TornLines, T)
  BY Zenon DEF Surjection
<1> HIDE DEF f, T
<1>4. IsFiniteSet(T) /\ Cardinality(T) <= Cardinality(TornLines)
  BY <1>1, <1>3, FS_Surjection
<1>5. IsFiniteSet(R) /\ Cardinality(R) <= Cardinality(T)
  BY <1>2, <1>4, FS_Subset
<1> QED
  BY <1>1, <1>4, <1>5, FS_CardinalityType

\* Every torn append costs at most one record, and what is in the file is counted, but for
\* one record per dropped validator.
THEOREM TornAppendsAreCheap == HealthSpec => []TornAppendCostsOne
<1>1. HealthInv => TornAppendCostsOne
  <2> SUFFICES ASSUME HealthInv
               PROVE  TornAppendCostsOne
    OBVIOUS
  <2>1. acked \subseteq Records /\ memory \subseteq Records /\ \A r \in acked \cup memory : EndsLine(r)
    BY DEF HealthInv, HealthTypeOK, EndedInv
  <2>2. Cardinality(acked \ Decoded) <= torn /\ Cardinality(memory \ Decoded) <= torn
    BY <2>1, LostRecords
  <2>3. Cardinality((Decoded \ memory) \ Awaited) <= drops
    <3>1. (Decoded \ memory) \ Awaited \subseteq Uncounted
      BY DEF Uncounted
    <3>2. IsFiniteSet(Uncounted) /\ Cardinality(Uncounted) \in Nat /\ Cardinality(Uncounted) <= drops
      BY UncountedFinite DEF HealthInv, CountedInv
    <3>3. drops \in Nat
      BY HealthAssumption DEF HealthInv, HealthTypeOK
    <3>4. /\ Cardinality((Decoded \ memory) \ Awaited) <= Cardinality(Uncounted)
          /\ Cardinality((Decoded \ memory) \ Awaited) \in Nat
      BY <3>1, <3>2, FS_Subset, FS_CardinalityType
    <3> QED
      BY <3>2, <3>3, <3>4
  <2> QED
    BY <2>2, <2>3 DEF TornAppendCostsOne
<1> QED
  BY <1>1, HealthInvariant, PTL
-----------------------------------------------------------------------------
(***************************************************************************)
(* The geo databases (module GeoSync).                                     *)
(***************************************************************************)
ProcessStates == [pc : GeoStages, op : {"sync", "ensure"}, rev : 0..MaxRevision, runs : 0..MaxRuns]

\* Every revision anywhere was the mirror's at some time, and the mirror only moves on.
MirrorInv ==
    /\ database <= mirror /\ partial <= mirror /\ marker <= mirror /\ markerTmp <= mirror
    /\ \A p \in Processes : process[p].rev <= mirror

\* The old pair of files is the first thing any run takes over.
LegacyInv ==
    legacy.database # Missing =>
        /\ database = Missing /\ marker = Missing
        /\ \A p \in Processes : process[p].pc \in {"rest", "migrate"}

\* One process at a time downloads, and installs what it downloaded itself.
DownloadInv ==
    \A p \in Processes :
        /\ process[p].pc \in {"body", "install"} <=> geoLock = p
        /\ process[p].pc = "install" => partial = process[p].rev

\* A process alone never asks for less than the marker says, and marks what it installed.
SoloInv ==
    ~overlapped =>
        /\ \A p, q \in Working : p = q
        /\ database > Missing => marker <= database
        /\ \A p \in Processes :
              /\ process[p].pc \in {"lock", "body", "install", "mark", "renameMarker"} => marker <= process[p].rev
              /\ process[p].pc \in {"mark", "renameMarker"} => database = process[p].rev
              /\ process[p].pc = "renameMarker" => markerTmp = process[p].rev

\* The inductive invariant.
GeoInv == GeoTypeOK /\ MirrorInv /\ LegacyInv /\ DownloadInv /\ SoloInv

\* The types of the files, none newer than the mirror.
FilesTyped ==
    /\ database \in (0..MaxRevision) \cup {Corrupt} /\ partial \in (0..MaxRevision) \cup {Corrupt}
    /\ marker \in 0..MaxRevision /\ markerTmp \in 0..MaxRevision
    /\ legacy \in [database : {Missing, 1}, marker : {Missing, 1}]
    /\ database <= mirror /\ partial <= mirror /\ marker <= mirror /\ markerTmp <= mirror

\* What the invariant says of the files and of one process.
LEMMA GeoFacts ==
    ASSUME GeoInv, NEW p \in Processes
    PROVE  /\ FilesTyped /\ mirror \in 1..MaxRevision /\ MaxRevision \in Nat \ {0}
           /\ process[p] \in ProcessStates /\ process[p].rev <= mirror
           /\ geoLock \in Processes \cup {NoProcess} /\ NoProcess \notin Processes
           /\ process[p].pc \in {"body", "install"} <=> geoLock = p
           /\ process[p].pc = "install" => partial = process[p].rev
           /\ process[p].pc \notin {"rest", "migrate"} => legacy.database = Missing
BY GeoAssumption DEF GeoInv, GeoTypeOK, MirrorInv, LegacyInv, DownloadInv, FilesTyped, ProcessStates

\* A step of a process that is at work.
LEMMA ProcessKeeps ==
    ASSUME GeoInv, NEW p \in Processes, NEW e \in ProcessStates, process' = [process EXCEPT ![p] = e],
           process[p].pc # "rest", UNCHANGED <<mirror, overlapped>>, e.rev <= mirror, FilesTyped',
           legacy'.database # Missing =>
               legacy.database # Missing /\ database' = Missing /\ marker' = Missing /\ e.pc \in {"rest", "migrate"},
           \/ e.pc \in {"body", "install"} /\ geoLock' = p /\ geoLock \in {NoProcess, p}
           \/ e.pc \notin {"body", "install"} /\ geoLock' = (IF geoLock = p THEN NoProcess ELSE geoLock),
           partial' = partial \/ p \in {geoLock, geoLock'},
           e.pc = "install" => partial' = e.rev,
           ~overlapped =>
               /\ database' > Missing => marker' <= database'
               /\ e.pc \in {"lock", "body", "install", "mark", "renameMarker"} => marker' <= e.rev
               /\ e.pc \in {"mark", "renameMarker"} => database' = e.rev
               /\ e.pc = "renameMarker" => markerTmp' = e.rev
    PROVE  GeoInv'
<1>1. process \in [Processes -> ProcessStates]
  BY DEF GeoInv, GeoTypeOK, ProcessStates
<1>2. /\ process' \in [Processes -> ProcessStates] /\ process'[p] = e
      /\ \A q \in Processes : q # p => process'[q] = process[q]
  BY <1>1
<1>3. geoLock' \in Processes \cup {NoProcess}
  BY GeoFacts
<1>4. GeoTypeOK'
  BY <1>2, <1>3 DEF GeoInv, GeoTypeOK, FilesTyped, ProcessStates
<1>5. MirrorInv'
  BY <1>2 DEF GeoInv, MirrorInv, FilesTyped
<1>6. LegacyInv'
  BY <1>2 DEF GeoInv, LegacyInv
<1>7. DownloadInv'
  <2>1. SUFFICES ASSUME NEW q \in Processes
                 PROVE  /\ process'[q].pc \in {"body", "install"} <=> geoLock' = q
                        /\ process'[q].pc = "install" => partial' = process'[q].rev
    BY DEF DownloadInv
  <2>2. CASE q = p
    BY <1>2, <2>2, GeoFacts
  <2>3. CASE q # p
    <3>1. /\ process[q].pc \in {"body", "install"} <=> geoLock = q
          /\ process[q].pc = "install" => partial = process[q].rev
      BY GeoFacts
    <3>2. geoLock' = q <=> geoLock = q
      BY <2>3, GeoFacts
    <3> QED
      BY <1>2, <2>3, <3>1, <3>2
  <2> QED
    BY <2>2, <2>3
<1>8. SoloInv'
  <2>1. SUFFICES ASSUME ~overlapped
                 PROVE  SoloInv'
    BY DEF SoloInv
  <2>2. \A q \in Processes : q # p => process[q].pc = "rest"
    BY <2>1 DEF GeoInv, SoloInv, Working
  <2>3. \A q \in Processes : q # p => process'[q].pc = "rest"
    BY <1>2, <2>2
  <2>4. \A q, r \in Working' : q = r
    BY <2>3 DEF Working
  <2>5. ASSUME NEW q \in Processes
        PROVE  /\ process'[q].pc \in {"lock", "body", "install", "mark", "renameMarker"} => marker' <= process'[q].rev
               /\ process'[q].pc \in {"mark", "renameMarker"} => database' = process'[q].rev
               /\ process'[q].pc = "renameMarker" => markerTmp' = process'[q].rev
    BY <1>2, <2>1, <2>3
  <2> QED
    BY <2>1, <2>4, <2>5 DEF SoloInv
<1> QED
  BY <1>4, <1>5, <1>6, <1>7, <1>8 DEF GeoInv

\* Going to a stage changes nothing else of a process.
LEMMA ProcessToFacts ==
    ASSUME GeoInv, NEW p \in Processes, NEW pc \in GeoStages, ProcessTo(p, pc)
    PROVE  \E e \in ProcessStates : /\ e.pc = pc /\ e.rev = process[p].rev /\ e.op = process[p].op
                                    /\ process' = [process EXCEPT ![p] = e]
<1> DEFINE e == [process[p] EXCEPT !.pc = pc]
<1>1. e \in ProcessStates /\ e.pc = pc /\ e.rev = process[p].rev /\ e.op = process[p].op
  BY GeoFacts DEF ProcessStates
<1>2. process' = [process EXCEPT ![p] = e]
  BY DEF ProcessTo
<1> HIDE DEF e
<1> QED
  BY <1>1, <1>2

\* What a process alone knows.
LEMMA SoloFacts ==
    ASSUME GeoInv, NEW p \in Processes, ~overlapped
    PROVE  /\ database > Missing => marker <= database
           /\ process[p].pc \in {"lock", "body", "install", "mark", "renameMarker"} => marker <= process[p].rev
           /\ process[p].pc \in {"mark", "renameMarker"} => database = process[p].rev
           /\ process[p].pc = "renameMarker" => markerTmp = process[p].rev
BY DEF GeoInv, SoloInv

\* A run starts; it is alone unless another one is at work.
LEMMA GeoStartsKeeps ==
    ASSUME GeoInv, NEW p \in Processes, NEW op \in {"sync", "ensure"}, GeoStarts(p, op)
    PROVE  GeoInv'
<1> DEFINE e == [pc |-> "migrate", op |-> op, rev |-> Missing, runs |-> process[p].runs + 1]
<1>1. /\ process[p].pc = "rest" /\ process[p].runs < MaxRuns
      /\ process' = [process EXCEPT ![p] = e] /\ overlapped' = (overlapped \/ Working # {})
      /\ UNCHANGED <<database, partial, marker, markerTmp, mirror, geoLock, legacy>>
  BY DEF GeoStarts, ProcessAt, FilesSame
<1>2. process[p].runs \in 0..MaxRuns /\ MaxRuns \in Nat
  BY GeoFacts, GeoAssumption DEF ProcessStates
<1>3. e \in ProcessStates /\ e.pc = "migrate" /\ e.rev = 0
  BY <1>1, <1>2, GeoAssumption DEF ProcessStates, GeoStages, Missing
<1> HIDE DEF e
<1>4. process \in [Processes -> ProcessStates]
  BY DEF GeoInv, GeoTypeOK, ProcessStates
<1>5. /\ process' \in [Processes -> ProcessStates] /\ process'[p] = e
      /\ \A q \in Processes : q # p => process'[q] = process[q]
  BY <1>1, <1>3, <1>4
<1>6. GeoTypeOK'
  BY <1>1, <1>5 DEF GeoInv, GeoTypeOK, ProcessStates
<1>7. MirrorInv' /\ LegacyInv'
  <2>1. 0 <= mirror
    BY GeoFacts
  <2> QED
    BY <1>1, <1>3, <1>5, <2>1 DEF GeoInv, MirrorInv, LegacyInv
<1>8. DownloadInv'
  <2>1. geoLock # p
    BY <1>1, GeoFacts
  <2> QED
    BY <1>1, <1>3, <1>5, <2>1 DEF GeoInv, DownloadInv
<1>9. SoloInv'
  <2>1. SUFFICES ASSUME ~overlapped, Working = {}
                 PROVE  SoloInv'
    BY <1>1 DEF SoloInv
  <2>2. \A q \in Processes : q # p => process'[q].pc = "rest"
    BY <1>5, <2>1 DEF Working
  <2>3. \A q, r \in Working' : q = r
    BY <2>2 DEF Working
  <2>4. database > Missing => marker <= database
    BY <2>1, SoloFacts
  <2> QED
    BY <1>1, <1>3, <1>5, <2>2, <2>3, <2>4 DEF SoloInv
<1> QED
  BY <1>6, <1>7, <1>8, <1>9 DEF GeoInv

\* The old files are taken over, the database first.
LEMMA MigratesKeeps ==
    ASSUME GeoInv, NEW p \in Processes, Migrates(p) \/ MigratesMarker(p)
    PROVE  GeoInv'
<1>1. CASE Migrates(p)
  <2>1. PICK pc \in {"migrateMarker", "begin"} : ProcessTo(p, pc)
    BY <1>1 DEF Migrates
  <2>2. PICK e \in ProcessStates : /\ e.pc = pc /\ e.rev = process[p].rev /\ e.op = process[p].op
                                   /\ process' = [process EXCEPT ![p] = e]
    BY <2>1, ProcessToFacts DEF GeoStages
  <2>3. /\ process[p].pc = "migrate" /\ UNCHANGED <<mirror, partial, marker, markerTmp, geoLock, overlapped>>
        /\ \/ /\ database = Missing /\ legacy.database # Missing
              /\ database' = legacy.database /\ legacy' = [legacy EXCEPT !.database = Missing]
           \/ (database # Missing \/ legacy.database = Missing) /\ UNCHANGED <<database, legacy>>
    BY <1>1 DEF Migrates, ProcessAt
  <2>4. /\ legacy'.database = Missing
        /\ FilesTyped'
        /\ ~overlapped => (database' > Missing => marker' <= database')
    <3>1. CASE /\ database = Missing /\ legacy.database # Missing
               /\ database' = legacy.database /\ legacy' = [legacy EXCEPT !.database = Missing]
      <4>1. marker = Missing /\ legacy.database = 1 /\ FilesTyped /\ mirror \in 1..MaxRevision
        BY <3>1, GeoFacts DEF GeoInv, LegacyInv, FilesTyped
      <4>2. legacy' \in [database : {Missing, 1}, marker : {Missing, 1}] /\ legacy'.database = Missing
        BY <3>1, <4>1 DEF FilesTyped
      <4>3. database' = 1 /\ 1 \in (0..MaxRevision) \cup {Corrupt} /\ 1 <= mirror /\ marker' = 0
        BY <2>3, <3>1, <4>1, GeoFacts DEF Missing
      <4>4. FilesTyped'
        BY <2>3, <4>1, <4>2, <4>3 DEF FilesTyped
      <4> QED
        BY <4>2, <4>3, <4>4
    <3>2. CASE (database # Missing \/ legacy.database = Missing) /\ UNCHANGED <<database, legacy>>
      BY <2>3, <3>2, GeoFacts, SoloFacts DEF GeoInv, LegacyInv, FilesTyped
    <3> QED
      BY <2>3, <3>1, <3>2
  <2>5. geoLock # p /\ e.rev <= mirror
    BY <2>2, <2>3, GeoFacts
  <2> QED
    BY <2>1, <2>2, <2>3, <2>4, <2>5, ProcessKeeps
<1>2. CASE MigratesMarker(p)
  <2>1. PICK e \in ProcessStates : /\ e.pc = "begin" /\ e.rev = process[p].rev /\ e.op = process[p].op
                                   /\ process' = [process EXCEPT ![p] = e]
    BY <1>2, ProcessToFacts DEF GeoStages, MigratesMarker
  <2>2. /\ process[p].pc = "migrateMarker" /\ UNCHANGED <<mirror, database, partial, markerTmp, geoLock, overlapped>>
        /\ \/ /\ marker = Missing /\ legacy.marker # Missing
              /\ marker' = legacy.marker /\ legacy' = [legacy EXCEPT !.marker = Missing]
           \/ UNCHANGED <<marker, legacy>>
    BY <1>2 DEF MigratesMarker, ProcessAt
  <2>3. legacy.database = Missing /\ FilesTyped /\ mirror \in 1..MaxRevision /\ geoLock # p /\ e.rev <= mirror
        /\ MaxRevision \in Nat \ {0}
    BY <2>1, <2>2, GeoFacts
  <2>4. legacy'.database = Missing /\ legacy' \in [database : {Missing, 1}, marker : {Missing, 1}]
        /\ marker' \in {marker, 1}
    BY <2>2, <2>3 DEF FilesTyped
  <2>5. FilesTyped'
    BY <2>2, <2>3, <2>4 DEF FilesTyped
  <2>6. ~overlapped => (database' > Missing => marker' <= database')
    BY <2>2, <2>3, <2>4, SoloFacts DEF FilesTyped, Missing, Corrupt
  <2> QED
    BY <2>1, <2>2, <2>3, <2>4, <2>5, <2>6, ProcessKeeps
<1> QED
  BY <1>1, <1>2

\* Steps that leave the files alone.
LEMMA AskingKeeps ==
    ASSUME GeoInv, NEW p \in Processes, Begins(p) \/ Asks(p) \/ GivesUpEarly(p) \/ Opens(p) \/ Dies(p)
    PROVE  GeoInv'
<1>1. /\ process[p] \in ProcessStates /\ FilesTyped /\ mirror \in 1..MaxRevision /\ MaxRevision \in Nat \ {0}
      /\ process[p].rev <= mirror /\ NoProcess \notin Processes
      /\ process[p].pc \in {"body", "install"} <=> geoLock = p
  BY GeoFacts
<1>2. UNCHANGED <<mirror, legacy, overlapped, database, partial, marker, markerTmp>>
  BY DEF Begins, Asks, GivesUpEarly, Opens, Dies, FilesSame, RestSame
<1>3. FilesTyped'
  BY <1>1, <1>2 DEF FilesTyped
<1>4. ~overlapped => (database' > Missing => marker' <= database')
  BY <1>2, SoloFacts
<1>5. process[p].pc # "rest"
  BY DEF Begins, Asks, GivesUpEarly, Opens, Dies, ProcessAt
<1>6. CASE Begins(p)
  <2> DEFINE pc == IF process[p].op = "sync" \/ database = Missing THEN "ask" ELSE "open"
             rev == IF process[p].op = "sync" /\ database > Missing THEN marker ELSE Missing
             e == [process[p] EXCEPT !.pc = pc, !.rev = rev]
  <2>1. /\ process' = [process EXCEPT ![p] = e] /\ process[p].pc = "begin" /\ geoLock' = geoLock
    BY <1>6 DEF Begins, ProcessAt
  <2>2. rev \in 0..MaxRevision /\ rev <= mirror /\ pc \in {"ask", "open"}
    BY <1>1 DEF FilesTyped, Missing
  <2> HIDE DEF pc, rev
  <2>3. e \in ProcessStates /\ e.pc \in {"ask", "open"} /\ e.rev <= mirror
    BY <1>1, <2>2 DEF ProcessStates, GeoStages
  <2>4. legacy.database = Missing
    BY <2>1, GeoFacts
  <2> HIDE DEF e
  <2> QED
    BY <1>1, <1>2, <1>3, <1>4, <2>1, <2>3, <2>4, ProcessKeeps
<1>7. CASE Asks(p) /\ process[p].rev # mirror
  <2> DEFINE e == [process[p] EXCEPT !.pc = "lock", !.rev = mirror]
  <2>1. /\ process' = [process EXCEPT ![p] = e] /\ process[p].pc = "ask" /\ geoLock' = geoLock
    BY <1>7 DEF Asks, ProcessAt
  <2>5. mirror \in 0..MaxRevision /\ "lock" \in GeoStages
    BY <1>1 DEF GeoStages
  <2>2. e \in ProcessStates /\ e.pc = "lock" /\ e.rev = mirror
    BY <1>1, <2>5 DEF ProcessStates
  <2>3. legacy.database = Missing /\ marker <= mirror
    BY <1>1, <2>1, GeoFacts DEF FilesTyped
  <2>4. mirror <= mirror
    BY <1>1
  <2> HIDE DEF e
  <2> QED
    BY <1>1, <1>2, <1>3, <1>4, <2>1, <2>2, <2>3, <2>4, ProcessKeeps
<1>8. CASE (Asks(p) /\ process[p].rev = mirror) \/ GivesUpEarly(p) \/ Opens(p) \/ Dies(p)
  <2>1. PICK pc \in {"rest", "remove"} : ProcessTo(p, pc) /\ (pc = "remove" => process[p].pc = "open")
    BY <1>8 DEF Asks, GivesUpEarly, Opens, Dies, ProcessAt
  <2>2. PICK e \in ProcessStates : /\ e.pc = pc /\ e.rev = process[p].rev /\ e.op = process[p].op
                                   /\ process' = [process EXCEPT ![p] = e]
    BY <2>1, ProcessToFacts DEF GeoStages
  <2>3. geoLock' = (IF geoLock = p THEN NoProcess ELSE geoLock)
    BY <1>1, <1>8 DEF Asks, GivesUpEarly, Opens, Dies, ProcessAt
  <2>4. legacy'.database # Missing =>
            legacy.database # Missing /\ database' = Missing /\ marker' = Missing /\ e.pc \in {"rest", "migrate"}
    BY <1>2, <1>5, <2>1, <2>2, GeoFacts DEF GeoInv, LegacyInv
  <2> QED
    BY <1>1, <1>2, <1>3, <1>4, <1>5, <2>1, <2>2, <2>3, <2>4, ProcessKeeps
<1> QED
  BY <1>6, <1>7, <1>8

\* A download, from the lock to the rename.
LEMMA DownloadKeeps ==
    ASSUME GeoInv, NEW p \in Processes, LocksPart(p) \/ BodyEnds(p) \/ BodyFails(p) \/ Installs(p)
    PROVE  GeoInv'
<1>1. /\ process[p] \in ProcessStates /\ FilesTyped /\ mirror \in 1..MaxRevision /\ MaxRevision \in Nat \ {0}
      /\ process[p].rev <= mirror /\ NoProcess \notin Processes
      /\ process[p].pc \in {"body", "install"} <=> geoLock = p
      /\ process[p].pc = "install" => partial = process[p].rev
  BY GeoFacts
<1>2. UNCHANGED <<mirror, legacy, overlapped, marker, markerTmp>>
  BY DEF LocksPart, BodyEnds, BodyFails, Installs, RestSame
<1>3. process[p].pc \in {"lock", "body", "install"} /\ legacy.database = Missing
  <2>1. process[p].pc \in {"lock", "body", "install"}
    BY DEF LocksPart, BodyEnds, BodyFails, Installs, ProcessAt
  <2> QED
    BY <2>1, GeoFacts
<1>4. process[p].rev \in 0..MaxRevision
  BY <1>1 DEF ProcessStates
<1>5. CASE LocksPart(p)
  <2>1. PICK e \in ProcessStates : /\ e.pc = "body" /\ e.rev = process[p].rev /\ e.op = process[p].op
                                   /\ process' = [process EXCEPT ![p] = e]
    BY <1>5, ProcessToFacts DEF LocksPart, GeoStages
  <2>2. geoLock = NoProcess /\ geoLock' = p /\ partial' = Corrupt /\ database' = database
    BY <1>5 DEF LocksPart
  <2>3. FilesTyped'
    BY <1>1, <1>2, <2>2 DEF FilesTyped, Corrupt
  <2> QED
    BY <1>1, <1>2, <1>3, <2>1, <2>2, <2>3, ProcessKeeps, SoloFacts
<1>6. CASE BodyEnds(p)
  <2>1. PICK e \in ProcessStates : /\ e.pc = "install" /\ e.rev = process[p].rev /\ e.op = process[p].op
                                   /\ process' = [process EXCEPT ![p] = e]
    BY <1>6, ProcessToFacts DEF BodyEnds, GeoStages
  <2>2. geoLock = p /\ geoLock' = geoLock /\ partial' = process[p].rev /\ database' = database
    BY <1>1, <1>6 DEF BodyEnds, ProcessAt
  <2>3. FilesTyped'
    BY <1>1, <1>2, <1>4, <2>2 DEF FilesTyped
  <2> QED
    BY <1>1, <1>2, <1>3, <2>1, <2>2, <2>3, ProcessKeeps, SoloFacts
<1>7. CASE BodyFails(p)
  <2>1. PICK e \in ProcessStates : /\ e.pc = "rest" /\ e.rev = process[p].rev /\ e.op = process[p].op
                                   /\ process' = [process EXCEPT ![p] = e]
    BY <1>7, ProcessToFacts DEF BodyFails, GeoStages
  <2>2. geoLock = p /\ geoLock' = NoProcess /\ partial' = Missing /\ database' = database
    BY <1>1, <1>7 DEF BodyFails
  <2>3. FilesTyped'
    BY <1>1, <1>2, <2>2 DEF FilesTyped, Missing
  <2> QED
    BY <1>1, <1>2, <1>3, <2>1, <2>2, <2>3, ProcessKeeps, SoloFacts
<1>8. CASE Installs(p)
  <2>1. PICK pc \in {"mark", "open"} : ProcessTo(p, pc)
    BY <1>8 DEF Installs
  <2>2. PICK e \in ProcessStates : /\ e.pc = pc /\ e.rev = process[p].rev /\ e.op = process[p].op
                                   /\ process' = [process EXCEPT ![p] = e]
    BY <2>1, ProcessToFacts DEF GeoStages
  <2>3. /\ process[p].pc = "install" /\ geoLock = p /\ geoLock' = NoProcess /\ partial' = Missing
        /\ database' = process[p].rev
    BY <1>1, <1>8 DEF Installs, ProcessAt
  <2>4. FilesTyped'
    BY <1>1, <1>2, <1>4, <2>3 DEF FilesTyped, Missing
  <2>5. ~overlapped => marker <= process[p].rev
    BY <2>3, SoloFacts
  <2> QED
    BY <1>1, <1>2, <1>3, <2>1, <2>2, <2>3, <2>4, <2>5, ProcessKeeps
<1> QED
  BY <1>5, <1>6, <1>7, <1>8

\* The marker, and the removal of a corrupt database.
LEMMA MarkingKeeps ==
    ASSUME GeoInv, NEW p \in Processes, Marks(p) \/ RenamesMarker(p) \/ Removes(p)
    PROVE  GeoInv'
<1>1. /\ process[p] \in ProcessStates /\ FilesTyped /\ mirror \in 1..MaxRevision /\ MaxRevision \in Nat \ {0}
      /\ process[p].rev <= mirror /\ NoProcess \notin Processes
      /\ process[p].pc \in {"body", "install"} <=> geoLock = p
  BY GeoFacts
<1>2. UNCHANGED <<mirror, legacy, overlapped, partial, geoLock>>
  BY DEF Marks, RenamesMarker, Removes, RestSame
<1>3. process[p].pc \in {"mark", "renameMarker", "remove"} /\ legacy.database = Missing /\ geoLock # p
  <2>1. process[p].pc \in {"mark", "renameMarker", "remove"}
    BY DEF Marks, RenamesMarker, Removes, ProcessAt
  <2> QED
    BY <1>1, <2>1, GeoFacts
<1>4. process[p].rev \in 0..MaxRevision
  BY <1>1 DEF ProcessStates
<1>5. CASE Marks(p)
  <2>1. PICK e \in ProcessStates : /\ e.pc = "renameMarker" /\ e.rev = process[p].rev /\ e.op = process[p].op
                                   /\ process' = [process EXCEPT ![p] = e]
    BY <1>5, ProcessToFacts DEF Marks, GeoStages
  <2>2. /\ process[p].pc = "mark" /\ markerTmp' = process[p].rev /\ UNCHANGED <<database, marker>>
    BY <1>5 DEF Marks, ProcessAt
  <2>3. FilesTyped'
    BY <1>1, <1>2, <1>4, <2>2 DEF FilesTyped
  <2> QED
    BY <1>1, <1>2, <1>3, <2>1, <2>2, <2>3, ProcessKeeps, SoloFacts
<1>6. CASE RenamesMarker(p)
  <2>1. PICK e \in ProcessStates : /\ e.pc = "rest" /\ e.rev = process[p].rev /\ e.op = process[p].op
                                   /\ process' = [process EXCEPT ![p] = e]
    BY <1>6, ProcessToFacts DEF RenamesMarker, GeoStages
  <2>2. /\ process[p].pc = "renameMarker" /\ database' = database
        /\ \/ UNCHANGED <<marker, markerTmp>>
           \/ marker' = markerTmp /\ markerTmp' = Missing
    BY <1>6 DEF RenamesMarker, ProcessAt
  <2>3. FilesTyped'
    BY <1>1, <1>2, <2>2 DEF FilesTyped, Missing
  <2>4. ~overlapped => (database' > Missing => marker' <= database')
    <3>1. SUFFICES ASSUME ~overlapped
                   PROVE  database' > Missing => marker' <= database'
      OBVIOUS
    <3>2. /\ database > Missing => marker <= database
          /\ database = process[p].rev /\ markerTmp = process[p].rev
      BY <2>2, <3>1, SoloFacts
    <3> QED
      BY <1>1, <2>2, <3>2 DEF FilesTyped, Missing, Corrupt
  <2> QED
    BY <1>1, <1>2, <1>3, <2>1, <2>2, <2>3, <2>4, ProcessKeeps
<1>7. CASE Removes(p)
  <2>1. PICK e \in ProcessStates : /\ e.pc = "rest" /\ e.rev = process[p].rev /\ e.op = process[p].op
                                   /\ process' = [process EXCEPT ![p] = e]
    BY <1>7, ProcessToFacts DEF Removes, GeoStages
  <2>2. database' = Missing /\ UNCHANGED <<marker, markerTmp>>
    BY <1>7 DEF Removes
  <2>3. FilesTyped' /\ ~(Missing > Missing)
    BY <1>1, <1>2, <2>2 DEF FilesTyped, Missing
  <2> QED
    BY <1>1, <1>2, <1>3, <2>1, <2>2, <2>3, ProcessKeeps
<1> QED
  BY <1>5, <1>6, <1>7

\* The mirror moves on.
LEMMA MirrorMovesKeeps ==
    ASSUME GeoInv, MirrorMoves
    PROVE  GeoInv'
<1>1. /\ mirror < MaxRevision /\ mirror' = mirror + 1
      /\ UNCHANGED <<database, partial, marker, markerTmp, geoLock, process, legacy, overlapped>>
  BY DEF MirrorMoves, FilesSame
<1>2. mirror \in 1..MaxRevision /\ MaxRevision \in Nat /\ mirror' \in 1..MaxRevision
  BY <1>1, GeoAssumption DEF GeoInv, GeoTypeOK
<1>3. GeoTypeOK'
  BY <1>1, <1>2 DEF GeoInv, GeoTypeOK
<1>4. MirrorInv'
  <2>1. \A p \in Processes : process[p].rev \in 0..MaxRevision /\ process[p].rev <= mirror
    BY DEF GeoInv, GeoTypeOK, MirrorInv
  <2>2. \A p \in Processes : process[p].rev <= mirror + 1
    BY <1>2, <2>1
  <2>3. /\ database \in Int /\ partial \in Int /\ marker \in Int /\ markerTmp \in Int
        /\ database <= mirror /\ partial <= mirror /\ marker <= mirror /\ markerTmp <= mirror
    BY DEF GeoInv, GeoTypeOK, MirrorInv, Corrupt
  <2> QED
    BY <1>1, <1>2, <2>2, <2>3 DEF MirrorInv
<1>5. LegacyInv' /\ DownloadInv' /\ SoloInv'
  BY <1>1 DEF GeoInv, LegacyInv, DownloadInv, SoloInv, Working
<1> QED
  BY <1>3, <1>4, <1>5 DEF GeoInv
-----------------------------------------------------------------------------
(* The theorems.                                                             *)

\* Nothing is installed yet, or an old pair of files is.
LEMMA GeoInitially == GeoInit => GeoInv
<1> SUFFICES ASSUME GeoInit
             PROVE  GeoInv
  OBVIOUS
<1>1. /\ mirror = 1 /\ partial = 0 /\ marker = 0 /\ markerTmp = 0 /\ geoLock = NoProcess
      /\ database \in {0, Corrupt} /\ overlapped = FALSE
      /\ legacy \in [database : {Missing, 1}, marker : {Missing, 1}]
      /\ legacy.database # Missing => database = Missing
      /\ MaxRevision \in Nat \ {0} /\ MaxRuns \in Nat /\ NoProcess \notin Processes
  BY GeoAssumption DEF GeoInit, Missing
<1>2. process \in [Processes -> ProcessStates] /\ \A p \in Processes : process[p].pc = "rest" /\ process[p].rev = 0
  BY <1>1 DEF GeoInit, ProcessStates, GeoStages, Missing
<1>3. GeoTypeOK
  <2>1. 1 \in 1..MaxRevision /\ 0 \in 0..MaxRevision
    BY <1>1
  <2>2. overlapped \in BOOLEAN
    BY <1>1
  <2>3. database \in (0..MaxRevision) \cup {Corrupt} /\ partial \in (0..MaxRevision) \cup {Corrupt}
    BY <1>1, <2>1
  <2> QED
    BY <1>1, <1>2, <2>1, <2>2, <2>3 DEF GeoTypeOK, ProcessStates
<1>4. MirrorInv /\ LegacyInv /\ DownloadInv
  BY <1>1, <1>2 DEF MirrorInv, LegacyInv, DownloadInv, Missing, Corrupt
<1>5. SoloInv
  BY <1>1, <1>2 DEF SoloInv, Working, Missing, Corrupt
<1> QED
  BY <1>3, <1>4, <1>5 DEF GeoInv

\* Every step keeps the invariant.
LEMMA GeoStepKeeps == GeoInv /\ [GeoNext]_geoVars => GeoInv'
<1> SUFFICES ASSUME GeoInv, [GeoNext]_geoVars
             PROVE  GeoInv'
  OBVIOUS
<1>1. ASSUME NEW p \in Processes, GeoStarts(p, "sync") \/ GeoStarts(p, "ensure")
      PROVE  GeoInv'
  BY <1>1, GeoStartsKeeps
<1>2. ASSUME NEW p \in Processes, Migrates(p) \/ MigratesMarker(p)
      PROVE  GeoInv'
  BY <1>2, MigratesKeeps
<1>3. ASSUME NEW p \in Processes, Begins(p) \/ Asks(p) \/ GivesUpEarly(p) \/ Opens(p) \/ Dies(p)
      PROVE  GeoInv'
  BY <1>3, AskingKeeps
<1>4. ASSUME NEW p \in Processes, LocksPart(p) \/ BodyEnds(p) \/ BodyFails(p) \/ Installs(p)
      PROVE  GeoInv'
  BY <1>4, DownloadKeeps
<1>5. ASSUME NEW p \in Processes, Marks(p) \/ RenamesMarker(p) \/ Removes(p)
      PROVE  GeoInv'
  BY <1>5, MarkingKeeps
<1>6. CASE MirrorMoves
  BY <1>6, MirrorMovesKeeps
<1>7. CASE UNCHANGED geoVars
  BY <1>7 DEF geoVars, GeoInv, GeoTypeOK, MirrorInv, LegacyInv, DownloadInv, SoloInv, Working
<1> QED
  BY <1>1, <1>2, <1>3, <1>4, <1>5, <1>6, <1>7 DEF GeoNext

\* The invariant of the databases: their revisions, the lock, and a process alone.
THEOREM GeoInvariant == GeoSpec => []GeoInv
BY GeoInitially, GeoStepKeeps, PTL DEF GeoSpec

\* The state of the databases has its types.
THEOREM GeoTypes == GeoSpec => []GeoTypeOK
<1>1. GeoInv => GeoTypeOK
  BY DEF GeoInv
<1> QED
  BY <1>1, GeoInvariant, PTL

\* However processes overlap or die, one at a time writes the temporary file, and what is renamed
\* into place is what the renaming process downloaded.
THEOREM DownloadsExclude == GeoSpec => []DownloadInv
<1>1. GeoInv => DownloadInv
  BY DEF GeoInv
<1> QED
  BY <1>1, GeoInvariant, PTL

\* Only processes that work at the same time leave a marker that is ahead of its database.
THEOREM MarkersAreHonest == GeoSpec => []StaleOnlyByOverlap
<1>1. GeoInv => StaleOnlyByOverlap
  <2> SUFFICES ASSUME GeoInv, database > Missing, marker > database, ~overlapped
               PROVE  FALSE
    BY DEF StaleOnlyByOverlap, GeoInv, GeoTypeOK
  <2>1. marker <= database /\ marker \in Int /\ database \in Int
    BY DEF GeoInv, GeoTypeOK, SoloInv, Corrupt
  <2> QED
    BY <2>1
<1> QED
  BY <1>1, GeoInvariant, PTL
-----------------------------------------------------------------------------
(***************************************************************************)
(* The cache of parsed lists (module ParseCache).                          *)
(***************************************************************************)
StorerStates(n) == [pc : {"start", "write", "rename", "done"}, inode : 0..n]

\* An inode decodes to nothing or to a whole list.
WholeOrNothing(f) == Decode(f) # <<>> => \E w \in Storers : Decode(f) = List[w]

\* Times are of the past, a storer writes to a file that is there, a reader has looked at one,
\* and what is remembered is not empty.
PlacesInv ==
    /\ \A i \in 1..Len(file) : file[i].mtime <= clock
    /\ \A w \in Storers : placed[w] <= clock /\ (storer[w].pc = "write" => storer[w].inode # 0)
    /\ remembered.mtime # -1 => remembered.rows # <<>>
    /\ loader.pc # "rest" =>
        named.path # 0 /\ loader.at - loader.mtime <= Ttl /\ loader.mtime <= clock /\ loader.at <= clock

\* A list in place, remembered or served took its place no earlier than the time that goes with it.
ListsInv ==
    ~mixed =>
        /\ \A i \in 1..Len(file) : WholeOrNothing(file[i])
        /\ \A w \in Storers : named.path # 0 /\ Decode(Path) = List[w] =>
              placed[w] >= Path.mtime /\ (loader.pc # "rest" => placed[w] >= loader.mtime)
        /\ remembered.mtime # -1 => \E w \in Storers : remembered.rows = List[w] /\ placed[w] >= remembered.mtime
        /\ served = NoAnswer \/ (served.age <= Ttl /\ \E w \in Storers : served.rows = List[w])

\* The inductive invariant.
CacheInv == CacheTypeOK /\ PlacesInv /\ ListsInv

\* A list is a sequence of rows that are stored, and is not empty.
LEMMA ListFacts ==
    ASSUME NEW w \in Storers
    PROVE  List[w] \in Seq(StoredRows) /\ List[w] # <<>> /\ Len(List[w]) \in Nat \ {0}
<1>1. List[w] \in Seq(ToSet(List[w])) /\ List[w] # <<>>
  BY CacheAssumption
<1>2. ToSet(List[w]) \subseteq StoredRows
  BY DEF StoredRows
<1>3. List[w] \in Seq(StoredRows)
  BY <1>1, <1>2, SeqMonotonic
<1> QED
  BY <1>1, <1>3, EmptySeq

\* Two storers have different lists.
LEMMA ListsDiffer ==
    ASSUME NEW v \in Storers, NEW w \in Storers, Last(List[w]) \in ToSet(List[v])
    PROVE  v = w
<1>1. Last(List[w]) \in ToSet(List[w])
  BY ListFacts, LenProperties DEF Last, ToSet
<1> QED
  BY <1>1, CacheAssumption

\* No list is stored by two.
LEMMA SameList ==
    ASSUME NEW v \in Storers, NEW w \in Storers, List[v] = List[w]
    PROVE  v = w
<1>1. Last(List[w]) \in ToSet(List[w])
  BY ListFacts, LenProperties DEF Last, ToSet
<1> QED
  BY <1>1, ListsDiffer

\* The age of a list is its own.
LEMMA AgeFacts ==
    ASSUME NEW w \in Storers
    PROVE  AgeOf(List[w]) = loader.at - placed[w]
<1>1. Last(List[w]) \in ToSet(List[w])
  BY ListFacts, LenProperties DEF Last, ToSet
<1>2. (CHOOSE v \in Storers : Last(List[w]) \in ToSet(List[v])) = w
  BY <1>1, ListsDiffer
<1> QED
  BY <1>2 DEF AgeOf

\* Rows that all are stored.
LEMMA SubRows ==
    ASSUME NEW s \in Seq(StoredRows), NEW m \in Nat \ {0}, NEW n \in 0..Len(s)
    PROVE  /\ SubSeq(s, m, n) \in Seq(StoredRows)
           /\ Len(SubSeq(s, m, n)) = IF m <= n THEN n - m + 1 ELSE 0
           /\ \A i \in 1..(n - m + 1) : SubSeq(s, m, n)[i] = s[m + i - 1]
<1>1. Len(s) \in Nat
  BY LenProperties
<1>2. \A i \in m..n : s[i] \in StoredRows
  BY <1>1, ElementOfSeq
<1> QED
  BY <1>1, <1>2, SubSeqProperties

\* The first rows.
LEMMA FirstRows ==
    ASSUME NEW s \in Seq(StoredRows), NEW n \in 0..Len(s)
    PROVE  /\ SubSeq(s, 1, n) \in Seq(StoredRows) /\ Len(SubSeq(s, 1, n)) = n
           /\ \A i \in 1..n : SubSeq(s, 1, n)[i] = s[i]
<1> DEFINE d == SubSeq(s, 1, n)
<1>1. n \in Nat /\ 1 \in Nat \ {0}
  BY LenProperties
<1>2. d \in Seq(StoredRows) /\ Len(d) = (IF 1 <= n THEN n - 1 + 1 ELSE 0) /\ \A i \in 1..(n - 1 + 1) : d[i] = s[1 + i - 1]
  BY <1>1, SubRows
<1> HIDE DEF d
<1>3. Len(d) = n
  BY <1>1, <1>2
<1>4. ASSUME NEW i \in 1..n
      PROVE  d[i] = s[i]
  <2>1. i \in 1..(n - 1 + 1) /\ 1 + i - 1 = i
    BY <1>1
  <2> QED
    BY <1>2, <2>1
<1> QED
  BY <1>2, <1>3, <1>4 DEF d

\* What an inode decodes to are stored rows.
LEMMA DecodeType ==
    ASSUME NEW f \in CachedFiles
    PROVE  Decode(f) \in Seq(StoredRows)
<1>1. f.rows \in Seq(StoredRows) /\ f.count \in Nat /\ Len(f.rows) \in Nat
  BY LenProperties DEF CachedFiles
<1>2. CASE Len(f.rows) < f.count
  BY <1>2, EmptySeq DEF Decode
<1>3. CASE ~(Len(f.rows) < f.count)
  BY <1>1, <1>3, SubRows DEF Decode
<1> QED
  BY <1>2, <1>3

\* A new inode decodes to nothing.
LEMMA DecodeBlank ==
    ASSUME NEW t
    PROVE  Decode([Blank EXCEPT !.mtime = t]) = <<>>
<1> DEFINE f == [Blank EXCEPT !.mtime = t]
<1>1. f.rows = <<>> /\ f.count = 0
  BY DEF Blank
<1> HIDE DEF f
<1>2. Len(<<>>) = 0 /\ SubSeq(<<>>, 1, 0) = <<>>
  BY SubSeqEmpty
<1>3. Decode(f) = <<>>
  BY <1>1, <1>2 DEF Decode
<1> QED
  BY <1>3 DEF f

\* Rows written over the beginning of an inode.
LEMMA OverlayFacts ==
    ASSUME NEW f \in CachedFiles, NEW written \in Seq(StoredRows)
    PROVE  LET whole == written \o SubSeq(f.rows, Len(written) + 1, Len(f.rows))
           IN  /\ whole \in Seq(StoredRows) /\ Len(whole) >= Len(written)
               /\ \A i \in 1..Len(written) : whole[i] = written[i]
               /\ f.rows = <<>> => whole = written
<1> DEFINE rest == SubSeq(f.rows, Len(written) + 1, Len(f.rows))
<1>1. f.rows \in Seq(StoredRows) /\ Len(f.rows) \in Nat /\ Len(written) \in Nat
  BY LenProperties DEF CachedFiles
<1>2. rest \in Seq(StoredRows) /\ Len(rest) \in Nat
  BY <1>1, SubRows, LenProperties
<1>3. f.rows = <<>> => rest = <<>>
  BY <1>1, SubSeqEmpty
<1> HIDE DEF rest
<1>4. written \o rest \in Seq(StoredRows) /\ Len(written \o rest) >= Len(written) /\ \A i \in 1..Len(written) : (written \o rest)[i] = written[i]
  BY <1>1, <1>2, ConcatProperties
<1>5. rest = <<>> => written \o rest = written
  BY ConcatEmptySeq
<1> QED
  BY <1>3, <1>4, <1>5 DEF rest

\* A whole list written over an inode is what the inode decodes to.
LEMMA DecodeWhole ==
    ASSUME NEW f \in CachedFiles, NEW w \in Storers, NEW g,
           g.count = Len(List[w]), g.rows = List[w] \o SubSeq(f.rows, Len(List[w]) + 1, Len(f.rows))
    PROVE  Decode(g) = List[w]
<1>1. List[w] \in Seq(StoredRows) /\ Len(List[w]) \in Nat \ {0}
  BY ListFacts
<1>2. g.rows \in Seq(StoredRows) /\ Len(g.rows) >= Len(List[w]) /\ \A i \in 1..Len(List[w]) : g.rows[i] = List[w][i]
  BY <1>1, OverlayFacts
<1>3. Len(g.rows) \in Nat
  BY <1>2, LenProperties
<1>7. ~(Len(g.rows) < g.count) /\ Len(List[w]) \in 0..Len(g.rows)
  <2> DEFINE n == Len(List[w])
             m == Len(g.rows)
  <2>1. n \in Nat /\ m \in Nat /\ m >= n
    BY <1>1, <1>2, <1>3
  <2> HIDE DEF n, m
  <2>2. ~(m < n) /\ n \in 0..m
    BY <2>1
  <2> QED
    BY <2>2 DEF n, m
<1>4. Decode(g) = SubSeq(g.rows, 1, Len(List[w]))
  BY <1>7 DEF Decode
<1> DEFINE d == SubSeq(g.rows, 1, Len(List[w]))
<1>5. d \in Seq(StoredRows) /\ Len(d) = Len(List[w]) /\ \A i \in 1..Len(List[w]) : d[i] = g.rows[i]
  BY <1>2, <1>7, FirstRows
<1> HIDE DEF d
<1>6. d = List[w]
  BY <1>1, <1>2, <1>5, SeqEqual
<1> QED
  BY <1>4, <1>6 DEF d

\* A cut list over an inode that was empty decodes to nothing.
LEMMA DecodeCut ==
    ASSUME NEW f \in CachedFiles, NEW w \in Storers, NEW g, f.rows = <<>>,
           g.count = Len(List[w]), g.rows = Front(List[w]) \o SubSeq(f.rows, Len(Front(List[w])) + 1, Len(f.rows))
    PROVE  Decode(g) = <<>>
<1>1. List[w] \in Seq(StoredRows) /\ Len(List[w]) \in Nat \ {0}
  BY ListFacts
<1>2. Front(List[w]) \in Seq(StoredRows) /\ Len(Front(List[w])) = Len(List[w]) - 1
  BY <1>1, SubRows DEF Front
<1>3. g.rows = Front(List[w])
  BY <1>2, OverlayFacts
<1>4. Len(g.rows) < g.count
  <2> DEFINE n == Len(List[w])
             m == Len(g.rows)
  <2>1. n \in Nat /\ m = n - 1
    BY <1>1, <1>2, <1>3
  <2> HIDE DEF n, m
  <2>2. m < n
    BY <2>1
  <2> QED
    BY <2>2 DEF n, m
<1> QED
  BY <1>4 DEF Decode

\* A part of an inode decodes to what the inode does, or to nothing.
LEMMA DecodePart ==
    ASSUME NEW f \in CachedFiles, NEW n \in 0..Len(f.rows), NEW g,
           g.count = f.count, g.rows = SubSeq(f.rows, 1, n)
    PROVE  Decode(g) \in {<<>>, Decode(f)}
<1>1. f.rows \in Seq(StoredRows) /\ f.count \in Nat /\ Len(f.rows) \in Nat
  BY LenProperties DEF CachedFiles
<1>2. /\ g.rows \in Seq(StoredRows) /\ Len(g.rows) = n
      /\ \A i \in 1..n : g.rows[i] = f.rows[i]
  BY <1>1, FirstRows
<1>3. CASE n < f.count
  BY <1>2, <1>3 DEF Decode
<1>4. CASE n >= f.count
  <2> DEFINE d == SubSeq(f.rows, 1, f.count)
             h == SubSeq(g.rows, 1, f.count)
  <2>1. Decode(f) = d /\ Decode(g) = h
    BY <1>1, <1>2, <1>4 DEF Decode
  <2>2. f.count \in 0..Len(f.rows) /\ f.count \in 0..Len(g.rows) /\ f.count \in 0..n
    BY <1>1, <1>2, <1>4
  <2>3. d \in Seq(StoredRows) /\ Len(d) = f.count /\ \A i \in 1..f.count : d[i] = f.rows[i]
    BY <1>1, <2>2, FirstRows
  <2>4. h \in Seq(StoredRows) /\ Len(h) = f.count /\ \A i \in 1..f.count : h[i] = g.rows[i]
    BY <1>1, <1>2, <2>2, FirstRows
  <2> HIDE DEF d, h
  <2>6. \A i \in 1..f.count : i \in 1..n
    BY <2>2
  <2>7. \A i \in 1..Len(d) : d[i] = h[i]
    BY <1>2, <2>3, <2>4, <2>6
  <2>8. Len(d) = Len(h)
    BY <2>3, <2>4
  <2>5. d = h
    BY <2>3, <2>4, <2>7, <2>8, SeqEqual
  <2> QED
    BY <2>1, <2>5
<1> QED
  BY <1>1, <1>3, <1>4

\* Files and names change, times are those of the past, and what comes to be in place is placed now.
LEMMA FilesKeep ==
    ASSUME CacheInv,
           file' \in Seq(CachedFiles), clock' = clock, served' = served,
           \A i \in 1..Len(file') : file'[i].mtime <= clock /\ (~mixed' => WholeOrNothing(file'[i])),
           named' \in [tmp : 0..Len(file'), path : 0..Len(file')], named.path # 0 => named'.path # 0,
           storer' \in [Storers -> StorerStates(Len(file'))],
           \A v \in Storers : storer'[v].pc = "write" => storer'[v].inode # 0,
           placed' \in [Storers -> Instants], \A v \in Storers : placed[v] <= placed'[v] /\ placed'[v] <= clock,
           mixed' \in BOOLEAN, mixed => mixed',
           loader' = loader \/ loader' = [loader EXCEPT !.pc = "rest"],
           remembered' \in {remembered, NoMemo},
           \A v \in Storers : ~mixed' /\ named'.path # 0 /\ Decode(file'[named'.path]) = List[v] =>
               placed'[v] >= file'[named'.path].mtime /\ (loader.pc # "rest" => placed'[v] >= loader.mtime)
    PROVE  CacheInv'
<1>1. /\ loader \in [pc : {"rest", "recall", "read"}, mtime : Instants, at : Instants]
      /\ remembered \in [rows : Seq(StoredRows), mtime : Instants \cup {-1}]
      /\ LastTick \in Nat /\ placed \in [Storers -> Instants]
  BY CacheAssumption DEF CacheInv, CacheTypeOK
<1>2. /\ loader' \in [pc : {"rest", "recall", "read"}, mtime : Instants, at : Instants]
      /\ loader'.pc # "rest" => loader' = loader
  BY <1>1
<1>3. /\ remembered' \in [rows : Seq(StoredRows), mtime : Instants \cup {-1}]
      /\ remembered'.mtime # -1 => remembered' = remembered
  <2>1. <<>> \in Seq(StoredRows)
    BY EmptySeq
  <2>2. NoMemo \in [rows : Seq(StoredRows), mtime : Instants \cup {-1}] /\ NoMemo.mtime = -1
    BY <2>1 DEF NoMemo
  <2> HIDE DEF NoMemo
  <2> QED
    BY <1>1, <2>2
<1>4. CacheTypeOK'
  BY <1>2, <1>3 DEF CacheInv, CacheTypeOK, StorerStates
<1>5. PlacesInv'
  BY <1>2, <1>3 DEF CacheInv, PlacesInv
<1>6. ListsInv'
  <2>1. SUFFICES ASSUME ~mixed'
                 PROVE  ListsInv'
    BY DEF ListsInv
  <2>2. ~mixed
    BY <2>1
  <2>3. \A i \in 1..Len(file') : WholeOrNothing(file'[i])
    BY <2>1
  <2>4. \A w \in Storers : named'.path # 0 /\ Decode(file'[named'.path]) = List[w] =>
              placed'[w] >= file'[named'.path].mtime /\ (loader'.pc # "rest" => placed'[w] >= loader'.mtime)
    BY <1>2, <2>1
  <2>5. remembered'.mtime # -1 => \E w \in Storers : remembered'.rows = List[w] /\ placed'[w] >= remembered'.mtime
    <3>1. SUFFICES ASSUME remembered'.mtime # -1
                   PROVE  \E w \in Storers : remembered'.rows = List[w] /\ placed'[w] >= remembered'.mtime
      OBVIOUS
    <3>2. remembered' = remembered
      BY <1>3, <3>1
    <3>3. PICK w \in Storers : remembered.rows = List[w] /\ placed[w] >= remembered.mtime
      BY <2>2, <3>1, <3>2 DEF CacheInv, ListsInv
    <3>4. placed[w] \in Int /\ placed'[w] \in Int /\ remembered.mtime \in Int /\ placed[w] <= placed'[w]
      BY <1>1 DEF Instants
    <3>5. placed'[w] >= remembered.mtime
      BY <3>3, <3>4
    <3> QED
      BY <3>2, <3>3, <3>5
  <2>6. served' = NoAnswer \/ (served'.age <= Ttl /\ \E w \in Storers : served'.rows = List[w])
    BY <2>2 DEF CacheInv, ListsInv
  <2> QED
    BY <2>1, <2>3, <2>4, <2>5, <2>6 DEF ListsInv, Path, WholeOrNothing
<1> QED
  BY <1>4, <1>5, <1>6 DEF CacheInv

\* What the invariant says of the files and of one storer.
LEMMA CacheFacts ==
    ASSUME CacheInv, NEW w \in Storers
    PROVE  /\ file \in Seq(CachedFiles) /\ Len(file) \in Nat /\ clock \in Instants /\ LastTick \in Nat
           /\ \A i \in 1..Len(file) : file[i] \in CachedFiles /\ file[i].mtime <= clock
           /\ named \in [tmp : 0..Len(file), path : 0..Len(file)]
           /\ storer \in [Storers -> StorerStates(Len(file))] /\ storer[w] \in StorerStates(Len(file))
           /\ \A v \in Storers : storer[v].pc = "write" => storer[v].inode # 0
           /\ placed \in [Storers -> Instants] /\ placed[w] \in Instants
           /\ \A v \in Storers : placed[v] <= placed[v] /\ placed[v] <= clock
           /\ mixed \in BOOLEAN
           /\ loader.pc # "rest" => loader.mtime <= clock
           /\ loader.mtime \in Instants
<1>1. file \in Seq(CachedFiles) /\ Len(file) \in Nat /\ \A i \in 1..Len(file) : file[i] \in CachedFiles
  BY LenProperties, ElementOfSeq DEF CacheInv, CacheTypeOK
<1>2. placed \in [Storers -> Instants] /\ \A v \in Storers : placed[v] <= placed[v]
  BY DEF CacheInv, CacheTypeOK, Instants
<1> QED
  BY <1>1, <1>2, CacheAssumption DEF CacheInv, CacheTypeOK, PlacesInv, StorerStates

\* A storer moves on; no other storer does.
LEMMA StorerMoves ==
    ASSUME CacheInv, NEW w \in Storers, NEW n \in Nat, Len(file) <= n, NEW e \in StorerStates(n),
           e.pc = "write" => e.inode # 0, storer' = [storer EXCEPT ![w] = e]
    PROVE  /\ storer' \in [Storers -> StorerStates(n)]
           /\ \A v \in Storers : storer'[v].pc = "write" => storer'[v].inode # 0
<1>1. /\ storer \in [Storers -> StorerStates(Len(file))] /\ Len(file) \in Nat
      /\ \A v \in Storers : storer[v].pc = "write" => storer[v].inode # 0
  BY CacheFacts
<1>2. StorerStates(Len(file)) \subseteq StorerStates(n)
  BY <1>1 DEF StorerStates
<1> QED
  BY <1>1, <1>2

\* An inode is written over, or a new one is made.
LEMMA InodeKeeps ==
    ASSUME CacheInv, NEW w \in Storers, NEW i \in 1..(Len(file) + 1), NEW g \in CachedFiles, g.mtime = clock,
           file' = IF i > Len(file) THEN Append(file, g) ELSE [file EXCEPT ![i] = g],
           NEW e \in StorerStates(Len(file')), e.pc = "write" => e.inode # 0, storer' = [storer EXCEPT ![w] = e],
           named' \in {named, [named EXCEPT !.tmp = i]},
           UNCHANGED <<clock, loader, remembered, served>>,
           mixed' \in BOOLEAN, mixed => mixed', ~mixed' => WholeOrNothing(g),
           placed' = placed \/ placed' = [placed EXCEPT ![w] = clock],
           \A v \in Storers : ~mixed' /\ i = named.path /\ Decode(g) = List[v] => placed'[v] = clock
    PROVE  CacheInv'
<1>1. /\ file \in Seq(CachedFiles) /\ Len(file) \in Nat /\ clock \in Instants /\ LastTick \in Nat
      /\ \A j \in 1..Len(file) : file[j] \in CachedFiles /\ file[j].mtime <= clock
      /\ named \in [tmp : 0..Len(file), path : 0..Len(file)]
      /\ placed \in [Storers -> Instants]
      /\ \A v \in Storers : placed[v] <= placed[v] /\ placed[v] <= clock
      /\ loader.pc # "rest" => loader.mtime <= clock
      /\ loader.mtime \in Instants /\ mixed \in BOOLEAN
  BY CacheFacts
<1>2. /\ file' \in Seq(CachedFiles) /\ Len(file') \in Nat /\ Len(file) <= Len(file') /\ i <= Len(file')
      /\ file'[i] = g
      /\ \A j \in 1..Len(file') : j # i => j \in 1..Len(file) /\ file'[j] = file[j]
  <2>1. CASE i > Len(file)
    <3>1. file' = Append(file, g) /\ i = Len(file) + 1
      BY <1>1, <2>1
    <3> QED
      BY <1>1, <3>1, AppendProperties
  <2>2. CASE ~(i > Len(file))
    <3>1. file' = [file EXCEPT ![i] = g] /\ i \in 1..Len(file)
      BY <1>1, <2>2
    <3> QED
      BY <1>1, <3>1, ExceptSeq
  <2> QED
    BY <2>1, <2>2
<1>3. clock <= clock /\ i # 0
  BY <1>1 DEF Instants
<1>4. \A j \in 1..Len(file') : file'[j].mtime <= clock /\ (~mixed' => WholeOrNothing(file'[j]))
  BY <1>1, <1>2, <1>3 DEF CacheInv, ListsInv
<1>5. /\ named' \in [tmp : 0..Len(file'), path : 0..Len(file')] /\ named'.path = named.path
  BY <1>1, <1>2
<1>6. /\ storer' \in [Storers -> StorerStates(Len(file'))]
      /\ \A v \in Storers : storer'[v].pc = "write" => storer'[v].inode # 0
  BY <1>1, <1>2, StorerMoves
<1>7. placed' \in [Storers -> Instants] /\ \A v \in Storers : placed[v] <= placed'[v] /\ placed'[v] <= clock
  BY <1>1, <1>3
<1>8. ASSUME NEW v \in Storers, ~mixed', named.path # 0, Decode(file'[named.path]) = List[v]
      PROVE  placed'[v] >= file'[named.path].mtime /\ (loader.pc # "rest" => placed'[v] >= loader.mtime)
  <2>1. CASE named.path = i
    BY <1>1, <1>2, <1>3, <1>8, <2>1 DEF Instants
  <2>2. CASE named.path # i
    <3>1. named.path \in 1..Len(file) /\ file'[named.path] = file[named.path]
      BY <1>1, <1>2, <1>8, <2>2
    <3>2. placed[v] >= file[named.path].mtime /\ (loader.pc # "rest" => placed[v] >= loader.mtime)
      BY <1>8, <3>1 DEF CacheInv, ListsInv, Path
    <3>3. placed[v] \in Int /\ placed'[v] \in Int /\ file[named.path].mtime \in Int /\ loader.mtime \in Int
      <4>1. file[named.path] \in CachedFiles
        BY <1>1, <3>1
      <4>2. file[named.path].mtime \in Instants
        BY <4>1 DEF CachedFiles
      <4>3. placed[v] \in Instants /\ placed'[v] \in Instants /\ loader.mtime \in Instants
        BY <1>1, <1>7
      <4> QED
        BY <1>1, <4>2, <4>3 DEF Instants
    <3>4. placed[v] <= placed'[v]
      BY <1>7
    <3> QED
      BY <3>1, <3>2, <3>3, <3>4
  <2> QED
    BY <2>1, <2>2
<1> QED
  BY <1>2, <1>4, <1>5, <1>6, <1>7, <1>8, FilesKeep

\* A task opens the temporary file, writes its list, or a part of it.
LEMMA StorerWritesKeeps ==
    ASSUME CacheInv, NEW w \in Storers, OpensTmp(w) \/ WritesTmp(w) \/ WriteCut(w)
    PROVE  CacheInv'
<1>1. /\ file \in Seq(CachedFiles) /\ Len(file) \in Nat /\ clock \in Instants
      /\ \A j \in 1..Len(file) : file[j] \in CachedFiles
      /\ named \in [tmp : 0..Len(file), path : 0..Len(file)]
      /\ storer \in [Storers -> StorerStates(Len(file))] /\ storer[w] \in StorerStates(Len(file))
      /\ storer[w].pc = "write" => storer[w].inode # 0
      /\ placed \in [Storers -> Instants] /\ mixed \in BOOLEAN
  BY CacheFacts
<1>2. List[w] \in Seq(StoredRows) /\ Len(List[w]) \in Nat \ {0} /\ Front(List[w]) \in Seq(StoredRows)
  BY ListFacts, SubRows DEF Front
<1>3. UNCHANGED <<clock, loader, remembered, served>>
  BY DEF OpensTmp, WritesTmp, WriteCut, LoaderSame
<1>4. CASE OpensTmp(w)
  <2> DEFINE i == IF named.tmp = 0 THEN Len(file) + 1 ELSE named.tmp
             g == [Blank EXCEPT !.mtime = clock]
             e == [pc |-> "write", inode |-> i]
  <2>1. /\ file' = IF i > Len(file) THEN Append(file, g) ELSE [file EXCEPT ![i] = g]
        /\ named' = [named EXCEPT !.tmp = i] /\ storer' = [storer EXCEPT ![w] = e]
        /\ placed' = placed /\ mixed' = mixed
    BY <1>4 DEF OpensTmp
  <2>2. i \in 1..(Len(file) + 1)
    BY <1>1
  <2>3. g \in CachedFiles /\ g.mtime = clock
    <3>1. <<>> \in Seq(StoredRows)
      BY EmptySeq
    <3> QED
      BY <1>1, <3>1 DEF Blank, CachedFiles
  <2>4. Decode(g) = <<>>
    BY DecodeBlank
  <2> HIDE DEF g
  <2>5. Len(file') \in Nat /\ i <= Len(file')
    <3>1. CASE i > Len(file)
      BY <1>1, <2>1, <2>2, <2>3, <3>1, AppendProperties
    <3>2. CASE ~(i > Len(file))
      <4>1. i \in 1..Len(file)
        BY <1>1, <2>2, <3>2
      <4> QED
        BY <1>1, <2>1, <2>3, <3>2, <4>1, ExceptSeq
    <3> QED
      BY <3>1, <3>2
  <2> HIDE DEF i
  <2>6. e \in StorerStates(Len(file')) /\ e.inode # 0
    BY <1>1, <2>2, <2>5 DEF StorerStates
  <2> HIDE DEF e
  <2>7. WholeOrNothing(g) /\ \A v \in Storers : Decode(g) # List[v]
    BY <2>4, ListFacts DEF WholeOrNothing
  <2> QED
    BY <1>1, <1>3, <2>1, <2>2, <2>3, <2>6, <2>7, InodeKeeps
<1>5. ASSUME WritesTmp(w) \/ WriteCut(w)
      PROVE  /\ storer[w].inode \in 1..Len(file) /\ storer[w].inode <= Len(file)
             /\ file[storer[w].inode] \in CachedFiles /\ storer[w].pc = "write"
  BY <1>1, <1>5 DEF WritesTmp, WriteCut, StorerStates
<1>6. CASE WritesTmp(w)
  <2> DEFINE i == storer[w].inode
             g == [count |-> Len(List[w]), rows |-> Overlay(i, List[w]), mtime |-> clock]
             e == [storer[w] EXCEPT !.pc = "rename"]
  <2>1. /\ file' = [file EXCEPT ![i] = g] /\ named' = named /\ storer' = [storer EXCEPT ![w] = e]
        /\ placed' = (IF i = named.path THEN [placed EXCEPT ![w] = clock] ELSE placed) /\ mixed' = mixed
    BY <1>6 DEF WritesTmp, StorerTo
  <2>2. i \in 1..Len(file) /\ ~(i > Len(file)) /\ file[i] \in CachedFiles
    BY <1>1, <1>5, <1>6
  <2>3. Overlay(i, List[w]) \in Seq(StoredRows)
    BY <1>2, <2>2, OverlayFacts DEF Overlay
  <2>4. g \in CachedFiles /\ g.mtime = clock /\ g.count = Len(List[w])
        /\ g.rows = List[w] \o SubSeq(file[i].rows, Len(List[w]) + 1, Len(file[i].rows))
    BY <1>1, <1>2, <2>3 DEF CachedFiles, Overlay
  <2> HIDE DEF g
  <2>5. Decode(g) = List[w]
    BY <2>2, <2>4, DecodeWhole
  <2>6. WholeOrNothing(g)
    BY <2>5 DEF WholeOrNothing
  <2>7. \A v \in Storers : Decode(g) = List[v] => v = w
    BY <2>5, SameList
  <2>8. Len(file') = Len(file)
    BY <1>1, <2>1, <2>2, <2>4, ExceptSeq
  <2>9. e \in StorerStates(Len(file')) /\ e.pc = "rename"
    BY <1>1, <2>8 DEF StorerStates
  <2>10. \A v \in Storers : i = named.path /\ Decode(g) = List[v] => placed'[v] = clock
    BY <1>1, <2>1, <2>7
  <2>11. i \in 1..(Len(file) + 1)
    BY <1>1, <2>2
  <2> HIDE DEF e, i
  <2> QED
    BY <1>1, <1>3, <2>1, <2>2, <2>4, <2>6, <2>9, <2>10, <2>11, InodeKeeps, ZenonT(30)
<1>7. CASE WriteCut(w)
  <2> DEFINE i == storer[w].inode
             g == [count |-> Len(List[w]), rows |-> Overlay(i, Front(List[w])), mtime |-> clock]
             e == [storer[w] EXCEPT !.pc = "done"]
  <2>1. /\ file' = [file EXCEPT ![i] = g] /\ named' = named /\ storer' = [storer EXCEPT ![w] = e]
        /\ placed' = placed /\ mixed' = (mixed \/ file[i].rows # <<>>)
    BY <1>7 DEF WriteCut, StorerTo
  <2>2. i \in 1..Len(file) /\ ~(i > Len(file)) /\ file[i] \in CachedFiles
    BY <1>1, <1>5, <1>7
  <2>3. Overlay(i, Front(List[w])) \in Seq(StoredRows)
    BY <1>2, <2>2, OverlayFacts DEF Overlay
  <2>4. g \in CachedFiles /\ g.mtime = clock /\ g.count = Len(List[w])
        /\ g.rows = Front(List[w]) \o SubSeq(file[i].rows, Len(Front(List[w])) + 1, Len(file[i].rows))
    BY <1>1, <1>2, <2>3 DEF CachedFiles, Overlay
  <2> HIDE DEF g
  <2>5. ~mixed' => Decode(g) = <<>>
    BY <2>1, <2>2, <2>4, DecodeCut
  <2>6. (~mixed' => WholeOrNothing(g)) /\ \A v \in Storers : ~mixed' => Decode(g) # List[v]
    BY <2>5, ListFacts DEF WholeOrNothing
  <2>7. mixed' \in BOOLEAN /\ (mixed => mixed')
    BY <1>1, <2>1
  <2>8. Len(file') = Len(file)
    BY <1>1, <2>1, <2>2, <2>4, ExceptSeq
  <2>9. e \in StorerStates(Len(file')) /\ e.pc = "done"
    BY <1>1, <2>8 DEF StorerStates
  <2>10. i \in 1..(Len(file) + 1)
    BY <1>1, <2>2
  <2> HIDE DEF e, i
  <2> QED
    BY <1>1, <1>3, <2>1, <2>2, <2>4, <2>6, <2>7, <2>9, <2>10, InodeKeeps
<1> QED
  BY <1>4, <1>6, <1>7

\* The temporary file takes its place.
LEMMA RenamesKeeps ==
    ASSUME CacheInv, NEW w \in Storers, RenamesTmp(w)
    PROVE  CacheInv'
<1>1. /\ file \in Seq(CachedFiles) /\ Len(file) \in Nat /\ clock \in Instants /\ LastTick \in Nat
      /\ \A j \in 1..Len(file) : file[j] \in CachedFiles /\ file[j].mtime <= clock
      /\ named \in [tmp : 0..Len(file), path : 0..Len(file)]
      /\ storer[w] \in StorerStates(Len(file))
      /\ placed \in [Storers -> Instants] /\ mixed \in BOOLEAN
      /\ \A v \in Storers : placed[v] <= placed[v] /\ placed[v] <= clock
      /\ loader.pc # "rest" => loader.mtime <= clock
  BY CacheFacts
<1> DEFINE e == [storer[w] EXCEPT !.pc = "done"]
<1>2. /\ UNCHANGED <<clock, loader, remembered, served, file, mixed>> /\ storer' = [storer EXCEPT ![w] = e]
      /\ named' = (IF named.tmp = 0 THEN named ELSE [tmp |-> 0, path |-> named.tmp])
      /\ placed' = [v \in Storers |-> IF named.tmp # 0 /\ Decode(file[named.tmp]) = List[v] THEN clock ELSE placed[v]]
  BY DEF RenamesTmp, LoaderSame, StorerTo
<1>3. e \in StorerStates(Len(file)) /\ e.pc = "done"
  BY <1>1 DEF StorerStates
<1> HIDE DEF e
<1>4. /\ storer' \in [Storers -> StorerStates(Len(file'))]
      /\ \A v \in Storers : storer'[v].pc = "write" => storer'[v].inode # 0
  <2>1. Len(file) <= Len(file) /\ Len(file) \in Nat
    BY <1>1
  <2> QED
    BY <1>2, <1>3, <2>1, StorerMoves
<1>5. clock <= clock
  BY <1>1 DEF Instants
<1>6. placed' \in [Storers -> Instants] /\ \A v \in Storers : placed[v] <= placed'[v] /\ placed'[v] <= clock
  BY <1>1, <1>2, <1>5
<1>7. named' \in [tmp : 0..Len(file), path : 0..Len(file)] /\ (named.path # 0 => named'.path # 0)
  BY <1>1, <1>2
<1>8. ASSUME NEW v \in Storers, ~mixed, named'.path # 0, Decode(file[named'.path]) = List[v]
      PROVE  placed'[v] >= file[named'.path].mtime /\ (loader.pc # "rest" => placed'[v] >= loader.mtime)
  <2>1. CASE named.tmp = 0
    <3>1. placed[v] >= file[named.path].mtime /\ (loader.pc # "rest" => placed[v] >= loader.mtime)
      BY <1>2, <1>8, <2>1 DEF CacheInv, ListsInv, Path
    <3> QED
      BY <1>2, <2>1, <3>1
  <2>2. CASE named.tmp # 0
    <3>1. named'.path = named.tmp /\ placed'[v] = clock /\ named.tmp \in 1..Len(file)
      BY <1>1, <1>2, <1>8, <2>2
    <3>2. file[named.tmp].mtime \in Int /\ clock \in Int /\ loader.mtime \in Int
      <4>1. file[named.tmp].mtime \in Instants /\ loader.mtime \in Instants
        BY <1>1, <3>1, CacheFacts DEF CachedFiles
      <4> QED
        BY <1>1, <4>1 DEF Instants
    <3>3. file[named.tmp].mtime <= clock /\ (loader.pc # "rest" => loader.mtime <= clock)
      BY <1>1, <3>1
    <3> QED
      BY <3>1, <3>2, <3>3
  <2> QED
    BY <2>1, <2>2
<1>9. \A i \in 1..Len(file) : file[i].mtime <= clock /\ (~mixed => WholeOrNothing(file[i]))
  BY <1>1 DEF CacheInv, ListsInv
<1> QED
  BY <1>1, <1>2, <1>4, <1>6, <1>7, <1>8, <1>9, FilesKeep

\* The power fails.
LEMMA PowerKeeps ==
    ASSUME CacheInv, PowerFails
    PROVE  CacheInv'
<1>1. /\ file \in Seq(CachedFiles) /\ Len(file) \in Nat /\ clock \in Instants /\ LastTick \in Nat
      /\ \A j \in 1..Len(file) : file[j] \in CachedFiles /\ file[j].mtime <= clock
      /\ named \in [tmp : 0..Len(file), path : 0..Len(file)]
      /\ storer \in [Storers -> StorerStates(Len(file))]
      /\ placed \in [Storers -> Instants] /\ mixed \in BOOLEAN
      /\ \A v \in Storers : placed[v] <= placed[v] /\ placed[v] <= clock
  <2>1. /\ file \in Seq(CachedFiles) /\ Len(file) \in Nat /\ \A i \in 1..Len(file) : file[i] \in CachedFiles
    BY LenProperties, ElementOfSeq DEF CacheInv, CacheTypeOK
  <2>2. placed \in [Storers -> Instants] /\ \A v \in Storers : placed[v] <= placed[v]
    BY DEF CacheInv, CacheTypeOK, Instants
  <2> QED
    BY <2>1, <2>2, CacheAssumption DEF CacheInv, CacheTypeOK, PlacesInv, StorerStates
<1>2. /\ UNCHANGED <<clock, served, placed, mixed>> /\ loader' = [loader EXCEPT !.pc = "rest"]
      /\ remembered' = NoMemo /\ named' = [named EXCEPT !.tmp = 0]
      /\ storer' = [w \in Storers |-> [storer[w] EXCEPT !.pc = IF @ = "start" THEN @ ELSE "done"]]
  BY DEF PowerFails
<1>3. storer' \in [Storers -> StorerStates(Len(file))] /\ \A v \in Storers : storer'[v].pc # "write"
  <2>1. ASSUME NEW w \in Storers
        PROVE  LET e == [storer[w] EXCEPT !.pc = IF @ = "start" THEN @ ELSE "done"]
               IN  e \in StorerStates(Len(file)) /\ e.pc # "write"
    BY <1>1 DEF StorerStates
  <2> QED
    BY <1>2, <2>1
<1>4. /\ file' \in Seq(CachedFiles) /\ Len(file') = Len(file)
      /\ \A i \in 1..Len(file) : file'[i].mtime = file[i].mtime /\ Decode(file'[i]) \in {<<>>, Decode(file[i])}
  <2>1. CASE named.path = 0
    <3>1. file' = file
      BY <2>1 DEF PowerFails
    <3> QED
      BY <1>1, <3>1
  <2>2. CASE named.path # 0
    <3>1. PICK n \in 0..Len(Path.rows) : file' = [file EXCEPT ![named.path].rows = SubSeq(@, 1, n)]
      BY <2>2 DEF PowerFails
    <3> DEFINE f == file[named.path]
               g == [f EXCEPT !.rows = SubSeq(@, 1, n)]
    <3>2. named.path \in 1..Len(file) /\ f \in CachedFiles /\ n \in 0..Len(f.rows)
      BY <1>1, <2>2, <3>1 DEF Path
    <3>3. SubSeq(f.rows, 1, n) \in Seq(StoredRows)
      BY <3>2, FirstRows DEF CachedFiles
    <3>4. g \in CachedFiles /\ g.count = f.count /\ g.rows = SubSeq(f.rows, 1, n) /\ g.mtime = f.mtime
      BY <3>2, <3>3 DEF CachedFiles
    <3>5. file' = [file EXCEPT ![named.path] = g]
      BY <3>1
    <3> HIDE DEF g
    <3>6. Decode(g) \in {<<>>, Decode(f)}
      BY <3>2, <3>4, DecodePart
    <3>7. /\ file' \in Seq(CachedFiles) /\ Len(file') = Len(file) /\ file'[named.path] = g
          /\ \A i \in 1..Len(file) : i # named.path => file'[i] = file[i]
      BY <1>1, <3>2, <3>4, <3>5, ExceptSeq
    <3> QED
      BY <3>4, <3>6, <3>7
  <2> QED
    BY <2>1, <2>2
<1>5. \A i \in 1..Len(file) : file'[i].mtime <= clock /\ (~mixed => WholeOrNothing(file'[i]))
  BY <1>1, <1>4 DEF CacheInv, ListsInv, WholeOrNothing
<1>6. named' \in [tmp : 0..Len(file), path : 0..Len(file)] /\ named'.path = named.path
  BY <1>1, <1>2
<1>7. ASSUME NEW v \in Storers, ~mixed, named.path # 0, Decode(file'[named.path]) = List[v]
      PROVE  placed[v] >= file'[named.path].mtime /\ (loader.pc # "rest" => placed[v] >= loader.mtime)
  <2>1. named.path \in 1..Len(file)
    BY <1>1, <1>7
  <2>2. Decode(file[named.path]) = List[v] /\ file'[named.path].mtime = file[named.path].mtime
    BY <1>4, <1>7, <2>1, ListFacts
  <2> QED
    BY <1>7, <2>2 DEF CacheInv, ListsInv, Path
<1> QED
  BY <1>1, <1>2, <1>3, <1>4, <1>5, <1>6, <1>7, FilesKeep

\* Every row has a list, and so an age.
LEMMA AgeType ==
    ASSUME CacheInv, NEW written \in Seq(StoredRows), written # <<>>
    PROVE  AgeOf(written) \in Int
<1>1. Len(written) \in Nat \ {0}
  BY EmptySeq
<1>2. Last(written) \in StoredRows
  BY <1>1, ElementOfSeq DEF Last
<1>3. \E v \in Storers : Last(written) \in ToSet(List[v])
  BY <1>2 DEF StoredRows
<1> DEFINE v == CHOOSE v \in Storers : Last(written) \in ToSet(List[v])
<1>4. v \in Storers
  BY <1>3
<1> HIDE DEF v
<1>5. placed[v] \in Instants /\ loader.at \in Instants /\ LastTick \in Nat
  BY <1>4, CacheAssumption DEF CacheInv, CacheTypeOK
<1>6. loader.at - placed[v] \in Int
  BY <1>5 DEF Instants
<1> QED
  BY <1>6 DEF AgeOf, v

\* A reader answers: with rows that are one list, if no two were mixed.
LEMMA AnswerKeeps ==
    ASSUME CacheInv, NEW written \in Seq(StoredRows), written # <<>>,
           loader.pc # "rest", loader' = [loader EXCEPT !.pc = "rest"],
           served' = [rows |-> written, age |-> AgeOf(written)],
           remembered' = remembered \/ remembered' = [rows |-> written, mtime |-> loader.mtime],
           ~mixed => \E w \in Storers : written = List[w] /\ placed[w] >= loader.mtime,
           UNCHANGED <<clock, file, named, storer, placed, mixed>>
    PROVE  CacheInv'
<1>1. /\ loader \in [pc : {"rest", "recall", "read"}, mtime : Instants, at : Instants]
      /\ remembered \in [rows : Seq(StoredRows), mtime : Instants \cup {-1}]
      /\ LastTick \in Nat /\ Ttl \in Nat /\ placed \in [Storers -> Instants]
      /\ loader.at - loader.mtime <= Ttl
  BY CacheAssumption DEF CacheInv, CacheTypeOK, PlacesInv
<1>2. loader' \in [pc : {"rest", "recall", "read"}, mtime : Instants, at : Instants] /\ loader'.pc = "rest"
  BY <1>1
<1>3. /\ remembered' \in [rows : Seq(StoredRows), mtime : Instants \cup {-1}]
      /\ remembered' = remembered \/ (remembered'.rows = written /\ remembered'.mtime = loader.mtime)
  BY <1>1
<1>4. AgeOf(written) \in Int
  BY AgeType
<1>5. served' \in [rows : Seq(StoredRows), age : Int] /\ served'.rows = written /\ served'.age = AgeOf(written)
  BY <1>4
<1>6. CacheTypeOK'
  BY <1>2, <1>3, <1>5 DEF CacheInv, CacheTypeOK
<1>7. PlacesInv'
  BY <1>2, <1>3 DEF CacheInv, PlacesInv
<1>8. ListsInv'
  <2>1. SUFFICES ASSUME ~mixed
                 PROVE  ListsInv'
    BY DEF ListsInv
  <2>2. PICK w \in Storers : written = List[w] /\ placed[w] >= loader.mtime
    BY <2>1
  <2>3. AgeOf(written) <= Ttl
    <3>1. AgeOf(written) = loader.at - placed[w]
      BY <2>2, AgeFacts
    <3>2. placed[w] \in Instants /\ loader.at \in Instants /\ loader.mtime \in Instants
      BY <1>1
    <3>3. placed[w] \in Int /\ loader.at \in Int /\ loader.mtime \in Int
      BY <1>1, <3>2 DEF Instants
    <3> QED
      BY <1>1, <2>2, <3>1, <3>3
  <2>4. /\ \A i \in 1..Len(file) : WholeOrNothing(file[i])
        /\ \A v \in Storers : named.path # 0 /\ Decode(Path) = List[v] => placed[v] >= Path.mtime
        /\ remembered.mtime # -1 => \E v \in Storers : remembered.rows = List[v] /\ placed[v] >= remembered.mtime
    BY <2>1 DEF CacheInv, ListsInv
  <2>5. remembered'.mtime # -1 => \E v \in Storers : remembered'.rows = List[v] /\ placed[v] >= remembered'.mtime
    BY <1>3, <2>2, <2>4
  <2>6. served'.age <= Ttl /\ \E v \in Storers : served'.rows = List[v]
    BY <1>5, <2>2, <2>3
  <2> QED
    BY <1>2, <2>1, <2>4, <2>5, <2>6 DEF ListsInv, Path
<1> QED
  BY <1>6, <1>7, <1>8 DEF CacheInv

\* A reader looks at the file, and forgets, and goes on.
LEMMA LookKeeps ==
    ASSUME CacheInv, UNCHANGED <<clock, file, named, storer, placed, mixed, served>>,
           loader' \in [pc : {"rest", "recall", "read"}, mtime : Instants, at : Instants],
           remembered' \in {remembered, NoMemo},
           loader'.pc # "rest" =>
               /\ named.path # 0 /\ loader'.at - loader'.mtime <= Ttl
               /\ loader'.mtime <= clock /\ loader'.at <= clock
               /\ ~mixed => \A v \in Storers : Decode(Path) = List[v] => placed[v] >= loader'.mtime
    PROVE  CacheInv'
<1>1. /\ remembered' \in [rows : Seq(StoredRows), mtime : Instants \cup {-1}]
      /\ remembered'.mtime # -1 => remembered' = remembered
  <2>1. <<>> \in Seq(StoredRows)
    BY EmptySeq
  <2>2. NoMemo \in [rows : Seq(StoredRows), mtime : Instants \cup {-1}] /\ NoMemo.mtime = -1
    BY <2>1 DEF NoMemo
  <2> HIDE DEF NoMemo
  <2> QED
    BY <2>2 DEF CacheInv, CacheTypeOK
<1>2. CacheTypeOK'
  BY <1>1 DEF CacheInv, CacheTypeOK
<1>3. PlacesInv'
  BY <1>1 DEF CacheInv, PlacesInv
<1>4. ListsInv'
  <2>1. SUFFICES ASSUME ~mixed
                 PROVE  ListsInv'
    BY DEF ListsInv
  <2>2. /\ \A i \in 1..Len(file) : WholeOrNothing(file[i])
        /\ \A w \in Storers : named.path # 0 /\ Decode(Path) = List[w] => placed[w] >= Path.mtime
        /\ remembered.mtime # -1 => \E v \in Storers : remembered.rows = List[v] /\ placed[v] >= remembered.mtime
        /\ served = NoAnswer \/ (served.age <= Ttl /\ \E w \in Storers : served.rows = List[w])
    BY <2>1 DEF CacheInv, ListsInv
  <2>3. remembered'.mtime # -1 => \E v \in Storers : remembered'.rows = List[v] /\ placed[v] >= remembered'.mtime
    BY <1>1, <2>2
  <2> QED
    BY <2>1, <2>2, <2>3 DEF ListsInv, Path
<1> QED
  BY <1>2, <1>3, <1>4 DEF CacheInv

\* The steps of the reader.
LEMMA ReaderKeeps ==
    ASSUME CacheInv, StatsPath \/ Recalls \/ ReadsPath
    PROVE  CacheInv'
<1>1. /\ loader \in [pc : {"rest", "recall", "read"}, mtime : Instants, at : Instants]
      /\ remembered \in [rows : Seq(StoredRows), mtime : Instants \cup {-1}]
      /\ LastTick \in Nat /\ Ttl \in Nat /\ clock \in Instants
      /\ named \in [tmp : 0..Len(file), path : 0..Len(file)]
      /\ file \in Seq(CachedFiles) /\ Len(file) \in Nat
  BY CacheAssumption, LenProperties DEF CacheInv, CacheTypeOK
<1>2. UNCHANGED <<clock, file, named, storer, placed, mixed>>
  BY DEF StatsPath, Recalls, ReadsPath
<1>3. named.path # 0 => Path \in CachedFiles /\ Path.mtime \in Instants /\ Path.mtime <= clock
  <2>1. SUFFICES ASSUME named.path # 0
                 PROVE  Path \in CachedFiles /\ Path.mtime \in Instants /\ Path.mtime <= clock
    OBVIOUS
  <2>2. named.path \in 1..Len(file)
    BY <1>1, <2>1
  <2>3. Path \in CachedFiles
    BY <1>1, <2>2, ElementOfSeq DEF Path
  <2> QED
    BY <2>2, <2>3 DEF CacheInv, PlacesInv, Path, CachedFiles
<1>4. CASE StatsPath
  <2>1. named.path # 0 /\ loader.pc = "rest" /\ served' = served
    BY <1>4 DEF StatsPath
  <2>2. CASE clock - Path.mtime > Ttl
    <3>1. remembered' = NoMemo /\ loader' = loader
      BY <1>4, <2>2 DEF StatsPath
    <3> QED
      BY <1>1, <1>2, <2>1, <3>1, LookKeeps
  <2>3. CASE ~(clock - Path.mtime > Ttl)
    <3>1. /\ loader' = [pc |-> "recall", mtime |-> Path.mtime, at |-> clock] /\ remembered' = remembered
      BY <1>4, <2>3 DEF StatsPath
    <3>2. clock - Path.mtime <= Ttl /\ clock <= clock
      BY <1>1, <1>3, <2>1, <2>3 DEF Instants
    <3>3. /\ loader' \in [pc : {"rest", "recall", "read"}, mtime : Instants, at : Instants]
          /\ loader'.mtime = Path.mtime /\ loader'.at = clock
      BY <1>1, <1>3, <2>1, <3>1
    <3>4. ~mixed => \A v \in Storers : Decode(Path) = List[v] => placed[v] >= Path.mtime
      BY <2>1 DEF CacheInv, ListsInv
    <3> QED
      BY <1>2, <1>3, <2>1, <3>1, <3>2, <3>3, <3>4, LookKeeps
  <2> QED
    BY <2>2, <2>3
<1>5. CASE Recalls
  <2>1. CASE remembered.mtime = loader.mtime
    <3>1. /\ loader' = [loader EXCEPT !.pc = "rest"] /\ loader.pc # "rest" /\ remembered' = remembered
          /\ served' = [rows |-> remembered.rows, age |-> AgeOf(remembered.rows)]
      BY <1>5, <2>1 DEF Recalls
    <3>2. remembered.mtime # -1
      BY <1>1, <2>1 DEF Instants
    <3>3. remembered.rows \in Seq(StoredRows) /\ remembered.rows # <<>>
      BY <1>1, <3>2 DEF CacheInv, PlacesInv
    <3>4. ~mixed => \E w \in Storers : remembered.rows = List[w] /\ placed[w] >= loader.mtime
      BY <2>1, <3>2 DEF CacheInv, ListsInv
    <3> QED
      BY <1>2, <3>1, <3>3, <3>4, AnswerKeeps
  <2>2. CASE remembered.mtime # loader.mtime
    <3>1. /\ loader' = [loader EXCEPT !.pc = "read"] /\ loader.pc = "recall" /\ remembered' = remembered
          /\ served' = served
      BY <1>5, <2>2 DEF Recalls
    <3>2. /\ loader' \in [pc : {"rest", "recall", "read"}, mtime : Instants, at : Instants]
          /\ loader'.mtime = loader.mtime /\ loader'.at = loader.at
      BY <1>1, <3>1
    <3>3. /\ named.path # 0 /\ loader.at - loader.mtime <= Ttl
          /\ loader.mtime <= clock /\ loader.at <= clock
          /\ ~mixed => \A v \in Storers : Decode(Path) = List[v] => placed[v] >= loader.mtime
      BY <3>1 DEF CacheInv, PlacesInv, ListsInv
    <3> QED
      BY <1>2, <3>1, <3>2, <3>3, LookKeeps
  <2> QED
    BY <2>1, <2>2
<1>6. CASE ReadsPath
  <2> DEFINE written == Decode(Path)
  <2>1. loader.pc = "read" /\ loader' = [loader EXCEPT !.pc = "rest"] /\ named.path # 0
    BY <1>6 DEF ReadsPath, CacheInv, PlacesInv
  <2>2. written \in Seq(StoredRows)
    BY <1>3, <2>1, DecodeType
  <2>3. CASE written = <<>>
    <3>1. remembered' = remembered /\ served' = served
      BY <1>6, <2>3 DEF ReadsPath
    <3>2. loader' \in [pc : {"rest", "recall", "read"}, mtime : Instants, at : Instants] /\ loader'.pc = "rest"
      BY <1>1, <2>1
    <3> QED
      BY <1>2, <3>1, <3>2, LookKeeps
  <2>4. CASE written # <<>>
    <3>1. /\ remembered' = [rows |-> written, mtime |-> loader.mtime]
          /\ served' = [rows |-> written, age |-> AgeOf(written)]
      BY <1>6, <2>4 DEF ReadsPath
    <3>2. ~mixed => \E w \in Storers : written = List[w] /\ placed[w] >= loader.mtime
      <4>1. SUFFICES ASSUME ~mixed
                     PROVE  \E w \in Storers : written = List[w] /\ placed[w] >= loader.mtime
        OBVIOUS
      <4>2. named.path \in 1..Len(file)
        BY <1>1, <2>1
      <4>3. PICK w \in Storers : written = List[w]
        BY <2>4, <4>1, <4>2 DEF CacheInv, ListsInv, WholeOrNothing, Path
      <4>4. placed[w] >= loader.mtime
        BY <2>1, <4>1, <4>3 DEF CacheInv, ListsInv
      <4> QED
        BY <4>3, <4>4
    <3> HIDE DEF written
    <3> QED
      BY <1>2, <2>1, <2>2, <2>4, <3>1, <3>2, AnswerKeeps
  <2> QED
    BY <2>3, <2>4
<1> QED
  BY <1>4, <1>5, <1>6

\* The clock moves on.
LEMMA CacheTickKeeps ==
    ASSUME CacheInv, CacheTick
    PROVE  CacheInv'
<1>1. /\ clock' = clock + 1 /\ clock < LastTick
      /\ UNCHANGED <<file, named, storer, loader, remembered, placed, mixed, served>>
  BY DEF CacheTick
<1>2. /\ file \in Seq(CachedFiles) /\ Len(file) \in Nat /\ clock \in Instants /\ LastTick \in Nat
      /\ \A j \in 1..Len(file) : file[j] \in CachedFiles /\ file[j].mtime <= clock
      /\ placed \in [Storers -> Instants] /\ \A v \in Storers : placed[v] <= clock
      /\ loader.mtime \in Instants /\ loader.at \in Instants
  <2>1. /\ file \in Seq(CachedFiles) /\ Len(file) \in Nat /\ \A i \in 1..Len(file) : file[i] \in CachedFiles
    BY LenProperties, ElementOfSeq DEF CacheInv, CacheTypeOK
  <2> QED
    BY <2>1, CacheAssumption DEF CacheInv, CacheTypeOK, PlacesInv
<1>3. clock' \in Instants /\ \A t \in Instants : t <= clock => t <= clock'
  BY <1>1, <1>2 DEF Instants
<1>4. CacheTypeOK'
  BY <1>1, <1>3 DEF CacheInv, CacheTypeOK
<1>5. PlacesInv'
  <2>1. \A i \in 1..Len(file) : file[i].mtime <= clock'
    BY <1>2, <1>3 DEF CachedFiles
  <2>2. \A v \in Storers : placed[v] <= clock'
    BY <1>2, <1>3
  <2>3. loader.pc # "rest" => loader.mtime <= clock' /\ loader.at <= clock'
    BY <1>2, <1>3 DEF CacheInv, PlacesInv
  <2> QED
    BY <1>1, <2>1, <2>2, <2>3 DEF CacheInv, PlacesInv
<1>6. ListsInv'
  BY <1>1 DEF CacheInv, ListsInv, Path, WholeOrNothing
<1> QED
  BY <1>4, <1>5, <1>6 DEF CacheInv

\* Nothing is written yet.
LEMMA CacheInitially == CacheInit => CacheInv
<1> SUFFICES ASSUME CacheInit
             PROVE  CacheInv
  OBVIOUS
<1>1. /\ clock = 0 /\ file = <<>> /\ named = [tmp |-> 0, path |-> 0]
      /\ storer = [w \in Storers |-> [pc |-> "start", inode |-> 0]]
      /\ loader = [pc |-> "rest", mtime |-> 0, at |-> 0]
      /\ remembered = [rows |-> <<>>, mtime |-> -1] /\ placed = [w \in Storers |-> 0] /\ mixed = FALSE
      /\ served = [rows |-> <<>>, age |-> 0]
  BY DEF CacheInit, NoMemo, NoAnswer
<1>2. 0 \in Instants /\ <<>> \in Seq(StoredRows) /\ <<>> \in Seq(CachedFiles) /\ Len(<<>>) = 0
  BY CacheAssumption, EmptySeq DEF Instants
<1>3. /\ served \in [rows : Seq(StoredRows), age : Int]
      /\ remembered \in [rows : Seq(StoredRows), mtime : Instants \cup {-1}] /\ remembered.mtime = -1
      /\ loader \in [pc : {"rest", "recall", "read"}, mtime : Instants, at : Instants] /\ loader.pc = "rest"
      /\ placed \in [Storers -> Instants] /\ mixed \in BOOLEAN
  <2>1. served \in [rows : Seq(StoredRows), age : Int]
    BY <1>1, <1>2
  <2>2. remembered \in [rows : Seq(StoredRows), mtime : Instants \cup {-1}] /\ remembered.mtime = -1
    BY <1>1, <1>2
  <2>3. loader \in [pc : {"rest", "recall", "read"}, mtime : Instants, at : Instants] /\ loader.pc = "rest"
    BY <1>1, <1>2
  <2>4. mixed \in BOOLEAN
    BY <1>1
  <2>5. placed \in [Storers -> Instants]
    BY <1>1, <1>2
  <2> QED
    BY <2>1, <2>2, <2>3, <2>4, <2>5
<1>4. /\ named \in [tmp : 0..Len(file), path : 0..Len(file)] /\ named.path = 0
      /\ storer \in [Storers -> [pc : {"start", "write", "rename", "done"}, inode : 0..Len(file)]]
      /\ \A w \in Storers : storer[w].pc = "start" /\ placed[w] = 0
  BY <1>1, <1>2
<1>5. CacheTypeOK
  BY <1>1, <1>2, <1>3, <1>4 DEF CacheTypeOK
<1>6. PlacesInv
  BY <1>1, <1>2, <1>3, <1>4 DEF PlacesInv
<1>7. ListsInv
  <2>1. served = NoAnswer
    BY <1>1 DEF NoAnswer
  <2> QED
    BY <1>1, <1>2, <1>3, <1>4, <2>1 DEF ListsInv
<1> QED
  BY <1>5, <1>6, <1>7 DEF CacheInv

\* Every step keeps the invariant.
LEMMA CacheStepKeeps == CacheInv /\ [CacheNext]_cacheVars => CacheInv'
<1> SUFFICES ASSUME CacheInv, [CacheNext]_cacheVars
             PROVE  CacheInv'
  OBVIOUS
<1>1. ASSUME NEW w \in Storers, OpensTmp(w) \/ WritesTmp(w) \/ WriteCut(w)
      PROVE  CacheInv'
  BY <1>1, StorerWritesKeeps
<1>2. ASSUME NEW w \in Storers, RenamesTmp(w)
      PROVE  CacheInv'
  BY <1>2, RenamesKeeps
<1>3. CASE StatsPath \/ Recalls \/ ReadsPath
  BY <1>3, ReaderKeeps
<1>4. CASE PowerFails
  BY <1>4, PowerKeeps
<1>5. CASE CacheTick
  BY <1>5, CacheTickKeeps
<1>6. CASE UNCHANGED cacheVars
  BY <1>6 DEF cacheVars, CacheInv, CacheTypeOK, PlacesInv, ListsInv, Path, WholeOrNothing
<1> QED
  BY <1>1, <1>2, <1>3, <1>4, <1>5, <1>6 DEF CacheNext

\* The invariant of the cache: times, places and lists.
THEOREM CacheInvariant == CacheSpec => []CacheInv
BY CacheInitially, CacheStepKeeps, PTL DEF CacheSpec

\* The state of the cache has its types.
THEOREM CacheTypes == CacheSpec => []CacheTypeOK
<1>1. CacheInv => CacheTypeOK
  BY DEF CacheInv
<1> QED
  BY <1>1, CacheInvariant, PTL

\* What load_rows serves is one whole list that took its place within the time to live, whatever
\* the tasks of the process and the power do to the files, unless two lists were mixed.
THEOREM WholeListsAreServed == CacheSpec => []ServesStoredLists
<1>1. CacheInv => ServesStoredLists
  BY DEF CacheInv, ListsInv, ServesStoredLists
<1> QED
  BY <1>1, CacheInvariant, PTL
=============================================================================
