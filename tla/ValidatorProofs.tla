-------------------------- MODULE ValidatorProofs --------------------------
(***************************************************************************)
(* The safety of a validation run, for every stream of jobs, any number of  *)
(* workers and any capacity of the two channels.                            *)
(*                                                                         *)
(* The properties are about units (a single type or a whole group, one key  *)
(* each) but the steps are about jobs.  The invariant therefore says where  *)
(* a unit is when all of its jobs are through (Settled), and counts sets of *)
(* units rather than steps.                                                 *)
(***************************************************************************)
EXTENDS Validator, SequenceTheorems, FiniteSetTheorems, TLAPS

Distinct(s) == \A a, b \in 1..Len(s) : s[a] = s[b] => a = b

(* The jobs of a unit are through, and the aggregator holds none of them.   *)
Settled(k) ==
    /\ states[k] = {}
    /\ \A j \in MembersOf(k) : pc[j] = "finished" /\ j \notin ToSet(groupCh)

(* The unit passed, and is on its way to the consumer or there.             *)
Handed(k) == k \in ToSet(delivered) \/ k \in ToSet(results) \/ k = merged

Grouped(k) == \E j \in MembersOf(k) : Member(j)
AllPass(k) == \A j \in MembersOf(k) : found[j] = "pass"

(* The units each counter of ValidationProgress has counted.                *)
Pulled == {k \in Keys : \E j \in MembersOf(k) : j < at}
Done ==
    {k \in Keys : IF Grouped(k) THEN Settled(k)
                  ELSE \A j \in MembersOf(k) : pc[j] \in {"recording", "sending", "finished"}}
Passed ==
    {k \in Keys : /\ AllPass(k)
                  /\ IF Grouped(k) THEN Settled(k)
                     ELSE \A j \in MembersOf(k) : pc[j] \in {"sending", "finished"}}
HandedKeys == {k \in Keys : Handed(k)}
-----------------------------------------------------------------------------
(* Sequences: what Append and Tail do to the elements.                      *)

\* Appending adds one element.
LEMMA AppendElements ==
    ASSUME NEW S, NEW s \in Seq(S), NEW x \in S
    PROVE  /\ Append(s, x) \in Seq(S) /\ Len(Append(s, x)) = Len(s) + 1
           /\ ToSet(Append(s, x)) = ToSet(s) \cup {x}
           /\ Distinct(s) /\ x \notin ToSet(s) => Distinct(Append(s, x))
<1>1. /\ Append(s, x) \in Seq(S) /\ Len(Append(s, x)) = Len(s) + 1
      /\ \A i \in 1..Len(s) : Append(s, x)[i] = s[i]
      /\ Append(s, x)[Len(s) + 1] = x
      /\ Len(s) \in Nat
  BY LenProperties
<1>2. DOMAIN s = 1..Len(s) /\ DOMAIN Append(s, x) = 1..(Len(s) + 1)
  BY <1>1, LenProperties
<1>3. ToSet(Append(s, x)) = ToSet(s) \cup {x}
  <2>1. \A i \in 1..(Len(s) + 1) : i \in 1..Len(s) \/ i = Len(s) + 1
    BY <1>1
  <2>2. 1..Len(s) \subseteq 1..(Len(s) + 1) /\ Len(s) + 1 \in 1..(Len(s) + 1)
    BY <1>1
  <2> QED
    BY <1>1, <1>2, <2>1, <2>2 DEF ToSet
<1>4. ASSUME Distinct(s), x \notin ToSet(s)
      PROVE  Distinct(Append(s, x))
  <2>1. \A i \in 1..Len(s) : s[i] # x
    BY <1>2, <1>4 DEF ToSet
  <2> QED
    BY <1>1, <1>4, <2>1 DEF Distinct
<1> QED
  BY <1>1, <1>3, <1>4

\* Taking the first element leaves the others.
LEMMA TailElements ==
    ASSUME NEW S, NEW s \in Seq(S), s # <<>>
    PROVE  /\ Tail(s) \in Seq(S) /\ Len(Tail(s)) = Len(s) - 1
           /\ Head(s) \in S
           /\ ToSet(s) = ToSet(Tail(s)) \cup {Head(s)}
           /\ Distinct(s) => Distinct(Tail(s)) /\ Head(s) \notin ToSet(Tail(s))
<1>1. /\ Tail(s) \in Seq(S) /\ Len(Tail(s)) = Len(s) - 1 /\ Head(s) \in S
      /\ \A i \in 1..Len(Tail(s)) : Tail(s)[i] = s[i + 1]
      /\ Len(s) \in Nat /\ Len(s) >= 1
      /\ Head(s) = s[1]
  BY HeadTailProperties, EmptySeq
<1>2. DOMAIN s = 1..Len(s) /\ DOMAIN Tail(s) = 1..(Len(s) - 1)
  BY <1>1, LenProperties
<1>3. ToSet(s) = ToSet(Tail(s)) \cup {Head(s)}
  <2>1. ASSUME NEW x \in ToSet(s), x # Head(s)
        PROVE  x \in ToSet(Tail(s))
    <3>1. PICK i \in 1..Len(s) : x = s[i]
      BY <1>2 DEF ToSet
    <3>2. i - 1 \in 1..(Len(s) - 1) /\ x = Tail(s)[i - 1]
      BY <1>1, <2>1, <3>1
    <3> QED
      BY <1>2, <3>2 DEF ToSet
  <2>2. ASSUME NEW x \in ToSet(Tail(s))
        PROVE  x \in ToSet(s)
    <3>1. PICK i \in 1..(Len(s) - 1) : x = Tail(s)[i]
      BY <1>2 DEF ToSet
    <3>2. i + 1 \in 1..Len(s) /\ x = s[i + 1]
      BY <1>1, <3>1
    <3> QED
      BY <1>2, <3>2 DEF ToSet
  <2>3. Head(s) \in ToSet(s)
    BY <1>1, <1>2 DEF ToSet
  <2> QED
    BY <2>1, <2>2, <2>3
<1>4. ASSUME Distinct(s)
      PROVE  Distinct(Tail(s)) /\ Head(s) \notin ToSet(Tail(s))
  <2>1. ASSUME NEW a \in 1..Len(Tail(s)), NEW b \in 1..Len(Tail(s)), Tail(s)[a] = Tail(s)[b]
        PROVE  a = b
    <3>1. a + 1 \in 1..Len(s) /\ b + 1 \in 1..Len(s) /\ s[a + 1] = s[b + 1]
      BY <1>1, <2>1
    <3> QED
      BY <1>4, <3>1 DEF Distinct
  <2>2. ASSUME NEW i \in 1..(Len(s) - 1), Tail(s)[i] = Head(s)
        PROVE  FALSE
    <3>1. i + 1 \in 1..Len(s) /\ 1 \in 1..Len(s) /\ s[i + 1] = s[1] /\ i + 1 # 1
      BY <1>1, <2>2
    <3> QED
      BY <1>4, <3>1 DEF Distinct
  <2> QED
    BY <1>2, <2>1, <2>2 DEF Distinct, ToSet
<1> QED
  BY <1>1, <1>3, <1>4
-----------------------------------------------------------------------------
(* Jobs and their units.                                                    *)

\* Jobs and units are finite, and every unit has jobs.
LEMMA JobFacts ==
    /\ Len(Plan) \in Nat /\ Jobs = 1..Len(Plan) /\ IsFiniteSet(Jobs)
    /\ IsFiniteSet(Keys)
    /\ \A k \in Keys : k # NoUnit /\ MembersOf(k) # {} /\ MembersOf(k) \subseteq Jobs
<1>1. Len(Plan) \in Nat /\ Jobs = 1..Len(Plan)
  BY ValidatorAssumption, LenProperties DEF Jobs
<1>2. IsFiniteSet(Jobs)
  BY <1>1, FS_Interval
<1>3. IsFiniteSet(Keys)
  <2> DEFINE f == [j \in Jobs |-> KeyOf(j)]
  <2>1. f \in Surjection(Jobs, Keys)
    BY DEF Keys, Surjection
  <2> QED
    BY <1>2, <2>1, FS_Surjection
<1>4. \A k \in Keys : MembersOf(k) # {} /\ MembersOf(k) \subseteq Jobs
  BY DEF Keys, MembersOf
<1>5. ASSUME NEW k \in Keys
      PROVE  k # NoUnit
  <2>1. PICK j \in Jobs : k = <<Plan[j].proxy, Plan[j].unit>>
    BY DEF Keys, KeyOf
  <2>2. Len(k) = 2 /\ Len(NoUnit) = 0
    BY <2>1 DEF NoUnit
  <2> QED
    BY <2>2
<1> QED
  BY <1>1, <1>2, <1>3, <1>4, <1>5

\* A job belongs to the unit of its key and to no other.
LEMMA KeyFacts ==
    ASSUME NEW j \in Jobs
    PROVE  /\ KeyOf(j) \in Keys /\ j \in MembersOf(KeyOf(j))
           /\ \A k \in Keys : j \in MembersOf(k) <=> k = KeyOf(j)
           /\ ~Member(j) => MembersOf(KeyOf(j)) = {j} /\ ~Grouped(KeyOf(j))
           /\ Member(j) => \A i \in MembersOf(KeyOf(j)) : Member(i)
           /\ Member(j) => Grouped(KeyOf(j))
<1>1. KeyOf(j) \in Keys /\ j \in MembersOf(KeyOf(j))
  BY DEF Keys, MembersOf
<1>2. \A k \in Keys : j \in MembersOf(k) <=> k = KeyOf(j)
  BY DEF MembersOf
<1>3. \A i \in Jobs : ~Member(i) => MembersOf(KeyOf(i)) = {i}
  BY ValidatorAssumption
<1>4. ASSUME Member(j), NEW i \in MembersOf(KeyOf(j)), ~Member(i)
      PROVE  FALSE
  <2>1. i \in Jobs /\ KeyOf(i) = KeyOf(j)
    BY <1>4 DEF MembersOf
  <2>2. MembersOf(KeyOf(j)) = {i}
    BY <1>3, <1>4, <2>1
  <2> QED
    BY <1>1, <1>4, <2>2
<1> QED
  BY <1>1, <1>2, <1>3, <1>4 DEF Grouped

\* The slot of a job is a natural number.
LEMMA SlotType ==
    ASSUME NEW j \in Jobs
    PROVE  Plan[j].slot \in Nat
<1>1. CASE Member(j)
  <2>1. {i \in MembersOf(KeyOf(j)) : i <= j} \in SUBSET Jobs
    BY DEF MembersOf
  <2>2. IsFiniteSet({i \in MembersOf(KeyOf(j)) : i <= j})
    BY <2>1, JobFacts, FS_Subset
  <2> QED
    BY <1>1, <2>2, FS_CardinalityType, ValidatorAssumption
<1>2. CASE ~Member(j)
  <2>1. Plan[j].slot = 0 /\ MembersOf(KeyOf(j)) = {j}
    BY <1>2, ValidatorAssumption
  <2> QED
    BY <2>1
<1> QED
  BY <1>1, <1>2

(* The first job of a unit is the one whose slot is 0 or 1.                 *)
LEMMA FirstOfUnit ==
    ASSUME NEW j \in Jobs
    PROVE  Plan[j].slot <= 1 <=> \A i \in MembersOf(KeyOf(j)) : ~(i < j)
<1> DEFINE upTo == {i \in MembersOf(KeyOf(j)) : i <= j}
<1>1. j \in Int /\ MembersOf(KeyOf(j)) \subseteq Int
  BY JobFacts DEF MembersOf
<1>2. j \in upTo /\ IsFiniteSet(upTo)
  <2>1. upTo \in SUBSET Jobs
    BY DEF MembersOf
  <2> QED
    BY <1>1, <2>1, JobFacts, KeyFacts, FS_Subset
<1>3. CASE Member(j)
  <2>1. Plan[j].slot = Cardinality(upTo)
    BY <1>3, ValidatorAssumption
  <2>2. Cardinality(upTo) \in Nat /\ Cardinality(upTo) # 0
    BY <1>2, FS_CardinalityType, FS_EmptySet
  <2>3. Cardinality(upTo) = 1 <=> upTo = {j}
    BY <1>2, FS_Singleton
  <2>4. upTo = {j} <=> \A i \in MembersOf(KeyOf(j)) : ~(i < j)
    BY <1>1, <1>2
  <2> HIDE DEF upTo
  <2> QED
    BY <2>1, <2>2, <2>3, <2>4
<1>4. CASE ~Member(j)
  <2>1. Plan[j].slot = 0 /\ MembersOf(KeyOf(j)) = {j}
    BY <1>4, ValidatorAssumption
  <2> QED
    BY <1>1, <2>1
<1> QED
  BY <1>3, <1>4
-----------------------------------------------------------------------------
(* The invariant.                                                           *)

Unasked == {"idle", "gate", "registered", "looked", "parked", "probing"}

(* What a job found, by the place where it stands.                          *)
JobInv ==
    \A j \in Jobs :
        /\ pc[j] = "idle" <=> j >= at
        /\ pc[j] \in Unasked => found[j] = "none"
        /\ found[j] = "none" /\ pc[j] = "finished" => ~Member(j)
        /\ pc[j] = "recording" => found[j] = IF Member(j) THEN "fail" ELSE "pass"
        /\ pc[j] = "sending" => ~Member(j) /\ found[j] = "pass"
        /\ pc[j] = "reporting" => Member(j) /\ found[j] # "none"
        /\ found[j] = "skipped" => Member(j)

(* A member that is through is in the channel to the aggregator, in its     *)
(* map, or its group has settled; never in two of them.                     *)
GroupInv ==
    /\ Distinct(groupCh)
    /\ \A j \in ToSet(groupCh) :
        Member(j) /\ pc[j] = "finished" /\ j \notin states[KeyOf(j)]
    /\ \A k \in Keys :
        /\ states[k] \subseteq MembersOf(k) /\ states[k] # MembersOf(k)
        /\ \A j \in states[k] : Member(j) /\ pc[j] = "finished"
    /\ \A j \in Jobs : Member(j) /\ pc[j] = "finished" =>
        j \in ToSet(groupCh) \/ j \in states[KeyOf(j)] \/ Settled(KeyOf(j))

(* The shared flag is raised by a failed probe of its own group, and gone   *)
(* once the group has settled.                                              *)
FlagInv ==
    \A k \in Keys :
        /\ dead[k] = "dead" => \E i \in MembersOf(k) : found[i] = "fail"
        /\ dead[k] # "absent" => Grouped(k)
        /\ Settled(k) => dead[k] = "absent"

(* The consumer gets a unit once, and only one whose jobs all passed.       *)
HandedInv ==
    /\ Distinct(delivered) /\ Distinct(results)
    /\ ToSet(delivered) \cap ToSet(results) = {}
    /\ merged \notin ToSet(delivered) \cup ToSet(results)
    /\ \A k \in Keys : Handed(k) => Settled(k) /\ AllPass(k)
    /\ \A k \in Keys : Settled(k) /\ AllPass(k) => Handed(k)

CountInv ==
    /\ total = Cardinality(Pulled)
    /\ done = Cardinality(Done)
    /\ passed = Cardinality(Passed)
    /\ Len(delivered) + Len(results) + (IF merged = NoUnit THEN 0 ELSE 1) = Cardinality(HandedKeys)

IInv == TypeOK /\ JobInv /\ GroupInv /\ FlagInv /\ SkipsAreExcused /\ HandedInv /\ CountInv
-----------------------------------------------------------------------------
(* Before the first pull nothing is counted, listed or handed over.         *)
LEMMA InitIInv == Init => IInv
<1> SUFFICES ASSUME Init PROVE IInv
  OBVIOUS
<1>1. /\ \A S : <<>> \in Seq(S)
      /\ Len(<<>>) = 0 /\ ToSet(<<>>) = {}
      /\ Distinct(<<>>)
  BY DEF ToSet, Distinct
<1>2. \A j \in Jobs : pc[j] = "idle" /\ found[j] = "none" /\ j >= at
  BY JobFacts DEF Init
<1>3. In(Active) = {} /\ Cardinality({}) = 0
  BY <1>2, FS_EmptySet DEF In, Active
<1>4. TypeOK
  <2>1. at \in 1..(Len(Plan) + 1) /\ pauses \in 0..MaxPauses
    BY JobFacts, ValidatorAssumption DEF Init
  <2>2. Cardinality(In(Active)) <= Limit /\ Len(groupCh) <= GroupCap /\ Len(results) <= ResultCap
    BY <1>1, <1>3, ValidatorAssumption DEF Init
  <2>3. pc \in [Jobs -> Places] /\ found \in [Jobs -> {"none", "pass", "fail", "skipped"}]
    BY DEF Init, Places
  <2>4. groupCh \in Seq(Jobs) /\ results \in Seq(Keys) /\ delivered \in Seq(Keys)
    BY <1>1 DEF Init
  <2> QED
    BY <2>1, <2>2, <2>3, <2>4 DEF Init, TypeOK
<1>5. \A k \in Keys : ~Settled(k) /\ ~Handed(k)
  <2> SUFFICES ASSUME NEW k \in Keys PROVE ~Settled(k) /\ ~Handed(k)
    OBVIOUS
  <2>1. PICK j \in MembersOf(k) : j \in Jobs
    BY JobFacts
  <2>2. ~Settled(k)
    BY <1>2, <2>1 DEF Settled
  <2>3. ~Handed(k)
    BY <1>1, JobFacts DEF Handed, Init
  <2> QED
    BY <2>2, <2>3
<1>6. JobInv
  BY <1>2, JobFacts DEF JobInv, Init, Unasked
<1>7. GroupInv
  BY <1>1, <1>2, JobFacts DEF GroupInv, Init
<1>8. FlagInv /\ SkipsAreExcused
  BY <1>2, <1>5 DEF FlagInv, SkipsAreExcused, Init
<1>9. HandedInv
  BY <1>1, <1>5 DEF HandedInv, Init
<1>10. CountInv
  <2>1. Pulled = {} /\ Done = {} /\ Passed = {} /\ HandedKeys = {}
    <3>1. Pulled = {}
      BY JobFacts DEF Pulled, Init
    <3>2. Done = {}
      BY <1>2, <1>5, JobFacts DEF Done
    <3>3. Passed = {}
      BY <1>2, JobFacts DEF Passed, AllPass
    <3>4. HandedKeys = {}
      BY <1>5 DEF HandedKeys
    <3> QED
      BY <3>1, <3>2, <3>3, <3>4
  <2> QED
    BY <1>1, <1>3, <2>1 DEF CountInv, Init
<1> QED
  BY <1>4, <1>6, <1>7, <1>8, <1>9, <1>10 DEF IInv
-----------------------------------------------------------------------------
(* Types.  A job only takes a place when it is pulled.                      *)

\* A running job that moves takes no new place among the workers.
LEMMA PlaceStep ==
    ASSUME TypeOK, NEW j \in Jobs, pc[j] \in Active, NEW p \in Places,
           pc' = [pc EXCEPT ![j] = p]
    PROVE  pc' \in [Jobs -> Places] /\ Cardinality(In(Active))' <= Limit
<1>1. pc' \in [Jobs -> Places]
  BY DEF TypeOK
<1>2. In(Active)' \in SUBSET In(Active)
  BY DEF In, TypeOK
<1>3. IsFiniteSet(In(Active))
  <2>1. In(Active) \in SUBSET Jobs
    BY DEF In
  <2> QED
    BY <2>1, JobFacts, FS_Subset
<1>4. Cardinality(In(Active)') <= Cardinality(In(Active)) /\ IsFiniteSet(In(Active)')
  BY <1>2, <1>3, FS_Subset
<1>5. Cardinality(In(Active)) \in Nat /\ Cardinality(In(Active)') \in Nat /\ Limit \in Nat
  BY <1>3, <1>4, FS_CardinalityType, ValidatorAssumption
<1>6. Cardinality(In(Active)) <= Limit
  BY DEF TypeOK
<1> QED
  BY <1>1, <1>4, <1>5, <1>6

\* Pulling a job keeps the types, the bound on the workers included.
LEMMA PullTypes ==
    ASSUME TypeOK, Pull
    PROVE  TypeOK'
<1>1. at \in Jobs /\ at + 1 \in 1..(Len(Plan) + 1)
  BY JobFacts DEF Pull, TypeOK
<1>2. pc' \in [Jobs -> Places]
  BY <1>1 DEF Pull, Goes, Places, TypeOK
<1>3. Cardinality(In(Active))' <= Limit
  <2>1. In(Active)' \in SUBSET (In(Active) \cup {at})
    BY <1>1 DEF Pull, Goes, In, TypeOK
  <2>2. IsFiniteSet(In(Active))
    <3>1. In(Active) \in SUBSET Jobs
      BY DEF In
    <3> QED
      BY <3>1, JobFacts, FS_Subset
  <2>3. /\ IsFiniteSet(In(Active) \cup {at})
        /\ Cardinality(In(Active) \cup {at}) <= Cardinality(In(Active)) + 1
    <3>1. Cardinality(In(Active)) \in Nat
      BY <2>2, FS_CardinalityType
    <3>2. /\ IsFiniteSet(In(Active) \cup {at})
          /\ Cardinality(In(Active) \cup {at}) =
                IF at \in In(Active) THEN Cardinality(In(Active)) ELSE Cardinality(In(Active)) + 1
      BY <2>2, FS_AddElement
    <3> QED
      BY <3>1, <3>2
  <2>4. Cardinality(In(Active)') <= Cardinality(In(Active) \cup {at}) /\ IsFiniteSet(In(Active)')
    BY <2>1, <2>3, FS_Subset
  <2>5. /\ Cardinality(In(Active)) \in Nat /\ Cardinality(In(Active)') \in Nat
        /\ Cardinality(In(Active) \cup {at}) \in Nat /\ Limit \in Nat
    BY <2>2, <2>3, <2>4, FS_CardinalityType, ValidatorAssumption
  <2>6. Cardinality(In(Active)) < Limit
    BY DEF Pull
  <2> QED
    BY <2>3, <2>4, <2>5, <2>6
<1>4. total' \in Nat
  BY DEF Pull, TypeOK
<1> QED
  BY <1>1, <1>2, <1>3, <1>4 DEF Pull, gateVars, TypeOK

(* A channel with room takes one more; a channel that is read has one less. *)
LEMMA ChannelStep ==
    ASSUME NEW S, NEW s \in Seq(S), NEW cap \in Nat
    PROVE  /\ \A x \in S : Len(s) < cap => Append(s, x) \in Seq(S) /\ Len(Append(s, x)) <= cap
           /\ s # <<>> /\ Len(s) <= cap => Tail(s) \in Seq(S) /\ Len(Tail(s)) <= cap
<1>1. Len(s) \in Nat
  BY LenProperties
<1> QED
  BY <1>1, AppendElements, TailElements

\* A step of a worker keeps the types.
LEMMA WorkTypes ==
    ASSUME TypeOK, NEW j \in Jobs, Works(j)
    PROVE  TypeOK'
<1>1. pc[j] \in Active /\ \E p \in Places : pc' = [pc EXCEPT ![j] = p]
  <2> USE DEF Goes, Active, Places, PassesGate
  <2>1. CASE GateRegister(j) \/ GateLooks(j) \/ GateParks(j) \/ GateWakes(j)
    BY <2>1 DEF GateRegister, GateLooks, GateParks, GateWakes
  <2>2. CASE GateClosed(j) \/ ProbeStarts(j) \/ MemberSkips(j) \/ MemberStarts(j)
    BY <2>2 DEF GateClosed, ProbeStarts, MemberSkips, MemberStarts
  <2>3. CASE Recorded(j) \/ Sends(j) \/ MemberCondemns(j) \/ MemberReports(j)
    BY <2>3 DEF Recorded, Sends, MemberCondemns, MemberReports
  <2>4. ASSUME NEW verdict \in {"pass", "fail"}, SingleEnds(j, verdict) \/ MemberEnds(j, verdict)
        PROVE  pc[j] \in Active /\ \E p \in Places : pc' = [pc EXCEPT ![j] = p]
    BY <2>4 DEF SingleEnds, MemberEnds
  <2> QED
    BY <2>1, <2>2, <2>3, <2>4 DEF Works
<1>2. pc' \in [Jobs -> Places] /\ Cardinality(In(Active))' <= Limit
  BY <1>1, PlaceStep
<1>3. KeyOf(j) \in Keys /\ ResultCap \in Nat /\ GroupCap \in Nat
  BY KeyFacts, ValidatorAssumption
<1>4. CASE GateRegister(j) \/ GateLooks(j) \/ GateParks(j) \/ GateWakes(j) \/ ProbeStarts(j)
  BY <1>2, <1>4 DEF GateRegister, GateLooks, GateParks, GateWakes, ProbeStarts, Unmoved, gateVars,
                    counters, TypeOK
<1>5. CASE GateClosed(j) \/ Recorded(j)
  BY <1>2, <1>5 DEF GateClosed, Recorded, gateVars, TypeOK
<1>6. CASE MemberSkips(j) \/ MemberStarts(j) \/ MemberCondemns(j)
  <2>1. /\ found' \in [Jobs -> {"none", "pass", "fail", "skipped"}]
        /\ dead' \in [Keys -> {"absent", "alive", "dead"}]
    BY <1>3, <1>6 DEF MemberSkips, MemberStarts, MemberCondemns, TypeOK
  <2> QED
    BY <1>2, <1>6, <2>1
    DEF MemberSkips, MemberStarts, MemberCondemns, gateVars, counters, TypeOK
<1>7. CASE Sends(j)
  BY <1>2, <1>3, <1>7, ChannelStep DEF Sends, gateVars, counters, TypeOK
<1>8. CASE MemberReports(j)
  BY <1>2, <1>3, <1>8, ChannelStep DEF MemberReports, gateVars, counters, TypeOK
<1>9. ASSUME NEW verdict \in {"pass", "fail"}, SingleEnds(j, verdict) \/ MemberEnds(j, verdict)
      PROVE  TypeOK'
  BY <1>2, <1>9 DEF SingleEnds, MemberEnds, gateVars, counters, TypeOK
<1> QED
  BY <1>4, <1>5, <1>6, <1>7, <1>8, <1>9 DEF Works

\* A step of the aggregator keeps the types.
LEMMA AggregatorTypes ==
    ASSUME TypeOK, Aggregates
    PROVE  TypeOK'
<1>1. Cardinality(In(Active))' <= Limit
  <2>1. In(Active)' = In(Active)
    BY DEF Aggregates, AggregatorReceives, AggregatorSends, In
  <2> QED
    BY <2>1 DEF TypeOK
<1>2. CASE AggregatorReceives
  <2> DEFINE j == Head(groupCh)
             k == KeyOf(j)
  <2>1. /\ groupCh \in Seq(Jobs) /\ groupCh # <<>> /\ groupCh' = Tail(groupCh)
        /\ Len(groupCh) <= GroupCap /\ GroupCap \in Nat
    BY <1>2, ValidatorAssumption DEF AggregatorReceives, TypeOK
  <2>2. j \in Jobs /\ groupCh' \in Seq(Jobs) /\ Len(groupCh') <= GroupCap
    BY <2>1, TailElements, ChannelStep
  <2>3. k \in Keys
    BY <2>2, KeyFacts
  <2>4. /\ states' \in [Keys -> SUBSET Jobs] /\ dead' \in [Keys -> {"absent", "alive", "dead"}]
        /\ done' \in Nat /\ passed' \in Nat /\ merged' \in Keys \cup {NoUnit}
    <3>1. CASE states[k] \cup {j} = MembersOf(k)
      <4>1. Settle(k)
        BY <1>2, <3>1 DEF AggregatorReceives
      <4> QED
        BY <2>3, <4>1 DEF Settle, TypeOK
    <3>2. CASE states[k] \cup {j} # MembersOf(k)
      BY <1>2, <2>2, <2>3, <3>2 DEF AggregatorReceives, TypeOK
    <3> QED
      BY <3>1, <3>2
  <2> QED
    BY <1>1, <1>2, <2>2, <2>4 DEF AggregatorReceives, gateVars, TypeOK
<1>3. CASE AggregatorSends
  <2>1. merged \in Keys /\ results \in Seq(Keys) /\ ResultCap \in Nat
    BY <1>3, ValidatorAssumption DEF AggregatorSends, TypeOK
  <2>2. results' \in Seq(Keys) /\ Len(results') <= ResultCap
    BY <1>3, <2>1, ChannelStep DEF AggregatorSends
  <2> QED
    BY <1>1, <1>3, <2>2 DEF AggregatorSends, counters, gateVars, TypeOK
<1> QED
  BY <1>2, <1>3 DEF Aggregates

\* Consumer, pause and gate keep the types.
LEMMA OtherTypes ==
    ASSUME TypeOK, \/ Receive \/ Drop \/ Pause \/ Resume \/ NotifyWaiters
                   \/ (\E u \in SingleUnits : GateCloses(u)) \/ UNCHANGED vars
    PROVE  TypeOK'
<1>1. Cardinality(In(Active))' <= Limit
  <2>1. In(Active)' = In(Active)
    BY DEF Receive, Drop, Pause, Resume, NotifyWaiters, GateCloses, Unmoved, vars, In
  <2> QED
    BY <2>1 DEF TypeOK
<1>2. CASE Receive
  <2>1. /\ results \in Seq(Keys) /\ results # <<>> /\ delivered \in Seq(Keys)
        /\ Len(results) <= ResultCap /\ ResultCap \in Nat
    BY <1>2, ValidatorAssumption DEF Receive, TypeOK
  <2>2. results' \in Seq(Keys) /\ Len(results') <= ResultCap /\ delivered' \in Seq(Keys)
    BY <1>2, <2>1, TailElements, ChannelStep, AppendElements DEF Receive
  <2> QED
    BY <1>1, <1>2, <2>2 DEF Receive, counters, gateVars, TypeOK
<1>3. CASE Drop \/ UNCHANGED vars
  BY <1>1, <1>3 DEF Drop, vars, counters, gateVars, TypeOK
<1>4. CASE Pause \/ Resume \/ NotifyWaiters
  <2>1. pauses' \in 0..MaxPauses
    BY <1>4, ValidatorAssumption DEF Pause, Resume, NotifyWaiters, TypeOK
  <2>2. paused' \in BOOLEAN /\ resuming' \in BOOLEAN /\ woken' \subseteq Jobs
    BY <1>4 DEF Pause, Resume, NotifyWaiters, In, TypeOK
  <2> QED
    BY <1>1, <1>4, <2>1, <2>2 DEF Pause, Resume, NotifyWaiters, Unmoved, counters, TypeOK
<1>5. ASSUME NEW u \in SingleUnits, GateCloses(u)
      PROVE  TypeOK'
  BY <1>1, <1>5 DEF GateCloses, SingleUnits, Units, counters, gateVars, TypeOK
<1> QED
  BY <1>2, <1>3, <1>4, <1>5

\* Every step of the run keeps the types.
LEMMA TypeStep == TypeOK /\ [Next]_vars => TypeOK'
BY PullTypes, WorkTypes, AggregatorTypes, OtherTypes DEF Next
-----------------------------------------------------------------------------
(* Steps that leave every unit where it is: the gate, the start of a probe, *)
(* a pause, a closing gate, the drop.                                       *)

\* Where no job finishes and no channel moves, every unit stays where it is.
LEMMA SameUnits ==
    ASSUME UNCHANGED <<found, groupCh, states, merged, results, delivered>>,
           \A i \in Jobs : pc'[i] = "finished" <=> pc[i] = "finished"
    PROVE  /\ \A k \in Keys : (Settled(k)' <=> Settled(k)) /\ (Handed(k)' <=> Handed(k))
           /\ \A k \in Keys : AllPass(k)' <=> AllPass(k)
           /\ HandedKeys' = HandedKeys
<1>1. \A k \in Keys : (Settled(k)' <=> Settled(k)) /\ (Handed(k)' <=> Handed(k))
  BY JobFacts DEF Settled, Handed
<1>2. \A k \in Keys : AllPass(k)' <=> AllPass(k)
  BY DEF AllPass
<1> QED
  BY <1>1, <1>2 DEF HandedKeys

\* A job that moves on before its probe answers keeps the invariant.
LEMMA MoveStep ==
    ASSUME IInv, TypeOK', NEW j \in Jobs, pc[j] \in Unasked \ {"idle"},
           NEW p \in Unasked \ {"idle"}, pc' = [pc EXCEPT ![j] = p],
           UNCHANGED <<at, found, groupCh, states, merged, results, counters, delivered>>,
           \/ dead' = dead
           \/ Member(j) /\ dead' = [dead EXCEPT ![KeyOf(j)] = "alive"]
    PROVE  IInv'
<1> USE DEF IInv
<1>1. \A i \in Jobs : /\ i # j => pc'[i] = pc[i]
                      /\ pc'[i] = "idle" <=> pc[i] = "idle"
                      /\ pc'[i] \in Unasked <=> pc[i] \in Unasked
                      /\ pc'[i] \notin Unasked => pc'[i] = pc[i]
                      /\ pc'[i] = "finished" <=> pc[i] = "finished"
  BY DEF TypeOK, Unasked
<1>2. /\ \A k \in Keys : (Settled(k)' <=> Settled(k)) /\ (Handed(k)' <=> Handed(k))
      /\ \A k \in Keys : AllPass(k)' <=> AllPass(k)
      /\ HandedKeys' = HandedKeys
  BY <1>1, SameUnits
<1>3. JobInv'
  BY <1>1 DEF JobInv, Unasked
<1>4. GroupInv'
  <2>1. \A i \in Jobs : KeyOf(i) \in Keys
    BY KeyFacts
  <2>2. ToSet(groupCh) \subseteq Jobs /\ \A k \in Keys : states[k] \subseteq Jobs
    BY DEF TypeOK, ToSet
  <2> QED
    BY <1>1, <1>2, <2>1, <2>2 DEF GroupInv
<1>5. FlagInv'
  <2>1. ASSUME NEW k \in Keys
        PROVE  /\ dead'[k] = "dead" => dead[k] = "dead"
               /\ dead'[k] # "absent" => Grouped(k)
               /\ Settled(k) => dead'[k] = dead[k]
    <3>1. CASE dead' = dead
      BY <3>1 DEF FlagInv
    <3>2. CASE Member(j) /\ dead' = [dead EXCEPT ![KeyOf(j)] = "alive"]
      <4>1. ~Settled(KeyOf(j)) /\ Grouped(KeyOf(j))
        BY <3>2, KeyFacts DEF Settled, Unasked
      <4> QED
        BY <3>2, <4>1 DEF FlagInv, TypeOK
    <3> QED
      BY <3>1, <3>2
  <2> QED
    BY <1>2, <2>1 DEF FlagInv
<1>6. SkipsAreExcused'
  BY DEF SkipsAreExcused
<1>7. HandedInv'
  BY <1>2 DEF HandedInv
<1>8. CountInv'
  <2>1. Pulled' = Pulled
    BY DEF Pulled
  <2>2. Done' = Done /\ Passed' = Passed
    <3>1. \A i \in Jobs : /\ pc'[i] \in {"recording", "sending", "finished"} <=>
                                pc[i] \in {"recording", "sending", "finished"}
                          /\ pc'[i] \in {"sending", "finished"} <=> pc[i] \in {"sending", "finished"}
      BY <1>1 DEF Unasked
    <3> QED
      BY <1>2, <3>1, JobFacts DEF Done, Passed, Grouped
  <2> QED
    BY <1>2, <2>1, <2>2 DEF CountInv, counters
<1> QED
  BY <1>3, <1>4, <1>5, <1>6, <1>7, <1>8

\* A step that moves no job keeps the invariant.
LEMMA IdleStep ==
    ASSUME IInv, TypeOK',
           UNCHANGED <<at, pc, found, dead, groupCh, states, merged, results, counters, delivered>>
    PROVE  IInv'
<1> USE DEF IInv
<1>1. /\ \A k \in Keys : (Settled(k)' <=> Settled(k)) /\ (Handed(k)' <=> Handed(k))
      /\ \A k \in Keys : AllPass(k)' <=> AllPass(k)
      /\ HandedKeys' = HandedKeys
  BY SameUnits
<1>2. JobInv' /\ SkipsAreExcused'
  BY DEF JobInv, SkipsAreExcused
<1>3. GroupInv'
  BY <1>1, KeyFacts DEF GroupInv
<1>4. FlagInv'
  BY <1>1 DEF FlagInv
<1>5. HandedInv'
  BY <1>1 DEF HandedInv
<1>6. CountInv'
  <2>1. Pulled' = Pulled /\ Done' = Done /\ Passed' = Passed
    BY <1>1, JobFacts DEF Pulled, Done, Passed, Grouped
  <2> QED
    BY <1>1, <2>1 DEF CountInv, counters
<1> QED
  BY <1>2, <1>3, <1>4, <1>5, <1>6
-----------------------------------------------------------------------------
(* Steps of one job.  No other unit is concerned, and the job's own unit    *)
(* was not settled, so it had not been handed over.                         *)

\* One more unit counts one more.
LEMMA CountUp ==
    ASSUME NEW S \in SUBSET Keys, NEW k \in Keys, k \notin S
    PROVE  Cardinality(S \cup {k}) = Cardinality(S) + 1
BY JobFacts, FS_Subset, FS_AddElement

\* Sets with the same members are equal.
LEMMA SamePoints ==
    ASSUME NEW U, NEW S \in SUBSET U, NEW T \in SUBSET U, \A x \in U : x \in S <=> x \in T
    PROVE  S = T
OBVIOUS

\* A set with one member more.
LEMMA OnePointMore ==
    ASSUME NEW U, NEW S \in SUBSET U, NEW T \in SUBSET U, NEW k \in U, k \in T,
           \A x \in U : x # k => (x \in T <=> x \in S)
    PROVE  T = S \cup {k}
OBVIOUS

\* A job that moves changes what is said of its own unit only.
LEMMA OwnUnitOnly ==
    ASSUME IInv, TypeOK', NEW j \in Jobs, pc[j] # "finished", NEW p, NEW v,
           pc' = [pc EXCEPT ![j] = p], found' = [found EXCEPT ![j] = v],
           UNCHANGED <<groupCh, states, merged, results, delivered>>
    PROVE  /\ \A k \in Keys : k # KeyOf(j) =>
                /\ Settled(k)' <=> Settled(k)
                /\ AllPass(k)' <=> AllPass(k)
                /\ k \in Done' <=> k \in Done
                /\ k \in Passed' <=> k \in Passed
           /\ ~Settled(KeyOf(j)) /\ ~Handed(KeyOf(j))
           /\ \A k \in Keys : Handed(k)' <=> Handed(k)
           /\ HandedKeys' = HandedKeys
<1> USE DEF IInv
<1>1. \A i \in Jobs : i # j => pc'[i] = pc[i] /\ found'[i] = found[i]
  BY DEF TypeOK
<1>2. ASSUME NEW k \in Keys, k # KeyOf(j)
      PROVE  /\ Settled(k)' <=> Settled(k)
             /\ AllPass(k)' <=> AllPass(k)
             /\ k \in Done' <=> k \in Done
             /\ k \in Passed' <=> k \in Passed
  <2>1. \A i \in MembersOf(k) : pc'[i] = pc[i] /\ found'[i] = found[i]
    BY <1>1, <1>2, KeyFacts, JobFacts
  <2>2. /\ Settled(k)' <=> Settled(k)
        /\ AllPass(k)' <=> AllPass(k)
    BY <2>1 DEF Settled, AllPass
  <2> QED
    BY <2>1, <2>2 DEF Done, Passed, Grouped
<1>3. ~Settled(KeyOf(j))
  BY KeyFacts DEF Settled
<1>4. ~Handed(KeyOf(j))
  BY <1>3, KeyFacts DEF HandedInv
<1>5. \A k \in Keys : Handed(k)' <=> Handed(k)
  BY DEF Handed
<1> QED
  BY <1>2, <1>3, <1>4, <1>5 DEF HandedKeys

(* What a step of one job means for the units: handed over are those that   *)
(* settled with every job passed, unless the job is on its way.             *)
LEMMA OwnHanded ==
    ASSUME IInv, TypeOK', NEW j \in Jobs, pc[j] # "finished", NEW p, NEW v,
           pc' = [pc EXCEPT ![j] = p], found' = [found EXCEPT ![j] = v],
           UNCHANGED <<groupCh, states, merged, results, delivered>>,
           p # "finished" \/ v # "pass"
    PROVE  HandedInv'
<1>1. ~(Settled(KeyOf(j))' /\ AllPass(KeyOf(j))')
  <2>1. pc'[j] = p /\ found'[j] = v
    BY DEF IInv, TypeOK
  <2> QED
    BY <2>1, KeyFacts DEF Settled, AllPass
<1> QED
  BY <1>1, OwnUnitOnly DEF IInv, HandedInv

\* A job of a single type that records or hands over keeps the invariant.
LEMMA SingleStep ==
    ASSUME IInv, TypeOK', NEW j \in Jobs, ~Member(j), pc[j] # "finished", pc[j] # "idle",
           NEW p \in {"recording", "sending", "finished"}, NEW v \in {"none", "pass", "fail"},
           pc' = [pc EXCEPT ![j] = p], found' = [found EXCEPT ![j] = v],
           p # "finished" <=> v = "pass",
           UNCHANGED <<at, dead, groupCh, states, merged, results, total, delivered>>,
           \/ pc[j] \in Unasked /\ p # "sending" /\ done' = done + 1 /\ passed' = passed
           \/ pc[j] = "recording" /\ p = "sending" /\ done' = done /\ passed' = passed + 1
    PROVE  IInv'
<1> USE DEF IInv
<1> DEFINE k == KeyOf(j)
<1>1. \A i \in Jobs : /\ i # j => pc'[i] = pc[i] /\ found'[i] = found[i]
                      /\ i = j => pc'[i] = p /\ found'[i] = v
  BY DEF TypeOK
<1>2. k \in Keys /\ MembersOf(k) = {j} /\ ~Grouped(k)
  BY KeyFacts
<1>3. j \notin ToSet(groupCh) /\ \A key \in Keys : j \notin states[key]
  BY DEF GroupInv
<1>4. JobInv'
  BY <1>1 DEF JobInv, Unasked
<1>5. GroupInv'
  <2>1. ASSUME NEW i \in Jobs, Member(i), pc'[i] = "finished"
        PROVE  i \in ToSet(groupCh) \/ i \in states[KeyOf(i)] \/ Settled(KeyOf(i))'
    <3>1. i # j /\ KeyOf(i) # k
      BY <1>2, <2>1, KeyFacts
    <3> QED
      BY <1>1, <2>1, <3>1, OwnUnitOnly, KeyFacts DEF GroupInv
  <2>2. ToSet(groupCh) \subseteq Jobs /\ \A key \in Keys : states[key] \subseteq Jobs
    BY DEF TypeOK, ToSet
  <2> QED
    BY <1>1, <1>3, <2>1, <2>2 DEF GroupInv
<1>6. FlagInv'
  <2>1. dead[k] = "absent"
    BY <1>2 DEF FlagInv, TypeOK
  <2>2. ASSUME NEW key \in Keys, key # k
        PROVE  dead[key] = "dead" => \E i \in MembersOf(key) : found'[i] = "fail"
    <3>1. \A i \in MembersOf(key) : i # j /\ i \in Jobs
      BY <2>2, KeyFacts, JobFacts
    <3> QED
      BY <1>1, <3>1 DEF FlagInv
  <2> QED
    BY <2>1, <2>2, OwnUnitOnly DEF FlagInv
<1>7. SkipsAreExcused'
  <2>1. ASSUME NEW i \in Jobs, found'[i] = "skipped"
        PROVE  \E h \in MembersOf(KeyOf(i)) : found'[h] = "fail"
    <3>1. i # j /\ KeyOf(i) # k
      BY <1>1, <1>2, <2>1, KeyFacts DEF JobInv
    <3>2. PICK h \in MembersOf(KeyOf(i)) : found[h] = "fail"
      BY <1>1, <2>1, <3>1 DEF SkipsAreExcused
    <3>3. h \in Jobs /\ h # j
      BY <3>1, <3>2, KeyFacts, JobFacts
    <3> QED
      BY <1>1, <3>2, <3>3
  <2> QED
    BY <2>1 DEF SkipsAreExcused
<1>8. HandedInv'
  BY OwnHanded
<1>9. CountInv'
  <2>1. Pulled' = Pulled /\ HandedKeys' = HandedKeys
    BY OwnUnitOnly DEF Pulled
  <2>2. k \in Done' /\ (k \in Passed' <=> p = "sending") /\ k \notin Passed
    BY <1>1, <1>2 DEF Done, Passed, AllPass, Unasked
  <2>3. k \in Done <=> pc[j] = "recording"
    BY <1>2 DEF Done, Unasked
  <2>4. Done' \subseteq Keys /\ Done \subseteq Keys /\ Passed' \subseteq Keys /\ Passed \subseteq Keys
    BY DEF Done, Passed
  <2>5. /\ Done' = IF pc[j] = "recording" THEN Done ELSE Done \cup {k}
        /\ Passed' = IF p = "sending" THEN Passed \cup {k} ELSE Passed
    <3>1. \A key \in Keys : key # k => /\ key \in Done' <=> key \in Done
                                       /\ key \in Passed' <=> key \in Passed
      BY OwnUnitOnly
    <3>2. Done' = IF pc[j] = "recording" THEN Done ELSE Done \cup {k}
      <4>1. CASE pc[j] = "recording"
        <5>1. \A key \in Keys : key \in Done' <=> key \in Done
          BY <2>2, <2>3, <3>1, <4>1
        <5> QED
          BY <2>4, <4>1, <5>1, SamePoints
      <4>2. CASE pc[j] # "recording"
        BY <1>2, <2>2, <2>4, <3>1, <4>2, OnePointMore
      <4> QED
        BY <4>1, <4>2
    <3>3. Passed' = IF p = "sending" THEN Passed \cup {k} ELSE Passed
      <4>1. CASE p # "sending"
        <5>1. \A key \in Keys : key \in Passed' <=> key \in Passed
          BY <2>2, <3>1, <4>1
        <5> QED
          BY <2>4, <4>1, <5>1, SamePoints
      <4>2. CASE p = "sending"
        BY <1>2, <2>2, <2>4, <3>1, <4>2, OnePointMore
      <4> QED
        BY <4>1, <4>2
    <3> QED
      BY <3>2, <3>3
  <2>6. /\ done' = Cardinality(Done')
        /\ passed' = Cardinality(Passed')
    BY <1>2, <2>2, <2>3, <2>4, <2>5, CountUp DEF CountInv, Unasked
  <2> QED
    BY <2>1, <2>6 DEF CountInv
<1> QED
  BY <1>4, <1>5, <1>6, <1>7, <1>8, <1>9

(* A member that skipped, was probed, or condemned its group.               *)
LEMMA MemberStep ==
    ASSUME IInv, TypeOK', NEW j \in Jobs, Member(j), NEW p \in {"recording", "reporting"},
           NEW v \in {"pass", "fail", "skipped"},
           pc' = [pc EXCEPT ![j] = p], found' = [found EXCEPT ![j] = v],
           UNCHANGED <<at, groupCh, states, merged, results, counters, delivered>>,
           \/ /\ pc[j] \in Unasked \ {"idle"} /\ dead' = dead
              /\ p = "recording" <=> v = "fail"
              /\ v = "skipped" => dead[KeyOf(j)] = "dead"
           \/ /\ pc[j] = "recording" /\ p = "reporting" /\ v = found[j]
              /\ dead' = [dead EXCEPT ![KeyOf(j)] = "dead"]
    PROVE  IInv'
<1> USE DEF IInv
<1> DEFINE k == KeyOf(j)
<1>1. \A i \in Jobs : /\ i # j => pc'[i] = pc[i] /\ found'[i] = found[i]
                      /\ i = j => pc'[i] = p /\ found'[i] = v
  BY DEF TypeOK
<1>2. k \in Keys /\ Grouped(k) /\ j \in MembersOf(k) /\ pc[j] \notin {"finished", "idle"}
  BY KeyFacts DEF Unasked
<1>3. \A i \in Jobs : found[i] = "fail" => found'[i] = "fail"
  BY <1>1 DEF JobInv, Unasked
<1>4. ~Settled(k)' /\ ~Settled(k)
  BY <1>1, <1>2 DEF Settled
<1>5. JobInv'
  BY <1>1, <1>2 DEF JobInv, Unasked
<1>6. GroupInv'
  <2>1. ToSet(groupCh) \subseteq Jobs /\ \A key \in Keys : states[key] \subseteq Jobs
    BY DEF TypeOK, ToSet
  <2>2. \A i \in Jobs : pc'[i] = "finished" <=> pc[i] = "finished"
    BY <1>1, <1>2
  <2>3. \A key \in Keys : Settled(key)' <=> Settled(key)
    BY <1>4, <1>2, OwnUnitOnly
  <2> QED
    BY <2>1, <2>2, <2>3, KeyFacts DEF GroupInv
<1>7. FlagInv'
  <2>1. ASSUME NEW key \in Keys, dead'[key] = "dead"
        PROVE  \E i \in MembersOf(key) : found'[i] = "fail"
    <3>1. CASE dead[key] = "dead"
      BY <1>3, <3>1, JobFacts DEF FlagInv
    <3>2. CASE dead[key] # "dead"
      <4>1. key = k /\ v = "fail"
        BY <2>1, <3>2 DEF JobInv, TypeOK
      <4> QED
        BY <1>1, <1>2, <4>1
    <3> QED
      BY <3>1, <3>2
  <2>2. ASSUME NEW key \in Keys, key # k
        PROVE  dead'[key] = dead[key]
    BY <2>2 DEF TypeOK
  <2> QED
    BY <1>2, <1>4, <2>1, <2>2, OwnUnitOnly DEF FlagInv
<1>8. SkipsAreExcused'
  <2>1. ASSUME NEW i \in Jobs, found'[i] = "skipped"
        PROVE  \E h \in MembersOf(KeyOf(i)) : found'[h] = "fail"
    <3>1. \E h \in MembersOf(KeyOf(i)) : found[h] = "fail"
      BY <1>1, <1>2, <2>1 DEF SkipsAreExcused, FlagInv, JobInv, Unasked
    <3> QED
      BY <1>3, <3>1, KeyFacts, JobFacts
  <2> QED
    BY <2>1 DEF SkipsAreExcused
<1>9. HandedInv'
  BY <1>2, OwnHanded
<1>10. CountInv'
  <2>1. Pulled' = Pulled /\ HandedKeys' = HandedKeys
    BY <1>2, OwnUnitOnly DEF Pulled
  <2>2. k \notin Done /\ k \notin Done' /\ k \notin Passed /\ k \notin Passed'
    BY <1>2, <1>4 DEF Done, Passed, Grouped
  <2>3. Done' = Done /\ Passed' = Passed
    <3>1. Done' \subseteq Keys /\ Done \subseteq Keys /\ Passed' \subseteq Keys /\ Passed \subseteq Keys
      BY DEF Done, Passed
    <3>2. \A key \in Keys : /\ key \in Done' <=> key \in Done
                            /\ key \in Passed' <=> key \in Passed
      BY <1>2, <2>2, OwnUnitOnly
    <3> QED
      BY <3>1, <3>2, SamePoints
  <2> QED
    BY <2>1, <2>3 DEF CountInv, counters
<1> QED
  BY <1>5, <1>6, <1>7, <1>8, <1>9, <1>10
-----------------------------------------------------------------------------
(* The manager pulls a job: a unit is counted with the first of its jobs.   *)

\* Pulling a job keeps the invariant.
LEMMA PullStep ==
    ASSUME IInv, TypeOK', Pull
    PROVE  IInv'
<1> USE DEF IInv
<1> DEFINE k == KeyOf(at)
<1>1. at \in Jobs /\ Jobs \subseteq Int /\ at' = at + 1
  BY JobFacts DEF Pull, TypeOK
<1>2. pc[at] = "idle" /\ found[at] = "none"
  BY <1>1 DEF JobInv, Unasked
<1>3. \A i \in Jobs : /\ i # at => pc'[i] = pc[i]
                      /\ i = at => pc'[i] = "gate"
  BY <1>1 DEF Pull, Goes, TypeOK
<1>4. /\ \A key \in Keys : (Settled(key)' <=> Settled(key)) /\ (Handed(key)' <=> Handed(key))
      /\ \A key \in Keys : AllPass(key)' <=> AllPass(key)
      /\ HandedKeys' = HandedKeys
  BY <1>2, <1>3, SameUnits DEF Pull
<1>5. JobInv'
  <2>1. \A i \in Jobs : i >= at' <=> i >= at /\ i # at
    BY <1>1
  <2> QED
    BY <1>2, <1>3, <2>1 DEF JobInv, Unasked, Pull
<1>6. GroupInv'
  <2>1. \A i \in Jobs : (pc'[i] = "finished" <=> pc[i] = "finished") /\ KeyOf(i) \in Keys
    BY <1>2, <1>3, KeyFacts
  <2>2. ToSet(groupCh) \subseteq Jobs /\ \A key \in Keys : states[key] \subseteq Jobs
    BY DEF TypeOK, ToSet
  <2> QED
    BY <1>4, <2>1, <2>2 DEF GroupInv, Pull
<1>7. FlagInv' /\ SkipsAreExcused'
  BY <1>4 DEF FlagInv, SkipsAreExcused, Pull
<1>8. HandedInv'
  BY <1>4 DEF HandedInv, Pull
<1>9. Plan[at].slot \in Int
  BY <1>1, SlotType
<1>10. CountInv'
  <2>1. Done' = Done /\ Passed' = Passed
    <3>1. \A i \in Jobs : /\ pc'[i] \in {"recording", "sending", "finished"} <=>
                                pc[i] \in {"recording", "sending", "finished"}
                          /\ pc'[i] \in {"sending", "finished"} <=> pc[i] \in {"sending", "finished"}
      BY <1>2, <1>3
    <3> QED
      BY <1>4, <3>1, JobFacts DEF Done, Passed, Grouped
  <2>2. k \in Keys /\ k \in Pulled' /\ (k \in Pulled <=> Plan[at].slot > 1)
    <3>1. k \in Keys /\ at \in MembersOf(k) /\ MembersOf(k) \subseteq Jobs
      BY <1>1, KeyFacts, JobFacts
    <3>2. k \in Pulled'
      BY <1>1, <3>1 DEF Pulled
    <3>3. k \in Pulled <=> ~(Plan[at].slot <= 1)
      BY <1>1, <3>1, FirstOfUnit DEF Pulled
    <3> QED
      BY <1>9, <3>1, <3>2, <3>3
  <2>3. \A key \in Keys : key # k => (key \in Pulled' <=> key \in Pulled)
    <3>1. ASSUME NEW key \in Keys, key # k, NEW i \in MembersOf(key)
          PROVE  i < at + 1 <=> i < at
      <4>1. i \in Jobs /\ i # at
        BY <3>1, JobFacts, KeyFacts
      <4> QED
        BY <1>1, <4>1
    <3> QED
      BY <1>1, <3>1 DEF Pulled
  <2>4. Pulled \in SUBSET Keys /\ Pulled' \in SUBSET Keys
    BY DEF Pulled
  <2>5. total' = Cardinality(Pulled')
    <3>1. CASE Plan[at].slot <= 1
      <4>1. Pulled' = Pulled \cup {k} /\ total' = total + 1
        BY <2>2, <2>3, <2>4, <3>1, OnePointMore DEF Pull
      <4> QED
        BY <1>9, <2>2, <2>4, <3>1, <4>1, CountUp DEF CountInv
    <3>2. CASE ~(Plan[at].slot <= 1)
      <4>1. k \in Pulled
        BY <1>9, <2>2, <3>2
      <4>2. k \in Pulled => \A key \in Keys : key \in Pulled' <=> key \in Pulled
        BY <2>2, <2>3
      <4>3. k \in Pulled => Pulled' = Pulled
        BY <2>4, <4>2, SamePoints
      <4> QED
        BY <3>2, <4>1, <4>3 DEF CountInv, Pull
    <3> QED
      BY <3>1, <3>2
  <2> QED
    BY <1>4, <2>1, <2>5 DEF CountInv, Pull
<1> QED
  BY <1>5, <1>6, <1>7, <1>8, <1>10
-----------------------------------------------------------------------------
(* Steps on the two channels.                                               *)

(* A single passed and its worker puts it into the channel to the consumer. *)
LEMMA SendsStep ==
    ASSUME IInv, TypeOK', NEW j \in Jobs, Sends(j)
    PROVE  IInv'
<1> USE DEF IInv
<1> DEFINE k == KeyOf(j)
<1>1. /\ ~Member(j) /\ pc[j] = "sending" /\ found[j] = "pass"
      /\ k \in Keys /\ MembersOf(k) = {j} /\ ~Grouped(k)
  BY KeyFacts DEF Sends, JobInv
<1>2. /\ pc' = [pc EXCEPT ![j] = "finished"]
      /\ results' = Append(results, k)
      /\ UNCHANGED <<at, found, dead, groupCh, states, merged, counters, delivered>>
  BY DEF Sends, Goes
<1>3. \A i \in Jobs : /\ i # j => pc'[i] = pc[i]
                      /\ i = j => pc'[i] = "finished"
  BY <1>2 DEF TypeOK
<1>4. /\ ToSet(results') = ToSet(results) \cup {k} /\ Len(results') = Len(results) + 1
      /\ Distinct(results) /\ k \notin ToSet(results) => Distinct(results')
  BY <1>1, <1>2, AppendElements DEF TypeOK
<1>5. ~Settled(k) /\ ~Handed(k)
  BY <1>1 DEF Settled, HandedInv
<1>6. \A key \in Keys : Handed(key)' <=> Handed(key) \/ key = k
  BY <1>2, <1>4 DEF Handed
<1>7. \A key \in Keys : /\ AllPass(key)' <=> AllPass(key)
                        /\ key # k => (Settled(key)' <=> Settled(key))
  <2>1. ASSUME NEW key \in Keys, key # k
        PROVE  Settled(key)' <=> Settled(key)
    <3>1. \A i \in MembersOf(key) : pc'[i] = pc[i]
      BY <1>3, <2>1, KeyFacts, JobFacts
    <3> QED
      BY <1>2, <3>1 DEF Settled
  <2> QED
    BY <1>2, <2>1 DEF AllPass
<1>8. Settled(k)' /\ AllPass(k)
  <2>1. states[k] = {}
    BY <1>1 DEF GroupInv
  <2>2. j \notin ToSet(groupCh)
    BY <1>1 DEF GroupInv
  <2> QED
    BY <1>1, <1>2, <1>3, <2>1, <2>2 DEF Settled, AllPass
<1>9. JobInv'
  BY <1>1, <1>2, <1>3 DEF JobInv, Unasked
<1>10. GroupInv'
  <2>1. ASSUME NEW i \in Jobs, Member(i), pc'[i] = "finished"
        PROVE  i \in ToSet(groupCh) \/ i \in states[KeyOf(i)] \/ Settled(KeyOf(i))'
    <3>1. i # j /\ KeyOf(i) # k
      BY <1>1, <2>1, KeyFacts
    <3> QED
      BY <1>3, <1>7, <2>1, <3>1, KeyFacts DEF GroupInv
  <2>2. ToSet(groupCh) \subseteq Jobs /\ \A key \in Keys : states[key] \subseteq Jobs
    BY DEF TypeOK, ToSet
  <2> QED
    BY <1>1, <1>2, <1>3, <2>1, <2>2 DEF GroupInv
<1>11. FlagInv' /\ SkipsAreExcused'
  <2>1. dead[k] = "absent"
    BY <1>1 DEF FlagInv, TypeOK
  <2> QED
    BY <1>2, <1>7, <2>1 DEF FlagInv, SkipsAreExcused
<1>12. HandedInv'
  BY <1>2, <1>4, <1>5, <1>6, <1>7, <1>8 DEF HandedInv, Handed
<1>13. CountInv'
  <2>1. Pulled' = Pulled
    BY <1>2 DEF Pulled
  <2>2. Done' = Done /\ Passed' = Passed
    <3>1. \A key \in Keys : Grouped(key) => (Settled(key)' <=> Settled(key))
      BY <1>1, <1>7
    <3>2. \A i \in Jobs : /\ pc'[i] \in {"recording", "sending", "finished"} <=>
                                pc[i] \in {"recording", "sending", "finished"}
                          /\ pc'[i] \in {"sending", "finished"} <=> pc[i] \in {"sending", "finished"}
      BY <1>1, <1>3
    <3> QED
      BY <1>7, <3>1, <3>2, JobFacts DEF Done, Passed, Grouped
  <2>3. HandedKeys \in SUBSET Keys /\ HandedKeys' \in SUBSET Keys /\ k \notin HandedKeys
    BY <1>5 DEF HandedKeys
  <2>4. HandedKeys' = HandedKeys \cup {k}
    BY <1>1, <1>6 DEF HandedKeys
  <2>5. Cardinality(HandedKeys') = Cardinality(HandedKeys) + 1
    BY <1>1, <2>3, <2>4, CountUp
  <2>6. Len(results) \in Nat /\ Len(delivered) \in Nat
    BY LenProperties DEF TypeOK
  <2> QED
    BY <1>2, <1>4, <2>1, <2>2, <2>5, <2>6 DEF CountInv, counters
<1> QED
  BY <1>9, <1>10, <1>11, <1>12, <1>13

(* A member is through with its probe and tells the aggregator.             *)
LEMMA ReportsStep ==
    ASSUME IInv, TypeOK', NEW j \in Jobs, MemberReports(j)
    PROVE  IInv'
<1> USE DEF IInv
<1> DEFINE k == KeyOf(j)
<1>1. /\ Member(j) /\ pc[j] = "reporting" /\ found[j] # "none"
      /\ k \in Keys /\ j \in MembersOf(k) /\ Grouped(k)
  BY KeyFacts DEF MemberReports, JobInv
<1>2. /\ pc' = [pc EXCEPT ![j] = "finished"]
      /\ groupCh' = Append(groupCh, j)
      /\ UNCHANGED <<at, found, dead, states, merged, results, counters, delivered>>
  BY DEF MemberReports, Goes
<1>3. \A i \in Jobs : /\ i # j => pc'[i] = pc[i]
                      /\ i = j => pc'[i] = "finished"
  BY <1>2 DEF TypeOK
<1>4. /\ ToSet(groupCh') = ToSet(groupCh) \cup {j}
      /\ Distinct(groupCh) /\ j \notin ToSet(groupCh) => Distinct(groupCh')
  BY <1>2, AppendElements DEF TypeOK
<1>5. j \notin ToSet(groupCh) /\ \A key \in Keys : j \notin states[key]
  BY <1>1 DEF GroupInv
<1>6. ~Settled(k) /\ ~Settled(k)'
  BY <1>1, <1>4 DEF Settled
<1>7. \A key \in Keys : /\ AllPass(key)' <=> AllPass(key)
                        /\ Settled(key)' <=> Settled(key)
                        /\ Handed(key)' <=> Handed(key)
  <2>1. ASSUME NEW key \in Keys, key # k
        PROVE  Settled(key)' <=> Settled(key)
    <3>1. \A i \in MembersOf(key) : i # j /\ pc'[i] = pc[i]
      BY <1>3, <2>1, KeyFacts, JobFacts
    <3> QED
      BY <1>2, <1>4, <3>1 DEF Settled
  <2> QED
    BY <1>2, <1>6, <2>1 DEF AllPass, Handed
<1>8. JobInv'
  BY <1>1, <1>2, <1>3 DEF JobInv, Unasked
<1>9. GroupInv'
  <2>1. ToSet(groupCh) \subseteq Jobs /\ \A key \in Keys : states[key] \subseteq Jobs
    BY DEF TypeOK, ToSet
  <2>2. \A i \in Jobs : pc[i] = "finished" => pc'[i] = "finished"
    BY <1>1, <1>3
  <2>3. \A i \in ToSet(groupCh') :
            Member(i) /\ pc'[i] = "finished" /\ i \notin states[KeyOf(i)]
    BY <1>1, <1>3, <1>4, <1>5, <2>1, <2>2 DEF GroupInv
  <2>4. \A key \in Keys : /\ states[key] \subseteq MembersOf(key) /\ states[key] # MembersOf(key)
                          /\ \A i \in states[key] : Member(i) /\ pc'[i] = "finished"
    BY <2>1, <2>2 DEF GroupInv
  <2>5. \A i \in Jobs : Member(i) /\ pc'[i] = "finished" =>
            i \in ToSet(groupCh') \/ i \in states[KeyOf(i)] \/ Settled(KeyOf(i))'
    BY <1>3, <1>4, <1>7, KeyFacts DEF GroupInv
  <2> QED
    BY <1>2, <1>4, <1>5, <2>3, <2>4, <2>5 DEF GroupInv
<1>10. FlagInv' /\ SkipsAreExcused'
  BY <1>2, <1>7 DEF FlagInv, SkipsAreExcused
<1>11. HandedInv'
  BY <1>2, <1>7 DEF HandedInv
<1>12. CountInv'
  <2>1. Pulled' = Pulled /\ HandedKeys' = HandedKeys
    BY <1>2, <1>7 DEF Pulled, HandedKeys
  <2>2. Done' = Done /\ Passed' = Passed
    <3>1. ASSUME NEW key \in Keys
          PROVE  /\ key \in Done' <=> key \in Done
                 /\ key \in Passed' <=> key \in Passed
      <4>1. CASE Grouped(key)
        BY <1>7, <4>1 DEF Done, Passed, Grouped
      <4>2. CASE ~Grouped(key)
        <5>1. \A i \in MembersOf(key) : i # j /\ pc'[i] = pc[i]
          BY <1>1, <1>3, <4>2, KeyFacts, JobFacts DEF Grouped
        <5> QED
          BY <1>7, <4>2, <5>1 DEF Done, Passed, Grouped
      <4> QED
        BY <4>1, <4>2
    <3>2. Done \in SUBSET Keys /\ Done' \in SUBSET Keys /\ Passed \in SUBSET Keys /\ Passed' \in SUBSET Keys
      BY DEF Done, Passed
    <3> QED
      BY <3>1, <3>2, SamePoints
  <2> QED
    BY <1>2, <2>1, <2>2 DEF CountInv, counters
<1> QED
  BY <1>8, <1>9, <1>10, <1>11, <1>12
-----------------------------------------------------------------------------
(* The aggregator reads a report.  Either the group still waits for others, *)
(* or it settles here: it was not settled before, so it is counted once.    *)
LEMMA AggregatorReceivesStep ==
    ASSUME IInv, TypeOK', AggregatorReceives
    PROVE  IInv'
<1> USE DEF IInv
<1>1. /\ groupCh \in Seq(Jobs) /\ groupCh # <<>> /\ groupCh' = Tail(groupCh)
      /\ merged = NoUnit
      /\ UNCHANGED <<at, pc, found, results, total, delivered>>
  BY DEF AggregatorReceives, TypeOK
<1>2. PICK j \in Jobs : j = Head(groupCh)
  BY <1>1, TailElements
<1> DEFINE k == KeyOf(j)
           received == states[k] \cup {j}
<1>3. /\ j \in ToSet(groupCh) /\ j \notin ToSet(groupCh')
      /\ ToSet(groupCh) = ToSet(groupCh') \cup {j}
      /\ Distinct(groupCh')
  <2>1. Distinct(groupCh)
    BY DEF GroupInv
  <2>2. /\ ToSet(groupCh) = ToSet(Tail(groupCh)) \cup {Head(groupCh)}
        /\ Distinct(Tail(groupCh)) /\ Head(groupCh) \notin ToSet(Tail(groupCh))
    BY <1>1, <2>1, TailElements
  <2> QED
    BY <1>2, <1>1, <2>2
<1>4. /\ Member(j) /\ pc[j] = "finished" /\ j \notin states[k]
      /\ k \in Keys /\ j \in MembersOf(k) /\ Grouped(k)
  BY <1>3, KeyFacts DEF GroupInv
<1>5. \A i \in MembersOf(k) : Member(i) /\ i \in Jobs /\ KeyOf(i) = k
  BY <1>3, <1>4, KeyFacts, JobFacts DEF MembersOf
<1>6. ~Settled(k) /\ ~Handed(k)
  BY <1>3, <1>4 DEF Settled, HandedInv
<1>7. \A i \in ToSet(groupCh') : i \in Jobs /\ i # j /\ i \in ToSet(groupCh)
  BY <1>1, <1>3 DEF TypeOK, ToSet
<1>8. received \subseteq MembersOf(k) /\ \A i \in received : Member(i) /\ pc[i] = "finished"
  BY <1>4 DEF GroupInv
<1>9. \A key \in Keys : AllPass(key)' <=> AllPass(key)
  BY <1>1 DEF AllPass
<1>10. JobInv' /\ SkipsAreExcused'
  BY <1>1 DEF JobInv, SkipsAreExcused
<1>11. Pulled' = Pulled
  BY <1>1 DEF Pulled
<1>12. ASSUME NEW key \in Keys, key # k, states'[key] = states[key]
       PROVE  Settled(key)' <=> Settled(key)
  <2>1. \A i \in MembersOf(key) : i # j
    BY <1>3, <1>12, KeyFacts
  <2> QED
    BY <1>1, <1>3, <1>12, <2>1 DEF Settled
<1>13. CASE received # MembersOf(k)
  <2>1. states' = [states EXCEPT ![k] = received] /\ UNCHANGED <<dead, done, passed, merged>>
    BY <1>2, <1>13 DEF AggregatorReceives
  <2>2. states'[k] = received /\ \A key \in Keys : key # k => states'[key] = states[key]
    BY <1>4, <2>1 DEF TypeOK
  <2>3. ~Settled(k)'
    BY <2>2 DEF Settled
  <2>4. \A key \in Keys : (Settled(key)' <=> Settled(key)) /\ (Handed(key)' <=> Handed(key))
    BY <1>1, <1>6, <1>12, <2>1, <2>2, <2>3 DEF Handed
  <2>5. GroupInv'
    <3>1. \A i \in ToSet(groupCh') :
              Member(i) /\ pc[i] = "finished" /\ i \notin states'[KeyOf(i)]
      BY <1>7, <2>2, KeyFacts DEF GroupInv
    <3>2. \A key \in Keys : /\ states'[key] \subseteq MembersOf(key) /\ states'[key] # MembersOf(key)
                            /\ \A i \in states'[key] : Member(i) /\ pc[i] = "finished"
      BY <1>8, <1>13, <2>2 DEF GroupInv
    <3>3. \A i \in Jobs : Member(i) /\ pc[i] = "finished" =>
              i \in ToSet(groupCh') \/ i \in states'[KeyOf(i)] \/ Settled(KeyOf(i))'
      BY <1>3, <2>2, <2>4, KeyFacts DEF GroupInv
    <3> QED
      BY <1>1, <1>3, <3>1, <3>2, <3>3 DEF GroupInv
  <2>6. FlagInv'
    BY <1>1, <2>1, <2>4 DEF FlagInv
  <2>7. HandedInv'
    BY <1>1, <1>9, <2>1, <2>4 DEF HandedInv
  <2>8. CountInv'
    <3>1. Done' = Done /\ Passed' = Passed /\ HandedKeys' = HandedKeys
      BY <1>1, <1>9, <2>4 DEF Done, Passed, HandedKeys, Grouped
    <3> QED
      BY <1>1, <1>11, <2>1, <3>1 DEF CountInv
  <2> QED
    BY <1>10, <2>5, <2>6, <2>7, <2>8
<1>14. CASE received = MembersOf(k)
  <2>1. Settle(k)
    BY <1>2, <1>14 DEF AggregatorReceives
  <2>2. /\ states' = [states EXCEPT ![k] = {}] /\ dead' = [dead EXCEPT ![k] = "absent"]
        /\ done' = done + 1
        /\ IF AllPass(k) THEN passed' = passed + 1 /\ merged' = k
                         ELSE UNCHANGED <<passed, merged>>
    BY <2>1 DEF Settle, GroupPasses, AllPass
  <2>3. /\ states'[k] = {} /\ \A key \in Keys : key # k => states'[key] = states[key]
        /\ dead'[k] = "absent" /\ \A key \in Keys : key # k => dead'[key] = dead[key]
    BY <1>4, <2>2 DEF TypeOK
  <2>4. Settled(k)'
    <3>1. \A i \in MembersOf(k) : i \notin ToSet(groupCh')
      <4>1. ASSUME NEW i \in MembersOf(k), i \in ToSet(groupCh')
            PROVE  FALSE
        <5>1. i # j /\ i \in states[k] /\ i \in ToSet(groupCh) /\ KeyOf(i) = k
          BY <1>5, <1>7, <1>14, <4>1
        <5> QED
          BY <5>1 DEF GroupInv
      <4> QED
        BY <4>1
    <3> QED
      BY <1>1, <1>8, <1>14, <2>3, <3>1 DEF Settled
  <2>5. \A key \in Keys : key # k => (Settled(key)' <=> Settled(key))
    BY <1>12, <2>3
  <2>6. \A key \in Keys : Handed(key)' <=> Handed(key) \/ (key = k /\ AllPass(k))
    BY <1>1, <2>2, JobFacts DEF Handed
  <2>7. GroupInv'
    <3>1. \A i \in ToSet(groupCh') :
              Member(i) /\ pc[i] = "finished" /\ i \notin states'[KeyOf(i)]
      BY <1>7, <2>3, KeyFacts DEF GroupInv
    <3>2. \A key \in Keys : /\ states'[key] \subseteq MembersOf(key) /\ states'[key] # MembersOf(key)
                            /\ \A i \in states'[key] : Member(i) /\ pc[i] = "finished"
      BY <2>3, JobFacts DEF GroupInv
    <3>3. \A i \in Jobs : Member(i) /\ pc[i] = "finished" =>
              i \in ToSet(groupCh') \/ i \in states'[KeyOf(i)] \/ Settled(KeyOf(i))'
      BY <1>3, <2>3, <2>4, <2>5, KeyFacts DEF GroupInv
    <3> QED
      BY <1>1, <1>3, <3>1, <3>2, <3>3 DEF GroupInv
  <2>8. FlagInv'
    BY <1>1, <2>3, <2>5 DEF FlagInv
  <2>9. HandedInv'
    <3>1. merged' \notin ToSet(delivered) \cup ToSet(results)
      BY <1>1, <1>6, <2>2 DEF HandedInv, Handed
    <3> QED
      BY <1>1, <1>6, <1>9, <2>4, <2>5, <2>6, <3>1 DEF HandedInv
  <2>10. CountInv'
    <3>1. /\ Done \in SUBSET Keys /\ Done' \in SUBSET Keys
          /\ Passed \in SUBSET Keys /\ Passed' \in SUBSET Keys
          /\ HandedKeys \in SUBSET Keys /\ HandedKeys' \in SUBSET Keys
      BY DEF Done, Passed, HandedKeys
    <3>2. \A key \in Keys : key # k =>
              /\ key \in Done' <=> key \in Done
              /\ key \in Passed' <=> key \in Passed
              /\ key \in HandedKeys' <=> key \in HandedKeys
      BY <1>1, <1>9, <2>5, <2>6 DEF Done, Passed, HandedKeys, Grouped
    <3>3. /\ k \notin Done /\ k \in Done' /\ k \notin Passed /\ k \notin HandedKeys
          /\ k \in Passed' <=> AllPass(k)
          /\ k \in HandedKeys' <=> AllPass(k)
      BY <1>4, <1>6, <1>9, <2>4, <2>6 DEF Done, Passed, HandedKeys, Grouped
    <3>4. Cardinality(Done') = Cardinality(Done) + 1
      BY <1>4, <3>1, <3>2, <3>3, OnePointMore, CountUp
    <3>5. CASE AllPass(k)
      <4>1. /\ Cardinality(Passed') = Cardinality(Passed) + 1
            /\ Cardinality(HandedKeys') = Cardinality(HandedKeys) + 1
        <5>1. Passed' = Passed \cup {k}
          BY <1>4, <3>1, <3>2, <3>3, <3>5, OnePointMore
        <5>2. HandedKeys' = HandedKeys \cup {k}
          BY <1>4, <3>1, <3>2, <3>3, <3>5, OnePointMore
        <5> QED
          BY <1>4, <3>1, <3>3, <5>1, <5>2, CountUp
      <4>2. merged' # NoUnit
        BY <1>4, <2>2, <3>5, JobFacts
      <4>3. Len(results) \in Nat /\ Len(delivered) \in Nat
        BY LenProperties DEF TypeOK
      <4> QED
        BY <1>1, <1>11, <2>2, <3>4, <3>5, <4>1, <4>2, <4>3 DEF CountInv
    <3>6. CASE ~AllPass(k)
      <4>1. Passed' = Passed /\ HandedKeys' = HandedKeys
        <5>1. \A key \in Keys : /\ key \in Passed' <=> key \in Passed
                                /\ key \in HandedKeys' <=> key \in HandedKeys
          BY <3>2, <3>3, <3>6
        <5>2. Passed' = Passed
          BY <3>1, <5>1, SamePoints
        <5>3. HandedKeys' = HandedKeys
          <6>1. \A key \in Keys : Handed(key)' <=> Handed(key)
            BY <2>6, <3>6
          <6> QED
            BY <6>1 DEF HandedKeys
        <5> QED
          BY <5>2, <5>3
      <4> QED
        BY <1>1, <1>11, <2>2, <3>4, <3>6, <4>1 DEF CountInv
    <3> QED
      BY <3>5, <3>6
  <2> QED
    BY <1>10, <2>7, <2>8, <2>9, <2>10
<1> QED
  BY <1>13, <1>14

(* A unit moves on towards the consumer: from the aggregator's hand into    *)
(* the channel, from the channel to the consumer.                           *)
LEMMA HandOnStep ==
    ASSUME IInv, TypeOK',
           UNCHANGED <<at, pc, found, dead, groupCh, states, counters>>,
           \A k \in Keys : Handed(k)' <=> Handed(k),
           Distinct(delivered'), Distinct(results'),
           ToSet(delivered') \cap ToSet(results') = {},
           merged' \notin ToSet(delivered') \cup ToSet(results'),
           Len(delivered') + Len(results') + (IF merged' = NoUnit THEN 0 ELSE 1) =
           Len(delivered) + Len(results) + (IF merged = NoUnit THEN 0 ELSE 1)
    PROVE  IInv'
<1> USE DEF IInv
<1>1. /\ \A k \in Keys : (Settled(k)' <=> Settled(k)) /\ (AllPass(k)' <=> AllPass(k))
      /\ HandedKeys' = HandedKeys
  BY DEF Settled, AllPass, HandedKeys
<1>2. JobInv' /\ SkipsAreExcused'
  BY DEF JobInv, SkipsAreExcused
<1>3. GroupInv'
  BY <1>1, KeyFacts DEF GroupInv
<1>4. FlagInv'
  BY <1>1 DEF FlagInv
<1>5. HandedInv'
  BY <1>1 DEF HandedInv
<1>6. CountInv'
  <2>1. Pulled' = Pulled /\ Done' = Done /\ Passed' = Passed
    BY <1>1, JobFacts DEF Pulled, Done, Passed, Grouped
  <2> QED
    BY <1>1, <2>1 DEF CountInv, counters
<1> QED
  BY <1>2, <1>3, <1>4, <1>5, <1>6

\* Sending a merged unit on keeps the invariant.
LEMMA AggregatorSendsStep ==
    ASSUME IInv, TypeOK', AggregatorSends
    PROVE  IInv'
<1> USE DEF IInv
<1>1. /\ results' = Append(results, merged) /\ merged' = NoUnit /\ merged # NoUnit
      /\ UNCHANGED <<at, pc, found, dead, groupCh, states, counters, delivered>>
      /\ merged \in Keys
  BY DEF AggregatorSends, TypeOK
<1>2. /\ ToSet(results') = ToSet(results) \cup {merged} /\ Len(results') = Len(results) + 1
      /\ Distinct(results) /\ merged \notin ToSet(results) => Distinct(results')
  BY <1>1, AppendElements DEF TypeOK
<1>3. ToSet(results) \subseteq Keys /\ ToSet(delivered) \subseteq Keys
  BY DEF TypeOK, ToSet
<1>4. \A k \in Keys : Handed(k)' <=> Handed(k)
  BY <1>1, <1>2, JobFacts DEF Handed
<1>5. /\ Distinct(delivered') /\ Distinct(results')
      /\ ToSet(delivered') \cap ToSet(results') = {}
  BY <1>1, <1>2 DEF HandedInv
<1>6. merged' \notin ToSet(delivered') \cup ToSet(results')
  BY <1>1, <1>2, <1>3, JobFacts
<1>7. Len(delivered') + Len(results') + (IF merged' = NoUnit THEN 0 ELSE 1) =
      Len(delivered) + Len(results) + (IF merged = NoUnit THEN 0 ELSE 1)
  <2>1. Len(results) \in Nat /\ Len(delivered) \in Nat
    BY LenProperties DEF TypeOK
  <2> QED
    BY <1>1, <1>2, <2>1
<1> QED
  BY <1>1, <1>4, <1>5, <1>6, <1>7, HandOnStep

\* Receiving a unit keeps the invariant.
LEMMA ReceiveStep ==
    ASSUME IInv, TypeOK', Receive
    PROVE  IInv'
<1> USE DEF IInv
<1> DEFINE k == Head(results)
<1>1. /\ delivered' = Append(delivered, k) /\ results' = Tail(results) /\ results # <<>>
      /\ UNCHANGED <<at, pc, found, dead, groupCh, states, merged, counters>>
      /\ results \in Seq(Keys) /\ delivered \in Seq(Keys)
  BY DEF Receive, TypeOK
<1>2. /\ k \in Keys /\ Len(results') = Len(results) - 1
      /\ ToSet(results) = ToSet(results') \cup {k}
      /\ Distinct(results') /\ k \notin ToSet(results')
  <2>1. Distinct(results)
    BY DEF HandedInv
  <2>2. /\ Head(results) \in Keys /\ Len(Tail(results)) = Len(results) - 1
        /\ ToSet(results) = ToSet(Tail(results)) \cup {Head(results)}
        /\ Distinct(Tail(results)) /\ Head(results) \notin ToSet(Tail(results))
    BY <1>1, <2>1, TailElements
  <2> QED
    BY <1>1, <2>2
<1> HIDE DEF k
<1>3. k \notin ToSet(delivered)
  BY <1>2 DEF HandedInv
<1>4. /\ ToSet(delivered') = ToSet(delivered) \cup {k} /\ Len(delivered') = Len(delivered) + 1
      /\ Distinct(delivered')
  BY <1>1, <1>2, <1>3, AppendElements DEF HandedInv
<1>5. \A key \in Keys : Handed(key)' <=> Handed(key)
  BY <1>1, <1>2, <1>4 DEF Handed
<1>6. /\ ToSet(delivered') \cap ToSet(results') = {}
      /\ merged' \notin ToSet(delivered') \cup ToSet(results')
  BY <1>1, <1>2, <1>4 DEF HandedInv
<1>7. Len(delivered') + Len(results') + (IF merged' = NoUnit THEN 0 ELSE 1) =
      Len(delivered) + Len(results) + (IF merged = NoUnit THEN 0 ELSE 1)
  <2>1. Len(results) \in Nat /\ Len(delivered) \in Nat
    BY LenProperties DEF TypeOK
  <2> QED
    BY <1>1, <1>2, <1>4, <2>1
<1> QED
  BY <1>1, <1>2, <1>4, <1>5, <1>6, <1>7, HandOnStep
-----------------------------------------------------------------------------
(* Every step of the run.                                                   *)

\* Every step of a worker keeps the invariant.
LEMMA WorkStep ==
    ASSUME IInv, TypeOK', NEW j \in Jobs, Works(j)
    PROVE  IInv'
<1> USE DEF Goes, PassesGate
<1>1. found = [found EXCEPT ![j] = found[j]]
  BY DEF IInv, TypeOK
<1>2. CASE GateRegister(j) \/ GateLooks(j) \/ GateParks(j) \/ GateWakes(j) \/ ProbeStarts(j)
  <2>1. pc[j] \in Unasked \ {"idle"}
    BY <1>2 DEF GateRegister, GateLooks, GateParks, GateWakes, ProbeStarts, Unasked
  <2>2. PICK p \in Unasked \ {"idle"} : pc' = [pc EXCEPT ![j] = p]
    BY <1>2 DEF GateRegister, GateLooks, GateParks, GateWakes, ProbeStarts, Unasked
  <2>3. UNCHANGED <<at, found, dead, groupCh, states, merged, results, counters, delivered>>
    BY <1>2 DEF GateRegister, GateLooks, GateParks, GateWakes, ProbeStarts, Unmoved
  <2> QED
    BY <2>1, <2>2, <2>3, MoveStep
<1>3. CASE MemberStarts(j)
  <2>1. /\ Member(j) /\ pc[j] \in Unasked \ {"idle"} /\ pc' = [pc EXCEPT ![j] = "probing"]
        /\ dead' = [dead EXCEPT ![KeyOf(j)] = "alive"]
        /\ UNCHANGED <<at, found, groupCh, states, merged, results, counters, delivered>>
        /\ "probing" \in Unasked \ {"idle"}
    BY <1>3 DEF MemberStarts, Unasked
  <2> QED
    BY <2>1, MoveStep
<1>4. CASE GateClosed(j)
  <2>1. /\ ~Member(j) /\ pc[j] \in Unasked /\ pc[j] # "finished" /\ pc[j] # "idle"
        /\ pc' = [pc EXCEPT ![j] = "finished"] /\ found' = found
        /\ done' = done + 1 /\ passed' = passed
        /\ UNCHANGED <<at, dead, groupCh, states, merged, results, total, delivered>>
    BY <1>4 DEF GateClosed, Unasked
  <2>2. found' = [found EXCEPT ![j] = "none"]
    BY <1>1, <2>1 DEF IInv, JobInv
  <2> QED
    BY <2>1, <2>2, SingleStep
<1>5. CASE Recorded(j)
  <2>1. /\ ~Member(j) /\ pc[j] = "recording"
        /\ pc' = [pc EXCEPT ![j] = "sending"] /\ found' = found
        /\ done' = done /\ passed' = passed + 1
        /\ UNCHANGED <<at, dead, groupCh, states, merged, results, total, delivered>>
    BY <1>5 DEF Recorded
  <2>2. found' = [found EXCEPT ![j] = "pass"]
    BY <1>1, <2>1 DEF IInv, JobInv
  <2> QED
    BY <2>1, <2>2, SingleStep
<1>6. ASSUME NEW verdict \in {"pass", "fail"}, SingleEnds(j, verdict)
      PROVE  IInv'
  <2> DEFINE p == IF verdict = "pass" THEN "recording" ELSE "finished"
  <2>1. /\ ~Member(j) /\ pc[j] \in Unasked /\ pc[j] # "finished" /\ pc[j] # "idle"
        /\ pc' = [pc EXCEPT ![j] = p] /\ found' = [found EXCEPT ![j] = verdict]
        /\ done' = done + 1 /\ passed' = passed
        /\ UNCHANGED <<at, dead, groupCh, states, merged, results, total, delivered>>
    BY <1>6 DEF SingleEnds, Unasked
  <2>2. /\ p \in {"recording", "sending", "finished"} /\ p # "sending"
        /\ p # "finished" <=> verdict = "pass"
        /\ verdict \in {"none", "pass", "fail"}
    OBVIOUS
  <2> HIDE DEF p
  <2> QED
    BY <2>1, <2>2, SingleStep
<1>7. ASSUME NEW verdict \in {"pass", "fail"}, MemberEnds(j, verdict)
      PROVE  IInv'
  <2> DEFINE p == IF verdict = "pass" THEN "reporting" ELSE "recording"
  <2>1. /\ Member(j) /\ pc[j] \in Unasked \ {"idle"}
        /\ pc' = [pc EXCEPT ![j] = p] /\ found' = [found EXCEPT ![j] = verdict]
        /\ UNCHANGED <<at, dead, groupCh, states, merged, results, counters, delivered>>
    BY <1>7 DEF MemberEnds, Unasked
  <2>2. /\ p \in {"recording", "reporting"} /\ (p = "recording" <=> verdict = "fail")
        /\ verdict \in {"pass", "fail", "skipped"} /\ verdict # "skipped"
    OBVIOUS
  <2> HIDE DEF p
  <2> QED
    BY <2>1, <2>2, MemberStep
<1>8. CASE MemberSkips(j)
  <2>1. /\ Member(j) /\ pc[j] \in Unasked \ {"idle"} /\ dead[KeyOf(j)] = "dead"
        /\ pc' = [pc EXCEPT ![j] = "reporting"] /\ found' = [found EXCEPT ![j] = "skipped"]
        /\ UNCHANGED <<at, dead, groupCh, states, merged, results, counters, delivered>>
    BY <1>8 DEF MemberSkips, Unasked
  <2> QED
    BY <2>1, MemberStep
<1>9. CASE MemberCondemns(j)
  <2>1. /\ Member(j) /\ pc[j] = "recording" /\ dead' = [dead EXCEPT ![KeyOf(j)] = "dead"]
        /\ pc' = [pc EXCEPT ![j] = "reporting"] /\ found' = found
        /\ UNCHANGED <<at, groupCh, states, merged, results, counters, delivered>>
    BY <1>9 DEF MemberCondemns
  <2>2. found[j] = "fail" /\ found' = [found EXCEPT ![j] = "fail"]
    BY <1>1, <2>1 DEF IInv, JobInv
  <2> QED
    BY <2>1, <2>2, MemberStep
<1> QED
  BY <1>2, <1>3, <1>4, <1>5, <1>6, <1>7, <1>8, <1>9, SendsStep, ReportsStep DEF Works

\* Every step of a validation keeps the invariant.
LEMMA RunStep == IInv /\ [Next]_vars => IInv'
<1> SUFFICES ASSUME IInv, [Next]_vars PROVE IInv'
  OBVIOUS
<1>1. TypeOK'
  BY TypeStep DEF IInv
<1>2. CASE Drop \/ Pause \/ Resume \/ NotifyWaiters \/ UNCHANGED vars
  BY <1>1, <1>2, IdleStep DEF Drop, Pause, Resume, NotifyWaiters, Unmoved, vars
<1>3. ASSUME NEW u \in SingleUnits, GateCloses(u)
      PROVE  IInv'
  BY <1>1, <1>3, IdleStep DEF GateCloses
<1> QED
  BY <1>1, <1>2, <1>3, PullStep, WorkStep, AggregatorReceivesStep, AggregatorSendsStep,
     ReceiveStep DEF Next, Aggregates

(* The inductive invariant of a validation run.                             *)
THEOREM RunInvariant == Spec => []IInv
BY InitIInv, RunStep, PTL DEF Spec

(* Every variable of the run keeps its type; in particular no more jobs     *)
(* hold a place than concurrency_limit, and no channel exceeds its capacity *)
(* (validate_with_health).                                                  *)
THEOREM RunTypes == Spec => []TypeOK
<1>1. IInv => TypeOK
  BY DEF IInv
<1> QED
  BY <1>1, RunInvariant, PTL

(* A member is skipped only because a sibling failed (group_dead of         *)
(* do_group_work).                                                          *)
THEOREM SkipsExcused == Spec => []SkipsAreExcused
<1>1. IInv => SkipsAreExcused
  BY DEF IInv
<1> QED
  BY <1>1, RunInvariant, PTL
-----------------------------------------------------------------------------
(* What the consumer sees, channel by channel.                              *)

\* The elements of three sequences put together.
LEMMA ThreeParts ==
    ASSUME NEW S, NEW s \in Seq(S), NEW t \in Seq(S), NEW u \in Seq(S)
    PROVE  /\ s \o t \o u \in Seq(S)
           /\ DOMAIN (s \o t \o u) = 1..((Len(s) + Len(t)) + Len(u))
           /\ \A i \in 1..((Len(s) + Len(t)) + Len(u)) :
                (s \o t \o u)[i] = IF i <= Len(s) THEN s[i]
                                   ELSE IF i <= Len(s) + Len(t) THEN t[i - Len(s)]
                                   ELSE u[i - (Len(s) + Len(t))]
<1>1. /\ s \o t \in Seq(S) /\ Len(s \o t) = Len(s) + Len(t)
      /\ \A i \in 1..(Len(s) + Len(t)) :
            (s \o t)[i] = IF i <= Len(s) THEN s[i] ELSE t[i - Len(s)]
  BY ConcatProperties
<1>2. PICK front \in Seq(S) : front = s \o t
  BY <1>1
<1>3. /\ front \o u \in Seq(S) /\ Len(front \o u) = Len(front) + Len(u)
      /\ \A i \in 1..(Len(front) + Len(u)) :
            (front \o u)[i] = IF i <= Len(front) THEN front[i] ELSE u[i - Len(front)]
  BY <1>2, ConcatProperties
<1>4. Len(s) \in Nat /\ Len(t) \in Nat /\ Len(u) \in Nat
  BY LenProperties
<1>5. DOMAIN (front \o u) = 1..((Len(s) + Len(t)) + Len(u))
  BY <1>1, <1>2, <1>3, LenProperties
<1> QED
  BY <1>1, <1>2, <1>3, <1>4, <1>5

\* A unit is on one place of its way to the consumer only.
LEMMA HandedOverOnce ==
    ASSUME IInv
    PROVE  GroupsAllOrNothing
<1> DEFINE last == IF merged = NoUnit THEN <<>> ELSE <<merged>>
           a == Len(delivered)
           b == Len(results)
           c == Len(last)
<1>1. /\ delivered \in Seq(Keys) /\ results \in Seq(Keys) /\ last \in Seq(Keys)
      /\ a \in Nat /\ b \in Nat /\ c \in Nat
  <2>1. delivered \in Seq(Keys) /\ results \in Seq(Keys) /\ merged \in Keys \cup {NoUnit}
    BY DEF IInv, TypeOK
  <2>2. last \in Seq(Keys)
    BY <2>1
  <2> QED
    BY <2>1, <2>2, LenProperties
<1>2. \A i \in 1..c : last[i] = merged /\ i = 1 /\ merged # NoUnit
  OBVIOUS
<1> HIDE DEF last
<1>3. HandedOver = delivered \o results \o last
  BY DEF HandedOver, last
<1>4. /\ DOMAIN HandedOver = 1..((a + b) + c)
      /\ HandedOver \in Seq(Keys)
      /\ \A i \in 1..((a + b) + c) :
            HandedOver[i] = IF i <= a THEN delivered[i]
                            ELSE IF i <= a + b THEN results[i - a] ELSE last[i - (a + b)]
  BY <1>1, <1>3, ThreeParts
<1> HIDE DEF a, b, c
<1>5. \A i \in 1..((a + b) + c) :
        \/ i \in 1..a /\ HandedOver[i] = delivered[i]
        \/ i - a \in 1..b /\ HandedOver[i] = results[i - a] /\ i \notin 1..a
        \/ i = a + b + 1 /\ HandedOver[i] = merged /\ merged # NoUnit
  <2> TAKE i \in 1..((a + b) + c)
  <2>1. CASE i <= a
    BY <1>1, <1>4, <2>1
  <2>2. CASE i > a /\ i <= a + b
    BY <1>1, <1>4, <2>2
  <2>3. CASE i > a + b
    <3>1. i - (a + b) \in 1..c
      BY <1>1, <2>3
    <3>2. HandedOver[i] = last[i - (a + b)]
      BY <1>1, <1>4, <2>3
    <3> QED
      BY <1>1, <1>2, <3>1, <3>2
  <2> QED
    BY <1>1, <2>1, <2>2, <2>3
<1>6. /\ \A i \in 1..a : delivered[i] \in ToSet(delivered)
      /\ \A i \in 1..b : results[i] \in ToSet(results)
  <2>1. DOMAIN delivered = 1..a /\ DOMAIN results = 1..b
    BY <1>1, LenProperties DEF a, b
  <2> QED
    BY <2>1 DEF ToSet
<1>7. \A i \in DOMAIN HandedOver : HandedOver[i] \in Keys /\ Handed(HandedOver[i])
  <2>1. \A i \in DOMAIN HandedOver : HandedOver[i] \in Keys
    BY <1>4, LenProperties, ElementOfSeq
  <2> QED
    BY <1>4, <1>5, <1>6, <2>1 DEF Handed
<1>8. \A i \in DOMAIN HandedOver : \A j \in MembersOf(HandedOver[i]) : found[j] = "pass"
  BY <1>7 DEF IInv, HandedInv, AllPass
<1>9. IsInjective(HandedOver)
  <2>1. /\ \A i, j \in 1..a : delivered[i] = delivered[j] => i = j
        /\ \A i, j \in 1..b : results[i] = results[j] => i = j
        /\ \A i \in 1..a, j \in 1..b : delivered[i] # results[j]
        /\ \A i \in 1..a : delivered[i] # merged
        /\ \A i \in 1..b : results[i] # merged
    BY <1>6 DEF IInv, HandedInv, Distinct, a, b
  <2>2. ASSUME NEW i \in DOMAIN HandedOver, NEW j \in DOMAIN HandedOver,
               HandedOver[i] = HandedOver[j]
        PROVE  i = j
    <3>1. i \in 1..((a + b) + c) /\ j \in 1..((a + b) + c) /\ i \in Int /\ j \in Int
      BY <1>1, <1>4
    <3>2. CASE i \in 1..a
      BY <1>5, <2>1, <2>2, <3>1, <3>2
    <3>3. CASE j \in 1..a
      BY <1>5, <2>1, <2>2, <3>1, <3>3
    <3>4. CASE i \notin 1..a /\ j \notin 1..a
      <4>1. CASE i - a \in 1..b /\ j - a \in 1..b
        <5>1. i - a = j - a
          BY <1>1, <1>5, <2>1, <2>2, <3>1, <3>4, <4>1
        <5> QED
          BY <1>1, <3>1, <5>1
      <4>2. CASE i - a \notin 1..b \/ j - a \notin 1..b
        BY <1>1, <1>5, <2>1, <2>2, <3>1, <3>4, <4>2
      <4> QED
        BY <4>1, <4>2
    <3> QED
      BY <3>2, <3>3, <3>4
  <2> QED
    BY <2>2 DEF IsInjective
<1> QED
  BY <1>8, <1>9 DEF GroupsAllOrNothing

(* A unit reaches the consumer at most once, and only when each of its jobs *)
(* was probed and passed (do_work, aggregate_groups).                       *)
THEOREM GroupsWhole == Spec => []GroupsAllOrNothing
BY HandedOverOnce, RunInvariant, PTL

\* At the end of the stream the counters have counted every unit.
LEMMA EndIsSettled ==
    ASSUME IInv
    PROVE  EndsSettled
<1> SUFFICES ASSUME Ended
             PROVE  /\ done = total /\ passed = Len(delivered)
                    /\ \A k \in Keys : states[k] = {} /\ dead[k] = "absent"
  BY DEF EndsSettled
<1> USE DEF IInv
<1>1. \A j \in Jobs : pc[j] = "finished" /\ j < at
  <2> TAKE j \in Jobs
  <2>1. j < at /\ ~(j >= at)
    BY JobFacts DEF Ended, TypeOK
  <2>2. pc[j] \in Places /\ pc[j] \notin Active
    BY DEF TypeOK, Ended, In
  <2> QED
    BY <2>1, <2>2 DEF JobInv, Active, Places
<1>2. ToSet(groupCh) = {} /\ Len(results) = 0 /\ merged = NoUnit
  BY DEF Ended, ToSet
<1>3. ASSUME NEW k \in Keys
      PROVE  Settled(k)
  <2>1. CASE Grouped(k)
    <3>1. \A j \in MembersOf(k) : Member(j) /\ j \in Jobs /\ KeyOf(j) = k
      BY <2>1, KeyFacts, JobFacts DEF Grouped, MembersOf
    <3>2. ASSUME ~Settled(k)
          PROVE  FALSE
      <4>1. \A j \in MembersOf(k) : j \in states[k]
        BY <1>1, <1>2, <3>1, <3>2 DEF GroupInv
      <4>2. states[k] \subseteq MembersOf(k) /\ states[k] # MembersOf(k)
        BY DEF GroupInv
      <4> QED
        BY <4>1, <4>2
    <3> QED
      BY <3>2
  <2>2. CASE ~Grouped(k)
    <3>1. states[k] = {}
      BY <2>2 DEF GroupInv, Grouped
    <3> QED
      BY <1>1, <1>2, <3>1, JobFacts DEF Settled
  <2> QED
    BY <2>1, <2>2
<1>4. \A k \in Keys : states[k] = {} /\ dead[k] = "absent"
  BY <1>3 DEF Settled, FlagInv
<1>5. Done = Keys /\ Pulled = Keys
  BY <1>1, <1>3, JobFacts DEF Done, Pulled
<1>6. Passed = HandedKeys
  BY <1>1, <1>3, JobFacts DEF Passed, HandedKeys, HandedInv
<1>7. Len(delivered) = Cardinality(HandedKeys)
  <2>1. Len(delivered) \in Nat
    BY LenProperties DEF TypeOK
  <2> QED
    BY <1>2, <2>1 DEF CountInv
<1> QED
  BY <1>4, <1>5, <1>6, <1>7 DEF CountInv

(* When the stream ends every unit is accounted for, all that passed was    *)
(* delivered, and neither map of the aggregator holds an entry any more     *)
(* (ValidationProgress, aggregate_groups).                                  *)
THEOREM RunEndsSettled == Spec => []EndsSettled
BY EndIsSettled, RunInvariant, PTL
=============================================================================
