------------------------------- MODULE Quotas -------------------------------
(***************************************************************************)
(* Types, quotas and the jobs they give rise to: the pure decisions that    *)
(* `flx find` takes about a proxy (src/cli/quotas.rs, src/cli/pipeline.rs,  *)
(* src/validator/work.rs).  No state: FindRun keeps the hits and the jobs.  *)
(*                                                                         *)
(* A protocol is its family and its anonymity level.  CONNECT to a port is  *)
(* a family of its own; SOCKS and CONNECT only have the level "Unknown".    *)
(* `qs` is always the sequence of quotas the TYPES arguments stand for.     *)
(***************************************************************************)
EXTENDS Integers, Sequences, FiniteSets

CONSTANTS
    Families,       \* HTTP, HTTPS, SOCKS4, SOCKS5, CONNECT:port
    Levels          \* "Unknown" and the levels a judge can measure

ASSUME QuotasAssumption == "Unknown" \in Levels

Protocol == [family : Families, level : Levels]
Quota == [protocol : Protocol, capped : BOOLEAN, cap : Nat]

Slots(qs) == DOMAIN qs
NoHits(qs) == [i \in Slots(qs) |-> 0]
Requested(qs) == {qs[i].protocol : i \in Slots(qs)}

HasAnyQuota(qs) == \E i \in Slots(qs) : qs[i].capped
HasUncapped(qs) == \E i \in Slots(qs) : ~qs[i].capped
-----------------------------------------------------------------------------
SameFamily(a, b) == a.family = b.family

(* protocol_matches, advertised_matches_request, advertised_covers_request: *)
(* "Unknown" on either side matches every level of the family.              *)
Matches(a, b) ==
    SameFamily(a, b) /\ (a.level = "Unknown" \/ b.level = "Unknown" \/ a.level = b.level)

(* result_satisfies_request: the result is measured, so only an unspecific  *)
(* request is satisfied by another level.                                   *)
Satisfies(result, requested) ==
    SameFamily(result, requested) /\ (requested.level = "Unknown" \/ result.level = requested.level)

HasRoom(qs, hits, i) == ~qs[i].capped \/ hits[i] < qs[i].cap

HasUnfilled(qs, hits) == \E i \in Slots(qs) : qs[i].capped /\ HasRoom(qs, hits, i)

(* is_satisfied                                                             *)
Satisfied(qs, hits, hasGroups) ==
    HasAnyQuota(qs) /\ ~HasUnfilled(qs, hits) /\ ~HasUncapped(qs) /\ ~hasGroups

NamesFamily(qs, carried) ==
    \E i \in Slots(qs) : \E p \in carried : SameFamily(qs[i].protocol, p)

ConsumesFilled(qs, hits, carried) ==
    {i \in Slots(qs) : \E p \in carried : Matches(qs[i].protocol, p)}

(* The quotas with room that a proxy carrying these types counts toward.    *)
Consumes(qs, hits, carried) ==
    {i \in Slots(qs) : HasRoom(qs, hits, i) /\ \E p \in carried : Matches(qs[i].protocol, p)}

(* should_emit: its answer, and the hits after it.                          *)
ShouldEmit(qs, hits, carried) == NamesFamily(qs, carried) => Consumes(qs, hits, carried) # {}

HitsAfter(qs, hits, carried) ==
    [i \in Slots(qs) |->
        IF qs[i].capped /\ i \in Consumes(qs, hits, carried) THEN hits[i] + 1 ELSE hits[i]]

ClosedByAnyQuota(qs, hits, requested) ==
    \E i \in Slots(qs) : SameFamily(qs[i].protocol, requested) /\ ~HasRoom(qs, hits, i)

(* is_protocol_closed: what the probe gate asks.                            *)
Closed(qs, hits, requested) ==
    /\ \E i \in Slots(qs) : SameFamily(qs[i].protocol, requested)
    /\ \A i \in Slots(qs) : SameFamily(qs[i].protocol, requested) => ~HasRoom(qs, hits, i)
-----------------------------------------------------------------------------
(* singleton_jobs: the requested types a pass probes a candidate for.  The  *)
(* first pass probes what the candidate advertises, the fallback pass what  *)
(* it does not.                                                             *)
Covered(advertised, requested) == \E a \in advertised : Matches(a, requested)

AdvertisedJobs(qs, advertised) == {r \in Requested(qs) : Covered(advertised, r)}

MissedJobs(qs, advertised) == {r \in Requested(qs) : ~Covered(advertised, r)}

(* needs_missed_probe: the candidates the recorder keeps for the fallback.  *)
NeedsMissedProbe(qs, advertised) ==
    advertised = {} \/ \E r \in Requested(qs) : ~Covered(advertised, r)

NeedsFallbackUntilOneRow(qs, hits, hasGroups, limit, emitted, passed) ==
    /\ Requested(qs) # {}
    /\ passed = 0 \/ (limit > 0 /\ passed < limit)

(* needs_fallback                                                           *)
NeedsFallback(qs, hits, hasGroups, limit, emitted, passed) ==
    /\ Requested(qs) # {}
    /\ IF HasAnyQuota(qs)
       THEN /\ limit = 0 \/ emitted < limit
            /\ emitted = 0 \/ HasUnfilled(qs, hits) \/ HasUncapped(qs) \/ hasGroups
       ELSE passed = 0 \/ (limit > 0 /\ passed < limit)
=============================================================================
