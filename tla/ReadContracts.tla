---------------------------- MODULE ReadContracts -----------------------------
(***************************************************************************)
(* The verifiers of read_contracts.py: which leaderboards, entity details, *)
(* comparisons and health documents a reader accepts, and the descriptor   *)
(* whose hash names a set of evidence snapshots.                           *)
(*                                                                         *)
(* A document is a record with the fields of the code, without the         *)
(* constant ones.  Formats of slugs, versions and links, and names shown   *)
(* to people, are not modelled: every identifier is well formed.  An       *)
(* evidence id is its prefix and its digest, a citation the family it      *)
(* cites, a score a percentage and an instant a number.                    *)
(***************************************************************************)
EXTENDS Evidence

Unresolved == <<"unresolved", "unresolved", "unresolved-v1">>

GapCodes == {"calibration_unvalidated", "evidence_stale", "insufficient_configuration_overlap",
             "insufficient_independent_families", "no_rank_eligible_configurations",
             "quarantined", "unresolved_identity"}

\* _GROUP_STATES, of groups and of cells.
PublicationStates == {"active", "preview", "shadow", "quarantined"}

-------------------------------------------------------------------------------
(* Snapshot sets *)

\* What a snapshot set is named after, beside its references.
Envelope(document) ==
    [f \in {"cell_id", "manifest_version", "methodology_version"} |-> document[f]]

Reference(section) == [ranking_group_id     |-> section.ranking_group_id,
                       evidence_snapshot_id |-> section.evidence_snapshot_id]

SortKey(r) == <<r.ranking_group_id, r.evidence_snapshot_id[1], r.evidence_snapshot_id[2]>>

\* The constructor: one snapshot per group and one group per snapshot, sorted.
Descriptor(envelope, references) ==
    IF \/ references = <<>>
       \/ ~Unique(references, LAMBDA r : r.ranking_group_id)
       \/ ~Unique(references, LAMBDA r : r.evidence_snapshot_id)
    THEN Rejected
    ELSE Joined(envelope, [ranking_group_snapshots |-> SortedBy(references, SortKey)])

\* from_dict takes only what the constructor would write.
ReadsAsDescriptor(d) ==
    d # Rejected /\ Descriptor(Envelope(d), d.ranking_group_snapshots) = d

SnapshotSetId(descriptor) == Hash(descriptor)

\* The document and the descriptor it carries are of one snapshot set.
IsBound(document) ==
    LET descriptor == document.snapshot_set_descriptor
    IN /\ ReadsAsDescriptor(descriptor)
       /\ Envelope(document) = Envelope(descriptor)
       /\ document.snapshot_set_id = SnapshotSetId(descriptor)

GroupReferences(board) ==
    [k \in DOMAIN board.ranking_groups |-> Reference(board.ranking_groups[k])]

VerifyLeaderboardSnapshotSet(board) ==
    /\ IsBound(board)
    /\ Descriptor(Envelope(board), GroupReferences(board)) = board.snapshot_set_descriptor

-------------------------------------------------------------------------------
(* What leaderboards and the reads projected from them share *)

Claim(section) == section.eligibility_summary.published_claim

Prefix(section) == section.evidence_snapshot_id[1]

\* Mutant: only an explorer's evidence is looked at.
ExplorerEvidenceFits(section) == Claim(section) = "explorer" => Prefix(section) = "explorer"

EvidenceFitsClaim(section) ==
    /\ Claim(section) = "top_set" => Prefix(section) = "snapshot"
    /\ Claim(section) = "explorer" => Prefix(section) = "explorer"

VerifyClaimTopSet(claim, in_top_set) == ~(claim = "explorer" /\ in_top_set)

VerifyUncertainty(u) ==
    u.kind = "interval" => /\ 0 < u.level /\ u.level <= 100
                           /\ 0 <= u.lower /\ u.lower <= u.upper /\ u.upper <= 100

VerifyRanking(ranking) ==
    /\ ranking.rank >= 1 /\ ranking.evidence_family_count >= 1
    /\ ranking.capability_score \in 0 .. 100
    /\ IsInjective(ranking.caveat_codes)
    /\ VerifyUncertainty(ranking.uncertainty)

\* Ranks are 1, 2, ... in the order of the array.
VerifyRankings(entries) ==
    /\ Unique(entries, LAMBDA e : e.evaluated_configuration_id)
    /\ \A i \in DOMAIN entries : /\ VerifyRanking(entries[i].ranking)
                                 /\ entries[i].ranking.rank = i

VerifyCountGap(summary, current, required, code) ==
    /\ summary[current] \in Nat /\ summary[required] \in Nat \ {0}
    /\ summary[current] < summary[required] <=> code \in Range(summary.gap_codes)

\* Mutant: a gap need not be disclosed.
VerifyDisclosedCountGaps(summary) ==
    "no_rank_eligible_configurations" \in Range(summary.gap_codes)
        => summary.rank_eligible_configuration_count = 0

VerifyEligibilityCountGaps(summary) ==
    /\ VerifyCountGap(summary, "current_independent_family_count",
                      "required_independent_family_count", "insufficient_independent_families")
    /\ VerifyCountGap(summary, "current_overlap_count",
                      "required_overlap_count", "insufficient_configuration_overlap")
    /\ summary.rank_eligible_configuration_count \in Nat
    /\ summary.rank_eligible_configuration_count = 0
          <=> "no_rank_eligible_configurations" \in Range(summary.gap_codes)
    /\ summary.calibration_status = "unvalidated"
          <=> "calibration_unvalidated" \in Range(summary.gap_codes)

VerifyEligibilitySummaryState(summary, state) ==
    /\ IsInjective(summary.gap_codes) /\ Range(summary.gap_codes) \subseteq GapCodes
    /\ summary.published_claim \in {"explorer", "top_set"}
    /\ summary.calibration_status \in {"unvalidated", "validated"}
    /\ IF summary.published_claim = "top_set"
       THEN summary.calibration_status = "validated" /\ summary.gap_codes = <<>>
       ELSE summary.gap_codes # <<>>
    /\ VerifyEligibilityCountGaps(summary)
    /\ state = "quarantined" => "quarantined" \in Range(summary.gap_codes)

-------------------------------------------------------------------------------
(* Leaderboards *)

\* Mutant: a view is still fresh in the second in which it expires.
IsStaleAfter(view, generated_at) == generated_at > view.expires_at

IsStale(view, generated_at) == generated_at >= view.expires_at

Ordering(view) == [i \in DOMAIN view.entries |-> view.entries[i].evaluated_configuration_id]

Agreement(views) ==
    CASE Len(views) = 1 -> "single_source"
      [] views # <<>> /\ \A v \in Range(views) : Ordering(v) = Ordering(views[1])
                        -> "promising_not_proven"
      [] OTHER -> "conflicting"

VerifyExplorerView(view, generated_at) ==
    /\ view.expires_at > view.observed_at
    /\ view.metric_direction \in {"higher", "lower"}
    /\ \A c \in Range(view.citations) : c = view.benchmark_family_id
    /\ VerifyRankings(view.entries)
    /\ \A e \in Range(view.entries) :
          /\ ~e.ranking.in_top_set
          /\ e.ranking.evidence_family_count = 1
          /\ "evidence_stale" \in Range(e.ranking.caveat_codes)
                <=> IsStale(view, generated_at)

VerifyExplorerViews(views, generated_at) ==
    \A v \in Range(views) :
        VerifyExplorerView(v, generated_at) /\ v.agreement = Agreement(views)

HasStaleView(views, generated_at) == \E v \in Range(views) : IsStale(v, generated_at)

HasTopSet(group) == \E e \in Range(group.entries) : e.ranking.in_top_set

VerifyEligibility(group) ==
    LET summary == group.eligibility_summary
    IN /\ VerifyEligibilitySummaryState(summary, group.state)
       /\ summary.rank_eligible_configuration_count = Len(group.entries)
       /\ group.identity[1] = "unresolved" =>
             group.entries = <<>> /\ "unresolved_identity" \in Range(summary.gap_codes)
       /\ Claim(group) = "top_set" => HasTopSet(group)

VerifyGroup(group, generated_at) ==
    /\ VerifyRankings(group.entries)
    /\ group.state \in PublicationStates
    /\ group.identity \in IDENTITY_TRIPLES \cup {Unresolved}
    /\ VerifyClaimTopSet(Claim(group), HasTopSet(group))
    /\ EvidenceFitsClaim(group)
    /\ Claim(group) = "top_set" =>
          group.explorer_views = <<>> /\ (group.entries # <<>> => group.citations # <<>>)
    /\ group.state = "quarantined" \/ Claim(group) = "explorer" => group.entries = <<>>
    /\ Prefix(group) = "explorer" <=> group.explorer_views # <<>>
    /\ VerifyExplorerViews(group.explorer_views, generated_at)
    /\ VerifyEligibility(group)
    /\ "evidence_stale" \in Range(group.eligibility_summary.gap_codes)
          <=> HasStaleView(group.explorer_views, generated_at)

\* A configuration has one calibrated row on the whole board.
CalibratedOnce(groups) ==
    \A g, h \in DOMAIN groups : \A i \in DOMAIN groups[g].entries, j \in DOMAIN groups[h].entries :
        groups[g].entries[i].evaluated_configuration_id
            = groups[h].entries[j].evaluated_configuration_id => g = h /\ i = j

VerifyLeaderboard(board) ==
    /\ board.cell_state \in PublicationStates
    /\ VerifyLeaderboardSnapshotSet(board)
    /\ Unique(board.ranking_groups, LAMBDA g : g.ranking_group_id)
    /\ CalibratedOnce(board.ranking_groups)
    /\ \A g \in Range(board.ranking_groups) : VerifyGroup(g, board.generated_at)

-------------------------------------------------------------------------------
(* Entity details and comparisons *)

VerifySnapshotReference(read) ==
    /\ IsBound(read)
    /\ Reference(read) \in Range(read.snapshot_set_descriptor.ranking_group_snapshots)
    /\ read.state \in {"active", "preview", "shadow"}
    /\ EvidenceFitsClaim(read)

VerifySelectedExplorerView(read, citations) ==
    /\ IF Claim(read) = "top_set"
       THEN read.explorer_view = Null
       ELSE /\ read.explorer_view # Null
            /\ \A c \in Range(citations) : c = read.explorer_view.benchmark_family_id
    /\ citations # <<>>

\* One row of either: an entity of a comparison, or the entity of a detail.
VerifyProjection(read, row) ==
    /\ VerifyRanking(row.ranking)
    /\ VerifyClaimTopSet(Claim(read), row.ranking.in_top_set)
    /\ VerifySelectedExplorerView(read, row.citations)

VerifyEntityDetail(read) ==
    /\ VerifySnapshotReference(read)
    /\ IsConfiguration(read.entity.evaluated_configuration)
    /\ VerifyProjection(read, read.entity)
    /\ VerifyEligibilitySummaryState(read.eligibility_summary, read.state)

VerifyCompareResult(read) ==
    /\ VerifySnapshotReference(read)
    /\ read.identity \in IDENTITY_TRIPLES
    /\ Len(read.entities) \in 2 .. 4
    /\ Unique(read.entities, LAMBDA e : e.evaluated_configuration_id)
    /\ Unique(read.entities, LAMBDA e : e.ranking.rank)
    /\ \A e \in Range(read.entities) : VerifyProjection(read, e)
    /\ VerifyEligibilitySummaryState(read.eligibility_summary, read.state)

-------------------------------------------------------------------------------
(* Health *)

HealthStatus(row) ==
    CASE row.published_ranking_group_count > 0 -> "active"
      [] row.published_ranking_group_count = 0 /\ row.implemented_feed_count > 0 -> "preview"
      [] OTHER -> "unavailable"

VerifyBenchmarkHealth(health) ==
    /\ health.cells # <<>>
    /\ Unique(health.cells, LAMBDA row : row.cell_id)
    /\ \A row \in Range(health.cells) :
          /\ row.published_ranking_group_count <= row.ranking_group_count
          /\ row.rank_eligible_feed_count <= row.admitted_feed_count
          /\ row.admitted_feed_count <= row.implemented_feed_count
          /\ row.implemented_feed_count <= row.candidate_feed_count
          /\ row.status = HealthStatus(row)

\* Dispatch of the readers' methods.
Accepts(page) ==
    CASE page.object = "leaderboard"    -> VerifyLeaderboard(page)
      [] page.object = "entity_detail"  -> VerifyEntityDetail(page)
      [] page.object = "compare_result" -> VerifyCompareResult(page)
      [] OTHER                          -> VerifyBenchmarkHealth(page)
===============================================================================
