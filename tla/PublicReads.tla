----------------------------- MODULE PublicReads ------------------------------
(***************************************************************************)
(* Public reads: a publisher issues a cell's leaderboard, entity details   *)
(* and comparisons are projected from it and health is derived from the    *)
(* manifest, a hand edits what is on the wire, and readers verify it.      *)
(***************************************************************************)
EXTENDS ReadContracts, FiniteSets

CONSTANTS Cell,         \* the envelope of the cell's documents
          Boards,       \* the [cell_state, ranking_groups, generated_at] a publisher may issue
          Manifests,    \* the manifests health may be derived from
          ReadEdits,    \* the values a hand may write into each field
          MaxReadEdits

IsList(s) == s \in Seq(Range(s))

IsEntries(entries) ==
    /\ IsList(entries)
    /\ \A e \in Range(entries) :
          e = [f \in {"evaluated_configuration_id", "ranking"} |-> e[f]]

\* The source a read names when it shows the rows of a view.
ViewName(view) ==
    [benchmark_family_id |-> view.benchmark_family_id, feed_id |-> view.feed_id]

GroupFields == {"ranking_group_id", "identity", "state", "evidence_snapshot_id",
                "eligibility_summary", "entries", "citations", "explorer_views"}

\* What value each field of a group may have, which is what a hand may write there.
Suits(field, value) ==
    CASE field = "ranking_group_id"     -> value \in Texts
      [] field = "evidence_snapshot_id" -> value \in Texts \X Texts
      [] field = "entries"              -> IsEntries(value)
      [] field = "explorer_views" ->
            \A v \in Range(value) : IsEntries(v.entries) /\ ViewName(v) # Null
      [] OTHER -> TRUE

IsGroup(g) ==
    g = [f \in GroupFields |-> g[f]] /\ \A f \in GroupFields : Suits(f, g[f])

\* The configuration of a row: its passport is found by its id, which is the passport's hash.
Configured(entry) ==
    [evaluated_configuration_id |-> entry.evaluated_configuration_id,
     passport |-> entry.evaluated_configuration_id.sha256]

Sources(group) == {group} \cup Range(group.explorer_views)

\* A document's kind is the reader's question, and not edited.  The publisher has the passport
\* of each configuration it ranks, and a manifest is finite and names its cells once.
ASSUME PublicReadsAssumption ==
    /\ Cell = [f \in {"cell_id", "manifest_version", "methodology_version"} |-> Cell[f]]
    /\ \A b \in Boards :
          /\ IsList(b.ranking_groups)
          /\ \A g \in Range(b.ranking_groups) :
                /\ IsGroup(g)
                /\ \A source \in Sources(g) : \A e \in Range(source.entries) :
                      IsConfiguration(Configured(e))
    /\ \A f \in DOMAIN ReadEdits : f # "object" /\ \A v \in ReadEdits[f] : Suits(f, v)
    /\ \A m \in Manifests :
          /\ IsList(m.cells) /\ m.cells # <<>> /\ IsInjective(m.cells)
          /\ IsFiniteSet(m.ranking_groups) /\ IsFiniteSet(m.feeds)

VARIABLES board,     \* the leaderboard that was issued, or Null
          page,      \* the document readers get, or Null
          readEdits  \* changes made to it so far

readVars == <<board, page, readEdits>>

ReadsInit == board = Null /\ page = Null /\ readEdits = 0

-------------------------------------------------------------------------------
(* What the reference server derives *)

Leaderboard(b) ==
    LET content == Joined([object |-> "leaderboard", cell_state |-> b.cell_state,
                           generated_at |-> b.generated_at,
                           ranking_groups |-> b.ranking_groups], Cell)
        descriptor == Descriptor(Cell, GroupReferences(content))
    IN Joined(content, [snapshot_set_descriptor |-> descriptor,
                        snapshot_set_id |-> SnapshotSetId(descriptor)])

\* The rows of a group's calibrated ranking or of one of its explorer views.
Calibrated(group) ==
    [entries |-> group.entries, citations |-> group.citations, explorer_view |-> Null]

\* Mutant: a read does not say which view it shows.
FromSomeView(view) ==
    [entries |-> view.entries, citations |-> view.citations, explorer_view |-> Null]

FromView(view) ==
    [entries |-> view.entries, citations |-> view.citations, explorer_view |-> ViewName(view)]

Rankings(group) == {Calibrated(group)} \cup {FromView(v) : v \in Range(group.explorer_views)}

\* What an entity detail and a comparison share.
Read(group, ranking) ==
    Joined(Cell,
        [snapshot_set_descriptor |-> board.snapshot_set_descriptor,
         snapshot_set_id         |-> board.snapshot_set_id,
         generated_at            |-> board.generated_at,
         ranking_group_id        |-> group.ranking_group_id,
         state                   |-> group.state,
         evidence_snapshot_id    |-> group.evidence_snapshot_id,
         eligibility_summary     |-> group.eligibility_summary,
         explorer_view           |-> ranking.explorer_view])

EntityDetail(group, ranking, entry) ==
    Joined(Read(group, ranking),
        [object |-> "entity_detail",
         entity |-> [evaluated_configuration |-> Configured(entry),
                     ranking   |-> entry.ranking,
                     citations |-> ranking.citations]])

\* A row and what its source cites.
Row(entry, source) == Joined(entry, [citations |-> source.citations])

CitedRows(ranking) ==
    [i \in DOMAIN ranking.entries |-> Row(ranking.entries[i], ranking)]

CompareResult(group, ranking) ==
    Joined(Read(group, ranking),
        [object   |-> "compare_result",
         identity |-> group.identity,
         entities |-> CitedRows(ranking)])

Feeds(manifest, cell_id, states) ==
    {f \in manifest.feeds : cell_id \in f.candidate_cells /\ f.state \in states}

HealthRow(manifest, cell_id) ==
    LET groups == {g \in manifest.ranking_groups : g.cell_id = cell_id}
        counts == [
            cell_id |-> cell_id,
            ranking_group_count |-> Cardinality(groups),
            published_ranking_group_count |->
                Cardinality({g \in groups : g.state = "active"}),
            benchmark_family_count |->
                Cardinality({f \in manifest.benchmark_families : cell_id \in f.candidate_cells}),
            candidate_feed_count |->
                Cardinality({f \in manifest.feeds : cell_id \in f.candidate_cells}),
            implemented_feed_count |->
                Cardinality(Feeds(manifest, cell_id, {"shadow", "active"})),
            admitted_feed_count |-> Cardinality(Feeds(manifest, cell_id, {"active"})),
            rank_eligible_feed_count |->
                Cardinality({f \in Feeds(manifest, cell_id, {"active"}) :
                                f.rank_eligible_count # Null /\ f.rank_eligible_count > 0})]
    IN Joined(counts, [status |-> CASE counts.published_ranking_group_count > 0 -> "active"
                               [] counts.published_ranking_group_count = 0
                                  /\ counts.implemented_feed_count > 0 -> "preview"
                               [] OTHER -> "unavailable"])

BenchmarkHealth(manifest) ==
    [object |-> "benchmark_health",
     cells  |-> [k \in DOMAIN manifest.cells |-> HealthRow(manifest, manifest.cells[k])]]

-------------------------------------------------------------------------------
(* Actions *)

\* A publisher issues only what the verifier accepts, as the repository's tests demand.
PublishBoard(b) ==
    /\ page = Null
    /\ VerifyLeaderboard(Leaderboard(b))
    /\ board' = Leaderboard(b)
    /\ page' = board'
    /\ UNCHANGED readEdits

PublishHealth(manifest) ==
    /\ page = Null
    /\ page' = BenchmarkHealth(manifest)
    /\ UNCHANGED <<board, readEdits>>

\* A row can be read on its own where the group is not quarantined and its source cites
\* something; only the rows of a resolved group can be compared.
CanOpen(group, ranking) ==
    /\ group.state # "quarantined"
    /\ ranking.entries # <<>> /\ ranking.citations # <<>>

\* The reference server has one detail and one comparison, written out as constants beside
\* its constant leaderboard; here either is projected from any leaderboard.
Open ==
    /\ board # Null /\ page = board
    /\ \E group \in Range(board.ranking_groups) : \E ranking \in Rankings(group) :
          /\ CanOpen(group, ranking)
          /\ \/ \E entry \in Range(ranking.entries) :
                   page' = EntityDetail(group, ranking, entry)
             \/ /\ group.identity # Unresolved /\ Len(ranking.entries) \in 2 .. 4
                /\ page' = CompareResult(group, ranking)
    /\ UNCHANGED <<board, readEdits>>

ChangePage ==
    /\ page # Null /\ readEdits < MaxReadEdits
    /\ readEdits' = readEdits + 1
    /\ UNCHANGED board

\* A field of a group of a leaderboard, or of any other read.
EditPage(field, value) ==
    /\ ChangePage
    /\ IF page.object = "leaderboard"
       THEN \E k \in DOMAIN page.ranking_groups :
               /\ Has(page.ranking_groups[k], field)
               /\ page' = [page EXCEPT !.ranking_groups[k][field] = value]
       ELSE Has(page, field) /\ page' = [page EXCEPT ![field] = value]

\* Somebody claims that a row is in the top set.
Promote ==
    /\ ChangePage
    /\ \/ /\ page.object = "entity_detail"
          /\ page' = [page EXCEPT !.entity.ranking.in_top_set = TRUE]
       \/ /\ page.object = "compare_result"
          /\ \E i \in DOMAIN page.entities :
                page' = [page EXCEPT !.entities[i].ranking.in_top_set = TRUE]

\* The parts of a read that carry a claim.
Sections(document) ==
    CASE document.object = "leaderboard"                       -> Range(document.ranking_groups)
      [] document.object \in {"entity_detail", "compare_result"} -> {document}
      [] OTHER                                                 -> {}

\* The editor derives the descriptor and its hash anew from what the page now refers to.
RehashPage ==
    /\ page # Null /\ Sections(page) # {}
    /\ LET changed == [r \in Range(page.snapshot_set_descriptor.ranking_group_snapshots) |->
                           IF \E s \in Sections(page) : s.ranking_group_id = r.ranking_group_id
                           THEN Reference(CHOOSE s \in Sections(page) :
                                             s.ranking_group_id = r.ranking_group_id)
                           ELSE r]
           old == page.snapshot_set_descriptor.ranking_group_snapshots
           descriptor == Descriptor(Cell, [k \in DOMAIN old |-> changed[old[k]]])
       IN /\ descriptor # Rejected
          /\ page' = [page EXCEPT !.snapshot_set_descriptor = descriptor,
                                  !.snapshot_set_id = SnapshotSetId(descriptor)]
    /\ UNCHANGED <<board, readEdits>>

ReadsNext ==
    \/ \E b \in Boards : PublishBoard(b)
    \/ \E m \in Manifests : PublishHealth(m)
    \/ Open
    \/ \E f \in DOMAIN ReadEdits : \E v \in ReadEdits[f] : EditPage(f, v)
    \/ Promote
    \/ RehashPage
-------------------------------------------------------------------------------
Rows(section) ==
    CASE "entity" \in DOMAIN section   -> {section.entity}
      [] "entities" \in DOMAIN section -> Range(section.entities)
      [] OTHER -> {Row(e, section) : e \in Range(section.entries)}
                  \cup UNION {{Row(e, v) : e \in Range(v.entries)} :
                                v \in Range(section.explorer_views)}

Accepted == page # Null /\ Accepts(page)

\* The eligibility gate (read_contracts.py:379 and :721): however a read was put together,
\* a reader shows a row in the top set only under snapshot evidence, in a group that is not
\* quarantined, with validated calibration, as many families and as much overlap as are
\* required, a ranked configuration, and citations.
TopSetIsEarned ==
    Accepted => \A s \in Sections(page) : \A row \in Rows(s) : row.ranking.in_top_set =>
        /\ s.evidence_snapshot_id[1] = "snapshot" /\ s.state # "quarantined"
        /\ row.citations # <<>>
        /\ LET e == s.eligibility_summary
           IN /\ e.calibration_status = "validated"
              /\ e.current_independent_family_count >= e.required_independent_family_count
              /\ e.current_overlap_count >= e.required_overlap_count
              /\ e.rank_eligible_configuration_count > 0

\* A snapshot set's id covers group ids and evidence ids only, yet it fixes the strength of
\* every claim: a read accepted under the issued leaderboard's id refers to a group of that
\* leaderboard, and claims for it what the leaderboard claims.
ClaimFollowsTheSnapshot ==
    Accepted /\ board # Null =>
        (page.snapshot_set_id = board.snapshot_set_id =>
            \A s \in Sections(page) : \E g \in Range(board.ranking_groups) :
                Reference(g) = Reference(s) /\ Claim(g) = Claim(s))

AreMarked(rows) == \A row \in rows : "evidence_stale" \in Range(row.ranking.caveat_codes)

\* A view that has expired when the leaderboard is made is marked on every row and in the
\* gaps of its group (read_contracts.py:402 and :457): on a leaderboard that a reader
\* accepts, whatever a hand wrote into it, and on a detail or a comparison as it was opened
\* from the leaderboard.  Of an edited detail or comparison nothing is said: these carry no
\* expiry, and their verifiers accept one whose marks were taken off.  A group may have
\* views of one name: the rows of a read are marked when all that it may show have expired.
StaleIsDisclosed ==
    Accepted /\ board # Null =>
        \A s \in Sections(page) :
            LET group == CHOOSE g \in Range(board.ranking_groups) : Reference(g) = Reference(s)
                shown == CASE page.object = "leaderboard" -> Range(s.explorer_views)
                           [] page.object # "leaderboard" /\ readEdits > 0 -> {}
                           [] OTHER -> {v \in Range(group.explorer_views) :
                                           ViewName(v) = s.explorer_view}
                expired == {v \in shown : v.expires_at <= page.generated_at}
            IN expired # {} =>
                  /\ "evidence_stale" \in Range(s.eligibility_summary.gap_codes)
                  /\ IF page.object = "leaderboard"
                     THEN \A v \in expired : AreMarked(Range(v.entries))
                     ELSE expired = shown => AreMarked(Rows(s))

\* The server's documents satisfy the verifier of the other package: every read opened
\* from an issued leaderboard, and the health derived from any manifest, is accepted.
DerivedIsAccepted == page # Null /\ readEdits = 0 => Accepts(page)
===============================================================================
