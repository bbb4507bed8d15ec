----------------------------- MODULE MCPublication ----------------------------
(***************************************************************************)
(* Instance of PublicDocuments for TLC.                                    *)
(***************************************************************************)
EXTENDS PublicDocuments, TLC

Order == <<"", "a", "b", "cost_unmeasured", "effort_substituted", "explorer", "explorer_a",
           "explorer_b", "explorer_line", "g1", "g2", "high", "low", "monday",
           "no_ranked_candidate", "no_serving_offer", "openai", "primary", "snapshot",
           "stale_evidence", "tuesday", "tuesday_in_other_digits", "x", "y", "z">>

TextOrder == [s \in {Order[i] : i \in DOMAIN Order} |-> CHOOSE i \in DOMAIN Order : Order[i] = s]

-------------------------------------------------------------------------------
(* Receipts *)

AllSnapshotIds == {"explorer_a", "explorer_b", "explorer_line"}
AllTimestamps  == {"monday", "tuesday", "tuesday_in_other_digits"}
OnlyInPython   == {"explorer_line", "tuesday_in_other_digits"}

Selection(offer, effort, provider, ratio, cost, caveats) ==
    [serving_offer_id |-> offer, reasoning_effort |-> effort, provider_id |-> provider,
     api |-> "responses", ratio |-> ratio, cost |-> cost,
     multiplier |-> IF cost = Null THEN Null ELSE "level", caveats |-> caveats]

Unmeasured   == [code |-> "cost_unmeasured"]
Measured(e)  == [code |-> "effort_substituted", measured_effort |-> e]
Family(f, w) == [family_id |-> f, weight_ppm |-> w,
                 stale_at |-> IF f = "a" THEN "tuesday" ELSE Null]
Excluded(e)  == [model_key |-> "a", code |-> "no_serving_offer", reasoning_effort |-> e]
Unnamed      == [model_key |-> "a", code |-> "no_serving_offer"]

Cheap == Selection("a", "low", "openai", 9, 1, <<Measured("high")>>)
Dear  == Selection("b", "low", "z", 10, 2, <<>>)
Free  == Selection("a", "high", "openai", 10, Null, <<Measured("low"), Unmeasured>>)

Values == [
    query |-> {[objective |-> "lowest_cost_within_top_set"],
               [objective |-> "capability_top_set", provider_ids |-> <<"z", "openai">>],
               [objective |-> "capability_top_set", provider_ids |-> <<"openai", "z">>,
                reasoning_effort |-> "low"],
               [objective |-> "lowest_cost_within_top_set", provider_ids |-> <<"openai">>,
                usage_profile |-> "default"]},
    decided_at   |-> {"monday"},
    outcome      |-> {"pick", "abstain"},
    snapshot_ids |-> {<<>>, <<"explorer_a", "explorer_b">>, <<"explorer_b", "explorer_a">>},
    families     |-> {<<Family("b", "0"), Family("a", "1")>>},
    selections   |-> {<<>>, <<Cheap>>, <<Cheap, Dear>>, <<Dear, Cheap>>, <<Free, Cheap>>},
    exclusions   |-> {<<Excluded("low"), Excluded("high")>>, <<Unnamed>>},
    abstain_reasons |-> {<<>>, <<"stale_evidence", "no_ranked_candidate">>}]

PlainDrafts == [
    query        : {q \in Values.query : "reasoning_effort" \notin DOMAIN q},
    decided_at   : Values.decided_at,
    outcome      : Values.outcome,
    snapshot_ids : Values.snapshot_ids,
    families     : Values.families,
    selections   : Values.selections,
    exclusions   : Values.exclusions \ {<<Unnamed>>},
    abstain_reasons : Values.abstain_reasons]

\* What only the Python author can write into a receipt: a pick and an abstention.
PythonDrafts ==
    LET plain == {d \in PlainDrafts :
                    /\ d.query = [objective |-> "lowest_cost_within_top_set"]
                    /\ d.snapshot_ids = <<"explorer_b", "explorer_a">>}
    IN  {[d EXCEPT !.snapshot_ids = <<"explorer_line", "explorer_a">>] :
            d \in {p \in plain : p.outcome = "pick" /\ p.selections = <<Cheap, Dear>>}}
        \cup {[d EXCEPT !.decided_at = "tuesday_in_other_digits"] :
            d \in {p \in plain : p.outcome = "abstain" /\ p.selections = <<>>}}

AllDrafts == PlainDrafts \cup PythonDrafts

\* Beside the authors' values: what only a hand writes into a document.
ByHand == [
    query        |-> {[objective |-> "capability_top_set", api |-> Null],
                      [objective |-> "capability_top_set", provider_ids |-> <<"z", "z">>],
                      [objective |-> "capability_top_set", api |-> "chat_completions"]},
    decided_at   |-> {"tuesday"},
    outcome      |-> {},
    snapshot_ids |-> {<<"explorer_a", "explorer_a">>, <<"a">>, <<"explorer_line", "explorer_a">>},
    families     |-> {<<Family("a", "1.0"), Family("b", "0")>>,
                      <<Family("a", "1"), Family("b", "0")>>,
                      <<[Family("a", "1") EXCEPT !.stale_at = "tuesday_in_other_digits"]>>},
    selections   |-> {<<Dear, Dear>>, <<[Cheap EXCEPT !.caveats = <<Measured("low")>>]>>,
                      <<[Free EXCEPT !.caveats = <<Unmeasured, Measured("low")>>], Cheap>>},
    exclusions   |-> {<<>>, <<Excluded(Null)>>, <<Excluded("low"), Excluded("low")>>,
                      <<Excluded("high"), Excluded("low")>>},
    usage_profile |-> {[basis |-> "caller", profile |-> "default"]},
    abstain_reasons |-> {}]

AllEdits == [f \in DOMAIN ByHand |->
                ByHand[f] \cup (IF f \in DOMAIN Values THEN Values[f] ELSE {})]

-------------------------------------------------------------------------------
(* Reads *)

Models == <<"model_configuration", "direct_prompt", "model-configuration-v1">>
Agents == <<"agent_system", "agentic", "agent-system-v1">>

TheCell == [cell_id |-> "code", manifest_version |-> "m", methodology_version |-> "v"]

Certain == [kind |-> "interval", level |-> 95, lower |-> 40, upper |-> 60]

Ranking(rank, top, families, caveats) ==
    [rank |-> rank, capability_score |-> 50, in_top_set |-> top, uncertainty |-> Certain,
     evidence_family_count |-> families, caveat_codes |-> caveats]

Passport(identity, name, harness, tools) ==
    [identity |-> identity, canonical_name |-> name, harness |-> harness,
     scaffold |-> harness, tools |-> tools]

Entry(name, ranking) ==
    [evaluated_configuration_id |-> ConfigurationId(Passport(Models, name, Null, <<>>)),
     ranking |-> ranking]

Ranked == <<Entry("x", Ranking(1, TRUE, 3, <<>>)), Entry("y", Ranking(2, FALSE, 3, <<>>))>>

\* A view that expires on the day expires; the leaderboard is of day 7.
View(family, expires, names, caveats, agreement) ==
    [benchmark_family_id |-> family, feed_id |-> family, metric_direction |-> "higher",
     observed_at |-> 0, expires_at |-> expires, agreement |-> agreement,
     citations |-> <<family>>,
     entries |-> [i \in DOMAIN names |-> Entry(names[i], Ranking(i, FALSE, 1, caveats))]]

Single   == <<View("a", 8, <<"x", "y">>, <<>>, "single_source")>>
Expired  == <<View("a", 7, <<"x", "y">>, <<"evidence_stale">>, "single_source")>>
Silent   == <<View("a", 7, <<"x", "y">>, <<>>, "single_source")>>
Disputed == <<View("a", 7, <<"x", "y">>, <<"evidence_stale">>, "conflicting"),
              View("b", 9, <<"y", "x">>, <<>>, "conflicting")>>
Agreed   == <<View("a", 8, <<"x", "y">>, <<>>, "promising_not_proven"),
              View("b", 9, <<"x", "y">>, <<>>, "promising_not_proven")>>
Claimed  == <<[Single[1] EXCEPT !.entries[1].ranking.in_top_set = TRUE]>>

Summary(claim, count, families, overlap, calibration, gaps) ==
    [published_claim |-> claim, rank_eligible_configuration_count |-> count,
     current_independent_family_count |-> families, required_independent_family_count |-> 3,
     current_overlap_count |-> overlap, required_overlap_count |-> 2,
     calibration_status |-> calibration, gap_codes |-> gaps]

Earned == Summary("top_set", 2, 3, 2, "validated", <<>>)
Thin   == Summary("explorer", 0, 1, 2, "unvalidated",
                  <<"calibration_unvalidated", "insufficient_independent_families",
                    "no_rank_eligible_configurations">>)
With(code) == [Thin EXCEPT !.gap_codes = Append(@, code)]

Group(id, identity, state, evidence, summary, entries, citations, views) ==
    [ranking_group_id |-> id, identity |-> identity, state |-> state,
     evidence_snapshot_id |-> evidence, eligibility_summary |-> summary,
     entries |-> entries, citations |-> citations, explorer_views |-> views]

Top == Group("g2", Models, "active", <<"snapshot", "x">>, Earned, Ranked, <<"a", "b">>, <<>>)
Explored(identity, state, summary, views) ==
    Group("g1", identity, state, <<"explorer", "x">>, summary, <<>>, <<>>, views)

AllBoards == {
    [cell_state |-> "preview", generated_at |-> 7, ranking_groups |-> groups] : groups \in {
        <<Top>>,
        <<Explored(Models, "active", With("evidence_stale"), Expired)>>,
        <<Explored(Models, "shadow", With("evidence_stale"), Disputed)>>,
        <<Explored(Agents, "preview", Thin, Agreed), Top>>,
        <<Explored(Unresolved, "preview", With("unresolved_identity"), Single)>>,
        <<Explored(Models, "quarantined", With("quarantined"), Single)>>,
        <<Explored(Agents, "preview", Thin, Claimed), Top>>}}
    \cup {[cell_state |-> "unavailable", generated_at |-> 7, ranking_groups |-> <<Top>>]}

AllReadEdits == [
    eligibility_summary |->
        {Earned, Thin, With("evidence_stale"), With("quarantined"),
         [Earned EXCEPT !.current_independent_family_count = 2],
         [Earned EXCEPT !.current_overlap_count = 1],
         [Earned EXCEPT !.calibration_status = "unvalidated"],
         [Earned EXCEPT !.rank_eligible_configuration_count = 0],
         [Thin EXCEPT !.published_claim = "top_set"]},
    evidence_snapshot_id |-> {<<"snapshot", "x">>, <<"snapshot", "y">>, <<"explorer", "y">>},
    state          |-> {"active", "quarantined"},
    identity       |-> {Agents, Unresolved},
    entries        |-> {<<>>, Ranked, <<Ranked[2], Ranked[1]>>, <<Ranked[1], Ranked[1]>>},
    citations      |-> {<<>>, <<"a">>},
    explorer_views |-> {<<>>, Single, Expired, Silent, Disputed, Claimed},
    explorer_view  |-> {Null, [benchmark_family_id |-> "b", feed_id |-> "b"]},
    generated_at   |-> {8}]

AllManifests == [
    cells : {<<"code", "agents">>},
    ranking_groups : SUBSET {[id |-> 1, cell_id |-> "code", state |-> "active"],
                             [id |-> 2, cell_id |-> "code", state |-> "quarantined"]},
    benchmark_families : {{[id |-> 1, candidate_cells |-> {"code", "agents"}]}},
    feeds : SUBSET [feed_id : {"a"}, candidate_cells : {{"code", "agents"}},
                    state : {"quarantined", "shadow", "active"},
                    rank_eligible_count : {Null, 0, 1}]]

-------------------------------------------------------------------------------
(* Records of evidence *)

Configuration(passport) ==
    [object |-> "evaluated_configuration", passport |-> passport,
     evaluated_configuration_id |-> ConfigurationId(passport)]

Input(role, artifact) == [role |-> role, source_artifact_id |-> artifact]

Decimal(digits, scale) == [digits |-> digits, scale |-> scale]

Proportion(value, numerator, denominator) ==
    [kind |-> "proportion", value |-> value, numerator |-> numerator,
     denominator |-> denominator]

Observation(metric, uncertainty) ==
    [object |-> "observation", observation_id |-> "a", metric |-> metric,
     uncertainty |-> uncertainty,
     provenance |-> [source_artifacts |-> <<Input("a", "x"), Input("primary", "y")>>,
                     started_at |-> 1, completed_at |-> 1,
                     trial_policy |-> [attempts_per_item |-> 1, seed_strategy |-> "fixed",
                                       seed |-> 7]]]

UnknownBound == [kind |-> "unknown"]
Interval(low, high) == [kind |-> "interval", low |-> low, high |-> high,
                        confidence_level |-> Decimal(95, 2)]

AllRecords ==
    {[object |-> "source_artifact", source_artifact_id |-> <<"artifact", "x">>,
      content_sha256 |-> "x", canonical_url |-> "a"],
     Configuration(Passport(Models, "x", Null, <<"b", "a">>)),
     Configuration(Passport(Agents, "x", "z", <<>>)),
     [object |-> "aggregation_input", methodology_version |-> "v", ranking_group |-> <<"a", "b", "x", "y">>,
      observation_ids |-> <<"b", "a">>],
     [object |-> "capability_fingerprint", id_scheme |-> "a", canonical_id |-> "x",
      entity_kind |-> "b", declared_capability_shape |-> [a |-> "x", b |-> "y"]],
     [object |-> "raw_entry", source |-> "a", source_id |-> "b", entity_kind |-> "b",
      canonical_id |-> "x", raw_metadata |-> <<>>, fetched_at |-> 1,
      declared_capability_shape |-> [a |-> "x", b |-> "y"]],
     Observation(Proportion(Decimal(5, 1), 1, 2), Interval(Decimal(0, 0), Decimal(5, 1))),
     Observation(Proportion(Decimal(33, 2), 1, 3), UnknownBound),
     Observation([kind |-> "continuous", value |-> Decimal(12, 1), n_items |-> Null],
                 [kind |-> "standard_error", value |-> Decimal(1, 1)]),
     Observation([kind |-> "pass_at_k", value |-> Decimal(1, 0), k |-> 1,
                  successful_items |-> 3, evaluated_items |-> 3], UnknownBound),
     Observation([kind |-> "pairwise_preference", value |-> Decimal(1200, 0),
                  scale |-> "elo", comparison_count |-> 9], UnknownBound),
     Observation([kind |-> "rank_only", rank |-> 2, candidate_count |-> 2], UnknownBound)}

AllRecordEdits == [
    tools           |-> {<<"a", "b">>, <<"a">>, <<"a", "a">>},
    identity        |-> {Models, Agents},
    harness         |-> {Null, "z"},
    canonical_name  |-> {"y"},
    observation_ids |-> {<<"a", "b">>, <<"a">>, <<"a", "b", "x">>, <<"b", "b">>},
    ranking_group   |-> {<<"b", "a", "x", "y">>, <<"a", "b">>},
    methodology_version |-> {"w"},
    value       |-> {Decimal(d, s) : d \in 0 .. 10, s \in 0 .. 1}
                        \cup {Decimal(n, 2) : n \in {17, 33, 34, 50, 66, 67, 99}},
    numerator   |-> 0 .. 4,
    denominator |-> {1, 3, 6, 7, 9, 10},
    uncertainty |-> {Interval(Decimal(3, 1), Decimal(4, 1)), UnknownBound},
    source_artifacts |-> {<<Input("primary", "y"), Input("a", "x")>>,
                          <<Input("a", "x"), Input("primary", "x")>>},
    trial_policy |-> {Null, [attempts_per_item |-> 1, seed_strategy |-> "derived", seed |-> 7]},
    completed_at |-> {0},
    content_sha256     |-> {"y"},
    source_artifact_id |-> {<<"artifact", "y">>},
    canonical_url      |-> {"b"},
    canonical_id       |-> {"y"},
    fetched_at         |-> {2},
    raw_metadata       |-> {[a |-> "x"], [a |-> "1.0"]},
    declared_capability_shape |-> {[b |-> "y", a |-> "x"], [a |-> "x"], [a |-> "1.0"], <<>>}]

-------------------------------------------------------------------------------
(* Costs *)

AllSchedules == [
    uncached_input : {0, 3}, cached_read : {Null, 7}, output : {5},
    cache_write_rates : {<<>>, 3 :> 4, 3 :> 4 @@ 6 :> 9},
    cache_storage : {Null, 11},
    observed_at : {1}, effective_at : {2}, expires_at : {2, 3}]

AllUsages == [
    uncached_input_tokens : {0, 4}, cached_read_tokens : {0, 3}, output_tokens : {0, 2},
    cache_writes : {<<>>, 3 :> 1, 6 :> 2},
    cache_storage_token_seconds : {0, 7}]
===============================================================================
