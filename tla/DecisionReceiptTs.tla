--------------------------- MODULE DecisionReceiptTs --------------------------
(***************************************************************************)
(* The same receipt in the TypeScript SDK: parseDecisionReceiptV2 and      *)
(* receiptId.  Every definition is that of decision-contracts.ts.          *)
(***************************************************************************)
EXTENDS PortableJson

QueryOptional == {"provider_ids", "api", "reasoning_effort", "usage_profile"}

ParsesQuery(q) ==
    /\ \A name \in QueryOptional : Has(q, name) => q[name] # Null
    /\ Has(q, "provider_ids") => Unique(q.provider_ids, Text) /\ q.provider_ids # <<>>

ParseQuery(q) ==
    IF Has(q, "provider_ids") THEN [q EXCEPT !.provider_ids = SortedBy(@, Text)] ELSE q

DecisionUsageFor(q) ==
    IF Has(q, "usage_profile") THEN [basis |-> "caller", profile |-> q.usage_profile]
    ELSE [basis |-> "default_agent_task_mix", profile |-> "default"]

CaveatKey(c) == Text(c.code)

ParsesSelection(s) ==
    LET unmeasured == \E k \in DOMAIN s.caveats : s.caveats[k].code = "cost_unmeasured"
    IN  /\ Unique(s.caveats, CaveatKey)
        /\ (s.cost = Null) = unmeasured
        /\ ~(s.cost # Null /\ s.multiplier = Null)
        /\ ~\E k \in DOMAIN s.caveats : /\ s.caveats[k].code = "effort_substituted"
                                        /\ s.caveats[k].measured_effort = s.reasoning_effort

\* parseSelection: what it returns.
ParseSelection(s) == [s EXCEPT !.caveats = SortedBy(@, CaveatKey)]

\* JSON.parse reads 1.0 as 1.
ParseFamily(f) == [f EXCEPT !.weight_ppm = IF @ = "1.0" THEN "1" ELSE @]

\* enumValue and typeof refuse a null.
ParsesExclusion(e) ==
    /\ Has(e, "reasoning_effort") => e.reasoning_effort # Null
    /\ Has(e, "detail") => e.detail # Null

ExclusionKey(e) ==
    <<e.model_key, IF Has(e, "reasoning_effort") THEN e.reasoning_effort ELSE "", e.code>>

FamilyKey(f) == Text(f.family_id)

\* normalizeReceiptBody: what it returns.
Normalized(b) ==
    [b EXCEPT !.query        = ParseQuery(@),
              !.snapshot_ids = SortedBy(@, Text),
              !.families     = SortedBy([k \in DOMAIN @ |-> ParseFamily(@[k])], FamilyKey),
              !.selections   = [k \in DOMAIN @ |-> ParseSelection(@[k])],
              !.exclusions   = SortedBy(@, ExclusionKey),
              !.abstain_reasons = SortedBy(@, Text)]

\* Mutant: the providers the query names are not looked at.
PicksAnyProvider(q, s) ==
    /\ Has(q, "reasoning_effort") => s.reasoning_effort = q.reasoning_effort
    /\ Has(q, "api") => s.api = q.api

\* The filters a query puts on every selection.
Admits(q, s) ==
    /\ Has(q, "reasoning_effort") => s.reasoning_effort = q.reasoning_effort
    /\ Has(q, "api") => s.api = q.api
    /\ Has(q, "provider_ids") => \E p \in DOMAIN q.provider_ids : q.provider_ids[p] = s.provider_id

\* validatePick
PickIsValid(b) ==
    LET rows == {b.selections[k] : k \in DOMAIN b.selections}
        pick == b.selections[1]
    IN  /\ rows # {} /\ b.abstain_reasons = <<>> /\ b.snapshot_ids # <<>>
        /\ \A s \in rows : Admits(b.query, s)
        /\ b.query.objective = "lowest_cost_within_top_set" =>
              /\ \A s \in rows : s.cost # Null
              /\ \A s \in rows : pick.cost <= s.cost
        /\ b.query.objective # "lowest_cost_within_top_set" =>
              \A s \in rows : pick.ratio >= s.ratio

Configuration(s) == <<s.serving_offer_id, s.reasoning_effort>>

\* timestamp, and the pattern of a snapshot id.
MatchesPatterns(b) ==
    LET timestamps == Timestamps \ PythonOnly
    IN  /\ b.decided_at \in timestamps
        /\ Range(b.snapshot_ids) \subseteq SnapshotIds \ PythonOnly
        /\ \A k \in DOMAIN b.families :
              b.families[k].stale_at # Null => b.families[k].stale_at \in timestamps

\* normalizeReceiptBody: where it does not throw.
Parses(b) ==
    /\ ParsesQuery(b.query)
    /\ MatchesPatterns(b)
    /\ \A k \in DOMAIN b.selections : ParsesSelection(b.selections[k])
    /\ Unique(b.selections, Configuration)
    /\ Unique(b.snapshot_ids, Text)
    /\ Unique(b.families, FamilyKey)
    /\ \A k \in DOMAIN b.exclusions : ParsesExclusion(b.exclusions[k])
    /\ Unique(b.exclusions, ExclusionKey)
    /\ Unique(b.abstain_reasons, Text)
    /\ b.usage_profile = DecisionUsageFor(b.query)
    /\ b.outcome = "pick" => PickIsValid(b)
    /\ b.outcome # "pick" => b.selections = <<>> /\ b.abstain_reasons # <<>>

\* parseDecisionReceiptV2
Parse(doc) ==
    IF Parses(doc.body) /\ doc.receipt_id = Hash(Normalized(doc.body))
    THEN [receipt_id |-> doc.receipt_id, body |-> Normalized(doc.body)]
    ELSE Rejected

\* receiptId, for a body that parses.
ReceiptId(b) == Hash(Normalized(b))
===============================================================================
