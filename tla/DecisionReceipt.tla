---------------------------- MODULE DecisionReceipt ---------------------------
(***************************************************************************)
(* DecisionReceiptV2 of evalrank_core: how a receipt is created, written   *)
(* and read in Python.                                                     *)
(*                                                                         *)
(* A body is the record of a receipt's fields but receipt_id; an object is *)
(* [receipt_id, body], and so is a document on the wire.                   *)
(* Of a selection, ratio is capability_ratio_ppm, cost is                  *)
(* projected_cost_microusd and multiplier is effort_multiplier.            *)
(***************************************************************************)
EXTENDS PortableJson

QueryOptional == {"provider_ids", "api", "reasoning_effort", "usage_profile"}

\* from_dict: no null.  __post_init__: a set is unique and not empty.
ValidQuery(q) ==
    /\ \A f \in DOMAIN q \cap QueryOptional : q[f] # Null
    /\ Has(q, "provider_ids") => q.provider_ids # <<>> /\ Unique(q.provider_ids, Text)

NormalQuery(q) ==
    [f \in DOMAIN q |-> IF f = "provider_ids" THEN SortedBy(q[f], Text) ELSE q[f]]

UsageFor(q) ==
    IF Has(q, "usage_profile") THEN [basis |-> "caller", profile |-> q.usage_profile]
    ELSE [basis |-> "default_agent_task_mix", profile |-> "default"]

CaveatKey(c) == Text(c.code)

ValidSelection(s) ==
    /\ Unique(s.caveats, CaveatKey)
    /\ s.cost = Null <=> \E k \in DOMAIN s.caveats : s.caveats[k].code = "cost_unmeasured"
    /\ s.cost # Null => s.multiplier # Null
    /\ \A k \in DOMAIN s.caveats :
          s.caveats[k].code = "effort_substituted" =>
              s.caveats[k].measured_effort # s.reasoning_effort

\* Mutant: the caveats stay in the order in which they were written.
CaveatsAsWritten(s) == s

NormalSelection(s) == [s EXCEPT !.caveats = SortedBy(@, CaveatKey)]

\* A null is what the dataclass has for a field that was not sent.
NormalExclusion(e) == [f \in {g \in DOMAIN e : e[g] # Null} |-> e[f]]

\* sort_key
ExclusionKey(e) ==
    <<e.model_key, IF Has(e, "reasoning_effort") THEN e.reasoning_effort ELSE "", e.code>>

FamilyKey(f) == Text(f.family_id)

\* What the constructors of the parts make of them.
Objects(b) ==
    [b EXCEPT !.query      = NormalQuery(@),
              !.selections = [k \in DOMAIN @ |-> NormalSelection(@[k])],
              !.exclusions = [k \in DOMAIN @ |-> NormalExclusion(@[k])]]

\* What __post_init__ makes of the parts.
Normal(b) ==
    [Objects(b) EXCEPT !.snapshot_ids = SortedBy(@, Text),
                       !.families     = SortedBy(@, FamilyKey),
                       !.exclusions   = SortedBy(@, ExclusionKey),
                       !.abstain_reasons = SortedBy(@, Text)]

\* to_body_dict sorts once more, for create calls it before __post_init__ has run.
BodyDict(o) ==
    [o EXCEPT !.snapshot_ids = SortedBy(@, Text),
              !.families     = SortedBy(@, FamilyKey),
              !.exclusions   = SortedBy(@, ExclusionKey),
              !.abstain_reasons = SortedBy(@, Text)]

Configuration(s) == <<s.serving_offer_id, s.reasoning_effort>>

Costs(b) == {b.selections[k].cost : k \in DOMAIN b.selections}

\* The pick comes first and is the best one under the query's objective.
PickIsBest(b) ==
    IF b.query.objective = "lowest_cost_within_top_set"
    THEN Null \notin Costs(b) /\ \A c \in Costs(b) : b.selections[1].cost <= c
    ELSE \A k \in DOMAIN b.selections : b.selections[k].ratio <= b.selections[1].ratio

\* _validate_pick
ValidPick(b) ==
    /\ b.selections # <<>> /\ b.abstain_reasons = <<>> /\ b.snapshot_ids # <<>>
    /\ \A k \in DOMAIN b.selections :
          LET s == b.selections[k]
          IN  /\ Has(b.query, "reasoning_effort") =>
                     s.reasoning_effort = b.query.reasoning_effort
              /\ Has(b.query, "api") => s.api = b.query.api
              /\ Has(b.query, "provider_ids") =>
                     \E p \in DOMAIN b.query.provider_ids :
                         b.query.provider_ids[p] = s.provider_id
    /\ PickIsBest(b)

\* _parse_timestamp, and _SNAPSHOT_ID_RE.
MatchesPatterns(b) ==
    /\ b.decided_at \in Timestamps
    /\ \A k \in DOMAIN b.snapshot_ids : b.snapshot_ids[k] \in SnapshotIds
    /\ \A k \in DOMAIN b.families : b.families[k].stale_at \in Timestamps \cup {Null}

ValidBody(b) ==
    /\ ValidQuery(b.query)
    /\ MatchesPatterns(b)
    /\ Unique(b.snapshot_ids, Text)
    /\ \A k \in DOMAIN b.families : b.families[k].weight_ppm # "1.0"
    /\ Unique(b.families, FamilyKey)
    /\ \A k \in DOMAIN b.selections : ValidSelection(b.selections[k])
    /\ Unique(b.selections, Configuration)
    /\ Unique([k \in DOMAIN b.exclusions |-> NormalExclusion(b.exclusions[k])], ExclusionKey)
    /\ b.usage_profile = UsageFor(b.query)
    /\ Unique(b.abstain_reasons, Text)
    /\ IF b.outcome = "pick" THEN ValidPick(b)
       ELSE b.selections = <<>> /\ b.abstain_reasons # <<>>

\* from_dict, __post_init__ and, of the object it makes, to_dict.
FromDict(doc) ==
    LET body == BodyDict(Normal(doc.body))
    IN  IF ValidBody(doc.body) /\ doc.receipt_id = Hash(body)
        THEN [receipt_id |-> doc.receipt_id, body |-> body]
        ELSE Rejected

\* create: the author gives every field but the usage and the id, which is the hash of
\* the parts as they were given.
Create(fields) ==
    LET b == Joined([usage_profile |-> UsageFor(fields.query)], fields)
    IN  FromDict([receipt_id |-> Hash(BodyDict(Objects(b))), body |-> b])
===============================================================================
