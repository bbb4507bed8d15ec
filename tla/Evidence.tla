------------------------------- MODULE Evidence -------------------------------
(***************************************************************************)
(* The records evidence is made of (decision_contracts.py): observations   *)
(* with their metrics, uncertainties and provenance, configurations named  *)
(* by the hash of their passports, the input of an aggregation             *)
(* (aggregation_identity.py), and what discovery finds (contracts.py).     *)
(*                                                                         *)
(* A decimal is [digits, scale], digits / 10^scale.  Non-empty texts,      *)
(* links, media types and patterns of ids are not modelled.                *)
(***************************************************************************)
EXTENDS PortableJson

CONSTANT RatioDigits  \* fractional digits a ratio needs when it is not exact

ASSUME EvidenceAssumption == RatioDigits \in Nat

IDENTITY_TRIPLES == {
    <<"model_configuration", "direct_prompt", "model-configuration-v1">>,
    <<"agent_system", "agentic", "agent-system-v1">>,
    <<"system_configuration", "system", "system-configuration-v1">>,
    <<"component_configuration", "retrieval", "component-configuration-v1">>,
    <<"arena_system", "crowd_pairwise", "arena-system-v1">>}

-------------------------------------------------------------------------------
(* Numbers *)

\* A function, because proofs take it apart.
PowerOfTen[n \in Nat] == IF n = 0 THEN 1 ELSE 10 * PowerOfTen[n - 1]

\* The canonical spelling, which has no trailing zero after the point.
IsDecimal(d) ==
    /\ d.digits \in Int /\ d.scale \in Nat
    /\ d.scale # 0 => d.digits % 10 # 0

AtMost(a, b) == a.digits * PowerOfTen[b.scale] <= b.digits * PowerOfTen[a.scale]

Whole(n) == [digits |-> n, scale |-> 0]

InUnitInterval(d) == IsDecimal(d) /\ AtMost(Whole(0), d) /\ AtMost(d, Whole(1))

NullOrAtLeast(n, least) == n # Null => n >= least

ValidCountPair(numerator, denominator) ==
    /\ numerator = Null <=> denominator = Null
    /\ numerator # Null => denominator \in Nat \ {0} /\ numerator \in 0 .. denominator

RoundHalfEven(numerator, denominator) ==
    LET quotient == numerator \div denominator
        twice    == 2 * (numerator % denominator)
    IN IF twice > denominator \/ (twice = denominator /\ quotient % 2 = 1)
       THEN quotient + 1 ELSE quotient

\* Mutant: a ratio may be rounded to any number of digits.
IsRatioOfAnyScale(value, numerator, denominator) ==
    value.digits = RoundHalfEven(numerator * PowerOfTen[value.scale], denominator)

IsRoundedRatio(value, numerator, denominator) ==
    /\ value.digits * denominator # numerator * PowerOfTen[value.scale]
          => value.scale >= RatioDigits
    /\ value.digits = RoundHalfEven(numerator * PowerOfTen[value.scale], denominator)

-------------------------------------------------------------------------------
(* Observations *)

ValidMetric(m) ==
    CASE m.kind = "proportion" ->
            /\ InUnitInterval(m.value)
            /\ ValidCountPair(m.numerator, m.denominator)
            /\ m.numerator # Null => IsRoundedRatio(m.value, m.numerator, m.denominator)
      [] m.kind = "continuous" -> IsDecimal(m.value) /\ NullOrAtLeast(m.n_items, 1)
      [] m.kind = "pass_at_k" ->
            /\ InUnitInterval(m.value) /\ m.k >= 1
            /\ ValidCountPair(m.successful_items, m.evaluated_items)
      [] m.kind = "pairwise_preference" ->
            /\ IsDecimal(m.value) /\ NullOrAtLeast(m.comparison_count, 1)
            /\ m.scale = "probability" => InUnitInterval(m.value)
      [] m.kind = "rank_only" -> m.rank >= 1 /\ NullOrAtLeast(m.candidate_count, m.rank)
      [] OTHER -> FALSE

ValidUncertainty(u) ==
    CASE u.kind = "unknown" -> TRUE
      [] u.kind = "standard_error" -> IsDecimal(u.value) /\ AtMost(Whole(0), u.value)
      [] u.kind = "interval" ->
            /\ IsDecimal(u.low) /\ IsDecimal(u.high) /\ AtMost(u.low, u.high)
            /\ InUnitInterval(u.confidence_level) /\ u.confidence_level.digits > 0
      [] OTHER -> FALSE

ValidTrialPolicy(policy) ==
    /\ policy.attempts_per_item >= 1
    /\ policy.seed_strategy \in {"fixed", "derived", "upstream"}
    /\ policy.seed_strategy = "fixed" <=> policy.seed # Null

ValidSourceArtifact(a) == a.source_artifact_id = <<"artifact", a.content_sha256>>

Role(input) == Text(input.role)

ValidProvenance(p) ==
    /\ p.source_artifacts # <<>>
    /\ p.source_artifacts = SortedBy(p.source_artifacts, Role)
    /\ Unique(p.source_artifacts, Role)
    /\ Unique(p.source_artifacts, LAMBDA input : input.source_artifact_id)
    /\ \E input \in Range(p.source_artifacts) : input.role = "primary"
    /\ p.completed_at >= p.started_at
    /\ p.trial_policy # Null => ValidTrialPolicy(p.trial_policy)

ValidObservation(o) ==
    /\ ValidMetric(o.metric) /\ ValidUncertainty(o.uncertainty) /\ ValidProvenance(o.provenance)
    /\ o.metric.kind = "rank_only" => o.uncertainty.kind = "unknown"
    /\ o.uncertainty.kind = "interval" /\ Has(o.metric, "value") =>
          AtMost(o.uncertainty.low, o.metric.value) /\ AtMost(o.metric.value, o.uncertainty.high)

-------------------------------------------------------------------------------
(* Configurations *)

ValidPassport(p) ==
    /\ p.identity \in IDENTITY_TRIPLES
    /\ p.identity[1] = "agent_system" => p.harness # Null /\ p.scaffold # Null
    /\ IsInjective(p.tools)

NormalPassport(p) == [p EXCEPT !.tools = SortedBy(@, Text)]

ConfigurationId(passport) == Hash(NormalPassport(passport))

\* EvaluatedConfigurationV1.from_dict: what it takes, and the value it makes of it.
IsConfiguration(c) ==
    ValidPassport(c.passport) /\ c.evaluated_configuration_id = ConfigurationId(c.passport)

ReadConfiguration(c) ==
    IF IsConfiguration(c) THEN [c EXCEPT !.passport = NormalPassport(@)] ELSE Rejected

-------------------------------------------------------------------------------
(* Aggregations *)

ValidInput(input) ==
    /\ input.observation_ids # <<>> /\ IsInjective(input.observation_ids)
    /\ Len(input.ranking_group) = 4

\* Mutant: the ids stay in the order in which the observations arrived.
InputAsItArrived(input) == input

\* aggregation_input_document: the ids are a set, the ranking group is in order.
InputDocument(input) == [input EXCEPT !.observation_ids = SortedBy(@, Text)]

InputDigest(input) == IF ValidInput(input) THEN Hash(InputDocument(input)) ELSE Rejected

\* Which resamples the bootstrap draws: the seed's other 11 bits are masked away.
BootstrapSeed(input) ==
    Hash([aggregation_input_digest |-> InputDigest(input),
          methodology_version      |-> input.methodology_version])

-------------------------------------------------------------------------------
(* Discovery *)

\* A float passes the constructors' tests and has no canonical text; metadata may be empty.
HasNoFloat(shape) == "1.0" \notin Range(shape)

\* CapabilityFingerprintInput.
Fingerprint(input) ==
    IF input.declared_capability_shape # <<>> /\ HasNoFloat(input.declared_capability_shape)
    THEN Hash([f \in {"id_scheme", "canonical_id", "entity_kind", "declared_capability_shape"}
                  |-> input[f]])
    ELSE Rejected

\* RawEntry: when it was fetched is not part of its content.
ContentHash(entry) ==
    IF /\ entry.declared_capability_shape # <<>>
       /\ HasNoFloat(entry.declared_capability_shape) /\ HasNoFloat(entry.raw_metadata)
    THEN Hash([f \in {"source", "source_id", "entity_kind", "canonical_id", "raw_metadata",
                      "declared_capability_shape"} |-> entry[f]])
    ELSE Rejected
===============================================================================
