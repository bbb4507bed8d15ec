---------------------------- MODULE EvidenceRecords ---------------------------
(***************************************************************************)
(* A record of evidence is made, and copied, reordered and edited on its   *)
(* way to a reader, who identifies it anew.                                *)
(***************************************************************************)
EXTENDS Evidence

CONSTANTS MadeRecords,   \* the records that may be made
          RecordEdits,   \* the values a hand may write into each field
          MaxRecordEdits

\* The fields of each kind of record, as its constructor takes them.
Fields(object) ==
    CASE object = "source_artifact" ->
            {"object", "source_artifact_id", "content_sha256", "canonical_url"}
      [] object = "evaluated_configuration" ->
            {"object", "passport", "evaluated_configuration_id"}
      [] object = "aggregation_input" ->
            {"object", "methodology_version", "ranking_group", "observation_ids"}
      [] object = "capability_fingerprint" ->
            {"object", "id_scheme", "canonical_id", "entity_kind", "declared_capability_shape"}
      [] object = "raw_entry" ->
            {"object", "source", "source_id", "entity_kind", "canonical_id", "raw_metadata",
             "declared_capability_shape", "fetched_at"}
      [] OTHER ->
            {"object", "observation_id", "metric", "uncertainty", "provenance"}

PassportFields == {"identity", "canonical_name", "harness", "scaffold", "tools"}

MetricFields(kind) ==
    CASE kind = "proportion"          -> {"kind", "value", "numerator", "denominator"}
      [] kind = "continuous"          -> {"kind", "value", "n_items"}
      [] kind = "pass_at_k"           -> {"kind", "value", "k", "successful_items",
                                          "evaluated_items"}
      [] kind = "pairwise_preference" -> {"kind", "value", "scale", "comparison_count"}
      [] OTHER                        -> {"kind", "rank", "candidate_count"}

IsRecord(r) ==
    /\ Has(r, "object") /\ r = [f \in Fields(r.object) |-> r[f]]
    /\ r.object = "evaluated_configuration" =>
          r.passport = [f \in PassportFields |-> r.passport[f]] /\ r.passport.tools \in Seq(Texts)
    /\ r.object = "aggregation_input" => r.observation_ids \in Seq(Texts)
    /\ r.object = "observation" => r.metric = [f \in MetricFields(r.metric.kind) |-> r.metric[f]]

\* A hand writes texts where a list of texts is, and makes no other kind of record of one.
ASSUME EvidenceRecordsAssumption ==
    /\ \A r \in MadeRecords :
          /\ IsRecord(r)
          /\ r.object \in {"source_artifact", "evaluated_configuration", "aggregation_input",
                           "capability_fingerprint", "raw_entry", "observation"}
    /\ \A f \in DOMAIN RecordEdits : f \notin {"object", "passport", "metric", "provenance", "kind"}
    /\ \A f \in DOMAIN RecordEdits \cap {"tools", "observation_ids"} :
          \A v \in RecordEdits[f] : v \in Seq(Texts)

VARIABLES made,        \* the record as it was made, or Null
          copy,        \* the record as the reader has it, or Null
          recordEdits  \* changes made to the copy so far

recordVars == <<made, copy, recordEdits>>

RecordsInit == made = Null /\ copy = Null /\ recordEdits = 0

\* What a reader knows a record by; an observation has an id of its own.
Identity(record) ==
    CASE record.object = "source_artifact" ->
            IF ValidSourceArtifact(record) THEN record.source_artifact_id ELSE Rejected
      [] record.object = "evaluated_configuration" ->
            IF ReadConfiguration(record) = Rejected THEN Rejected
            ELSE ReadConfiguration(record).evaluated_configuration_id
      [] record.object = "aggregation_input" ->
            IF InputDigest(record) = Rejected THEN Rejected ELSE BootstrapSeed(record)
      [] record.object = "capability_fingerprint" -> Fingerprint(record)
      [] record.object = "raw_entry" -> ContentHash(record)
      [] OTHER -> IF ValidObservation(record) THEN record.observation_id ELSE Rejected

Make(record) ==
    /\ made = Null /\ Identity(record) # Rejected
    /\ made' = record /\ copy' = record
    /\ UNCHANGED recordEdits

ChangeCopy ==
    /\ made # Null /\ recordEdits < MaxRecordEdits
    /\ recordEdits' = recordEdits + 1
    /\ UNCHANGED made

\* A field of the record, or of its passport, metric or provenance.
EditCopy(field, value) ==
    /\ ChangeCopy
    /\ \/ Has(copy, field) /\ copy' = [copy EXCEPT ![field] = value]
       \/ \E part \in DOMAIN copy \cap {"passport", "metric", "provenance"} :
             Has(copy[part], field) /\ copy' = [copy EXCEPT ![part][field] = value]

\* The editor names the configuration anew.
Rename ==
    /\ made # Null /\ copy.object = "evaluated_configuration"
    /\ copy' = [copy EXCEPT !.evaluated_configuration_id = ConfigurationId(copy.passport)]
    /\ UNCHANGED <<made, recordEdits>>

RecordsNext ==
    \/ \E r \in MadeRecords : Make(r)
    \/ \E f \in DOMAIN RecordEdits : \E v \in RecordEdits[f] : EditCopy(f, v)
    \/ Rename
-------------------------------------------------------------------------------
\* What a record says: tools and observations have no order, an artifact is its content,
\* and a discovered entry is what was found, not when.
Meaning(record) ==
    CASE record.object = "source_artifact"         -> record.content_sha256
      [] record.object = "evaluated_configuration" -> [record.passport EXCEPT !.tools = Range(@)]
      [] record.object = "aggregation_input" -> [record EXCEPT !.observation_ids = Range(@)]
      [] record.object = "raw_entry"         -> [record EXCEPT !.fetched_at = Null]
      [] OTHER                               -> record

\* A configuration's id, an artifact's, an entry's hash, an aggregation's digest and so the
\* seed of its bootstrap are the same for every copy that says what was made, in any order,
\* and for no other copy.
RecordIsItsIdentity ==
    made # Null /\ made.object # "observation" =>
        (Identity(copy) # Rejected =>
            (Identity(copy) = Identity(made) <=> Meaning(copy) = Meaning(made)))

\* The rule for ratios (decision_contracts.py:1746) lets a reader recover the count: at
\* the accepted value and a denominator of up to 10^RatioDigits, no other numerator would
\* have been accepted.
CountsAreRecoverable ==
    LET m == copy.metric
    IN made # Null /\ made.object = "observation" /\ Identity(copy) # Rejected =>
        (m.kind = "proportion" /\ m.numerator # Null /\ m.denominator <= PowerOfTen[RatioDigits] =>
            \A n \in 0 .. m.denominator :
                ValidMetric([m EXCEPT !.numerator = n]) => n = m.numerator)
===============================================================================
