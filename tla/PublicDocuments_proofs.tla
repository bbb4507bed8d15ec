------------------------ MODULE PublicDocuments_proofs ------------------------
(***************************************************************************)
(* Proofs about the public documents beside receipts: records of evidence, *)
(* reads and costs, for any records, leaderboards, usages and edits; and   *)
(* that what is proved of receipts holds where all kinds are looked at.    *)
(***************************************************************************)
EXTENDS PublicDocuments, Publication_proofs

allVars == <<vars, readVars, recordVars, quoteVars>>

-------------------------------------------------------------------------------
(* Receipts *)

(***************************************************************************)
(* The other documents leave the receipts alone, so that all that is       *)
(* proved of receipts holds of the public documents.                       *)
(***************************************************************************)
LEMMA ReceiptsAlone == DocumentsSpec => Spec
<1>1. DocumentsInit => Init
  BY DEF DocumentsInit
<1>2. [DocumentsNext]_<<vars, readVars, recordVars, quoteVars>> => [Next]_vars
  BY DEF DocumentsNext, Receipts, Reads, Records, Quotes, NoReceipt
<1> QED
  BY <1>1, <1>2, PTL DEF DocumentsSpec, Spec

(***************************************************************************)
(* The public documents: whatever else is published and read beside them,  *)
(* receipts keep their identity, and the two readers differ on documents   *)
(* and on receipts that are handed on only where their spellings do.       *)
(***************************************************************************)
THEOREM ReceiptsTheorem ==
    DocumentsSpec => [](IdentityIsWhatItSays /\ TwinsAgree /\ ForwardedIsAccepted)
  BY ReceiptsAlone, IdentityTheorem, TwinsTheorem, ForwardedTheorem, PTL
-------------------------------------------------------------------------------
(* Records of evidence *)

(***************************************************************************)
(* Of two records with the same fields one field is replaced: they become  *)
(* equal exactly if the new values and all the other fields are.           *)
(***************************************************************************)
LEMMA OneFieldReplaced ==
    ASSUME NEW F, NEW g \in F, NEW x, NEW y,
           NEW p, p = [f \in F |-> p[f]], NEW q, q = [f \in F |-> q[f]]
    PROVE  [p EXCEPT ![g] = x] = [q EXCEPT ![g] = y]
              <=> x = y /\ \A f \in F \ {g} : p[f] = q[f]
<1> DEFINE u == [p EXCEPT ![g] = x]
           v == [q EXCEPT ![g] = y]
<1>1. /\ u = [f \in F |-> u[f]] /\ u[g] = x /\ \A f \in F \ {g} : u[f] = p[f]
      /\ v = [f \in F |-> v[f]] /\ v[g] = y /\ \A f \in F \ {g} : v[f] = q[f]
  OBVIOUS
<1> HIDE DEF u, v
<1>2. u = v => x = y /\ \A f \in F \ {g} : p[f] = q[f]
  BY <1>1
<1>3. ASSUME x = y, \A f \in F \ {g} : p[f] = q[f] PROVE u = v
  <2>1. \A f \in F : u[f] = v[f]
    BY <1>1, <1>3
  <2> QED
    BY <1>1, <2>1
<1> QED
  BY <1>2, <1>3 DEF u, v

(***************************************************************************)
(* Tools and observation ids: a sorted list of texts says just which texts *)
(* are in it.                                                              *)
(***************************************************************************)
LEMMA TextsInOrder ==
    ASSUME NEW s \in Seq(Texts), IsInjective(s), NEW t \in Seq(Texts), IsInjective(t)
    PROVE  SortedBy(s, Text) = SortedBy(t, Text) <=> Range(s) = Range(t)
<1>1. ASSUME NEW u \in Seq(Texts), IsInjective(u)
      PROVE  SortedBy(u, Text) = Arranged(u, textKey) /\ Distinct(u, textKey)
  <2>1. \A i \in DOMAIN u : u[i] \in Texts
    OBVIOUS
  <2>2. \A i \in DOMAIN u : Text(u[i]) = textKey[u[i]] /\ textKey[u[i]] = <<u[i]>>
    BY <2>1 DEF Text, textKey
  <2>3. [i \in DOMAIN u |-> Text(u[i])] = [i \in DOMAIN u |-> textKey[u[i]]]
    BY <2>2
  <2>4. \A i, j \in DOMAIN u : u[i] = u[j] => i = j
    BY <1>1 DEF IsInjective
  <2>5. SortedBy(u, Text) = Arranged(u, textKey)
    BY <2>3 DEF SortedBy, Arranged
  <2>6. \A i, j \in DOMAIN u : textKey[u[i]] = textKey[u[j]] => u[i] = u[j]
    BY <2>2
  <2> QED
    BY <2>4, <2>5, <2>6 DEF Distinct
<1>2. /\ SortedBy(s, Text) = Arranged(s, textKey) /\ Distinct(s, textKey)
      /\ SortedBy(t, Text) = Arranged(t, textKey) /\ Distinct(t, textKey)
  BY <1>1
<1> QED
  BY <1>2, SetsAreSorted DEF Forgets

(***************************************************************************)
(* Of two records of one kind that a reader accepts: they are known by one *)
(* name exactly if they say the same.                                      *)
(***************************************************************************)
LEMMA HashIsInjective ==
    ASSUME NEW b, NEW c
    PROVE  Hash(b) = Hash(c) <=> b = c
  BY HashesDiffer

LEMMA ArtifactsByContent ==
    ASSUME NEW r, NEW s, r.object = "source_artifact", s.object = "source_artifact",
           Identity(r) # Rejected, Identity(s) # Rejected
    PROVE  Identity(r) = Identity(s) <=> Meaning(r) = Meaning(s)
  BY DEF Identity, Meaning, ValidSourceArtifact

LEMMA ConfigurationsByPassport ==
    ASSUME NEW r, NEW s, IsRecord(r), IsRecord(s),
           r.object = "evaluated_configuration", s.object = "evaluated_configuration",
           Identity(r) # Rejected, Identity(s) # Rejected
    PROVE  Identity(r) = Identity(s) <=> Meaning(r) = Meaning(s)
<1> DEFINE p == r.passport
           q == s.passport
<1>1. ASSUME NEW c, IsRecord(c), c.object = "evaluated_configuration", Identity(c) # Rejected
      PROVE  /\ c.passport = [f \in PassportFields |-> c.passport[f]]
             /\ c.passport.tools \in Seq(Texts) /\ IsInjective(c.passport.tools)
             /\ Identity(c) = Hash(NormalPassport(c.passport))
             /\ Meaning(c) = [c.passport EXCEPT !.tools = Range(@)]
  <2>1. ReadConfiguration(c) # Rejected
        /\ Identity(c) = ReadConfiguration(c).evaluated_configuration_id
    BY <1>1 DEF Identity
  <2>2. /\ ValidPassport(c.passport)
        /\ c.evaluated_configuration_id = Hash(NormalPassport(c.passport))
        /\ ReadConfiguration(c) = [c EXCEPT !.passport = NormalPassport(c.passport)]
    BY <2>1 DEF ReadConfiguration, IsConfiguration, ConfigurationId
  <2>3. c = [f \in {"object", "passport", "evaluated_configuration_id"} |-> c[f]]
    BY <1>1 DEF IsRecord, Fields
  <2>4. ReadConfiguration(c).evaluated_configuration_id = c.evaluated_configuration_id
    BY <2>2, <2>3
  <2> QED
    BY <1>1, <2>1, <2>2, <2>4 DEF IsRecord, ValidPassport, Meaning
<1>2. /\ p = [f \in PassportFields |-> p[f]] /\ q = [f \in PassportFields |-> q[f]]
      /\ p.tools \in Seq(Texts) /\ IsInjective(p.tools)
      /\ q.tools \in Seq(Texts) /\ IsInjective(q.tools)
      /\ Identity(r) = Hash(NormalPassport(p)) /\ Identity(s) = Hash(NormalPassport(q))
      /\ Meaning(r) = [p EXCEPT !.tools = Range(@)]
      /\ Meaning(s) = [q EXCEPT !.tools = Range(@)]
  BY <1>1
<1> HIDE DEF p, q
<1>3. SortedBy(p.tools, Text) = SortedBy(q.tools, Text) <=> Range(p.tools) = Range(q.tools)
  BY <1>2, TextsInOrder
<1> DEFINE Same == \A f \in PassportFields \ {"tools"} : p[f] = q[f]
<1>4. ASSUME NEW x, NEW y
      PROVE  [p EXCEPT !.tools = x] = [q EXCEPT !.tools = y] <=> Same /\ x = y
  BY <1>2, OneFieldReplaced DEF PassportFields
<1>5. NormalPassport(p) = NormalPassport(q) <=> Same /\ SortedBy(p.tools, Text) = SortedBy(q.tools, Text)
  BY <1>4 DEF NormalPassport
<1>6. Meaning(r) = Meaning(s) <=> Same /\ Range(p.tools) = Range(q.tools)
  BY <1>2, <1>4
<1> QED
  BY <1>2, <1>3, <1>5, <1>6, HashIsInjective

LEMMA AggregationsByInput ==
    ASSUME NEW r, NEW s, IsRecord(r), IsRecord(s),
           r.object = "aggregation_input", s.object = "aggregation_input",
           Identity(r) # Rejected, Identity(s) # Rejected
    PROVE  Identity(r) = Identity(s) <=> Meaning(r) = Meaning(s)
<1> DEFINE F == {"object", "methodology_version", "ranking_group", "observation_ids"}
           Seed(c) == [aggregation_input_digest |-> Hash(InputDocument(c)),
                       methodology_version      |-> c.methodology_version]
<1>1. ASSUME NEW c, IsRecord(c), c.object = "aggregation_input", Identity(c) # Rejected
      PROVE  /\ c = [f \in F |-> c[f]]
             /\ c.observation_ids \in Seq(Texts) /\ IsInjective(c.observation_ids)
             /\ Identity(c) = Hash(Seed(c))
             /\ Meaning(c) = [c EXCEPT !.observation_ids = Range(@)]
  <2>1. InputDigest(c) # Rejected /\ Identity(c) = BootstrapSeed(c)
    BY <1>1 DEF Identity
  <2>2. ValidInput(c) /\ InputDigest(c) = Hash(InputDocument(c))
    BY <2>1 DEF InputDigest
  <2> QED
    BY <1>1, <2>1, <2>2 DEF IsRecord, Fields, ValidInput, BootstrapSeed, Meaning
<1>2. /\ r = [f \in F |-> r[f]] /\ s = [f \in F |-> s[f]]
      /\ r.observation_ids \in Seq(Texts) /\ IsInjective(r.observation_ids)
      /\ s.observation_ids \in Seq(Texts) /\ IsInjective(s.observation_ids)
      /\ Identity(r) = Hash(Seed(r)) /\ Identity(s) = Hash(Seed(s))
      /\ Meaning(r) = [r EXCEPT !.observation_ids = Range(@)]
      /\ Meaning(s) = [s EXCEPT !.observation_ids = Range(@)]
  BY <1>1
<1>3. SortedBy(r.observation_ids, Text) = SortedBy(s.observation_ids, Text)
         <=> Range(r.observation_ids) = Range(s.observation_ids)
  BY <1>2, TextsInOrder
<1> DEFINE Same == \A f \in F \ {"observation_ids"} : r[f] = s[f]
<1>4. ASSUME NEW x, NEW y
      PROVE  [r EXCEPT !.observation_ids = x] = [s EXCEPT !.observation_ids = y] <=> Same /\ x = y
  BY <1>2, OneFieldReplaced
<1>5. Identity(r) = Identity(s) <=> Seed(r) = Seed(s)
  BY <1>2, HashIsInjective
<1>6. Seed(r) = Seed(s) <=> InputDocument(r) = InputDocument(s)
                            /\ r.methodology_version = s.methodology_version
  BY HashIsInjective
<1>7. InputDocument(r) = InputDocument(s)
         <=> Same /\ SortedBy(r.observation_ids, Text) = SortedBy(s.observation_ids, Text)
  BY <1>4 DEF InputDocument
<1>8. Meaning(r) = Meaning(s) <=> Same /\ Range(r.observation_ids) = Range(s.observation_ids)
  <2>1. [r EXCEPT !.observation_ids = Range(r.observation_ids)]
            = [s EXCEPT !.observation_ids = Range(s.observation_ids)]
         <=> Same /\ Range(r.observation_ids) = Range(s.observation_ids)
    BY <1>4
  <2> HIDE DEF Same
  <2> QED
    BY <1>2, <2>1
<1>9. Same => r.methodology_version = s.methodology_version
  OBVIOUS
<1> QED
  BY <1>3, <1>5, <1>6, <1>7, <1>8, <1>9

LEMMA FingerprintsByShape ==
    ASSUME NEW r, NEW s, IsRecord(r), IsRecord(s),
           r.object = "capability_fingerprint", s.object = "capability_fingerprint",
           Identity(r) # Rejected, Identity(s) # Rejected
    PROVE  Identity(r) = Identity(s) <=> Meaning(r) = Meaning(s)
<1> DEFINE F == {"id_scheme", "canonical_id", "entity_kind", "declared_capability_shape"}
           Hashed(c) == [f \in F |-> c[f]]
<1>1. ASSUME NEW c, IsRecord(c), c.object = "capability_fingerprint", Identity(c) # Rejected
      PROVE  /\ c = [f \in F \cup {"object"} |-> c[f]]
             /\ Identity(c) = Hash(Hashed(c)) /\ Meaning(c) = c
  <2>1. Identity(c) = Fingerprint(c) /\ Meaning(c) = c
    BY <1>1 DEF Identity, Meaning
  <2>2. c = [f \in F \cup {"object"} |-> c[f]]
    <3>1. c = [f \in Fields("capability_fingerprint") |-> c[f]]
      BY <1>1 DEF IsRecord
    <3>2. Fields("capability_fingerprint") = F \cup {"object"}
      BY DEF Fields
    <3> QED
      BY <3>1, <3>2
  <2> QED
    BY <1>1, <2>1, <2>2 DEF Fingerprint
<1>2. Identity(r) = Identity(s) <=> Hashed(r) = Hashed(s)
  <2>1. Identity(r) = Hash(Hashed(r)) /\ Identity(s) = Hash(Hashed(s))
    BY <1>1
  <2> QED
    BY <2>1, HashIsInjective
<1>3. Hashed(r) = Hashed(s) <=> \A f \in F : r[f] = s[f]
  OBVIOUS
<1>4. (\A f \in F : r[f] = s[f]) <=> r = s
  <2>1. r = [f \in F \cup {"object"} |-> r[f]] /\ s = [f \in F \cup {"object"} |-> s[f]]
    BY <1>1
  <2>2. (\A f \in F : r[f] = s[f]) => \A f \in F \cup {"object"} : r[f] = s[f]
    OBVIOUS
  <2> QED
    BY <2>1, <2>2
<1> QED
  BY <1>1, <1>2, <1>3, <1>4

LEMMA EntriesByContent ==
    ASSUME NEW r, NEW s, IsRecord(r), IsRecord(s),
           r.object = "raw_entry", s.object = "raw_entry",
           Identity(r) # Rejected, Identity(s) # Rejected
    PROVE  Identity(r) = Identity(s) <=> Meaning(r) = Meaning(s)
<1> DEFINE F == {"source", "source_id", "entity_kind", "canonical_id", "raw_metadata",
                 "declared_capability_shape"}
           G == F \cup {"object", "fetched_at"}
           Hashed(c) == [f \in F |-> c[f]]
<1>1. ASSUME NEW c, IsRecord(c), c.object = "raw_entry", Identity(c) # Rejected
      PROVE  /\ c = [f \in G |-> c[f]]
             /\ Identity(c) = Hash(Hashed(c)) /\ Meaning(c) = [c EXCEPT !.fetched_at = Null]
  <2>1. Identity(c) = ContentHash(c) /\ Meaning(c) = [c EXCEPT !.fetched_at = Null]
    BY <1>1 DEF Identity, Meaning
  <2>2. c = [f \in G |-> c[f]]
    <3>1. c = [f \in Fields("raw_entry") |-> c[f]]
      BY <1>1 DEF IsRecord
    <3>2. Fields("raw_entry") = G
      BY DEF Fields
    <3> QED
      BY <3>1, <3>2
  <2> QED
    BY <1>1, <2>1, <2>2 DEF ContentHash
<1>2. Identity(r) = Identity(s) <=> Hashed(r) = Hashed(s)
  <2>1. Identity(r) = Hash(Hashed(r)) /\ Identity(s) = Hash(Hashed(s))
    BY <1>1
  <2> QED
    BY <2>1, HashIsInjective
<1>3. Hashed(r) = Hashed(s) <=> \A f \in F : r[f] = s[f]
  OBVIOUS
<1>4. (\A f \in F : r[f] = s[f]) <=> \A f \in G \ {"fetched_at"} : r[f] = s[f]
  OBVIOUS
<1>5. [r EXCEPT !.fetched_at = Null] = [s EXCEPT !.fetched_at = Null]
         <=> \A f \in G \ {"fetched_at"} : r[f] = s[f]
  <2>1. r = [f \in G |-> r[f]] /\ s = [f \in G |-> s[f]]
    BY <1>1
  <2>2. "fetched_at" \in G
    OBVIOUS
  <2> HIDE DEF G
  <2> QED
    BY <2>1, <2>2, OneFieldReplaced
<1> QED
  BY <1>1, <1>2, <1>3, <1>4, <1>5

Kinds == {"source_artifact", "evaluated_configuration", "aggregation_input",
          "capability_fingerprint", "raw_entry"}

LEMMA KnownByMeaning ==
    ASSUME NEW r, NEW s, IsRecord(r), IsRecord(s), r.object \in Kinds, s.object = r.object,
           Identity(r) # Rejected, Identity(s) # Rejected
    PROVE  Identity(r) = Identity(s) <=> Meaning(r) = Meaning(s)
<1>1. CASE r.object = "source_artifact"
  BY <1>1, ArtifactsByContent
<1>2. CASE r.object = "evaluated_configuration"
  BY <1>2, ConfigurationsByPassport
<1>3. CASE r.object = "aggregation_input"
  BY <1>3, AggregationsByInput
<1>4. CASE r.object = "capability_fingerprint"
  BY <1>4, FingerprintsByShape
<1>5. CASE r.object = "raw_entry"
  BY <1>5, EntriesByContent
<1> QED
  BY <1>1, <1>2, <1>3, <1>4, <1>5 DEF Kinds

(***************************************************************************)
(* A hand's edit of a record leaves a record of the same kind.             *)
(***************************************************************************)
LEMMA EditedRecord ==
    ASSUME NEW r, IsRecord(r),
           NEW field \in DOMAIN r, field \notin {"object", "passport", "metric"},
           NEW value, field = "observation_ids" => value \in Seq(Texts)
    PROVE  IsRecord([r EXCEPT ![field] = value]) /\ [r EXCEPT ![field] = value].object = r.object
<1> DEFINE e == [r EXCEPT ![field] = value]
<1>1. r = [f \in Fields(r.object) |-> r[f]] /\ "object" \in DOMAIN r
  BY DEF IsRecord, Has
<1>2. DOMAIN e = DOMAIN r /\ e = [f \in DOMAIN e |-> e[f]]
  OBVIOUS
<1>3. e.object = r.object /\ \A f \in DOMAIN r : f # field => e[f] = r[f]
  BY <1>1
<1>4. e[field] = value
  OBVIOUS
<1>5. DOMAIN r = Fields(r.object)
  BY <1>1
<1> HIDE DEF e
<1>6. e = [f \in Fields(e.object) |-> e[f]] /\ Has(e, "object")
  BY <1>1, <1>2, <1>3, <1>5 DEF Has
<1>7. ASSUME r.object = "evaluated_configuration"
      PROVE  e.passport = [f \in PassportFields |-> e.passport[f]] /\ e.passport.tools \in Seq(Texts)
  <2>1. "passport" \in DOMAIN r
    BY <1>5, <1>7 DEF Fields
  <2>2. e.passport = r.passport
    BY <1>3, <2>1
  <2> QED
    BY <1>7, <2>2 DEF IsRecord
<1>8. ASSUME r.object = "aggregation_input"
      PROVE  e.observation_ids \in Seq(Texts)
  <2>1. "observation_ids" \in DOMAIN r
    BY <1>5, <1>8 DEF Fields
  <2>2. CASE field = "observation_ids"
    BY <1>4, <2>2
  <2>3. CASE field # "observation_ids"
    <3>1. e.observation_ids = r.observation_ids
      BY <1>3, <2>1, <2>3
    <3> QED
      BY <1>8, <3>1 DEF IsRecord
  <2> QED
    BY <2>2, <2>3
<1>9. ASSUME r.object = "observation"
      PROVE  e.metric = [f \in MetricFields(e.metric.kind) |-> e.metric[f]]
  <2>1. "metric" \in DOMAIN r
    BY <1>5, <1>9 DEF Fields
  <2>2. e.metric = r.metric
    BY <1>3, <2>1
  <2> QED
    BY <1>9, <2>2 DEF IsRecord
<1>10. IsRecord(e)
  BY <1>3, <1>6, <1>7, <1>8, <1>9 DEF IsRecord
<1> QED
  BY <1>3, <1>10 DEF e

LEMMA EditedPassport ==
    ASSUME NEW r, IsRecord(r), r.object = "evaluated_configuration",
           NEW field \in DOMAIN r.passport,
           NEW value, field = "tools" => value \in Seq(Texts)
    PROVE  /\ IsRecord([r EXCEPT !.passport[field] = value])
           /\ [r EXCEPT !.passport[field] = value].object = r.object
<1> DEFINE p == r.passport
           e == [p EXCEPT ![field] = value]
           F == {"object", "passport", "evaluated_configuration_id"}
<1>1. /\ r = [f \in F |-> r[f]]
      /\ p = [f \in PassportFields |-> p[f]] /\ p.tools \in Seq(Texts)
  BY DEF IsRecord, Fields
<1>2. e = [f \in PassportFields |-> e[f]] /\ e.tools \in Seq(Texts)
  <2> HIDE DEF p
  <2>1. e = [f \in PassportFields |-> e[f]] /\ e[field] = value
        /\ \A f \in PassportFields : f # field => e[f] = p[f]
    BY <1>1 DEF p
  <2>2. "tools" \in PassportFields
    BY DEF PassportFields
  <2> HIDE DEF e
  <2> QED
    BY <1>1, <2>1, <2>2
<1>3. [r EXCEPT !.passport[field] = value] = [r EXCEPT !.passport = e]
  OBVIOUS
<1> HIDE DEF e, p
<1> DEFINE x == [r EXCEPT !.passport = e]
<1>4. x = [f \in F |-> x[f]] /\ x.passport = e /\ x.object = r.object
  BY <1>1
<1> HIDE DEF x
<1>5. IsRecord(x)
  BY <1>2, <1>4 DEF IsRecord, Fields, Has
<1> QED
  BY <1>3, <1>4, <1>5 DEF x

LEMMA EditedMetric ==
    ASSUME NEW r, IsRecord(r), r.object = "observation",
           NEW field \in DOMAIN r.metric, field # "kind", NEW value
    PROVE  /\ IsRecord([r EXCEPT !.metric[field] = value])
           /\ [r EXCEPT !.metric[field] = value].object = r.object
<1> DEFINE m == r.metric
           e == [m EXCEPT ![field] = value]
           F == {"object", "observation_id", "metric", "uncertainty", "provenance"}
<1>1. r = [f \in F |-> r[f]] /\ m = [f \in MetricFields(m.kind) |-> m[f]]
  BY DEF IsRecord, Fields
<1>2. e = [f \in MetricFields(e.kind) |-> e[f]]
  <2> HIDE DEF m
  <2>1. DOMAIN e = MetricFields(m.kind) /\ "kind" \in MetricFields(m.kind)
    BY <1>1 DEF MetricFields
  <2>2. e.kind = m.kind /\ e = [f \in DOMAIN e |-> e[f]]
    BY <1>1, <2>1
  <2> QED
    BY <2>1, <2>2
<1>3. [r EXCEPT !.metric[field] = value] = [r EXCEPT !.metric = e]
  OBVIOUS
<1> HIDE DEF e, m
<1> DEFINE x == [r EXCEPT !.metric = e]
<1>4. x = [f \in F |-> x[f]] /\ x.metric = e /\ x.object = r.object
  BY <1>1
<1> HIDE DEF x
<1>5. IsRecord(x)
  BY <1>2, <1>4 DEF IsRecord, Fields, Has
<1> QED
  BY <1>3, <1>4, <1>5 DEF x

(***************************************************************************)
(* While a record is on its way, it and its copy are records of one kind.  *)
(***************************************************************************)
RecordInv ==
    made # Null =>
        /\ IsRecord(made) /\ IsRecord(copy) /\ copy.object = made.object
        /\ Identity(made) # Rejected
        /\ made.object \in Kinds \cup {"observation"}

LEMMA RecordStep == RecordInv /\ [RecordsNext]_recordVars => RecordInv'
<1> SUFFICES ASSUME RecordInv, [RecordsNext]_recordVars, made' # Null
             PROVE  /\ IsRecord(made') /\ IsRecord(copy') /\ copy'.object = made'.object
                    /\ Identity(made') # Rejected
                    /\ made'.object \in Kinds \cup {"observation"}
  BY DEF RecordInv
<1>1. ASSUME NEW r \in MadeRecords, Make(r)
      PROVE  /\ IsRecord(made') /\ IsRecord(copy') /\ copy'.object = made'.object
             /\ Identity(made') # Rejected /\ made'.object \in Kinds \cup {"observation"}
  BY <1>1, EvidenceRecordsAssumption DEF Make, Kinds
<1>2. ASSUME made # Null, UNCHANGED made
      PROVE  /\ IsRecord(made) /\ IsRecord(copy) /\ copy.object = made.object
             /\ Identity(made) # Rejected /\ made.object \in Kinds \cup {"observation"}
  BY <1>2 DEF RecordInv
<1>3. ASSUME NEW f \in DOMAIN RecordEdits, NEW v \in RecordEdits[f], EditCopy(f, v)
      PROVE  IsRecord(copy') /\ copy'.object = made.object /\ UNCHANGED made /\ made # Null
  <2>1. made # Null /\ UNCHANGED made
    BY <1>3 DEF EditCopy, ChangeCopy
  <2>2. /\ f \notin {"object", "passport", "metric", "provenance", "kind"}
        /\ f \in {"tools", "observation_ids"} => v \in Seq(Texts)
    BY EvidenceRecordsAssumption
  <2>3. CASE Has(copy, f) /\ copy' = [copy EXCEPT ![f] = v]
    BY <1>2, <2>1, <2>2, <2>3, EditedRecord DEF Has
  <2>4. ASSUME NEW part \in DOMAIN copy \cap {"passport", "metric", "provenance"},
               Has(copy[part], f), copy' = [copy EXCEPT ![part][f] = v]
        PROVE  IsRecord(copy') /\ copy'.object = made.object
    <3>1. DOMAIN copy = Fields(copy.object) /\ copy.object \in Kinds \cup {"observation"}
      BY <1>2, <2>1 DEF IsRecord
    <3>2. IF part = "passport" THEN copy.object = "evaluated_configuration"
          ELSE copy.object = "observation"
      BY <3>1 DEF Fields, Kinds
    <3>3. CASE part = "passport"
      <4>1. copy' = [copy EXCEPT !.passport[f] = v] /\ f \in DOMAIN copy.passport
        BY <2>4, <3>3 DEF Has
      <4> QED
        BY <1>2, <2>1, <2>2, <3>2, <3>3, <4>1, EditedPassport
    <3>4. CASE part = "metric"
      <4>1. copy' = [copy EXCEPT !.metric[f] = v] /\ f \in DOMAIN copy.metric
        BY <2>4, <3>4 DEF Has
      <4> QED
        BY <1>2, <2>1, <2>2, <3>2, <3>4, <4>1, EditedMetric
    <3>5. CASE part = "provenance"
      <4>1. copy' = [copy EXCEPT !.provenance = [@ EXCEPT ![f] = v]]
        BY <2>4, <3>5
      <4>2. part \in DOMAIN copy
        OBVIOUS
      <4> QED
        BY <1>2, <2>1, <3>5, <4>1, <4>2, EditedRecord
    <3> QED
      BY <3>3, <3>4, <3>5
  <2> QED
    BY <1>3, <2>1, <2>3, <2>4 DEF EditCopy
<1>4. ASSUME Rename
      PROVE  IsRecord(copy') /\ copy'.object = made.object /\ UNCHANGED made /\ made # Null
  <2>1. /\ made # Null /\ UNCHANGED made /\ copy.object = "evaluated_configuration"
        /\ copy' = [copy EXCEPT !.evaluated_configuration_id = ConfigurationId(copy.passport)]
    BY <1>4 DEF Rename
  <2>2. "evaluated_configuration_id" \in DOMAIN copy
    BY <1>2, <2>1 DEF IsRecord, Fields
  <2> QED
    BY <1>2, <2>1, <2>2, EditedRecord
<1>5. ASSUME UNCHANGED recordVars
      PROVE  IsRecord(copy') /\ copy'.object = made.object /\ UNCHANGED made /\ made # Null
  BY <1>5, <1>2 DEF recordVars
<1> QED
  BY <1>1, <1>2, <1>3, <1>4, <1>5 DEF RecordsNext

(***************************************************************************)
(* The public documents: records of evidence stay records of their kind,   *)
(* whatever a hand writes into the copies.                                 *)
(***************************************************************************)
THEOREM RecordsInvariant == DocumentsSpec => []RecordInv
<1>1. DocumentsInit => RecordInv
  BY DEF DocumentsInit, RecordsInit, RecordInv
<1>2. RecordInv /\ [DocumentsNext]_<<vars, readVars, recordVars, quoteVars>> => RecordInv'
  <2>1. [DocumentsNext]_<<vars, readVars, recordVars, quoteVars>> => [RecordsNext]_recordVars
    BY DEF DocumentsNext, Receipts, Reads, Records, Quotes, NoRecord
  <2> QED
    BY <2>1, RecordStep
<1> QED
  BY <1>1, <1>2, PTL DEF DocumentsSpec

(***************************************************************************)
(* The public documents: evidence_records' identities.  For any records of *)
(* evidence and any edits of their copies, a reader who accepts a copy     *)
(* knows it by the name of what was made exactly if it says the same:      *)
(* tools and observations in any order, an entry whenever it was fetched.  *)
(***************************************************************************)
THEOREM RecordsTheorem == DocumentsSpec => []RecordIsItsIdentity
<1>1. RecordInv => RecordIsItsIdentity
  <2> SUFFICES ASSUME RecordInv, made # Null, made.object # "observation",
                      Identity(copy) # Rejected
               PROVE  Identity(copy) = Identity(made) <=> Meaning(copy) = Meaning(made)
    BY DEF RecordIsItsIdentity
  <2>1. made.object \in Kinds
    BY DEF RecordInv
  <2> QED
    BY <2>1, KnownByMeaning DEF RecordInv
<1> QED
  BY <1>1, RecordsInvariant, PTL
-------------------------------------------------------------------------------
(* Reads *)

(***************************************************************************)
(* The references of a snapshot set are ordered by three texts.            *)
(***************************************************************************)
References == [ranking_group_id : Texts, evidence_snapshot_id : Texts \X Texts]

referenceKey == [r \in References |-> SortKey(r)]

LEMMA ReferencesAreSorted == Forgets(References, referenceKey)
<1>1. ASSUME NEW r \in References PROVE SortKey(r) \in Keys(3)
  <2>1. /\ r.ranking_group_id \in Texts
        /\ r.evidence_snapshot_id[1] \in Texts /\ r.evidence_snapshot_id[2] \in Texts
    BY DEF References
  <2>2. \A x, y, z \in Texts : <<x, y, z>> \in Keys(3)
    BY DEF Keys
  <2> QED
    BY <2>1, <2>2 DEF SortKey
<1>2. referenceKey \in [References -> Keys(3)]
  BY <1>1 DEF referenceKey
<1> QED
  BY <1>2, SortingForgetsOrder DEF Forgets

(***************************************************************************)
(* A descriptor lists the references it was made from, sorted.             *)
(***************************************************************************)
LEMMA DescriptorsList ==
    ASSUME NEW d, NEW refs \in Seq(References), Descriptor(Envelope(d), refs) # Rejected
    PROVE  LET listed == Descriptor(Envelope(d), refs).ranking_group_snapshots
           IN  /\ listed = SortedBy(refs, SortKey) /\ listed \in Seq(References)
               /\ Range(listed) = Range(refs)
               /\ SortedBy(listed, SortKey) = listed
               /\ Unique(refs, LAMBDA r : r.ranking_group_id)
<1> DEFINE env == Envelope(d)
           sorted == SortedBy(refs, SortKey)
<1>1. /\ Unique(refs, LAMBDA r : r.ranking_group_id)
      /\ Descriptor(env, refs) = Joined(env, [ranking_group_snapshots |-> sorted])
  BY DEF Descriptor
<1>2. DOMAIN env = {"cell_id", "manifest_version", "methodology_version"}
  BY DEF Envelope
<1>3. Joined(env, [ranking_group_snapshots |-> sorted]).ranking_group_snapshots = sorted
  <2> HIDE DEF env, sorted
  <2> QED
    BY <1>2 DEF Joined, Has
<1>4. ASSUME NEW s \in Seq(References) PROVE SortedBy(s, SortKey) = Arranged(s, referenceKey)
  <2>1. \A i \in DOMAIN s : SortKey(s[i]) = referenceKey[s[i]]
    BY DEF referenceKey
  <2>2. [i \in DOMAIN s |-> SortKey(s[i])] = [i \in DOMAIN s |-> referenceKey[s[i]]]
    BY <2>1
  <2> QED
    BY <2>2 DEF SortedBy, Arranged
<1>5. Distinct(refs, referenceKey)
  <2>1. \A i \in DOMAIN refs : refs[i] \in References
    OBVIOUS
  <2>2. \A i \in DOMAIN refs : referenceKey[refs[i]][1] = refs[i].ranking_group_id
    BY <2>1 DEF referenceKey, SortKey
  <2>3. \A i, j \in DOMAIN refs :
           refs[i].ranking_group_id = refs[j].ranking_group_id => i = j
    BY <1>1 DEF Unique
  <2> QED
    BY <2>2, <2>3 DEF Distinct
<1>6. /\ Arranged(refs, referenceKey) \in Seq(References)
      /\ Range(Arranged(refs, referenceKey)) = Range(refs)
      /\ Arranged(Arranged(refs, referenceKey), referenceKey) = Arranged(refs, referenceKey)
  BY <1>5, ReferencesAreSorted DEF Forgets
<1>7. /\ sorted \in Seq(References) /\ Range(sorted) = Range(refs)
      /\ SortedBy(sorted, SortKey) = sorted
  BY <1>4, <1>6
<1> HIDE DEF env, sorted
<1>8. Descriptor(env, refs).ranking_group_snapshots = sorted
  BY <1>1, <1>3
<1> QED
  BY <1>1, <1>7, <1>8 DEF env, sorted

(***************************************************************************)
(* The descriptor of a leaderboard that a reader accepts refers to the     *)
(* groups of the leaderboard and to nothing else.                          *)
(***************************************************************************)
IsBoard(b) == IsList(b.ranking_groups) /\ \A g \in Range(b.ranking_groups) : IsGroup(g)

LEMMA GroupsReferred ==
    ASSUME NEW b, IsBoard(b)
    PROVE  /\ GroupReferences(b) \in Seq(References)
           /\ Range(GroupReferences(b)) = {Reference(g) : g \in Range(b.ranking_groups)}
<1> DEFINE groups == b.ranking_groups
<1>1. Len(groups) \in Nat /\ DOMAIN groups = 1 .. Len(groups)
  BY DEF IsBoard, IsList
<1>2. ASSUME NEW k \in DOMAIN groups PROVE Reference(groups[k]) \in References
  <2>1. IsGroup(groups[k])
    BY DEF IsBoard, Range
  <2>2. Suits("ranking_group_id", groups[k].ranking_group_id)
        /\ Suits("evidence_snapshot_id", groups[k].evidence_snapshot_id)
    BY <2>1 DEF IsGroup, GroupFields
  <2> QED
    BY <2>2 DEF Suits, References, Reference
<1>3. GroupReferences(b) = [k \in DOMAIN groups |-> Reference(groups[k])]
  BY DEF GroupReferences
<1> HIDE DEF groups
<1>4. GroupReferences(b) \in [1 .. Len(groups) -> References]
  BY <1>1, <1>2, <1>3
<1>5. Range(GroupReferences(b)) = {Reference(g) : g \in Range(groups)}
  BY <1>3 DEF Range
<1> QED
  BY <1>1, <1>4, <1>5 DEF groups

LEMMA BoardsReferToTheirGroups ==
    ASSUME NEW b, IsBoard(b), VerifyLeaderboard(b)
    PROVE  LET d == b.snapshot_set_descriptor
               listed == d.ranking_group_snapshots
           IN  /\ d # Rejected /\ Descriptor(Envelope(b), listed) = d
               /\ b.snapshot_set_id = Hash(d)
               /\ listed \in Seq(References)
               /\ Range(listed) = {Reference(g) : g \in Range(b.ranking_groups)}
               /\ \A r, q \in Range(listed) : r.ranking_group_id = q.ranking_group_id => r = q
<1> DEFINE d == b.snapshot_set_descriptor
           refs == GroupReferences(b)
<1>1. VerifyLeaderboardSnapshotSet(b)
  BY DEF VerifyLeaderboard
<1>2. IsBound(b) /\ Descriptor(Envelope(b), refs) = d
  BY <1>1 DEF VerifyLeaderboardSnapshotSet
<1>3. /\ d # Rejected /\ Descriptor(Envelope(d), d.ranking_group_snapshots) = d
      /\ Envelope(b) = Envelope(d) /\ b.snapshot_set_id = Hash(d)
  BY <1>2 DEF IsBound, ReadsAsDescriptor, SnapshotSetId
<1>4. /\ refs \in Seq(References)
      /\ Range(refs) = {Reference(g) : g \in Range(b.ranking_groups)}
  BY GroupsReferred
<1> HIDE DEF d, refs
<1>5. /\ d.ranking_group_snapshots \in Seq(References)
      /\ Range(d.ranking_group_snapshots) = Range(refs)
      /\ Unique(refs, LAMBDA r : r.ranking_group_id)
  BY <1>2, <1>3, <1>4, DescriptorsList
<1>6. \A r, q \in Range(refs) : r.ranking_group_id = q.ranking_group_id => r = q
  BY <1>5 DEF Unique, Range
<1> QED
  BY <1>3, <1>4, <1>5, <1>6 DEF d

(***************************************************************************)
(* The evidence of a section decides how strong its claim is.              *)
(***************************************************************************)
LEMMA EvidenceDecidesClaim ==
    ASSUME NEW s, NEW g, Reference(s) = Reference(g),
           EvidenceFitsClaim(s), EvidenceFitsClaim(g),
           Claim(s) \in {"explorer", "top_set"}, Claim(g) \in {"explorer", "top_set"}
    PROVE  Claim(s) = Claim(g)
<1>1. s.evidence_snapshot_id = g.evidence_snapshot_id
  <2>1. /\ Reference(s).evidence_snapshot_id = s.evidence_snapshot_id
        /\ Reference(g).evidence_snapshot_id = g.evidence_snapshot_id
    BY DEF Reference
  <2> QED
    BY <2>1
<1> QED
  BY <1>1 DEF EvidenceFitsClaim, Prefix

LEMMA GroupsAreVerified ==
    ASSUME NEW b, VerifyLeaderboard(b), NEW g \in Range(b.ranking_groups)
    PROVE  /\ VerifyGroup(g, b.generated_at)
           /\ EvidenceFitsClaim(g) /\ Claim(g) \in {"explorer", "top_set"}
<1>1. VerifyGroup(g, b.generated_at)
  BY DEF VerifyLeaderboard
<1>2. EvidenceFitsClaim(g) /\ VerifyEligibility(g)
  BY <1>1 DEF VerifyGroup
<1>3. VerifyEligibilitySummaryState(g.eligibility_summary, g.state)
  BY <1>2 DEF VerifyEligibility
<1> QED
  BY <1>1, <1>2, <1>3 DEF VerifyEligibilitySummaryState, Claim

(***************************************************************************)
(* The fields of the documents that the publisher and the server derive.   *)
(***************************************************************************)
LEMMA JoinedFields ==
    ASSUME NEW a, NEW b
    PROVE  /\ DOMAIN Joined(a, b) = DOMAIN a \cup DOMAIN b
           /\ \A f \in DOMAIN a : Joined(a, b)[f] = a[f]
           /\ \A f \in DOMAIN b \ DOMAIN a : Joined(a, b)[f] = b[f]
  BY DEF Joined, Has

LEMMA JoinedIsRecord ==
    ASSUME NEW a, NEW b
    PROVE  Joined(a, b) = [f \in DOMAIN Joined(a, b) |-> Joined(a, b)[f]]
  BY DEF Joined

LEMMA LeaderboardFields ==
    ASSUME NEW given
    PROVE  LET b == Leaderboard(given)
           IN  /\ b.object = "leaderboard" /\ b.ranking_groups = given.ranking_groups
               /\ b.generated_at = given.generated_at /\ Envelope(b) = Cell
               /\ b = [f \in DOMAIN b |-> b[f]] /\ Has(b, "ranking_groups")
<1> DEFINE own == [object |-> "leaderboard", cell_state |-> given.cell_state,
                   generated_at |-> given.generated_at,
                   ranking_groups |-> given.ranking_groups]
           content == Joined(own, Cell)
           descriptor == Descriptor(Cell, GroupReferences(content))
           named == [snapshot_set_descriptor |-> descriptor,
                     snapshot_set_id |-> SnapshotSetId(descriptor)]
           b == Leaderboard(given)
<1>1. /\ DOMAIN own = {"object", "cell_state", "generated_at", "ranking_groups"}
      /\ own.object = "leaderboard" /\ own.generated_at = given.generated_at
      /\ own.ranking_groups = given.ranking_groups
  OBVIOUS
<1>2. /\ DOMAIN Cell = {"cell_id", "manifest_version", "methodology_version"}
      /\ Cell = [f \in {"cell_id", "manifest_version", "methodology_version"} |-> Cell[f]]
  BY PublicReadsAssumption
<1>3. b = Joined(content, named)
  BY DEF Leaderboard
<1> HIDE DEF own, named, b
<1>4. /\ DOMAIN content = DOMAIN own \cup DOMAIN Cell
      /\ \A f \in DOMAIN own : content[f] = own[f]
      /\ \A f \in DOMAIN Cell : content[f] = Cell[f]
  <2>1. /\ DOMAIN content = DOMAIN own \cup DOMAIN Cell
        /\ \A f \in DOMAIN own : content[f] = own[f]
        /\ \A f \in DOMAIN Cell \ DOMAIN own : content[f] = Cell[f]
    BY JoinedFields
  <2>2. DOMAIN Cell \ DOMAIN own = DOMAIN Cell
    BY <1>1, <1>2
  <2> QED
    BY <2>1, <2>2
<1> HIDE DEF content
<1>5. /\ \A f \in DOMAIN content : b[f] = content[f]
      /\ b = [f \in DOMAIN b |-> b[f]]
  <2>1. \A f \in DOMAIN content : b[f] = content[f]
    BY <1>3, JoinedFields
  <2> QED
    BY <2>1, <1>3, JoinedIsRecord
<1>6. /\ b.object = "leaderboard" /\ b.ranking_groups = given.ranking_groups
      /\ b.generated_at = given.generated_at
  BY <1>1, <1>4, <1>5
<1>7. \A f \in DOMAIN Cell : b[f] = Cell[f]
  BY <1>4, <1>5
<1>8. Envelope(b) = Cell
  BY <1>2, <1>7 DEF Envelope
<1>9. Has(b, "ranking_groups")
  <2>1. DOMAIN b = DOMAIN content \cup DOMAIN named
    BY <1>3, JoinedFields
  <2> QED
    BY <1>1, <1>4, <2>1 DEF Has
<1> QED
  BY <1>5, <1>6, <1>8, <1>9 DEF b

(***************************************************************************)
(* A read repeats what the leaderboard says of its group.                  *)
(***************************************************************************)
Repeats(p, group, ranking) ==
    /\ p.snapshot_set_descriptor = board.snapshot_set_descriptor
    /\ p.snapshot_set_id = board.snapshot_set_id
    /\ p.generated_at = board.generated_at
    /\ p.state = group.state /\ p.eligibility_summary = group.eligibility_summary
    /\ p.explorer_view = ranking.explorer_view
    /\ Reference(p) = Reference(group) /\ Envelope(p) = Cell
    /\ p = [f \in DOMAIN p |-> p[f]]

LEMMA ReadsRepeat ==
    ASSUME NEW group, NEW ranking, NEW own,
           DOMAIN own \subseteq {"object", "entity", "identity", "entities"}
    PROVE  /\ Repeats(Joined(Read(group, ranking), own), group, ranking)
           /\ DOMAIN Joined(Read(group, ranking), own) \cap {"object", "entity", "entities"}
                 = DOMAIN own \cap {"object", "entity", "entities"}
           /\ \A f \in DOMAIN own : Joined(Read(group, ranking), own)[f] = own[f]
<1> DEFINE shared == [snapshot_set_descriptor |-> board.snapshot_set_descriptor,
                      snapshot_set_id         |-> board.snapshot_set_id,
                      generated_at            |-> board.generated_at,
                      ranking_group_id        |-> group.ranking_group_id,
                      state                   |-> group.state,
                      evidence_snapshot_id    |-> group.evidence_snapshot_id,
                      eligibility_summary     |-> group.eligibility_summary,
                      explorer_view           |-> ranking.explorer_view]
           read == Read(group, ranking)
           p == Joined(read, own)
<1>1. /\ DOMAIN shared = {"snapshot_set_descriptor", "snapshot_set_id", "generated_at",
                          "ranking_group_id", "state", "evidence_snapshot_id",
                          "eligibility_summary", "explorer_view"}
      /\ shared.snapshot_set_descriptor = board.snapshot_set_descriptor
      /\ shared.snapshot_set_id = board.snapshot_set_id
      /\ shared.generated_at = board.generated_at
      /\ shared.ranking_group_id = group.ranking_group_id
      /\ shared.state = group.state
      /\ shared.evidence_snapshot_id = group.evidence_snapshot_id
      /\ shared.eligibility_summary = group.eligibility_summary
      /\ shared.explorer_view = ranking.explorer_view
  OBVIOUS
<1>2. /\ DOMAIN Cell = {"cell_id", "manifest_version", "methodology_version"}
      /\ Cell = [f \in {"cell_id", "manifest_version", "methodology_version"} |-> Cell[f]]
  BY PublicReadsAssumption
<1>3. read = Joined(Cell, shared)
  BY DEF Read
<1> HIDE DEF shared, read
<1>4. /\ DOMAIN read = DOMAIN Cell \cup DOMAIN shared
      /\ \A f \in DOMAIN Cell : read[f] = Cell[f]
      /\ \A f \in DOMAIN shared : read[f] = shared[f]
  <2>1. /\ DOMAIN read = DOMAIN Cell \cup DOMAIN shared
        /\ \A f \in DOMAIN Cell : read[f] = Cell[f]
        /\ \A f \in DOMAIN shared \ DOMAIN Cell : read[f] = shared[f]
    <3>1. /\ DOMAIN Joined(Cell, shared) = DOMAIN Cell \cup DOMAIN shared
          /\ \A f \in DOMAIN Cell : Joined(Cell, shared)[f] = Cell[f]
          /\ \A f \in DOMAIN shared \ DOMAIN Cell : Joined(Cell, shared)[f] = shared[f]
      BY JoinedFields
    <3> QED
      BY <1>3, <3>1
  <2>2. DOMAIN shared \ DOMAIN Cell = DOMAIN shared
    BY <1>1, <1>2
  <2> QED
    BY <2>1, <2>2
<1>5. /\ DOMAIN p = DOMAIN read \cup DOMAIN own
      /\ \A f \in DOMAIN read : p[f] = read[f]
      /\ \A f \in DOMAIN own \ DOMAIN read : p[f] = own[f]
      /\ p = [f \in DOMAIN p |-> p[f]]
  <2>1. /\ DOMAIN p = DOMAIN read \cup DOMAIN own
        /\ \A f \in DOMAIN read : p[f] = read[f]
        /\ \A f \in DOMAIN own \ DOMAIN read : p[f] = own[f]
    BY JoinedFields
  <2> QED
    BY <2>1, JoinedIsRecord
<1> HIDE DEF p
<1>6. /\ \A f \in DOMAIN Cell : p[f] = Cell[f]
      /\ \A f \in DOMAIN shared : p[f] = shared[f]
      /\ \A f \in DOMAIN own : p[f] = own[f]
  BY <1>1, <1>2, <1>4, <1>5
<1>7. Envelope(p) = Cell
  BY <1>2, <1>6 DEF Envelope
<1>8. Repeats(p, group, ranking)
  BY <1>1, <1>5, <1>6, <1>7 DEF Repeats, Reference
<1>9. DOMAIN p \cap {"object", "entity", "entities"} = DOMAIN own \cap {"object", "entity", "entities"}
  BY <1>1, <1>2, <1>4, <1>5
<1> QED
  BY <1>6, <1>8, <1>9 DEF p, read

\* A row that can be opened: the group, its calibrated ranking or a view, and the row.
LEMMA DetailsRepeat ==
    ASSUME NEW group, NEW ranking, NEW entry, NEW p, p = EntityDetail(group, ranking, entry)
    PROVE  /\ Repeats(p, group, ranking) /\ p.object = "entity_detail"
           /\ Has(p, "entity") /\ ~Has(p, "entities")
           /\ p.entity.ranking = entry.ranking /\ p.entity.citations = ranking.citations
           /\ p.entity.evaluated_configuration = Configured(entry)
<1> DEFINE own == [object |-> "entity_detail",
                   entity |-> [evaluated_configuration |-> Configured(entry),
                               ranking   |-> entry.ranking,
                               citations |-> ranking.citations]]
<1>1. /\ DOMAIN own = {"object", "entity"} /\ own.object = "entity_detail"
      /\ own.entity.ranking = entry.ranking /\ own.entity.citations = ranking.citations
      /\ own.entity.evaluated_configuration = Configured(entry)
  OBVIOUS
<1>2. p = Joined(Read(group, ranking), own)
  BY DEF EntityDetail
<1> HIDE DEF own
<1>3. /\ Repeats(p, group, ranking)
      /\ DOMAIN p \cap {"object", "entity", "entities"}
            = DOMAIN own \cap {"object", "entity", "entities"}
      /\ \A f \in DOMAIN own : p[f] = own[f]
  BY <1>1, <1>2, ReadsRepeat
<1>4. /\ p.object = own.object /\ p.entity = own.entity
      /\ "entity" \in DOMAIN p /\ "entities" \notin DOMAIN p
  BY <1>1, <1>3
<1> QED
  BY <1>1, <1>3, <1>4 DEF Has

LEMMA ComparisonsRepeat ==
    ASSUME NEW group, NEW ranking, NEW p, p = CompareResult(group, ranking)
    PROVE  /\ Repeats(p, group, ranking) /\ p.object = "compare_result"
           /\ Has(p, "entities") /\ ~Has(p, "entity") /\ p.identity = group.identity
           /\ p.entities = CitedRows(ranking)
<1> DEFINE own == [object |-> "compare_result", identity |-> group.identity,
                   entities |-> CitedRows(ranking)]
<1>1. /\ DOMAIN own = {"object", "identity", "entities"} /\ own.object = "compare_result"
      /\ own.identity = group.identity /\ own.entities = CitedRows(ranking)
  OBVIOUS
<1>2. p = Joined(Read(group, ranking), own)
  BY DEF CompareResult
<1> HIDE DEF own
<1>3. /\ Repeats(p, group, ranking)
      /\ DOMAIN p \cap {"object", "entity", "entities"}
            = DOMAIN own \cap {"object", "entity", "entities"}
      /\ \A f \in DOMAIN own : p[f] = own[f]
  BY <1>1, <1>2, ReadsRepeat
<1>4. /\ p.object = own.object /\ p.entities = own.entities /\ p.identity = own.identity
      /\ "entities" \in DOMAIN p /\ "entity" \notin DOMAIN p
  BY <1>1, <1>3
<1> QED
  BY <1>1, <1>3, <1>4 DEF Has

(***************************************************************************)
(* The invariant of reads: the issued leaderboard is one that a reader     *)
(* accepts, a page keeps its kind, and a page nobody has edited is as the  *)
(* publisher or the server derived it.                                     *)
(***************************************************************************)
IsPage(p) ==
    CASE p.object = "leaderboard"    -> Has(p, "ranking_groups") /\ IsBoard(p)
      [] p.object = "entity_detail"  -> Has(p, "entity") /\ ~Has(p, "entities")
      [] p.object = "compare_result" -> Has(p, "entities") /\ ~Has(p, "entity")
      [] OTHER                       -> p.object = "benchmark_health"

IsDerived(p, group, ranking) ==
    /\ CanOpen(group, ranking)
    /\ \/ \E entry \in Range(ranking.entries) : p = EntityDetail(group, ranking, entry)
       \/ /\ group.identity # Unresolved /\ Len(ranking.entries) \in 2 .. 4
          /\ p = CompareResult(group, ranking)

IsOpened ==
    /\ board # Null
    /\ \E group \in Range(board.ranking_groups) : \E ranking \in Rankings(group) :
          IsDerived(page, group, ranking)

IsUntouched ==
    page = board \/ (\E m \in Manifests : page = BenchmarkHealth(m)) \/ IsOpened

ReadInv ==
    /\ readEdits \in Nat
    /\ board # Null =>
          /\ VerifyLeaderboard(board)
          /\ \E b \in Boards : board = Leaderboard(b)
    /\ page # Null => IsPage(page) /\ (readEdits = 0 => IsUntouched)

LEMMA IssuedBoards ==
    ASSUME ReadInv, board # Null
    PROVE  /\ VerifyLeaderboard(board) /\ IsBoard(board)
           /\ board.object = "leaderboard" /\ Envelope(board) = Cell
           /\ board = [f \in DOMAIN board |-> board[f]]
           /\ \E b \in Boards : board.ranking_groups = b.ranking_groups
<1>1. PICK b \in Boards : board = Leaderboard(b)
  BY DEF ReadInv
<1>2. /\ board.object = "leaderboard" /\ board.ranking_groups = b.ranking_groups
      /\ Envelope(board) = Cell /\ board = [f \in DOMAIN board |-> board[f]]
  BY <1>1, LeaderboardFields
<1>3. IsBoard(board)
  BY <1>2, PublicReadsAssumption DEF IsBoard
<1> QED
  BY <1>2, <1>3 DEF ReadInv

LEMMA OpenedRepeats ==
    ASSUME NEW p, NEW group, NEW ranking, IsDerived(p, group, ranking)
    PROVE  Repeats(p, group, ranking) /\ p.object \in {"entity_detail", "compare_result"} /\ IsPage(p)
<1>1. CASE \E entry \in Range(ranking.entries) : p = EntityDetail(group, ranking, entry)
  <2>1. PICK entry \in Range(ranking.entries) : p = EntityDetail(group, ranking, entry)
    BY <1>1
  <2>2. /\ Repeats(p, group, ranking) /\ p.object = "entity_detail"
        /\ Has(p, "entity") /\ ~Has(p, "entities")
    BY <2>1, DetailsRepeat
  <2> QED
    BY <2>2 DEF IsPage
<1>2. CASE p = CompareResult(group, ranking)
  <2>1. /\ Repeats(p, group, ranking) /\ p.object = "compare_result"
        /\ Has(p, "entities") /\ ~Has(p, "entity")
    BY <1>2, ComparisonsRepeat
  <2> QED
    BY <2>1 DEF IsPage
<1> QED
  BY <1>1, <1>2 DEF IsDerived

(***************************************************************************)
(* Naming a page anew that nobody has edited changes nothing.              *)
(***************************************************************************)
LEMMA RehashingSettles ==
    ASSUME ReadInv, page # Null, IsUntouched, RehashPage
    PROVE  page' = page
<1> DEFINE d == board.snapshot_set_descriptor
           listed == d.ranking_group_snapshots
           changed == [r \in Range(listed) |->
                           IF \E s \in Sections(page) : s.ranking_group_id = r.ranking_group_id
                           THEN Reference(CHOOSE s \in Sections(page) :
                                             s.ranking_group_id = r.ranking_group_id)
                           ELSE r]
<1>1. Sections(page) # {}
  BY DEF RehashPage
<1>2. ASSUME NEW m \in Manifests, page = BenchmarkHealth(m) PROVE FALSE
  BY <1>1, <1>2 DEF BenchmarkHealth, Sections
<1>3. board # Null /\ (page = board \/ IsOpened)
  BY <1>2 DEF IsUntouched, IsOpened
<1>4. /\ VerifyLeaderboard(board) /\ IsBoard(board)
      /\ board.object = "leaderboard" /\ Envelope(board) = Cell
      /\ board = [f \in DOMAIN board |-> board[f]]
  BY <1>3, IssuedBoards
<1>5. /\ Descriptor(Cell, listed) = d /\ board.snapshot_set_id = Hash(d)
      /\ listed \in Seq(References)
      /\ Range(listed) = {Reference(g) : g \in Range(board.ranking_groups)}
      /\ \A r, q \in Range(listed) : r.ranking_group_id = q.ranking_group_id => r = q
  BY <1>4, BoardsReferToTheirGroups
<1>6. /\ page.snapshot_set_descriptor = d /\ page.snapshot_set_id = board.snapshot_set_id
      /\ page = [f \in DOMAIN page |-> page[f]]
      /\ \A s \in Sections(page) : Reference(s) \in Range(listed)
  <2>1. CASE page = board
    <3>1. Sections(page) = Range(board.ranking_groups)
      BY <1>4, <2>1 DEF Sections
    <3> QED
      BY <1>4, <1>5, <2>1, <3>1
  <2>2. CASE IsOpened
    <3>1. PICK group \in Range(board.ranking_groups) : \E ranking \in Rankings(group) :
             IsDerived(page, group, ranking)
      BY <2>2 DEF IsOpened
    <3>2. PICK ranking \in Rankings(group) : IsDerived(page, group, ranking)
      BY <3>1
    <3>3. /\ Repeats(page, group, ranking)
          /\ page.object \in {"entity_detail", "compare_result"}
      BY <3>2, OpenedRepeats
    <3>4. Sections(page) = {page}
      BY <3>3 DEF Sections
    <3> QED
      BY <1>5, <3>1, <3>3, <3>4 DEF Repeats
  <2> QED
    BY <1>3, <2>1, <2>2
<1> HIDE DEF d, listed
<1>7. ASSUME NEW r \in Range(listed) PROVE changed[r] = r
  <2>1. CASE \E s \in Sections(page) : s.ranking_group_id = r.ranking_group_id
    <3> DEFINE s == CHOOSE s \in Sections(page) : s.ranking_group_id = r.ranking_group_id
    <3>1. s \in Sections(page) /\ s.ranking_group_id = r.ranking_group_id
      BY <2>1
    <3>2. changed[r] = Reference(s)
      BY <2>1
    <3> HIDE DEF s
    <3>3. Reference(s) \in Range(listed) /\ Reference(s).ranking_group_id = r.ranking_group_id
      BY <1>6, <3>1 DEF Reference
    <3> QED
      BY <1>5, <3>2, <3>3
  <2>2. CASE ~\E s \in Sections(page) : s.ranking_group_id = r.ranking_group_id
    BY <2>2
  <2> QED
    BY <2>1, <2>2
<1>8. [k \in DOMAIN listed |-> changed[listed[k]]] = listed
  <2>1. \A k \in DOMAIN listed : changed[listed[k]] = listed[k]
    BY <1>7 DEF Range
  <2>2. listed = [k \in DOMAIN listed |-> listed[k]]
    BY <1>5
  <2> HIDE DEF changed
  <2> QED
    BY <2>1, <2>2
<1>9. LET old == page.snapshot_set_descriptor.ranking_group_snapshots
          descriptor == Descriptor(Cell, [k \in DOMAIN old |-> changed[old[k]]])
      IN page' = [page EXCEPT !.snapshot_set_descriptor = descriptor,
                              !.snapshot_set_id = SnapshotSetId(descriptor)]
  BY <1>6 DEF RehashPage, listed
<1> HIDE DEF changed
<1>10. page.snapshot_set_descriptor.ranking_group_snapshots = listed
  BY <1>6 DEF listed
<1>11. page' = [page EXCEPT !.snapshot_set_descriptor = d, !.snapshot_set_id = Hash(d)]
  BY <1>5, <1>8, <1>9, <1>10 DEF SnapshotSetId
<1>12. d = page.snapshot_set_descriptor /\ Hash(d) = page.snapshot_set_id
  BY <1>5, <1>6
<1> QED
  BY <1>6, <1>11, <1>12

(***************************************************************************)
(* An edited page is of the kind it was.                                   *)
(***************************************************************************)
LEMMA EditedGroup ==
    ASSUME NEW b, IsBoard(b), b.object = "leaderboard", "ranking_groups" \in DOMAIN b,
           NEW k \in DOMAIN b.ranking_groups,
           NEW f \in DOMAIN b.ranking_groups[k], NEW v, Suits(f, v)
    PROVE  LET e == [b EXCEPT !.ranking_groups[k][f] = v]
           IN  IsBoard(e) /\ e.object = "leaderboard"
<1> DEFINE groups == b.ranking_groups
           g == [groups[k] EXCEPT ![f] = v]
           edited == [groups EXCEPT ![k] = g]
           e == [b EXCEPT !.ranking_groups[k][f] = v]
<1>1. e.ranking_groups = edited /\ e.object = "leaderboard"
  OBVIOUS
<1>2. Len(groups) \in Nat /\ DOMAIN groups = 1 .. Len(groups)
  BY DEF IsBoard, IsList
<1>3. IsList(edited)
  <2>1. DOMAIN edited = 1 .. Len(groups) /\ edited = [i \in 1 .. Len(groups) |-> edited[i]]
    BY <1>2
  <2> HIDE DEF edited
  <2>2. \A i \in 1 .. Len(groups) : edited[i] \in Range(edited)
    BY <2>1 DEF Range
  <2>3. edited \in [1 .. Len(groups) -> Range(edited)]
    BY <2>1, <2>2
  <2> QED
    BY <1>2, <2>3 DEF IsList
<1>4. IsGroup(groups[k])
  BY DEF IsBoard, Range
<1>5. IsGroup(g)
  <2>1. groups[k] = [h \in GroupFields |-> groups[k][h]] /\ f \in GroupFields
        /\ \A h \in GroupFields : Suits(h, groups[k][h])
    BY <1>4 DEF IsGroup
  <2>2. g = [h \in GroupFields |-> g[h]] /\ g[f] = v
        /\ \A h \in GroupFields : h # f => g[h] = groups[k][h]
    BY <2>1
  <2> HIDE DEF g
  <2>3. \A h \in GroupFields : Suits(h, g[h])
    BY <2>1, <2>2
  <2> QED
    BY <2>2, <2>3 DEF IsGroup
<1> HIDE DEF g
<1>6. \A i \in DOMAIN edited : edited[i] = g \/ edited[i] = groups[i]
  OBVIOUS
<1>7. DOMAIN edited = DOMAIN groups
  OBVIOUS
<1>8. \A i \in DOMAIN groups : IsGroup(groups[i])
  BY DEF IsBoard, Range
<1> HIDE DEF edited, groups
<1>9. \A x \in Range(edited) : IsGroup(x)
  BY <1>5, <1>6, <1>7, <1>8 DEF Range
<1> HIDE DEF e
<1>10. IsBoard(e) /\ e.object = "leaderboard"
  BY <1>1, <1>3, <1>9 DEF IsBoard
<1> QED
  BY <1>10 DEF e

(***************************************************************************)
(* What a page's kind depends on: an edit keeps its fields, and its kind   *)
(* and groups unless it is an edit of a group.                             *)
(***************************************************************************)
LEMMA SameKind ==
    ASSUME NEW p, NEW q, IsPage(p), DOMAIN q = DOMAIN p, q.object = p.object,
           p.object = "leaderboard" => q.ranking_groups = p.ranking_groups
    PROVE  IsPage(q)
<1>1. CASE p.object = "leaderboard"
  BY <1>1 DEF IsPage, IsBoard, Has
<1>2. CASE p.object = "entity_detail"
  BY <1>2 DEF IsPage, Has
<1>3. CASE p.object = "compare_result"
  BY <1>3 DEF IsPage, Has
<1>4. CASE p.object \notin {"leaderboard", "entity_detail", "compare_result"}
  BY <1>4 DEF IsPage
<1> QED
  BY <1>1, <1>2, <1>3, <1>4

LEMMA Untouched ==
    ASSUME IsUntouched, UNCHANGED readVars PROVE IsUntouched'
  BY DEF readVars, IsUntouched, IsOpened, IsDerived, EntityDetail, CompareResult, Read

LEMMA ReadStep == ReadInv /\ [ReadsNext]_readVars => ReadInv'
<1> SUFFICES ASSUME ReadInv, [ReadsNext]_readVars PROVE ReadInv'
  OBVIOUS
<1>1. ASSUME NEW b \in Boards, PublishBoard(b) PROVE ReadInv'
  <2>1. /\ board' = Leaderboard(b)
        /\ VerifyLeaderboard(board') /\ page' = board' /\ UNCHANGED readEdits
    BY <1>1 DEF PublishBoard
  <2>2. /\ board'.object = "leaderboard" /\ board'.ranking_groups = b.ranking_groups
        /\ Has(board', "ranking_groups")
    BY <2>1, LeaderboardFields
  <2>3. IsBoard(board')
    BY <2>2, PublicReadsAssumption DEF IsBoard
  <2>4. IsPage(page')
    BY <2>1, <2>2, <2>3 DEF IsPage
  <2>5. IsUntouched'
    BY <2>1 DEF IsUntouched
  <2> QED
    BY <2>1, <2>4, <2>5 DEF ReadInv
<1>2. ASSUME NEW m \in Manifests, PublishHealth(m) PROVE ReadInv'
  <2>1. page' = BenchmarkHealth(m) /\ UNCHANGED <<board, readEdits>>
    BY <1>2 DEF PublishHealth
  <2>2. IsPage(page')
    BY <2>1 DEF IsPage, BenchmarkHealth
  <2>3. IsUntouched'
    BY <2>1 DEF IsUntouched
  <2> QED
    BY <2>1, <2>2, <2>3 DEF ReadInv
<1>3. ASSUME Open PROVE ReadInv'
  <2>1. board # Null /\ UNCHANGED <<board, readEdits>>
    BY <1>3 DEF Open
  <2>2. PICK group \in Range(board.ranking_groups) : \E ranking \in Rankings(group) :
           IsDerived(page', group, ranking)
    BY <1>3, Zenon DEF Open, IsDerived
  <2>3. PICK ranking \in Rankings(group) : IsDerived(page', group, ranking)
    BY <2>2
  <2>4. IsPage(page')
    BY <2>3, OpenedRepeats
  <2>5. IsUntouched'
    <3>1. board' = board
      BY <2>1
    <3>2. IsDerived(page', group, ranking) = IsDerived(page, group, ranking)'
      BY <3>1, Zenon DEF IsDerived, EntityDetail, CompareResult, Read
    <3> QED
      BY <2>1, <2>3, <3>1, <3>2 DEF IsUntouched, IsOpened
  <2> QED
    BY <2>1, <2>4, <2>5 DEF ReadInv
<1>4. ASSUME ChangePage PROVE page # Null /\ UNCHANGED board /\ readEdits' \in Nat \ {0}
  BY <1>4 DEF ChangePage, ReadInv
<1>5. ASSUME ChangePage, IsPage(page') PROVE ReadInv'
  BY <1>4, <1>5 DEF ReadInv
<1>6. ASSUME NEW f \in DOMAIN ReadEdits, NEW v \in ReadEdits[f], EditPage(f, v) PROVE ReadInv'
  <2>1. ChangePage /\ page # Null /\ IsPage(page)
    BY <1>4, <1>6 DEF EditPage, ReadInv
  <2>2. f # "object" /\ Suits(f, v)
    BY PublicReadsAssumption
  <2>3. CASE page.object = "leaderboard"
    <3>1. PICK k \in DOMAIN page.ranking_groups :
             /\ Has(page.ranking_groups[k], f)
             /\ page' = [page EXCEPT !.ranking_groups[k][f] = v]
      BY <1>6, <2>3 DEF EditPage
    <3>2. IsBoard(page) /\ "ranking_groups" \in DOMAIN page
      BY <2>1, <2>3 DEF IsPage, Has
    <3>3. k \in DOMAIN page.ranking_groups /\ f \in DOMAIN page.ranking_groups[k]
      BY <3>1 DEF Has
    <3>4. IsBoard(page') /\ page'.object = "leaderboard"
      BY <2>2, <2>3, <3>1, <3>2, <3>3, EditedGroup
    <3>5. "ranking_groups" \in DOMAIN page'
      BY <3>1, <3>2
    <3>6. IsPage(page')
      BY <3>4, <3>5 DEF IsPage, Has
    <3> QED
      BY <1>5, <2>1, <3>6
  <2>4. CASE page.object # "leaderboard"
    <3>1. page' = [page EXCEPT ![f] = v]
      BY <1>6, <2>4 DEF EditPage
    <3>2. DOMAIN page' = DOMAIN page /\ page'.object = page.object
      BY <2>2, <3>1
    <3> QED
      BY <1>5, <2>1, <2>4, <3>2, SameKind
  <2> QED
    BY <2>3, <2>4
<1>7. ASSUME Promote PROVE ReadInv'
  <2>1. ChangePage /\ page # Null /\ IsPage(page)
    BY <1>4, <1>7 DEF Promote, ReadInv
  <2>2. /\ DOMAIN page' = DOMAIN page /\ page'.object = page.object
        /\ page.object \in {"entity_detail", "compare_result"}
    <3>1. CASE /\ page.object = "entity_detail"
               /\ page' = [page EXCEPT !.entity.ranking.in_top_set = TRUE]
      BY <3>1
    <3>2. CASE page.object = "compare_result"
               /\ \E i \in DOMAIN page.entities :
                     page' = [page EXCEPT !.entities[i].ranking.in_top_set = TRUE]
      <4>1. PICK i \in DOMAIN page.entities :
               page' = [page EXCEPT !.entities[i].ranking.in_top_set = TRUE]
        BY <3>2
      <4> QED
        BY <3>2, <4>1
    <3> QED
      BY <1>7, <3>1, <3>2 DEF Promote
  <2> QED
    BY <1>5, <2>1, <2>2, SameKind
<1>8. ASSUME RehashPage PROVE ReadInv'
  <2>1. page # Null /\ IsPage(page) /\ UNCHANGED <<board, readEdits>>
    BY <1>8 DEF RehashPage, ReadInv
  <2>2. /\ DOMAIN page' = DOMAIN page /\ page'.object = page.object
        /\ page'.ranking_groups = page.ranking_groups
    BY <1>8 DEF RehashPage
  <2>3. IsPage(page')
    BY <2>1, <2>2, SameKind
  <2>4. ASSUME readEdits = 0 PROVE UNCHANGED readVars
    BY <1>8, <2>1, <2>4, RehashingSettles DEF ReadInv, readVars
  <2>5. ASSUME readEdits = 0 PROVE IsUntouched'
    <3>1. IsUntouched /\ UNCHANGED readVars
      BY <2>1, <2>4, <2>5 DEF ReadInv
    <3> QED
      BY <3>1, Untouched
  <2> QED
    BY <2>1, <2>3, <2>5 DEF ReadInv
<1>9. ASSUME UNCHANGED readVars PROVE ReadInv'
  <2>1. page' = page /\ board' = board /\ readEdits' = readEdits
    BY <1>9 DEF readVars
  <2>2. IsUntouched => IsUntouched'
    BY <1>9, Untouched
  <2> QED
    BY <2>1, <2>2 DEF ReadInv
<1> QED
  BY <1>1, <1>2, <1>3, <1>6, <1>7, <1>8, <1>9 DEF ReadsNext

(***************************************************************************)
(* The invariant of reads: for any leaderboards, manifests and edits, what *)
(* was published keeps its shape and every page the fields of its kind.    *)
(***************************************************************************)
THEOREM ReadsInvariant == DocumentsSpec => []ReadInv
<1>1. DocumentsInit => ReadInv
  BY DEF DocumentsInit, ReadsInit, ReadInv
<1>2. ReadInv /\ [DocumentsNext]_<<vars, readVars, recordVars, quoteVars>> => ReadInv'
  <2>1. [DocumentsNext]_<<vars, readVars, recordVars, quoteVars>> => [ReadsNext]_readVars
    BY DEF DocumentsNext, Receipts, Reads, Records, Quotes, NoRead
  <2> QED
    BY <2>1, ReadStep
<1> QED
  BY <1>1, <1>2, PTL DEF DocumentsSpec

(* The sections of an accepted page refer to groups that its descriptor lists. *)
LEMMA SectionsRefer ==
    ASSUME ReadInv, board # Null, page # Null, Accepts(page),
           page.snapshot_set_id = board.snapshot_set_id, NEW s \in Sections(page)
    PROVE  /\ \E g \in Range(board.ranking_groups) : Reference(g) = Reference(s)
           /\ EvidenceFitsClaim(s) /\ Claim(s) \in {"explorer", "top_set"}
<1> DEFINE d == board.snapshot_set_descriptor
           listed == d.ranking_group_snapshots
<1>1. VerifyLeaderboard(board) /\ IsBoard(board)
  BY IssuedBoards
<1>2. /\ board.snapshot_set_id = Hash(d)
      /\ Range(listed) = {Reference(g) : g \in Range(board.ranking_groups)}
  BY <1>1, BoardsReferToTheirGroups
<1> HIDE DEF d
<1>3. ASSUME page.snapshot_set_id = Hash(page.snapshot_set_descriptor)
      PROVE  page.snapshot_set_descriptor = d
  BY <1>2, <1>3, HashIsInjective
<1>4. CASE page.object = "leaderboard"
  <2>1. VerifyLeaderboard(page) /\ IsBoard(page) /\ Sections(page) = Range(page.ranking_groups)
    BY <1>4 DEF ReadInv, IsPage, Accepts, Sections
  <2>2. /\ page.snapshot_set_id = Hash(page.snapshot_set_descriptor)
        /\ Range(page.snapshot_set_descriptor.ranking_group_snapshots)
              = {Reference(g) : g \in Range(page.ranking_groups)}
    BY <2>1, BoardsReferToTheirGroups
  <2>3. Reference(s) \in Range(listed)
    BY <1>3, <2>1, <2>2
  <2>4. EvidenceFitsClaim(s) /\ Claim(s) \in {"explorer", "top_set"}
    BY <2>1, GroupsAreVerified
  <2> QED
    BY <1>2, <2>3, <2>4
<1>5. ASSUME VerifySnapshotReference(page),
             VerifyEligibilitySummaryState(page.eligibility_summary, page.state), s = page
      PROVE  /\ \E g \in Range(board.ranking_groups) : Reference(g) = Reference(s)
             /\ EvidenceFitsClaim(s) /\ Claim(s) \in {"explorer", "top_set"}
  <2>1. /\ page.snapshot_set_id = Hash(page.snapshot_set_descriptor)
        /\ Reference(page) \in Range(page.snapshot_set_descriptor.ranking_group_snapshots)
        /\ EvidenceFitsClaim(page)
    BY <1>5 DEF VerifySnapshotReference, IsBound, SnapshotSetId
  <2>2. Claim(page) \in {"explorer", "top_set"}
    BY <1>5 DEF VerifyEligibilitySummaryState, Claim
  <2> QED
    BY <1>2, <1>3, <1>5, <2>1, <2>2
<1>6. CASE page.object = "entity_detail"
  BY <1>5, <1>6 DEF Accepts, VerifyEntityDetail, Sections
<1>7. CASE page.object = "compare_result"
  BY <1>5, <1>7 DEF Accepts, VerifyCompareResult, Sections
<1> QED
  BY <1>4, <1>6, <1>7 DEF Sections

(***************************************************************************)
(* The public documents: verify_leaderboard_semantics and its like.  For   *)
(* any leaderboards and edits, a page that is accepted under the issued    *)
(* leaderboard's id claims for each of its groups just what that           *)
(* leaderboard claims: the hash fixes the evidence ids, the evidence ids   *)
(* fix the strength of the claim.                                          *)
(***************************************************************************)
THEOREM ClaimsTheorem == DocumentsSpec => []ClaimFollowsTheSnapshot
<1>1. ReadInv => ClaimFollowsTheSnapshot
  <2> SUFFICES ASSUME ReadInv, Accepted, board # Null,
                      page.snapshot_set_id = board.snapshot_set_id, NEW s \in Sections(page)
               PROVE  \E g \in Range(board.ranking_groups) :
                         Reference(g) = Reference(s) /\ Claim(g) = Claim(s)
    BY DEF ClaimFollowsTheSnapshot
  <2>1. page # Null /\ Accepts(page)
    BY DEF Accepted
  <2>2. /\ \E g \in Range(board.ranking_groups) : Reference(g) = Reference(s)
        /\ EvidenceFitsClaim(s) /\ Claim(s) \in {"explorer", "top_set"}
    BY <2>1, SectionsRefer
  <2>3. PICK g \in Range(board.ranking_groups) : Reference(g) = Reference(s)
    BY <2>2
  <2>4. EvidenceFitsClaim(g) /\ Claim(g) \in {"explorer", "top_set"}
    BY IssuedBoards, GroupsAreVerified
  <2> QED
    BY <2>2, <2>3, <2>4, EvidenceDecidesClaim
<1> QED
  BY <1>1, ReadsInvariant, PTL

(***************************************************************************)
(* A row repeats the ranking of its entry and cites what its source cites. *)
(***************************************************************************)
LEMMA RowFields ==
    ASSUME NEW entries, IsEntries(entries), NEW e \in Range(entries), NEW source
    PROVE  /\ Row(e, source).ranking = e.ranking
           /\ Row(e, source).citations = source.citations
           /\ Row(e, source).evaluated_configuration_id = e.evaluated_configuration_id
<1> DEFINE own == [citations |-> source.citations]
<1>1. DOMAIN e = {"evaluated_configuration_id", "ranking"}
  BY DEF IsEntries
<1>2. DOMAIN own = {"citations"} /\ own.citations = source.citations
  OBVIOUS
<1>3. Row(e, source) = Joined(e, own)
  BY DEF Row
<1> HIDE DEF own
<1>4. /\ \A f \in DOMAIN e : Joined(e, own)[f] = e[f]
      /\ \A f \in DOMAIN own \ DOMAIN e : Joined(e, own)[f] = own[f]
  BY JoinedFields
<1> QED
  BY <1>1, <1>2, <1>3, <1>4

LEMMA TopSetSummary ==
    ASSUME NEW e, NEW state, VerifyEligibilitySummaryState(e, state),
           e.published_claim = "top_set"
    PROVE  /\ e.calibration_status = "validated" /\ state # "quarantined"
           /\ e.current_independent_family_count >= e.required_independent_family_count
           /\ e.current_overlap_count >= e.required_overlap_count
           /\ e.rank_eligible_configuration_count > 0
<1>1. /\ e.calibration_status = "validated" /\ e.gap_codes = <<>>
      /\ VerifyEligibilityCountGaps(e)
      /\ state = "quarantined" => "quarantined" \in Range(e.gap_codes)
  BY DEF VerifyEligibilitySummaryState
<1>2. Range(e.gap_codes) = {}
  BY <1>1 DEF Range
<1>3. /\ VerifyCountGap(e, "current_independent_family_count",
                        "required_independent_family_count", "insufficient_independent_families")
      /\ VerifyCountGap(e, "current_overlap_count",
                        "required_overlap_count", "insufficient_configuration_overlap")
      /\ e.rank_eligible_configuration_count \in Nat
      /\ e.rank_eligible_configuration_count # 0
  BY <1>1, <1>2 DEF VerifyEligibilityCountGaps
<1>4. /\ e.current_independent_family_count \in Nat /\ e.required_independent_family_count \in Nat
      /\ ~(e.current_independent_family_count < e.required_independent_family_count)
      /\ e.current_overlap_count \in Nat /\ e.required_overlap_count \in Nat
      /\ ~(e.current_overlap_count < e.required_overlap_count)
  BY <1>2, <1>3 DEF VerifyCountGap
<1> QED
  BY <1>1, <1>2, <1>3, <1>4

(***************************************************************************)
(* The rows of a group of a leaderboard, and of any other read.            *)
(***************************************************************************)
LEMMA GroupRows ==
    ASSUME NEW g, IsGroup(g), NEW row \in Rows(g)
    PROVE  \/ \E e \in Range(g.entries) :
                row.ranking = e.ranking /\ row.citations = g.citations
           \/ \E v \in Range(g.explorer_views) : \E e \in Range(v.entries) :
                row.ranking = e.ranking /\ row.citations = v.citations
<1>1. DOMAIN g = GroupFields /\ IsEntries(g.entries)
      /\ \A v \in Range(g.explorer_views) : IsEntries(v.entries)
  <2>1. Suits("entries", g.entries) /\ Suits("explorer_views", g.explorer_views)
    BY DEF IsGroup, GroupFields
  <2> QED
    BY <2>1 DEF IsGroup, Suits
<1>2. Rows(g) = {Row(e, g) : e \in Range(g.entries)}
                  \cup UNION {{Row(e, v) : e \in Range(v.entries)} : v \in Range(g.explorer_views)}
  BY <1>1 DEF Rows, GroupFields
<1>3. CASE row \in {Row(e, g) : e \in Range(g.entries)}
  BY <1>1, <1>3, RowFields
<1>4. CASE row \in UNION {{Row(e, v) : e \in Range(v.entries)} : v \in Range(g.explorer_views)}
  <2>1. PICK v \in Range(g.explorer_views) : \E e \in Range(v.entries) : row = Row(e, v)
    BY <1>4
  <2>2. PICK e \in Range(v.entries) : row = Row(e, v)
    BY <2>1
  <2>3. row.ranking = e.ranking /\ row.citations = v.citations
    BY <1>1, <2>2, RowFields
  <2> QED
    BY <2>3
<1> QED
  BY <1>2, <1>3, <1>4

LEMMA EarnedTopSet ==
    ASSUME ReadInv, Accepted PROVE TopSetIsEarned
<1> DEFINE Earned(s, row) ==
        /\ s.evidence_snapshot_id[1] = "snapshot" /\ s.state # "quarantined"
        /\ row.citations # <<>>
        /\ LET e == s.eligibility_summary
           IN /\ e.calibration_status = "validated"
              /\ e.current_independent_family_count >= e.required_independent_family_count
              /\ e.current_overlap_count >= e.required_overlap_count
              /\ e.rank_eligible_configuration_count > 0
<1> SUFFICES ASSUME NEW s \in Sections(page), NEW row \in Rows(s), row.ranking.in_top_set
             PROVE  Earned(s, row)
  BY DEF TopSetIsEarned
<1>1. ASSUME Claim(s) = "top_set", EvidenceFitsClaim(s), row.citations # <<>>,
             VerifyEligibilitySummaryState(s.eligibility_summary, s.state)
      PROVE  Earned(s, row)
  <2>1. s.evidence_snapshot_id[1] = "snapshot" /\ s.eligibility_summary.published_claim = "top_set"
    BY <1>1 DEF EvidenceFitsClaim, Prefix, Claim
  <2> QED
    BY <1>1, <2>1, TopSetSummary
<1> HIDE DEF Earned
<1>2. page # Null /\ Accepts(page) /\ IsPage(page)
  BY DEF Accepted, ReadInv
<1>3. CASE page.object = "leaderboard"
  <2>1. VerifyLeaderboard(page) /\ IsBoard(page) /\ s \in Range(page.ranking_groups)
    BY <1>2, <1>3 DEF IsPage, Accepts, Sections
  <2>2. /\ VerifyGroup(s, page.generated_at) /\ EvidenceFitsClaim(s)
        /\ Claim(s) \in {"explorer", "top_set"} /\ IsGroup(s)
    BY <2>1, GroupsAreVerified DEF IsBoard
  <2>3. VerifyEligibilitySummaryState(s.eligibility_summary, s.state)
    BY <2>2 DEF VerifyGroup, VerifyEligibility
  <2>4. CASE \E e \in Range(s.entries) : row.ranking = e.ranking /\ row.citations = s.citations
    <3>1. PICK e \in Range(s.entries) : row.ranking = e.ranking /\ row.citations = s.citations
      BY <2>4
    <3>2. HasTopSet(s) /\ s.entries # <<>>
      BY <3>1 DEF HasTopSet, Range
    <3>3. Claim(s) = "top_set"
      BY <2>2, <3>2 DEF VerifyGroup, VerifyClaimTopSet
    <3>4. row.citations # <<>>
      BY <2>2, <3>1, <3>2, <3>3 DEF VerifyGroup
    <3> QED
      BY <1>1, <2>2, <2>3, <3>3, <3>4
  <2>5. CASE \E v \in Range(s.explorer_views) : \E e \in Range(v.entries) :
                row.ranking = e.ranking /\ row.citations = v.citations
    <3>1. PICK v \in Range(s.explorer_views) : \E e \in Range(v.entries) : row.ranking = e.ranking
      BY <2>5
    <3>2. VerifyExplorerView(v, page.generated_at)
      BY <2>2, <3>1 DEF VerifyGroup, VerifyExplorerViews
    <3> QED
      BY <3>1, <3>2 DEF VerifyExplorerView
  <2> QED
    BY <2>2, <2>4, <2>5, GroupRows
<1>4. ASSUME s = page, VerifySnapshotReference(page), VerifyProjection(page, row),
             VerifyEligibilitySummaryState(page.eligibility_summary, page.state)
      PROVE  Earned(s, row)
  <2>1. /\ EvidenceFitsClaim(page) /\ Claim(page) # "explorer" /\ row.citations # <<>>
    BY <1>4 DEF VerifySnapshotReference, VerifyProjection, VerifyClaimTopSet,
                VerifySelectedExplorerView
  <2>2. Claim(page) = "top_set"
    BY <1>4, <2>1 DEF VerifyEligibilitySummaryState, Claim
  <2> QED
    BY <1>1, <1>4, <2>1, <2>2
<1>5. CASE page.object = "entity_detail"
  <2>1. s = page /\ row = page.entity
    <3>1. "entity" \in DOMAIN page /\ "entities" \notin DOMAIN page /\ Sections(page) = {page}
      BY <1>2, <1>5 DEF IsPage, Has, Sections
    <3>2. Rows(page) = {page.entity}
      BY <3>1 DEF Rows
    <3> QED
      BY <3>1, <3>2
  <2> QED
    BY <1>2, <1>4, <1>5, <2>1 DEF Accepts, VerifyEntityDetail
<1>6. CASE page.object = "compare_result"
  <2>1. s = page /\ row \in Range(page.entities)
    BY <1>2, <1>6 DEF IsPage, Has, Sections, Rows
  <2> QED
    BY <1>2, <1>4, <1>6, <2>1 DEF Accepts, VerifyCompareResult
<1> QED
  BY <1>3, <1>5, <1>6 DEF Sections

(***************************************************************************)
(* An expired view is disclosed by each group that shows it, and its rows  *)
(* are marked.                                                             *)
(***************************************************************************)
LEMMA ExpiredIsMarked ==
    ASSUME NEW g, NEW time, VerifyGroup(g, time),
           NEW v \in Range(g.explorer_views), v.expires_at <= time
    PROVE  /\ "evidence_stale" \in Range(g.eligibility_summary.gap_codes)
           /\ \A e \in Range(v.entries) : "evidence_stale" \in Range(e.ranking.caveat_codes)
<1>1. IsStale(v, time)
  BY DEF IsStale
<1>2. HasStaleView(g.explorer_views, time)
  BY <1>1 DEF HasStaleView
<1>3. VerifyExplorerView(v, time)
  BY DEF VerifyGroup, VerifyExplorerViews
<1> QED
  BY <1>1, <1>2, <1>3 DEF VerifyGroup, VerifyExplorerView

LEMMA GroupsDiffer ==
    ASSUME NEW b, VerifyLeaderboard(b), NEW g \in Range(b.ranking_groups),
           NEW h \in Range(b.ranking_groups), Reference(g) = Reference(h)
    PROVE  g = h
<1>1. g.ranking_group_id = h.ranking_group_id
  <2>1. /\ Reference(g).ranking_group_id = g.ranking_group_id
        /\ Reference(h).ranking_group_id = h.ranking_group_id
    BY DEF Reference
  <2> QED
    BY <2>1
<1>2. Unique(b.ranking_groups, LAMBDA x : x.ranking_group_id)
  BY DEF VerifyLeaderboard
<1> QED
  BY <1>1, <1>2 DEF Unique, Range

(***************************************************************************)
(* Only the rows of a view can be opened in a group that has views: the    *)
(* calibrated ranking of such a group is empty.                            *)
(***************************************************************************)
LEMMA OpenedFromView ==
    ASSUME NEW g, NEW time, VerifyGroup(g, time), g.explorer_views # <<>>,
           NEW ranking \in Rankings(g), CanOpen(g, ranking)
    PROVE  \E v \in Range(g.explorer_views) : ranking = FromView(v)
<1>1. g.entries = <<>>
  <2>1. Claim(g) # "top_set"
    BY DEF VerifyGroup
  <2>2. Claim(g) \in {"explorer", "top_set"}
    BY DEF VerifyGroup, VerifyEligibility, VerifyEligibilitySummaryState, Claim
  <2> QED
    BY <2>1, <2>2 DEF VerifyGroup
<1>2. ranking.entries # <<>>
  BY DEF CanOpen
<1>3. ranking # Calibrated(g)
  BY <1>1, <1>2 DEF Calibrated
<1> QED
  BY <1>3 DEF Rankings

LEMMA ShownRows ==
    ASSUME NEW p, NEW group, NEW ranking, IsDerived(p, group, ranking), IsEntries(ranking.entries),
           NEW row \in Rows(p)
    PROVE  \E e \in Range(ranking.entries) : row.ranking = e.ranking
<1>1. CASE \E entry \in Range(ranking.entries) : p = EntityDetail(group, ranking, entry)
  <2>1. PICK e \in Range(ranking.entries) : p = EntityDetail(group, ranking, e)
    BY <1>1
  <2>2. /\ "entity" \in DOMAIN p /\ "entities" \notin DOMAIN p
        /\ p.entity.ranking = e.ranking
    BY <2>1, DetailsRepeat DEF Has
  <2>3. row = p.entity
    BY <2>2 DEF Rows
  <2> QED
    BY <2>2, <2>3
<1>2. CASE p = CompareResult(group, ranking)
  <2>1. /\ "entities" \in DOMAIN p /\ "entity" \notin DOMAIN p
        /\ p.entities = CitedRows(ranking)
    BY <1>2, ComparisonsRepeat DEF Has
  <2>2. row \in Range(CitedRows(ranking))
    BY <2>1 DEF Rows
  <2>3. PICK i \in DOMAIN ranking.entries : row = Row(ranking.entries[i], ranking)
    BY <2>2 DEF CitedRows, Range
  <2>4. ranking.entries[i] \in Range(ranking.entries)
    BY DEF Range
  <2>5. row.ranking = ranking.entries[i].ranking
    BY <2>3, <2>4, RowFields
  <2> QED
    BY <2>4, <2>5
<1> QED
  BY <1>1, <1>2 DEF IsDerived

LEMMA DisclosedStale ==
    ASSUME ReadInv, Accepted, board # Null PROVE StaleIsDisclosed
<1> SUFFICES ASSUME NEW s \in Sections(page),
                    NEW group, group = CHOOSE g \in Range(board.ranking_groups) :
                                          Reference(g) = Reference(s),
                    NEW shown, shown = CASE page.object = "leaderboard" -> Range(s.explorer_views)
                           [] page.object # "leaderboard" /\ readEdits > 0 -> {}
                           [] OTHER -> {v \in Range(group.explorer_views) :
                                           ViewName(v) = s.explorer_view},
                    NEW expired, expired = {v \in shown : v.expires_at <= page.generated_at},
                    expired # {}
             PROVE  /\ "evidence_stale" \in Range(s.eligibility_summary.gap_codes)
                    /\ IF page.object = "leaderboard"
                       THEN \A v \in expired : AreMarked(Range(v.entries))
                       ELSE expired = shown => AreMarked(Rows(s))
  BY DEF StaleIsDisclosed
<1>1. page # Null /\ Accepts(page)
  BY DEF Accepted
<1>2. CASE page.object = "leaderboard"
  <2>1. VerifyGroup(s, page.generated_at)
    BY <1>1, <1>2, GroupsAreVerified DEF Accepts, Sections
  <2>2. expired \subseteq Range(s.explorer_views)
    BY <1>2
  <2>3. \A v \in expired : v \in Range(s.explorer_views) /\ v.expires_at <= page.generated_at
    BY <2>2
  <2> QED
    BY <1>2, <2>1, <2>3, ExpiredIsMarked DEF AreMarked
<1>3. CASE page.object # "leaderboard"
  <2>1. readEdits = 0
    BY <1>3 DEF ReadInv
  <2>2. /\ shown = {v \in Range(group.explorer_views) : ViewName(v) = s.explorer_view}
    BY <1>3, <2>1
  <2>3. IsOpened
    <3>1. page # board
      BY <1>3, IssuedBoards
    <3>2. ASSUME NEW m \in Manifests, page = BenchmarkHealth(m) PROVE FALSE
      BY <3>2 DEF BenchmarkHealth, Sections
    <3> QED
      BY <1>1, <2>1, <3>1, <3>2 DEF ReadInv, IsUntouched
  <2>4. PICK g \in Range(board.ranking_groups) : \E ranking \in Rankings(g) :
           IsDerived(page, g, ranking)
    BY <2>3 DEF IsOpened
  <2>5. PICK ranking \in Rankings(g) : IsDerived(page, g, ranking)
    BY <2>4
  <2>6. Repeats(page, g, ranking) /\ page.object \in {"entity_detail", "compare_result"}
    BY <2>5, OpenedRepeats
  <2>7. s = page
    BY <2>6 DEF Sections
  <2>8. VerifyLeaderboard(board) /\ IsBoard(board)
    BY IssuedBoards
  <2>9. group = g
    <3>1. Reference(g) = Reference(s)
      BY <2>6, <2>7 DEF Repeats
    <3>2. group \in Range(board.ranking_groups) /\ Reference(group) = Reference(s)
      BY <2>4, <3>1
    <3> QED
      BY <2>4, <2>8, <3>1, <3>2, GroupsDiffer
  <2>10. VerifyGroup(g, page.generated_at)
    BY <2>4, <2>6, <2>8, GroupsAreVerified DEF Repeats
  <2>11. PICK v \in expired : TRUE
    OBVIOUS
  <2>12. v \in Range(g.explorer_views) /\ v.expires_at <= page.generated_at
    BY <2>2, <2>9
  <2>13. "evidence_stale" \in Range(s.eligibility_summary.gap_codes)
    <3>1. "evidence_stale" \in Range(g.eligibility_summary.gap_codes)
      BY <2>10, <2>12, ExpiredIsMarked
    <3> QED
      BY <2>6, <2>7, <3>1 DEF Repeats
  <2>14. ASSUME expired = shown PROVE AreMarked(Rows(s))
    <3>1. g.explorer_views # <<>> /\ CanOpen(g, ranking)
      BY <2>5, <2>12 DEF Range, IsDerived
    <3>2. PICK w \in Range(g.explorer_views) : ranking = FromView(w)
      BY <2>10, <3>1, OpenedFromView
    <3>3. ranking.entries = w.entries /\ ranking.explorer_view = ViewName(w)
      BY <3>2 DEF FromView
    <3>4. w \in shown
      BY <2>2, <2>6, <2>7, <2>9, <3>3 DEF Repeats
    <3>5. \A e \in Range(w.entries) : "evidence_stale" \in Range(e.ranking.caveat_codes)
      BY <2>10, <2>14, <3>2, <3>4, ExpiredIsMarked
    <3>6. IsEntries(w.entries)
      <4>1. IsGroup(g)
        BY <2>4, <2>8 DEF IsBoard
      <4>2. Suits("explorer_views", g.explorer_views)
        BY <4>1 DEF IsGroup, GroupFields
      <4> QED
        BY <3>2, <4>2 DEF Suits
    <3>7. \A row \in Rows(page) : \E e \in Range(w.entries) : row.ranking = e.ranking
      BY <2>5, <3>3, <3>6, ShownRows
    <3> QED
      BY <2>7, <3>5, <3>7 DEF AreMarked
  <2> QED
    BY <1>3, <2>13, <2>14
<1> QED
  BY <1>2, <1>3

(***************************************************************************)
(* The eligibility gate: for any leaderboards and edits, an accepted page  *)
(* shows a row in the top set only where the evidence has earned it.       *)
(***************************************************************************)
THEOREM ClaimsAreEarned == DocumentsSpec => []TopSetIsEarned
<1>1. ReadInv => TopSetIsEarned
  BY EarnedTopSet DEF TopSetIsEarned
<1> QED
  BY <1>1, ReadsInvariant, PTL

(***************************************************************************)
(* The freshness of views: no leaderboard that is accepted, however it was *)
(* edited, and no read as it was opened from one, shows an expired view    *)
(* without saying so.                                                      *)
(***************************************************************************)
THEOREM StaleTheorem == DocumentsSpec => []StaleIsDisclosed
<1>1. ReadInv => StaleIsDisclosed
  BY DisclosedStale DEF StaleIsDisclosed
<1> QED
  BY <1>1, ReadsInvariant, PTL

(***************************************************************************)
(* What the server may open in a group that the verifier accepts.          *)
(***************************************************************************)
LEMMA OpenedRankings ==
    ASSUME NEW g, IsGroup(g), NEW time, VerifyGroup(g, time),
           NEW ranking \in Rankings(g), CanOpen(g, ranking),
           NEW p, Claim(p) = Claim(g), p.explorer_view = ranking.explorer_view
    PROVE  /\ VerifyRankings(ranking.entries) /\ IsEntries(ranking.entries)
           /\ \A e \in Range(ranking.entries) : VerifyClaimTopSet(Claim(p), e.ranking.in_top_set)
           /\ VerifySelectedExplorerView(p, ranking.citations)
           /\ \E source \in Sources(g) : ranking.entries = source.entries
<1>1. /\ IsEntries(g.entries)
      /\ \A v \in Range(g.explorer_views) : IsEntries(v.entries) /\ ViewName(v) # Null
  <2>1. Suits("entries", g.entries) /\ Suits("explorer_views", g.explorer_views)
    BY DEF IsGroup, GroupFields
  <2> QED
    BY <2>1 DEF Suits
<1>2. Claim(g) \in {"explorer", "top_set"}
  BY DEF VerifyGroup, VerifyEligibility, VerifyEligibilitySummaryState, Claim
<1>3. ranking.entries # <<>> /\ ranking.citations # <<>>
  BY DEF CanOpen
<1>4. CASE ranking = Calibrated(g)
  <2>1. /\ ranking.entries = g.entries /\ ranking.citations = g.citations
        /\ ranking.explorer_view = Null
    BY <1>4 DEF Calibrated
  <2>2. Claim(g) = "top_set"
    BY <1>2, <1>3, <2>1 DEF VerifyGroup
  <2>3. \A e \in Range(ranking.entries) : VerifyClaimTopSet(Claim(p), e.ranking.in_top_set)
    BY <2>2 DEF VerifyClaimTopSet
  <2>4. VerifyRankings(ranking.entries)
    BY <2>1 DEF VerifyGroup
  <2>5. VerifySelectedExplorerView(p, ranking.citations)
    BY <1>3, <2>1, <2>2 DEF VerifySelectedExplorerView
  <2>6. g \in Sources(g)
    BY DEF Sources
  <2> QED
    BY <1>1, <2>1, <2>3, <2>4, <2>5, <2>6
<1>5. CASE ranking \in {FromView(v) : v \in Range(g.explorer_views)}
  <2>1. PICK v \in Range(g.explorer_views) : ranking = FromView(v)
    BY <1>5
  <2>2. /\ ranking.entries = v.entries /\ ranking.citations = v.citations
        /\ ranking.explorer_view = ViewName(v)
        /\ ViewName(v).benchmark_family_id = v.benchmark_family_id
    BY <2>1 DEF FromView, ViewName
  <2>3. g.explorer_views # <<>>
    BY <2>1 DEF Range
  <2>4. Claim(g) = "explorer"
    BY <1>2, <2>3 DEF VerifyGroup
  <2>5. VerifyExplorerView(v, time)
    BY <2>1 DEF VerifyGroup, VerifyExplorerViews
  <2>6. \A e \in Range(ranking.entries) : VerifyClaimTopSet(Claim(p), e.ranking.in_top_set)
    BY <2>2, <2>5 DEF VerifyClaimTopSet, VerifyExplorerView
  <2>7. VerifyRankings(ranking.entries)
    BY <2>2, <2>5 DEF VerifyExplorerView
  <2>8. VerifySelectedExplorerView(p, ranking.citations)
    <3>1. \A c \in Range(ranking.citations) : c = p.explorer_view.benchmark_family_id
      BY <2>2, <2>5 DEF VerifyExplorerView
    <3>2. p.explorer_view # Null
      BY <1>1, <2>1, <2>2
    <3> QED
      BY <1>3, <2>4, <3>1, <3>2 DEF VerifySelectedExplorerView
  <2>9. v \in Sources(g)
    BY <2>1 DEF Sources
  <2> QED
    BY <1>1, <2>1, <2>2, <2>6, <2>7, <2>8, <2>9
<1> QED
  BY <1>4, <1>5 DEF Rankings

LEMMA OpenedIsAccepted == ReadInv /\ IsOpened => Accepts(page)
<1> SUFFICES ASSUME ReadInv, IsOpened PROVE Accepts(page)
  OBVIOUS
<1>1. board # Null
  BY DEF IsOpened
<1>2. /\ VerifyLeaderboard(board) /\ IsBoard(board) /\ Envelope(board) = Cell
      /\ \E b \in Boards : board.ranking_groups = b.ranking_groups
  BY <1>1, IssuedBoards
<1>3. PICK g \in Range(board.ranking_groups) : \E ranking \in Rankings(g) :
         IsDerived(page, g, ranking)
  BY DEF IsOpened
<1>4. PICK ranking \in Rankings(g) : IsDerived(page, g, ranking)
  BY <1>3
<1>5. Repeats(page, g, ranking) /\ CanOpen(g, ranking)
  BY <1>4, OpenedRepeats DEF IsDerived
<1>6. VerifyGroup(g, board.generated_at) /\ EvidenceFitsClaim(g) /\ IsGroup(g)
  BY <1>2, GroupsAreVerified DEF IsBoard
<1>7. Claim(page) = Claim(g) /\ page.explorer_view = ranking.explorer_view
  BY <1>5 DEF Repeats, Claim
<1>8. VerifySnapshotReference(page)
  <2>1. IsBound(page)
    <3>1. IsBound(board)
      BY <1>2 DEF VerifyLeaderboard, VerifyLeaderboardSnapshotSet
    <3> QED
      BY <1>2, <1>5, <3>1 DEF IsBound, Repeats
  <2>2. Reference(page) \in Range(page.snapshot_set_descriptor.ranking_group_snapshots)
    <3>1. Range(board.snapshot_set_descriptor.ranking_group_snapshots)
             = {Reference(h) : h \in Range(board.ranking_groups)}
      BY <1>2, BoardsReferToTheirGroups
    <3> QED
      BY <1>5, <3>1 DEF Repeats
  <2>3. page.state \in {"active", "preview", "shadow"}
    BY <1>5, <1>6 DEF Repeats, CanOpen, VerifyGroup, PublicationStates
  <2>4. EvidenceFitsClaim(page)
    <3>1. page.evidence_snapshot_id = g.evidence_snapshot_id
      <4>1. /\ Reference(page).evidence_snapshot_id = page.evidence_snapshot_id
            /\ Reference(g).evidence_snapshot_id = g.evidence_snapshot_id
        BY DEF Reference
      <4> QED
        BY <1>5, <4>1 DEF Repeats
    <3> QED
      BY <1>6, <1>7, <3>1 DEF EvidenceFitsClaim, Prefix
  <2> QED
    BY <2>1, <2>2, <2>3, <2>4 DEF VerifySnapshotReference
<1>9. VerifyEligibilitySummaryState(page.eligibility_summary, page.state)
  BY <1>5, <1>6 DEF Repeats, VerifyGroup, VerifyEligibility
<1>10. /\ VerifyRankings(ranking.entries) /\ IsEntries(ranking.entries)
       /\ \A e \in Range(ranking.entries) : VerifyClaimTopSet(Claim(page), e.ranking.in_top_set)
       /\ VerifySelectedExplorerView(page, ranking.citations)
       /\ \E source \in Sources(g) : ranking.entries = source.entries
  BY <1>4, <1>5, <1>6, <1>7, OpenedRankings
<1>11. ASSUME NEW row, NEW e \in Range(ranking.entries), row.ranking = e.ranking,
              row.citations = ranking.citations
       PROVE  VerifyProjection(page, row)
  <2>1. VerifyRanking(e.ranking)
    BY <1>10 DEF VerifyRankings, Range
  <2> QED
    BY <1>10, <1>11, <2>1 DEF VerifyProjection
<1>12. CASE \E entry \in Range(ranking.entries) : page = EntityDetail(g, ranking, entry)
  <2>1. PICK e \in Range(ranking.entries) : page = EntityDetail(g, ranking, e)
    BY <1>12
  <2>2. /\ page.object = "entity_detail"
        /\ page.entity.ranking = e.ranking /\ page.entity.citations = ranking.citations
        /\ page.entity.evaluated_configuration = Configured(e)
    BY <2>1, DetailsRepeat
  <2>3. IsConfiguration(Configured(e))
    <3>1. PICK source \in Sources(g) : e \in Range(source.entries)
      BY <1>10
    <3> QED
      BY <1>2, <1>3, <3>1, PublicReadsAssumption
  <2>4. VerifyProjection(page, page.entity)
    BY <1>11, <2>2
  <2> QED
    BY <1>8, <1>9, <2>2, <2>3, <2>4 DEF Accepts, VerifyEntityDetail
<1>13. CASE /\ g.identity # Unresolved /\ Len(ranking.entries) \in 2 .. 4
            /\ page = CompareResult(g, ranking)
  <2> DEFINE rows == CitedRows(ranking)
  <2>1. /\ page.object = "compare_result" /\ page.identity = g.identity
        /\ page.entities = rows
    BY <1>13, ComparisonsRepeat
  <2>2. page.identity \in IDENTITY_TRIPLES
    BY <1>6, <1>13, <2>1 DEF VerifyGroup
  <2>3. /\ DOMAIN rows = DOMAIN ranking.entries
        /\ \A i \in DOMAIN rows : rows[i] = Row(ranking.entries[i], ranking)
    BY DEF CitedRows
  <2>4. Len(rows) \in 2 .. 4
    <3>1. ranking.entries \in Seq(Range(ranking.entries))
      BY <1>10 DEF IsEntries, IsList
    <3>2. /\ DOMAIN ranking.entries = 1 .. Len(ranking.entries) /\ Len(ranking.entries) \in Nat
      BY <3>1
    <3>3. rows \in [1 .. Len(ranking.entries) -> Range(rows)]
      BY <3>2 DEF CitedRows, Range
    <3> HIDE DEF rows
    <3>4. Len(rows) = Len(ranking.entries)
      BY <3>2, <3>3
    <3> QED
      BY <1>13, <3>4
  <2> HIDE DEF rows
  <2>5. ASSUME NEW i \in DOMAIN rows
        PROVE  /\ rows[i].ranking = ranking.entries[i].ranking
               /\ rows[i].citations = ranking.citations
               /\ rows[i].evaluated_configuration_id = ranking.entries[i].evaluated_configuration_id
               /\ ranking.entries[i] \in Range(ranking.entries)
               /\ rows[i].ranking.rank = i
    <3>1. ranking.entries[i] \in Range(ranking.entries)
      BY <2>3 DEF Range
    <3>2. ranking.entries[i].ranking.rank = i
      BY <1>10, <2>3 DEF VerifyRankings
    <3> QED
      BY <1>10, <2>3, <3>1, <3>2, RowFields
  <2>6. Unique(rows, LAMBDA e : e.evaluated_configuration_id)
    BY <1>10, <2>3, <2>5 DEF VerifyRankings, Unique
  <2>7. Unique(rows, LAMBDA e : e.ranking.rank)
    BY <2>5 DEF Unique
  <2>8. \A e \in Range(rows) : VerifyProjection(page, e)
    BY <1>11, <2>5 DEF Range
  <2> QED
    BY <1>8, <1>9, <2>1, <2>2, <2>4, <2>6, <2>7, <2>8 DEF Accepts, VerifyCompareResult
<1> QED
  BY <1>4, <1>12, <1>13 DEF IsDerived

(***************************************************************************)
(* A manifest's health: the counts of a cell's row are of sets of which    *)
(* each holds the next.                                                    *)
(***************************************************************************)
LEMMA Fewer ==
    ASSUME NEW S, IsFiniteSet(S), NEW T, T \subseteq S
    PROVE  Cardinality(T) <= Cardinality(S)
  BY FS_Subset

LEMMA HealthRows ==
    ASSUME NEW m \in Manifests, NEW cell
    PROVE  LET row == HealthRow(m, cell)
           IN  /\ row.cell_id = cell
               /\ row.published_ranking_group_count <= row.ranking_group_count
               /\ row.rank_eligible_feed_count <= row.admitted_feed_count
               /\ row.admitted_feed_count <= row.implemented_feed_count
               /\ row.implemented_feed_count <= row.candidate_feed_count
               /\ row.status = HealthStatus(row)
<1> DEFINE groups == {g \in m.ranking_groups : g.cell_id = cell}
           published == {g \in groups : g.state = "active"}
           families == {f \in m.benchmark_families : cell \in f.candidate_cells}
           candidates == {f \in m.feeds : cell \in f.candidate_cells}
           implemented == Feeds(m, cell, {"shadow", "active"})
           admitted == Feeds(m, cell, {"active"})
           eligible == {f \in admitted : f.rank_eligible_count # Null /\ f.rank_eligible_count > 0}
           counts == [cell_id |-> cell,
                      ranking_group_count           |-> Cardinality(groups),
                      published_ranking_group_count |-> Cardinality(published),
                      benchmark_family_count        |-> Cardinality(families),
                      candidate_feed_count          |-> Cardinality(candidates),
                      implemented_feed_count        |-> Cardinality(implemented),
                      admitted_feed_count           |-> Cardinality(admitted),
                      rank_eligible_feed_count      |-> Cardinality(eligible)]
           status == [status |-> CASE counts.published_ranking_group_count > 0 -> "active"
                               [] counts.published_ranking_group_count = 0
                                  /\ counts.implemented_feed_count > 0 -> "preview"
                               [] OTHER -> "unavailable"]
           row == HealthRow(m, cell)
<1>1. /\ IsFiniteSet(m.ranking_groups) /\ IsFiniteSet(m.feeds)
  BY PublicReadsAssumption
<1>2. /\ IsFiniteSet(groups) /\ published \subseteq groups
      /\ IsFiniteSet(candidates) /\ implemented \subseteq candidates
      /\ IsFiniteSet(implemented) /\ admitted \subseteq implemented
      /\ IsFiniteSet(admitted) /\ eligible \subseteq admitted
  <2>1. /\ groups \subseteq m.ranking_groups /\ candidates \subseteq m.feeds
        /\ implemented \subseteq candidates /\ admitted \subseteq implemented
        /\ published \subseteq groups /\ eligible \subseteq admitted
    BY DEF Feeds
  <2> HIDE DEF groups, candidates, implemented, admitted, eligible, published
  <2>2. IsFiniteSet(groups) /\ IsFiniteSet(candidates)
    BY <1>1, <2>1, FS_Subset
  <2>3. IsFiniteSet(implemented)
    BY <2>1, <2>2, FS_Subset
  <2>4. IsFiniteSet(admitted)
    BY <2>1, <2>3, FS_Subset
  <2> QED
    BY <2>1, <2>2, <2>3, <2>4
<1>3. row = Joined(counts, status)
  BY DEF HealthRow
<1> HIDE DEF groups, published, families, candidates, implemented, admitted, eligible
<1>4. /\ Cardinality(published) <= Cardinality(groups)
      /\ Cardinality(implemented) <= Cardinality(candidates)
      /\ Cardinality(admitted) <= Cardinality(implemented)
      /\ Cardinality(eligible) <= Cardinality(admitted)
  BY <1>2, Fewer
<1>5. /\ DOMAIN counts = {"cell_id", "ranking_group_count", "published_ranking_group_count",
                          "benchmark_family_count", "candidate_feed_count",
                          "implemented_feed_count", "admitted_feed_count",
                          "rank_eligible_feed_count"}
      /\ counts.cell_id = cell
      /\ counts.ranking_group_count = Cardinality(groups)
      /\ counts.published_ranking_group_count = Cardinality(published)
      /\ counts.candidate_feed_count = Cardinality(candidates)
      /\ counts.implemented_feed_count = Cardinality(implemented)
      /\ counts.admitted_feed_count = Cardinality(admitted)
      /\ counts.rank_eligible_feed_count = Cardinality(eligible)
  OBVIOUS
<1> HIDE DEF counts
<1>6. /\ DOMAIN status = {"status"}
      /\ status.status = CASE counts.published_ranking_group_count > 0 -> "active"
                           [] counts.published_ranking_group_count = 0
                              /\ counts.implemented_feed_count > 0 -> "preview"
                           [] OTHER -> "unavailable"
  OBVIOUS
<1> HIDE DEF status, row
<1>7. /\ \A f \in DOMAIN counts : row[f] = counts[f]
      /\ \A f \in DOMAIN status \ DOMAIN counts : row[f] = status[f]
  <2>1. /\ \A f \in DOMAIN counts : Joined(counts, status)[f] = counts[f]
        /\ \A f \in DOMAIN status \ DOMAIN counts : Joined(counts, status)[f] = status[f]
    BY JoinedFields
  <2> QED
    BY <1>3, <2>1
<1>8. /\ row.cell_id = counts.cell_id
      /\ row.ranking_group_count = counts.ranking_group_count
      /\ row.published_ranking_group_count = counts.published_ranking_group_count
      /\ row.candidate_feed_count = counts.candidate_feed_count
      /\ row.implemented_feed_count = counts.implemented_feed_count
      /\ row.admitted_feed_count = counts.admitted_feed_count
      /\ row.rank_eligible_feed_count = counts.rank_eligible_feed_count
      /\ row.status = status.status
  BY <1>5, <1>6, <1>7
<1>9. row.status = HealthStatus(row)
  BY <1>6, <1>8 DEF HealthStatus
<1> QED
  BY <1>4, <1>5, <1>8, <1>9 DEF row

LEMMA HealthIsAccepted ==
    ASSUME NEW m \in Manifests PROVE Accepts(BenchmarkHealth(m))
<1> DEFINE health == BenchmarkHealth(m)
           cells == health.cells
<1>1. /\ health.object = "benchmark_health"
      /\ cells = [k \in DOMAIN m.cells |-> HealthRow(m, m.cells[k])]
  BY DEF BenchmarkHealth
<1>2. /\ m.cells \in Seq(Range(m.cells)) /\ m.cells # <<>>
      /\ \A i, j \in DOMAIN m.cells : m.cells[i] = m.cells[j] => i = j
  BY PublicReadsAssumption DEF IsList, IsInjective
<1> HIDE DEF health
<1>3. cells # <<>>
  <2>1. 1 \in DOMAIN m.cells
    BY <1>2
  <2>2. 1 \in DOMAIN cells
    BY <1>1, <2>1
  <2> QED
    BY <2>2
<1> HIDE DEF cells
<1>4. DOMAIN cells = DOMAIN m.cells /\ \A k \in DOMAIN cells : cells[k] = HealthRow(m, m.cells[k])
  BY <1>1
<1>5. Unique(cells, LAMBDA row : row.cell_id)
  <2>1. \A k \in DOMAIN cells : cells[k].cell_id = m.cells[k]
    BY <1>4, HealthRows
  <2> QED
    BY <1>2, <1>4, <2>1 DEF Unique
<1>6. ASSUME NEW row \in Range(cells)
      PROVE  /\ row.published_ranking_group_count <= row.ranking_group_count
             /\ row.rank_eligible_feed_count <= row.admitted_feed_count
             /\ row.admitted_feed_count <= row.implemented_feed_count
             /\ row.implemented_feed_count <= row.candidate_feed_count
             /\ row.status = HealthStatus(row)
  <2>1. PICK k \in DOMAIN cells : row = HealthRow(m, m.cells[k])
    BY <1>4 DEF Range
  <2> QED
    BY <2>1, HealthRows
<1>7. VerifyBenchmarkHealth(health)
  BY <1>3, <1>5, <1>6 DEF VerifyBenchmarkHealth, cells
<1> QED
  BY <1>1, <1>7 DEF Accepts, health

(***************************************************************************)
(* The public documents: the server's derivations and the verifier of the  *)
(* other package agree.  For any leaderboards that the publisher may issue *)
(* and any manifests, the leaderboard, each entity detail and comparison   *)
(* opened from it, and the health of the cells are all accepted.           *)
(***************************************************************************)
THEOREM DerivationsAreAccepted == DocumentsSpec => []DerivedIsAccepted
<1>1. ReadInv => DerivedIsAccepted
  <2> SUFFICES ASSUME ReadInv, page # Null, readEdits = 0 PROVE Accepts(page)
    BY DEF DerivedIsAccepted
  <2>1. IsUntouched
    BY DEF ReadInv
  <2>2. CASE page = board
    <3>1. VerifyLeaderboard(board) /\ board.object = "leaderboard"
      BY <2>2, IssuedBoards
    <3> QED
      BY <2>2, <3>1 DEF Accepts
  <2>3. CASE \E m \in Manifests : page = BenchmarkHealth(m)
    BY <2>3, HealthIsAccepted
  <2>4. CASE IsOpened
    BY <2>4, OpenedIsAccepted
  <2> QED
    BY <2>1, <2>2, <2>3, <2>4 DEF IsUntouched
<1> QED
  BY <1>1, ReadsInvariant, PTL
-------------------------------------------------------------------------------
(* Costs: sums *)

First(s) == CHOOSE x \in s : TRUE

LEMMA FirstOut ==
    ASSUME NEW s, IsFiniteSet(s), s # {}
    PROVE  /\ First(s) \in s
           /\ IsFiniteSet(s \ {First(s)})
           /\ Cardinality(s) \in Nat /\ Cardinality(s \ {First(s)}) \in Nat
           /\ Cardinality(s) = Cardinality(s \ {First(s)}) + 1
<1>1. First(s) \in s
  BY DEF First
<1>2. IsFiniteSet(s \ {First(s)}) /\ Cardinality(s \ {First(s)}) = Cardinality(s) - 1
  BY <1>1, FS_RemoveElement
<1> QED
  BY <1>1, <1>2, FS_CardinalityType

(***************************************************************************)
(* Subsets of a finite set: what holds of a set if it holds of all smaller *)
(* ones holds of every subset.                                             *)
(***************************************************************************)
LEMMA SubsetInduction ==
    ASSUME NEW S, IsFiniteSet(S), NEW P,
           \A s \in SUBSET S : (\A r \in SUBSET s : r # s => r \in P) => s \in P
    PROVE  SUBSET S \subseteq P
<1> DEFINE Sizes == {Cardinality(s) : s \in (SUBSET S) \ P}
<1>1. SUFFICES ASSUME (SUBSET S) \ P # {} PROVE FALSE
  OBVIOUS
<1>2. \A s \in SUBSET S : IsFiniteSet(s) /\ Cardinality(s) \in Nat
  BY FS_Subset, FS_CardinalityType
<1>3. Sizes \in SUBSET Nat /\ Sizes # {}
  BY <1>1, <1>2
<1>4. PICK s \in (SUBSET S) \ P : \A r \in (SUBSET S) \ P : Cardinality(s) <= Cardinality(r)
  <2>1. \E n \in Sizes : \A m \in Sizes : n <= m
    BY <1>3, LeastElement
  <2> QED
    BY <2>1
<1>5. ASSUME NEW r \in SUBSET s, r # s PROVE r \in P
  <2>1. Cardinality(r) <= Cardinality(s) /\ Cardinality(r) # Cardinality(s)
    BY <1>2, <1>4, <1>5, FS_Subset
  <2> QED
    BY <1>2, <1>4, <2>1
<1> QED
  BY <1>4, <1>5

\* A sum over a subset of S is the sum over one element less, and that element's.
IsSum(fold, f, S) ==
    /\ fold[{}] = 0
    /\ \A s \in SUBSET S : s # {} =>
          fold[s \ {First(s)}] \in Nat /\ fold[s] = f[First(s)] + fold[s \ {First(s)}]

(***************************************************************************)
(* The function by which sum(...) is defined exists: it is made of the     *)
(* values for smaller subsets.                                             *)
(***************************************************************************)
LEMMA SumExists ==
    ASSUME NEW S, IsFiniteSet(S), NEW f, \A x \in S : f[x] \in Nat
    PROVE  \E fold \in [SUBSET S -> Nat] : IsSum(fold, f, S)
<1> DEFINE Turn(fold, s) == IF s = {} THEN 0 ELSE f[First(s)] + fold[s \ {First(s)}]
           UpTo(n) == {s \in SUBSET S : Cardinality(s) <= n}
           Sums(n) == \E fold \in [SUBSET S -> Nat] : \A s \in UpTo(n) : fold[s] = Turn(fold, s)
           Bad == {n \in Nat : ~Sums(n)}
<1>1. \A s \in SUBSET S : IsFiniteSet(s) /\ Cardinality(s) \in Nat
  BY FS_Subset, FS_CardinalityType
<1>2. \A s \in SUBSET S : s # {} => First(s) \in S /\ s \ {First(s)} \in SUBSET S
  BY DEF First
<1>3. ASSUME NEW n \in Nat, NEW fold \in [SUBSET S -> Nat],
             \A s \in UpTo(n) : fold[s] = Turn(fold, s)
      PROVE  Sums(n + 1)
  <2> DEFINE more == [s \in SUBSET S |-> Turn(fold, s)]
  <2>1. more \in [SUBSET S -> Nat]
    <3>1. \A s \in SUBSET S : s # {} => f[First(s)] \in Nat /\ fold[s \ {First(s)}] \in Nat
      BY <1>2
    <3>2. \A s \in SUBSET S : Turn(fold, s) \in Nat
      BY <3>1
    <3> QED
      BY <3>2
  <2>2. ASSUME NEW s \in UpTo(n + 1), s # {} PROVE more[s \ {First(s)}] = fold[s \ {First(s)}]
    <3>1. s \ {First(s)} \in UpTo(n)
      BY <1>1, <2>2, FirstOut
    <3> QED
      BY <1>3, <3>1
  <2>3. \A s \in UpTo(n + 1) : more[s] = Turn(more, s)
    BY <2>2
  <2> QED
    BY <2>1, <2>3
<1>4. Sums(0)
  <2>1. \A s \in UpTo(0) : s = {}
    BY <1>1, FS_EmptySet
  <2>2. [s \in SUBSET S |-> 0] \in [SUBSET S -> Nat]
    OBVIOUS
  <2> QED
    BY <2>1, <2>2
<1>5. Bad = {}
  <2>1. SUFFICES ASSUME Bad # {} PROVE FALSE
    OBVIOUS
  <2>2. PICK n \in Bad : \A m \in Bad : n <= m
    BY <2>1, LeastElement
  <2> HIDE DEF Sums
  <2>3. n \in Nat \ {0} /\ ~Sums(n)
    BY <1>4, <2>2
  <2>4. n - 1 \in Nat /\ n - 1 \notin Bad /\ (n - 1) + 1 = n
    BY <2>2, <2>3
  <2>5. Sums(n - 1)
    BY <2>4
  <2>6. \A m \in Nat : Sums(m) => Sums(m + 1)
    BY <1>3 DEF Sums
  <2> QED
    BY <2>3, <2>4, <2>5, <2>6
<1>6. \A s \in SUBSET S : s \in UpTo(Cardinality(S))
  BY FS_Subset
<1>7. Sums(Cardinality(S))
  BY <1>1, <1>5
<1>8. PICK fold \in [SUBSET S -> Nat] : \A s \in SUBSET S : fold[s] = Turn(fold, s)
  BY <1>6, <1>7
<1> QED
  BY <1>2, <1>8 DEF IsSum

\* sum(...) of the code.
Sum(f, S) == FoldFunctionOnSet(+, 0, f, S)

(***************************************************************************)
(* Two sums over the same elements are equal, whatever other elements the  *)
(* functions they are sums of have.                                        *)
(***************************************************************************)
LEMMA SumsAgree ==
    ASSUME NEW S, IsFiniteSet(S), NEW R \in SUBSET S, NEW f, NEW g, NEW p, NEW q,
           IsSum(p, f, S), IsSum(q, g, R), \A x \in R : f[x] = g[x]
    PROVE  p[R] = q[R]
<1> DEFINE P == {s \in SUBSET R : p[s] = q[s]}
<1>1. ASSUME NEW s \in SUBSET R, \A r \in SUBSET s : r # s => r \in P PROVE s \in P
  <2>1. CASE s = {}
    BY <2>1 DEF IsSum
  <2>2. CASE s # {}
    <3>1. First(s) \in s
      BY <2>2 DEF First
    <3>2. p[s \ {First(s)}] = q[s \ {First(s)}]
      BY <1>1, <3>1
    <3> QED
      BY <2>2, <3>1, <3>2 DEF IsSum
  <2> QED
    BY <2>1, <2>2
<1>2. IsFiniteSet(R)
  BY FS_Subset
<1>3. SUBSET R \subseteq P
  <2> HIDE DEF P
  <2> QED
    BY <1>1, <1>2, SubsetInduction
<1> QED
  BY <1>3

LEMMA SumIsSum ==
    ASSUME NEW S, IsFiniteSet(S), NEW f, \A x \in S : f[x] \in Nat
    PROVE  \E fold \in [SUBSET S -> Nat] : IsSum(fold, f, S) /\ Sum(f, S) = fold[S]
<1> DEFINE Sums(fold) ==
               fold = [s \in SUBSET S |->
                          IF s = {} THEN 0
                          ELSE LET x == CHOOSE x \in s : TRUE IN f[x] + fold[s \ {x}]]
           fold == CHOOSE fold : Sums(fold)
<1>1. PICK g \in [SUBSET S -> Nat] : IsSum(g, f, S)
  BY SumExists
<1>2. Sums(g)
  BY <1>1 DEF IsSum, First
<1>3. Sums(fold)
  BY <1>2
<1>4. fold[{}] = 0 /\ \A s \in SUBSET S : s # {} => fold[s] = f[First(s)] + fold[s \ {First(s)}]
  BY <1>3 DEF First
<1>5. Sum(f, S) = fold[S]
  BY DEF Sum, FoldFunctionOnSet, MapThenFoldSet
<1> HIDE DEF fold, Sums
<1> DEFINE P == {s \in SUBSET S : fold[s] = g[s]}
<1>6. ASSUME NEW s \in SUBSET S, \A r \in SUBSET s : r # s => r \in P PROVE s \in P
  <2>1. CASE s = {}
    BY <1>1, <1>4, <2>1 DEF IsSum
  <2>2. CASE s # {}
    <3>1. First(s) \in s
      BY <2>2 DEF First
    <3>2. fold[s \ {First(s)}] = g[s \ {First(s)}]
      BY <1>6, <3>1
    <3> QED
      BY <1>1, <1>4, <2>2, <3>2 DEF IsSum
  <2> QED
    BY <2>1, <2>2
<1>7. SUBSET S \subseteq P
  <2> HIDE DEF P
  <2> QED
    BY <1>6, SubsetInduction
<1> QED
  BY <1>1, <1>5, <1>7

LEMMA SumOfNone == ASSUME NEW f PROVE Sum(f, {}) = 0
<1>1. PICK fold \in [SUBSET {} -> Nat] : IsSum(fold, f, {}) /\ Sum(f, {}) = fold[{}]
  <2>1. IsFiniteSet({}) /\ \A x \in {} : f[x] \in Nat
    BY FS_EmptySet
  <2> QED
    BY <2>1, SumIsSum
<1> QED
  BY <1>1 DEF IsSum

LEMMA SumFirst ==
    ASSUME NEW S, IsFiniteSet(S), NEW f, \A x \in S : f[x] \in Nat
    PROVE  /\ Sum(f, S) \in Nat
           /\ S # {} => Sum(f, S) = f[First(S)] + Sum(f, S \ {First(S)})
<1>1. PICK p \in [SUBSET S -> Nat] : IsSum(p, f, S) /\ Sum(f, S) = p[S]
  BY SumIsSum
<1>2. Sum(f, S) \in Nat
  BY <1>1
<1>3. ASSUME S # {} PROVE Sum(f, S) = f[First(S)] + Sum(f, S \ {First(S)})
  <2> DEFINE R == S \ {First(S)}
  <2>1. R \in SUBSET S /\ IsFiniteSet(R) /\ \A x \in R : f[x] \in Nat
    BY FS_Subset
  <2> HIDE DEF R
  <2>2. PICK q \in [SUBSET R -> Nat] : IsSum(q, f, R) /\ Sum(f, R) = q[R]
    BY <2>1, SumIsSum
  <2>3. p[R] = q[R]
    BY <1>1, <2>1, <2>2, SumsAgree
  <2>4. p[S] = f[First(S)] + p[R]
    BY <1>1, <1>3 DEF IsSum, R
  <2> QED
    BY <1>1, <2>2, <2>3, <2>4 DEF R
<1> QED
  BY <1>2, <1>3

(***************************************************************************)
(* Any element may be taken out of a sum, not only the first.              *)
(***************************************************************************)
LEMMA SumWithout ==
    ASSUME NEW S, IsFiniteSet(S), NEW f, \A x \in S : f[x] \in Nat
    PROVE  \A x \in S : Sum(f, S) = f[x] + Sum(f, S \ {x})
<1> DEFINE P == {s \in SUBSET S : \A x \in s : Sum(f, s) = f[x] + Sum(f, s \ {x})}
<1>1. ASSUME NEW s \in SUBSET S, \A r \in SUBSET s : r # s => r \in P PROVE s \in P
  <2>1. SUFFICES ASSUME NEW x \in s PROVE Sum(f, s) = f[x] + Sum(f, s \ {x})
    OBVIOUS
  <2> DEFINE y == First(s)
  <2>2. y \in s
    BY DEF First
  <2>3. \A r \in SUBSET S : IsFiniteSet(r) /\ \A z \in r : f[z] \in Nat
    BY FS_Subset
  <2>4. \A r \in SUBSET S : Sum(f, r) \in Nat
    BY <2>3, SumFirst
  <2>5. Sum(f, s) = f[y] + Sum(f, s \ {y})
    BY <2>3, SumFirst
  <2>6. CASE x = y
    BY <2>5, <2>6
  <2>7. CASE x # y
    <3> HIDE DEF y
    <3>1. s \ {y} \in P /\ x \in s \ {y} /\ s \ {x} \in P /\ y \in s \ {x}
      BY <1>1, <2>2, <2>7
    <3>2. Sum(f, s \ {y}) = f[x] + Sum(f, (s \ {y}) \ {x})
      BY <3>1
    <3>3. Sum(f, s \ {x}) = f[y] + Sum(f, (s \ {x}) \ {y})
      BY <3>1
    <3>4. (s \ {y}) \ {x} = (s \ {x}) \ {y}
      OBVIOUS
    <3>5. Sum(f, (s \ {x}) \ {y}) \in Nat /\ f[x] \in Nat /\ f[y] \in Nat
      BY <2>2, <2>4
    <3> QED
      BY <2>5, <3>2, <3>3, <3>4, <3>5
  <2> QED
    BY <2>6, <2>7
<1>2. SUBSET S \subseteq P
  <2> HIDE DEF P
  <2> QED
    BY <1>1, SubsetInduction
<1> QED
  BY <1>2

(***************************************************************************)
(* Sums of the parts add up to the sum of the whole.                       *)
(***************************************************************************)
LEMMA SumsAddUp ==
    ASSUME NEW D, NEW E, IsFiniteSet(D), IsFiniteSet(E), NEW f, NEW g, NEW h,
           \A x \in D : f[x] \in Nat, \A x \in E : g[x] \in Nat,
           \A x \in D \cup E : h[x] = (IF x \in D THEN f[x] ELSE 0) + (IF x \in E THEN g[x] ELSE 0)
    PROVE  Sum(h, D \cup E) = Sum(f, D) + Sum(g, E)
<1> DEFINE S == D \cup E
           P == {s \in SUBSET S : Sum(h, s) = Sum(f, s \cap D) + Sum(g, s \cap E)}
<1>1. IsFiniteSet(S)
  BY FS_Union
<1>2. \A s \in SUBSET S :
         /\ IsFiniteSet(s) /\ IsFiniteSet(s \cap D) /\ IsFiniteSet(s \cap E)
         /\ \A x \in s : h[x] \in Nat
         /\ \A x \in s \cap D : f[x] \in Nat
         /\ \A x \in s \cap E : g[x] \in Nat
  <2>1. \A s \in SUBSET S : s \cap D \in SUBSET D /\ s \cap E \in SUBSET E
    OBVIOUS
  <2>2. \A x \in S : h[x] \in Nat
    OBVIOUS
  <2> QED
    BY <1>1, <2>1, <2>2, FS_Subset
<1>3. ASSUME NEW s \in SUBSET S, \A r \in SUBSET s : r # s => r \in P PROVE s \in P
  <2>1. CASE s = {}
    <3>1. s \cap D = {} /\ s \cap E = {}
      BY <2>1
    <3> QED
      BY <2>1, <3>1, SumOfNone
  <2>2. CASE s # {}
    <3> DEFINE x == First(s)
               r == s \ {x}
    <3>1. x \in s
      BY <2>2 DEF First
    <3> HIDE DEF x
    <3>2. r \in P
      BY <1>3, <3>1
    <3>3. Sum(h, s) = h[x] + Sum(h, r)
      BY <1>2, <3>1, SumWithout
    <3>4. IF x \in D THEN Sum(f, s \cap D) = f[x] + Sum(f, r \cap D)
          ELSE Sum(f, s \cap D) = Sum(f, r \cap D)
      <4>1. r \cap D = IF x \in D THEN (s \cap D) \ {x} ELSE s \cap D
        OBVIOUS
      <4>2. x \in D => Sum(f, s \cap D) = f[x] + Sum(f, (s \cap D) \ {x})
        BY <1>2, <3>1, SumWithout
      <4> QED
        BY <4>1, <4>2
    <3>5. IF x \in E THEN Sum(g, s \cap E) = g[x] + Sum(g, r \cap E)
          ELSE Sum(g, s \cap E) = Sum(g, r \cap E)
      <4>1. r \cap E = IF x \in E THEN (s \cap E) \ {x} ELSE s \cap E
        OBVIOUS
      <4>2. x \in E => Sum(g, s \cap E) = g[x] + Sum(g, (s \cap E) \ {x})
        BY <1>2, <3>1, SumWithout
      <4> QED
        BY <4>1, <4>2
    <3>6. Sum(f, r \cap D) \in Nat /\ Sum(g, r \cap E) \in Nat
      BY <1>2, <3>1, SumFirst
    <3>7. Sum(h, r) = Sum(f, r \cap D) + Sum(g, r \cap E)
      BY <3>2
    <3>8. (x \in D => f[x] \in Nat) /\ (x \in E => g[x] \in Nat)
          /\ h[x] = (IF x \in D THEN f[x] ELSE 0) + (IF x \in E THEN g[x] ELSE 0)
      BY <3>1
    <3> HIDE DEF r
    <3>9. Sum(h, s) = Sum(f, s \cap D) + Sum(g, s \cap E)
      BY <3>3, <3>4, <3>5, <3>6, <3>7, <3>8
    <3> QED
      BY <3>9
  <2> QED
    BY <2>1, <2>2
<1>4. SUBSET S \subseteq P
  <2> HIDE DEF P, S
  <2> QED
    BY <1>1, <1>3, SubsetInduction
<1>5. S \cap D = D /\ S \cap E = E /\ S \in P
  BY <1>4
<1> QED
  BY <1>5
-------------------------------------------------------------------------------
(* Costs: one ceiling *)

LEMMA Products ==
    ASSUME NEW a \in Nat, NEW b \in Nat
    PROVE  a * b \in Nat /\ (a * b = 0 <=> a = 0 \/ b = 0)
  OBVIOUS

Denominator == Million * SecondsPerHour

LEMMA DenominatorType == Denominator \in Nat \ {0}
  BY Products, ProjectedCostAssumption DEF Denominator

LEMMA CeilingIsLeast ==
    ASSUME NEW n \in Nat, NEW d \in Nat \ {0}
    PROVE  /\ Ceiling(n, d) \in Nat
           /\ n <= d * Ceiling(n, d) /\ d * Ceiling(n, d) < n + d
<1> DEFINE q == n \div d
           r == n % d
<1>1. q \in Nat /\ r \in Nat /\ r < d /\ n = d * q + r
  OBVIOUS
<1> HIDE DEF q, r
<1>2. Ceiling(n, d) = q + (IF r = 0 THEN 0 ELSE 1)
  BY DEF Ceiling, q, r
<1>3. d * (q + 1) = d * q + d /\ d * (q + 0) = d * q
  BY <1>1
<1> QED
  BY <1>1, <1>2, <1>3

LEMMA MultipleDivides ==
    ASSUME NEW k \in Nat, NEW d \in Nat \ {0}
    PROVE  (d * k) \div d = k /\ (d * k) % d = 0
<1> DEFINE q == (d * k) \div d
           r == (d * k) % d
<1>1. d * k \in Nat
  BY Products
<1>2. q \in Nat /\ r \in Nat /\ r < d /\ d * k = d * q + r
  <2> DEFINE n == d * k
  <2>1. n \div d \in Nat /\ n % d \in Nat /\ n % d < d /\ n = d * (n \div d) + (n % d)
    <3> HIDE DEF n
    <3> QED
      BY <1>1 DEF n
  <2> QED
    BY <2>1
<1> HIDE DEF q, r
<1>3. ~(k < q)
  <2>1. SUFFICES ASSUME k < q PROVE FALSE
    OBVIOUS
  <2>2. d * (q - k) \in Nat /\ d * (q - k) # 0
    <3>1. q - k \in Nat /\ q - k # 0 /\ d \in Nat /\ d # 0
      BY <1>2, <2>1
    <3> QED
      BY <3>1, Products
  <2>3. d * (q - k) = d * q - d * k
    BY <1>2
  <2> QED
    BY <1>1, <1>2, <2>2, <2>3
<1>4. ~(k > q)
  <2>1. SUFFICES ASSUME k > q PROVE FALSE
    OBVIOUS
  <2>2. d * (k - q - 1) \in Nat
    <3>1. k - q - 1 \in Nat /\ d \in Nat
      BY <1>2, <2>1
    <3> QED
      BY <3>1, Products
  <2>3. d * (k - q - 1) = d * k - d * q - d
    BY <1>2
  <2> QED
    BY <1>1, <1>2, <2>2, <2>3
<1>5. k = q
  BY <1>2, <1>3, <1>4
<1> QED
  BY <1>1, <1>2, <1>5 DEF q, r

LEMMA CeilingOfMultiple ==
    ASSUME NEW x \in Nat, NEW d \in Nat \ {0}
    PROVE  Ceiling(d * x, d) = x
  BY MultipleDivides DEF Ceiling
-------------------------------------------------------------------------------
(* Costs: usage adds up *)

IsUsage(u) == u = [f \in UsageFields |-> u[f]] /\ ValidUsage(u)

Written(u, p) == DOMAIN u.cache_writes \cap DOMAIN p.cache_write_rates

Writes(u, p) ==
    [ttl \in Written(u, p) |-> u.cache_writes[ttl] * p.cache_write_rates[ttl]]

LEMMA UsageTypes ==
    ASSUME NEW u, ValidUsage(u)
    PROVE  /\ u.uncached_input_tokens \in Nat /\ u.cached_read_tokens \in Nat
           /\ u.output_tokens \in Nat /\ u.cache_storage_token_seconds \in Nat
           /\ IsFiniteSet(DOMAIN u.cache_writes)
           /\ \A ttl \in DOMAIN u.cache_writes : u.cache_writes[ttl] \in Nat \ {0}
<1>1. SafeFrom(0) \subseteq Nat /\ SafeFrom(1) \subseteq Nat \ {0} /\ IsFiniteSet(SafeFrom(1))
  BY ProjectedCostAssumption, FS_Interval DEF SafeFrom
<1>2. IsFiniteSet(DOMAIN u.cache_writes)
  BY <1>1, FS_Subset DEF ValidUsage
<1>3. /\ u["uncached_input_tokens"] \in Nat /\ u["cached_read_tokens"] \in Nat
      /\ u["output_tokens"] \in Nat /\ u["cache_storage_token_seconds"] \in Nat
  BY <1>1 DEF ValidUsage, UsageFields
<1> QED
  BY <1>1, <1>2, <1>3 DEF ValidUsage

LEMMA ScheduleTypes ==
    ASSUME NEW p, ValidSchedule(p)
    PROVE  /\ p.uncached_input \in Nat /\ p.output \in Nat
           /\ p.cached_read # Null => p.cached_read \in Nat
           /\ p.cache_storage # Null => p.cache_storage \in Nat
           /\ \A ttl \in DOMAIN p.cache_write_rates : p.cache_write_rates[ttl] \in Nat
  BY ProjectedCostAssumption DEF ValidSchedule, SafeFrom

LEMMA AmountsAdd ==
    ASSUME NEW a \in Nat, NEW b \in Nat, NEW rate, rate \in Nat \/ (a = 0 /\ b = 0)
    PROVE  /\ Amount(a, rate) \in Nat
           /\ Amount(a + b, rate) = Amount(a, rate) + Amount(b, rate)
<1>1. CASE rate \in Nat
  <2>1. \A n \in Nat : Amount(n, rate) = n * rate
    BY <1>1 DEF Amount
  <2>2. a * rate \in Nat
    BY <1>1, Products
  <2>3. (a + b) * rate = a * rate + b * rate
    BY <1>1
  <2> QED
    BY <2>1, <2>2, <2>3
<1>2. CASE a = 0 /\ b = 0
  BY <1>2 DEF Amount
<1> QED
  BY <1>1, <1>2

LEMMA WritesTypes ==
    ASSUME NEW u, ValidUsage(u), NEW p, ValidSchedule(p)
    PROVE  /\ IsFiniteSet(Written(u, p))
           /\ \A ttl \in Written(u, p) : Writes(u, p)[ttl] \in Nat
           /\ Sum(Writes(u, p), Written(u, p)) \in Nat
<1>1. IsFiniteSet(Written(u, p))
  BY UsageTypes, FS_Subset DEF Written
<1>2. \A ttl \in Written(u, p) : Writes(u, p)[ttl] \in Nat
  BY UsageTypes, ScheduleTypes, Products DEF Written, Writes
<1> QED
  BY <1>1, <1>2, SumFirst

TokenSum(u, p) ==
    Amount(u.uncached_input_tokens, p.uncached_input)
    + Amount(u.cached_read_tokens, p.cached_read)
    + Amount(u.output_tokens, p.output)
    + Sum(Writes(u, p), Written(u, p))

LEMMA TokenCostIsSum == ASSUME NEW u, NEW p PROVE TokenCost(u, p) = TokenSum(u, p)
  BY DEF TokenCost, TokenSum, Sum, Writes, Written

LEMMA RatesMissing ==
    ASSUME NEW u, ValidUsage(u), NEW v, ValidUsage(v), NEW p
    PROVE  RateMissing(Together(u, v), p) <=> RateMissing(u, p) \/ RateMissing(v, p)
<1> DEFINE w == Together(u, v)
<1>1. /\ w.cached_read_tokens = u.cached_read_tokens + v.cached_read_tokens
      /\ w.cache_storage_token_seconds
            = u.cache_storage_token_seconds + v.cache_storage_token_seconds
      /\ DOMAIN w.cache_writes = DOMAIN u.cache_writes \cup DOMAIN v.cache_writes
  BY DEF Together, UsageFields
<1> HIDE DEF w
<1>2. /\ w.cached_read_tokens > 0 <=> u.cached_read_tokens > 0 \/ v.cached_read_tokens > 0
      /\ w.cache_storage_token_seconds > 0
            <=> u.cache_storage_token_seconds > 0 \/ v.cache_storage_token_seconds > 0
  BY <1>1, UsageTypes
<1>3. RateMissing(w, p) <=> RateMissing(u, p) \/ RateMissing(v, p)
  BY <1>1, <1>2 DEF RateMissing
<1> QED
  BY <1>3 DEF w

(***************************************************************************)
(* The cost of two usages together, before it is rounded, is the sum of    *)
(* their costs.                                                            *)
(***************************************************************************)
LEMMA NumeratorsAdd ==
    ASSUME NEW u, ValidUsage(u), NEW v, ValidUsage(v), NEW p, ValidSchedule(p),
           ~RateMissing(u, p), ~RateMissing(v, p)
    PROVE  /\ Numerator(u, p) \in Nat
           /\ Numerator(Together(u, v), p) = Numerator(u, p) + Numerator(v, p)
<1> DEFINE w == Together(u, v)
           D == Written(u, p)
           E == Written(v, p)
<1>1. /\ w.uncached_input_tokens = u.uncached_input_tokens + v.uncached_input_tokens
      /\ w.cached_read_tokens = u.cached_read_tokens + v.cached_read_tokens
      /\ w.output_tokens = u.output_tokens + v.output_tokens
      /\ w.cache_storage_token_seconds
            = u.cache_storage_token_seconds + v.cache_storage_token_seconds
      /\ w.cache_writes = [ttl \in DOMAIN u.cache_writes \cup DOMAIN v.cache_writes |->
                              (IF ttl \in DOMAIN u.cache_writes THEN u.cache_writes[ttl] ELSE 0)
                              + (IF ttl \in DOMAIN v.cache_writes THEN v.cache_writes[ttl] ELSE 0)]
  BY DEF Together, UsageFields
<1> HIDE DEF w
<1>2. /\ D = DOMAIN u.cache_writes /\ E = DOMAIN v.cache_writes /\ Written(w, p) = D \cup E
      /\ p.cached_read \in Nat \/ (u.cached_read_tokens = 0 /\ v.cached_read_tokens = 0)
      /\ p.cache_storage \in Nat
            \/ (u.cache_storage_token_seconds = 0 /\ v.cache_storage_token_seconds = 0)
  BY <1>1, UsageTypes, ScheduleTypes DEF RateMissing, Written
<1>3. Sum(Writes(w, p), D \cup E) = Sum(Writes(u, p), D) + Sum(Writes(v, p), E)
  <2>1. ASSUME NEW ttl \in D \cup E
        PROVE  Writes(w, p)[ttl] = (IF ttl \in D THEN Writes(u, p)[ttl] ELSE 0)
                                   + (IF ttl \in E THEN Writes(v, p)[ttl] ELSE 0)
    <3> DEFINE a == IF ttl \in D THEN u.cache_writes[ttl] ELSE 0
               b == IF ttl \in E THEN v.cache_writes[ttl] ELSE 0
               rate == p.cache_write_rates[ttl]
    <3>1. a \in Nat /\ b \in Nat /\ rate \in Nat
      BY <1>2, UsageTypes, ScheduleTypes DEF Written
    <3>2. Writes(w, p)[ttl] = (a + b) * rate
      BY <1>1, <1>2 DEF Writes
    <3>3. (IF ttl \in D THEN Writes(u, p)[ttl] ELSE 0) = a * rate
          /\ (IF ttl \in E THEN Writes(v, p)[ttl] ELSE 0) = b * rate
      BY <3>1 DEF Writes
    <3> HIDE DEF a, b, rate
    <3>4. (a + b) * rate = a * rate + b * rate
      BY <3>1
    <3> QED
      BY <3>2, <3>3, <3>4
  <2>2. /\ IsFiniteSet(D) /\ IsFiniteSet(E)
        /\ \A ttl \in D : Writes(u, p)[ttl] \in Nat
        /\ \A ttl \in E : Writes(v, p)[ttl] \in Nat
    BY WritesTypes
  <2> HIDE DEF D, E
  <2> QED
    BY <2>1, <2>2, SumsAddUp
<1>4. /\ Sum(Writes(u, p), D) \in Nat /\ Sum(Writes(v, p), E) \in Nat
      /\ Amount(u.uncached_input_tokens, p.uncached_input) \in Nat
      /\ Amount(v.uncached_input_tokens, p.uncached_input) \in Nat
      /\ Amount(w.uncached_input_tokens, p.uncached_input)
            = Amount(u.uncached_input_tokens, p.uncached_input)
              + Amount(v.uncached_input_tokens, p.uncached_input)
      /\ Amount(u.output_tokens, p.output) \in Nat
      /\ Amount(v.output_tokens, p.output) \in Nat
      /\ Amount(w.output_tokens, p.output)
            = Amount(u.output_tokens, p.output) + Amount(v.output_tokens, p.output)
  <2>1. Sum(Writes(u, p), D) \in Nat /\ Sum(Writes(v, p), E) \in Nat
    BY WritesTypes
  <2> HIDE DEF D, E
  <2>2. /\ u.uncached_input_tokens \in Nat /\ v.uncached_input_tokens \in Nat
        /\ u.output_tokens \in Nat /\ v.output_tokens \in Nat
        /\ p.uncached_input \in Nat /\ p.output \in Nat
    BY UsageTypes, ScheduleTypes
  <2>3. /\ Amount(u.uncached_input_tokens, p.uncached_input) \in Nat
        /\ Amount(v.uncached_input_tokens, p.uncached_input) \in Nat
        /\ Amount(w.uncached_input_tokens, p.uncached_input)
              = Amount(u.uncached_input_tokens, p.uncached_input)
                + Amount(v.uncached_input_tokens, p.uncached_input)
    BY <1>1, <2>2, AmountsAdd
  <2>4. /\ Amount(u.output_tokens, p.output) \in Nat
        /\ Amount(v.output_tokens, p.output) \in Nat
        /\ Amount(w.output_tokens, p.output)
              = Amount(u.output_tokens, p.output) + Amount(v.output_tokens, p.output)
    BY <1>1, <2>2, AmountsAdd
  <2> QED
    BY <2>1, <2>3, <2>4
<1>5. /\ Amount(u.cached_read_tokens, p.cached_read) \in Nat
      /\ Amount(v.cached_read_tokens, p.cached_read) \in Nat
      /\ Amount(w.cached_read_tokens, p.cached_read)
            = Amount(u.cached_read_tokens, p.cached_read)
              + Amount(v.cached_read_tokens, p.cached_read)
  BY <1>1, <1>2, UsageTypes, AmountsAdd
<1>6. /\ Amount(u.cache_storage_token_seconds, p.cache_storage) \in Nat
      /\ Amount(v.cache_storage_token_seconds, p.cache_storage) \in Nat
      /\ Amount(w.cache_storage_token_seconds, p.cache_storage)
            = Amount(u.cache_storage_token_seconds, p.cache_storage)
              + Amount(v.cache_storage_token_seconds, p.cache_storage)
  BY <1>1, <1>2, UsageTypes, AmountsAdd
<1>7. /\ TokenCost(u, p) \in Nat /\ TokenCost(v, p) \in Nat
      /\ TokenCost(w, p) = TokenCost(u, p) + TokenCost(v, p)
  <2>1. TokenSum(w, p) = TokenSum(u, p) + TokenSum(v, p)
        /\ TokenSum(u, p) \in Nat /\ TokenSum(v, p) \in Nat
    <3> HIDE DEF D, E
    <3>1. Written(u, p) = D /\ Written(v, p) = E /\ Written(w, p) = D \cup E
      BY <1>2 DEF D, E
    <3> QED
      BY <1>3, <1>4, <1>5, <3>1 DEF TokenSum
  <2> QED
    BY <2>1, TokenCostIsSum
<1>8. /\ TokenCost(u, p) * SecondsPerHour \in Nat
      /\ (TokenCost(u, p) + TokenCost(v, p)) * SecondsPerHour
            = TokenCost(u, p) * SecondsPerHour + TokenCost(v, p) * SecondsPerHour
  BY <1>7, Products, ProjectedCostAssumption
<1>9. Numerator(w, p) = Numerator(u, p) + Numerator(v, p) /\ Numerator(u, p) \in Nat
  <2>1. TokenCost(v, p) * SecondsPerHour \in Nat
    BY <1>7, Products, ProjectedCostAssumption
  <2> QED
    BY <1>6, <1>7, <1>8, <2>1 DEF Numerator
<1> QED
  BY <1>9 DEF w
-------------------------------------------------------------------------------
(* Costs: what has been billed *)

LEMMA LessByFactor ==
    ASSUME NEW d \in Nat \ {0}, NEW a \in Int, NEW b \in Int, d * a < d * b
    PROVE  a < b
<1>1. SUFFICES ASSUME a >= b PROVE FALSE
  OBVIOUS
<1>2. d * (a - b) \in Nat
  <2>1. a - b \in Nat /\ d \in Nat
    BY <1>1
  <2> QED
    BY <2>1, Products
<1>3. d * (a - b) = d * a - d * b
  OBVIOUS
<1> QED
  BY <1>2, <1>3

\* What the tasks cost one by one, against what they cost before rounding.
QuoteInv ==
    /\ tasks \in Nat
    /\ tasks = 0 => billed = 0
    /\ pricing # Null => ValidSchedule(pricing)
    /\ tasks > 0 =>
          /\ pricing # Null /\ IsUsage(total)
          /\ billed = Null <=> RateMissing(total, pricing)
          /\ billed # Null =>
                /\ billed \in Nat
                /\ Numerator(total, pricing) <= Denominator * billed
                /\ Denominator * billed
                      <= Numerator(total, pricing) + tasks * (Denominator - 1)

LEMMA CostOfUsage ==
    ASSUME NEW u, ValidUsage(u), NEW p, ValidSchedule(p)
    PROVE  LET cost == ProjectedCostMicrousd(u, p)
               ceiling == Ceiling(Numerator(u, p), Denominator)
           IN /\ cost = Null <=> RateMissing(u, p)
              /\ ~RateMissing(u, p) =>
                    /\ ceiling \in Nat
                    /\ cost = IF ceiling > MaxSafeInteger THEN Rejected ELSE ceiling
                    /\ Numerator(u, p) \in Nat
                    /\ Numerator(u, p) <= Denominator * ceiling
                    /\ Denominator * ceiling < Numerator(u, p) + Denominator
<1> DEFINE cost == ProjectedCostMicrousd(u, p)
           ceiling == Ceiling(Numerator(u, p), Denominator)
<1>1. /\ RateMissing(u, p) => cost = Null
      /\ ~RateMissing(u, p) =>
            cost = IF ceiling > MaxSafeInteger THEN Rejected ELSE ceiling
  BY DEF ProjectedCostMicrousd, Denominator
<1>2. ASSUME ~RateMissing(u, p)
      PROVE  /\ ceiling \in Nat
             /\ Numerator(u, p) \in Nat
             /\ Numerator(u, p) <= Denominator * ceiling
             /\ Denominator * ceiling < Numerator(u, p) + Denominator
  BY <1>2, NumeratorsAdd, DenominatorType, CeilingIsLeast
<1>3. Rejected # Null
  BY PortableJsonAssumption
<1> HIDE DEF cost, ceiling
<1>4. ~RateMissing(u, p) => cost # Null
  BY <1>1, <1>2, <1>3, ProjectedCostAssumption
<1>5. /\ cost = Null <=> RateMissing(u, p)
      /\ ~RateMissing(u, p) =>
            /\ ceiling \in Nat
            /\ cost = IF ceiling > MaxSafeInteger THEN Rejected ELSE ceiling
            /\ Numerator(u, p) \in Nat
            /\ Numerator(u, p) <= Denominator * ceiling
            /\ Denominator * ceiling < Numerator(u, p) + Denominator
  BY <1>1, <1>2, <1>4
<1> QED
  BY <1>5 DEF cost, ceiling

LEMMA TaskStep == ASSUME QuoteInv, NEW u \in Usages, Task(u) PROVE QuoteInv'
<1> DEFINE sum == IF tasks = 0 THEN u ELSE Together(total, u)
           cost == ProjectedCostMicrousd(u, pricing)
           d == Denominator
<1>1. /\ pricing # Null /\ pricing' = pricing /\ ValidSchedule(pricing)
      /\ tasks \in Nat /\ tasks' = tasks + 1
      /\ ValidUsage(u) /\ ValidUsage(sum) /\ cost # Rejected
      /\ total' = sum
      /\ billed' = IF billed = Null \/ cost = Null THEN Null ELSE billed + cost
  BY DEF Task, QuoteInv
<1>2. d \in Nat \ {0}
  BY DenominatorType
<1>3. /\ cost = Null <=> RateMissing(u, pricing)
      /\ ~RateMissing(u, pricing) =>
            /\ cost \in Nat /\ Numerator(u, pricing) \in Nat
            /\ Numerator(u, pricing) <= d * cost
            /\ d * cost < Numerator(u, pricing) + d
  BY <1>1, CostOfUsage
<1>4. IsUsage(sum)
  <2>1. u = [f \in UsageFields |-> u[f]]
    BY ProjectedCostAssumption
  <2>2. Together(total, u) = [f \in UsageFields |-> Together(total, u)[f]]
    BY DEF Together
  <2> QED
    BY <1>1, <2>1, <2>2 DEF IsUsage
<1>5. Null \notin Int
  BY ProjectedCostAssumption
<1>6. CASE tasks = 0
  <2>1. sum = u /\ billed = 0
    BY <1>6 DEF QuoteInv
  <2> HIDE DEF cost, d, sum
  <2>2. ASSUME ~RateMissing(u, pricing)
        PROVE  /\ billed' \in Nat /\ billed' # Null
               /\ Numerator(u, pricing) <= d * billed'
               /\ d * billed' <= Numerator(u, pricing) + 1 * (d - 1)
    <3>1. billed' = cost
      BY <1>1, <1>3, <1>5, <2>1, <2>2
    <3> QED
      BY <1>2, <1>3, <1>5, <2>2, <3>1
  <2>3. RateMissing(u, pricing) => billed' = Null
    BY <1>1, <1>3
  <2>4. tasks' = 1 /\ total' = u
    BY <1>1, <1>6, <2>1
  <2> QED
    BY <1>1, <1>4, <2>1, <2>2, <2>3, <2>4 DEF QuoteInv, d
<1>7. CASE tasks > 0
  <2>1. /\ sum = Together(total, u) /\ IsUsage(total) /\ ValidUsage(total)
        /\ billed = Null <=> RateMissing(total, pricing)
        /\ billed # Null =>
              /\ billed \in Nat
              /\ Numerator(total, pricing) <= d * billed
              /\ d * billed <= Numerator(total, pricing) + tasks * (d - 1)
    BY <1>7 DEF QuoteInv, IsUsage
  <2> HIDE DEF cost, d
  <2>2. RateMissing(sum, pricing) <=> RateMissing(total, pricing) \/ RateMissing(u, pricing)
    BY <1>1, <2>1, RatesMissing
  <2> HIDE DEF sum
  <2>3. ASSUME ~RateMissing(sum, pricing)
        PROVE  /\ billed' \in Nat /\ billed' # Null
               /\ Numerator(sum, pricing) <= d * billed'
               /\ d * billed' <= Numerator(sum, pricing) + (tasks + 1) * (d - 1)
    <3>1. billed \in Nat /\ billed # Null /\ cost \in Nat /\ cost # Null
      BY <1>3, <1>5, <2>1, <2>2, <2>3
    <3>2. billed' = billed + cost
      BY <1>1, <3>1
    <3>3. Numerator(sum, pricing) = Numerator(total, pricing) + Numerator(u, pricing)
          /\ Numerator(total, pricing) \in Nat
      BY <1>1, <2>1, <2>2, <2>3, NumeratorsAdd
    <3>4. d * (billed + cost) = d * billed + d * cost
      BY <1>2, <3>1
    <3>5. (tasks + 1) * (d - 1) = tasks * (d - 1) + (d - 1) /\ tasks * (d - 1) \in Int
      BY <1>1, <1>2
    <3>6. d * billed \in Int /\ d * cost \in Int
      BY <1>2, <3>1
    <3>7. /\ Numerator(u, pricing) \in Nat
          /\ Numerator(u, pricing) <= d * cost /\ d * cost < Numerator(u, pricing) + d
          /\ Numerator(total, pricing) <= d * billed
          /\ d * billed <= Numerator(total, pricing) + tasks * (d - 1)
      BY <1>3, <2>1, <2>2, <2>3, <3>1
    <3> DEFINE A == d * billed
               B == d * cost
               C == tasks * (d - 1)
               N == Numerator(total, pricing)
               M == Numerator(u, pricing)
    <3>8. N + M <= A + B /\ A + B <= N + M + (C + (d - 1))
      <4>1. /\ A \in Int /\ B \in Int /\ C \in Int /\ N \in Nat /\ M \in Nat /\ d \in Nat
            /\ M <= B /\ B < M + d /\ N <= A /\ A <= N + C
        BY <1>2, <3>3, <3>5, <3>6, <3>7
      <4> HIDE DEF A, B, C, N, M
      <4> QED
        BY <4>1
    <3>9. /\ Numerator(sum, pricing) = N + M /\ d * billed' = A + B
          /\ (tasks + 1) * (d - 1) = C + (d - 1)
      BY <3>2, <3>3, <3>4, <3>5
    <3>10. billed' \in Nat /\ billed' # Null
      BY <1>5, <3>1, <3>2
    <3> QED
      BY <3>8, <3>9, <3>10
  <2>4. RateMissing(sum, pricing) => billed' = Null
    BY <1>1, <1>3, <2>1, <2>2
  <2>5. tasks' > 0 /\ tasks' \in Nat
    BY <1>1
  <2>6. /\ pricing' # Null /\ ValidSchedule(pricing') /\ IsUsage(total')
        /\ billed' = Null <=> RateMissing(total', pricing')
        /\ billed' # Null =>
              /\ billed' \in Nat
              /\ Numerator(total', pricing') <= d * billed'
              /\ d * billed' <= Numerator(total', pricing') + tasks' * (d - 1)
    BY <1>1, <1>4, <2>3, <2>4
  <2> QED
    BY <2>5, <2>6 DEF QuoteInv, d
<1> QED
  BY <1>1, <1>6, <1>7

LEMMA QuoteStep == QuoteInv /\ [QuotesNext]_quoteVars => QuoteInv'
<1> SUFFICES ASSUME QuoteInv, [QuotesNext]_quoteVars PROVE QuoteInv'
  OBVIOUS
<1>1. ASSUME NEW p \in Schedules, Offer(p) PROVE QuoteInv'
  <2>1. /\ pricing = Null /\ pricing' = p /\ ValidSchedule(p)
        /\ total' = total /\ tasks' = tasks /\ billed' = billed
    BY <1>1 DEF Offer
  <2>2. tasks \in Nat /\ ~(tasks > 0) /\ (tasks = 0 => billed = 0)
    BY <2>1 DEF QuoteInv
  <2> QED
    BY <2>1, <2>2 DEF QuoteInv
<1>2. ASSUME NEW u \in Usages, Task(u) PROVE QuoteInv'
  BY <1>2, TaskStep
<1>3. CASE UNCHANGED quoteVars
  BY <1>3 DEF QuoteInv, quoteVars, IsUsage, ValidUsage, ValidSchedule, RateMissing, Numerator
<1> QED
  BY <1>1, <1>2, <1>3 DEF QuotesNext

(***************************************************************************)
(* projected_cost_microusd: for any usages and schedule, what has been     *)
(* billed task by task covers the cost before rounding, by less than one   *)
(* unit of the denominator for each task.                                  *)
(***************************************************************************)
THEOREM QuotesInvariant == DocumentsSpec => []QuoteInv
<1>1. DocumentsInit => QuoteInv
  BY DEF DocumentsInit, QuotesInit, QuoteInv
<1>2. QuoteInv /\ [DocumentsNext]_<<vars, readVars, recordVars, quoteVars>> => QuoteInv'
  <2>1. [DocumentsNext]_<<vars, readVars, recordVars, quoteVars>> => [QuotesNext]_quoteVars
    BY DEF DocumentsNext, Receipts, Reads, Records, Quotes, NoQuote
  <2> QED
    BY <2>1, QuoteStep
<1> QED
  BY <1>1, <1>2, PTL DEF DocumentsSpec

(***************************************************************************)
(* A million tokens, or token-hours, cost their rate.                      *)
(***************************************************************************)
LEMMA OfOneKind ==
    ASSUME NEW p, ValidSchedule(p), NEW u, ~RateMissing(u, p),
           NEW rate \in SafeFrom(0), Numerator(u, p) = Denominator * rate
    PROVE  ProjectedCostMicrousd(u, p) = rate
<1>1. rate \in Nat /\ ~(rate > MaxSafeInteger)
  BY ProjectedCostAssumption DEF SafeFrom
<1>2. Ceiling(Numerator(u, p), Denominator) = rate
  BY <1>1, CeilingOfMultiple, DenominatorType
<1> QED
  BY <1>1, <1>2 DEF ProjectedCostMicrousd, Denominator

LEMMA OnlyFields ==
    ASSUME NEW field \in UsageFields, NEW amount
    PROVE  LET u == Only(field, amount)
               Of(f) == IF f = field THEN amount ELSE 0
           IN /\ u.uncached_input_tokens = Of("uncached_input_tokens")
              /\ u.cached_read_tokens = Of("cached_read_tokens")
              /\ u.output_tokens = Of("output_tokens")
              /\ u.cache_storage_token_seconds = Of("cache_storage_token_seconds")
              /\ field = "cache_writes" => u.cache_writes = amount
              /\ field # "cache_writes" => DOMAIN u.cache_writes = {}
  BY DEF Only, UsageFields

LEMMA MillionTokens ==
    ASSUME NEW p, ValidSchedule(p),
           NEW field \in {"uncached_input_tokens", "cached_read_tokens", "output_tokens"}
    PROVE  LET rate == CASE field = "uncached_input_tokens" -> p.uncached_input
                         [] field = "cached_read_tokens"    -> p.cached_read
                         [] field = "output_tokens"         -> p.output
           IN ProjectedCostMicrousd(Only(field, Million), p) = rate
<1> DEFINE rate == CASE field = "uncached_input_tokens" -> p.uncached_input
                     [] field = "cached_read_tokens"    -> p.cached_read
                     [] field = "output_tokens"         -> p.output
           u == Only(field, Million)
           Of(f) == IF f = field THEN Million ELSE 0
<1>1. /\ u.uncached_input_tokens = Of("uncached_input_tokens")
      /\ u.cached_read_tokens = Of("cached_read_tokens")
      /\ u.output_tokens = Of("output_tokens")
      /\ u.cache_storage_token_seconds = 0
      /\ DOMAIN u.cache_writes = {}
  BY OnlyFields DEF UsageFields
<1>2. rate \in SafeFrom(0) \/ (field = "cached_read_tokens" /\ rate = Null /\ p.cached_read = Null)
  BY DEF ValidSchedule
<1>3. Million \in Nat \ {0} /\ SecondsPerHour \in Nat \ {0}
  BY ProjectedCostAssumption
<1>4. CASE rate = Null /\ field = "cached_read_tokens" /\ p.cached_read = Null
  <2>1. RateMissing(u, p)
    BY <1>1, <1>3, <1>4 DEF RateMissing
  <2> QED
    BY <1>4, <2>1 DEF ProjectedCostMicrousd
<1>5. CASE rate \in SafeFrom(0)
  <2>1. rate \in Nat /\ rate # Null
    BY <1>5, ProjectedCostAssumption DEF SafeFrom
  <2>2. ~RateMissing(u, p)
    BY <1>1, <2>1 DEF RateMissing
  <2>3. TokenCost(u, p) = Million * rate
    <3>1. Sum(Writes(u, p), Written(u, p)) = 0
      <4>1. Written(u, p) = {}
        BY <1>1 DEF Written
      <4> QED
        BY <4>1, SumOfNone
    <3>2. Million * rate \in Nat /\ Amount(Million, rate) = Million * rate
      BY <1>3, <2>1, Products DEF Amount
    <3>3. \A x : Amount(0, x) = 0
      BY DEF Amount
    <3>4. TokenSum(u, p) = Million * rate
      <4>1. CASE field = "uncached_input_tokens"
        BY <1>1, <3>1, <3>2, <3>3, <4>1 DEF TokenSum
      <4>2. CASE field = "cached_read_tokens"
        BY <1>1, <3>1, <3>2, <3>3, <4>2 DEF TokenSum
      <4>3. CASE field = "output_tokens"
        BY <1>1, <3>1, <3>2, <3>3, <4>3 DEF TokenSum
      <4> QED
        BY <4>1, <4>2, <4>3
    <3> QED
      BY <3>4, TokenCostIsSum
  <2> HIDE DEF rate, u
  <2>4. Numerator(u, p) = Denominator * rate
    <3>1. Numerator(u, p) = (Million * rate) * SecondsPerHour + 0
      BY <1>1, <2>3 DEF Numerator, Amount
    <3>2. (Million * rate) * SecondsPerHour = (Million * SecondsPerHour) * rate
      BY <1>3, <2>1
    <3>3. (Million * SecondsPerHour) * rate \in Nat
      BY <1>3, <2>1, Products
    <3> QED
      BY <3>1, <3>2, <3>3 DEF Denominator
  <2>5. ProjectedCostMicrousd(u, p) = rate
    BY <1>5, <2>2, <2>4, OfOneKind
  <2> QED
    BY <2>5 DEF u, rate
<1> QED
  BY <1>2, <1>4, <1>5

LEMMA MillionTokenHours ==
    ASSUME NEW p, ValidSchedule(p)
    PROVE  ProjectedCostMicrousd(Only("cache_storage_token_seconds", Denominator), p)
              = p.cache_storage
<1> DEFINE u == Only("cache_storage_token_seconds", Denominator)
           rate == p.cache_storage
<1>1. /\ u.uncached_input_tokens = 0 /\ u.cached_read_tokens = 0 /\ u.output_tokens = 0
      /\ u.cache_storage_token_seconds = Denominator
      /\ DOMAIN u.cache_writes = {}
  BY OnlyFields DEF UsageFields
<1>2. rate \in SafeFrom(0) \/ rate = Null
  BY DEF ValidSchedule
<1> HIDE DEF u
<1>3. Denominator \in Nat \ {0} /\ SecondsPerHour \in Nat \ {0}
  BY DenominatorType, ProjectedCostAssumption
<1>4. CASE rate = Null
  <2>1. RateMissing(u, p)
    BY <1>1, <1>3, <1>4 DEF RateMissing
  <2> QED
    BY <1>4, <2>1 DEF ProjectedCostMicrousd, u
<1>5. CASE rate \in SafeFrom(0)
  <2>1. rate \in Nat /\ rate # Null
    BY <1>5, ProjectedCostAssumption DEF SafeFrom
  <2>2. ~RateMissing(u, p)
    BY <1>1, <2>1 DEF RateMissing
  <2>3. TokenCost(u, p) = 0
    <3>1. Sum(Writes(u, p), Written(u, p)) = 0
      <4>1. Written(u, p) = {}
        BY <1>1 DEF Written
      <4> QED
        BY <4>1, SumOfNone
    <3>2. TokenSum(u, p) = 0
      BY <1>1, <3>1 DEF TokenSum, Amount
    <3> QED
      BY <3>2, TokenCostIsSum
  <2>4. Numerator(u, p) = Denominator * rate
    <3>1. Denominator * rate \in Nat /\ 0 * SecondsPerHour = 0
      BY <1>3, <2>1, Products
    <3>2. Amount(Denominator, rate) = Denominator * rate
      BY <1>3 DEF Amount
    <3> QED
      BY <1>1, <2>3, <3>1, <3>2 DEF Numerator
  <2> QED
    BY <1>5, <2>2, <2>4, OfOneKind DEF u
<1> QED
  BY <1>2, <1>4, <1>5

LEMMA MillionWrites ==
    ASSUME NEW p, ValidSchedule(p), NEW ttl \in DOMAIN p.cache_write_rates
    PROVE  ProjectedCostMicrousd(Only("cache_writes", [t \in {ttl} |-> Million]), p)
              = p.cache_write_rates[ttl]
<1> DEFINE u == Only("cache_writes", [t \in {ttl} |-> Million])
           rate == p.cache_write_rates[ttl]
<1>1. /\ u.uncached_input_tokens = 0 /\ u.cached_read_tokens = 0 /\ u.output_tokens = 0
      /\ u.cache_storage_token_seconds = 0
      /\ u.cache_writes = [t \in {ttl} |-> Million]
  BY OnlyFields DEF UsageFields
<1> HIDE DEF u
<1>2. rate \in SafeFrom(0) /\ rate \in Nat
  BY ProjectedCostAssumption DEF ValidSchedule, SafeFrom
<1>3. Million \in Nat \ {0} /\ SecondsPerHour \in Nat \ {0}
  BY ProjectedCostAssumption
<1>4. ~RateMissing(u, p)
  BY <1>1 DEF RateMissing
<1>5. TokenCost(u, p) = Million * rate
  <2>1. Written(u, p) = {ttl}
    BY <1>1 DEF Written
  <2>2. Writes(u, p)[ttl] = Million * rate
    BY <1>1, <2>1 DEF Writes
  <2>3. Million * rate \in Nat
    BY <1>2, <1>3, Products
  <2>4. Sum(Writes(u, p), {ttl}) = Million * rate
    <3> DEFINE f == Writes(u, p)
    <3>1. IsFiniteSet({ttl}) /\ \A x \in {ttl} : f[x] \in Nat
      BY <2>2, <2>3, FS_Singleton
    <3>2. f[ttl] = Million * rate
      BY <2>2
    <3> HIDE DEF f
    <3>3. Sum(f, {ttl}) = f[ttl] + Sum(f, {ttl} \ {ttl})
      BY <3>1, SumWithout
    <3>4. Sum(f, {ttl} \ {ttl}) = 0
      <4>1. {ttl} \ {ttl} = {}
        OBVIOUS
      <4> QED
        BY <4>1, SumOfNone
    <3>5. Sum(f, {ttl}) = Million * rate
      BY <2>3, <3>2, <3>3, <3>4
    <3> QED
      BY <3>5 DEF f
  <2>5. TokenSum(u, p) = Million * rate
    BY <1>1, <2>1, <2>3, <2>4 DEF TokenSum, Amount
  <2> QED
    BY <2>5, TokenCostIsSum
<1> HIDE DEF rate
<1>6. Numerator(u, p) = Denominator * rate
  <2>1. Numerator(u, p) = (Million * rate) * SecondsPerHour + 0
    BY <1>1, <1>5 DEF Numerator, Amount
  <2>2. (Million * rate) * SecondsPerHour = (Million * SecondsPerHour) * rate
    BY <1>2, <1>3
  <2>3. (Million * SecondsPerHour) * rate \in Nat
    BY <1>2, <1>3, Products
  <2> QED
    BY <2>1, <2>2, <2>3 DEF Denominator
<1>7. ProjectedCostMicrousd(u, p) = rate
  BY <1>2, <1>4, <1>6, OfOneKind
<1> QED
  BY <1>7 DEF u, rate

(***************************************************************************)
(* One ceiling: what several tasks cost together is never above what they  *)
(* cost one by one, and below it by less than one microusd per further     *)
(* task, for every usage and every price schedule.                         *)
(***************************************************************************)
THEOREM CostsTheorem == DocumentsSpec => []CostsAddUp
<1>1. QuoteInv => CostsAddUp
  <2> SUFFICES ASSUME QuoteInv, tasks > 0
               PROVE  CostsAddUp
    BY DEF CostsAddUp
  <2> DEFINE cost == ProjectedCostMicrousd(total, pricing)
             least == Ceiling(Numerator(total, pricing), Denominator)
             d == Denominator
  <2>1. /\ tasks \in Nat /\ pricing # Null /\ ValidSchedule(pricing) /\ ValidUsage(total)
        /\ billed = Null <=> RateMissing(total, pricing)
        /\ billed # Null =>
              /\ billed \in Nat
              /\ Numerator(total, pricing) <= d * billed
              /\ d * billed <= Numerator(total, pricing) + tasks * (d - 1)
    BY DEF QuoteInv, IsUsage
  <2>2. /\ cost = Null <=> RateMissing(total, pricing)
        /\ ~RateMissing(total, pricing) =>
              /\ least \in Nat
              /\ cost = IF least > MaxSafeInteger THEN Rejected ELSE least
              /\ Numerator(total, pricing) \in Nat
              /\ Numerator(total, pricing) <= d * least
              /\ d * least < Numerator(total, pricing) + d
    BY <2>1, CostOfUsage
  <2>3. d \in Nat \ {0}
    BY DenominatorType
  <2>4. Null \notin Int /\ Rejected \notin Int /\ MaxSafeInteger \in Nat
    BY ProjectedCostAssumption
  <2> HIDE DEF cost, least, d
  <2>5. ASSUME billed # Null PROVE least <= billed /\ billed - tasks < least
    <3>1. billed \in Nat /\ least \in Nat /\ Numerator(total, pricing) \in Nat
      BY <2>1, <2>2, <2>5
    <3>2. least < billed + 1
      <4>1. d * (billed + 1) = d * billed + d /\ d * billed \in Int /\ d * least \in Int
        BY <2>3, <3>1
      <4>2. d * least < d * (billed + 1)
        BY <2>1, <2>2, <2>3, <2>5, <3>1, <4>1
      <4> QED
        BY <2>3, <3>1, <4>2, LessByFactor
    <3>3. billed - tasks < least
      <4>1. /\ d * (billed - tasks) = d * billed - d * tasks
            /\ tasks * (d - 1) = d * tasks - tasks
            /\ d * billed \in Int /\ d * tasks \in Int /\ d * least \in Int
        BY <2>1, <2>3, <3>1
      <4>2. d * (billed - tasks) < d * least
        BY <2>1, <2>2, <2>3, <2>5, <3>1, <4>1
      <4> QED
        BY <2>1, <2>3, <3>1, <4>2, LessByFactor
    <3> QED
      BY <3>1, <3>2, <3>3
  <2>6. cost = Null <=> billed = Null
    BY <2>1, <2>2
  <2>7. cost = Rejected => billed > MaxSafeInteger
    <3>1. cost = Rejected => billed # Null
      BY <2>6, PortableJsonAssumption
    <3> QED
      BY <2>1, <2>2, <2>4, <2>5, <3>1
  <2>8. cost \notin {Null, Rejected} => cost \in (billed - tasks + 1) .. billed
    BY <2>1, <2>2, <2>4, <2>5
  <2>9. \A rate \in {<<"uncached_input_tokens", pricing.uncached_input, Million>>,
                     <<"cached_read_tokens", pricing.cached_read, Million>>,
                     <<"output_tokens", pricing.output, Million>>,
                     <<"cache_storage_token_seconds", pricing.cache_storage,
                       Million * SecondsPerHour>>} :
           ProjectedCostMicrousd(Only(rate[1], rate[3]), pricing) = rate[2]
    <3>1. /\ ProjectedCostMicrousd(Only("uncached_input_tokens", Million), pricing)
                = pricing.uncached_input
          /\ ProjectedCostMicrousd(Only("cached_read_tokens", Million), pricing)
                = pricing.cached_read
          /\ ProjectedCostMicrousd(Only("output_tokens", Million), pricing) = pricing.output
      BY <2>1, MillionTokens
    <3>2. ProjectedCostMicrousd(Only("cache_storage_token_seconds", Million * SecondsPerHour),
                                pricing) = pricing.cache_storage
      BY <2>1, MillionTokenHours DEF Denominator
    <3> QED
      BY <3>1, <3>2
  <2>10. \A ttl \in DOMAIN pricing.cache_write_rates :
            ProjectedCostMicrousd(Only("cache_writes", [t \in {ttl} |-> Million]), pricing)
               = pricing.cache_write_rates[ttl]
    BY <2>1, MillionWrites
  <2> QED
    BY <2>6, <2>7, <2>8, <2>9, <2>10 DEF CostsAddUp, cost
<1> QED
  BY <1>1, QuotesInvariant, PTL
-------------------------------------------------------------------------------
(* Counts: powers of ten *)

\* The powers of ten up to the n-th.
ArePowers(h, n) ==
    \A m \in 0 .. n : h[m] = IF m = 0 THEN 1 ELSE 10 * h[m - 1]

LEMMA PowersExist == \A n \in Nat : \E h \in [Nat -> Nat] : ArePowers(h, n)
<1> DEFINE Good(n) == \E h \in [Nat -> Nat] : ArePowers(h, n)
           Bad == {n \in Nat : ~Good(n)}
<1>1. Good(0)
  <2>1. [m \in Nat |-> 1] \in [Nat -> Nat] /\ ArePowers([m \in Nat |-> 1], 0)
    BY DEF ArePowers
  <2> QED
    BY <2>1
<1>2. ASSUME NEW n \in Nat, Good(n) PROVE Good(n + 1)
  <2>1. PICK h \in [Nat -> Nat] : ArePowers(h, n)
    BY <1>2
  <2> DEFINE more == [m \in Nat |-> IF m = 0 THEN 1 ELSE 10 * h[m - 1]]
  <2>2. \A m \in Nat : more[m] = (IF m = 0 THEN 1 ELSE 10 * h[m - 1]) /\ more[m] \in Nat
    BY <2>1
  <2>3. more \in [Nat -> Nat]
    <3>1. \A m \in Nat : (IF m = 0 THEN 1 ELSE 10 * h[m - 1]) \in Nat
      BY <2>1
    <3> QED
      BY <3>1
  <2> HIDE DEF more
  <2>4. \A m \in 0 .. n : more[m] = h[m]
    BY <2>1, <2>2 DEF ArePowers
  <2>5. ArePowers(more, n + 1)
    <3>1. SUFFICES ASSUME NEW m \in 0 .. n + 1
                   PROVE  more[m] = IF m = 0 THEN 1 ELSE 10 * more[m - 1]
      BY DEF ArePowers
    <3>2. m # 0 => m - 1 \in 0 .. n /\ m \in Nat
      OBVIOUS
    <3> QED
      BY <2>2, <2>4, <3>2
  <2> QED
    BY <2>3, <2>5
<1>3. Bad = {}
  <2>1. SUFFICES ASSUME Bad # {} PROVE FALSE
    OBVIOUS
  <2>2. PICK n \in Bad : \A m \in Bad : n <= m
    BY <2>1, LeastElement
  <2> HIDE DEF Good
  <2>3. n \in Nat \ {0} /\ ~Good(n)
    BY <1>1, <2>2
  <2>4. n - 1 \in Nat /\ n - 1 \notin Bad /\ (n - 1) + 1 = n
    BY <2>2, <2>3
  <2>5. Good(n - 1) => Good((n - 1) + 1)
    BY <1>2, <2>4
  <2> QED
    BY <2>3, <2>4, <2>5
<1> QED
  BY <1>3

LEMMA PowersAgree ==
    ASSUME NEW n \in Nat, NEW k \in Nat, NEW g \in [Nat -> Nat], NEW h \in [Nat -> Nat],
           ArePowers(g, n), ArePowers(h, k)
    PROVE  \A m \in Nat : m <= n /\ m <= k => g[m] = h[m]
<1> DEFINE Bad == {m \in Nat : m <= n /\ m <= k /\ g[m] # h[m]}
<1>1. SUFFICES ASSUME Bad # {} PROVE FALSE
  OBVIOUS
<1>2. PICK m \in Bad : \A l \in Bad : m <= l
  BY <1>1, LeastElement
<1>3. m \in Nat /\ m \in 0 .. n /\ m \in 0 .. k /\ g[m] # h[m]
  BY <1>2
<1>4. m # 0
  BY <1>3 DEF ArePowers
<1>5. m - 1 \in Nat /\ m - 1 \notin Bad /\ m - 1 <= n /\ m - 1 <= k
  BY <1>2, <1>3, <1>4
<1> QED
  BY <1>3, <1>4, <1>5 DEF ArePowers

LEMMA PowersOfTen ==
    /\ PowerOfTen[0] = 1
    /\ \A n \in Nat : PowerOfTen[n] \in Nat \ {0} /\ PowerOfTen[n + 1] = 10 * PowerOfTen[n]
<1> DEFINE Recurs(p) == p = [n \in Nat |-> IF n = 0 THEN 1 ELSE 10 * p[n - 1]]
           To(n) == CHOOSE h \in [Nat -> Nat] : ArePowers(h, n)
           powers == [n \in Nat |-> To(n)[n]]
<1>1. \A n \in Nat : To(n) \in [Nat -> Nat] /\ ArePowers(To(n), n)
  BY PowersExist
<1> HIDE DEF To
<1>2. \A n \in Nat : powers[n] = To(n)[n] /\ powers[n] \in Nat
  BY <1>1
<1>3. \A n \in Nat : powers[n] = IF n = 0 THEN 1 ELSE 10 * powers[n - 1]
  <2>1. SUFFICES ASSUME NEW n \in Nat
                 PROVE  powers[n] = IF n = 0 THEN 1 ELSE 10 * powers[n - 1]
    OBVIOUS
  <2>2. To(n)[n] = IF n = 0 THEN 1 ELSE 10 * To(n)[n - 1]
    BY <1>1 DEF ArePowers
  <2>3. ASSUME n # 0 PROVE To(n)[n - 1] = To(n - 1)[n - 1]
    <3>1. n - 1 \in Nat /\ n - 1 <= n /\ n - 1 <= n - 1
      BY <2>3
    <3>2. \A m \in Nat : m <= n /\ m <= n - 1 => To(n)[m] = To(n - 1)[m]
      BY <1>1, <3>1, PowersAgree
    <3> QED
      BY <3>1, <3>2
  <2>4. n # 0 => n - 1 \in Nat
    OBVIOUS
  <2> QED
    BY <1>2, <2>2, <2>3, <2>4
<1>4. Recurs(powers)
  <2>1. powers = [n \in Nat |-> powers[n]]
    OBVIOUS
  <2> HIDE DEF powers
  <2> QED
    BY <1>3, <2>1
<1> HIDE DEF powers
<1>5. PowerOfTen = CHOOSE p : Recurs(p)
  BY DEF PowerOfTen
<1>6. Recurs(PowerOfTen)
  <2> HIDE DEF Recurs
  <2> QED
    BY <1>4, <1>5
<1>7. \A n \in Nat : PowerOfTen[n] = IF n = 0 THEN 1 ELSE 10 * PowerOfTen[n - 1]
  BY <1>6
<1> HIDE DEF Recurs
<1>8. \A n \in Nat : PowerOfTen[n + 1] = 10 * PowerOfTen[n]
  <2>1. ASSUME NEW n \in Nat PROVE PowerOfTen[n + 1] = 10 * PowerOfTen[n]
    <3>1. n + 1 \in Nat /\ n + 1 # 0 /\ (n + 1) - 1 = n
      OBVIOUS
    <3> QED
      BY <1>7, <3>1
  <2> QED
    BY <2>1
<1>9. \A n \in Nat : PowerOfTen[n] \in Nat \ {0}
  <2> DEFINE Bad == {n \in Nat : PowerOfTen[n] \notin Nat \ {0}}
  <2>1. SUFFICES ASSUME Bad # {} PROVE FALSE
    OBVIOUS
  <2>2. PICK n \in Bad : \A m \in Bad : n <= m
    BY <2>1, LeastElement
  <2>3. n # 0
    BY <1>7, <2>2
  <2>4. n - 1 \in Nat /\ n - 1 \notin Bad
    BY <2>2, <2>3
  <2> QED
    BY <1>7, <2>2, <2>3, <2>4
<1> QED
  BY <1>7, <1>8, <1>9

LEMMA PowersGrow ==
    ASSUME NEW a \in Nat, NEW b \in Nat, a <= b
    PROVE  PowerOfTen[a] <= PowerOfTen[b]
<1> DEFINE Bad == {n \in Nat : a <= n /\ PowerOfTen[a] > PowerOfTen[n]}
<1>1. SUFFICES ASSUME Bad # {} PROVE FALSE
  BY PowersOfTen
<1>2. PICK n \in Bad : \A m \in Bad : n <= m
  BY <1>1, LeastElement
<1>3. n \in Nat /\ a <= n /\ n # a /\ PowerOfTen[a] > PowerOfTen[n]
  BY <1>2, PowersOfTen
<1>4. n - 1 \in Nat /\ a <= n - 1 /\ n - 1 \notin Bad /\ (n - 1) + 1 = n
  BY <1>2, <1>3
<1>5. PowerOfTen[a] <= PowerOfTen[n - 1]
  BY <1>4, PowersOfTen
<1>6. PowerOfTen[n] = 10 * PowerOfTen[n - 1]
  BY <1>4, PowersOfTen
<1> QED
  BY <1>3, <1>4, <1>5, <1>6, PowersOfTen
-------------------------------------------------------------------------------
(* Counts: rounding *)

LEMMA Rounded ==
    ASSUME NEW n \in Nat, NEW d \in Nat \ {0}
    PROVE  /\ RoundHalfEven(n, d) \in Nat
           /\ 2 * n - d <= 2 * (d * RoundHalfEven(n, d))
           /\ 2 * (d * RoundHalfEven(n, d)) <= 2 * n + d
           /\ n % d = 0 => RoundHalfEven(n, d) = n \div d
<1> DEFINE q == n \div d
           r == n % d
           v == RoundHalfEven(n, d)
<1>1. q \in Nat /\ r \in Nat /\ r < d /\ n = d * q + r
  OBVIOUS
<1>2. \/ v = q /\ 2 * r <= d
      \/ v = q + 1 /\ 2 * r >= d /\ r # 0
  BY <1>1 DEF RoundHalfEven
<1> HIDE DEF q, r, v
<1>3. d * (q + 1) = d * q + d /\ d * q \in Int
  BY <1>1
<1>4. v \in Nat /\ 2 * n - d <= 2 * (d * v) /\ 2 * (d * v) <= 2 * n + d /\ (r = 0 => v = q)
  BY <1>1, <1>2, <1>3
<1> QED
  BY <1>4 DEF q, r, v

(***************************************************************************)
(* No two counts up to the denominator are written as one ratio by the     *)
(* rule, if the denominator is not above the power of ten that rounding    *)
(* needs.                                                                  *)
(***************************************************************************)
LEMMA RatiosDiffer ==
    ASSUME NEW d \in Nat \ {0}, d <= PowerOfTen[RatioDigits],
           NEW value, IsDecimal(value), NEW n \in 0 .. d, NEW m \in 0 .. d, n < m,
           IsRoundedRatio(value, n, d), IsRoundedRatio(value, m, d)
    PROVE  FALSE
<1> DEFINE P == PowerOfTen[value.scale]
           v == value.digits
<1>1. P \in Nat \ {0} /\ v \in Int /\ value.scale \in Nat /\ RatioDigits \in Nat
  BY PowersOfTen, EvidenceAssumption DEF IsDecimal
<1>2. /\ v * d # n * P => value.scale >= RatioDigits
      /\ v * d # m * P => value.scale >= RatioDigits
      /\ v = RoundHalfEven(n * P, d) /\ v = RoundHalfEven(m * P, d)
  BY DEF IsRoundedRatio
<1> HIDE DEF P, v
<1>3. /\ n * P \in Nat /\ m * P \in Nat /\ (m - n) * P = m * P - n * P
      /\ (m - n - 1) * P \in Nat /\ (m - n - 1) * P = (m - n) * P - P
  <2>1. n \in Nat /\ m \in Nat /\ m - n - 1 \in Nat /\ P \in Nat
    BY <1>1
  <2>2. n * P \in Nat /\ m * P \in Nat /\ (m - n - 1) * P \in Nat
    BY <2>1, Products
  <2>3. (m - n) * P = m * P - n * P /\ (m - n - 1) * P = (m - n) * P - P
    BY <2>1
  <2> QED
    BY <2>2, <2>3
<1>4. CASE v * d = n * P /\ v * d = m * P
  BY <1>1, <1>3, <1>4
<1>5. CASE value.scale >= RatioDigits
  <2>1. d <= P
    BY <1>1, <1>5, PowersGrow, PowersOfTen DEF P
  <2>2. 2 * (m * P) - d <= 2 * (d * v) /\ 2 * (d * v) <= 2 * (n * P) + d /\ d * v \in Int
    BY <1>1, <1>2, <1>3, Rounded
  <2>3. (m - n) * P <= d
    BY <1>1, <1>3, <2>2
  <2>4. d = P
    BY <1>1, <1>3, <2>1, <2>3
  <2>5. \A k \in Nat : RoundHalfEven(k * d, d) = k
    <3>1. SUFFICES ASSUME NEW k \in Nat PROVE RoundHalfEven(k * d, d) = k
      OBVIOUS
    <3>2. (k * d) \div d = k /\ (k * d) % d = 0 /\ k * d \in Nat
      <4>1. k * d = d * k /\ d * k \in Nat
        BY Products
      <4> QED
        BY <4>1, MultipleDivides
    <3> QED
      BY <3>2, Rounded
  <2>6. v = n /\ v = m
    BY <1>2, <2>4, <2>5
  <2> QED
    BY <2>6
<1> QED
  BY <1>2, <1>4, <1>5

(***************************************************************************)
(* The rule for ratios: whatever a hand makes of an observation, the count *)
(* of a proportion that a reader accepts can be recovered from its value   *)
(* and its denominator.                                                    *)
(***************************************************************************)
THEOREM CountsTheorem == DocumentsSpec => []CountsAreRecoverable
<1>1. RecordInv => CountsAreRecoverable
  <2> DEFINE m == copy.metric
  <2>1. SUFFICES ASSUME RecordInv, made # Null, made.object = "observation",
                        Identity(copy) # Rejected, m.kind = "proportion", m.numerator # Null,
                        m.denominator <= PowerOfTen[RatioDigits],
                        NEW n \in 0 .. m.denominator, ValidMetric([m EXCEPT !.numerator = n])
                 PROVE  n = m.numerator
    BY DEF CountsAreRecoverable
  <2>2. IsRecord(copy) /\ copy.object = "observation"
    BY <2>1 DEF RecordInv
  <2>3. ValidMetric(m)
    BY <2>1, <2>2 DEF Identity, ValidObservation
  <2>4. m = [f \in {"kind", "value", "numerator", "denominator"} |-> m[f]]
    BY <2>1, <2>2 DEF IsRecord, MetricFields
  <2> DEFINE e == [m EXCEPT !.numerator = n]
  <2>5. /\ e.kind = "proportion" /\ e.value = m.value
        /\ e.numerator = n /\ e.denominator = m.denominator
    <3> HIDE DEF m
    <3> QED
      BY <2>1, <2>4
  <2> HIDE DEF m, e
  <2>6. /\ m.denominator \in Nat \ {0} /\ m.numerator \in 0 .. m.denominator
        /\ IsDecimal(m.value) /\ IsRoundedRatio(m.value, m.numerator, m.denominator)
    BY <2>1, <2>3 DEF ValidMetric, ValidCountPair, InUnitInterval
  <2>7. n # Null /\ n \in Int /\ m.numerator \in Int
    BY <2>6, ProjectedCostAssumption
  <2>8. IsRoundedRatio(m.value, n, m.denominator)
    <3>1. ValidMetric(e)
      BY <2>1 DEF e
    <3> QED
      BY <2>5, <2>7, <3>1 DEF ValidMetric
  <2>9. ~(n < m.numerator) /\ ~(m.numerator < n)
    BY <2>1, <2>6, <2>8, RatiosDiffer
  <2> QED
    BY <2>7, <2>9
<1> QED
  BY <1>1, RecordsInvariant, PTL
===============================================================================
