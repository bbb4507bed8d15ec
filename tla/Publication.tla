------------------------------ MODULE Publication -----------------------------
(***************************************************************************)
(* A receipt is created, written, edited by hand, hashed again, and passed *)
(* on by readers of either language.  Both SDKs read whatever is on the    *)
(* wire; reading changes nothing.                                          *)
(***************************************************************************)
EXTENDS PortableJson

CONSTANTS Drafts,    \* the arguments create may be given
          Edits,     \* the values a hand may write into each field
          MaxEdits

(***************************************************************************)
(* What both readers know of a body before they look at what it means: the *)
(* types of its fields, which each of them tests field by field.           *)
(***************************************************************************)
BodyFields == {"query", "decided_at", "outcome", "snapshot_ids", "families", "selections",
               "exclusions", "usage_profile", "abstain_reasons"}

Families   == [family_id : Texts, weight_ppm : Texts \cup {"0", "1", "1.0"},
               stale_at : Texts \cup {Null}]
Caveats    == [code : Texts] \cup [code : Texts, measured_effort : Texts]
Selections == [serving_offer_id : Texts, reasoning_effort : Texts, provider_id : Texts,
               api : STRING, ratio : Nat, cost : Nat \cup {Null},
               multiplier : STRING \cup {Null}, caveats : Seq(Caveats)]
Exclusions ==
    {e \in UNION {[D -> Texts \cup {Null}] : D \in SUBSET {"model_key", "reasoning_effort",
                                                          "code", "detail"}} :
        /\ Has(e, "model_key") /\ e.model_key # Null
        /\ Has(e, "code") /\ e.code # Null}

IsQuery(q) ==
    /\ q = [f \in DOMAIN q |-> q[f]] /\ Has(q, "objective")
    /\ Has(q, "provider_ids") => q.provider_ids \in Seq(Texts) \cup {Null}

Fits(field, value) ==
    CASE field = "query"      -> IsQuery(value)
      [] field = "families"   -> value \in Seq(Families)
      [] field = "selections" -> value \in Seq(Selections)
      [] field = "exclusions" -> value \in Seq(Exclusions)
      [] field \in {"snapshot_ids", "abstain_reasons"} -> value \in Seq(Texts)
      [] OTHER                -> TRUE

AreFields(b, fields) ==
    b = [f \in fields |-> b[f]] /\ \A f \in fields : Fits(f, b[f])

ASSUME PublicationAssumption ==
    /\ "" \in Texts
    /\ \A d \in Drafts : AreFields(d, BodyFields \ {"usage_profile"})
    /\ DOMAIN Edits \subseteq BodyFields
    /\ \A f \in DOMAIN Edits : \A v \in Edits[f] : Fits(f, v)

Py == INSTANCE DecisionReceipt
Ts == INSTANCE DecisionReceiptTs

VARIABLES issued,  \* the receipt that was created, or Null
          wire,    \* the document readers get, or Null
          edits    \* changes made to it so far

vars == <<issued, wire, edits>>

Init == issued = Null /\ wire = Null /\ edits = 0

\* DecisionReceiptV2.create and to_dict.
Issue(fields) ==
    /\ issued = Null
    /\ Py!Create(fields) # Rejected
    /\ issued' = Py!Create(fields)
    /\ wire' = issued'
    /\ UNCHANGED edits

Change ==
    /\ issued # Null /\ edits < MaxEdits
    /\ edits' = edits + 1
    /\ UNCHANGED issued

Edit(field, value) == Change /\ wire' = [wire EXCEPT !.body[field] = value]

\* The editor computes the id anew with the SDK's receiptId.
Rehash ==
    /\ issued # Null /\ Ts!Parses(wire.body)
    /\ wire' = [wire EXCEPT !.receipt_id = Ts!ReceiptId(wire.body)]
    /\ UNCHANGED <<issued, edits>>

Readings == {Py!FromDict(wire), Ts!Parse(wire)} \ {Rejected}

\* A client, the CLI or the MCP server hands on what it read.
Forward ==
    /\ issued # Null
    /\ wire' \in Readings
    /\ UNCHANGED <<issued, edits>>

Next == \/ \E d \in Drafts : Issue(d)
        \/ \E f \in DOMAIN Edits : \E v \in Edits[f] : Edit(f, v)
        \/ Rehash
        \/ Forward

Spec == Init /\ [][Next]_vars
-------------------------------------------------------------------------------
\* What a body says: its sets have no order, its selections do.
QuerySays(q) == [f \in DOMAIN q |-> IF f = "provider_ids" THEN Range(q[f]) ELSE q[f]]

SelectionSays(s) == [s EXCEPT !.caveats = Range(@)]

Says(b) == [b EXCEPT !.query = QuerySays(@),
                     !.selections = [k \in DOMAIN @ |-> SelectionSays(@[k])],
                     !.snapshot_ids = Range(@),
                     !.families = Range(@),
                     !.exclusions = Range(@),
                     !.abstain_reasons = Range(@)]

\* Whatever was done to a document between its creation and a reader, a receipt read
\* under the issued id says what was issued, and one that says the same, in whatever
\* order its sets were written, is read under the issued id.
IdentityIsWhatItSays ==
    issued # Null =>
        \A r \in Readings :
            r.receipt_id = issued.receipt_id <=> Says(r.body) = Says(issued.body)

\* Nothing in it matches a pattern in Python only.
MatchesAlike(b) ==
    /\ b.decided_at \notin PythonOnly
    /\ \A k \in DOMAIN b.snapshot_ids : b.snapshot_ids[k] \notin PythonOnly
    /\ \A k \in DOMAIN b.families : b.families[k].stale_at \notin PythonOnly

\* The spellings that the two languages take differently: Python drops a null from an
\* exclusion, TypeScript refuses it; JSON.parse reads 1.0 as an integer, json.loads
\* does not; a snapshot id with a line terminator, and a timestamp in the digits of
\* another script, match in Python only.
Portable(b) ==
    /\ MatchesAlike(b)
    /\ \A k \in DOMAIN b.exclusions : \A f \in DOMAIN b.exclusions[k] :
          b.exclusions[k][f] # Null
    /\ \A k \in DOMAIN b.families : b.families[k].weight_ppm # "1.0"

\* schemas/README.md: pick ordering, pins, caveats, the usage echo and the hash are
\* enforced by the Python and TypeScript validators.  Both read every portable
\* document alike, or both reject it; and no document at all is read in two ways.
TwinsAgree ==
    issued # Null =>
        /\ \A r, s \in Readings : r = s
        /\ Portable(wire.body) => (Py!FromDict(wire) = Rejected <=> Ts!Parse(wire) = Rejected)

\* What one reader accepted and hands on, both read as the same receipt, even where the
\* document it came from had a null or a float: all of its differences that reading
\* does not remove are texts which TypeScript's patterns refuse, and a receipt that has
\* one is read by Python alone.
ForwardedIsAccepted ==
    issued # Null =>
        \A r \in Readings :
            /\ Py!FromDict(r) = r
            /\ Ts!Parse(r) = IF MatchesAlike(r.body) THEN r ELSE Rejected
===============================================================================
