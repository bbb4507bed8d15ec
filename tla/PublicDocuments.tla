---------------------------- MODULE PublicDocuments ---------------------------
(***************************************************************************)
(* The public documents: receipts, reads, records of evidence and costs.   *)
(* They share readers, canonical JSON and hashes, and no state, so that    *)
(* one kind at a time is looked at.                                        *)
(***************************************************************************)
EXTENDS Publication, PublicReads, EvidenceRecords, ProjectedCost

DocumentsInit == Init /\ ReadsInit /\ RecordsInit /\ QuotesInit

NoReceipt == issued = Null /\ UNCHANGED vars
NoRead    == page = Null /\ UNCHANGED readVars
NoRecord  == made = Null /\ UNCHANGED recordVars
NoQuote   == pricing = Null /\ UNCHANGED quoteVars

Receipts == NoRead /\ NoRecord /\ NoQuote /\ Next
Reads    == NoReceipt /\ NoRecord /\ NoQuote /\ ReadsNext
Records  == NoReceipt /\ NoRead /\ NoQuote /\ RecordsNext
Quotes   == NoReceipt /\ NoRead /\ NoRecord /\ QuotesNext

DocumentsNext == Receipts \/ Reads \/ Records \/ Quotes

DocumentsSpec ==
    DocumentsInit /\ [][DocumentsNext]_<<vars, readVars, recordVars, quoteVars>>
===============================================================================
