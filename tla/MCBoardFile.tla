------------------------------ MODULE MCBoardFile -----------------------------
(***************************************************************************)
(* Instances of BoardFile for TLC.  "prompt" stands for the keys that      *)
(* _load_results compares and "dataset" for the dataset sha256s.           *)
(***************************************************************************)
EXTENDS BoardFile

AllKeys      == {"prompt", "dataset"}
ComparedKeys == {"prompt"}

\* Every model, or all but one: delisted, or left out by --models or --max-models.
MostPools == {Models} \cup {Models \ {m} : m \in Models}

\* The listing does not change.
WholePool == {Models}
===============================================================================
