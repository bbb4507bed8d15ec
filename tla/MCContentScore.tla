---------------------------- MODULE MCContentScore ----------------------------
(***************************************************************************)
(* Two datasets of different sizes, each class larger than the errors the  *)
(* ceiling lets a ranked row have, as on the board (at most 52 errors,     *)
(* and classes of 200 items or more).                                      *)
(***************************************************************************)
EXTENDS ContentScore

TwoDatasets  == {"xstest-v2", "openai-moderation-api-release"}
TwoDatasetOf == [i \in 1 .. 9 |-> IF i <= 5 THEN "xstest-v2"
                                  ELSE "openai-moderation-api-release"]
TwoUnsafe    == {1, 2, 3, 6, 7}
===============================================================================
