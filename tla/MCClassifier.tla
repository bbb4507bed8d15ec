----------------------------- MODULE MCClassifier -----------------------------
(***************************************************************************)
(* Instances of Classifier for TLC.                                        *)
(***************************************************************************)
EXTENDS Classifier

\* Every reply.
EveryReply == AllReplies

\* A model that may demand reasoning, lose its provider, or answer.
ReasoningReplies == {"safe", "bad_request", "length", "missing", "busy"}

\* A model whose replies may break the decoder while others still run.
PoolReplies == {"safe", "length", "malformed", "busy"}
===============================================================================
