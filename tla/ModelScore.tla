------------------------------ MODULE ModelScore ------------------------------
(***************************************************************************)
(* What score_model of the content-safety board promises its caller, with  *)
(* the threads and the requests left out: while it works it may give up on *)
(* reasoning_off, once; it ends with one row, which names the model's last *)
(* mode or says that it is unavailable, or with an exception; and nothing  *)
(* changes after that.                                                     *)
(***************************************************************************)
EXTENDS Integers

CONSTANTS N, ErrorNum, ErrorDen

VARIABLES state,  \* "scoring", "scored" or "raised"
          mode,   \* the model's reasoning mode
          row     \* the row returned

vars == <<state, mode, row>>

NoRow == [mode |-> "none", errors |-> 0, excluded |-> FALSE]

Rows == {[mode |-> m, errors |-> e, excluded |-> e * ErrorDen > ErrorNum * N]
            : m \in {mode, "unavailable"}, e \in 0 .. N}

Init == state = "scoring" /\ mode = "reasoning_off" /\ row = NoRow

FallBack == /\ state = "scoring"
            /\ mode' = "reasoning_low"
            /\ UNCHANGED <<state, row>>

Score == /\ state = "scoring"
         /\ state' = "scored"
         /\ row' \in Rows
         /\ UNCHANGED mode

Raise == /\ state = "scoring"
         /\ state' = "raised"
         /\ UNCHANGED <<mode, row>>

Next == FallBack \/ Score \/ Raise

Spec == Init /\ [][Next]_vars

FairSpec == Spec /\ WF_vars(Score \/ Raise)
===============================================================================
