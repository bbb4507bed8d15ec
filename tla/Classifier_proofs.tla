-------------------------- MODULE Classifier_proofs ---------------------------
(***************************************************************************)
(* Proofs about Classifier, for any number of items, threads and attempts  *)
(* and any set of replies.                                                 *)
(***************************************************************************)
EXTENDS Classifier, FiniteSetTheorems, TLAPS

(***************************************************************************)
(* The items that ended in an error are between none and all of them, so   *)
(* every row has an error count in 0 .. N.                                 *)
(***************************************************************************)
LEMMA ErrorCount ==
    ASSUME NEW vs
    PROVE  Cardinality({i \in Items : vs[i] = "ERROR"}) \in 0 .. N
<1> DEFINE E == {i \in Items : vs[i] = "ERROR"}
<1>1. IsFiniteSet(Items) /\ Cardinality(Items) = N
  BY ClassifierAssumption, FS_Interval DEF Items
<1>2. IsFiniteSet(E) /\ Cardinality(E) <= N
  BY <1>1, FS_Subset
<1>3. Cardinality(E) \in Nat
  BY <1>2, FS_CardinalityType
<1> QED
  BY <1>2, <1>3, ClassifierAssumption

(***************************************************************************)
(* What a row is: its mode is the shared one or "unavailable", its error   *)
(* count is in range.                                                      *)
(***************************************************************************)
LEMMA RowType ==
    ASSUME TypeOK, NEW vs
    PROVE  /\ Row(vs) \in [mode : Modes \cup {"none", "unavailable"},
                           errors : 0 .. N, excluded : BOOLEAN]
           /\ Row(vs).mode \in {mode, "unavailable"}
           /\ Row(vs).excluded = Excluded(Row(vs).errors)
           /\ unavailable => Row(vs).mode = "unavailable"
  BY ErrorCount DEF Row, TypeOK, Excluded

LEMMA NextAttemptType ==
    ASSUME TypeOK, NEW c \in Calls, NextAttempt(c)
    PROVE  /\ pc' = [pc EXCEPT ![c] = pc'[c]]
           /\ pc'[c] \in {"ready", "done"}
           /\ pc' \in [Calls -> {"queued", "done", "raised", "cancelled"} \cup Active]
           /\ attempt' \in [Calls -> 0 .. Retries - 1]
           /\ verdict' \in [Calls -> Verdicts \cup {"none"}]
  BY ClassifierAssumption DEF NextAttempt, Finish, Goto, TypeOK, Verdicts, Active

(***************************************************************************)
(* Returning a verdict and receiving a reply keep the call's variables in  *)
(* their types.                                                            *)
(***************************************************************************)
LEMMA FinishType ==
    ASSUME TypeOK, NEW c \in Calls, NEW v \in Verdicts, Finish(c, v)
    PROVE  /\ pc' \in [Calls -> {"queued", "done", "raised", "cancelled"} \cup Active]
           /\ attempt' \in [Calls -> 0 .. Retries - 1]
           /\ verdict' \in [Calls -> Verdicts \cup {"none"}]
  BY DEF Finish, Goto, TypeOK

LEMMA ReplyType ==
    ASSUME TypeOK, NEW c \in Calls, NEW r, Reply(c, r)
    PROVE  /\ last' \in [Calls -> AllReplies \cup {"none"}]
           /\ UNCHANGED <<mode, sent, phase, collected, row>>
  BY ClassifierAssumption DEF Reply, TypeOK

(***************************************************************************)
(* A step of one call leaves score_model alone and moves no other call.    *)
(***************************************************************************)
LEMMA ClassifyFrame ==
    ASSUME TypeOK, NEW c \in Calls, Classify(c)
    PROVE  /\ UNCHANGED <<phase, collected, row>>
           /\ pc' = [pc EXCEPT ![c] = pc'[c]]
           /\ pc[c] \in Active
           /\ pc'[c] \in Active \cup {"done", "raised"}
           /\ sent' = [sent EXCEPT ![c] = sent'[c]]
           /\ sent'[c] \in {sent[c], mode}
           /\ mode' \in {mode, "reasoning_low"}
<1> USE DEF TypeOK, Active, Goto, Finish, Reply
<1>1. CASE Post(c)
  BY <1>1 DEF Post
<1>2. CASE FallBack(c)
  BY <1>2, NextAttemptType DEF FallBack
<1>3. CASE Transient(c)
  BY <1>3, NextAttemptType DEF Transient
<1>4. CASE \/ Missing(c) \/ ContentRefused(c) \/ MustReason(c) \/ StillRefuses(c)
           \/ HttpError(c) \/ Answer(c) \/ Raise(c)
  BY <1>4 DEF Missing, ContentRefused, MustReason, StillRefuses, HttpError, Answer, Raise
<1> QED
  BY <1>1, <1>2, <1>3, <1>4 DEF Classify
-------------------------------------------------------------------------------
(***************************************************************************)
(* Every step keeps every variable in its type.                            *)
(***************************************************************************)
THEOREM TypeCorrect == Spec => []TypeOK
<1>1. Init => TypeOK
  <2> SUFFICES ASSUME Init PROVE TypeOK
    OBVIOUS
  <2>1. 0 \in 0 .. Retries - 1 /\ 0 \in 0 .. N
    BY ClassifierAssumption
  <2>2. row \in [mode : Modes \cup {"none", "unavailable"}, errors : 0 .. N, excluded : BOOLEAN]
    BY <2>1 DEF Init, NoRow
  <2> QED
    BY <2>1, <2>2 DEF Init, TypeOK, Modes, Active
<1>2. TypeOK /\ [Next]_vars => TypeOK'
  <2> SUFFICES ASSUME TypeOK, [Next]_vars PROVE TypeOK'
    OBVIOUS
  <2>1. ASSUME NEW c \in Calls, Classify(c) PROVE TypeOK'
    <3>1. CASE Post(c)
      BY <3>1 DEF Post, TypeOK, Goto, Active
    <3>2. CASE FallBack(c)
      <4>1. NextAttempt(c)
        BY <3>2 DEF FallBack
      <4>2. mode' \in Modes /\ UNCHANGED <<unavailable, sent, last, phase, collected, row>>
        BY <3>2 DEF FallBack, Modes
      <4> QED
        BY <4>1, <4>2, NextAttemptType DEF TypeOK
    <3>3. CASE Transient(c)
      BY <3>3, NextAttemptType, ReplyType DEF Transient, TypeOK
    <3>4. CASE Missing(c) \/ ContentRefused(c) \/ StillRefuses(c) \/ HttpError(c)
      BY <3>4, FinishType, ReplyType
      DEF Missing, ContentRefused, StillRefuses, HttpError, TypeOK, Verdicts
    <3>5. CASE MustReason(c) \/ Raise(c)
      BY <3>5, ReplyType DEF MustReason, Raise, TypeOK, Goto, Active
    <3>6. CASE Answer(c)
      BY <3>6, FinishType, ReplyType DEF Answer, ParseVerdict, TypeOK, Verdicts
    <3> QED
      BY <2>1, <3>1, <3>2, <3>3, <3>4, <3>5, <3>6 DEF Classify
  <2>2. ASSUME NEW i \in Items, Start(i) \/ Cancel(i) PROVE TypeOK'
    BY <2>2 DEF Start, Cancel, Goto, TypeOK, Items, Calls, Active
  <2>3. ASSUME Unservable \/ Publish PROVE TypeOK'
    BY <2>3, RowType DEF Unservable, Publish, TypeOK, local
  <2>4. ASSUME FanOut \/ ProbeRaises \/ CollectRaises \/ Reraise PROVE TypeOK'
    BY <2>4 DEF FanOut, ProbeRaises, CollectRaises, Reraise, TypeOK, local
  <2>5. ASSUME Collect PROVE TypeOK'
    BY <2>5, ClassifierAssumption DEF Collect, TypeOK, local
  <2>6. ASSUME UNCHANGED vars PROVE TypeOK'
    BY <2>6 DEF vars, local, TypeOK
  <2> QED
    BY <2>1, <2>2, <2>3, <2>4, <2>5, <2>6 DEF Next, ScoreModel, Stopped
<1> QED
  BY <1>1, <1>2, PTL DEF Spec
-------------------------------------------------------------------------------
(***************************************************************************)
(* mode only ever goes from reasoning_off to reasoning_low, so a request   *)
(* built with reasoning on proves that mode says low now; and a call that  *)
(* is about to write mode got its refusal with reasoning off.              *)
(***************************************************************************)
ModeInv ==
    \A c \in Calls :
        /\ sent[c] = "reasoning_low" => mode = "reasoning_low"
        /\ pc[c] \in {"posted", "switching", "done"} => sent[c] # "none"
        /\ pc[c] = "switching" => sent[c] = "reasoning_off"

LEMMA ModeInvInductive == TypeOK /\ ModeInv /\ [Next]_vars => ModeInv'
<1> SUFFICES ASSUME TypeOK, ModeInv, [Next]_vars PROVE ModeInv'
  OBVIOUS
<1>1. ASSUME NEW c \in Calls, Classify(c) PROVE ModeInv'
  <2>1. CASE Post(c)
    BY <2>1 DEF Post, Goto, ModeInv, TypeOK, Modes
  <2>2. CASE MustReason(c)
    BY <2>2 DEF MustReason, Reply, Goto, ModeInv, TypeOK, Modes
  <2>3. CASE FallBack(c)
    BY <2>3 DEF FallBack, NextAttempt, Finish, Goto, ModeInv, TypeOK
  <2>4. CASE Transient(c)
    BY <2>4 DEF Transient, Reply, NextAttempt, Finish, Goto, ModeInv, TypeOK
  <2>5. CASE Missing(c) \/ ContentRefused(c) \/ StillRefuses(c) \/ HttpError(c)
    BY <2>5 DEF Missing, ContentRefused, StillRefuses, HttpError, Reply, Finish, Goto,
                ModeInv, TypeOK
  <2>6. CASE Answer(c)
    BY <2>6 DEF Answer, Reply, Finish, Goto, ModeInv, TypeOK
  <2>7. CASE Raise(c)
    BY <2>7 DEF Raise, Reply, Goto, ModeInv, TypeOK
  <2> QED
    BY <1>1, <2>1, <2>2, <2>3, <2>4, <2>5, <2>6, <2>7 DEF Classify
<1>2. ASSUME NEW i \in Items, Start(i) \/ Cancel(i) PROVE ModeInv'
  BY <1>2 DEF Start, Cancel, Goto, ModeInv, TypeOK
<1>3. ASSUME UNCHANGED <<mode, unavailable, local>> PROVE ModeInv'
  BY <1>3 DEF ModeInv, local
<1> QED
  BY <1>1, <1>2, <1>3
  DEF Next, ScoreModel, FanOut, Unservable, ProbeRaises, Collect, Publish, CollectRaises,
      Reraise, Stopped, vars

(***************************************************************************)
(* A call falls back at most once, however the threads interleave.         *)
(***************************************************************************)
THEOREM FallBackTheorem == Spec => []FallsBackOnce
<1>1. Init => ModeInv
  BY DEF Init, ModeInv, Calls, Probe
<1>2. ModeInv => FallsBackOnce
  BY DEF ModeInv, FallsBackOnce
<1> QED
  BY <1>1, <1>2, ModeInvInductive, TypeCorrect, PTL DEF Spec

(***************************************************************************)
(* No request is built with reasoning off once one was built with it on.   *)
(***************************************************************************)
THEOREM NeverBackToOffTheorem == Spec => NeverBackToOff
<1> DEFINE Low == \E c \in Calls : sent[c] = "reasoning_low"
           LaterLow == \A d \in Calls : sent'[d] # sent[d] => sent'[d] = "reasoning_low"
<1>1. Init => ModeInv
  BY DEF Init, ModeInv, Calls, Probe
<1>2. TypeOK /\ ModeInv /\ [Next]_vars => (Low => LaterLow)
  <2> SUFFICES ASSUME TypeOK, ModeInv, [Next]_vars, Low PROVE LaterLow
    OBVIOUS
  <2>1. mode = "reasoning_low"
    BY DEF ModeInv
  <2>2. ASSUME NEW c \in Calls, Classify(c) PROVE LaterLow
    BY <2>1, <2>2, ClassifyFrame DEF TypeOK
  <2>3. ASSUME UNCHANGED sent PROVE LaterLow
    BY <2>3
  <2> QED
    BY <2>2, <2>3
    DEF Next, Start, ScoreModel, FanOut, Unservable, ProbeRaises, Collect, Publish,
        CollectRaises, Reraise, Cancel, Stopped, vars, local
<1> QED
  BY <1>1, <1>2, ModeInvInductive, TypeCorrect, PTL DEF Spec, NeverBackToOff
-------------------------------------------------------------------------------
(***************************************************************************)
(* Where the calls can be in each phase of score_model, and what a row     *)
(* that says reasoning_off was published from.                             *)
(***************************************************************************)
Ends == {"done", "raised", "cancelled"}

PhaseInv ==
    /\ phase = "probe" => \A i \in Items : pc[i] = "queued"
    /\ phase # "probe" => pc[Probe] \in {"done", "raised"}
    /\ \A i \in 1 .. collected : pc[i] = "done"
    /\ phase = "scored" => \A i \in Items : pc[i] \in {"queued", "done"}
    /\ phase = "raised" => \A i \in Items : pc[i] \in {"queued"} \cup Ends
    /\ phase = "scored" /\ row.mode # "unavailable" => \A i \in Items : pc[i] = "done"
    /\ phase = "scored" /\ row.mode = "reasoning_off" => mode = "reasoning_off"

LEMMA PhaseInvInductive == TypeOK /\ PhaseInv /\ [Next]_vars => PhaseInv'
<1> SUFFICES ASSUME TypeOK, PhaseInv, [Next]_vars PROVE PhaseInv'
  OBVIOUS
<1>0. /\ Probe \in Calls /\ Items \subseteq Calls /\ Probe \notin Items
      /\ 1 .. collected \subseteq Items
  BY ClassifierAssumption DEF Probe, Calls, Items, TypeOK
<1>1. ASSUME NEW c \in Calls, Classify(c) PROVE PhaseInv'
  <2>1. /\ UNCHANGED <<phase, collected, row>>
        /\ pc' = [pc EXCEPT ![c] = pc'[c]]
        /\ pc[c] \in Active
    BY <1>1, ClassifyFrame
  <2>2. phase \notin {"scored", "raised"}
    BY <1>0, <2>1 DEF PhaseInv, Calls, Items, Probe, Active, Ends
  <2>3. phase = "probe" => c = Probe
    BY <2>1 DEF PhaseInv, Calls, Items, Probe, Active
  <2>4. phase # "probe" => c # Probe
    BY <2>1 DEF PhaseInv, Active
  <2>5. c \notin 1 .. collected
    BY <2>1 DEF PhaseInv, Active
  <2> QED
    BY <1>0, <2>1, <2>2, <2>3, <2>4, <2>5 DEF PhaseInv, TypeOK
<1>2. ASSUME NEW i \in Items, Start(i) \/ Cancel(i) PROVE PhaseInv'
  BY <1>0, <1>2 DEF Start, Cancel, Goto, PhaseInv, TypeOK
<1>3. ASSUME Unservable PROVE PhaseInv'
  <2>1. row'.mode = "unavailable"
    BY <1>3 DEF Unservable, Row
  <2> QED
    BY <1>3, <2>1 DEF Unservable, PhaseInv, local
<1>4. ASSUME Publish PROVE PhaseInv'
  <2>1. collected = N /\ \A i \in Items : pc[i] = "done"
    BY <1>4 DEF Publish, PhaseInv, Items
  <2>2. row'.mode \in {mode, "unavailable"}
    BY <1>4, RowType DEF Publish
  <2> QED
    BY <1>4, <2>1, <2>2 DEF Publish, PhaseInv, local
<1>5. ASSUME FanOut \/ ProbeRaises \/ CollectRaises PROVE PhaseInv'
  BY <1>5 DEF FanOut, ProbeRaises, CollectRaises, PhaseInv, local, Ends
<1>6. ASSUME Reraise PROVE PhaseInv'
  BY <1>6 DEF Reraise, PhaseInv, local, Ends
<1>7. ASSUME Collect PROVE PhaseInv'
  <2>1. \A i \in 1 .. collected' : i \in 1 .. collected \/ i = collected + 1
    BY <1>7 DEF Collect, TypeOK
  <2> QED
    BY <1>7, <2>1 DEF Collect, PhaseInv, local
<1>8. ASSUME UNCHANGED vars PROVE PhaseInv'
  BY <1>8 DEF PhaseInv, vars, local
<1> QED
  BY <1>1, <1>2, <1>3, <1>4, <1>5, <1>6, <1>7, <1>8 DEF Next, ScoreModel, Stopped

(***************************************************************************)
(* The inductive invariant of the module.                                  *)
(***************************************************************************)
IInv == TypeOK /\ ModeInv /\ PhaseInv

THEOREM Invariance == Spec => []IInv
<1>1. Init => ModeInv /\ PhaseInv
  BY ClassifierAssumption DEF Init, ModeInv, PhaseInv, Calls, Probe, Items
<1> QED
  BY <1>1, TypeCorrect, ModeInvInductive, PhaseInvInductive, PTL DEF Spec, IInv

(***************************************************************************)
(* A row that says reasoning_off describes every one of its verdicts.      *)
(***************************************************************************)
THEOREM OffRowTheorem == Spec => []OffRowIsPure
<1>1. IInv => OffRowIsPure
  <2> SUFFICES ASSUME IInv, phase = "scored", row.mode = "reasoning_off", NEW i \in Items
               PROVE  sent[i] = "reasoning_off"
    BY DEF OffRowIsPure
  <2>1. i \in Calls /\ pc[i] = "done" /\ mode = "reasoning_off"
    BY DEF IInv, PhaseInv, Items, Calls
  <2> QED
    BY <2>1 DEF IInv, ModeInv, TypeOK, Modes
<1> QED
  BY <1>1, Invariance, PTL

(***************************************************************************)
(* score_model returns with no thread of its pool still at work.           *)
(***************************************************************************)
THEOREM NoWorkTheorem == Spec => []NoWorkAfterReturn
<1>1. IInv => NoWorkAfterReturn
  BY DEF IInv, PhaseInv, NoWorkAfterReturn, Returned, Running, Active, Ends
<1> QED
  BY <1>1, Invariance, PTL
-------------------------------------------------------------------------------
(***************************************************************************)
(* The safety half of the refinement: every behaviour of the threads is,   *)
(* seen from the caller, a behaviour of ModelScore.                        *)
(***************************************************************************)
LEMMA CallStepsRefine ==
    ASSUME IInv, NEW c \in Calls, Classify(c)
    PROVE  [Abstract!Next]_(Abstract!vars)
<1>1. /\ UNCHANGED <<phase, row>>
      /\ pc[c] \in Active
      /\ mode' \in {mode, "reasoning_low"}
  BY ClassifyFrame DEF IInv
<1>2. ~Returned
  BY <1>1 DEF IInv, PhaseInv, Returned, Active, Ends, Calls, Items, Probe
<1>3. State = "scoring" /\ State' = "scoring"
  BY <1>1, <1>2 DEF State, Returned
<1> QED
  BY <1>1, <1>3 DEF Abstract!Next, Abstract!vars, Abstract!FallBack

LEMMA PublishRefines ==
    ASSUME TypeOK, NEW vs, ~Returned, row' = Row(vs), phase' = "scored", mode' = mode
    PROVE  Abstract!Score
<1>1. State = "scoring" /\ State' = "scored"
  BY DEF State, Returned
<1>2. \E m \in {mode, "unavailable"}, e \in 0 .. N :
         Row(vs) = [mode |-> m, errors |-> e, excluded |-> e * ErrorDen > ErrorNum * N]
  BY ErrorCount DEF Row, Excluded
<1> QED
  BY <1>1, <1>2 DEF Abstract!Score, Abstract!Rows

THEOREM Refinement == Spec => Abstract!Spec
<1>1. Init => Abstract!Init
  BY DEF Init, Abstract!Init, State, Returned, NoRow, Abstract!NoRow
<1>2. IInv /\ [Next]_vars => [Abstract!Next]_(Abstract!vars)
  <2> SUFFICES ASSUME IInv, [Next]_vars PROVE [Abstract!Next]_(Abstract!vars)
    OBVIOUS
  <2>1. ASSUME NEW c \in Calls, Classify(c) PROVE [Abstract!Next]_(Abstract!vars)
    BY <2>1, CallStepsRefine
  <2>2. ASSUME Unservable PROVE Abstract!Score
    BY <2>2, PublishRefines DEF Unservable, Returned, IInv
  <2>3. ASSUME Publish PROVE Abstract!Score
    BY <2>3, PublishRefines DEF Publish, Returned, IInv
  <2>4. ASSUME ProbeRaises \/ Reraise PROVE Abstract!Raise
    BY <2>4 DEF ProbeRaises, Reraise, Abstract!Raise, State, Returned
  <2>5. ASSUME NEW i \in Items, Start(i) \/ Cancel(i) PROVE UNCHANGED Abstract!vars
    BY <2>5 DEF Start, Cancel, Abstract!vars, State, Returned
  <2>6. ASSUME FanOut \/ Collect \/ CollectRaises \/ UNCHANGED vars
        PROVE  UNCHANGED Abstract!vars
    BY <2>6 DEF FanOut, Collect, CollectRaises, Abstract!vars, State, Returned, vars
  <2> QED
    BY <2>1, <2>2, <2>3, <2>4, <2>5, <2>6 DEF Next, ScoreModel, Stopped, Abstract!Next
<1> QED
  BY <1>1, <1>2, Invariance, PTL DEF Spec, Abstract!Spec
-------------------------------------------------------------------------------
(***************************************************************************)
(* What a call ended with, and how score_model ends because of it.         *)
(***************************************************************************)
Answered == {"safe", "unsafe", "forbidden", "content_filter"}

\* A verdict rests on an answer; what score_model did says how calls ended.
EndInv ==
    /\ \A c \in Calls : pc[c] = "done" => verdict[c] = "ERROR" \/ last[c] \in Answered
    /\ phase \in {"fanout", "aborting", "scored"} => pc[Probe] = "done"
    /\ phase \in {"aborting", "raised"} => \E c \in Calls : pc[c] = "raised"
    /\ phase = "scored" /\ ~row.excluded =>
          /\ \A i \in Items : pc[i] = "done"
          /\ row.errors = Cardinality({i \in Items : verdict[i] = "ERROR"})
          /\ ~Excluded(row.errors)

\* Once the probe has met a 404 nothing is sent, and the row can only be one.
UnservableInv ==
    /\ phase = "probe" => \A i \in Items : sent[i] = "none"
    /\ last[Probe] = "missing" =>
          /\ unavailable /\ pc[Probe] = "done" /\ phase \in {"probe", "scored"}
          /\ \A i \in Items : pc[i] = "queued" /\ sent[i] = "none"
          /\ phase = "scored" =>
                row.excluded /\ row.errors = N /\ row.mode = "unavailable"

\* A board with nothing but errors is above the ceiling, which is below 1.
LEMMA AllErrorsExcluded ==
    /\ Cardinality({i \in Items : TRUE}) = N
    /\ Excluded(N)
<1>1. {i \in Items : TRUE} = 1 .. N
  BY DEF Items
<1>2. Cardinality(1 .. N) = N
  BY ClassifierAssumption, FS_Interval
<1>3. N * ErrorDen > ErrorNum * N
  <2> DEFINE k == ErrorDen - ErrorNum
  <2>1. N \in Nat /\ N > 0 /\ ErrorNum \in Nat /\ k \in Nat /\ k > 0
        /\ ErrorDen = ErrorNum + k
    BY ClassifierAssumption
  <2> HIDE DEF k
  <2>2. N * k > 0
    BY <2>1
  <2>3. N * (ErrorNum + k) = ErrorNum * N + N * k
    BY <2>1
  <2>4. ErrorNum * N \in Int /\ N * k \in Int
    BY <2>1
  <2> QED
    BY <2>1, <2>2, <2>3, <2>4
<1> QED
  BY <1>1, <1>2, <1>3 DEF Excluded

LEMMA UnservableRow ==
    ASSUME unavailable
    PROVE  Row([i \in Items |-> "ERROR"])
             = [mode |-> "unavailable", errors |-> N, excluded |-> TRUE]
<1>1. {i \in Items : [j \in Items |-> "ERROR"][i] = "ERROR"} = {i \in Items : TRUE}
  OBVIOUS
<1> QED
  BY <1>1, AllErrorsExcluded DEF Row, Excluded

\* A call's step never touches a call that is over, and ends its own as EndInv says.
LEMMA ClassifyEnds ==
    ASSUME IInv, NEW c \in Calls, Classify(c)
    PROVE  /\ \A d \in Calls : d # c => /\ pc'[d] = pc[d] /\ verdict'[d] = verdict[d]
                                        /\ last'[d] = last[d] /\ sent'[d] = sent[d]
           /\ pc'[c] = "done" => verdict'[c] = "ERROR" \/ last'[c] \in Answered
           /\ last'[c] = "missing" =>
                 \/ pc'[c] = "done" /\ unavailable'
                 \/ last[c] = "missing"
           /\ unavailable => unavailable'
<1> USE DEF IInv, TypeOK, Active, Goto, Finish, Reply, Answered
<1>1. CASE Post(c)
  BY <1>1 DEF Post
<1>2. CASE FallBack(c)
  BY <1>2 DEF FallBack, NextAttempt
<1>3. CASE Transient(c)
  BY <1>3 DEF Transient, NextAttempt
<1>4. CASE Missing(c) \/ ContentRefused(c) \/ StillRefuses(c) \/ HttpError(c)
  BY <1>4 DEF Missing, ContentRefused, StillRefuses, HttpError
<1>5. CASE MustReason(c) \/ Raise(c)
  BY <1>5 DEF MustReason, Raise
<1>6. CASE Answer(c)
  BY <1>6 DEF Answer, ParseVerdict
<1> QED
  BY <1>1, <1>2, <1>3, <1>4, <1>5, <1>6 DEF Classify

LEMMA CallsAreItemsOrProbe ==
    /\ Probe \in Calls /\ Items \subseteq Calls /\ Probe \notin Items
    /\ \A c \in Calls : c = Probe \/ c \in Items
  BY ClassifierAssumption DEF Probe, Calls, Items

LEMMA EndsInductive ==
    IInv /\ EndInv /\ UnservableInv /\ [Next]_vars => EndInv' /\ UnservableInv'
<1> SUFFICES ASSUME IInv, EndInv, UnservableInv, [Next]_vars PROVE EndInv' /\ UnservableInv'
  OBVIOUS
<1>0. /\ Probe \in Calls /\ Items \subseteq Calls /\ Probe \notin Items
      /\ \A c \in Calls : c = Probe \/ c \in Items
  BY CallsAreItemsOrProbe
<1>1. ASSUME NEW c \in Calls, Classify(c) PROVE EndInv' /\ UnservableInv'
  <2>1. UNCHANGED <<phase, collected, row>> /\ pc[c] \in Active
    BY <1>1, ClassifyFrame DEF IInv
  <2>2. phase \notin {"scored", "raised"}
    BY <1>0, <2>1 DEF IInv, PhaseInv, Active, Ends
  <2>3. phase = "probe" <=> c = Probe
    BY <1>0, <2>1 DEF IInv, PhaseInv, Active
  <2>4. EndInv'
    <3>1. \A d \in Calls : pc'[d] = "done" => verdict'[d] = "ERROR" \/ last'[d] \in Answered
      BY <1>1, ClassifyEnds DEF EndInv
    <3>2. phase \in {"fanout", "aborting"} => pc'[Probe] = "done"
      BY <1>0, <1>1, <2>3, ClassifyEnds DEF EndInv
    <3>3. phase = "aborting" => \E d \in Calls : pc'[d] = "raised"
      BY <1>1, <2>1, ClassifyEnds DEF EndInv, Active
    <3> QED
      BY <2>1, <2>2, <3>1, <3>2, <3>3 DEF EndInv
  <2>5. UnservableInv'
    <3>1. CASE phase = "probe"
      <4>1. c = Probe /\ \A i \in Items : pc'[i] = "queued" /\ sent'[i] = "none"
        BY <1>0, <1>1, <2>3, <3>1, ClassifyEnds DEF IInv, PhaseInv, UnservableInv
      <4>2. last[Probe] # "missing"
        BY <2>1, <4>1 DEF UnservableInv, Active
      <4> QED
        BY <1>1, <2>1, <3>1, <4>1, <4>2, ClassifyEnds DEF UnservableInv
    <3>2. CASE phase # "probe"
      <4>1. last'[Probe] = last[Probe] /\ last[Probe] # "missing"
        BY <1>0, <1>1, <2>2, <2>3, <3>2, ClassifyEnds DEF UnservableInv
      <4> QED
        BY <2>1, <3>2, <4>1 DEF UnservableInv
    <3> QED
      BY <3>1, <3>2
  <2> QED
    BY <2>4, <2>5
<1>2. ASSUME NEW i \in Items, Start(i) \/ Cancel(i) PROVE EndInv' /\ UnservableInv'
  <2>1. /\ phase \in {"fanout", "aborting"} /\ pc[i] = "queued"
        /\ \A d \in Calls : d # i => pc'[d] = pc[d]
        /\ pc'[i] \in {"ready", "cancelled"}
        /\ UNCHANGED <<unavailable, sent, last, verdict, phase, row>>
    BY <1>0, <1>2 DEF Start, Cancel, Goto, IInv, TypeOK
  <2>2. last[Probe] # "missing"
    BY <2>1 DEF UnservableInv
  <2> QED
    BY <1>0, <2>1, <2>2 DEF EndInv, UnservableInv
<1>3. ASSUME Unservable PROVE EndInv' /\ UnservableInv'
  <2>1. /\ phase = "probe" /\ pc[Probe] = "done" /\ phase' = "scored"
        /\ row' = [mode |-> "unavailable", errors |-> N, excluded |-> TRUE]
        /\ UNCHANGED <<unavailable, pc, sent, last, verdict>>
    BY <1>3, UnservableRow DEF Unservable, local
  <2> QED
    BY <2>1 DEF EndInv, UnservableInv
<1>4. ASSUME Publish PROVE EndInv' /\ UnservableInv'
  <2>1. /\ phase = "fanout" /\ phase' = "scored"
        /\ row' = Row(verdict)
        /\ UNCHANGED <<unavailable, pc, sent, last, verdict>>
    BY <1>4 DEF Publish, local
  <2>2. \A i \in Items : pc[i] = "done"
    BY <1>4 DEF Publish, IInv, PhaseInv, Items
  <2>3. /\ Row(verdict).errors = Cardinality({i \in Items : verdict[i] = "ERROR"})
        /\ Row(verdict).excluded = Excluded(Row(verdict).errors)
    BY DEF Row
  <2> QED
    BY <2>1, <2>2, <2>3 DEF EndInv, UnservableInv
<1>5. ASSUME FanOut PROVE EndInv' /\ UnservableInv'
  BY <1>5 DEF FanOut, local, EndInv, UnservableInv
<1>6. ASSUME ProbeRaises PROVE EndInv' /\ UnservableInv'
  BY <1>0, <1>6 DEF ProbeRaises, local, EndInv, UnservableInv
<1>7. ASSUME CollectRaises PROVE EndInv' /\ UnservableInv'
  <2>1. collected + 1 \in Calls /\ pc[collected + 1] = "raised"
    BY <1>7, ClassifierAssumption DEF CollectRaises, IInv, TypeOK, Calls
  <2> QED
    BY <1>7, <2>1 DEF CollectRaises, local, EndInv, UnservableInv
<1>8. ASSUME Collect \/ Reraise \/ UNCHANGED vars PROVE EndInv' /\ UnservableInv'
  BY <1>8 DEF Collect, Reraise, vars, local, EndInv, UnservableInv
<1> QED
  BY <1>1, <1>2, <1>3, <1>4, <1>5, <1>6, <1>7, <1>8 DEF Next, ScoreModel, Stopped

(***************************************************************************)
(* How calls ended, and how score_model ended because of it.               *)
(***************************************************************************)
THEOREM EndsInvariance == Spec => [](IInv /\ EndInv /\ UnservableInv)
<1>1. Init => EndInv /\ UnservableInv
  BY ClassifierAssumption DEF Init, EndInv, UnservableInv, Calls, Items, Probe
<1> QED
  BY <1>1, EndsInductive, Invariance, PTL DEF Spec

(***************************************************************************)
(* After a 404 of the probe nothing is sent and the row is excluded.       *)
(***************************************************************************)
THEOREM UnservableTheorem == Spec => []UnservableIsExcluded
<1>1. UnservableInv => UnservableIsExcluded
  BY DEF UnservableInv, UnservableIsExcluded
<1> QED
  BY <1>1, EndsInvariance, PTL

(***************************************************************************)
(* score_model raises if and only if a call of it raised.                  *)
(***************************************************************************)
THEOREM RaisesTheorem == Spec => []RaisesForACall
<1>1. IInv /\ EndInv => RaisesForACall
  BY CallsAreItemsOrProbe DEF IInv, PhaseInv, EndInv, RaisesForACall
<1> QED
  BY <1>1, EndsInvariance, PTL

(***************************************************************************)
(* A ranked row has answers for the share of its items that the ceiling    *)
(* on errors leaves.                                                       *)
(***************************************************************************)
LEMMA EnoughAnswers ==
    ASSUME NEW errors \in Nat, NEW answers \in Nat,
           errors + answers >= N, ~Excluded(errors)
    PROVE  answers * ErrorDen >= (ErrorDen - ErrorNum) * N
<1>1. N \in Nat /\ ErrorNum \in Nat /\ ErrorDen \in Nat
  BY ClassifierAssumption
<1>2. errors * ErrorDen <= ErrorNum * N
  BY <1>1 DEF Excluded
<1>3. (errors + answers) * ErrorDen >= N * ErrorDen
  BY <1>1
<1>4. /\ (errors + answers) * ErrorDen = errors * ErrorDen + answers * ErrorDen
      /\ (ErrorDen - ErrorNum) * N = N * ErrorDen - ErrorNum * N
  BY <1>1
<1> QED
  BY <1>1, <1>2, <1>3, <1>4

THEOREM AnsweredTheorem == Spec => []RankedRowIsAnswered
<1>1. IInv /\ EndInv => RankedRowIsAnswered
  <2> SUFFICES ASSUME IInv, EndInv, phase = "scored", ~row.excluded
               PROVE  Cardinality({i \in Items : last[i] \in Answered}) * ErrorDen
                        >= (ErrorDen - ErrorNum) * N
    BY DEF RankedRowIsAnswered, Answered
  <2> DEFINE E == {i \in Items : verdict[i] = "ERROR"}
             A == {i \in Items : last[i] \in Answered}
  <2>1. IsFiniteSet(Items) /\ Cardinality(Items) = N
    BY ClassifierAssumption, FS_Interval DEF Items
  <2>2. IsFiniteSet(E) /\ IsFiniteSet(A)
    BY <2>1, FS_Subset
  <2>3. Items \subseteq E \cup A
    BY CallsAreItemsOrProbe DEF EndInv
  <2>4. IsFiniteSet(E \cup A) /\ Cardinality(Items) <= Cardinality(E \cup A)
    BY <2>2, <2>3, FS_Union, FS_Subset
  <2>5. Cardinality(E \cup A) <= Cardinality(E) + Cardinality(A)
    <3>1. Cardinality(E \cup A) = Cardinality(E) + Cardinality(A) - Cardinality(E \cap A)
      BY <2>2, FS_Union
    <3>2. /\ Cardinality(E \cap A) \in Nat /\ Cardinality(E) \in Nat /\ Cardinality(A) \in Nat
      BY <2>2, FS_Intersection, FS_CardinalityType
    <3> QED
      BY <3>1, <3>2
  <2>6. /\ Cardinality(E) \in Nat /\ Cardinality(A) \in Nat /\ Cardinality(E \cup A) \in Nat
    BY <2>2, <2>4, FS_CardinalityType
  <2>7. ~Excluded(Cardinality(E))
    BY DEF EndInv
  <2> HIDE DEF E, A
  <2>8. Cardinality(E) + Cardinality(A) >= N
    BY <2>1, <2>4, <2>5, <2>6, ClassifierAssumption
  <2>9. Cardinality(A) * ErrorDen >= (ErrorDen - ErrorNum) * N
    BY <2>6, <2>7, <2>8, EnoughAnswers
  <2> QED
    BY <2>9 DEF A
<1> QED
  BY <1>1, EndsInvariance, PTL
===============================================================================
