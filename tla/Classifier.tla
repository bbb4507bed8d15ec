------------------------------ MODULE Classifier ------------------------------
(***************************************************************************)
(* score_model of the content-safety board: one Classifier object is       *)
(* shared by a probe call and by a pool of threads that classify the       *)
(* items.  The object's two attributes, mode and unavailable, are read and *)
(* written by all of them without a lock.                                  *)
(*                                                                         *)
(* A call is one execution of Classifier.classify.  The provider's answer  *)
(* to a request is abstracted to what the code tells apart (AllReplies).   *)
(***************************************************************************)
EXTENDS Integers, FiniteSets

CONSTANTS N,            \* number of items
          Concurrency,  \* threads of the pool
          Retries,      \* RETRIES: attempts of one call
          ErrorNum,     \* MAX_ERROR_RATE is ErrorNum / ErrorDen
          ErrorDen,
          Replies       \* the replies this provider can give

(***************************************************************************)
(* "missing" is HTTP 404, "forbidden" 403, "bad_request" 400, "busy" one   *)
(* of 429, 500, 502, 503, 504, and "http_error" any other error status.    *)
(* "transport" is an OSError, an HTTPException or a JSONDecodeError;       *)
(* "malformed" is a body whose decoding or whose shape raises anything     *)
(* else.  The rest are decoded replies: "content_filter" by its finish     *)
(* reason, "length" an empty content cut by the token limit, "safe" and    *)
(* "unsafe" a verdict, "prose" any other content, the empty one included.  *)
(***************************************************************************)
AllReplies == {"missing", "forbidden", "bad_request", "busy", "http_error",
               "transport", "malformed", "content_filter", "length",
               "safe", "unsafe", "prose"}

ASSUME ClassifierAssumption ==
    /\ N \in Nat \ {0}
    /\ Concurrency \in Nat \ {0}
    /\ Retries \in Nat \ {0}
    /\ ErrorNum \in Nat /\ ErrorDen \in Nat /\ ErrorNum < ErrorDen
    /\ Replies \subseteq AllReplies

Probe == 0
Items == 1 .. N
Calls == 0 .. N

VARIABLES mode,         \* Classifier.mode
          unavailable,  \* Classifier.unavailable
          pc,           \* where each call is
          attempt,      \* its loop variable
          sent,         \* the mode its last request was built in
          last,         \* the last reply it received
          verdict,      \* what it returned
          phase,        \* where score_model is
          collected,    \* how many results of pool.map it has taken
          row           \* the row it returned

local  == <<pc, attempt, sent, last, verdict>>
vars   == <<mode, unavailable, local, phase, collected, row>>

Modes    == {"reasoning_off", "reasoning_low"}
Verdicts == {"SAFE", "UNSAFE", "ERROR"}
NoRow    == [mode |-> "none", errors |-> 0, excluded |-> FALSE]
Active   == {"ready", "posted", "switching"}
Running  == {i \in Items : pc[i] \in Active}

TypeOK ==
    /\ mode \in Modes
    /\ unavailable \in BOOLEAN
    /\ pc \in [Calls -> {"queued", "done", "raised", "cancelled"} \cup Active]
    /\ attempt \in [Calls -> 0 .. Retries - 1]
    /\ sent \in [Calls -> Modes \cup {"none"}]
    /\ last \in [Calls -> AllReplies \cup {"none"}]
    /\ verdict \in [Calls -> Verdicts \cup {"none"}]
    /\ phase \in {"probe", "fanout", "aborting", "scored", "raised"}
    /\ collected \in 0 .. N
    /\ row \in [mode : Modes \cup {"none", "unavailable"},
                errors : 0 .. N, excluded : BOOLEAN]

Init ==
    /\ mode = "reasoning_off"
    /\ unavailable = FALSE
    /\ pc = [c \in Calls |-> IF c = Probe THEN "ready" ELSE "queued"]
    /\ attempt = [c \in Calls |-> 0]
    /\ sent = [c \in Calls |-> "none"]
    /\ last = [c \in Calls |-> "none"]
    /\ verdict = [c \in Calls |-> "none"]
    /\ phase = "probe"
    /\ collected = 0
    /\ row = NoRow
-------------------------------------------------------------------------------
(***************************************************************************)
(* One call.                                                               *)
(***************************************************************************)

Goto(c, l) == pc' = [pc EXCEPT ![c] = l]

\* return v
Finish(c, v) ==
    /\ Goto(c, "done")
    /\ verdict' = [verdict EXCEPT ![c] = v]
    /\ UNCHANGED attempt

\* Mutant: one attempt too many.
NextAttemptOffByOne(c) ==
    \/ /\ attempt[c] + 1 <= Retries
       /\ Goto(c, "ready")
       /\ attempt' = [attempt EXCEPT ![c] = @ + 1]
       /\ UNCHANGED verdict
    \/ /\ attempt[c] + 1 > Retries
       /\ Finish(c, "ERROR")

\* The next turn of the loop, or the return after its last one.
NextAttempt(c) ==
    \/ /\ attempt[c] + 1 < Retries
       /\ Goto(c, "ready")
       /\ attempt' = [attempt EXCEPT ![c] = @ + 1]
       /\ UNCHANGED verdict
    \/ /\ attempt[c] + 1 >= Retries
       /\ Finish(c, "ERROR")

\* Mutant: anything that is not UNSAFE is SAFE.
ParseVerdictLenient(r) == IF r = "unsafe" THEN "UNSAFE" ELSE "SAFE"

ParseVerdict(r) ==
    IF r = "unsafe" THEN "UNSAFE" ELSE IF r = "safe" THEN "SAFE" ELSE "ERROR"

\* Mutant: a retry turns reasoning on for its own request only.
PostByAttempt(c) ==
    /\ pc[c] = "ready"
    /\ Goto(c, "posted")
    /\ sent' = [sent EXCEPT ![c] = IF attempt[c] > 0 THEN "reasoning_low" ELSE mode]
    /\ UNCHANGED <<mode, unavailable, attempt, last, verdict, phase, collected, row>>

\* _body reads mode, then the request leaves.
Post(c) ==
    /\ pc[c] = "ready"
    /\ Goto(c, "posted")
    /\ sent' = [sent EXCEPT ![c] = mode]
    /\ UNCHANGED <<mode, unavailable, attempt, last, verdict, phase, collected, row>>

Reply(c, r) ==
    /\ pc[c] = "posted"
    /\ r \in Replies
    /\ last' = [last EXCEPT ![c] = r]
    /\ UNCHANGED <<mode, sent, phase, collected, row>>

Missing(c) ==
    /\ Reply(c, "missing")
    /\ unavailable' = TRUE
    /\ Finish(c, "ERROR")

ContentRefused(c) ==
    /\ \E r \in {"forbidden", "content_filter"} : Reply(c, r)
    /\ Finish(c, "UNSAFE")
    /\ UNCHANGED unavailable

\* Mutant: the test of mode is forgotten.
MustReasonAgain(c) ==
    /\ \E r \in {"bad_request", "length"} : Reply(c, r)
    /\ Goto(c, "switching")
    /\ UNCHANGED <<unavailable, attempt, verdict>>

\* The model must reason and mode still says off: the assignment comes next.
MustReason(c) ==
    /\ \E r \in {"bad_request", "length"} : Reply(c, r)
    /\ mode = "reasoning_off"
    /\ Goto(c, "switching")
    /\ UNCHANGED <<unavailable, attempt, verdict>>

\* The same replies when mode says low, whoever wrote it.
StillRefuses(c) ==
    /\ \E r \in {"bad_request", "length"} : Reply(c, r)
    /\ mode # "reasoning_off"
    /\ Finish(c, "ERROR")
    /\ UNCHANGED unavailable

\* Mutant: two threads that fall back undo each other.
FallBackToggles(c) ==
    /\ pc[c] = "switching"
    /\ mode' = IF mode = "reasoning_off" THEN "reasoning_low" ELSE "reasoning_off"
    /\ NextAttempt(c)
    /\ UNCHANGED <<unavailable, sent, last, phase, collected, row>>

FallBack(c) ==
    /\ pc[c] = "switching"
    /\ mode' = "reasoning_low"
    /\ NextAttempt(c)
    /\ UNCHANGED <<unavailable, sent, last, phase, collected, row>>

Transient(c) ==
    /\ \E r \in {"busy", "transport"} : Reply(c, r)
    /\ NextAttempt(c)
    /\ UNCHANGED unavailable

HttpError(c) ==
    /\ Reply(c, "http_error")
    /\ Finish(c, "ERROR")
    /\ UNCHANGED unavailable

Answer(c) ==
    /\ \E r \in {"safe", "unsafe", "prose"} : Reply(c, r) /\ Finish(c, ParseVerdict(r))
    /\ UNCHANGED unavailable

\* The exception is caught nowhere in classify.
Raise(c) ==
    /\ Reply(c, "malformed")
    /\ Goto(c, "raised")
    /\ UNCHANGED <<unavailable, attempt, verdict>>

Classify(c) == \/ Post(c)
               \/ Missing(c)
               \/ ContentRefused(c)
               \/ MustReason(c)
               \/ StillRefuses(c)
               \/ FallBack(c)
               \/ Transient(c)
               \/ HttpError(c)
               \/ Answer(c)
               \/ Raise(c)
-------------------------------------------------------------------------------
(***************************************************************************)
(* score_model and its thread pool.                                        *)
(***************************************************************************)

\* A free thread takes the first item that is neither started nor cancelled.
Start(i) ==
    /\ phase \in {"fanout", "aborting"}
    /\ pc[i] = "queued"
    /\ \A j \in 1 .. i - 1 : pc[j] # "queued"
    /\ Cardinality(Running) < Concurrency
    /\ Goto(i, "ready")
    /\ UNCHANGED <<mode, unavailable, attempt, sent, last, verdict, phase, collected, row>>

\* error_rate > MAX_ERROR_RATE
Excluded(errors) == errors * ErrorDen > ErrorNum * N

Row(vs) ==
    LET errors == Cardinality({i \in Items : vs[i] = "ERROR"})
    IN  [mode |-> IF unavailable THEN "unavailable" ELSE mode,
         errors |-> errors,
         excluded |-> Excluded(errors)]

\* Mutant: the probe's finding is not looked at.
FanOutRegardless ==
    /\ phase = "probe" /\ pc[Probe] = "done"
    /\ phase' = "fanout"
    /\ UNCHANGED <<mode, unavailable, local, collected, row>>

FanOut ==
    /\ phase = "probe" /\ pc[Probe] = "done" /\ ~unavailable
    /\ phase' = "fanout"
    /\ UNCHANGED <<mode, unavailable, local, collected, row>>

\* No provider serves the model: every verdict is an error, nothing is sent.
Unservable ==
    /\ phase = "probe" /\ pc[Probe] = "done" /\ unavailable
    /\ row' = Row([i \in Items |-> "ERROR"])
    /\ phase' = "scored"
    /\ UNCHANGED <<mode, unavailable, local, collected>>

ProbeRaises ==
    /\ phase = "probe" /\ pc[Probe] = "raised"
    /\ phase' = "raised"
    /\ UNCHANGED <<mode, unavailable, local, collected, row>>

\* Mutant: the result of a call that raised is taken like any other.
CollectAnyEnd ==
    /\ phase = "fanout" /\ collected < N /\ pc[collected + 1] \in {"done", "raised"}
    /\ collected' = collected + 1
    /\ UNCHANGED <<mode, unavailable, local, phase, row>>

\* pool.map yields the results in item order.
Collect ==
    /\ phase = "fanout" /\ collected < N /\ pc[collected + 1] = "done"
    /\ collected' = collected + 1
    /\ UNCHANGED <<mode, unavailable, local, phase, row>>

\* Mutant: the row is made while threads still work.
PublishEarly ==
    /\ phase = "fanout" /\ collected > 0
    /\ row' = Row(verdict)
    /\ phase' = "scored"
    /\ UNCHANGED <<mode, unavailable, local, collected>>

Publish ==
    /\ phase = "fanout" /\ collected = N
    /\ row' = Row(verdict)
    /\ phase' = "scored"
    /\ UNCHANGED <<mode, unavailable, local, collected>>

CollectRaises ==
    /\ phase = "fanout" /\ collected < N /\ pc[collected + 1] = "raised"
    /\ phase' = "aborting"
    /\ UNCHANGED <<mode, unavailable, local, collected, row>>

\* The generator's finally clause cancels what has not started, last item first.
Cancel(i) ==
    /\ phase = "aborting" /\ pc[i] = "queued"
    /\ \A j \in i + 1 .. N : pc[j] # "queued"
    /\ Goto(i, "cancelled")
    /\ UNCHANGED <<mode, unavailable, attempt, sent, last, verdict, phase, collected, row>>

\* Mutant: the pool is not waited for.
ReraiseAtOnce ==
    /\ phase = "aborting"
    /\ phase' = "raised"
    /\ UNCHANGED <<mode, unavailable, local, collected, row>>

\* Leaving the with block waits for the running threads, then the exception goes on.
Reraise ==
    /\ phase = "aborting"
    /\ \A i \in Items : pc[i] \in {"done", "raised", "cancelled"}
    /\ phase' = "raised"
    /\ UNCHANGED <<mode, unavailable, local, collected, row>>

ScoreModel == \/ FanOut \/ Unservable \/ ProbeRaises
              \/ Collect \/ Publish \/ CollectRaises \/ Reraise
              \/ \E i \in Items : Cancel(i)

Returned == phase \in {"scored", "raised"}
Stopped  == Returned /\ UNCHANGED vars

Next == \/ \E c \in Calls : Classify(c)
        \/ \E i \in Items : Start(i)
        \/ ScoreModel
        \/ Stopped

Spec == Init /\ [][Next]_vars

(***************************************************************************)
(* Threads are scheduled, and a request ends: urlopen has a timeout.       *)
(***************************************************************************)
Fairness == /\ \A c \in Calls : WF_vars(Classify(c))
            /\ \A i \in Items : WF_vars(Start(i))
            /\ WF_vars(ScoreModel)

FairSpec == Spec /\ Fairness
-------------------------------------------------------------------------------
(***************************************************************************)
(* Safety.                                                                 *)
(***************************************************************************)

\* A call falls back at most once: when it is about to write mode, its own
\* request was still built with reasoning off, however old its look at mode is.
FallsBackOnce == \A c \in Calls : pc[c] = "switching" => sent[c] = "reasoning_off"

\* A row that says reasoning_off holds no verdict, and ranks no item, that was
\* obtained by a request with reasoning on.
OffRowIsPure ==
    phase = "scored" /\ row.mode = "reasoning_off"
        => \A i \in Items : sent[i] = "reasoning_off"

\* When the probe finds the model unservable nothing else is ever sent, and the
\* row is excluded with every item an error.
UnservableIsExcluded ==
    phase = "scored" /\ last[Probe] = "missing"
        => /\ \A i \in Items : pc[i] = "queued" /\ sent[i] = "none"
           /\ row.excluded /\ row.errors = N /\ row.mode = "unavailable"

\* A row that is ranked rests on answers: its items that ended with a verdict or
\* a refusal of the provider are at least the share the error rate leaves.
RankedRowIsAnswered ==
    phase = "scored" /\ ~row.excluded
        => LET answered == {i \in Items : last[i] \in {"safe", "unsafe", "forbidden",
                                                       "content_filter"}}
           IN  Cardinality(answered) * ErrorDen >= (ErrorDen - ErrorNum) * N

\* Whatever way score_model ends, it leaves no thread behind that may still send
\* a request or write mode.
NoWorkAfterReturn == Returned => Running = {} /\ pc[Probe] \in {"done", "raised"}

\* An exception in one call costs the whole row, and only an exception does.
RaisesForACall == /\ phase = "raised" => \E c \in Calls : pc[c] = "raised"
                  /\ phase = "scored" => \A c \in Calls : pc[c] # "raised"

\* Once a request went out with reasoning on, every later one does too, whichever
\* thread sends it.
NeverBackToOff ==
    [][(\E c \in Calls : sent[c] = "reasoning_low")
         => \A d \in Calls : sent'[d] # sent[d] => sent'[d] = "reasoning_low"]_vars

(***************************************************************************)
(* Refinement: seen from its caller, score_model is ModelScore.            *)
(***************************************************************************)
State == IF Returned THEN phase ELSE "scoring"

Abstract == INSTANCE ModelScore WITH state <- State

\* No thread changes the row or the mode behind the caller's back, mode changes
\* only towards reasoning_low, and the caller gets, in the end, one row or an
\* exception.
ImplementsModelScore == Abstract!FairSpec

(***************************************************************************)
(* What the source's comments and the board's README say.                  *)
(***************************************************************************)

\* README: "A model that cannot answer without reasoning is retried at low effort".
\* No call that has attempts left ends on a refusal of a reasoning-off request.
RetriedAtLowEffort ==
    \A c \in Calls :
        pc[c] = "done" /\ last[c] \in {"bad_request", "length"} /\ attempt[c] + 1 < Retries
            => sent[c] = "reasoning_low"

\* harness.py: "Transport errors, empty output and unparseable output count as errors".
UnparseableCountsAsError == \A c \in Calls : last[c] = "malformed" => pc[c] # "raised"
===============================================================================
