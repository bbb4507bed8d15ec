--------------------------- MODULE BoardRefresh_proofs ------------------------
(***************************************************************************)
(* Theorems about the weekly workflows: for any candidates, any number of  *)
(* weeks, pushes by others, aborted jobs and changes of key and listing.   *)
(***************************************************************************)
EXTENDS BoardRefresh, TLAPS

RowValues == {"none", "excluded", "ranked"}
Steps     == {"checkedout", "keyed", "scored", "tested"}
Trees     == [Boards -> [Models -> RowValues]]

\* Nothing that one tree records is taken back by the other.
Kept(t, u) ==
    \A b \in Boards, m \in Models : /\ t[b][m] # "none" => u[b][m] # "none"
                                    /\ t[b][m] = "ranked" => u[b][m] = "ranked"

Types ==
    /\ tree \in Trees
    /\ work \in [Boards -> Trees]
    /\ scored \in [Boards -> BOOLEAN]
    /\ current \in [Boards -> BOOLEAN]
    /\ job \in [Boards -> {"idle"} \cup Ended \cup Steps]

\* A job whose push git would accept takes nothing back.
CurrentInv == \A b \in Boards : current[b] => Kept(tree, work[b])

\* A job that has scored nothing has nothing that the branch lacks.
UnscoredInv ==
    \A b \in Boards :
        /\ job[b] \in {"checkedout", "keyed"} => ~scored[b]
        /\ job[b] \in Steps /\ ~scored[b] =>
              \A m \in Models : work[b][b][m] # "none" => tree[b][m] # "none"

\* A harness that has ended well has left out only candidates that raised.
HarnessInv ==
    \A b \in Boards : job[b] \in {"scored", "tested"} =>
        \A m \in Models : work[b][b][m] = "none" => CatchesFailures(b) /\ m \in Flaky

IInv == Types /\ CurrentInv /\ UnscoredInv /\ HarnessInv /\ GreenJobIsComplete
-------------------------------------------------------------------------------
\* What a run of the harness does to the rows of the checkout.
LEMMA HarnessRows ==
    ASSUME IInv, NEW b \in Boards, RunHarness(b), job'[b] = "scored"
    PROVE  /\ job[b] = "keyed" /\ job' = [job EXCEPT ![b] = "scored"]
           /\ work' \in [Boards -> Trees] /\ scored' \in [Boards -> BOOLEAN]
           /\ \A c \in Boards : c # b => work'[c] = work[c] /\ scored'[c] = scored[c]
           /\ \A c \in Boards : c # b => work'[b][c] = work[b][c]
           /\ \A m \in Models : /\ work[b][b][m] # "none" => work'[b][b][m] # "none"
                                /\ work[b][b][m] = "ranked" => work'[b][b][m] = "ranked"
           /\ \A m \in Models :
                 work'[b][b][m] = "none" => CatchesFailures(b) /\ m \in Flaky
           /\ ~scored'[b] => \A m \in Models : work'[b][b][m] = work[b][b][m]
<1>1. PICK raised \in SUBSET (Todo(b) \cap Flaky) :
         IF raised # {} /\ ~CatchesFailures(b)
         THEN /\ Step(b, "keyed", "failure")
              /\ UNCHANGED <<work, scored>>
         ELSE LET done == Todo(b) \ raised
              IN  /\ Step(b, "keyed", "scored")
                  /\ \E new \in [done -> {"ranked", "excluded"}] :
                        work' = [work EXCEPT ![b][b] =
                                    [m \in Models |-> IF m \in done THEN new[m] ELSE @[m]]]
                  /\ scored' = [scored EXCEPT ![b] = done # {}]
  BY DEF RunHarness
<1>2. ~(raised # {} /\ ~CatchesFailures(b))
  BY <1>1 DEF Step, IInv, Types
<1> DEFINE done == Todo(b) \ raised
<1>3. Step(b, "keyed", "scored") /\ scored' = [scored EXCEPT ![b] = done # {}]
  BY <1>1, <1>2
<1>4. PICK new \in [done -> {"ranked", "excluded"}] :
         work' = [work EXCEPT ![b][b] =
                     [m \in Models |-> IF m \in done THEN new[m] ELSE @[m]]]
  BY <1>1, <1>2
<1>5. /\ \A c \in Boards : c # b => work'[c] = work[c]
      /\ \A c \in Boards : c # b => work'[b][c] = work[b][c]
      /\ work'[b][b] = [m \in Models |-> IF m \in done THEN new[m] ELSE work[b][b][m]]
  BY <1>4 DEF IInv, Types, Trees
<1>6. work' \in [Boards -> Trees]
  <2>1. work'[b][b] \in [Models -> RowValues]
    <3>1. \A m \in Models : work[b][b][m] \in RowValues
      BY DEF IInv, Types, Trees
    <3>2. \A m \in done : new[m] \in RowValues
      BY <1>4 DEF RowValues
    <3> HIDE DEF done
    <3> QED
      BY <1>5, <3>1, <3>2
  <2>2. work' = [work EXCEPT ![b] = [work[b] EXCEPT ![b] = work'[b][b]]]
    BY <1>4, <1>5 DEF IInv, Types, Trees
  <2>3. [work[b] EXCEPT ![b] = work'[b][b]] \in Trees
    BY <2>1 DEF IInv, Types, Trees
  <2> QED
    BY <2>2, <2>3 DEF IInv, Types
<1>7. \A m \in Todo(b) : work[b][b][m] \in {"none", "excluded"}
  BY DEF Todo
<1>8. \A m \in Models : /\ work[b][b][m] # "none" => work'[b][b][m] # "none"
                        /\ work[b][b][m] = "ranked" => work'[b][b][m] = "ranked"
  BY <1>5, <1>7
<1>9. \A m \in Models : work'[b][b][m] = "none" => CatchesFailures(b) /\ m \in Flaky
  <2> SUFFICES ASSUME NEW m \in Models, work'[b][b][m] = "none"
               PROVE  CatchesFailures(b) /\ m \in Flaky
    OBVIOUS
  <2>1. m \notin done
    BY <1>5
  <2>2. m \in Todo(b)
    BY <1>5, <2>1 DEF Todo
  <2> QED
    BY <1>2, <2>1, <2>2
<1>10. ~scored'[b] => \A m \in Models : work'[b][b][m] = work[b][b][m]
  BY <1>3, <1>5 DEF IInv, Types
<1>11. /\ job[b] = "keyed" /\ job' = [job EXCEPT ![b] = "scored"]
       /\ scored' \in [Boards -> BOOLEAN]
       /\ \A c \in Boards : c # b => scored'[c] = scored[c]
  BY <1>3 DEF Step, IInv, Types
<1> QED
  BY <1>5, <1>6, <1>8, <1>9, <1>10, <1>11

LEMMA InitInv == Init => IInv
<1> SUFFICES ASSUME Init PROVE IInv
  OBVIOUS
<1>1. tree \in Trees
  BY DEF Init, Trees, RowValues
<1>2. Types
  BY <1>1 DEF Init, Types
<1>3. CurrentInv /\ UnscoredInv /\ HarnessInv /\ GreenJobIsComplete
  BY DEF Init, CurrentInv, UnscoredInv, HarnessInv, GreenJobIsComplete, Steps
<1> QED
  BY <1>2, <1>3 DEF IInv

LEMMA CheckoutKeeps ==
    ASSUME IInv, NEW b \in Boards, Checkout(b)
    PROVE  IInv'
  BY DEF Checkout, IInv, Types, CurrentInv, UnscoredInv, HarnessInv, GreenJobIsComplete,
         Kept, Trees, Ended, Steps

\* A job ends without a push, or goes on without touching its checkout.
LEMMA MoveKeeps ==
    ASSUME IInv, NEW b \in Boards, NEW to,
           job' = [job EXCEPT ![b] = to], UNCHANGED <<tree, work, scored, current>>,
           \/ job[b] = "checkedout" /\ to \in {"keyed", "failure"}
           \/ job[b] = "scored" /\ to = "tested"
           \/ to \in {"failure", "rejected"}
           \/ job[b] = "tested" /\ ~scored[b] /\ to = "success"
    PROVE  IInv'
<1>1. Types'
  BY DEF IInv, Types, Ended, Steps
<1>2. CurrentInv' /\ UnscoredInv' /\ HarnessInv'
  BY DEF IInv, Types, CurrentInv, UnscoredInv, HarnessInv, Kept, Steps
<1>3. GreenJobIsComplete'
  BY DEF IInv, Types, UnscoredInv, HarnessInv, GreenJobIsComplete, CatchesFailures, Steps
<1> QED
  BY <1>1, <1>2, <1>3 DEF IInv

LEMMA RunHarnessKeeps ==
    ASSUME IInv, NEW b \in Boards, RunHarness(b)
    PROVE  IInv'
<1>1. UNCHANGED <<tree, current>>
  BY DEF RunHarness
<1>2. CASE job'[b] = "scored"
  <2>1. Types'
    BY <1>1, <1>2, HarnessRows DEF IInv, Types, Steps
  <2>2. CurrentInv'
    <3> SUFFICES ASSUME NEW c \in Boards, current[c], NEW d \in Boards, NEW m \in Models
                 PROVE  /\ tree[d][m] # "none" => work'[c][d][m] # "none"
                        /\ tree[d][m] = "ranked" => work'[c][d][m] = "ranked"
      BY <1>1 DEF CurrentInv, Kept
    <3>1. /\ tree[d][m] # "none" => work[c][d][m] # "none"
          /\ tree[d][m] = "ranked" => work[c][d][m] = "ranked"
      BY DEF IInv, CurrentInv, Kept
    <3>2. CASE c = b /\ d = b
      BY <1>2, <3>1, <3>2, HarnessRows
    <3>3. CASE ~(c = b /\ d = b)
      BY <1>2, <3>1, <3>3, HarnessRows
    <3> QED
      BY <3>2, <3>3
  <2>3. UnscoredInv'
    BY <1>1, <1>2, HarnessRows DEF IInv, Types, UnscoredInv, Steps
  <2>4. HarnessInv'
    BY <1>2, HarnessRows DEF IInv, Types, HarnessInv
  <2>5. GreenJobIsComplete'
    BY <1>1, <1>2, HarnessRows DEF IInv, Types, GreenJobIsComplete
  <2> QED
    BY <2>1, <2>2, <2>3, <2>4, <2>5 DEF IInv
<1>3. CASE job'[b] # "scored"
  <2>1. job' = [job EXCEPT ![b] = "failure"] /\ UNCHANGED <<work, scored>>
    BY <1>3 DEF RunHarness, Step, IInv, Types
  <2> QED
    BY <1>1, <2>1, MoveKeeps
<1> QED
  BY <1>2, <1>3

LEMMA PushKeeps ==
    ASSUME IInv, NEW b \in Boards, Push(b)
    PROVE  IInv' /\ Kept(tree, tree')
<1>1. /\ job[b] = "tested" /\ scored[b] /\ current[b]
      /\ job' = [job EXCEPT ![b] = "success"]
      /\ tree' = work[b] /\ current' = [c \in Boards |-> FALSE]
      /\ UNCHANGED <<work, scored>>
  BY DEF Push, Step
<1>2. Kept(tree, tree')
  BY <1>1 DEF IInv, CurrentInv
<1>3. Types' /\ CurrentInv' /\ HarnessInv'
  BY <1>1 DEF IInv, Types, CurrentInv, HarnessInv, Ended, Steps
<1>4. UnscoredInv'
  BY <1>1, <1>2 DEF IInv, Types, UnscoredInv, Kept, Steps
<1>5. GreenJobIsComplete'
  <2> SUFFICES ASSUME NEW c \in Boards, job'[c] = "success",
                      NEW m \in Models, tree'[c][m] = "none"
               PROVE  CatchesFailures(c) /\ m \in Flaky
    BY DEF GreenJobIsComplete, CatchesFailures
  <2>1. CASE c = b
    BY <1>1, <2>1 DEF IInv, HarnessInv
  <2>2. CASE c # b
    <3>1. job[c] = "success" /\ tree[c][m] = "none"
      BY <1>1, <1>2, <2>2 DEF IInv, Types, Kept
    <3> QED
      BY <3>1 DEF IInv, GreenJobIsComplete
  <2> QED
    BY <2>1, <2>2
<1> QED
  BY <1>2, <1>3, <1>4, <1>5 DEF IInv

\* A push by others, and changes of the secret and of the listing.
LEMMA EnvironmentKeeps ==
    ASSUME IInv, UNCHANGED <<tree, work, scored, job>>,
           current' \in {current, [b \in Boards |-> FALSE]}
    PROVE  IInv'
  BY DEF IInv, Types, CurrentInv, UnscoredInv, HarnessInv, GreenJobIsComplete, Kept

LEMMA StepKeeps == IInv /\ [Next]_vars => IInv' /\ Kept(tree, tree')
<1> SUFFICES ASSUME IInv, [Next]_vars PROVE IInv' /\ Kept(tree, tree')
  OBVIOUS
<1>1. UNCHANGED tree => Kept(tree, tree')
  BY DEF Kept
<1>2. ASSUME NEW b \in Boards, Checkout(b) PROVE IInv' /\ UNCHANGED tree
  BY <1>2, CheckoutKeeps DEF Checkout
<1>3. ASSUME NEW b \in Boards,
             RequireKey(b) \/ PanelMissing(b) \/ TestBoard(b) \/ NothingNew(b)
               \/ PushRejected(b) \/ Abort(b)
      PROVE  IInv' /\ UNCHANGED tree
  BY <1>3, MoveKeeps
  DEF RequireKey, PanelMissing, TestBoard, NothingNew, PushRejected, Abort, Step
<1>4. ASSUME NEW b \in Boards, RunHarness(b) PROVE IInv' /\ UNCHANGED tree
  BY <1>4, RunHarnessKeeps DEF RunHarness
<1>5. ASSUME NEW b \in Boards, Push(b) PROVE IInv' /\ Kept(tree, tree')
  BY <1>5, PushKeeps
<1>6. ASSUME OutsidePush \/ EditKey \/ EditListing \/ UNCHANGED vars
      PROVE  IInv' /\ UNCHANGED tree
  BY <1>6, EnvironmentKeeps DEF OutsidePush, EditKey, EditListing, vars
<1> QED
  BY <1>1, <1>2, <1>3, <1>4, <1>5, <1>6 DEF Next, Job

\* The inductive invariant of the workflows.
THEOREM Invariance == Spec => []IInv
  BY InitInv, StepKeeps, PTL DEF Spec

\* The git push of one board's job never takes back what the other has pushed, and a
\* ranked row stays ranked.
THEOREM NoCommittedRowLostTheorem == Spec => NoCommittedRowLost
<1> DEFINE Keeps == \A b \in Boards, m \in Models :
                       /\ tree[b][m] # "none" => tree'[b][m] # "none"
                       /\ tree[b][m] = "ranked" => tree'[b][m] = "ranked"
<1>1. IInv /\ [Next]_vars => Keeps
  BY StepKeeps DEF Kept
<1> QED
  BY <1>1, Invariance, PTL DEF Spec, NoCommittedRowLost

\* A green job means that every candidate whose scoring did not raise is on the branch.
THEOREM GreenJobTheorem == Spec => []GreenJobIsComplete
  BY Invariance, PTL DEF IInv
===============================================================================
