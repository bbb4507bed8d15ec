------------------------------ MODULE BoardRefresh ----------------------------
(***************************************************************************)
(* The two weekly workflows that refresh the boards.  Each checks the      *)
(* repository out, requires the API key, runs its harness, runs its unit   *)
(* tests, then commits results.json and pushes.  The jobs of one board     *)
(* exclude each other, the two boards' jobs do not: they share one branch, *)
(* with each other and with everybody else who pushes to it.               *)
(*                                                                         *)
(* The harness run is one step here (BoardFile has its inside): the runner *)
(* and its files are gone when the job ends, so only what is pushed counts.*)
(***************************************************************************)
EXTENDS Integers

CONSTANTS Boards,       \* the boards refreshed, of {"content", "site"}
          Models,       \* the candidates
          Flaky,        \* candidates whose score_model may raise
          MaxOutsides,  \* bound: pushes by others
          MaxAborts,    \* bound: jobs killed by timeout-minutes or failed by the network
          MaxEdits      \* bound: changes of the repository secret and of the listing

ASSUME BoardRefreshAssumption ==
    /\ Boards \subseteq {"content", "site"}
    /\ Flaky \subseteq Models
    /\ MaxOutsides \in Nat /\ MaxAborts \in Nat /\ MaxEdits \in Nat

VARIABLES tree,     \* each board's rows at the head of the branch
          work,     \* the checkout of each board's job
          scored,   \* the harness of the job has written its results.json
          current,  \* the branch has not moved since the job's checkout
          job,      \* the step each board's job is at, or how its last job ended
          key,      \* the repository holds the secret
          listed,   \* OpenRouter lists every judge of the site board's panel
          outsides, aborts, edits

counters == <<outsides, aborts, edits>>
vars     == <<tree, work, scored, current, job, key, listed, counters>>

Ended   == {"success", "failure", "rejected"}

Init ==
    /\ tree = [b \in Boards |-> [m \in Models |-> "none"]]
    /\ work = [b \in Boards |-> tree]
    /\ scored = [b \in Boards |-> FALSE]
    /\ current = [b \in Boards |-> FALSE]
    /\ job = [b \in Boards |-> "idle"]
    /\ key = TRUE /\ listed = TRUE
    /\ outsides = 0 /\ aborts = 0 /\ edits = 0
-------------------------------------------------------------------------------
Step(b, from, to) == job[b] = from /\ job' = [job EXCEPT ![b] = to]

\* Mutant: the site board's harness stops at an exception too.
CatchesNothing(b) == FALSE

\* The site board's harness differs from the content board's in two ways.
RetriesExcluded(b) == b = "site"
CatchesFailures(b) == b = "site"

Checkout(b) ==
    /\ job[b] \in {"idle"} \cup Ended
    /\ job' = [job EXCEPT ![b] = "checkedout"]
    /\ work' = [work EXCEPT ![b] = tree]
    /\ scored' = [scored EXCEPT ![b] = FALSE]
    /\ current' = [current EXCEPT ![b] = TRUE]
    /\ UNCHANGED <<tree, key, listed, counters>>

RequireKey(b) ==
    /\ Step(b, "checkedout", IF key THEN "keyed" ELSE "failure")
    /\ UNCHANGED <<tree, work, scored, current, key, listed, counters>>

Todo(b) == {m \in Models : \/ work[b][b][m] = "none"
                           \/ work[b][b][m] = "excluded" /\ RetriesExcluded(b)}

\* The site board's harness gives up when a judge is no longer listed.
PanelMissing(b) ==
    /\ b = "site" /\ ~listed
    /\ Step(b, "keyed", "failure")
    /\ UNCHANGED <<tree, work, scored, current, key, listed, counters>>

\* The harness scores every model it has to; raised are those that raised.
RunHarness(b) ==
    /\ b = "site" => listed
    /\ \E raised \in SUBSET (Todo(b) \cap Flaky) :
          IF raised # {} /\ ~CatchesFailures(b)
          THEN /\ Step(b, "keyed", "failure")
               /\ UNCHANGED <<work, scored>>
          ELSE LET done == Todo(b) \ raised
               IN  /\ Step(b, "keyed", "scored")
                   /\ \E new \in [done -> {"ranked", "excluded"}] :
                         work' = [work EXCEPT ![b][b] =
                                     [m \in Models |-> IF m \in done THEN new[m] ELSE @[m]]]
                   /\ scored' = [scored EXCEPT ![b] = done # {}]
    /\ UNCHANGED <<tree, current, key, listed, counters>>

TestBoard(b) ==
    /\ Step(b, "scored", "tested")
    /\ UNCHANGED <<tree, work, scored, current, key, listed, counters>>

\* git diff --quiet: merge writes updated_at, so any row written is a difference.
NothingNew(b) ==
    /\ ~scored[b]
    /\ Step(b, "tested", "success")
    /\ UNCHANGED <<tree, work, scored, current, key, listed, counters>>

\* Mutant: git push --force.
PushForced(b) ==
    /\ scored[b]
    /\ Step(b, "tested", "success")
    /\ tree' = work[b]
    /\ current' = [c \in Boards |-> FALSE]
    /\ UNCHANGED <<work, scored, key, listed, counters>>

\* git push: the new head is the job's checkout with its commit.
Push(b) ==
    /\ scored[b] /\ current[b]
    /\ Step(b, "tested", "success")
    /\ tree' = work[b]
    /\ current' = [c \in Boards |-> FALSE]
    /\ UNCHANGED <<work, scored, key, listed, counters>>

\* Mutant: the failure of git push is ignored.
PushRejectedIgnored(b) ==
    /\ scored[b] /\ ~current[b]
    /\ Step(b, "tested", "success")
    /\ UNCHANGED <<tree, work, scored, current, key, listed, counters>>

\* The push is not a fast-forward; the job has no second try.
PushRejected(b) ==
    /\ scored[b] /\ ~current[b]
    /\ Step(b, "tested", "rejected")
    /\ UNCHANGED <<tree, work, scored, current, key, listed, counters>>

Job(b) == \/ Checkout(b) \/ RequireKey(b) \/ PanelMissing(b) \/ RunHarness(b)
          \/ TestBoard(b) \/ NothingNew(b) \/ Push(b) \/ PushRejected(b)

\* timeout-minutes, or a step fails: the listing or a dataset cannot be fetched.
Abort(b) ==
    /\ job[b] \notin {"idle"} \cup Ended /\ aborts < MaxAborts
    /\ aborts' = aborts + 1
    /\ job' = [job EXCEPT ![b] = "failure"]
    /\ UNCHANGED <<tree, work, scored, current, key, listed, outsides, edits>>

OutsidePush ==
    /\ outsides < MaxOutsides
    /\ outsides' = outsides + 1
    /\ current' = [b \in Boards |-> FALSE]
    /\ UNCHANGED <<tree, work, scored, job, key, listed, aborts, edits>>

EditKey ==
    /\ edits < MaxEdits
    /\ edits' = edits + 1
    /\ key' = ~key
    /\ UNCHANGED <<tree, work, scored, current, job, listed, outsides, aborts>>

EditListing ==
    /\ edits < MaxEdits
    /\ edits' = edits + 1
    /\ listed' = ~listed
    /\ UNCHANGED <<tree, work, scored, current, job, key, outsides, aborts>>

Next == \/ \E b \in Boards : Job(b) \/ Abort(b)
        \/ OutsidePush
        \/ EditKey
        \/ EditListing

Spec == Init /\ [][Next]_vars

(***************************************************************************)
(* The schedule fires every week and a job's steps end; aborts, pushes by  *)
(* others and edits are not obliged to happen.                             *)
(***************************************************************************)
FairSpec == Spec /\ \A b \in Boards : WF_vars(Job(b))
-------------------------------------------------------------------------------
\* However the jobs of the two boards overlap, neither takes a row of the other
\* back out of the repository, and no ranked row is ever unranked.
NoCommittedRowLost ==
    [][\A b \in Boards, m \in Models :
          /\ tree[b][m] # "none" => tree'[b][m] # "none"
          /\ tree[b][m] = "ranked" => tree'[b][m] = "ranked"]_vars

\* A stale board is never silent: when the last job of a board is green, every
\* candidate whose scoring cannot raise is on the board, and for the content
\* board every candidate.
GreenJobIsComplete ==
    \A b \in Boards : job[b] = "success" =>
        \A m \in Models : tree[b][m] = "none" => CatchesFailures(b) /\ m \in Flaky

\* Every candidate whose scoring never raises reaches the site board once the key
\* and the panel stay in place, although the other board's pushes may reject its own,
\* a model beside it raises every week and finitely many jobs are aborted.
SiteRecordsSteadyModels ==
    <>[](key /\ listed) => \A m \in Models \ Flaky : <>(tree["site"][m] # "none")

\* README of the content board: the workflow "runs weekly. It scores only candidates
\* not yet on the board and commits `results.json`."
ContentCommitsCandidates == \A m \in Models : <>(tree["content"][m] # "none")
===============================================================================
