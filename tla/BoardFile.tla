------------------------------- MODULE BoardFile ------------------------------
(***************************************************************************)
(* main of a board harness: load results.json, find the models to score,   *)
(* score them in a pool of workers, and under a lock merge each row into   *)
(* the results in memory and write the whole file again.  The process may  *)
(* be killed at any moment and the harness may be changed between runs.    *)
(*                                                                         *)
(* Both boards have this main.  The variable site says whose it is: the    *)
(* site-translation board's retries excluded rows and catches exceptions,  *)
(* the content-safety board's does neither.                                *)
(***************************************************************************)
EXTENDS Integers, FiniteSets

CONSTANTS M,              \* the models are 1 .. M, in the order of their ids
          Workers,        \* --workers
          Keys,           \* what a score depends on: prompt, item set, datasets, ...
          Compared,       \* the keys that _load_results compares
          Flaky,          \* models whose score_model may raise
          Pools,          \* what the listing, --models and --max-models may leave
          MaxChanges,     \* bound: changes of each key
          MaxKills        \* bound: kills of the process

Models == 1 .. M

ASSUME BoardFileAssumption ==
    /\ M \in Nat
    /\ Workers \in Nat \ {0}
    /\ Compared \subseteq Keys
    /\ Flaky \subseteq Models
    /\ Pools \subseteq SUBSET Models
    /\ MaxChanges \in Nat /\ MaxKills \in Nat

Absent == [file |-> "absent"]
Torn   == [file |-> "torn"]
Free   == 0

VARIABLES site,      \* the harness is the site-translation board's
          identity,  \* the harness's own value of each key
          file,      \* results.json
          results,   \* the board in memory
          run,       \* "idle", "running", or "aborting" after an exception
          rescore,   \* --rescore
          pc,        \* where the worker of each model is
          row,       \* the row score_model returned for it
          lock,      \* the model whose worker holds the lock, or Free
          kills      \* kills so far

vars == <<site, identity, file, results, run, rescore, pc, row, lock, kills>>

Identities == [Keys -> 0 .. MaxChanges]
Rows       == [identity : Identities, excluded : BOOLEAN]
Boards     == UNION {[file : {"board"}, identity : Identities, rows : [S -> Rows]] :
                        S \in SUBSET Models}
NoRow      == [identity |-> "none"]

EmptyResults(id) == [file |-> "board", identity |-> id, rows |-> [m \in {} |-> NoRow]]

OnBoard(b) == DOMAIN b.rows
IsBoard(f) == f.file = "board"

TypeOK ==
    /\ site \in BOOLEAN
    /\ identity \in Identities
    /\ file \in {Absent, Torn} \/ file \in Boards
    /\ results \in Boards
    /\ run \in {"idle", "running", "aborting"}
    /\ rescore \in BOOLEAN
    /\ pc \in [Models -> {"out", "queued", "scoring", "scored", "merged", "truncated",
                          "done", "failed", "raised", "cancelled"}]
    /\ row \in [Models -> Rows \cup {NoRow}]
    /\ lock \in Models \cup {Free}
    /\ kills \in 0 .. MaxKills

Init ==
    /\ site \in BOOLEAN
    /\ identity = [k \in Keys |-> 0]
    /\ file = Absent
    /\ results = EmptyResults(identity)
    /\ run = "idle"
    /\ rescore = FALSE
    /\ pc = [m \in Models |-> "out"]
    /\ row = [m \in Models |-> NoRow]
    /\ lock = Free
    /\ kills = 0
-------------------------------------------------------------------------------
(***************************************************************************)
(* The main thread.                                                        *)
(***************************************************************************)

\* Mutants: the file is continued whatever its identity; it is never continued.
LoadAnyResults(f) == IF IsBoard(f) THEN f ELSE EmptyResults(identity)
LoadNoResults(f)  == EmptyResults(identity)

\* _load_results: a board of another identity is not continued.
LoadResults(f) ==
    IF IsBoard(f) /\ \A k \in Compared : f.identity[k] = identity[k]
    THEN f ELSE EmptyResults(identity)

\* Mutant: only excluded rows count as scored.
ScoredExcludedOnly(b) == {m \in OnBoard(b) : b.rows[m].excluded}

Scored(b) == {m \in OnBoard(b) : ~(site /\ b.rows[m].excluded)}

\* Reading a torn file raises JSONDecodeError before anything else happens, so
\* this action is not enabled then and the run does not take place.
Load ==
    /\ run = "idle" /\ file # Torn
    /\ results' = LoadResults(file)
    /\ rescore' \in BOOLEAN
    /\ \E pool \in Pools :
          LET todo == IF rescore' THEN pool ELSE pool \ Scored(results')
          IN  pc' = [m \in Models |-> IF m \in todo THEN "queued" ELSE "out"]
    /\ row' = [m \in Models |-> NoRow]
    /\ run' = "running"
    /\ UNCHANGED <<site, identity, file, lock, kills>>

Todo == {m \in Models : pc[m] # "out"}

\* list(pool.map(...)) meets the exception at the model's place in the order.
MeetException(m) ==
    /\ run = "running" /\ pc[m] = "raised"
    /\ \A j \in Todo : j < m => pc[j] \in {"done", "failed"}
    /\ run' = "aborting"
    /\ UNCHANGED <<site, identity, file, results, rescore, pc, row, lock, kills>>

\* What has not started is cancelled, the last one first.
Cancel(m) ==
    /\ run = "aborting" /\ pc[m] = "queued"
    /\ \A j \in Models : j > m => pc[j] # "queued"
    /\ pc' = [pc EXCEPT ![m] = "cancelled"]
    /\ UNCHANGED <<site, identity, file, results, run, rescore, row, lock, kills>>

\* The pool has waited for its threads; main returns, or the exception goes on.
Exit ==
    /\ \/ run = "running" /\ \A m \in Todo : pc[m] \in {"done", "failed"}
       \/ run = "aborting" /\ \A m \in Todo : pc[m] \in {"done", "failed", "raised", "cancelled"}
    /\ run' = "idle"
    /\ UNCHANGED <<site, identity, file, results, rescore, pc, row, lock, kills>>
-------------------------------------------------------------------------------
(***************************************************************************)
(* One worker, running _one for a model.                                   *)
(***************************************************************************)
Busy == {m \in Models : pc[m] \in {"scoring", "scored", "merged", "truncated"}}

Take(m) ==
    /\ run # "idle" /\ pc[m] = "queued"
    /\ \A j \in Models : j < m => pc[j] # "queued"
    /\ Cardinality(Busy) < Workers
    /\ pc' = [pc EXCEPT ![m] = "scoring"]
    /\ UNCHANGED <<site, identity, file, results, run, rescore, row, lock, kills>>

\* score_model returns a row (ModelScore says what it promises).
Score(m) ==
    /\ pc[m] = "scoring"
    /\ pc' = [pc EXCEPT ![m] = "scored"]
    /\ \E excluded \in BOOLEAN :
          row' = [row EXCEPT ![m] = [identity |-> identity, excluded |-> excluded]]
    /\ UNCHANGED <<site, identity, file, results, run, rescore, lock, kills>>

\* Mutants: the caught exception falls through to the merge; it is not caught.
FailFallsThrough(m) ==
    /\ pc[m] = "scoring" /\ m \in Flaky
    /\ pc' = [pc EXCEPT ![m] = "scored"]
    /\ UNCHANGED <<site, identity, file, results, run, rescore, row, lock, kills>>

FailUncaught(m) ==
    /\ pc[m] = "scoring" /\ m \in Flaky
    /\ pc' = [pc EXCEPT ![m] = "raised"]
    /\ UNCHANGED <<site, identity, file, results, run, rescore, row, lock, kills>>

\* score_model raises.
Fail(m) ==
    /\ pc[m] = "scoring" /\ m \in Flaky
    /\ pc' = [pc EXCEPT ![m] = IF site THEN "failed" ELSE "raised"]
    /\ UNCHANGED <<site, identity, file, results, run, rescore, row, lock, kills>>

\* Mutant: the lock is not waited for.
MergeUnlocked(m) ==
    /\ pc[m] = "scored"
    /\ lock' = m
    /\ pc' = [pc EXCEPT ![m] = "merged"]
    /\ results' = [results EXCEPT !.rows =
                      [j \in OnBoard(results) \cup {m} |->
                          IF j = m THEN row[m] ELSE results.rows[j]]]
    /\ UNCHANGED <<site, identity, file, run, rescore, row, kills>>

\* with lock: merge(results, [row])
Merge(m) ==
    /\ pc[m] = "scored" /\ lock = Free
    /\ lock' = m
    /\ pc' = [pc EXCEPT ![m] = "merged"]
    /\ results' = [results EXCEPT !.rows =
                      [j \in OnBoard(results) \cup {m} |->
                          IF j = m THEN row[m] ELSE results.rows[j]]]
    /\ UNCHANGED <<site, identity, file, run, rescore, row, kills>>

\* Mutant: the lock covers the merge only.
TruncateAfterUnlock(m) ==
    /\ pc[m] = "merged"
    /\ file' = Torn
    /\ lock' = Free
    /\ pc' = [pc EXCEPT ![m] = "truncated"]
    /\ UNCHANGED <<site, identity, results, run, rescore, row, kills>>

\* write_text opens the file, which truncates it, ...
Truncate(m) ==
    /\ pc[m] = "merged"
    /\ file' = Torn
    /\ pc' = [pc EXCEPT ![m] = "truncated"]
    /\ UNCHANGED <<site, identity, results, run, rescore, row, lock, kills>>

\* ... then writes it whole; the lock is released.
Write(m) ==
    /\ pc[m] = "truncated"
    /\ file' = results
    /\ lock' = Free
    /\ pc' = [pc EXCEPT ![m] = "done"]
    /\ UNCHANGED <<site, identity, results, run, rescore, row, kills>>

Worker(m) == Take(m) \/ Score(m) \/ Fail(m) \/ Merge(m) \/ Truncate(m) \/ Write(m)
-------------------------------------------------------------------------------
(***************************************************************************)
(* The environment.                                                        *)
(***************************************************************************)
Kill ==
    /\ run # "idle" /\ kills < MaxKills
    /\ kills' = kills + 1
    /\ run' = "idle"
    /\ pc' = [m \in Models |-> "out"]
    /\ row' = [m \in Models |-> NoRow]
    /\ results' = EmptyResults(identity)
    /\ lock' = Free
    /\ UNCHANGED <<site, identity, file, rescore>>

\* A new prompt, dataset, judge panel, ...: the next run uses it.
ChangeHarness(k) ==
    /\ run = "idle" /\ identity[k] < MaxChanges
    /\ identity' = [identity EXCEPT ![k] = @ + 1]
    /\ UNCHANGED <<site, file, results, run, rescore, pc, row, lock, kills>>

Main == Load \/ Exit \/ \E m \in Models : MeetException(m) \/ Cancel(m)

Next == \/ Main
        \/ \E m \in Models : Worker(m)
        \/ Kill
        \/ \E k \in Keys : ChangeHarness(k)

Spec == Init /\ [][Next]_vars

(***************************************************************************)
(* Threads are scheduled, score_model comes back, and the board is run     *)
(* again (the workflow is weekly).  Nothing obliges the environment.       *)
(***************************************************************************)
FairSpec == Spec /\ WF_vars(Main) /\ \A m \in Models : WF_vars(Worker(m))
-------------------------------------------------------------------------------
(***************************************************************************)
(* Safety.                                                                 *)
(***************************************************************************)
SameScores(k, b) == \A m \in OnBoard(b) : b.rows[m].identity[k] = b.identity[k]

\* A board never mixes rows scored under different values of a compared key, in
\* memory or in the file, through any sequence of runs, kills and changes.
NeverMixesCompared ==
    \A k \in Compared : SameScores(k, results) /\ (IsBoard(file) => SameScores(k, file))

\* A worker that has finished finds its own row in the file, whatever the other
\* workers wrote since: no update is lost.
NoLostRow ==
    run # "idle" /\ lock = Free
        => \A m \in Models : pc[m] = "done"
               => IsBoard(file) /\ m \in OnBoard(file) /\ file.rows[m] = row[m]

\* The file is only ever torn while a worker holds the lock, or after a kill.
TornOnlyWhileLocked == file = Torn => lock # Free \/ kills > 0

\* A run that continues the board in the file has all its rows in memory, and one
\* that starts a new board leaves the old file alone until its first row is ready.
FileIsKept ==
    run # "idle" /\ IsBoard(file)
        => \/ file.identity = results.identity /\ OnBoard(file) \subseteq OnBoard(results)
           \/ /\ \E k \in Compared : file.identity[k] # identity[k]
              /\ \A m \in Models : pc[m] \notin {"truncated", "done"}

\* A ranked row of the board that a run continues is final: no step of the run replaces or
\* drops it unless --rescore asks for it.  (A run that starts a new board leaves it out.)
RankedRowIsFinal ==
    [][run # "idle" /\ run' # "idle" /\ ~rescore =>
          \A m \in OnBoard(results) :
              ~results.rows[m].excluded =>
                  m \in OnBoard(results') /\ results'.rows[m] = results.rows[m]]_vars

(***************************************************************************)
(* Liveness: whatever the flaky models beside it do, a model whose scoring *)
(* never raises reaches the file of the site board once a run sets out to  *)
(* score it, unless the run is killed.                                     *)
(***************************************************************************)
SteadyModelsAreRecorded ==
    site /\ [](kills = 0)
        => \A m \in Models \ Flaky :
              pc[m] = "queued" ~> IsBoard(file) /\ m \in OnBoard(file)

(***************************************************************************)
(* What the source's comments and the board's README say.                  *)
(***************************************************************************)

\* harness.py: "merge + write one row at a time, so an interrupted run keeps its progress".
InterruptedRunKeepsProgress == run = "idle" => file # Torn

\* README, of the dataset sha256s, the item-set digest and the prompt sha256: "A change
\* to any of them, or to HARNESS_VERSION, starts a new board instead of mixing scores."
AnyChangeStartsNewBoard == IsBoard(file) => \A k \in Keys : SameScores(k, file)
===============================================================================
