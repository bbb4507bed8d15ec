--------------------------- MODULE BoardFile_proofs ---------------------------
(***************************************************************************)
(* Proofs about BoardFile, for any number of models and workers, any keys, *)
(* any flaky models and any bounds on changes and kills.                   *)
(***************************************************************************)
EXTENDS BoardFile, TLAPS

(***************************************************************************)
(* Boards as records.                                                      *)
(***************************************************************************)
LEMMA BoardParts ==
    ASSUME NEW b \in Boards
    PROVE  /\ IsBoard(b) /\ b # Torn /\ b # Absent
           /\ b.identity \in Identities
           /\ OnBoard(b) \subseteq Models
           /\ b.rows \in [OnBoard(b) -> Rows]
  BY DEF Boards, IsBoard, Torn, Absent, OnBoard

LEMMA BoardMade ==
    ASSUME NEW id \in Identities, NEW S \in SUBSET Models, NEW r \in [S -> Rows]
    PROVE  [file |-> "board", identity |-> id, rows |-> r] \in Boards
  BY DEF Boards

LEMMA EmptyIsBoard ==
    ASSUME NEW id \in Identities
    PROVE  /\ EmptyResults(id) \in Boards
           /\ EmptyResults(id).identity = id
           /\ OnBoard(EmptyResults(id)) = {}
<1>1. [m \in {} |-> NoRow] \in [{} -> Rows]
  OBVIOUS
<1> QED
  BY <1>1, BoardMade DEF EmptyResults, OnBoard

(***************************************************************************)
(* What merging one row makes of a board.                                  *)
(***************************************************************************)
Merged(b, m, r) ==
    [b EXCEPT !.rows = [j \in OnBoard(b) \cup {m} |-> IF j = m THEN r ELSE b.rows[j]]]

LEMMA MergedIsBoard ==
    ASSUME NEW b \in Boards, NEW m \in Models, NEW r \in Rows
    PROVE  /\ Merged(b, m, r) \in Boards
           /\ Merged(b, m, r).identity = b.identity
           /\ OnBoard(Merged(b, m, r)) = OnBoard(b) \cup {m}
           /\ Merged(b, m, r).rows[m] = r
           /\ \A j \in OnBoard(b) : j # m => Merged(b, m, r).rows[j] = b.rows[j]
<1> DEFINE S == OnBoard(b) \cup {m}
           rs == [j \in S |-> IF j = m THEN r ELSE b.rows[j]]
<1>1. S \in SUBSET Models /\ rs \in [S -> Rows]
  BY BoardParts
<1>2. Merged(b, m, r) = [file |-> "board", identity |-> b.identity, rows |-> rs]
  BY DEF Merged, Boards
<1>3. DOMAIN rs = S
  OBVIOUS
<1>4. Merged(b, m, r) \in Boards
  BY <1>1, <1>2, BoardMade, BoardParts
<1> QED
  BY <1>2, <1>3, <1>4 DEF OnBoard

(***************************************************************************)
(* A run starts from the board in the file or from an empty one, and in    *)
(* either case under the harness's own value of every compared key.        *)
(***************************************************************************)
LEMMA LoadedIsBoard ==
    ASSUME TypeOK
    PROVE  /\ LoadResults(file) \in Boards
           /\ \A k \in Compared : LoadResults(file).identity[k] = identity[k]
           /\ \/ LoadResults(file) = file /\ IsBoard(file)
              \/ /\ LoadResults(file) = EmptyResults(identity)
                 /\ OnBoard(LoadResults(file)) = {}
                 /\ IsBoard(file) => \E k \in Compared : file.identity[k] # identity[k]
<1>1. IsBoard(file) => file \in Boards
  BY DEF TypeOK, IsBoard, Absent, Torn
<1>2. identity \in Identities
  BY DEF TypeOK
<1> QED
  BY <1>1, <1>2, EmptyIsBoard DEF LoadResults
-------------------------------------------------------------------------------
(***************************************************************************)
(* The inductive invariant.  Each conjunct is what another one needs:      *)
(*   - rows are rows once scored, so that merging keeps the board's type;  *)
(*   - the lock belongs to the worker between Merge and Write;             *)
(*   - what was merged stays in memory, and the file is what is in memory  *)
(*     whenever the lock is free and something was written;                *)
(*   - no worker is at work between runs, when keys may change, and during *)
(*     a run every row and the board agree with the harness on them.       *)
(***************************************************************************)
RowInv == \A m \in Models :
    pc[m] \in {"scored", "merged", "truncated", "done"} => row[m] \in Rows

LockInv == /\ \A m \in Models : pc[m] \in {"merged", "truncated"} => lock = m
           /\ lock # Free => pc[lock] \in {"merged", "truncated"}

MemoryInv == \A m \in Models :
    pc[m] \in {"merged", "truncated", "done"} =>
        m \in OnBoard(results) /\ results.rows[m] = row[m]

FileInv == lock = Free /\ (\E m \in Models : pc[m] = "done") => file = results

IdleInv == run = "idle" =>
    \A m \in Models : pc[m] \in {"out", "done", "failed", "raised", "cancelled"}

IdentityInv ==
    run # "idle" =>
        /\ \A k \in Compared : results.identity[k] = identity[k]
        /\ \A m \in Models : pc[m] \in {"scored", "merged", "truncated"} =>
              row[m].identity = identity

TodoInv == run # "idle" /\ ~rescore =>
    \A m \in Models : pc[m] \in {"queued", "scoring", "scored"} /\ m \in OnBoard(results) =>
        results.rows[m].excluded

IInv == /\ TypeOK /\ RowInv /\ LockInv /\ MemoryInv /\ FileInv /\ IdleInv
        /\ IdentityInv /\ TodoInv
        /\ NeverMixesCompared /\ TornOnlyWhileLocked /\ FileIsKept
-------------------------------------------------------------------------------
LEMMA InitInv == Init => IInv
<1> SUFFICES ASSUME Init PROVE IInv
  OBVIOUS
<1>1. identity \in Identities
  BY BoardFileAssumption DEF Init, Identities
<1>2. TypeOK
  <2>1. results \in Boards
    BY <1>1, EmptyIsBoard DEF Init
  <2>2. 0 \in 0 .. MaxKills
    BY BoardFileAssumption
  <2> QED
    BY <1>1, <2>1, <2>2 DEF Init, TypeOK
<1>3. RowInv /\ LockInv /\ MemoryInv /\ FileInv /\ IdleInv /\ IdentityInv /\ TodoInv
  BY DEF Init, RowInv, LockInv, MemoryInv, FileInv, IdleInv, IdentityInv, TodoInv
<1>4. NeverMixesCompared
  BY <1>1, EmptyIsBoard DEF Init, NeverMixesCompared, SameScores, IsBoard, Absent
<1>5. TornOnlyWhileLocked /\ FileIsKept
  BY DEF Init, TornOnlyWhileLocked, FileIsKept, Absent, Torn, IsBoard
<1> QED
  BY <1>2, <1>3, <1>4, <1>5 DEF IInv

(***************************************************************************)
(* A new run takes over a board that agrees with the harness, and queues   *)
(* no ranked row.                                                          *)
(***************************************************************************)
LEMMA LoadInv == IInv /\ Load => IInv'
<1> SUFFICES ASSUME IInv, Load PROVE IInv'
  OBVIOUS
<1> USE DEF IInv
<1>1. /\ results' = LoadResults(file) /\ run' = "running" /\ run = "idle" /\ file # Torn
      /\ row' = [m \in Models |-> NoRow] /\ rescore' \in BOOLEAN
      /\ UNCHANGED <<site, identity, file, lock, kills>>
  BY DEF Load
<1>2. PICK pool \in Pools :
         LET todo == IF rescore' THEN pool ELSE pool \ Scored(results')
         IN  pc' = [m \in Models |-> IF m \in todo THEN "queued" ELSE "out"]
  BY DEF Load
<1>3. \A m \in Models :
         /\ pc'[m] \in {"queued", "out"}
         /\ pc'[m] = "queued" /\ ~rescore' => m \notin Scored(results')
  BY <1>2
<1>4. pc' \in [Models -> {"queued", "out"}]
  BY <1>2
<1>5. lock = Free
  BY <1>1 DEF IdleInv, LockInv, TypeOK
<1>6. TypeOK'
  BY <1>1, <1>4, LoadedIsBoard DEF TypeOK
<1>7. (RowInv /\ LockInv /\ MemoryInv /\ FileInv /\ IdleInv)'
  BY <1>1, <1>3, <1>5 DEF RowInv, LockInv, MemoryInv, FileInv, IdleInv
<1>8. IdentityInv'
  BY <1>1, <1>3, LoadedIsBoard DEF IdentityInv
<1>9. TodoInv'
  BY <1>1, <1>3 DEF TodoInv, Scored
<1>10. NeverMixesCompared'
  BY <1>1, LoadedIsBoard DEF NeverMixesCompared, SameScores
<1>11. TornOnlyWhileLocked'
  BY <1>1 DEF TornOnlyWhileLocked
<1>12. FileIsKept'
  BY <1>1, <1>3, LoadedIsBoard DEF FileIsKept
<1> QED
  BY <1>6, <1>7, <1>8, <1>9, <1>10, <1>11, <1>12

(***************************************************************************)
(* A step that moves one worker, or the run, and leaves the board, the     *)
(* file, the lock, the keys and the rows of other models alone.            *)
(***************************************************************************)
Moves(m, from, to) ==
    /\ pc[m] \in from /\ pc'[m] \in to
    /\ pc' = [pc EXCEPT ![m] = pc'[m]]
    /\ \A j \in Models : j # m => row'[j] = row[j]
    /\ UNCHANGED <<site, identity, file, results, run, rescore, lock, kills>>

LEMMA MoveInv ==
    ASSUME IInv, NEW m \in Models, run # "idle",
           Moves(m, {"queued", "scoring"},
                    {"scoring", "scored", "failed", "raised", "cancelled"}),
           row' \in [Models -> Rows \cup {NoRow}],
           pc'[m] = "scored" => row'[m] \in Rows /\ row'[m].identity = identity,
           pc'[m] = "scoring" => row'[m] = row[m]
    PROVE  IInv'
<1> USE DEF IInv, Moves
<1>1. pc \in [Models -> {"out", "queued", "scoring", "scored", "merged", "truncated",
                         "done", "failed", "raised", "cancelled"}]
  BY DEF TypeOK
<1>2. \A j \in Models : j # m => pc'[j] = pc[j]
  BY <1>1
<1>3. TypeOK'
  BY <1>1 DEF TypeOK
<1>4. RowInv'
  BY <1>2 DEF RowInv
<1>5. LockInv'
  BY <1>2 DEF LockInv, TypeOK
<1>6. MemoryInv' /\ FileInv'
  BY <1>2 DEF MemoryInv, FileInv
<1>7. IdleInv' /\ IdentityInv'
  BY <1>2 DEF IdleInv, IdentityInv
<1>8. TodoInv'
  BY <1>2 DEF TodoInv
<1>9. NeverMixesCompared' /\ TornOnlyWhileLocked'
  BY DEF NeverMixesCompared, SameScores, TornOnlyWhileLocked
<1>10. FileIsKept'
  BY <1>2 DEF FileIsKept
<1> QED
  BY <1>3, <1>4, <1>5, <1>6, <1>7, <1>8, <1>9, <1>10

LEMMA MainInv == IInv /\ (Exit \/ \E m \in Models : MeetException(m)) => IInv'
<1> SUFFICES ASSUME IInv,
                    \/ Exit
                    \/ run # "idle" /\ run' # "idle" /\ \E m \in Models : MeetException(m)
             PROVE  IInv'
  BY DEF MeetException
<1> USE DEF IInv
<1>1. /\ run' \in {"idle", "aborting"}
      /\ run # "idle"
      /\ UNCHANGED <<site, identity, file, results, rescore, pc, row, lock, kills>>
  BY DEF Exit, MeetException
<1>2. run' = "idle" =>
         \A m \in Models : pc[m] \in {"out", "done", "failed", "raised", "cancelled"}
  BY DEF Exit, Todo
<1>3. TypeOK'
  BY <1>1 DEF TypeOK
<1>4. (RowInv /\ LockInv /\ MemoryInv /\ FileInv)'
  BY <1>1 DEF RowInv, LockInv, MemoryInv, FileInv
<1>5. (IdleInv /\ IdentityInv /\ TodoInv)'
  BY <1>1, <1>2 DEF IdleInv, IdentityInv, TodoInv
<1>6. (NeverMixesCompared /\ TornOnlyWhileLocked /\ FileIsKept)'
  BY <1>1 DEF NeverMixesCompared, SameScores, TornOnlyWhileLocked, FileIsKept
<1> QED
  BY <1>3, <1>4, <1>5, <1>6

LEMMA WorkInv ==
    ASSUME IInv, NEW m \in Models, Cancel(m) \/ Take(m) \/ Score(m) \/ Fail(m)
    PROVE  IInv'
<1>1. TypeOK /\ IdleInv
  BY DEF IInv
<1>2. CASE Cancel(m) \/ Take(m) \/ Fail(m)
  <2>1. /\ run # "idle" /\ UNCHANGED row
        /\ Moves(m, {"queued", "scoring"},
                    {"scoring", "scored", "failed", "raised", "cancelled"})
        /\ pc'[m] # "scored"
    BY <1>1, <1>2 DEF Cancel, Take, Fail, Moves, TypeOK, IdleInv
  <2> QED
    BY <1>1, <2>1, MoveInv DEF TypeOK
<1>3. CASE Score(m)
  <2>1. PICK excluded \in BOOLEAN :
           row' = [row EXCEPT ![m] = [identity |-> identity, excluded |-> excluded]]
    BY <1>3 DEF Score
  <2>2. [identity |-> identity, excluded |-> excluded] \in Rows
    BY <1>1 DEF TypeOK, Rows
  <2>3. row' \in [Models -> Rows \cup {NoRow}] /\ row'[m] \in Rows
        /\ row'[m].identity = identity
    BY <1>1, <2>1, <2>2 DEF TypeOK
  <2>4. /\ run # "idle" /\ pc'[m] = "scored"
        /\ Moves(m, {"queued", "scoring"},
                    {"scoring", "scored", "failed", "raised", "cancelled"})
    BY <1>1, <1>3, <2>1 DEF Score, Moves, TypeOK, IdleInv
  <2> QED
    BY <2>3, <2>4, MoveInv
<1> QED
  BY <1>2, <1>3

(***************************************************************************)
(* The critical section: merge, truncate, write.                           *)
(***************************************************************************)
LEMMA MergeInv == ASSUME IInv, NEW m \in Models, Merge(m) PROVE IInv'
<1> USE DEF IInv
<1>1. /\ pc[m] = "scored" /\ lock = Free /\ lock' = m
      /\ pc' = [pc EXCEPT ![m] = "merged"]
      /\ results' = Merged(results, m, row[m])
      /\ UNCHANGED <<site, identity, file, run, rescore, row, kills>>
  BY DEF Merge, Merged
<1>2. /\ pc'[m] = "merged"
      /\ \A j \in Models : j # m => pc'[j] = pc[j]
      /\ m # Free
  BY <1>1, BoardFileAssumption DEF TypeOK, Models, Free
<1>3. row[m] \in Rows /\ results \in Boards
  BY <1>1 DEF RowInv, TypeOK
<1>4. run # "idle"
  BY <1>1 DEF IdleInv
<1>5. row[m].identity = identity
  BY <1>1, <1>4 DEF IdentityInv
<1>6. /\ results' \in Boards
      /\ results'.identity = results.identity
      /\ OnBoard(results') = OnBoard(results) \cup {m}
      /\ results'.rows[m] = row[m]
      /\ \A j \in OnBoard(results) : j # m => results'.rows[j] = results.rows[j]
  BY <1>1, <1>3, MergedIsBoard
<1>7. TypeOK'
  BY <1>1, <1>6 DEF TypeOK
<1>8. (RowInv /\ LockInv)'
  <2>1. \A j \in Models : j # Free
    BY BoardFileAssumption DEF Models, Free
  <2> QED
    BY <1>1, <1>2, <1>3, <2>1 DEF RowInv, LockInv
<1>9. (MemoryInv /\ FileInv)'
  BY <1>1, <1>2, <1>6 DEF MemoryInv, FileInv
<1>10. (IdleInv /\ IdentityInv)'
  BY <1>1, <1>2, <1>4, <1>5, <1>6 DEF IdleInv, IdentityInv
<1>11. TodoInv'
  BY <1>1, <1>2, <1>6 DEF TodoInv
<1>12. NeverMixesCompared'
  BY <1>1, <1>4, <1>5, <1>6 DEF NeverMixesCompared, SameScores, IdentityInv
<1>13. TornOnlyWhileLocked'
  BY <1>1, <1>2 DEF TornOnlyWhileLocked
<1>14. FileIsKept'
  BY <1>1, <1>2, <1>6 DEF FileIsKept
<1> QED
  BY <1>7, <1>8, <1>9, <1>10, <1>11, <1>12, <1>13, <1>14

LEMMA TruncateInv == ASSUME IInv, NEW m \in Models, Truncate(m) PROVE IInv'
<1> USE DEF IInv
<1>1. /\ pc[m] = "merged" /\ file' = Torn
      /\ pc' = [pc EXCEPT ![m] = "truncated"]
      /\ UNCHANGED <<site, identity, results, run, rescore, row, lock, kills>>
  BY DEF Truncate
<1>2. /\ pc'[m] = "truncated"
      /\ \A j \in Models : j # m => pc'[j] = pc[j]
      /\ m # Free /\ lock = m
  BY <1>1, BoardFileAssumption DEF TypeOK, Models, Free, LockInv
<1>3. TypeOK'
  BY <1>1 DEF TypeOK
<1>4. (RowInv /\ LockInv)'
  BY <1>1, <1>2 DEF RowInv, LockInv
<1>5. (MemoryInv /\ FileInv)'
  BY <1>1, <1>2 DEF MemoryInv, FileInv
<1>6. (IdleInv /\ IdentityInv /\ TodoInv)'
  BY <1>1, <1>2 DEF IdleInv, IdentityInv, TodoInv
<1>7. (NeverMixesCompared /\ FileIsKept)'
  BY <1>1 DEF NeverMixesCompared, SameScores, FileIsKept, IsBoard, Torn
<1>8. TornOnlyWhileLocked'
  BY <1>1, <1>2 DEF TornOnlyWhileLocked
<1> QED
  BY <1>3, <1>4, <1>5, <1>6, <1>7, <1>8

LEMMA WriteInv == ASSUME IInv, NEW m \in Models, Write(m) PROVE IInv'
<1> USE DEF IInv
<1>1. /\ pc[m] = "truncated" /\ file' = results /\ lock' = Free
      /\ pc' = [pc EXCEPT ![m] = "done"]
      /\ UNCHANGED <<site, identity, results, run, rescore, row, kills>>
  BY DEF Write
<1>2. /\ pc'[m] = "done"
      /\ \A j \in Models : j # m => pc'[j] = pc[j]
      /\ \A j \in Models : pc[j] \in {"merged", "truncated"} => j = m
  BY <1>1 DEF TypeOK, LockInv
<1>3. results \in Boards /\ results # Torn
  BY BoardParts DEF TypeOK
<1>4. TypeOK'
  BY <1>1, <1>3 DEF TypeOK
<1>5. (RowInv /\ LockInv)'
  BY <1>1, <1>2 DEF RowInv, LockInv
<1>6. (MemoryInv /\ FileInv)'
  BY <1>1, <1>2 DEF MemoryInv, FileInv
<1>7. (IdleInv /\ IdentityInv /\ TodoInv)'
  BY <1>1, <1>2 DEF IdleInv, IdentityInv, TodoInv
<1>8. NeverMixesCompared'
  BY <1>1 DEF NeverMixesCompared, SameScores
<1>9. TornOnlyWhileLocked' /\ FileIsKept'
  BY <1>1, <1>3 DEF TornOnlyWhileLocked, FileIsKept
<1> QED
  BY <1>4, <1>5, <1>6, <1>7, <1>8, <1>9

(***************************************************************************)
(* The environment: a kill forgets everything but the file, a change of    *)
(* the harness happens between runs.                                       *)
(***************************************************************************)
LEMMA KillInv == IInv /\ Kill => IInv'
<1> SUFFICES ASSUME IInv, Kill PROVE IInv'
  OBVIOUS
<1> USE DEF IInv
<1>1. /\ kills' = kills + 1 /\ kills < MaxKills /\ run' = "idle"
      /\ pc' = [m \in Models |-> "out"] /\ row' = [m \in Models |-> NoRow]
      /\ results' = EmptyResults(identity) /\ lock' = Free
      /\ UNCHANGED <<site, identity, file, rescore>>
  BY DEF Kill
<1>2. kills' \in 0 .. MaxKills /\ kills' > 0
  BY <1>1, BoardFileAssumption DEF TypeOK
<1>3. results' \in Boards /\ OnBoard(results') = {}
  BY <1>1, EmptyIsBoard DEF TypeOK
<1>4. TypeOK'
  BY <1>1, <1>2, <1>3 DEF TypeOK
<1>5. (RowInv /\ LockInv /\ MemoryInv /\ FileInv)'
  BY <1>1 DEF RowInv, LockInv, MemoryInv, FileInv
<1>6. (IdleInv /\ IdentityInv /\ TodoInv /\ FileIsKept)'
  BY <1>1 DEF IdleInv, IdentityInv, TodoInv, FileIsKept
<1>7. NeverMixesCompared'
  BY <1>1, <1>3 DEF NeverMixesCompared, SameScores
<1>8. TornOnlyWhileLocked'
  BY <1>2 DEF TornOnlyWhileLocked
<1> QED
  BY <1>4, <1>5, <1>6, <1>7, <1>8

LEMMA ChangeInv == ASSUME IInv, NEW k \in Keys, ChangeHarness(k) PROVE IInv'
<1> USE DEF IInv
<1>1. /\ run = "idle" /\ identity[k] < MaxChanges
      /\ identity' = [identity EXCEPT ![k] = @ + 1]
      /\ UNCHANGED <<site, file, results, run, rescore, pc, row, lock, kills>>
  BY DEF ChangeHarness
<1>2. identity' \in Identities
  BY <1>1, BoardFileAssumption DEF TypeOK, Identities
<1>3. TypeOK'
  BY <1>1, <1>2 DEF TypeOK
<1>4. (RowInv /\ LockInv /\ MemoryInv /\ FileInv /\ IdleInv)'
  BY <1>1 DEF RowInv, LockInv, MemoryInv, FileInv, IdleInv
<1>5. (IdentityInv /\ TodoInv /\ FileIsKept)'
  BY <1>1 DEF IdentityInv, TodoInv, FileIsKept
<1>6. (NeverMixesCompared /\ TornOnlyWhileLocked)'
  BY <1>1 DEF NeverMixesCompared, SameScores, TornOnlyWhileLocked
<1> QED
  BY <1>3, <1>4, <1>5, <1>6

LEMMA StutterInv == IInv /\ UNCHANGED vars => IInv'
  BY DEF vars, IInv, TypeOK, RowInv, LockInv, MemoryInv, FileInv, IdleInv, IdentityInv,
         TodoInv, NeverMixesCompared, SameScores, TornOnlyWhileLocked, FileIsKept

LEMMA StepInv == IInv /\ [Next]_vars => IInv'
  BY LoadInv, MainInv, WorkInv, MergeInv, TruncateInv, WriteInv, KillInv, ChangeInv,
     StutterInv
  DEF Next, Main, Worker
-------------------------------------------------------------------------------
(***************************************************************************)
(* The invariant holds of every reachable state.                           *)
(***************************************************************************)
THEOREM Invariance == Spec => []IInv
  BY InitInv, StepInv, PTL DEF Spec

(***************************************************************************)
(* Every variable keeps its type; in particular what main writes is always *)
(* a whole board of scored rows.                                           *)
(***************************************************************************)
THEOREM TypeCorrect == Spec => []TypeOK
<1>1. IInv => TypeOK
  BY DEF IInv
<1> QED
  BY <1>1, Invariance, PTL

(***************************************************************************)
(* No update of the file is lost: a finished worker's row is in it, as it  *)
(* was scored, whatever the others have merged and written since.          *)
(***************************************************************************)
THEOREM NoLostRowTheorem == Spec => []NoLostRow
<1>1. IInv => NoLostRow
  BY BoardParts DEF IInv, NoLostRow, FileInv, MemoryInv, TypeOK
<1> QED
  BY <1>1, Invariance, PTL

(***************************************************************************)
(* No board, in memory or in the file, mixes rows scored under different   *)
(* values of a key that _load_results compares.                            *)
(***************************************************************************)
THEOREM NeverMixesTheorem == Spec => []NeverMixesCompared
<1>1. IInv => NeverMixesCompared
  BY DEF IInv
<1> QED
  BY <1>1, Invariance, PTL

(***************************************************************************)
(* The file is torn only inside the critical section or after a kill.      *)
(***************************************************************************)
THEOREM TornTheorem == Spec => []TornOnlyWhileLocked
<1>1. IInv => TornOnlyWhileLocked
  BY DEF IInv
<1> QED
  BY <1>1, Invariance, PTL

(***************************************************************************)
(* A run continues the whole board in the file or leaves it alone until it *)
(* has a row of its own.                                                   *)
(***************************************************************************)
THEOREM FileIsKeptTheorem == Spec => []FileIsKept
<1>1. IInv => FileIsKept
  BY DEF IInv
<1> QED
  BY <1>1, Invariance, PTL

(***************************************************************************)
(* Only Merge writes a row during a run, and without --rescore its model   *)
(* was queued because it had no row or an excluded one.                    *)
(***************************************************************************)
THEOREM RankedRowTheorem == Spec => RankedRowIsFinal
<1> DEFINE Final == run # "idle" /\ run' # "idle" /\ ~rescore =>
          \A m \in OnBoard(results) :
              ~results.rows[m].excluded =>
                  m \in OnBoard(results') /\ results'.rows[m] = results.rows[m]
<1>1. IInv /\ [Next]_vars => Final
  <2> SUFFICES ASSUME IInv, [Next]_vars, run # "idle", run' # "idle", ~rescore,
                      NEW m \in OnBoard(results), ~results.rows[m].excluded
               PROVE  m \in OnBoard(results') /\ results'.rows[m] = results.rows[m]
    OBVIOUS
  <2>1. CASE UNCHANGED results
    BY <2>1
  <2>2. ASSUME NEW j \in Models, Merge(j)
        PROVE  m \in OnBoard(results') /\ results'.rows[m] = results.rows[m]
    <3>1. pc[j] = "scored" /\ results' = Merged(results, j, row[j])
      BY <2>2 DEF Merge, Merged
    <3>2. j # m
      BY <3>1 DEF IInv, TodoInv
    <3>3. results \in Boards /\ row[j] \in Rows
      BY <3>1 DEF IInv, TypeOK, RowInv
    <3> QED
      BY <3>1, <3>2, <3>3, MergedIsBoard
  <2>3. UNCHANGED results \/ \E j \in Models : Merge(j)
    BY DEF Next, Main, Worker, vars, Load, Exit, MeetException, Cancel, Take, Score, Fail,
           Truncate, Write, Kill, ChangeHarness
  <2> QED
    BY <2>1, <2>2, <2>3
<1>2. Spec => [][Final]_vars
  BY <1>1, Invariance, PTL DEF Spec
<1> QED
  BY <1>2 DEF RankedRowIsFinal
===============================================================================
